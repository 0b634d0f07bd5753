------------------------------ MODULE FirstComment ------------------------------
(***************************************************************************)
(* The first comment of a published row (src/apps/publisher/engine.py):    *)
(* the publish paths queue a background task, the task posts the comment,  *)
(* and a failed task counts the failure and queues the next one.           *)
(*                                                                         *)
(* A worker process runs publish cycles and queued tasks, one at a time.   *)
(* Each database statement and each call of the provider is a step.  The   *)
(* queue of django-background-tasks hands every task to one worker, and    *)
(* again to another when the first one died.                               *)
(***************************************************************************)
EXTENDS Integers, FiniteSets

CONSTANTS
  Workers,       \* processes that run publish cycles and tasks
  Rows,          \* published PlatformPosts with a first comment
  Reconcilable,  \* rows whose provider can look for its own comment
  MaxRetries,    \* FIRST_COMMENT_MAX_RETRIES
  Faults,        \* crash: a worker dies; unrecorded: the POSTED update raises
  MaxCalls,      \* bound: publish paths that reach one row
  MaxCrashes     \* bound: workers that die

ASSUME FirstCommentAssumption ==
  /\ IsFiniteSet(Workers)
  /\ Rows # {}
  /\ Reconcilable \subseteq Rows
  /\ MaxRetries \in Nat
  /\ Faults \subseteq {"crash", "unrecorded"}
  /\ MaxCalls \in Nat
  /\ MaxCrashes \in Nat

VARIABLES
  fcStatus,  \* first_comment_status
  retries,   \* first_comment_retry_count
  tasks,     \* queued tasks of a row
  step,      \* what a worker does next
  row,       \* the row it does it for
  seen,      \* the retry count its task has read
  reached,     \* publish paths that have reached a row
  crashes,   \* workers that died
  comments   \* the row's first comments on the platform, counted up to MaxComments

commentVars == <<fcStatus, retries, tasks, step, row, seen, reached, crashes, comments>>

FirstCommentStatus == {"none", "pending", "posted", "failed"}
CallStep == {"call", "queued"}
CommentTaskStep == {"lookup", "send", "landed", "failing", "refused", "counted", "done"}
MaxTasks == MaxCalls + MaxCrashes
MaxComments == MaxTasks + 1

CommentTypeOK ==
  /\ fcStatus \in [Rows -> FirstCommentStatus]
  /\ retries \in [Rows -> 0 .. MaxRetries + MaxTasks]
  /\ tasks \in [Rows -> 0 .. MaxTasks]
  /\ step \in [Workers -> {"idle"} \cup CallStep \cup CommentTaskStep]
  /\ row \in [Workers -> Rows]
  /\ seen \in [Workers -> 0 .. MaxRetries + MaxTasks]
  /\ reached \in [Rows -> 0 .. MaxCalls]
  /\ crashes \in 0 .. MaxCrashes
  /\ comments \in [Rows -> 0 .. MaxComments]

CommentInit ==
  /\ fcStatus = [r \in Rows |-> "none"]
  /\ retries = [r \in Rows |-> 0]
  /\ tasks = [r \in Rows |-> 0]
  /\ step = [w \in Workers |-> "idle"]
  /\ row = [w \in Workers |-> CHOOSE r \in Rows : TRUE]
  /\ seen = [w \in Workers |-> 0]
  /\ reached = [r \in Rows |-> 0]
  /\ crashes = 0
  /\ comments = [r \in Rows |-> 0]

Goto(w, s) == step' = [step EXCEPT ![w] = s]

-------------------------------------------------------------------------------
(* _maybe_schedule_first_comment *)

\* A publish path reaches the row and finds no comment queued or posted.
StartCall(w, r) ==
  /\ step[w] = "idle"
  /\ reached[r] < MaxCalls
  /\ reached' = [reached EXCEPT ![r] = @ + 1]
  /\ fcStatus[r] \notin {"pending", "posted"}
  /\ Goto(w, "call")
  /\ row' = [row EXCEPT ![w] = r]
  /\ UNCHANGED <<fcStatus, retries, tasks, seen, crashes, comments>>

\* The task is queued first, the row marked after.
Enqueue(w) ==
  /\ step[w] = "call"
  /\ tasks' = [tasks EXCEPT ![row[w]] = @ + 1]
  /\ Goto(w, "queued")
  /\ UNCHANGED <<fcStatus, retries, row, seen, reached, crashes, comments>>

MarkPending(w) ==
  /\ step[w] = "queued"
  /\ fcStatus' = [fcStatus EXCEPT ![row[w]] = "pending"]
  /\ Goto(w, "idle")
  /\ UNCHANGED <<retries, tasks, row, seen, reached, crashes, comments>>

-------------------------------------------------------------------------------
(* _post_first_comment_task *)

\* Load the row.  Nothing to do when it is posted; a row without a platform id
\* is refused, credentials may fail for now or for good, and a retry looks for
\* the comment first where the provider can.
StartTask(w, r) ==
  /\ step[w] = "idle"
  /\ tasks[r] > 0
  /\ tasks' = [tasks EXCEPT ![r] = @ - 1]
  /\ row' = [row EXCEPT ![w] = r]
  /\ seen' = [seen EXCEPT ![w] = retries[r]]
  /\ \/ fcStatus[r] = "posted" /\ Goto(w, "done")
     \/ /\ fcStatus[r] # "posted"
        /\ \/ Goto(w, "refused")
           \/ Goto(w, "failing")
           \/ Goto(w, IF retries[r] > 0 /\ r \in Reconcilable THEN "lookup" ELSE "send")
  /\ UNCHANGED <<fcStatus, retries, reached, crashes, comments>>

LookupThen(w, onError) ==
  /\ step[w] = "lookup"
  /\ \/ comments[row[w]] > 0 /\ Goto(w, "landed")
     \/ comments[row[w]] = 0 /\ Goto(w, "send")
     \/ Goto(w, onError)
  /\ UNCHANGED <<fcStatus, retries, tasks, row, seen, reached, crashes, comments>>

\* find_own_comment
Lookup(w) == LookupThen(w, "failing")

Commented(r) == comments' = [comments EXCEPT ![r] = IF @ < MaxComments THEN @ + 1 ELSE @]

\* Mutant: an unknown outcome is always retried.
AfterUnknownHopeful(r) == "failing"

\* A timeout or a 5xx is retried only where the next attempt can look first.
AfterUnknown(r) == IF r \in Reconcilable THEN "failing" ELSE "refused"

\* publish_comment: posted; not now (429, or a 401 that a new token may cure);
\* refused by a 4xx, which one platform answers after creating the comment;
\* or no answer, with the comment created or not.
Send(w) ==
  LET r == row[w]
  IN  /\ step[w] = "send"
      /\ \/ Commented(r) /\ Goto(w, "landed")
         \/ UNCHANGED comments /\ Goto(w, "failing")
         \/ (UNCHANGED comments \/ Commented(r)) /\ Goto(w, "refused")
         \/ (UNCHANGED comments \/ Commented(r)) /\ Goto(w, AfterUnknown(r))
      /\ UNCHANGED <<fcStatus, retries, tasks, row, seen, reached, crashes>>

\* _mark_first_comment_posted swallows what the update raises.
MarkPosted(w) ==
  /\ step[w] = "landed"
  /\ \/ fcStatus' = [fcStatus EXCEPT ![row[w]] = "posted"]
     \/ "unrecorded" \in Faults /\ UNCHANGED fcStatus
  /\ Goto(w, "done")
  /\ UNCHANGED <<retries, tasks, row, seen, reached, crashes, comments>>

-------------------------------------------------------------------------------
(* _record_first_comment_failure *)

\* Mutant: the budget is never used up.
ExhaustedNever(w) == FALSE

Exhausted(w) == seen[w] >= MaxRetries

GiveUp(w) ==
  /\ \/ step[w] = "refused"
     \/ step[w] = "failing" /\ Exhausted(w)
  /\ fcStatus' = [fcStatus EXCEPT ![row[w]] = "failed"]
  /\ Goto(w, "done")
  /\ UNCHANGED <<retries, tasks, row, seen, reached, crashes, comments>>

\* The count is incremented in the database, not from the copy.
CountFailure(w) ==
  /\ step[w] = "failing"
  /\ ~Exhausted(w)
  /\ fcStatus' = [fcStatus EXCEPT ![row[w]] = "pending"]
  /\ retries' = [retries EXCEPT ![row[w]] = @ + 1]
  /\ Goto(w, "counted")
  /\ UNCHANGED <<tasks, row, seen, reached, crashes, comments>>

\* Mutant: the next task is never queued.
RequeueForgotten(w) ==
  /\ step[w] = "counted"
  /\ Goto(w, "done")
  /\ UNCHANGED <<fcStatus, retries, tasks, row, seen, reached, crashes, comments>>

Requeue(w) ==
  /\ step[w] = "counted"
  /\ tasks' = [tasks EXCEPT ![row[w]] = @ + 1]
  /\ Goto(w, "done")
  /\ UNCHANGED <<fcStatus, retries, row, seen, reached, crashes, comments>>

\* The task returned: its queue row is deleted.
Finish(w) ==
  /\ step[w] = "done"
  /\ Goto(w, "idle")
  /\ seen' = [seen EXCEPT ![w] = 0]
  /\ UNCHANGED <<fcStatus, retries, tasks, row, reached, crashes, comments>>

\* A worker dies.  The lock on its task expires and the task runs again; a
\* publish cycle does not come back to a row that is published.
Crash(w) ==
  /\ "crash" \in Faults
  /\ crashes < MaxCrashes
  /\ step[w] # "idle"
  /\ crashes' = crashes + 1
  /\ tasks' = IF step[w] \in CommentTaskStep THEN [tasks EXCEPT ![row[w]] = @ + 1] ELSE tasks
  /\ Goto(w, "idle")
  /\ seen' = [seen EXCEPT ![w] = 0]
  /\ UNCHANGED <<fcStatus, retries, row, reached, comments>>

-------------------------------------------------------------------------------
Progress(w) ==
  \/ Enqueue(w)
  \/ MarkPending(w)
  \/ \E r \in Rows : StartTask(w, r)
  \/ Lookup(w)
  \/ Send(w)
  \/ MarkPosted(w)
  \/ GiveUp(w)
  \/ CountFailure(w)
  \/ Requeue(w)
  \/ Finish(w)

CommentNext ==
  \E w \in Workers :
    \/ \E r \in Rows : StartCall(w, r)
    \/ Progress(w)
    \/ Crash(w)

CommentSpec == CommentInit /\ [][CommentNext]_commentVars

\* The workers keep working; nobody has to publish.
FairComments == CommentSpec /\ \A w \in Workers : WF_commentVars(Progress(w))

-------------------------------------------------------------------------------
(* Properties. *)

\* Whatever the provider answers, a row gets one first comment each time it is
\* published, and one more at most for each worker that dies: an unknown outcome
\* is retried only after a look at the platform.  Its retries stay within
\* FIRST_COMMENT_MAX_RETRIES, but for a task that overlapped another, because
\* its worker died or the row was published again; and a row that reads posted
\* has its comment.
CommentedOnce ==
  \A r \in Rows :
    /\ comments[r] <= reached[r] + crashes
    /\ retries[r] <= MaxRetries \/ retries[r] < MaxRetries + reached[r] + crashes
    /\ fcStatus[r] = "posted" => comments[r] > 0

\* The POSTED check inside the task is "the real backstop against
\* double-commenting": one comment, a worker's death included.
NeverCommentsTwice == \A r \in Rows : comments[r] <= 1

\* A queued comment is decided: posted, or visibly failed, unless the comment
\* is on the platform and the row could not be told.
QueuedCommentIsDecided ==
  \A r \in Rows :
    tasks[r] > 0 ~> fcStatus[r] \in {"posted", "failed"} \/ comments[r] > 0

===============================================================================

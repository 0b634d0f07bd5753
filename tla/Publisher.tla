------------------------------- MODULE Publisher -------------------------------
(***************************************************************************)
(* The publishing engine (src/apps/publisher/engine.py) and the handlers   *)
(* that write the rows it works on.                                        *)
(*                                                                         *)
(* A worker runs cycles.  A cycle polls the due rows, claims them post by  *)
(* post under row locks, publishes them in a thread pool, and then walks   *)
(* the rows whose retry time has come, this time without a lock.  Between  *)
(* the claim and the final save a worker holds its own copy of the row and *)
(* the final save writes every column of that copy.                        *)
(*                                                                         *)
(* A person's request reads a row, decides on what it read and writes      *)
(* later: the read and the write are separate steps.  The steps of every   *)
(* worker and request interleave; one SQL statement or one transaction     *)
(* that locks its rows is one step.                                        *)
(***************************************************************************)
EXTENDS Integers, FiniteSets, PostStates

CONSTANTS
  Workers,      \* processes that run poll_and_publish
  Children,     \* PlatformPost rows
  Posts,        \* their parents
  PostOf,       \* the parent of each row
  MaxRetries,   \* MAX_RETRIES
  Backoff,      \* RETRY_BACKOFF, indexed by the number of failures so far
  BatchLimit,   \* MAX_CONCURRENT_PUBLISHES
  UserTargets,  \* statuses people ask for by hand
  Faults,       \* which faults may happen
  Horizon,      \* bound: the last instant of the model
  MaxRequests   \* bound: requests people make

\* lost: the platform took the post but the call raised.
\* bookkeeping: a database error after the platform took the post.
\* abort: a database error inside the error handler.
\* crash: the process dies.
FaultKinds == {"lost", "bookkeeping", "abort", "crash"}

ASSUME PublisherAssumption ==
  /\ PostOf \in [Children -> Posts]
  /\ MaxRetries \in Nat
  /\ Backoff \in [0 .. MaxRetries -> Nat]
  /\ BatchLimit \in Nat \ {0}
  /\ UserTargets \subseteq Status
  /\ Faults \subseteq FaultKinds
  /\ Horizon \in Nat
  /\ MaxRequests \in Nat

VARIABLES
  status,     \* the status column
  data,       \* the other columns the engine reads: retries, retryAt, dueAt
  phase,      \* what a worker's cycle is doing
  due,        \* rows a worker polled and has not handed to a group yet
  picked,     \* rows a worker's retry query returned and it has not reached
  job,        \* the publish attempt a worker has in flight for a row
  mem,        \* the copy of the row a worker acts on
  requests,   \* what outstanding requests have read
  opened,     \* how many requests were made
  now,
  \* history
  live,       \* copies of the row on the platform; two stands for several
  attempts,   \* provider calls since a person last wrote the row
  faltered,   \* rows for which the engine recorded a failure
  overridden  \* rows a person wrote while claimed, or from a stale read

workerVars == <<phase, due, picked, job, mem>>
peopleVars == <<requests, opened>>
history == <<live, attempts, faltered, overridden>>
vars == <<status, data, workerVars, peopleVars, now, history>>

\* NULL in a time column: no comparison with now succeeds.
Never == Horizon + 1
Time == 0 .. Never
Data == [retries: 0 .. MaxRetries, retryAt: Time, dueAt: Time]
Blank == [retries |-> 0, retryAt |-> Never, dueAt |-> Never]
Request == [child: Children, status: Status, data: Data]
JobState == {"none", "checked", "ready", "accepted", "recorded", "failing", "fatal"}

Siblings(p) == {c \in Children : PostOf[c] = p}
Held(p) == \E c \in Siblings(p) : status[c] = "on_hold"
Later(t) == IF t > Horizon THEN Never ELSE t

TypeOK ==
  /\ status \in [Children -> Status]
  /\ data \in [Children -> Data]
  /\ phase \in [Workers -> {"idle", "main", "retry"}]
  /\ due \in [Workers -> SUBSET Children]
  /\ picked \in [Workers -> SUBSET Children]
  /\ job \in [Workers -> [Children -> JobState]]
  /\ mem \in [Workers -> [Children -> Data]]
  /\ requests \subseteq Request
  /\ opened \in 0 .. MaxRequests
  /\ now \in 0 .. Horizon
  /\ live \in [Children -> 0 .. 2]
  /\ attempts \in [Children -> 0 .. MaxRetries + 2]
  /\ faltered \subseteq Children
  /\ overridden \subseteq Children

Init ==
  /\ status \in [Children -> {"draft", "approved", "scheduled"}]
  /\ data = [c \in Children |-> [Blank EXCEPT !.dueAt =
                                   IF status[c] = "scheduled" THEN 0 ELSE Never]]
  /\ phase = [w \in Workers |-> "idle"]
  /\ due = [w \in Workers |-> {}]
  /\ picked = [w \in Workers |-> {}]
  /\ job = [w \in Workers |-> [c \in Children |-> "none"]]
  /\ mem = [w \in Workers |-> [c \in Children |-> Blank]]
  /\ requests = {}
  /\ opened = 0
  /\ now = 0
  /\ live = [c \in Children |-> 0]
  /\ attempts = [c \in Children |-> 0]
  /\ faltered = {}
  /\ overridden = {}

-------------------------------------------------------------------------------
(* The main path of a cycle. *)

\* The due query: scheduled rows whose time has come, no sibling on hold.
\* It does not look at retryAt.
IsDue(c) ==
  /\ status[c] = "scheduled"
  /\ data[c].dueAt <= now
  /\ ~Held(PostOf[c])

\* The query's ORDER BY and LIMIT: the earliest rows, at most BatchLimit of them.
IsBatch(B) ==
  LET all == {c \in Children : IsDue(c)}
  IN  /\ B \subseteq all
      /\ \/ B = all /\ Cardinality(B) <= BatchLimit
         \/ Cardinality(B) = BatchLimit
      /\ \A b \in B, c \in all \ B : data[b].dueAt <= data[c].dueAt

Poll(w) ==
  /\ phase[w] = "idle"
  /\ \E B \in SUBSET Children :
       /\ IsBatch(B)
       /\ due' = [due EXCEPT ![w] = B]
  /\ phase' = [phase EXCEPT ![w] = "main"]
  /\ UNCHANGED <<status, data, picked, job, mem, peopleVars, now, history>>

Polled(w, p) == due[w] \cap Siblings(p)

\* One transaction: the rows get status s and this worker's attempt.
Claim(w, p, claimed, s) ==
  /\ phase[w] = "main"
  /\ Polled(w, p) # {}
  /\ due' = [due EXCEPT ![w] = @ \ Polled(w, p)]
  /\ status' = [c \in Children |-> IF c \in claimed THEN s ELSE status[c]]
  /\ job' = [job EXCEPT ![w] =
               [c \in Children |-> IF c \in claimed THEN "ready" ELSE job[w][c]]]
  /\ mem' = [mem EXCEPT ![w] =
               [c \in Children |-> IF c \in claimed THEN data[c] ELSE mem[w][c]]]
  /\ UNCHANGED <<data, phase, picked, peopleVars, now, history>>

Claimable(w, p) == {c \in Polled(w, p) : status[c] = "scheduled" /\ ~Held(p)}

\* Mutants: the claim trusts the poll; the claim is not written down.
ClaimAsPolled(w, p) == Claim(w, p, IF Held(p) THEN {} ELSE Polled(w, p), "publishing")
ClaimUnmarked(w, p) == Claim(w, p, Claimable(w, p), "scheduled")

\* Under the lock: give up if a sibling is on hold, else claim the polled rows
\* that are still scheduled, with the columns as they are now.
ClaimGroup(w, p) == Claim(w, p, Claimable(w, p), "publishing")

\* The thread pools have joined: evaluate the retry query.  It does not look
\* at dueAt, and it keeps the rows it read.
IsRetryDue(c) ==
  /\ status[c] = "scheduled"
  /\ data[c].retries \in 1 .. MaxRetries
  /\ data[c].retryAt <= now
  /\ ~Held(PostOf[c])

NoJobs(w) == \A c \in Children : job[w][c] = "none"

StartRetries(w) ==
  LET rows == {c \in Children : IsRetryDue(c)}
  IN  /\ phase[w] = "main"
      /\ due[w] = {}
      /\ NoJobs(w)
      /\ phase' = [phase EXCEPT ![w] = "retry"]
      /\ picked' = [picked EXCEPT ![w] = rows]
      /\ mem' = [mem EXCEPT ![w] =
                   [c \in Children |-> IF c \in rows THEN data[c] ELSE mem[w][c]]]
      /\ UNCHANGED <<status, data, due, job, peopleVars, now, history>>

-------------------------------------------------------------------------------
(* The retry path: one row after the other, no lock. *)

TakeRetry(w, c, skip) ==
  /\ phase[w] = "retry"
  /\ NoJobs(w)
  /\ c \in picked[w]
  /\ picked' = [picked EXCEPT ![w] = @ \ {c}]
  /\ \/ /\ skip
        /\ mem' = [mem EXCEPT ![w][c] = Blank]
        /\ UNCHANGED job
     \/ /\ ~skip
        /\ job' = [job EXCEPT ![w][c] = "checked"]
        /\ UNCHANGED mem
  /\ UNCHANGED <<status, data, phase, due, peopleVars, now, history>>

\* Mutant: the query's own hold test is thought to be enough.
CheckRetryInQuery(w, c) == TakeRetry(w, c, FALSE)

\* Re-check the hold; nothing else is read again.
CheckRetry(w, c) == TakeRetry(w, c, Held(PostOf[c]))

\* Writes the status column whatever it holds by now.
MarkRetry(w, c) ==
  /\ job[w][c] = "checked"
  /\ status' = [status EXCEPT ![c] = "publishing"]
  /\ job' = [job EXCEPT ![w][c] = "ready"]
  /\ UNCHANGED <<data, phase, due, picked, mem, peopleVars, now, history>>

EndCycle(w) ==
  /\ phase[w] = "retry"
  /\ picked[w] = {}
  /\ NoJobs(w)
  /\ phase' = [phase EXCEPT ![w] = "idle"]
  /\ UNCHANGED <<status, data, due, picked, job, mem, peopleVars, now, history>>

-------------------------------------------------------------------------------
(* One publish attempt. *)

Capped(n, top) == IF n < top THEN n + 1 ELSE top

\* Every return of the call: the platform took the post and said so, took it
\* and the answer was lost, or refused it (for now, or for good).
CallProvider(w, c) ==
  /\ job[w][c] = "ready"
  /\ attempts' = [attempts EXCEPT ![c] = Capped(@, MaxRetries + 2)]
  /\ \/ /\ job' = [job EXCEPT ![w][c] = "accepted"]
        /\ live' = [live EXCEPT ![c] = Capped(@, 2)]
     \/ /\ "lost" \in Faults
        /\ job' = [job EXCEPT ![w][c] = "failing"]
        /\ live' = [live EXCEPT ![c] = Capped(@, 2)]
     \/ /\ \E outcome \in {"failing", "fatal"} :
             job' = [job EXCEPT ![w][c] = outcome]
        /\ UNCHANGED live
  /\ UNCHANGED <<status, data, phase, due, picked, mem, peopleVars, now,
                 faltered, overridden>>

\* platform_post.save(): every column of the worker's copy.
RecordPublished(w, c) ==
  /\ job[w][c] = "accepted"
  /\ status' = [status EXCEPT ![c] = "published"]
  /\ data' = [data EXCEPT ![c] = mem[w][c]]
  /\ job' = [job EXCEPT ![w][c] = "recorded"]
  /\ UNCHANGED <<phase, due, picked, mem, peopleVars, now, history>>

\* The publish log and the rate-limit row are written; the attempt is over.
FinishAttempt(w, c) ==
  /\ job[w][c] = "recorded"
  /\ job' = [job EXCEPT ![w][c] = "none"]
  /\ mem' = [mem EXCEPT ![w][c] = Blank]
  /\ UNCHANGED <<status, data, phase, due, picked, peopleVars, now, history>>

\* The save, the log or the rate-limit write raises: the handler of provider
\* errors takes it for a failed publish.
BookkeepingFails(w, c) ==
  /\ "bookkeeping" \in Faults
  /\ job[w][c] \in {"accepted", "recorded"}
  /\ job' = [job EXCEPT ![w][c] = "failing"]
  /\ UNCHANGED <<status, data, phase, due, picked, mem, peopleVars, now, history>>

\* The handler's full save, with status s and columns d, ends the attempt.
EndFailed(w, c, s, d) ==
  /\ status' = [status EXCEPT ![c] = s]
  /\ data' = [data EXCEPT ![c] = d]
  /\ faltered' = faltered \cup {c}
  /\ job' = [job EXCEPT ![w][c] = "none"]
  /\ mem' = [mem EXCEPT ![w][c] = Blank]
  /\ UNCHANGED <<phase, due, picked, peopleVars, now, live, attempts, overridden>>

\* The row's columns after one more failure.
Charged(m) ==
  [m EXCEPT !.retries = @ + 1, !.retryAt = Later(now + Backoff[m.retries])]

\* Mutants: one retry too many; a retry that is not counted; a failure for
\* good that is only logged.
RecordFailureLate(w, c) ==
  /\ job[w][c] \in {"failing", "fatal"}
  /\ IF job[w][c] = "fatal" \/ mem[w][c].retries > MaxRetries
       THEN EndFailed(w, c, "failed", mem[w][c])
       ELSE EndFailed(w, c, "scheduled", Charged(mem[w][c]))

RecordFailureUncharged(w, c) ==
  /\ job[w][c] \in {"failing", "fatal"}
  /\ IF job[w][c] = "fatal" \/ mem[w][c].retries >= MaxRetries
       THEN EndFailed(w, c, "failed", mem[w][c])
       ELSE EndFailed(w, c, "scheduled", [Charged(mem[w][c]) EXCEPT !.retries = @ - 1])

RecordFailureLogged(w, c) ==
  /\ job[w][c] \in {"failing", "fatal"}
  /\ IF job[w][c] = "fatal" \/ mem[w][c].retries >= MaxRetries
       THEN EndFailed(w, c, status[c], mem[w][c])
       ELSE EndFailed(w, c, "scheduled", Charged(mem[w][c]))

\* _schedule_retry and _fail_permanently.
RecordFailure(w, c) ==
  LET exhausted == job[w][c] = "fatal" \/ mem[w][c].retries >= MaxRetries
  IN  /\ job[w][c] \in {"failing", "fatal"}
      /\ \/ exhausted /\ EndFailed(w, c, "failed", mem[w][c])
         \/ ~exhausted /\ EndFailed(w, c, "scheduled", Charged(mem[w][c]))

\* The error handler's own write raises: the exception ends in the thread
\* pool or the retry loop, and nobody writes the row again.
AbortAttempt(w, c) ==
  /\ "abort" \in Faults
  /\ job[w][c] \in {"checked", "failing", "fatal"}
  /\ job' = [job EXCEPT ![w][c] = "none"]
  /\ mem' = [mem EXCEPT ![w][c] = Blank]
  /\ UNCHANGED <<status, data, phase, due, picked, peopleVars, now, history>>

\* The process dies and another one starts its next cycle from nothing.
Crash(w) ==
  /\ "crash" \in Faults
  /\ phase[w] # "idle"
  /\ phase' = [phase EXCEPT ![w] = "idle"]
  /\ due' = [due EXCEPT ![w] = {}]
  /\ picked' = [picked EXCEPT ![w] = {}]
  /\ job' = [job EXCEPT ![w] = [c \in Children |-> "none"]]
  /\ mem' = [mem EXCEPT ![w] = [c \in Children |-> Blank]]
  /\ UNCHANGED <<status, data, peopleVars, now, history>>

-------------------------------------------------------------------------------
(* Requests. *)

\* A handler loads the row.
OpenRequest(c) ==
  LET r == [child |-> c, status |-> status[c], data |-> data[c]]
  IN  /\ opened < MaxRequests
      /\ r \notin requests
      /\ opened' = opened + 1
      /\ requests' = requests \cup {r}
      /\ UNCHANGED <<status, data, workerVars, now, history>>

\* A handler writes status s and columns d over the row it had read as r.
WriteRow(r, s, d) ==
  /\ requests' = requests \ {r}
  /\ status' = [status EXCEPT ![r.child] = s]
  /\ data' = [data EXCEPT ![r.child] = d]
  /\ attempts' = [attempts EXCEPT ![r.child] = 0]
  /\ overridden' = IF status[r.child] = "publishing" \/ status[r.child] # r.status
                     THEN overridden \cup {r.child} ELSE overridden
  /\ UNCHANGED <<workerVars, opened, now, live, faltered>>

\* transition_child, request_hold, resume_hold: the status column alone.
TransitionChild(r, target) ==
  /\ r \in requests
  /\ CanTransition(r.status, target)
  /\ WriteRow(r, target, data[r.child])

\* transition_platform_post, as the API schedules a draft or cancels a post.
TransitionPlatformPost(r, t) ==
  /\ r \in requests
  /\ \/ /\ r.status = "draft"
        /\ WriteRow(r, "scheduled", [data[r.child] EXCEPT !.dueAt = t])
     \/ /\ r.status = "scheduled"
        /\ WriteRow(r, "draft", IF r.data.dueAt = Never THEN data[r.child]
                                ELSE [data[r.child] EXCEPT !.dueAt = Never])

\* A row dropped on the calendar: the new time, and the status as it was read
\* (drafts and failures become scheduled).
Reschedule(r, t) ==
  LET target == IF r.status \in ImplicitScheduleStatuses THEN "scheduled" ELSE r.status
      fresh  == IF r.status = "failed"
                  THEN [data[r.child] EXCEPT !.retries = 0, !.retryAt = Never]
                  ELSE data[r.child]
  IN  /\ r \in requests
      /\ r.status \in ReschedulableStatuses
      /\ WriteRow(r, target, [fresh EXCEPT !.dueAt = t])

\* The Publish page's bulk actions write the retry columns they read too.
BulkDraft(r) ==
  /\ r \in requests
  /\ r.status \notin ProtectedStatuses
  /\ CanTransition(r.status, "draft")
  /\ WriteRow(r, "draft", [r.data EXCEPT !.dueAt = Never])

BulkPublish(r) ==
  LET fresh == IF r.status = "failed"
                 THEN [r.data EXCEPT !.retries = 0, !.retryAt = Never] ELSE r.data
  IN  /\ r \in requests
      /\ r.status \notin ProtectedStatuses
      /\ r.status = "scheduled" \/ CanTransition(r.status, "scheduled")
      /\ WriteRow(r, "scheduled", [fresh EXCEPT !.dueAt = now])

\* The composer saves the whole row it loaded with its new captions.
ComposerSave(r) ==
  /\ r \in requests
  /\ WriteRow(r, r.status, r.data)

-------------------------------------------------------------------------------
Tick ==
  /\ now < Horizon
  /\ now' = now + 1
  /\ UNCHANGED <<status, data, workerVars, peopleVars, history>>

Attempt(w, c) ==
  \/ CheckRetry(w, c)
  \/ MarkRetry(w, c)
  \/ CallProvider(w, c)
  \/ RecordPublished(w, c)
  \/ FinishAttempt(w, c)
  \/ RecordFailure(w, c)

Progress(w) ==
  \/ Poll(w)
  \/ \E p \in Posts : ClaimGroup(w, p)
  \/ StartRetries(w)
  \/ EndCycle(w)
  \/ \E c \in Children : Attempt(w, c)

Fault(w) ==
  \/ \E c \in Children : BookkeepingFails(w, c) \/ AbortAttempt(w, c)
  \/ Crash(w)

People ==
  \/ \E c \in Children : OpenRequest(c)
  \/ \E r \in requests :
       \/ \E target \in UserTargets : TransitionChild(r, target)
       \/ \E t \in now .. Horizon : TransitionPlatformPost(r, t)
       \/ \E t \in now .. Horizon : Reschedule(r, t)
       \/ BulkDraft(r)
       \/ BulkPublish(r)
       \/ ComposerSave(r)

Next ==
  \/ \E w \in Workers : Progress(w) \/ Fault(w)
  \/ People
  \/ Tick

Spec == Init /\ [][Next]_vars

\* Nothing dies and every error handler gets its writes through...
Undying ==
  \/ \E w \in Workers : Progress(w) \/ \E c \in Children : BookkeepingFails(w, c)
  \/ People
  \/ Tick

\* ... and a worker that is running keeps running; nothing is assumed of people.
FairSpec == Init /\ [][Undying]_vars /\ \A w \in Workers : WF_vars(Progress(w))

-------------------------------------------------------------------------------
(* The invariant of a clean row: one for which no failure was recorded and   *)
(* that nobody wrote while it was claimed or from a stale read.              *)

Clean(c) == c \notin faltered \cup overridden

\* It never reaches the path that takes no lock.
NeverRetried(c) ==
  /\ data[c].retries = 0
  /\ \A r \in requests : r.child = c => r.data.retries = 0
  /\ \A w \in Workers : /\ mem[w][c].retries = 0
                        /\ c \notin picked[w]
                        /\ job[w][c] # "checked"

\* At most one worker works on it.
OneAttempt(c) ==
  \A w1, w2 \in Workers :
    job[w1][c] # "none" /\ job[w2][c] # "none" => w1 = w2

\* Status, attempt and platform agree.
AttemptMatchesRow(c) ==
  /\ live[c] <= 1
  /\ status[c] \notin {"publishing", "published"} => live[c] = 0
  /\ \A w \in Workers :
       /\ job[w][c] # "none" => status[c] \in {"publishing", "published"}
       /\ job[w][c] \in {"ready", "accepted"} => status[c] = "publishing"
       /\ job[w][c] = "ready" => live[c] = 0

\* The claim is exclusive: a clean row has at most one attempt, on the locked
\* path, and what its status says of the platform is true.
ClaimIsExclusive ==
  \A c \in Children :
    Clean(c) => NeverRetried(c) /\ OneAttempt(c) /\ AttemptMatchesRow(c)

-------------------------------------------------------------------------------
(* The abstract specification, and how a row's state maps to its. *)

ClaimOf == [c \in Children |->
  IF ~Clean(c) THEN "void"
  ELSE IF status[c] = "publishing" THEN "held"
  ELSE IF status[c] = "published" THEN "done" ELSE "free"]

HolderOf == [c \in Children |-> IF Clean(c) THEN {w \in Workers : job[w][c] # "none"} ELSE {}]

CopiesOf == [c \in Children |-> IF Clean(c) THEN live[c] ELSE 0]

Promise == INSTANCE FirstAttempt
  WITH Rows <- Children, Holders <- Workers,
       claim <- ClaimOf, holder <- HolderOf, copies <- CopiesOf

-------------------------------------------------------------------------------
(* Properties. *)

\* The row lock gives the first attempt to one worker: however many processes
\* poll, the platform holds at most one copy of a clean row.
FirstAttemptOnce ==
  \A c \in Children : Clean(c) => live[c] <= 1

\* The claim keeps what FirstAttempt promises of a clean row: however many
\* processes poll, one of them takes it, once, and only that one posts it; a row
\* that reads published was posted, once; and a claim whose worker died is not
\* taken over.
KeepsFirstAttempt == Promise!Spec

\* For a clean row published is terminal, as the transition table says.
PublishedStays ==
  \A c \in Children : status[c] = "published" /\ Clean(c)' => status'[c] = "published"

PublishedIsFinal == [][PublishedStays]_vars

\* A post with a row on hold and no attempt that is past its hold check.
Frozen(p) ==
  /\ Held(p)
  /\ \A w \in Workers, c \in Siblings(p) : job[w][c] \notin {"checked", "ready"}

\* A hold stops the engine: while it lasts no worker starts on any row of the
\* post, whatever it had polled or picked before the hold was placed.
FreezeLasts ==
  \A p \in Posts : Frozen(p) /\ Held(p)' => Frozen(p)'

HoldFreezesPost == [][FreezeLasts]_vars

\* One worker calls the provider at most MAX_RETRIES + 1 times before a person
\* writes the row again: every failure, an error after success included, is
\* charged to the row's retry count, and a worker that dies leaves the row
\* claimed.  A write from a stale read may take the row out of that claim.
RetryBudget ==
  \A c \in Children : c \notin overridden => attempts[c] <= MaxRetries + 1

\* A due row is dealt with, unless it is held, moved or rescheduled, and a
\* claimed row does not stay claimed: whatever the provider answers, and
\* whatever fails after it answered, the attempt ends in a status a person or
\* the next cycle can leave.  Only a write from a stale read, which brings a
\* status back that the row no longer had, loses the row.
DueRowSettles ==
  \A c \in Children :
    (\/ status[c] = "publishing"
     \/ status[c] = "scheduled" /\ data[c].dueAt <= now)
      ~> \/ status[c] \notin {"scheduled", "publishing"}
         \/ status[c] = "scheduled" /\ (data[c].dueAt > now \/ Held(PostOf[c]))
         \/ c \in overridden

\* A worker sets out to publish c in this step.
StartsAttempt(w, c) == job[w][c] # "ready" /\ job'[w][c] = "ready"

\* "Drop back to SCHEDULED so the next _process_retries tick picks it up once
\* next_retry_at passes": an attempt after a failure waits for its backoff.
BackoffRespected ==
  [][\A w \in Workers, c \in Children :
       StartsAttempt(w, c) /\ data[c].retries > 0 => data[c].retryAt <= now]_vars

\* "Poll for PlatformPosts where scheduled_at <= now()": a row a worker selects
\* for publication is due.
SelectedRowsAreDue ==
  [][\A w \in Workers, c \in Children :
       c \in (due'[w] \ due[w]) \cup (picked'[w] \ picked[w])
         => data[c].dueAt <= now]_vars

===============================================================================

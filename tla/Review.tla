--------------------------------- MODULE Review ---------------------------------
(***************************************************************************)
(* The review of one post (src/apps/approvals/services.py) and the sweep   *)
(* that reminds people of it (src/apps/approvals/tasks.py).                *)
(*                                                                         *)
(* A decision loads the post's rows, decides on what it loaded and writes  *)
(* the rows, and the reminder it starts anew, in one transaction that      *)
(* locks nothing: the load and the transaction are two steps.  The sweep   *)
(* takes one statement or one notification at a time, and saves the        *)
(* reminder it had read before it sent anything.                           *)
(***************************************************************************)
EXTENDS Integers, PostStates

CONSTANTS
  Children,          \* the post's PlatformPosts
  TwoStage,      \* the workspace asks the client after the internal review
  MaxReminders,  \* MAX_REMINDERS
  ChipTargets,   \* statuses people give a single row by hand
  MaxRequests,   \* bound: decisions, chip moves and edits people make
  MaxSweepDeaths     \* bound: sweeps that die

ASSUME ReviewAssumption ==
  /\ TwoStage \in BOOLEAN
  /\ MaxReminders \in Nat
  /\ ChipTargets \subseteq Status
  /\ MaxRequests \in Nat
  /\ MaxSweepDeaths \in Nat

VARIABLES
  status,    \* of each row
  reminder,  \* the post's ApprovalReminder of each stage
  requests,  \* what outstanding requests have read
  opened,    \* how many requests were made
  sweep,     \* what the sweep does next, for which stage, and the copy it read
  sweepDeaths,   \* sweeps that died
  \* history
  notices,   \* reminders and escalations sent since the stage was started anew
  noticed    \* stages with a notice since a row last entered the empty stage

reviewVars == <<status, reminder, requests, opened, sweep, sweepDeaths, notices, noticed>>

Stages == {"pending_review", "pending_client"}
Decisions == {"submit", "approve", "request_changes", "reject", "hold", "resume", "resubmit"}
Kinds == Decisions \cup {"chip", "edit"}

\* last_reminder_at only matters through the cooldown: whether it has passed.
Reminder == [count: 0 .. MaxReminders, escalated: BOOLEAN, cooled: BOOLEAN]
Unsent == [count |-> 0, escalated |-> FALSE, cooled |-> TRUE]
Notices == [reminders: 0 .. MaxReminders + MaxSweepDeaths, escalations: 0 .. 1 + MaxSweepDeaths]
NoNotice == [reminders |-> 0, escalations |-> 0]
SweepState == [step: {"query", "read", "remind", "escalate", "count", "flag"},
          stage: Stages, copy: Reminder]
AtStart == [step |-> "query", stage |-> "pending_review", copy |-> Unsent]

ReviewTypeOK ==
  /\ status \in [Children -> Status]
  /\ reminder \in [Stages -> Reminder]
  /\ requests \subseteq [kind: Kinds, seen: [Children -> Status]]
  /\ opened \in 0 .. MaxRequests
  /\ sweep \in SweepState
  /\ sweepDeaths \in 0 .. MaxSweepDeaths
  /\ notices \in [Stages -> Notices]
  /\ noticed \subseteq Stages

ReviewInit ==
  /\ status = [r \in Children |-> "draft"]
  /\ reminder = [s \in Stages |-> Unsent]
  /\ requests = {}
  /\ opened = 0
  /\ sweep = AtStart
  /\ sweepDeaths = 0
  /\ notices = [s \in Stages |-> NoNotice]
  /\ noticed = {}

Waiting(s) == \E r \in Children : status[r] = s

-------------------------------------------------------------------------------
(* Decisions about the post. *)

\* The rows a decision looks for, and where it moves them.
Eligible ==
  [submit          |-> {"draft", "changes_requested", "rejected"},
   approve         |-> {"pending_review", "pending_client", "draft", "rejected", "changes_requested"},
   request_changes |-> Stages,
   reject          |-> Stages,
   hold            |-> {"approved"},
   resume          |-> {"on_hold"},
   resubmit        |-> {"changes_requested", "rejected", "approved"}]

Target ==
  [submit          |-> "pending_review",
   approve         |-> "approved",
   request_changes |-> "changes_requested",
   reject          |-> "rejected",
   hold            |-> "on_hold",
   resume          |-> "approved",
   resubmit        |-> "pending_review"]

Moved(q) == {r \in Children : q.seen[r] \in Eligible[q.kind] /\ CanTransition(q.seen[r], Target[q.kind])}

\* An internal approval hops on to the client.
ToClient(q) == {r \in Moved(q) : TwoStage /\ q.kind = "approve" /\ q.seen[r] = "pending_review"}

\* The stages whose reminders start anew.
Restarted(q) ==
  {s \in Stages : \/ s = "pending_review" /\ q.kind \in {"submit", "resubmit"} /\ Moved(q) # {}
                  \/ s = "pending_client" /\ ToClient(q) # {}}

\* A handler loads the post's rows.
OpenRequest(kind) ==
  LET q == [kind |-> kind, seen |-> status]
  IN  /\ opened < MaxRequests
      /\ q \notin requests
      /\ opened' = opened + 1
      /\ requests' = requests \cup {q}
      /\ UNCHANGED <<status, reminder, sweep, sweepDeaths, notices, noticed>>

\* The request writes its rows and is over.
FinishDecision(q, written) ==
  /\ q \in requests
  /\ requests' = requests \ {q}
  /\ status' = written
  /\ noticed' = {s \in noticed : Waiting(s) \/ ~Waiting(s)'}
  /\ UNCHANGED <<opened, sweep, sweepDeaths>>

Decide(q) ==
  /\ q.kind \in Decisions
  /\ FinishDecision(q, [r \in Children |-> IF r \in ToClient(q) THEN "pending_client"
                               ELSE IF r \in Moved(q) THEN Target[q.kind] ELSE status[r]])
  /\ reminder' = [s \in Stages |-> IF s \in Restarted(q) THEN Unsent ELSE reminder[s]]
  /\ notices' = [s \in Stages |-> IF s \in Restarted(q) THEN NoNotice ELSE notices[s]]

\* transition_child: one row; the reminders are not told.
MoveChip(q, r, target) ==
  /\ q.kind = "chip"
  /\ CanTransition(q.seen[r], target)
  /\ FinishDecision(q, [status EXCEPT ![r] = target])
  /\ UNCHANGED <<reminder, notices>>

\* revert_approved_to_review, when an edit changed the content.
RevertToReview(q) ==
  /\ q.kind = "edit"
  /\ FinishDecision(q, [r \in Children |-> IF q.seen[r] = "approved" THEN "pending_review" ELSE status[r]])
  /\ UNCHANGED <<reminder, notices>>

-------------------------------------------------------------------------------
(* The reminder sweep. *)

NextStage(s) == CHOOSE t \in Stages : t # s
Leave == [AtStart EXCEPT !.stage = NextStage(sweep.stage)]

\* The query of stalled posts.
FindStalled ==
  /\ sweep.step = "query"
  /\ sweep' = IF Waiting(sweep.stage) THEN [sweep EXCEPT !.step = "read"] ELSE Leave
  /\ UNCHANGED <<status, reminder, requests, opened, sweepDeaths, notices, noticed>>

\* get_or_create of the reminder: a reminder while there are some left and the
\* last one has cooled down, then one escalation.
ReadWith(exhausted) ==
  LET copy == reminder[sweep.stage]
      due == IF exhausted THEN ~copy.escalated ELSE copy.cooled
      step == IF exhausted THEN "escalate" ELSE "remind"
  IN  /\ sweep.step = "read"
      /\ \/ due /\ sweep' = [sweep EXCEPT !.step = step, !.copy = copy]
         \/ ~due /\ sweep' = Leave
      /\ UNCHANGED <<status, reminder, requests, opened, sweepDeaths, notices, noticed>>

\* Mutant: one reminder too many.
ReadReminderLate == ReadWith(reminder[sweep.stage].count > MaxReminders)

ReadReminder == ReadWith(reminder[sweep.stage].count >= MaxReminders)

SendReminder ==
  LET s == sweep.stage
  IN  /\ \/ /\ sweep.step = "remind"
            /\ sweep' = [sweep EXCEPT !.step = "count"]
            /\ notices' = [notices EXCEPT ![s].reminders = @ + 1]
         \/ /\ sweep.step = "escalate"
            /\ sweep' = [sweep EXCEPT !.step = "flag"]
            /\ notices' = [notices EXCEPT ![s].escalations = @ + 1]
      /\ noticed' = noticed \cup {s}
      /\ UNCHANGED <<status, reminder, requests, opened, sweepDeaths>>

\* The sweep saves what it counted, from the copy it read.
SaveAs(saved) ==
  /\ sweep.step \in {"count", "flag"}
  /\ reminder' = [reminder EXCEPT ![sweep.stage] = saved]
  /\ sweep' = Leave
  /\ UNCHANGED <<status, requests, opened, sweepDeaths, notices, noticed>>

Counted(r) == [r EXCEPT !.count = sweep.copy.count + 1, !.cooled = FALSE]
Flagged(r) == [r EXCEPT !.escalated = TRUE]

\* Mutants: the whole copy is saved; the count is lost.
SaveWhole == SaveAs(IF sweep.step = "count" THEN Counted(sweep.copy) ELSE Flagged(sweep.copy))
SaveUncounted ==
  SaveAs([reminder[sweep.stage] EXCEPT !.cooled = FALSE, !.escalated = sweep.step = "flag"])

\* save(update_fields=...): the count and its time, or the flag.
Save ==
  LET r == reminder[sweep.stage]
  IN  SaveAs(IF sweep.step = "count" THEN Counted(r) ELSE Flagged(r))

\* A day has passed since the last reminder.
CoolDown(s) ==
  /\ ~reminder[s].cooled
  /\ reminder' = [reminder EXCEPT ![s].cooled = TRUE]
  /\ UNCHANGED <<status, requests, opened, sweep, sweepDeaths, notices, noticed>>

\* The sweep dies, and the task queue runs it again.
SweepDies ==
  /\ sweep.step # "query"
  /\ sweepDeaths < MaxSweepDeaths
  /\ sweepDeaths' = sweepDeaths + 1
  /\ sweep' = AtStart
  /\ UNCHANGED <<status, reminder, requests, opened, notices, noticed>>

-------------------------------------------------------------------------------
SweepStep == FindStalled \/ ReadReminder \/ SendReminder \/ Save

People ==
  \/ \E kind \in Kinds : OpenRequest(kind)
  \/ \E q \in requests :
       \/ Decide(q)
       \/ \E r \in Children, target \in ChipTargets : MoveChip(q, r, target)
       \/ RevertToReview(q)

ReviewNext ==
  \/ People
  \/ SweepStep
  \/ SweepDies
  \/ \E s \in Stages : CoolDown(s)

ReviewSpec == ReviewInit /\ [][ReviewNext]_reviewVars

\* The hourly task keeps running and days go by; nothing is assumed of people.
FairReview == ReviewSpec /\ WF_reviewVars(SweepStep) /\ \A s \in Stages : WF_reviewVars(CoolDown(s))

-------------------------------------------------------------------------------
(* Properties. *)

\* Nobody is pestered: from one submission to the next a stage is reminded of at
\* most MAX_REMINDERS times and escalated once, plus once for each sweep that
\* died before it could save, whatever a decision does to the reminder while
\* the sweep holds its copy.
NoticesBounded ==
  \A s \in Stages : /\ notices[s].reminders <= MaxReminders + sweepDeaths
                    /\ notices[s].escalations <= 1 + sweepDeaths

\* A submission is followed up: the stage it starts is left, or people hear of
\* it, even when the submission falls between the sweep's read and its save.
SubmissionIsFollowedUp ==
  \A s \in Stages :
    Waiting(s) /\ notices[s] = NoNotice ~> ~Waiting(s) \/ notices[s] # NoNotice

\* "Posts stuck in pending_review": every post that stalls is noticed, however
\* it came to the stage.
EveryStallIsNoticed ==
  \A s \in Stages : Waiting(s) /\ s \notin noticed ~> ~Waiting(s) \/ s \in noticed

===============================================================================

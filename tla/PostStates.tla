------------------------------ MODULE PostStates ------------------------------
(***************************************************************************)
(* The status vocabulary of a PlatformPost and its transition table        *)
(* (src/apps/composer/models.py).  Every component that moves a row works  *)
(* from these definitions.                                                 *)
(***************************************************************************)

Status ==
  {"draft", "pending_review", "pending_client", "approved", "changes_requested",
   "rejected", "scheduled", "publishing", "published", "failed", "on_hold"}

\* Rows that deletion and time changes must leave alone.
ProtectedStatuses == {"published", "publishing"}

\* Rows a calendar drag may move.
ReschedulableStatuses ==
  {"draft", "approved", "scheduled", "failed", "pending_review", "pending_client"}

\* Drag targets that are promoted to scheduled when dropped.
ImplicitScheduleStatuses == {"draft", "failed"}

ValidTransitions ==
  [s \in Status |->
     CASE s = "draft"             -> {"pending_review", "scheduled", "publishing"}
       [] s = "pending_review"    -> {"approved", "changes_requested", "rejected"}
       [] s = "approved"          -> {"pending_client", "scheduled", "publishing",
                                      "draft", "on_hold", "pending_review"}
       [] s = "pending_client"    -> {"approved", "changes_requested", "rejected"}
       [] s = "changes_requested" -> {"pending_review", "draft"}
       [] s = "rejected"          -> {"draft", "pending_review"}
       [] s = "scheduled"         -> {"publishing", "draft"}
       [] s = "publishing"        -> {"published", "failed", "scheduled"}
       [] s = "failed"            -> {"publishing", "draft", "scheduled"}
       [] s = "on_hold"           -> {"approved", "draft", "changes_requested"}
       [] s = "published"         -> {}]

\* Mutant: a published row may be reopened.
CanReopen(from, to) ==
  to \in ValidTransitions[from] \/ (from = "published" /\ to = "draft")

CanTransition(from, to) == to \in ValidTransitions[from]

===============================================================================

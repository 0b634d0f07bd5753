---------------------------------- MODULE Editor ----------------------------------
(***************************************************************************)
(* The composer's save pipeline (src/apps/composer/editor.py) over one post *)
(* and its rows, one per selected account, against the decisions of         *)
(* reviewers and the moves of the publisher.                                *)
(*                                                                          *)
(* A save is a request that loads the post and then writes it in statements *)
(* of their own, with no transaction around them: the content, the rows,    *)
(* the rows an edit sends back to review, the rows an action schedules.     *)
(* What a payload asks for is chosen at the step that first reads it.       *)
(***************************************************************************)
EXTENDS Naturals, PostStates

CONSTANTS
  Accounts,     \* accounts a row may be for
  Contents,     \* what the post's text and media can be
  Savers,       \* requests that save the post
  MaxSaves,     \* bound: saves
  MaxBroken     \* bound: saves that end early, by an error or a death

ASSUME EditorAssumption == MaxSaves \in Nat /\ MaxBroken \in Nat

VARIABLES
  content,    \* of the post
  row,        \* status of each account's row; "none" when there is no row
  save,       \* what each request does next, and what it has read
  saves,
  broken,
  \* history
  reviewed,   \* the content each row had when it was last approved
  doubtful    \* rows whose approval a save may have outlived

editorVars == <<content, row, save, saves, broken, reviewed, doubtful>>

\* "schedule" stands for publish_now too, "queue" for both queue actions.
SaveActions == {"save_draft", "schedule", "autosave", "queue", "submit", "resubmit"}
SaveSteps == {"idle", "write", "sync", "revert", "move"}
NotSaving == [step |-> "idle", action |-> "save_draft", orig |-> {},
              changed |-> FALSE, scope |-> {}, sent |-> {}]
NeverReviewed == "never"

EditorTypeOK ==
  /\ content \in Contents
  /\ row \in [Accounts -> Status \cup {"none"}]
  /\ save \in [Savers -> [step : SaveSteps, action : SaveActions, orig : SUBSET Contents,
                          changed : BOOLEAN, scope : SUBSET Accounts, sent : SUBSET Accounts]]
  /\ saves \in 0 .. MaxSaves
  /\ broken \in 0 .. MaxBroken
  /\ reviewed \in [Accounts -> Contents \cup {NeverReviewed}]
  /\ doubtful \subseteq Accounts

EditorInit ==
  /\ content \in Contents
  /\ row \in [Accounts -> {"draft", "none"}]
  /\ save = [e \in Savers |-> NotSaving]
  /\ saves = 0
  /\ broken = 0
  /\ reviewed = [a \in Accounts |-> NeverReviewed]
  /\ doubtful = {}

RowsIn(S) == {a \in Accounts : row[a] \in S}
Settled(e) == save' = [save EXCEPT ![e] = NotSaving]
\* A save that has changed the content and not yet reached its revert.
Pending(e) == save[e].changed /\ save[e].step \in {"sync", "revert", "move"}

MayMove(from, to) == from # "none" /\ CanTransition(from, to)

----------------------------------------------------------------------------------
(* A save. *)

\* The request loads the post and remembers its content.
LoadPost(e, action) ==
  /\ save[e].step = "idle"
  /\ saves < MaxSaves
  /\ saves' = saves + 1
  /\ save' = [save EXCEPT ![e] = [NotSaving EXCEPT !.step = "write", !.action = action,
                                                   !.orig = {content}]]
  /\ UNCHANGED <<content, row, broken, reviewed, doubtful>>

\* post.save() and sync_media.  A held row is not sent back by any edit.
WriteContent(e, new) ==
  /\ save[e].step = "write"
  /\ content' = new
  /\ save' = [save EXCEPT ![e].step = "sync", ![e].orig = {}, ![e].changed = new \notin save[e].orig]
  /\ doubtful' = IF content \notin save[e].orig THEN Accounts
                 ELSE IF new # content THEN doubtful \cup RowsIn({"on_hold"}) ELSE doubtful
  /\ UNCHANGED <<row, saves, broken, reviewed>>

\* Rows of accounts the person took out of the selection go, published and
\* publishing ones excepted, and new accounts get a row.
SyncRows(e, selected, scope) ==
  LET gone == (scope \ selected) \ RowsIn(ProtectedStatuses)
      initial == IF save[e].action = "schedule" THEN "scheduled" ELSE "draft"
      after == CASE save[e].action = "queue" -> "move"
                 [] save[e].action \in {"submit", "resubmit"} -> "move"
                 [] OTHER -> "revert"
  IN  /\ save[e].step = "sync"
      /\ row' = [a \in Accounts |-> IF a \in gone THEN "none"
                                    ELSE IF a \in selected /\ row[a] = "none" THEN initial
                                    ELSE row[a]]
      /\ reviewed' = [a \in Accounts |-> IF row'[a] = "none" THEN NeverReviewed ELSE reviewed[a]]
      /\ save' = [save EXCEPT ![e].step = after, ![e].scope = scope]
      /\ UNCHANGED <<content, saves, broken, doubtful>>

\* revert_approved_to_review, when the save found the content changed.
RevertWhere(e, changed) ==
  LET sent == IF changed THEN RowsIn({"approved"}) ELSE {}
  IN  /\ save[e].step = "revert"
      /\ row' = [a \in Accounts |-> IF a \in sent THEN "pending_review" ELSE row[a]]
      /\ \/ /\ save[e].action = "schedule"
            /\ save' = [save EXCEPT ![e].step = "move", ![e].sent = sent]
         \/ save[e].action # "schedule" /\ Settled(e)
      /\ UNCHANGED <<content, saves, broken, reviewed, doubtful>>

\* Mutants: an autosave, or a save that schedules, sends nothing back.
RevertUnlessAutosave(e) == RevertWhere(e, save[e].changed /\ save[e].action # "autosave")
RevertUnlessScheduled(e) == RevertWhere(e, save[e].changed /\ save[e].action # "schedule")

Revert(e) == RevertWhere(e, save[e].changed)

\* transition_post_children, through draft where there is no edge of its own.
Moves(a) ==
  \/ MayMove(row[a], "scheduled")
  \/ MayMove(row[a], "draft") /\ CanTransition("draft", "scheduled")

TransitionChildren(e) ==
  LET only == save[e].scope \ save[e].sent
  IN  /\ save[e].step = "move"
      /\ save[e].action \in {"schedule", "queue"}
      /\ row' = [a \in Accounts |-> IF a \in only /\ Moves(a) THEN "scheduled" ELSE row[a]]
      /\ Settled(e)
      /\ doubtful' = IF save[e].action = "queue" /\ save[e].changed
                     THEN doubtful \cup RowsIn({"approved"}) ELSE doubtful
      /\ UNCHANGED <<content, saves, broken, reviewed>>

\* submit_for_review and resubmit_post: every row of the post that is eligible.
SendToReview(e) ==
  LET eligible == IF save[e].action = "submit"
                  THEN {"draft", "changes_requested", "rejected"}
                  ELSE {"changes_requested", "rejected", "approved"}
  IN  /\ save[e].step = "move"
      /\ save[e].action \in {"submit", "resubmit"}
      /\ row' = [a \in Accounts |-> IF row[a] \in eligible /\ MayMove(row[a], "pending_review")
                                    THEN "pending_review" ELSE row[a]]
      /\ Settled(e)
      /\ doubtful' = IF save[e].changed THEN doubtful \cup RowsIn({"approved"}) ELSE doubtful
      /\ UNCHANGED <<content, saves, broken, reviewed>>

\* An error (a full queue, an invalid payload found late) or a death ends it.
BreakOff(e) ==
  /\ save[e].step # "idle"
  /\ broken < MaxBroken
  /\ broken' = broken + 1
  /\ Settled(e)
  /\ doubtful' = IF save[e].changed THEN doubtful \cup RowsIn({"approved"}) ELSE doubtful
  /\ UNCHANGED <<content, row, saves, reviewed>>

----------------------------------------------------------------------------------
(* Other people, and the publisher. *)

\* What an approval sees is the content of that moment.
Reviewed(approved) ==
  /\ reviewed' = [a \in Accounts |-> IF a \in approved THEN content ELSE reviewed[a]]
  /\ doubtful' = doubtful \ approved

\* approve_post of the whole post.
ApprovePost ==
  LET approved == {a \in RowsIn({"pending_review", "pending_client", "draft",
                                 "rejected", "changes_requested"}) :
                     MayMove(row[a], "approved")}
  IN  /\ approved # {}
      /\ row' = [a \in Accounts |-> IF a \in approved THEN "approved" ELSE row[a]]
      /\ Reviewed(approved)
      /\ UNCHANGED <<content, save, saves, broken>>

RejectPost ==
  /\ RowsIn({"pending_review"}) # {}
  /\ row' = [a \in Accounts |-> IF row[a] = "pending_review" THEN "rejected" ELSE row[a]]
  /\ UNCHANGED <<content, save, saves, broken, reviewed, doubtful>>

\* A client holds an approved row, and the team resumes it as it is.
HoldRow(a) ==
  /\ row[a] = "approved"
  /\ row' = [row EXCEPT ![a] = "on_hold"]
  /\ doubtful' = IF \E e \in Savers : Pending(e) THEN doubtful \cup {a} ELSE doubtful
  /\ UNCHANGED <<content, save, saves, broken, reviewed>>

ResumeRow(a) ==
  /\ row[a] = "on_hold"
  /\ row' = [row EXCEPT ![a] = "approved"]
  /\ UNCHANGED <<content, save, saves, broken, reviewed, doubtful>>

\* transition_child, to draft or scheduled.
TransitionChild(a, target) ==
  /\ MayMove(row[a], target)
  /\ row' = [row EXCEPT ![a] = target]
  /\ UNCHANGED <<content, save, saves, broken, reviewed, doubtful>>

\* delete_post of one account's row.
DeleteRow(a) ==
  /\ row[a] # "none"
  /\ row' = [row EXCEPT ![a] = "none"]
  /\ reviewed' = [reviewed EXCEPT ![a] = NeverReviewed]
  /\ UNCHANGED <<content, save, saves, broken, doubtful>>

PublishRow(a) ==
  /\ \/ row[a] = "scheduled" /\ row' = [row EXCEPT ![a] = "publishing"]
     \/ row[a] = "publishing" /\ row' = [row EXCEPT ![a] = "published"]
  /\ UNCHANGED <<content, save, saves, broken, reviewed, doubtful>>

----------------------------------------------------------------------------------
SaveStep(e) ==
  \/ \E action \in SaveActions : LoadPost(e, action)
  \/ \E new \in Contents : WriteContent(e, new)
  \/ \E selected \in SUBSET Accounts, scope \in {Accounts} \cup {{a} : a \in Accounts} :
       SyncRows(e, selected, scope)
  \/ Revert(e)
  \/ TransitionChildren(e)
  \/ SendToReview(e)

EditorNext ==
  \/ \E e \in Savers : SaveStep(e) \/ BreakOff(e)
  \/ ApprovePost
  \/ RejectPost
  \/ \E a \in Accounts :
       \/ HoldRow(a)
       \/ ResumeRow(a)
       \/ \E target \in {"draft", "scheduled"} : TransitionChild(a, target)
       \/ DeleteRow(a)
       \/ PublishRow(a)

EditorSpec == EditorInit /\ [][EditorNext]_editorVars

----------------------------------------------------------------------------------
(* Properties. *)

AsReviewed(a) == reviewed[a] = content \/ a \in doubtful \/ \E e \in Savers : Pending(e)

\* "Editing an approved post's content sends it back for re-approval": a row
\* that stands approved, or that a save schedules, has the content it was
\* approved with.  The ways around it are the ones named by doubtful: a save
\* that overwrote another it had not seen, one that broke off, one that queued or
\* submitted what it had edited, and an edit of a held row.
ApprovedAsReviewed ==
  /\ [](\A a \in Accounts : row[a] = "approved" => AsReviewed(a))
  /\ [][\A a \in Accounts :
          row[a] \in {"approved", "pending_review"} /\ row'[a] = "scheduled"
            => reviewed[a] = content \/ a \in doubtful'
               \/ \E e \in Savers : Pending(e) /\ save'[e] = save[e]]_editorVars

==================================================================================

--------------------------------- MODULE MCLive ---------------------------------
(***************************************************************************)
(* The two recurring loops that nothing may stop: the publish cycle and    *)
(* the inbox cycle, checked in one run.  They share no state: `focus',     *)
(* chosen at the start, says which one moves.                              *)
(***************************************************************************)
EXTENDS MCPublisher, Inbox

CONSTANT Opened   \* bound: the messages people open and answer

VARIABLE focus

On(component) == focus = component /\ UNCHANGED focus

LiveInit ==
  /\ focus \in {"publisher", "inbox"}
  /\ Init
  /\ InboxInit
  /\ focus = "inbox" => status = [c \in Children |-> "draft"]

LiveNext ==
  \/ On("publisher") /\ Undying /\ UNCHANGED inboxVars
  \/ /\ On("inbox") /\ InboxNext /\ UNCHANGED vars
     /\ \A q \in Readers : reading'[q].message \subseteq Opened

\* A worker goes on with its cycle, and the inbox cycle with its own.
LiveSpec ==
  /\ LiveInit /\ [][LiveNext]_<<focus, vars, inboxVars>>
  /\ \A w \in Workers : WF_vars(focus = "publisher" /\ Progress(w))
  /\ WF_inboxVars(focus = "inbox" /\ CycleStepTaken)
===============================================================================

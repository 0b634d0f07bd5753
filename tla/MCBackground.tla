------------------------------- MODULE MCBackground -------------------------------
(***************************************************************************)
(* What the workers do by themselves: first comments, reminders of         *)
(* reviews, deliveries of notices, tokens of accounts and the deletion of  *)
(* an organisation, checked in one run.  The components share no state, so *)
(* the behaviours of each are explored while the others stay as they       *)
(* began; `focus', chosen at the start, says which one moves.              *)
(***************************************************************************)
EXTENDS FirstComment, Review, Delivery, AccountTokens, OrgDeletion, TLC

VARIABLE focus

Init ==
  /\ focus \in {"comment", "review", "delivery", "account", "org"}
  /\ CommentInit
  /\ ReviewInit
  /\ DeliveryInit
  /\ AccountInit
  /\ OrgInit

On(component) == focus = component /\ UNCHANGED focus

Next ==
  \/ /\ On("comment") /\ CommentNext
     /\ UNCHANGED <<reviewVars, deliveryVars, accountVars, orgVars>>
  \/ /\ On("review") /\ ReviewNext
     /\ UNCHANGED <<commentVars, deliveryVars, accountVars, orgVars>>
  \/ /\ On("delivery") /\ DeliveryNext
     /\ UNCHANGED <<commentVars, reviewVars, accountVars, orgVars>>
  \/ /\ On("account") /\ AccountNext
     /\ UNCHANGED <<commentVars, reviewVars, deliveryVars, orgVars>>
  \/ /\ On("org") /\ OrgNext
     /\ UNCHANGED <<commentVars, reviewVars, deliveryVars, accountVars>>

\* Workers keep taking tasks, a task that has begun is carried on, and time passes.
Fairness ==
  /\ \A w \in Workers : WF_commentVars(focus = "comment" /\ Progress(w))
  /\ WF_reviewVars(focus = "review" /\ SweepStep)
  /\ \A s \in Stages : WF_reviewVars(focus = "review" /\ CoolDown(s))
  /\ \A p \in Processes : WF_deliveryVars(focus = "delivery" /\ Dispatch(p))
  /\ WF_deliveryVars(focus = "delivery" /\ \E s \in Sweeps : Query(s))
  /\ \A d \in Deliveries : WF_deliveryVars(focus = "delivery" /\ BecomeDue(d))
  /\ \A h \in Checks : WF_accountVars(focus = "account" /\ CheckStep(h))
  /\ WF_orgVars(focus = "org" /\ PurgeStep)
  /\ WF_orgVars(focus = "org" /\ DayPasses)
  /\ \A o \in Owners : WF_orgVars(focus = "org" /\ FinishAsking(o))

allVars ==
  <<focus, commentVars, reviewVars, deliveryVars, accountVars, orgVars>>

Spec == Init /\ [][Next]_allVars /\ Fairness

\* Every variable of the five components has the values its module declares.
BackgroundTypeOK ==
  /\ CommentTypeOK /\ ReviewTypeOK
  /\ DeliveryTypeOK /\ AccountTypeOK /\ OrgTypeOK
===============================================================================

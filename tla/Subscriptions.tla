------------------------------ MODULE Subscriptions ------------------------------
(***************************************************************************)
(* The push of a page's activity (src/apps/social_accounts/webhooks.py).   *)
(* The platform has one subscription for the page; each workspace that     *)
(* connects the page has a row of its own, with the verdict on it.  The    *)
(* task of a connection, the health check and a person's retry subscribe,  *)
(* each on a copy of the row; a disconnection unsubscribes, unless another *)
(* workspace depends on the same subscription.                             *)
(***************************************************************************)
EXTENDS Integers, FiniteSets

CONSTANTS
  Workspaces,   \* that connect the page
  Budget,       \* MAX_AUTOMATIC_RETRIES
  Watched,      \* bound: those whose health check and retry button are used
  MaxConnects,  \* bound: connections and reconnections
  MaxBusy       \* bound: tasks and requests at once

ASSUME SubscriptionAssumption ==
  /\ Watched \subseteq Workspaces
  /\ Budget \in Nat \ {0}
  /\ MaxConnects \in Nat \ {0}
  /\ MaxBusy \in Nat \ {0}

VARIABLES
  card,         \* the SocialAccount row of a workspace, or NoCard
  subscribed,   \* the platform pushes the page's activity
  connects,     \* grants, counted; a row is named for its first one
  able,         \* grants that reach the subscription
  toSubscribe,  \* queued tasks
  caller,       \* who subscribes in a workspace, with its copy of the row
  leaver,       \* the disconnection of a workspace's account
  \* history
  tries,        \* calls of the health check since somebody asked
  overlapped,   \* a failure was counted from a count that was no longer there
  misled,       \* the row has the word, or the token, of another grant's copy
  slipped,      \* the page was unsubscribed by one who had not seen this account
  loose         \* a reason why the platform may push to nobody

cardVars == <<card, connects, able, toSubscribe>>
callVars == <<caller, tries, overlapped>>
subscriptionVars == <<cardVars, callVars, subscribed, leaver, misled, slipped, loose>>

Connects == 1 .. MaxConnects
Callers == {"task", "check", "press"}
CardStatus == {"connected", "token_expiring", "error"}
Verdicts == {"none", "on", "off"}

Counts == 0 .. Budget + MaxBusy + MaxConnects
Card == [pk : Connects, grant : Connects, status : CardStatus,
         active : Verdicts, regrant : BOOLEAN, count : Counts]
NoCard == [status |-> "none"]
CardCopies == [pk : Connects, grant : Connects, count : Counts, retry : BOOLEAN]
NotCalling == [step |-> "idle"]
NotLeaving == [step |-> "idle"]

SubscriptionTypeOK ==
  /\ \A w \in Workspaces : card[w] \in Card \cup {NoCard}
  /\ subscribed \in BOOLEAN /\ loose \in BOOLEAN
  /\ connects \in 0 .. MaxConnects
  /\ able \subseteq 1 .. connects
  /\ toSubscribe \subseteq [of : Workspaces, pk : Connects, grant : Connects]
  /\ \A w \in Workspaces, c \in Callers :
       \/ caller[w][c] = NotCalling
       \/ /\ caller[w][c].step \in {"health", "call", "on", "off", "regrant"}
          /\ caller[w][c].copy \in CardCopies
  /\ \A w \in Workspaces :
       leaver[w] = NotLeaving \/ (leaver[w].step \in {"look", "unsubscribe", "delete"}
                                   /\ leaver[w].seen \subseteq Workspaces)
  /\ overlapped \cup misled \cup slipped \subseteq Workspaces

SubscriptionInit ==
  /\ card = [w \in Workspaces |-> NoCard]
  /\ subscribed = FALSE
  /\ connects = 0
  /\ able = {}
  /\ toSubscribe = {}
  /\ caller = [w \in Workspaces |-> [c \in Callers |-> NotCalling]]
  /\ leaver = [w \in Workspaces |-> NotLeaving]
  /\ tries = [w \in Workspaces |-> 0]
  /\ overlapped = {}
  /\ misled = {}
  /\ slipped = {}
  /\ loose = FALSE

\* The row a copy was made of is still there.
Same(w, copy) == card[w] # NoCard /\ card[w].pk = copy.pk
UpToDate(w, copy) == Same(w, copy) /\ card[w].grant = copy.grant

Calling == {call \in Workspaces \X Callers : caller[call[1]][call[2]] # NotCalling}
Leaving == {w \in Workspaces : leaver[w] # NotLeaving}
HasRoom == Cardinality(Calling) + Cardinality(Leaving) < MaxBusy

\* What the copy of a row is used for: the platform call and the count, and
\* whether the health check is to retry.
Copied(r, retry) == [pk |-> r.pk, grant |-> r.grant, count |-> r.count, retry |-> retry]
Retryable(r) == r.active = "off" /\ ~r.regrant /\ r.count < Budget

Takes(w, c, step, copy) == caller' = [caller EXCEPT ![w][c] = [step |-> step, copy |-> copy]]
Ends(w, c) == caller' = [caller EXCEPT ![w][c] = NotCalling]
IsAt(w, c, step) == caller[w][c].step = step

-----------------------------------------------------------------------------------
\* _create_or_update_account: no verdict yet, and a task to get one.
Connect(w) ==
  /\ connects < MaxConnects
  /\ connects' = connects + 1
  /\ able' \in {able, able \cup {connects'}}
  /\ LET pk == IF card[w] = NoCard THEN connects' ELSE card[w].pk
     IN  /\ card' = [card EXCEPT ![w] =
              [pk |-> pk, grant |-> connects', status |-> "connected",
               active |-> "none", regrant |-> FALSE, count |-> 0]]
         /\ toSubscribe' = toSubscribe \cup {[of |-> w, pk |-> pk, grant |-> connects']}
  /\ tries' = [tries EXCEPT ![w] = 0]
  /\ overlapped' = overlapped \ {w}
  /\ misled' = misled \ {w}
  /\ UNCHANGED <<caller, subscribed, leaver, slipped, loose>>

\* subscribe_account_webhooks_task.
StartTask(w) ==
  /\ HasRoom
  /\ caller[w]["task"] = NotCalling
  /\ \E t \in toSubscribe :
       /\ t.of = w
       /\ toSubscribe' = toSubscribe \ {t}
       /\ IF Same(w, t) THEN Takes(w, "task", "call", Copied(card[w], FALSE)) ELSE UNCHANGED caller
  /\ UNCHANGED <<card, connects, able, tries, overlapped, subscribed, leaver, misled, slipped, loose>>

StartCheck(w) ==
  /\ HasRoom /\ w \in Watched
  /\ caller[w]["check"] = NotCalling
  /\ card[w].status \in {"connected", "token_expiring"}
  /\ Takes(w, "check", "health", Copied(card[w], Retryable(card[w])))
  /\ UNCHANGED <<cardVars, tries, overlapped, subscribed, leaver, misled, slipped, loose>>

\* The check saves the tokens and the status of its copy; a save of a row that
\* is gone fails.  Then retry_failed_subscription.
CheckHealth(w) ==
  /\ IsAt(w, "check", "health")
  /\ LET copy == caller[w]["check"].copy
     IN    \/ /\ Same(w, copy)
              /\ misled' = IF UpToDate(w, copy) THEN misled ELSE misled \cup {w}
              /\ \E s \in CardStatus :
                   /\ card' = [card EXCEPT ![w].status = s, ![w].grant = copy.grant]
                   /\ IF copy.retry /\ s # "error" THEN Takes(w, "check", "call", [copy EXCEPT !.retry = FALSE])
                     ELSE Ends(w, "check")
           \/ /\ ~Same(w, copy)
              /\ Ends(w, "check")
              /\ UNCHANGED <<card, misled>>
  /\ UNCHANGED <<connects, able, toSubscribe, tries, overlapped, subscribed, leaver, slipped, loose>>

\* retry_webhooks: refuses when the connection is not healthy, and else is a
\* fresh mandate for the health check.
Press(w) ==
  /\ HasRoom /\ w \in Watched
  /\ caller[w]["press"] = NotCalling
  /\ card[w].status \in {"connected", "token_expiring"}
  /\ card' = [card EXCEPT ![w].count = 0]
  /\ Takes(w, "press", "call", Copied(card'[w], FALSE))
  /\ tries' = [tries EXCEPT ![w] = 0]
  /\ UNCHANGED <<connects, able, toSubscribe, overlapped, subscribed, leaver, misled, slipped, loose>>

-----------------------------------------------------------------------------------
(* subscribe_account_webhooks, and what it records. *)

\* The platform takes the subscription, declines it or fails, or takes it and is
\* not heard; a grant that does not reach it, or was replaced, is told so.
Subscribe(w, c) ==
  /\ IsAt(w, c, "call")
  /\ LET copy == caller[w][c].copy
     IN  \/ /\ copy.grant \in able
            /\ subscribed' = TRUE
            /\ \/ Takes(w, c, "on", copy) /\ slipped' = slipped \ {w}
               \/ Takes(w, c, "off", copy) /\ UNCHANGED slipped
            /\ loose' = (loose \/ card[w] = NoCard \/ leaver[w].step = "delete")
         \/ /\ \/ Takes(w, c, "off", copy)
               \/ /\ copy.grant \notin able \/ ~UpToDate(w, copy)
                  /\ Takes(w, c, "regrant", copy)
            /\ UNCHANGED <<subscribed, slipped, loose>>
  /\ tries' = IF c = "check" /\ Same(w, caller[w][c].copy) THEN [tries EXCEPT ![w] = @ + 1] ELSE tries
  /\ UNCHANGED <<cardVars, overlapped, leaver, misled>>

\* record_subscription_result counts from the copy.
RecordResult(w, c) ==
  /\ caller[w][c].step \in {"on", "off", "regrant"}
  /\ LET copy == caller[w][c].copy
         step == caller[w][c].step
         now == card[w]
     IN  IF Same(w, copy)
           THEN /\ card' = [card EXCEPT
                     ![w].active = IF step = "on" THEN "on" ELSE "off",
                     ![w].regrant = step = "regrant",
                     ![w].count = IF step = "on" THEN 0 ELSE copy.count + 1]
                /\ overlapped' =
                     IF step # "on" /\ copy.count # now.count THEN overlapped \cup {w} ELSE overlapped
                /\ misled' = IF UpToDate(w, copy) THEN misled ELSE misled \cup {w}
                /\ tries' = IF step = "on" THEN [tries EXCEPT ![w] = 0] ELSE tries
           ELSE UNCHANGED <<card, overlapped, misled, tries>>
  /\ Ends(w, c)
  /\ UNCHANGED <<connects, able, toSubscribe, subscribed, leaver, slipped, loose>>

-----------------------------------------------------------------------------------
(* disconnect_account. *)

StartLeaving(w) ==
  /\ HasRoom
  /\ card[w] # NoCard
  /\ leaver[w] = NotLeaving
  /\ leaver' = [leaver EXCEPT ![w] = [step |-> "look", seen |-> {}]]
  /\ UNCHANGED <<cardVars, callVars, subscribed, misled, slipped, loose>>

Sharing(w) == {v \in Workspaces \ {w} : card[v].status = "connected"}

\* Mutant: the subscription is taken for the row's own.
LookAlone(w) ==
  /\ leaver[w].step = "look"
  /\ leaver' = [leaver EXCEPT ![w] = [step |-> "unsubscribe", seen |-> Sharing(w)]]
  /\ UNCHANGED <<cardVars, callVars, subscribed, misled, slipped, loose>>

\* _webhook_target_is_shared.  Two that see each other both leave it in place.
Look(w) ==
  /\ leaver[w].step = "look"
  /\ leaver' = [leaver EXCEPT ![w] =
       [step |-> IF Sharing(w) = {} THEN "unsubscribe" ELSE "delete", seen |-> Sharing(w)]]
  /\ loose' = (loose \/ \E v \in Sharing(w) : leaver[v].step = "delete")
  /\ UNCHANGED <<cardVars, callVars, subscribed, misled, slipped>>

\* unsubscribe_account_webhooks, whose failure is ignored.
Unsubscribe(w) ==
  /\ leaver[w].step = "unsubscribe"
  /\ leaver' = [leaver EXCEPT ![w] = [step |-> "delete", seen |-> {}]]
  /\ \/ /\ subscribed' = FALSE
        /\ slipped' = slipped \cup (Workspaces \ ({w} \cup leaver[w].seen))
        /\ UNCHANGED loose
     \/ /\ loose' = TRUE
        /\ UNCHANGED <<subscribed, slipped>>
  /\ UNCHANGED <<cardVars, callVars, misled>>

DeleteCard(w) ==
  /\ leaver[w].step = "delete"
  /\ card' = [card EXCEPT ![w] = NoCard]
  /\ leaver' = [leaver EXCEPT ![w] = NotLeaving]
  /\ tries' = [tries EXCEPT ![w] = 0]
  /\ overlapped' = overlapped \ {w}
  /\ misled' = misled \ {w}
  /\ UNCHANGED <<connects, able, toSubscribe, caller, subscribed, slipped, loose>>

-----------------------------------------------------------------------------------
SubscriptionNext ==
  \E w \in Workspaces :
    \/ Connect(w) \/ StartTask(w)
    \/ StartCheck(w) \/ CheckHealth(w)
    \/ Press(w)
    \/ \E c \in Callers : Subscribe(w, c) \/ RecordResult(w, c)
    \/ StartLeaving(w) \/ Look(w) \/ Unsubscribe(w) \/ DeleteCard(w)

SubscriptionSpec == SubscriptionInit /\ [][SubscriptionNext]_subscriptionVars

-----------------------------------------------------------------------------------
(* Properties. *)

\* An account shown to receive activity in real time does: a disconnection in
\* another workspace does not silence one that was connected when it looked.
ActiveIsSubscribed ==
  \A w \in Workspaces :
    card[w] # NoCard /\ leaver[w] = NotLeaving /\ card[w].active = "on"
      => subscribed \/ w \in slipped

\* When the last account is gone the platform does not push any more, unless an
\* unsubscription failed, the last two left at once, or a call was under way.
NobodyIsPushedTo ==
  (\A w \in Workspaces : card[w] = NoCard) /\ Calling = {} /\ subscribed => loose

\* The health check stops: between two mandates it calls at most Budget times,
\* unless two failures were counted as one.
RetriesAreBounded == \A w \in Workspaces : w \notin overlapped => tries[w] <= Budget

\* "The one class a retry can never fix": a person is asked to reconnect only
\* when the grant does not reach, unless an older grant's copy said so.
RegrantIsTrue ==
  \A w \in Workspaces :
    card[w] # NoCard /\ card[w].regrant => card[w].grant \notin able \/ w \in misled

SubscriptionsAreHonest ==
  /\ SubscriptionTypeOK
  /\ ActiveIsSubscribed /\ NobodyIsPushedTo /\ RetriesAreBounded /\ RegrantIsTrue

===================================================================================

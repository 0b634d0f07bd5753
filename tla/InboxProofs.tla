------------------------------- MODULE InboxProofs -------------------------------
(***************************************************************************)
(* Theorems about Inbox, for every set of messages and of requests, and    *)
(* every number of rewrites and of cycles and requests that die.           *)
(***************************************************************************)
EXTENDS Inbox, TLAPS

-------------------------------------------------------------------------------
(* The invariant. *)

Num(b) == IF b THEN 1 ELSE 0

\* Who has yet to announce m, and whether its warning waits for the flag.
CycleAnnounces(m) == cycle.step = "announce" /\ m \in cycle.current
WaitsForFlag(m) == cycle.step = "flag" /\ m \in cycle.current
WillWarn(m) == cycle.step \in {"warn", "flag"} /\ m \in cycle.todo

\* The row is created once, and only who created it announces it.
AnnouncedInv(m) ==
  announced[m] + Num(CycleAnnounces(m)) + Num(m \in hooks) <= Num(Known(m))

\* Every warning is remembered by the flag, about to be, lost to a rewrite, or
\* lost with the cycle; and nobody else sets a flag while the cycle means to warn.
WarnedInv(m) ==
  /\ warned[m] <= rewritten[m] + kills + Num(m \in flagged) + Num(WaitsForFlag(m))
  /\ WillWarn(m) \/ WaitsForFlag(m) => m \notin flagged
  /\ ~(WillWarn(m) /\ WaitsForFlag(m))

InboxInv == \A m \in Messages : AnnouncedInv(m) /\ WarnedInv(m)

\* What the arithmetic of the proof uses of the types.
LEMMA InboxFacts ==
  ASSUME InboxTypeOK
  PROVE  /\ \A m \in Messages : announced[m] \in 0 .. 2 /\ warned[m] \in Nat /\ rewritten[m] \in Nat
         /\ kills \in Nat /\ MaxRewrites \in Nat /\ MaxKills \in Nat /\ WarnBound \in Nat
BY InboxAssumption DEF InboxTypeOK, WarnBound

LEMMA InboxInitHolds == InboxInit => InboxTypeOK /\ InboxInv
BY InboxAssumption
   DEF InboxInit, InboxTypeOK, InboxInv, AnnouncedInv, WarnedInv, CycleAnnounces, WaitsForFlag,
       WillWarn, Num, AtRest, NotReading, Known, MessageStatus, Waits, CycleStep, WarnBound

\* What replaces the extra column: the flag goes, and is counted.
LEMMA RewriteFacts ==
  ASSUME InboxTypeOK, NEW m \in Messages, Rewrite(m)
  PROVE  /\ flagged' \subseteq Messages /\ rewritten' \in [Messages -> 0 .. MaxRewrites]
         /\ \A n \in Messages :
              /\ n \in flagged' => n \in flagged
              /\ rewritten'[n] + Num(n \in flagged') = rewritten[n] + Num(n \in flagged)
BY InboxFacts DEF Rewrite, CanRewrite, InboxTypeOK, Num

\* A capped count stays or grows by one, at one message.
LEMMA PlusOne ==
  ASSUME NEW f \in [Messages -> Nat], NEW n \in Messages, NEW top \in Nat, NEW m \in Messages
  PROVE  Plus(f, n, top)[m] = f[m] \/ (m = n /\ Plus(f, n, top)[m] = f[m] + 1)
BY DEF Plus

LEMMA InboxImplies == InboxTypeOK /\ InboxInv => InboxIsHonest
<1>. SUFFICES ASSUME InboxTypeOK, InboxInv, NEW m \in Messages
     PROVE  announced[m] <= 1 /\ warned[m] <= 1 + rewritten[m] + kills
  BY DEF InboxIsHonest, InboxNoticesBounded
<1>1. AnnouncedInv(m) /\ WarnedInv(m)
  BY DEF InboxInv
<1>. QED
  BY <1>1, InboxFacts DEF AnnouncedInv, WarnedInv, Num

LEMMA InboxStep ==
  ASSUME InboxTypeOK, InboxInv, InboxNext, NEW m \in Messages
  PROVE  AnnouncedInv(m)' /\ WarnedInv(m)'
<1>. USE DEF CycleAnnounces, WaitsForFlag, WillWarn
<1>0. AnnouncedInv(m) /\ WarnedInv(m)
  BY DEF InboxInv
<1>c. cycle = [step |-> cycle.step, todo |-> cycle.todo, current |-> cycle.current,
               backlog |-> cycle.backlog]
  BY DEF InboxTypeOK
<1>1. CASE Fetch
  <2>1. cycle.step = "idle" /\ cycle'.step = "upsert"
    BY <1>1 DEF Fetch
  <2>2. AnnouncedInv(m)'
    BY <1>0, <1>1, <2>1, InboxFacts DEF Fetch, AnnouncedInv, Num, Known
  <2>3. WarnedInv(m)'
    BY <1>0, <1>1, <2>1, InboxFacts DEF Fetch, WarnedInv, Num
  <2>. QED
    BY <2>2, <2>3
<1>2. ASSUME NEW n \in Messages, Upsert(n) PROVE AnnouncedInv(m)' /\ WarnedInv(m)'
  <2>1. CASE Update(n)
    <3>1. /\ m \in flagged' => m \in flagged
          /\ rewritten'[m] \in Nat
          /\ rewritten'[m] + Num(m \in flagged') = rewritten[m] + Num(m \in flagged)
      BY <2>1, RewriteFacts, InboxFacts DEF Update
    <3>2. cycle'.step = "upsert" /\ cycle.step = "upsert" /\ message' = message
      BY <1>c, <1>2, <2>1 DEF Upsert, Update
    <3>3. AnnouncedInv(m)'
      BY <1>0, <1>2, <3>2, InboxFacts DEF Upsert, AnnouncedInv, Num, Known
    <3>4. WarnedInv(m)'
      BY <1>0, <1>2, <3>1, <3>2, InboxFacts DEF Upsert, WarnedInv, Num
    <3>. QED
      BY <3>3, <3>4
  <2>2. CASE Insert(n)
    <3>1. \/ cycle'.step = "announce" /\ cycle'.current = {n}
          \/ cycle'.step = "upsert"
      BY <1>c, <1>2, <2>2 DEF Upsert, Insert
    <3>2. /\ message'[m] = IF m = n THEN "unread" ELSE message[m]
          /\ cycle.step = "upsert" /\ message[n] = "none"
          /\ hooks' = hooks /\ announced' = announced /\ warned' = warned /\ kills' = kills
          /\ flagged' = flagged /\ rewritten' = rewritten
      BY <1>2, <2>2 DEF Upsert, Insert, InboxTypeOK, Known
    <3>3. AnnouncedInv(m)'
      BY <1>0, <3>1, <3>2, InboxFacts DEF AnnouncedInv, Num, Known
    <3>4. WarnedInv(m)'
      BY <1>0, <3>1, <3>2, InboxFacts DEF WarnedInv, Num
    <3>. QED
      BY <3>3, <3>4
  <2>. QED
    BY <1>2, <2>1, <2>2 DEF Upsert
<1>3. CASE Announce
  <2>1. PICK n \in cycle.current : announced' = Plus(announced, n, 2)
    BY <1>3 DEF Announce
  <2>2. cycle'.step = "upsert" /\ cycle'.current = {} /\ n \in Messages
    BY <1>3, <1>c DEF Announce, InboxTypeOK
  <2>3. announced'[m] = announced[m] \/ (m = n /\ announced'[m] = announced[m] + 1)
    <3>1. announced \in [Messages -> Nat]
      BY DEF InboxTypeOK
    <3>. QED
      BY <2>1, <2>2, <3>1, PlusOne
  <2>4. WarnedInv(m)'
    BY <1>0, <1>3, <2>2 DEF Announce, WarnedInv, Num
  <2>5. AnnouncedInv(m)'
    BY <1>0, <1>3, <2>1, <2>2, <2>3, InboxFacts DEF Announce, AnnouncedInv, Num, Known
  <2>. QED
    BY <2>4, <2>5
<1>4. CASE CheckSla
  <2>1. /\ cycle'.step = "warn" /\ cycle'.current = {} /\ cycle.step = "upsert"
        /\ cycle'.todo \cap flagged = {}
    BY <1>4 DEF CheckSla, CheckSlaOf, AtRest
  <2>2. AnnouncedInv(m)'
    BY <1>0, <1>4, <2>1, InboxFacts DEF CheckSla, CheckSlaOf, AnnouncedInv, Num, Known
  <2>3. WarnedInv(m)'
    BY <1>0, <1>4, <2>1, InboxFacts DEF CheckSla, CheckSlaOf, WarnedInv, Num
  <2>. QED
    BY <2>2, <2>3
<1>5. ASSUME NEW n \in Messages, Warn(n) PROVE AnnouncedInv(m)' /\ WarnedInv(m)'
  <2>1. /\ cycle'.step = "flag" /\ cycle'.current = {n} /\ cycle'.todo = cycle.todo \ {n}
        /\ cycle.step = "warn" /\ n \in cycle.todo
    BY <1>5, <1>c DEF Warn
  <2>2. warned'[m] = warned[m] \/ (m = n /\ warned'[m] = warned[m] + 1)
    <3>1. warned \in [Messages -> Nat] /\ WarnBound + 1 \in Nat
      BY InboxFacts DEF InboxTypeOK
    <3>. QED
      BY <1>5, <3>1, PlusOne DEF Warn
  <2>3. AnnouncedInv(m)'
    BY <1>0, <1>5, <2>1 DEF Warn, AnnouncedInv, Num, Known
  <2>4. WarnedInv(m)'
    BY <1>0, <1>5, <2>1, <2>2, InboxFacts DEF Warn, WarnedInv, Num
  <2>. QED
    BY <2>3, <2>4
<1>6. CASE Flag
  <2>1. cycle'.step = "warn" /\ cycle'.todo = cycle.todo /\ cycle.step = "flag"
    BY <1>6, <1>c DEF Flag
  <2>2. AnnouncedInv(m)'
    BY <1>0, <1>6, <2>1 DEF Flag, AnnouncedInv, Num, Known
  <2>3. WarnedInv(m)'
    BY <1>0, <1>6, <2>1, InboxFacts DEF Flag, WarnedInv, Num
  <2>. QED
    BY <2>2, <2>3
<1>7. CASE EndInboxCycle \/ CycleDies
  <2>1. cycle'.step = "idle" /\ (cycle.step = "warn" \/ kills' = kills + 1)
    BY <1>7 DEF EndInboxCycle, CycleDies, AtRest
  <2>2. AnnouncedInv(m)'
    BY <1>0, <1>7, <2>1, InboxFacts DEF EndInboxCycle, CycleDies, AnnouncedInv, Num, Known
  <2>3. WarnedInv(m)'
    BY <1>0, <1>7, <2>1, InboxFacts DEF EndInboxCycle, CycleDies, WarnedInv, Num
  <2>. QED
    BY <2>2, <2>3
<1>8. ASSUME NEW n \in Messages, ReceiveHook(n) PROVE AnnouncedInv(m)' /\ WarnedInv(m)'
  <2>1. message'[m] = IF m = n THEN "unread" ELSE message[m]
    BY <1>8 DEF ReceiveHook, InboxTypeOK
  <2>2. AnnouncedInv(m)'
    BY <1>0, <1>8, <2>1, InboxFacts DEF ReceiveHook, AnnouncedInv, Num, Known
  <2>3. WarnedInv(m)'
    BY <1>0, <1>8 DEF ReceiveHook, WarnedInv
  <2>. QED
    BY <2>2, <2>3
<1>9. ASSUME NEW n \in Messages, AnnounceHook(n) PROVE AnnouncedInv(m)' /\ WarnedInv(m)'
  <2>1. announced'[m] = announced[m] \/ (m = n /\ announced'[m] = announced[m] + 1)
    <3>1. announced \in [Messages -> Nat]
      BY DEF InboxTypeOK
    <3>. QED
      BY <1>9, <3>1, PlusOne DEF AnnounceHook
  <2>2. AnnouncedInv(m)'
    BY <1>0, <1>9, <2>1, InboxFacts DEF AnnounceHook, AnnouncedInv, Num, Known
  <2>3. WarnedInv(m)'
    BY <1>0, <1>9 DEF AnnounceHook, WarnedInv
  <2>. QED
    BY <2>2, <2>3
<1>10. ASSUME NEW n \in Messages, HookDies(n) PROVE AnnouncedInv(m)' /\ WarnedInv(m)'
  <2>1. AnnouncedInv(m)'
    BY <1>0, <1>10, InboxFacts DEF HookDies, AnnouncedInv, Num, Known
  <2>2. WarnedInv(m)'
    BY <1>0, <1>10, InboxFacts DEF HookDies, WarnedInv, Num
  <2>. QED
    BY <2>1, <2>2
<1>11. ASSUME NEW n \in Messages, EditComment(n) PROVE AnnouncedInv(m)' /\ WarnedInv(m)'
  <2>1. /\ m \in flagged' => m \in flagged
        /\ rewritten'[m] \in Nat
        /\ rewritten'[m] + Num(m \in flagged') = rewritten[m] + Num(m \in flagged)
    BY <1>11, RewriteFacts, InboxFacts DEF EditComment
  <2>2. AnnouncedInv(m)'
    BY <1>0, <1>11 DEF EditComment, AnnouncedInv, Known
  <2>3. WarnedInv(m)'
    BY <1>0, <1>11, <2>1, InboxFacts DEF EditComment, WarnedInv, Num
  <2>. QED
    BY <2>2, <2>3
\* What only changes statuses makes no message unknown.
<1>12. ASSUME Known(m) => Known(m)', UNCHANGED <<cycle, hooks, flagged, rewritten, kills,
                                                announced, warned>>
       PROVE  AnnouncedInv(m)' /\ WarnedInv(m)'
  <2>1. AnnouncedInv(m)'
    BY <1>0, <1>12, InboxFacts DEF AnnouncedInv, Num
  <2>2. WarnedInv(m)'
    BY <1>0, <1>12 DEF WarnedInv
  <2>. QED
    BY <2>1, <2>2
<1>13. ASSUME NEW n \in Messages,
              RemoveComment(n) \/ BulkAction(n) \/ TimePasses(n) \/ \E q \in Readers : ReadMessage(q, n)
       PROVE  AnnouncedInv(m)' /\ WarnedInv(m)'
  <2>1. UNCHANGED <<cycle, hooks, flagged, rewritten, kills, announced, warned>>
    BY <1>13 DEF RemoveComment, BulkAction, TimePasses, ReadMessage
  <2>2. Known(m) => Known(m)'
    BY <1>13 DEF RemoveComment, BulkAction, TimePasses, ReadMessage, Known, InboxTypeOK
  <2>. QED
    BY <1>12, <2>1, <2>2
<1>14. ASSUME NEW q \in Readers, WriteMessage(q) PROVE AnnouncedInv(m)' /\ WarnedInv(m)'
  <2>1. UNCHANGED <<cycle, hooks, flagged, rewritten, kills, announced, warned>>
    BY <1>14 DEF WriteMessage
  <2>2. Known(m) => Known(m)'
    BY <1>14 DEF WriteMessage, Known, InboxTypeOK
  <2>. QED
    BY <1>12, <2>1, <2>2
<1>. QED
  BY <1>1, <1>2, <1>3, <1>4, <1>5, <1>6, <1>7, <1>8, <1>9, <1>10, <1>11, <1>13, <1>14
     DEF InboxNext, CycleStepTaken

LEMMA InboxTypeStep ==
  ASSUME InboxTypeOK, InboxNext
  PROVE  InboxTypeOK'
<1>. USE InboxFacts
<1>1. CASE Fetch
  BY <1>1 DEF Fetch, InboxTypeOK, CycleStep
<1>2. ASSUME NEW n \in Messages, Upsert(n) PROVE InboxTypeOK'
  <2>1. flagged' \subseteq Messages /\ rewritten' \in [Messages -> 0 .. MaxRewrites]
    BY <1>2, RewriteFacts DEF Upsert, Update, Insert, InboxTypeOK
  <2>2. cycle' \in [step : CycleStep, todo : SUBSET Messages, current : SUBSET Messages, backlog : BOOLEAN]
    <3>1. CASE Update(n)
      BY <1>2, <3>1 DEF Upsert, Update, InboxTypeOK
    <3>2. CASE Insert(n)
      <4>1. \/ cycle' = [cycle EXCEPT !.step = "announce", !.todo = @ \ {n}, !.current = {n}]
            \/ cycle' = [cycle EXCEPT !.todo = @ \ {n}]
        BY <3>2 DEF Insert
      <4>2. CASE cycle' = [cycle EXCEPT !.todo = @ \ {n}]
        BY <4>2 DEF InboxTypeOK
      <4>3. CASE cycle' = [cycle EXCEPT !.step = "announce", !.todo = @ \ {n}, !.current = {n}]
        <5>1. cycle' = [step |-> "announce", todo |-> cycle.todo \ {n}, current |-> {n},
                        backlog |-> cycle.backlog]
          BY <4>3 DEF InboxTypeOK
        <5>. QED
          BY <5>1 DEF InboxTypeOK, CycleStep
      <4>. QED
        BY <4>1, <4>2, <4>3
    <3>. QED
      BY <1>2, <3>1, <3>2 DEF Upsert
  <2>. QED
    BY <1>2, <2>1, <2>2 DEF Upsert, Update, Insert, InboxTypeOK, MessageStatus, Waits
<1>3. ASSUME NEW top \in Nat, NEW f \in [Messages -> 0 .. top], NEW n \in Messages
      PROVE  Plus(f, n, top) \in [Messages -> 0 .. top]
  BY <1>3 DEF Plus
<1>4. CASE Announce
  <2>1. announced' \in [Messages -> 0 .. 2]
    <3>1. PICK n \in cycle.current : announced' = Plus(announced, n, 2)
      BY <1>4 DEF Announce
    <3>2. n \in Messages /\ announced \in [Messages -> 0 .. 2]
      BY DEF InboxTypeOK
    <3>. QED
      BY <1>3, <3>1, <3>2
  <2>. QED
    BY <1>4, <2>1 DEF Announce, InboxTypeOK, CycleStep
<1>5. CASE CheckSla
  BY <1>5 DEF CheckSla, CheckSlaOf, AtRest, InboxTypeOK, CycleStep
<1>6. ASSUME NEW n \in Messages, Warn(n) PROVE InboxTypeOK'
  <2>1. warned' \in [Messages -> 0 .. WarnBound + 1]
    <3>1. warned \in [Messages -> 0 .. WarnBound + 1] /\ WarnBound + 1 \in Nat
      BY DEF InboxTypeOK
    <3>2. warned' = Plus(warned, n, WarnBound + 1)
      BY <1>6 DEF Warn
    <3>. QED
      BY <1>3, <3>1, <3>2
  <2>. QED
    BY <1>6, <2>1 DEF Warn, InboxTypeOK, CycleStep
<1>7. CASE Flag
  BY <1>7 DEF Flag, InboxTypeOK, CycleStep
<1>8. CASE EndInboxCycle \/ CycleDies
  <2>1. AtRest \in [step : CycleStep, todo : SUBSET Messages, current : SUBSET Messages, backlog : BOOLEAN]
    BY DEF AtRest, CycleStep
  <2>. QED
    BY <1>8, <2>1 DEF EndInboxCycle, CycleDies, InboxTypeOK
<1>9. ASSUME NEW n \in Messages, ReceiveHook(n) \/ HookDies(n) PROVE InboxTypeOK'
  BY <1>9 DEF ReceiveHook, HookDies, InboxTypeOK, MessageStatus, Waits
<1>10. ASSUME NEW n \in Messages, AnnounceHook(n) PROVE InboxTypeOK'
  <2>1. announced' \in [Messages -> 0 .. 2]
    <3>1. announced \in [Messages -> 0 .. 2] /\ announced' = Plus(announced, n, 2)
      BY <1>10 DEF AnnounceHook, InboxTypeOK
    <3>. QED
      BY <1>3, <3>1
  <2>. QED
    BY <1>10, <2>1 DEF AnnounceHook, InboxTypeOK
<1>11. ASSUME NEW n \in Messages, EditComment(n) PROVE InboxTypeOK'
  BY <1>11, RewriteFacts DEF EditComment, InboxTypeOK
<1>12. ASSUME NEW n \in Messages, RemoveComment(n) \/ BulkAction(n) \/ TimePasses(n)
       PROVE  InboxTypeOK'
  BY <1>12 DEF RemoveComment, BulkAction, TimePasses, InboxTypeOK, MessageStatus, Waits
<1>13. ASSUME NEW q \in Readers, NEW n \in Messages, ReadMessage(q, n) PROVE InboxTypeOK'
  BY <1>13 DEF ReadMessage, InboxTypeOK
<1>14. ASSUME NEW q \in Readers, WriteMessage(q) PROVE InboxTypeOK'
  <2>1. NotReading \in [message : SUBSET Messages, unread : BOOLEAN]
    BY DEF NotReading
  <2>2. message' \in [Messages -> MessageStatus]
    BY <1>14 DEF WriteMessage, InboxTypeOK, MessageStatus, Waits
  <2>. QED
    BY <1>14, <2>1, <2>2 DEF WriteMessage, InboxTypeOK
<1>. QED
  BY <1>1, <1>2, <1>4, <1>5, <1>6, <1>7, <1>8, <1>9, <1>10, <1>11, <1>12, <1>13, <1>14
     DEF InboxNext, CycleStepTaken

LEMMA InboxStutter ==
  ASSUME InboxTypeOK, InboxInv, UNCHANGED inboxVars
  PROVE  InboxTypeOK' /\ InboxInv'
BY DEF inboxVars, InboxTypeOK, InboxInv, AnnouncedInv, WarnedInv, CycleAnnounces, WaitsForFlag,
   WillWarn, Known

-------------------------------------------------------------------------------
(* The theorem. *)

\* InboxIsHonest: a message that polling and webhooks bring, once or often, is
\* announced once, and a late one is warned of once, and once more for each
\* rewrite that took its flag and each process that died.
THEOREM InboxTellsOnce == InboxSpec => []InboxIsHonest
<1>1. InboxTypeOK /\ InboxInv /\ [InboxNext]_inboxVars => (InboxTypeOK /\ InboxInv)'
  BY InboxTypeStep, InboxStep, InboxStutter DEF InboxInv
<1>. QED
  BY <1>1, InboxInitHolds, InboxImplies, PTL DEF InboxSpec

===============================================================================

------------------------------- MODULE SlotQueue -------------------------------
(***************************************************************************)
(* The queues of one channel (src/apps/calendar/services.py).              *)
(*                                                                         *)
(* A channel has posting slots, instants at which its queues publish.  A   *)
(* row holds an instant through its scheduled_at column alone: a queue     *)
(* entry says which queue put it there and gives no time.  The slot        *)
(* operations of all queues of the channel run under the channel's row     *)
(* lock, so each is one step; drags, bulk actions and the publisher write  *)
(* the same column without it.                                             *)
(***************************************************************************)
EXTENDS Integers, FiniteSets, FiniteSetsExt, Functions, PostStates

CONSTANTS
  Posts,    \* posts with a row on the channel
  Queues,   \* the channel's queues
  Grid,     \* its posting slots within the lookahead
  Horizon   \* bound: the last instant of the model

ASSUME SlotQueueAssumption ==
  /\ Horizon \in Nat
  /\ Grid \subseteq 1 .. Horizon
  /\ IsFiniteSet(Posts)

VARIABLES
  status,   \* of each post's row
  slot,     \* scheduled_at of each post's row
  entries,  \* the posts with an entry in each queue
  now

vars == <<status, slot, entries, now>>

Never == 0   \* NULL

TypeOK ==
  /\ status \in [Posts -> Status]
  /\ slot \in [Posts -> {Never} \cup 1 .. Horizon]
  /\ entries \in [Queues -> SUBSET Posts]
  /\ now \in 0 .. Horizon

Init ==
  /\ status \in [Posts -> {"draft", "approved", "pending_review"}]
  /\ slot = [p \in Posts |-> Never]
  /\ entries = [q \in Queues |-> {}]
  /\ now = 0

-------------------------------------------------------------------------------
(* Occupancy. *)

Protected(p) == status[p] \in ProtectedStatuses
Upcoming(p) == slot[p] > now
SlotsOf(rows) == {slot[p] : p \in rows}

\* The instants other rows hold; history holds none.
Occupied(p) == SlotsOf({r \in Posts \ {p} : Upcoming(r) /\ ~Protected(r)})

\* _next_slot_datetimes: the first count posting slots after now.
Candidates(count) ==
  {t \in Grid : t > now /\ Cardinality({u \in Grid : now < u /\ u < t}) < count}

Earliest(times) == IF times = {} THEN Never ELSE Min(times)

\* Mutant: one candidate too few.
NextGapNarrow(p) == Earliest(Candidates(Cardinality(Occupied(p))) \ Occupied(p))

\* _next_available_slot: one candidate more than there are occupied instants.
NextGap(p) == Earliest(Candidates(Cardinality(Occupied(p)) + 1) \ Occupied(p))

-------------------------------------------------------------------------------
(* The ladder. *)

Movable(p, q) == {r \in entries[q] \ {p} : Upcoming(r) /\ ~Protected(r)}
Window(p, q) == Candidates(Cardinality(Movable(p, q)) + 2)
Movers(p, q) == {r \in Movable(p, q) : slot[r] \in Window(p, q)}

\* Mutant: rows of others are overlooked.
FixedNone(p, q) == {}

\* Instants the ladder must step over.
Fixed(p, q) == Occupied(p) \ SlotsOf(Movers(p, q))

\* Where a mover at t lands.
Landing(t, avoid) == Earliest({u \in Grid : u > t} \ avoid)

\* The movers take their turns from the latest to the earliest; the order of
\* those that share an instant is the query's.
Turns(p, q) ==
  {turn \in Bijection(Movers(p, q), 1 .. Cardinality(Movers(p, q))) :
     \A a, b \in Movers(p, q) : slot[a] > slot[b] => turn[a] < turn[b]}

\* Each lands on the next slot that is neither fixed, nor the first, nor taken by
\* one before it.
Ladder(p, q, turn) ==
  LET land[a \in Movers(p, q)] ==
        Landing(slot[a], Fixed(p, q) \cup {Earliest(Window(p, q))}
                           \cup {land[b] : b \in {c \in Movers(p, q) : turn[c] < turn[a]}})
  IN  land

\* The slots with p at t and the movers where they landed.
Moved(p, t, land) ==
  [r \in Posts |-> IF r = p THEN t ELSE IF r \in DOMAIN land THEN land[r] ELSE slot[r]]

\* The slots after p is put at the top of q: the first slot if the queue's rows
\* leave it, the next gap if a row outside the queue holds it, or the ladder.
Tops(p, q) ==
  LET first == Earliest(Window(p, q))
  IN  IF first \in SlotsOf(Movable(p, q))
        THEN {Moved(p, first, Ladder(p, q, turn)) : turn \in Turns(p, q)}
        ELSE {[slot EXCEPT ![p] = IF first \in Occupied(p) THEN NextGap(p) ELSE first]}

-------------------------------------------------------------------------------
(* Slot operations. *)

\* QueueFullError rolls the operation back: no row loses its time, none is
\* placed at none.
Place(p, q, at) ==
  /\ \A r \in Posts : at[r] = Never => r # p /\ slot[r] = Never
  /\ slot' = at
  /\ entries' = [entries EXCEPT ![q] = @ \cup {p}]
  /\ UNCHANGED now

\* transition_post_children to scheduled, by way of draft where needed.
Promote(p) ==
  status' = [status EXCEPT ![p] =
    IF CanTransition(@, "scheduled") \/ CanTransition(@, "draft") THEN "scheduled" ELSE @]

\* The composer's add_to_queue: a published or publishing row is left where it
\* is, but a publishing one goes back to scheduled.
AddToQueue(p, q) ==
  /\ \/ ~Protected(p) /\ Place(p, q, [slot EXCEPT ![p] = NextGap(p)])
     \/ Protected(p) /\ UNCHANGED <<slot, entries, now>>
  /\ Promote(p)

\* The composer's add_to_queue_priority: the row itself is not looked at.
Prioritize(p, q) ==
  /\ \E at \in Tops(p, q) : Place(p, q, at)
  /\ Promote(p)

Reslot(p, q) ==
  /\ p \in entries[q]
  /\ ~Protected(p)
  /\ Place(p, q, [slot EXCEPT ![p] = NextGap(p)])
  /\ UNCHANGED status

\* A drag in the queue names its entries in any new order, and the instants they
\* hold go round among them, the earliest to the first named.
Reorder(q) ==
  LET rows == {p \in entries[q] : slot[p] # Never /\ ~Protected(p)}
  IN  \E from \in Bijection(rows, rows) :
        /\ slot' = [p \in Posts |-> IF p \in rows THEN slot[from[p]] ELSE slot[p]]
        /\ UNCHANGED <<status, entries, now>>

\* The row back to draft, without a time and without an entry anywhere.
ToDraft(p) ==
  /\ status' = [status EXCEPT ![p] = "draft"]
  /\ slot' = [slot EXCEPT ![p] = Never]
  /\ entries' = [q \in Queues |-> entries[q] \ {p}]

\* A row that cannot go back to draft keeps its time and loses its entry.
RemoveEntry(p, q) ==
  LET draftable == ~Protected(p) /\ CanTransition(status[p], "draft")
  IN  /\ p \in entries[q]
      /\ \/ draftable /\ ToDraft(p)
         \/ ~draftable /\ entries' = [entries EXCEPT ![q] = @ \ {p}] /\ UNCHANGED <<status, slot>>
      /\ UNCHANGED now

-------------------------------------------------------------------------------
(* Writers without the lock. *)

\* reschedule_platform_post: any instant, held or not.
Drag(p, t) ==
  /\ status[p] \in ReschedulableStatuses
  /\ slot' = [slot EXCEPT ![p] = t]
  /\ status' = [status EXCEPT ![p] = IF @ \in ImplicitScheduleStatuses THEN "scheduled" ELSE @]
  /\ UNCHANGED <<entries, now>>

BulkDraft(p) ==
  /\ ~Protected(p)
  /\ CanTransition(status[p], "draft")
  /\ ToDraft(p)
  /\ UNCHANGED now

\* transition_child moves the status and gives no time.
ChipSchedule(p) ==
  /\ CanTransition(status[p], "scheduled")
  /\ status' = [status EXCEPT ![p] = "scheduled"]
  /\ UNCHANGED <<slot, entries, now>>

\* The publisher claims a due row; a row that is published leaves its queues.
Claim(p) ==
  /\ status[p] = "scheduled"
  /\ slot[p] \in 1 .. now
  /\ status' = [status EXCEPT ![p] = "publishing"]
  /\ UNCHANGED <<slot, entries, now>>

Publish(p) ==
  /\ status[p] = "publishing"
  /\ status' = [status EXCEPT ![p] = "published"]
  /\ entries' = [q \in Queues |-> entries[q] \ {p}]
  /\ UNCHANGED <<slot, now>>

Fail(p) ==
  /\ status[p] = "publishing"
  /\ status' = [status EXCEPT ![p] = "failed"]
  /\ UNCHANGED <<slot, entries, now>>

Tick ==
  /\ now < Horizon
  /\ now' = now + 1
  /\ UNCHANGED <<status, slot, entries>>

-------------------------------------------------------------------------------
SlotOperation ==
  \E q \in Queues :
    \/ Reorder(q)
    \/ \E p \in Posts : AddToQueue(p, q) \/ Prioritize(p, q) \/ Reslot(p, q) \/ RemoveEntry(p, q)

Unlocked ==
  \E p \in Posts :
    \/ \E t \in now + 1 .. Horizon : Drag(p, t)
    \/ BulkDraft(p)
    \/ ChipSchedule(p)
    \/ Claim(p)
    \/ Publish(p)
    \/ Fail(p)

Next == SlotOperation \/ Unlocked \/ Tick

Spec == Init /\ [][Next]_vars

-------------------------------------------------------------------------------
(* Properties. *)

\* Upcoming instants that two rows hold.
Clashes ==
  {t \in now + 1 .. Horizon :
     \E a, b \in Posts : a # b /\ slot[a] = t /\ slot[b] = t /\ ~Protected(a) /\ ~Protected(b)}

\* "One is guaranteed free if any free slot exists at all": the bounded search
\* finds the first free posting slot whenever there is one.
FirstGapIsFound ==
  \A p \in Posts : NextGap(p) = Earliest({t \in Grid : t > now} \ Occupied(p))

\* The ladder delays rows, and a row that shares its instant with no other row
\* it moves stays before those that came after it.
Alone(a, p, q) == \A b \in Movers(p, q) \ {a} : slot[b] # slot[a]

MoversKeepOrder ==
  \A p \in Posts, q \in Queues :
    Prioritize(p, q) =>
      \A a, b \in Movers(p, q) :
        /\ slot'[a] >= slot[a]
        /\ slot[a] < slot[b] /\ Alone(a, p, q) => slot'[a] < slot'[b]

\* The history of a row that is not itself put at the top of a queue stays
\* where it is, whatever is shuffled, laddered or dragged around it.
NeighboursKeepHistory ==
  \A r \in Posts :
    Protected(r) /\ slot'[r] # slot[r] => \E q \in Queues : Prioritize(r, q)

\* Scheduled rows without a time of their own: the publisher would fall back
\* to the parent's, which may have passed.
Timeless == {p \in Posts : status[p] = "scheduled" /\ slot[p] = Never}

\* A slot operation books: it leaves no row scheduled without a time of its
\* own, and, "no double-booking", it never brings two rows together on an
\* instant, whatever rows people dragged there by hand before.
OperationsBook == SlotOperation => Timeless' \subseteq Timeless /\ Clashes' \subseteq Clashes

\* What is queued gets a time nobody else has; of the rows around it those that
\* move from an instant of their own keep their order, and history does not move.
SlotsAreKept == [][OperationsBook /\ MoversKeepOrder /\ NeighboursKeepHistory]_vars

\* "A published/publishing post's schedule is history - never re-slot it".
HistoryIsNeverReslotted ==
  [][\A p \in Posts : slot'[p] # slot[p] => ~Protected(p)]_vars

\* "every other occupied queue entry shifts one slot later ([k]->[k+1],
\* preserving the gap pattern)": entries on posting slots, no two on the same,
\* keep their order.
EntriesKeepOrder ==
  [][Clashes = {} =>
       \A p \in Posts, q \in Queues :
         \A a, b \in {r \in Movable(p, q) : slot[r] \in Grid} :
           slot[a] < slot[b] => slot'[a] < slot'[b] \/ ~Prioritize(p, q)]_vars

===============================================================================

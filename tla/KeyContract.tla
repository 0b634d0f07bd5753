------------------------------ MODULE KeyContract ------------------------------
(***************************************************************************)
(* What an idempotency key promises the agents that call the API           *)
(* (src/apps/api/models.py, IdempotencyRecord): while a key is held, at    *)
(* most one thing is done under it, and once it has an answer the answer   *)
(* stays what was done until the key expires.                              *)
(***************************************************************************)
CONSTANTS
  Keys,
  Effects   \* what can be done under a key

VARIABLES
  phase,    \* of each key
  done,     \* what was done under it since it was taken
  old       \* keys taken more than a day ago

Phases == {"free", "taken", "settled"}

Init ==
  /\ phase = [k \in Keys |-> "free"]
  /\ done = [k \in Keys |-> {}]
  /\ old = {}

Take(k) ==
  /\ phase[k] = "free"
  /\ phase' = [phase EXCEPT ![k] = "taken"]
  /\ UNCHANGED <<done, old>>

Do(k, e) ==
  /\ phase[k] = "taken"
  /\ done[k] = {}
  /\ done' = [done EXCEPT ![k] = {e}]
  /\ UNCHANGED <<phase, old>>

Settle(k) ==
  /\ phase[k] = "taken"
  /\ done[k] # {}
  /\ phase' = [phase EXCEPT ![k] = "settled"]
  /\ UNCHANGED <<done, old>>

\* Given back after a failure.
Release(k) ==
  /\ phase[k] = "taken"
  /\ phase' = [phase EXCEPT ![k] = "free"]
  /\ done' = [done EXCEPT ![k] = {}]
  /\ old' = old \ {k}

Age(k) ==
  /\ phase[k] # "free"
  /\ old' = old \cup {k}
  /\ UNCHANGED <<phase, done>>

\* Only a key past its day is forgotten, whatever its phase.
Expire(expired) ==
  /\ expired \subseteq old
  /\ old' = old \ expired
  /\ phase' = [k \in Keys |-> IF k \in expired THEN "free" ELSE phase[k]]
  /\ done' = [k \in Keys |-> IF k \in expired THEN {} ELSE done[k]]

Next ==
  \/ \E k \in Keys :
       \/ Take(k)
       \/ \E e \in Effects : Do(k, e)
       \/ Settle(k)
       \/ Release(k)
       \/ Age(k)
  \/ \E expired \in SUBSET Keys : Expire(expired)

Spec == Init /\ [][Next]_<<phase, done, old>>
================================================================================

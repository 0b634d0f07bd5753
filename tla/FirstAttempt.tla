------------------------------ MODULE FirstAttempt ------------------------------
(***************************************************************************)
(* What the claim of a row promises until a failure is recorded for it or  *)
(* a person writes over the claim (src/apps/publisher/engine.py): one      *)
(* worker takes the row, once; only who holds it posts it, once; what is   *)
(* done was posted; and a row whose holder is gone is nobody else's.       *)
(***************************************************************************)
CONSTANTS
  Rows,
  Holders   \* who may take a row

VARIABLES
  claim,    \* free, held, done; void once the promise has ended
  holder,   \* who works on each row, or nobody
  copies    \* of the row on the platform

claimVars == <<claim, holder, copies>>

Init ==
  /\ claim = [r \in Rows |-> "free"]
  /\ holder = [r \in Rows |-> {}]
  /\ copies = [r \in Rows |-> 0]

\* Rows are taken together by one holder, or set aside by nobody.
Take(taken, h) ==
  /\ \A r \in taken : claim[r] = "free"
  /\ claim' = [r \in Rows |-> IF r \in taken THEN "held" ELSE claim[r]]
  /\ holder' = [r \in Rows |-> IF r \in taken THEN h ELSE holder[r]]
  /\ UNCHANGED copies

PutUp(r) ==
  /\ claim[r] = "held"
  /\ holder[r] # {}
  /\ copies[r] = 0
  /\ copies' = [copies EXCEPT ![r] = 1]
  /\ UNCHANGED <<claim, holder>>

Settle(r) ==
  /\ claim[r] = "held"
  /\ holder[r] # {}
  /\ copies[r] = 1
  /\ claim' = [claim EXCEPT ![r] = "done"]
  /\ UNCHANGED <<holder, copies>>

\* The holder has finished with the rows, or is gone.
LetGo(w, left) ==
  /\ holder' = [r \in Rows |-> IF r \in left THEN holder[r] \ {w} ELSE holder[r]]
  /\ UNCHANGED <<claim, copies>>

Void(r) ==
  /\ claim' = [claim EXCEPT ![r] = "void"]
  /\ holder' = [holder EXCEPT ![r] = {}]
  /\ copies' = [copies EXCEPT ![r] = 0]

Next ==
  \/ \E taken \in SUBSET Rows :
       \/ Take(taken, {})
       \/ \E w \in Holders : Take(taken, {w}) \/ LetGo(w, taken)
  \/ \E r \in Rows : PutUp(r) \/ Settle(r) \/ Void(r)

Spec == Init /\ [][Next]_claimVars
=================================================================================

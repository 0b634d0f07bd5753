----------------------------- MODULE BackgroundProofs -----------------------------
(***************************************************************************)
(* Proofs about what the workers do by themselves.  FirstComment, for any   *)
(* number of workers, rows, publish paths and deaths; Review, for any post, *)
(* stage setting, number of reminders, of requests and of sweeps that die;  *)
(* Delivery, for any number of rows, of notifying requests, of overlapping  *)
(* sweeps, of attempts and of deaths; OrgDeletion, for any owners, members, *)
(* grace period and deaths; AccountTokens, for any number of checks, of     *)
(* attempts, of grants and of failures.                                     *)
(***************************************************************************)
EXTENDS MCBackground, FiniteSetTheorems, TLAPS

Num(b) == IF b THEN 1 ELSE 0

---------------------------------------------------------------------------------
(* FirstComment. *)

(* Counting the workers that are at something. *)

\* A set that gains or loses one element.
LEMMA OneElement ==
  ASSUME NEW A, NEW B, NEW w, IsFiniteSet(A), IsFiniteSet(B), A \ {w} = B \ {w}
  PROVE  /\ Cardinality(A) \in Nat /\ Cardinality(B) \in Nat
         /\ Cardinality(B) = Cardinality(A) - Num(w \in A) + Num(w \in B)
<1>1. Cardinality(A) \in Nat /\ Cardinality(B) \in Nat
  BY FS_CardinalityType
<1>2. Cardinality(A \ {w}) = IF w \in A THEN Cardinality(A) - 1 ELSE Cardinality(A)
  BY FS_RemoveElement
<1>3. Cardinality(B \ {w}) = IF w \in B THEN Cardinality(B) - 1 ELSE Cardinality(B)
  BY FS_RemoveElement
<1>. QED
  BY <1>1, <1>2, <1>3 DEF Num

\* The workers at a step of S for row r; those of them that will count a failure.
At(r, S) == {w \in Workers : row[w] = r /\ step[w] \in S}
Counting(r) == {w \in At(r, {"lookup", "send", "failing"}) : seen[w] < MaxRetries}

LEMMA FiniteAt ==
  ASSUME NEW r, NEW S
  PROVE  IsFiniteSet(At(r, S)) /\ IsFiniteSet(Counting(r))
BY FirstCommentAssumption, FS_Subset DEF At, Counting

\* The same after a step.
LEMMA FiniteAtNext ==
  ASSUME NEW r, NEW S
  PROVE  IsFiniteSet(At(r, S)') /\ IsFiniteSet(Counting(r)')
BY FirstCommentAssumption, FS_Subset DEF At, Counting

\* A step of worker w moves nobody else.
Alone(w) ==
  \A v \in Workers \ {w} : step'[v] = step[v] /\ row'[v] = row[v] /\ seen'[v] = seen[v]

IsAt(w, r, S) == row[w] = r /\ step[w] \in S
Counts(w, r) == IsAt(w, r, {"lookup", "send", "failing"}) /\ seen[w] < MaxRetries

LEMMA AloneCounts ==
  ASSUME NEW w \in Workers, Alone(w), NEW r, NEW S
  PROVE  /\ Cardinality(At(r, S)) \in Nat /\ Cardinality(At(r, S)') \in Nat
         /\ Cardinality(Counting(r)) \in Nat /\ Cardinality(Counting(r)') \in Nat
         /\ Cardinality(At(r, S)') =
              Cardinality(At(r, S)) - Num(IsAt(w, r, S)) + Num(IsAt(w, r, S)')
         /\ Cardinality(Counting(r)') =
              Cardinality(Counting(r)) - Num(Counts(w, r)) + Num(Counts(w, r)')
<1>1. At(r, S) \ {w} = At(r, S)' \ {w} /\ Counting(r) \ {w} = Counting(r)' \ {w}
  BY DEF Alone, At, Counting
<1>2. (w \in At(r, S) <=> IsAt(w, r, S)) /\ (w \in Counting(r) <=> Counts(w, r))
  BY DEF At, IsAt, Counting, Counts
<1>3. (w \in At(r, S)' <=> IsAt(w, r, S)') /\ (w \in Counting(r)' <=> Counts(w, r)')
  BY DEF At, IsAt, Counting, Counts
<1>. QED
  BY <1>1, <1>2, <1>3, FiniteAt, FiniteAtNext, OneElement DEF Num

-------------------------------------------------------------------------------
(* The invariant. *)

\* What may lead to a comment or to one more task.
Active == {"call", "lookup", "send", "landed", "failing", "refused", "counted"}

\* Where no task of the row looks first, who has not yet sent its comment: a
\* failure without an answer is retried only where the next task looks.
Blind(r) == retries[r] = 0 \/ r \notin Reconcilable
Unposted(r) ==
  IF r \in Reconcilable THEN {"call", "send"} ELSE {"call", "send", "failing", "counted"}

nActive(r) == Cardinality(At(r, Active))
nSend(r) == Cardinality(At(r, {"send"}))
nUnposted(r) == Cardinality(At(r, Unposted(r)))
nCounting(r) == Cardinality(Counting(r))

\* What each publication and each death may still lead to.
Allowed(r) == reached[r] + crashes

\* One part for each thing that is bounded, and what the row and its tasks say.
RowIsTrue(r) ==
  /\ fcStatus[r] = "posted" => comments[r] > 0
  /\ \A w \in Workers : row[w] = r =>
       /\ step[w] = "landed" => comments[r] > 0
       /\ step[w] = "lookup" => r \in Reconcilable /\ retries[r] > 0
       /\ step[w] = "counted" => retries[r] > 0

CommentRowInv(r) ==
  /\ tasks[r] + nActive(r) <= Allowed(r)
  /\ comments[r] + nSend(r) <= Allowed(r)
  /\ Blind(r) => comments[r] + tasks[r] + nUnposted(r) <= Allowed(r)
  /\ MaxRetries = 0 => retries[r] = 0
  /\ MaxRetries > 0 /\ retries[r] >= MaxRetries
       => retries[r] + nCounting(r) <= MaxRetries + Allowed(r) - 1
  /\ RowIsTrue(r)

CommentInv == \A r \in Rows : CommentRowInv(r)

\* How a step of w changes what is counted for row r.
LEMMA CountsStep ==
  ASSUME NEW w \in Workers, Alone(w), NEW r \in Rows
  PROVE  /\ nActive(r) \in Nat /\ nSend(r) \in Nat /\ nUnposted(r) \in Nat /\ nCounting(r) \in Nat
         /\ nActive(r)' = nActive(r) - Num(IsAt(w, r, Active)) + Num(IsAt(w, r, Active)')
         /\ nSend(r)' = nSend(r) - Num(IsAt(w, r, {"send"})) + Num(IsAt(w, r, {"send"})')
         /\ nUnposted(r)' = nUnposted(r) - Num(IsAt(w, r, Unposted(r))) + Num(IsAt(w, r, Unposted(r))')
         /\ nCounting(r)' = nCounting(r) - Num(Counts(w, r)) + Num(Counts(w, r)')
<1>1. Unposted(r)' = Unposted(r) /\ Active' = Active
  BY DEF Unposted, Active
<1>. QED
  BY <1>1, AloneCounts DEF nActive, nSend, nUnposted, nCounting

\* Whoever counts a failure, and whoever sends, is active.
LEMMA Bounds ==
  ASSUME NEW r \in Rows
  PROVE  /\ nSend(r) <= nUnposted(r) /\ nUnposted(r) <= nActive(r) /\ nCounting(r) <= nActive(r)
         /\ nSend(r)' <= nActive(r)'
<1>1. /\ At(r, {"send"}) \subseteq At(r, Unposted(r))
      /\ At(r, Unposted(r)) \subseteq At(r, Active)
      /\ Counting(r) \subseteq At(r, Active)
      /\ At(r, {"send"})' \subseteq At(r, Active)'
  BY DEF At, Active, Unposted, Counting
<1>. QED
  BY <1>1, FiniteAt, FiniteAtNext, FS_Subset DEF nActive, nSend, nUnposted, nCounting

\* What the proof uses of the types.
LEMMA CommentFacts ==
  ASSUME CommentTypeOK
  PROVE  /\ \A r \in Rows : /\ tasks[r] \in Nat /\ retries[r] \in Nat /\ reached[r] \in Nat
                            /\ comments[r] \in Nat
         /\ crashes \in Nat /\ MaxRetries \in Nat
         /\ \A w \in Workers : seen[w] \in Nat /\ row[w] \in Rows
BY FirstCommentAssumption DEF CommentTypeOK, MaxTasks, MaxComments

\* A step of w that has nothing to do with row r, but may have died at it.
LEMMA RowUntouched ==
  ASSUME CommentTypeOK, NEW r \in Rows, CommentRowInv(r), NEW w \in Workers, Alone(w),
         tasks'[r] = tasks[r], retries'[r] = retries[r], comments'[r] = comments[r],
         reached'[r] = reached[r], crashes' \in {crashes, crashes + 1},
         fcStatus'[r] = fcStatus[r], ~IsAt(w, r, Active)'
  PROVE  CommentRowInv(r)'
<1>1. ~IsAt(w, r, {"send"})' /\ ~IsAt(w, r, Unposted(r))' /\ ~Counts(w, r)'
  BY DEF IsAt, Active, Unposted, Counts
<1>2. \A b \in BOOLEAN : Num(b) \in {0, 1}
  BY DEF Num
<1>3. nActive(r)' <= nActive(r) /\ nSend(r)' <= nSend(r) /\ nUnposted(r)' <= nUnposted(r)
      /\ nCounting(r)' <= nCounting(r)
      /\ nActive(r)' \in Int /\ nSend(r)' \in Int /\ nUnposted(r)' \in Int /\ nCounting(r)' \in Int
  BY <1>1, CountsStep DEF Num
<1>4. RowIsTrue(r)'
  <2>1. RowIsTrue(r)
    BY DEF CommentRowInv
  <2>. QED
    BY <2>1 DEF RowIsTrue, Alone, IsAt, Active
<1>. QED
  BY <1>3, <1>4, CountsStep, CommentFacts DEF CommentRowInv, Allowed, Blind

\* What a step does to the row it is about: the counts as w leaves step x for y.
LEMMA OwnRow ==
  ASSUME CommentTypeOK, CommentInv, NEW w \in Workers, Alone(w), NEW r \in Rows,
         row'[w] = r, row[w] = r \/ step[w] = "idle"
  PROVE  /\ nActive(r)' = nActive(r) - Num(step[w] \in Active) + Num(step'[w] \in Active)
         /\ nSend(r)' = nSend(r) - Num(step[w] = "send") + Num(step'[w] = "send")
         /\ nUnposted(r)' = nUnposted(r) - Num(step[w] \in Unposted(r)) + Num(step'[w] \in Unposted(r))
         /\ nCounting(r)' = nCounting(r)
              - Num(step[w] \in {"lookup", "send", "failing"} /\ seen[w] < MaxRetries)
              + Num(step'[w] \in {"lookup", "send", "failing"} /\ seen'[w] < MaxRetries)
         /\ nActive(r) \in Nat /\ nSend(r) \in Nat /\ nUnposted(r) \in Nat /\ nCounting(r) \in Nat
         /\ nSend(r) <= nUnposted(r) /\ nUnposted(r) <= nActive(r) /\ nCounting(r) <= nActive(r)
         /\ nSend(r)' <= nActive(r)'
         /\ CommentRowInv(r)
<1>1. /\ IsAt(w, r, Active) <=> step[w] \in Active
      /\ IsAt(w, r, {"send"}) <=> step[w] = "send"
      /\ IsAt(w, r, Unposted(r)) <=> step[w] \in Unposted(r)
      /\ Counts(w, r) <=> step[w] \in {"lookup", "send", "failing"} /\ seen[w] < MaxRetries
  BY DEF IsAt, Active, Unposted, Counts
<1>2. /\ IsAt(w, r, Active)' <=> step'[w] \in Active
      /\ IsAt(w, r, {"send"})' <=> step'[w] = "send"
      /\ IsAt(w, r, Unposted(r))' <=> step'[w] \in Unposted(r)
      /\ Counts(w, r)' <=> step'[w] \in {"lookup", "send", "failing"} /\ seen'[w] < MaxRetries
  BY DEF IsAt, Active, Unposted, Counts
<1>. QED
  BY <1>1, <1>2, CountsStep, Bounds DEF CommentInv, Num

\* The row is as it says, when w has come to step y.
LEMMA StillTrue ==
  ASSUME CommentTypeOK, NEW r \in Rows, CommentRowInv(r), NEW w \in Workers, Alone(w),
         comments'[r] >= comments[r], comments'[r] \in Nat,
         retries'[r] >= retries[r], retries'[r] \in Nat,
         fcStatus'[r] = "posted" => comments'[r] > 0,
         step'[w] = "landed" => comments'[r] > 0,
         step'[w] = "lookup" => r \in Reconcilable /\ retries'[r] > 0,
         step'[w] = "counted" => retries'[r] > 0
  PROVE  RowIsTrue(r)'
<1>1. RowIsTrue(r)
  BY DEF CommentRowInv
<1>. QED
  BY <1>1, CommentFacts DEF RowIsTrue, Alone

LEMMA CommentStep ==
  ASSUME CommentTypeOK, CommentInv, CommentNext, NEW r \in Rows
  PROVE  CommentRowInv(r)'
<1>. USE CommentFacts
<1>0. CommentRowInv(r)
  BY DEF CommentInv
<1>1. ASSUME NEW w \in Workers, NEW q \in Rows, StartCall(w, q) PROVE CommentRowInv(r)'
  <2>1. /\ Alone(w) /\ row'[w] = q /\ step[w] = "idle" /\ step'[w] = "call"
        /\ reached'[r] = IF r = q THEN reached[r] + 1 ELSE reached[r]
        /\ tasks' = tasks /\ retries' = retries /\ comments' = comments /\ crashes' = crashes
        /\ fcStatus' = fcStatus
    BY <1>1 DEF StartCall, Goto, Alone, CommentTypeOK
  <2>2. CASE r = q
    <3>1. RowIsTrue(r)'
      BY <1>0, <2>1, StillTrue DEF CommentRowInv, RowIsTrue
    <3>. QED
      BY <2>1, <2>2, <3>1, OwnRow DEF CommentRowInv, Num, Active, Unposted, Allowed, Blind
  <2>3. CASE r # q
    BY <1>0, <2>1, <2>3, RowUntouched DEF IsAt
  <2>. QED
    BY <2>2, <2>3
<1>2. ASSUME NEW w \in Workers, Enqueue(w) PROVE CommentRowInv(r)'
  <2>1. /\ Alone(w) /\ row' = row /\ step[w] = "call" /\ step'[w] = "queued"
        /\ tasks'[r] = IF r = row[w] THEN tasks[r] + 1 ELSE tasks[r]
        /\ reached' = reached /\ retries' = retries /\ comments' = comments /\ crashes' = crashes
        /\ fcStatus' = fcStatus
    BY <1>2 DEF Enqueue, Goto, Alone, CommentTypeOK
  <2>2. CASE r = row[w]
    <3>1. RowIsTrue(r)'
      BY <1>0, <2>1, StillTrue DEF CommentRowInv, RowIsTrue
    <3>. QED
      BY <2>1, <2>2, <3>1, OwnRow DEF CommentRowInv, Num, Active, Unposted, Allowed, Blind
  <2>3. CASE r # row[w]
    BY <1>0, <2>1, <2>3, RowUntouched DEF IsAt
  <2>. QED
    BY <2>2, <2>3
<1>3. ASSUME NEW w \in Workers, MarkPending(w) PROVE CommentRowInv(r)'
  <2>1. /\ Alone(w) /\ row' = row /\ step[w] = "queued" /\ step'[w] = "idle"
        /\ fcStatus'[r] \in {fcStatus[r], "pending"}
        /\ tasks' = tasks /\ reached' = reached /\ retries' = retries /\ comments' = comments
        /\ crashes' = crashes
    BY <1>3 DEF MarkPending, Goto, Alone, CommentTypeOK
  <2>2. CASE r = row[w]
    <3>1. RowIsTrue(r)'
      BY <1>0, <2>1, StillTrue DEF CommentRowInv, RowIsTrue
    <3>. QED
      BY <2>1, <2>2, <3>1, OwnRow DEF CommentRowInv, Num, Active, Unposted, Allowed, Blind
  <2>3. CASE r # row[w]
    <3>1. fcStatus'[r] = fcStatus[r]
      BY <1>3, <2>3 DEF MarkPending, CommentTypeOK
    <3>. QED
      BY <1>0, <2>1, <2>3, <3>1, RowUntouched DEF IsAt
  <2>. QED
    BY <2>2, <2>3
<1>4. ASSUME NEW w \in Workers, NEW q \in Rows, StartTask(w, q) PROVE CommentRowInv(r)'
  <2>1. /\ Alone(w) /\ row'[w] = q /\ step[w] = "idle" /\ seen'[w] = retries[q]
        /\ step'[w] \in {"done", "refused", "failing", "lookup", "send"}
        /\ step'[w] = "lookup" => retries[q] > 0 /\ q \in Reconcilable
        /\ step'[w] = "send" => Blind(q)
        /\ tasks[q] > 0
        /\ tasks'[r] = IF r = q THEN tasks[r] - 1 ELSE tasks[r]
        /\ reached' = reached /\ retries' = retries /\ comments' = comments /\ crashes' = crashes
        /\ fcStatus' = fcStatus
    BY <1>4 DEF StartTask, Goto, Alone, CommentTypeOK, Blind
  <2>2. CASE r = q
    <3>1. RowIsTrue(r)'
      BY <1>0, <2>1, <2>2, StillTrue DEF CommentRowInv, RowIsTrue
    <3>. QED
      BY <2>1, <2>2, <3>1, OwnRow DEF CommentRowInv, Num, Active, Unposted, Allowed, Blind
  <2>3. CASE r # q
    BY <1>0, <2>1, <2>3, RowUntouched DEF IsAt
  <2>. QED
    BY <2>2, <2>3
<1>5. ASSUME NEW w \in Workers, Lookup(w) PROVE CommentRowInv(r)'
  <2>1. /\ Alone(w) /\ row' = row /\ seen' = seen /\ step[w] = "lookup"
        /\ step'[w] \in {"landed", "send", "failing"}
        /\ step'[w] = "landed" => comments[row[w]] > 0
        /\ step'[w] = "send" => comments[row[w]] = 0
        /\ tasks' = tasks /\ reached' = reached /\ retries' = retries /\ comments' = comments
        /\ crashes' = crashes /\ fcStatus' = fcStatus
    BY <1>5 DEF Lookup, LookupThen, Goto, Alone, CommentTypeOK
  <2>2. CASE r = row[w]
    <3>1. RowIsTrue(r)'
      BY <1>0, <2>1, <2>2, StillTrue DEF CommentRowInv, RowIsTrue
    <3>2. ~Blind(r)
      BY <1>0, <2>1, <2>2 DEF CommentRowInv, RowIsTrue, Blind
    <3>. QED
      BY <2>1, <2>2, <3>1, <3>2, OwnRow DEF CommentRowInv, Num, Active, Allowed, Blind
  <2>3. CASE r # row[w]
    BY <1>0, <2>1, <2>3, RowUntouched DEF IsAt
  <2>. QED
    BY <2>2, <2>3
<1>6. ASSUME NEW w \in Workers, Send(w) PROVE CommentRowInv(r)'
  <2>1. /\ Alone(w) /\ row' = row /\ seen' = seen /\ step[w] = "send"
        /\ step'[w] \in {"landed", "failing", "refused"}
        /\ tasks' = tasks /\ reached' = reached /\ retries' = retries
        /\ crashes' = crashes /\ fcStatus' = fcStatus
    BY <1>6 DEF Send, AfterUnknown, Goto, Alone, CommentTypeOK
  <2>2. CASE r = row[w]
    <3>1. /\ comments'[r] \in {comments[r], comments[r] + 1}
          /\ comments'[r] # comments[r] /\ step'[w] = "failing" => r \in Reconcilable
          /\ step'[w] = "landed" => comments'[r] > 0
      BY <1>6, <2>2, FirstCommentAssumption
         DEF Send, AfterUnknown, Commented, Goto, CommentTypeOK, MaxTasks, MaxComments
    <3>2. RowIsTrue(r)'
      BY <1>0, <2>1, <2>2, <3>1, StillTrue DEF CommentRowInv, RowIsTrue
    <3>. QED
      BY <2>1, <2>2, <3>1, <3>2, OwnRow DEF CommentRowInv, Num, Active, Unposted, Allowed, Blind
  <2>3. CASE r # row[w]
    <3>1. comments'[r] = comments[r]
      BY <1>6, <2>3 DEF Send, Commented, CommentTypeOK
    <3>. QED
      BY <1>0, <2>1, <2>3, <3>1, RowUntouched DEF IsAt
  <2>. QED
    BY <2>2, <2>3
<1>7. ASSUME NEW w \in Workers, MarkPosted(w) \/ GiveUp(w) PROVE CommentRowInv(r)'
  <2>1. /\ Alone(w) /\ row' = row /\ seen' = seen /\ step'[w] = "done"
        /\ step[w] \in {"landed", "refused", "failing"}
        /\ r # row[w] => fcStatus'[r] = fcStatus[r]
        /\ fcStatus'[r] = "posted" => fcStatus[r] = "posted" \/ step[w] = "landed"
        /\ tasks' = tasks /\ reached' = reached /\ retries' = retries /\ comments' = comments
        /\ crashes' = crashes
    <3>1. CASE MarkPosted(w)
      BY <3>1 DEF MarkPosted, Goto, Alone, CommentTypeOK
    <3>2. CASE GiveUp(w)
      BY <3>2 DEF GiveUp, Goto, Alone, CommentTypeOK
    <3>. QED
      BY <1>7, <3>1, <3>2
  <2>2. CASE r = row[w]
    <3>1. RowIsTrue(r)'
      BY <1>0, <2>1, <2>2, StillTrue DEF CommentRowInv, RowIsTrue
    <3>. QED
      BY <2>1, <2>2, <3>1, OwnRow DEF CommentRowInv, Num, Active, Unposted, Allowed, Blind
  <2>3. CASE r # row[w]
    BY <1>0, <2>1, <2>3, RowUntouched DEF IsAt
  <2>. QED
    BY <2>2, <2>3
<1>8. ASSUME NEW w \in Workers, CountFailure(w) PROVE CommentRowInv(r)'
  <2>1. /\ Alone(w) /\ row' = row /\ seen' = seen /\ step[w] = "failing" /\ step'[w] = "counted"
        /\ seen[w] < MaxRetries
        /\ retries'[r] = IF r = row[w] THEN retries[r] + 1 ELSE retries[r]
        /\ fcStatus'[r] = IF r = row[w] THEN "pending" ELSE fcStatus[r]
        /\ tasks' = tasks /\ reached' = reached /\ comments' = comments /\ crashes' = crashes
    BY <1>8 DEF CountFailure, Exhausted, Goto, Alone, CommentTypeOK
  <2>2. CASE r = row[w]
    <3>1. RowIsTrue(r)'
      BY <1>0, <2>1, <2>2, StillTrue DEF CommentRowInv, RowIsTrue
    <3>. QED
      BY <2>1, <2>2, <3>1, OwnRow DEF CommentRowInv, Num, Active, Unposted, Allowed, Blind
  <2>3. CASE r # row[w]
    BY <1>0, <2>1, <2>3, RowUntouched DEF IsAt
  <2>. QED
    BY <2>2, <2>3
<1>9. ASSUME NEW w \in Workers, Requeue(w) PROVE CommentRowInv(r)'
  <2>1. /\ Alone(w) /\ row' = row /\ seen' = seen /\ step[w] = "counted" /\ step'[w] = "done"
        /\ tasks'[r] = IF r = row[w] THEN tasks[r] + 1 ELSE tasks[r]
        /\ reached' = reached /\ retries' = retries /\ comments' = comments /\ crashes' = crashes
        /\ fcStatus' = fcStatus
    BY <1>9 DEF Requeue, Goto, Alone, CommentTypeOK
  <2>2. CASE r = row[w]
    <3>1. RowIsTrue(r)'
      BY <1>0, <2>1, <2>2, StillTrue DEF CommentRowInv, RowIsTrue
    <3>2. retries[r] > 0
      BY <1>0, <2>1, <2>2 DEF CommentRowInv, RowIsTrue
    <3>. QED
      BY <2>1, <2>2, <3>1, <3>2, OwnRow DEF CommentRowInv, Num, Active, Unposted, Allowed, Blind
  <2>3. CASE r # row[w]
    BY <1>0, <2>1, <2>3, RowUntouched DEF IsAt
  <2>. QED
    BY <2>2, <2>3
<1>10. ASSUME NEW w \in Workers, Finish(w) PROVE CommentRowInv(r)'
  <2>1. /\ Alone(w) /\ step'[w] = "idle"
        /\ tasks' = tasks /\ reached' = reached /\ retries' = retries /\ comments' = comments
        /\ crashes' = crashes /\ fcStatus' = fcStatus
    BY <1>10 DEF Finish, Goto, Alone, CommentTypeOK
  <2>. QED
    BY <1>0, <2>1, RowUntouched DEF IsAt, Active
<1>11. ASSUME NEW w \in Workers, Crash(w) PROVE CommentRowInv(r)'
  <2>1. /\ Alone(w) /\ row' = row /\ step'[w] = "idle" /\ step[w] # "idle"
        /\ tasks'[r] = IF r = row[w] /\ step[w] \in CommentTaskStep
                         THEN tasks[r] + 1 ELSE tasks[r]
        /\ reached' = reached /\ retries' = retries /\ comments' = comments
        /\ crashes' = crashes + 1 /\ fcStatus' = fcStatus
    BY <1>11 DEF Crash, Goto, Alone, CommentTypeOK
  <2>2. CASE r = row[w]
    <3>1. RowIsTrue(r)'
      BY <1>0, <2>1, StillTrue DEF CommentRowInv, RowIsTrue
    <3>. QED
      BY <2>1, <2>2, <3>1, OwnRow
         DEF CommentRowInv, Num, Active, Unposted, Allowed, Blind, CommentTaskStep
  <2>3. CASE r # row[w]
    BY <1>0, <2>1, <2>3, RowUntouched DEF IsAt
  <2>. QED
    BY <2>2, <2>3
<1>. QED
  BY <1>1, <1>2, <1>3, <1>4, <1>5, <1>6, <1>7, <1>8, <1>9, <1>10, <1>11
     DEF CommentNext, Progress

-------------------------------------------------------------------------------
(* The theorems. *)

\* A step keeps the types: the queue and the retry count stay within their ranges
\* because of what CommentRowInv bounds them by.
LEMMA TypeStep ==
  ASSUME CommentTypeOK, CommentInv, CommentNext
  PROVE  CommentTypeOK'
<1>1. \A r \in Rows : tasks'[r] \in Nat /\ retries'[r] \in Nat
  BY CommentFacts DEF CommentNext, Progress, StartCall, Enqueue, MarkPending, StartTask, Lookup,
     LookupThen, Send, MarkPosted, GiveUp, CountFailure, Requeue, Finish, Crash, CommentTypeOK
<1>2. reached' \in [Rows -> 0 .. MaxCalls] /\ crashes' \in 0 .. MaxCrashes
  BY FirstCommentAssumption DEF CommentNext, Progress, StartCall, Enqueue, MarkPending, StartTask,
     Lookup, LookupThen, Send, MarkPosted, GiveUp, CountFailure, Requeue, Finish, Crash,
     CommentTypeOK
<1>3. /\ DOMAIN tasks' = Rows /\ DOMAIN retries' = Rows
      /\ tasks' = [r \in Rows |-> tasks'[r]] /\ retries' = [r \in Rows |-> retries'[r]]
  BY DEF CommentNext, Progress, StartCall, Enqueue, MarkPending, StartTask, Lookup,
     LookupThen, Send, MarkPosted, GiveUp, CountFailure, Requeue, Finish, Crash, CommentTypeOK
<1>4. \A r \in Rows : tasks'[r] \in 0 .. MaxTasks /\ retries'[r] \in 0 .. MaxRetries + MaxTasks
  <2>. SUFFICES ASSUME NEW r \in Rows
       PROVE  tasks'[r] \in 0 .. MaxTasks /\ retries'[r] \in 0 .. MaxRetries + MaxTasks
    OBVIOUS
  <2>1. CommentRowInv(r)'
    BY CommentStep
  <2>2. nActive(r)' \in Nat /\ nCounting(r)' \in Nat
    BY FiniteAtNext, FS_CardinalityType DEF nActive, nCounting
  <2>3. reached'[r] \in 0 .. MaxCalls /\ crashes' \in 0 .. MaxCrashes
    BY <1>2
  <2>. QED
    BY <1>1, <2>1, <2>2, <2>3, FirstCommentAssumption DEF CommentRowInv, Allowed, MaxTasks
<1>5. tasks' \in [Rows -> 0 .. MaxTasks] /\ retries' \in [Rows -> 0 .. MaxRetries + MaxTasks]
  BY <1>3, <1>4
<1>6. comments' \in [Rows -> 0 .. MaxComments]
  BY FirstCommentAssumption DEF CommentNext, Progress, StartCall, Enqueue, MarkPending, StartTask,
     Lookup, LookupThen, Send, Commented, MarkPosted, GiveUp, CountFailure, Requeue, Finish, Crash,
     CommentTypeOK, MaxComments, MaxTasks
<1>7. /\ step' \in [Workers -> {"idle"} \cup CallStep \cup CommentTaskStep]
      /\ row' \in [Workers -> Rows]
      /\ fcStatus' \in [Rows -> FirstCommentStatus]
  BY DEF CommentNext, Progress, StartCall, Enqueue, MarkPending, StartTask,
     Lookup, LookupThen, Send, AfterUnknown, MarkPosted, GiveUp, CountFailure, Requeue, Finish,
     Crash, CommentTypeOK, Goto, CallStep, CommentTaskStep, FirstCommentStatus
<1>8. seen' \in [Workers -> 0 .. MaxRetries + MaxTasks]
  BY FirstCommentAssumption DEF CommentNext, Progress, StartCall, Enqueue, MarkPending, StartTask,
     Lookup, LookupThen, Send, MarkPosted, GiveUp, CountFailure, Requeue, Finish, Crash,
     CommentTypeOK, MaxTasks
<1>. QED
  BY <1>2, <1>5, <1>6, <1>7, <1>8 DEF CommentTypeOK

\* An UNCHANGED step changes nothing of it.
LEMMA CommentStutter ==
  ASSUME CommentTypeOK, CommentInv, UNCHANGED commentVars
  PROVE  CommentTypeOK' /\ CommentInv'
BY DEF commentVars, CommentTypeOK, CommentInv, CommentRowInv, RowIsTrue, Blind, Allowed, nActive, nSend,
   nUnposted, Unposted, nCounting, At, Counting

LEMMA CommentStart ==
  ASSUME CommentInit
  PROVE  CommentTypeOK /\ CommentInv
<1>1. CommentTypeOK
  <2>1. \A w \in Workers : row[w] \in Rows
    BY FirstCommentAssumption DEF CommentInit
  <2>. QED
    BY <2>1, FirstCommentAssumption
       DEF CommentInit, CommentTypeOK, FirstCommentStatus, MaxTasks, MaxComments
<1>2. ASSUME NEW r \in Rows PROVE CommentRowInv(r)
  <2>1. \A S : "idle" \notin S => At(r, S) = {}
    BY DEF CommentInit, At
  <2>2. At(r, Active) = {} /\ At(r, {"send"}) = {} /\ At(r, Unposted(r)) = {} /\ Counting(r) = {}
    BY <2>1 DEF Active, Unposted, Counting
  <2>3. nActive(r) = 0 /\ nSend(r) = 0 /\ nUnposted(r) = 0 /\ nCounting(r) = 0
    BY <2>2, FS_EmptySet DEF nActive, nSend, nUnposted, nCounting
  <2>. QED
    BY <2>3, FirstCommentAssumption DEF CommentInit, CommentRowInv, RowIsTrue, Blind, Allowed
<1>. QED
  BY <1>1, <1>2 DEF CommentInv

LEMMA CommentImplies ==
  ASSUME CommentTypeOK, CommentInv
  PROVE  CommentedOnce
<1>. SUFFICES ASSUME NEW r \in Rows
     PROVE  /\ comments[r] <= reached[r] + crashes
            /\ retries[r] <= MaxRetries \/ retries[r] < MaxRetries + reached[r] + crashes
            /\ fcStatus[r] = "posted" => comments[r] > 0
  BY DEF CommentedOnce
<1>1. nSend(r) \in Nat /\ nCounting(r) \in Nat
  BY FiniteAt, FS_CardinalityType DEF nSend, nCounting
<1>. QED
  BY <1>1, CommentFacts DEF CommentInv, CommentRowInv, RowIsTrue, Allowed

\* CommentTypeOK: whatever runs at once, is published again or dies, a row has at
\* most one task for each publish path and each death, and its retry count stays
\* within FIRST_COMMENT_MAX_RETRIES and as many.
THEOREM CommentTypes == CommentSpec => []CommentTypeOK
<1>1. CommentInit => CommentTypeOK /\ CommentInv
  BY CommentStart
<1>2. CommentTypeOK /\ CommentInv /\ [CommentNext]_commentVars => (CommentTypeOK /\ CommentInv)'
  BY TypeStep, CommentStep, CommentStutter DEF CommentInv
<1>. QED
  BY <1>1, <1>2, PTL DEF CommentSpec

\* CommentedOnce: one first comment on the platform for each publish path that
\* reached the row and each worker that died, however many workers run its tasks
\* and whatever the provider answers; and a row that reads posted has its comment.
THEOREM CommentIsOnce == CommentSpec => []CommentedOnce
<1>1. CommentInit => CommentTypeOK /\ CommentInv
  BY CommentStart
<1>2. CommentTypeOK /\ CommentInv /\ [CommentNext]_commentVars => (CommentTypeOK /\ CommentInv)'
  BY TypeStep, CommentStep, CommentStutter DEF CommentInv
<1>3. CommentTypeOK /\ CommentInv => CommentedOnce
  BY CommentImplies
<1>. QED
  BY <1>1, <1>2, <1>3, PTL DEF CommentSpec

---------------------------------------------------------------------------------
(* Review. *)

(* The invariant. *)

SweepAt(s, steps) == sweep.stage = s /\ sweep.step \in steps

\* The reminders people got of stage s are the counted ones, one the sweep has
\* yet to count, and one for each sweep that died before it counted.  A decision
\* may start the stage anew under the sweep, which keeps the count it read: what
\* it read is then above the row's count, and it saves what it read.
RemindersInv(s) ==
  /\ notices[s].reminders <= reminder[s].count + sweepDeaths + Num(SweepAt(s, {"count"}))
  /\ SweepAt(s, {"remind", "count"}) => /\ reminder[s].count <= sweep.copy.count
                                   /\ sweep.copy.count < MaxReminders

\* Likewise for the one escalation, which the sweep decides on an unset flag.
EscalationsInv(s) ==
  /\ notices[s].escalations <= Num(reminder[s].escalated) + sweepDeaths + Num(SweepAt(s, {"flag"}))
  /\ SweepAt(s, {"escalate", "flag"}) => ~reminder[s].escalated

NoticesInv == \A s \in Stages : RemindersInv(s) /\ EscalationsInv(s)

\* Where the sweep goes when it leaves a stage.
LEMMA NextStageIsStage == \A s \in Stages : NextStage(s) \in Stages
BY DEF Stages, NextStage

LEMMA LeaveFacts ==
  ASSUME ReviewTypeOK
  PROVE  Leave \in SweepState /\ Leave.step = "query"
<1>1. Unsent \in Reminder /\ sweep.stage \in Stages
  BY ReviewAssumption DEF Unsent, Reminder, ReviewTypeOK, SweepState
<1>2. NextStage(sweep.stage) \in Stages
  BY <1>1, NextStageIsStage
<1>3. Leave = [step |-> "query", stage |-> NextStage(sweep.stage), copy |-> Unsent]
  BY DEF Leave, AtStart
<1>. QED
  BY <1>1, <1>2, <1>3 DEF SweepState

LEMMA ReviewInitHolds == ReviewInit => ReviewTypeOK /\ NoticesInv
BY ReviewAssumption
   DEF ReviewInit, ReviewTypeOK, NoticesInv, RemindersInv, EscalationsInv, SweepAt, Num, Reminder, Unsent,
       Notices, NoNotice, SweepState, AtStart, Stages, Status

\* A decision, a chip move or an edit leaves the sweep alone, and what it writes
\* are statuses.
LEMMA PeopleTypes ==
  ASSUME ReviewTypeOK, People
  PROVE  /\ status' \in [Children -> Status] /\ requests' \subseteq [kind : Kinds, seen : [Children -> Status]]
         /\ opened' \in 0 .. MaxRequests /\ noticed' \subseteq Stages
         /\ sweep' = sweep /\ sweepDeaths' = sweepDeaths
         /\ \/ reminder' = reminder /\ notices' = notices
            \/ \E R \in SUBSET Stages :
                 /\ reminder' = [s \in Stages |-> IF s \in R THEN Unsent ELSE reminder[s]]
                 /\ notices' = [s \in Stages |-> IF s \in R THEN NoNotice ELSE notices[s]]
<1>1. CASE \E kind \in Kinds : OpenRequest(kind)
  BY <1>1, ReviewAssumption DEF ReviewTypeOK, OpenRequest
<1>. SUFFICES ASSUME NEW q \in requests,
                     \/ Decide(q)
                     \/ \E r \in Children, target \in ChipTargets : MoveChip(q, r, target)
                     \/ RevertToReview(q)
     PROVE /\ status' \in [Children -> Status] /\ requests' \subseteq [kind : Kinds, seen : [Children -> Status]]
           /\ opened' \in 0 .. MaxRequests /\ noticed' \subseteq Stages
           /\ sweep' = sweep /\ sweepDeaths' = sweepDeaths
           /\ \/ reminder' = reminder /\ notices' = notices
              \/ \E R \in SUBSET Stages :
                   /\ reminder' = [s \in Stages |-> IF s \in R THEN Unsent ELSE reminder[s]]
                   /\ notices' = [s \in Stages |-> IF s \in R THEN NoNotice ELSE notices[s]]
  BY <1>1 DEF People
<1>2. /\ requests' \subseteq [kind : Kinds, seen : [Children -> Status]]
      /\ opened' \in 0 .. MaxRequests /\ noticed' \subseteq Stages
      /\ sweep' = sweep /\ sweepDeaths' = sweepDeaths
  BY DEF Decide, MoveChip, RevertToReview, FinishDecision, ReviewTypeOK
<1>3. status' \in [Children -> Status]
  <2>1. CASE Decide(q)
    <3>1. q.kind \in Decisions
      BY <2>1 DEF Decide
    <3>2. Target[q.kind] \in Status /\ "pending_client" \in Status
      BY <3>1 DEF Decisions, Target, Status
    <3>. QED
      BY <2>1, <3>2 DEF Decide, FinishDecision, ReviewTypeOK
  <2>2. CASE \E r \in Children, target \in ChipTargets : MoveChip(q, r, target)
    BY <2>2, ReviewAssumption DEF MoveChip, FinishDecision, ReviewTypeOK
  <2>3. CASE RevertToReview(q)
    BY <2>3 DEF RevertToReview, FinishDecision, ReviewTypeOK, Status
  <2>. QED
    BY <2>1, <2>2, <2>3
<1>4. \/ reminder' = reminder /\ notices' = notices
      \/ \E R \in SUBSET Stages :
           /\ reminder' = [s \in Stages |-> IF s \in R THEN Unsent ELSE reminder[s]]
           /\ notices' = [s \in Stages |-> IF s \in R THEN NoNotice ELSE notices[s]]
  <2>1. CASE Decide(q)
    <3>1. Restarted(q) \in SUBSET Stages
      BY DEF Restarted
    <3>. QED
      BY <2>1, <3>1 DEF Decide
  <2>. QED
    BY <2>1 DEF MoveChip, RevertToReview
<1>. QED
  BY <1>2, <1>3, <1>4

\* What the arithmetic of the proof uses of the types.
LEMMA ReviewFacts ==
  ASSUME ReviewTypeOK
  PROVE  /\ \A s \in Stages : /\ reminder[s].count \in 0 .. MaxReminders
                              /\ reminder[s].escalated \in BOOLEAN
                              /\ notices[s].reminders \in Nat /\ notices[s].escalations \in Nat
         /\ sweepDeaths \in Nat /\ MaxReminders \in Nat /\ MaxSweepDeaths \in Nat
         /\ sweep.stage \in Stages /\ sweep.copy \in Reminder /\ sweep.copy.count \in 0 .. MaxReminders
         /\ sweepDeaths \in 0 .. MaxSweepDeaths
BY ReviewAssumption DEF ReviewTypeOK, Reminder, Notices, SweepState

\* Nobody gets more notices than the type allows.
LEMMA NoticesImply == ReviewTypeOK /\ NoticesInv => NoticesBounded
<1>. SUFFICES ASSUME ReviewTypeOK, NoticesInv, NEW s \in Stages
     PROVE  /\ notices[s].reminders <= MaxReminders + sweepDeaths
            /\ notices[s].escalations <= 1 + sweepDeaths
  BY DEF NoticesBounded
<1>1. RemindersInv(s) /\ EscalationsInv(s)
  BY DEF NoticesInv
<1>. QED
  BY <1>1, ReviewFacts DEF RemindersInv, EscalationsInv, SweepAt, Num

LEMMA NoticesStep ==
  ASSUME ReviewTypeOK, NoticesInv, ReviewNext, NEW s \in Stages
  PROVE  RemindersInv(s)' /\ EscalationsInv(s)'
<1>. USE ReviewFacts
<1>0. RemindersInv(s) /\ EscalationsInv(s)
  BY DEF NoticesInv
<1>1. CASE People
  <2>1. \/ reminder'[s] = reminder[s] /\ notices'[s] = notices[s]
        \/ reminder'[s] = Unsent /\ notices'[s] = NoNotice
    BY <1>1, PeopleTypes
  <2>2. sweep' = sweep /\ sweepDeaths' = sweepDeaths
    BY <1>1, PeopleTypes
  <2>. QED
    BY <1>0, <2>1, <2>2 DEF RemindersInv, EscalationsInv, SweepAt, Num, Unsent, NoNotice
<1>2. CASE FindStalled
  BY <1>0, <1>2 DEF FindStalled, RemindersInv, EscalationsInv, SweepAt, Num, Leave, AtStart, ReviewTypeOK, SweepState
<1>3. CASE ReadReminder
  <2>1. /\ reminder' = reminder /\ notices' = notices /\ sweepDeaths' = sweepDeaths
        /\ sweep.step = "read"
        /\ \/ sweep'.step = "query"
           \/ /\ sweep'.stage = sweep.stage /\ sweep'.copy = reminder[sweep.stage]
              /\ \/ sweep'.step = "remind" /\ reminder[sweep.stage].count < MaxReminders
                 \/ sweep'.step = "escalate" /\ ~reminder[sweep.stage].escalated
    <3>1. CASE sweep' = Leave
      BY <1>3, <3>1, LeaveFacts DEF ReadReminder, ReadWith
    <3>2. CASE sweep' # Leave
      <4>1. PICK x \in {"remind", "escalate"} :
              /\ sweep' = [sweep EXCEPT !.step = x, !.copy = reminder[sweep.stage]]
              /\ x = "remind" => reminder[sweep.stage].count < MaxReminders
              /\ x = "escalate" => ~reminder[sweep.stage].escalated
        <5>1. CASE reminder[sweep.stage].count >= MaxReminders
          <6>1. /\ sweep' = [sweep EXCEPT !.step = "escalate", !.copy = reminder[sweep.stage]]
                /\ ~reminder[sweep.stage].escalated
            BY <1>3, <3>2, <5>1 DEF ReadReminder, ReadWith
          <6>. QED
            BY <6>1
        <5>2. CASE ~(reminder[sweep.stage].count >= MaxReminders)
          <6>1. sweep' = [sweep EXCEPT !.step = "remind", !.copy = reminder[sweep.stage]]
            BY <1>3, <3>2, <5>2 DEF ReadReminder, ReadWith
          <6>2. reminder[sweep.stage].count < MaxReminders
            BY <5>2
          <6>. QED
            BY <6>1, <6>2
        <5>. QED
          BY <5>1, <5>2
      <4>2. sweep'.step = x /\ sweep'.stage = sweep.stage /\ sweep'.copy = reminder[sweep.stage]
        BY <4>1 DEF ReviewTypeOK, SweepState
      <4>. QED
        BY <1>3, <4>1, <4>2 DEF ReadReminder, ReadWith
    <3>. QED
      BY <3>1, <3>2
  <2>. QED
    BY <1>0, <2>1 DEF RemindersInv, EscalationsInv, SweepAt, Num
<1>4. CASE SendReminder
  <2>1. /\ reminder' = reminder /\ sweepDeaths' = sweepDeaths
        /\ sweep'.stage = sweep.stage /\ sweep'.copy = sweep.copy
        /\ \/ sweep.step = "remind" /\ sweep'.step = "count"
           \/ sweep.step = "escalate" /\ sweep'.step = "flag"
    BY <1>4 DEF SendReminder, ReviewTypeOK, SweepState
  <2>2. /\ notices'[s].reminders = IF SweepAt(s, {"remind"}) THEN notices[s].reminders + 1 ELSE notices[s].reminders
        /\ notices'[s].escalations = IF SweepAt(s, {"escalate"}) THEN notices[s].escalations + 1
                                     ELSE notices[s].escalations
    <3>1. CASE sweep.step = "remind"
      BY <1>4, <3>1 DEF SendReminder, SweepAt, ReviewTypeOK, Notices, SweepState
    <3>2. CASE sweep.step = "escalate"
      BY <1>4, <3>2 DEF SendReminder, SweepAt, ReviewTypeOK, Notices, SweepState
    <3>. QED
      BY <2>1, <3>1, <3>2
  <2>3. RemindersInv(s)'
    BY <1>0, <2>1, <2>2 DEF RemindersInv, SweepAt, Num
  <2>4. EscalationsInv(s)'
    BY <1>0, <2>1, <2>2 DEF EscalationsInv, SweepAt, Num
  <2>. QED
    BY <2>3, <2>4
<1>5. CASE Save
  BY <1>0, <1>5 DEF Save, SaveAs, Counted, Flagged, RemindersInv, EscalationsInv, SweepAt, Num, Leave,
     AtStart, ReviewTypeOK, SweepState, Reminder
<1>6. CASE SweepDies
  BY <1>0, <1>6 DEF SweepDies, RemindersInv, EscalationsInv, SweepAt, Num, AtStart
<1>7. ASSUME NEW t \in Stages, CoolDown(t) PROVE RemindersInv(s)' /\ EscalationsInv(s)'
  BY <1>0, <1>7 DEF CoolDown, RemindersInv, EscalationsInv, SweepAt, Num, ReviewTypeOK, Reminder
<1>. QED
  BY <1>1, <1>2, <1>3, <1>4, <1>5, <1>6, <1>7 DEF ReviewNext, SweepStep

LEMMA ReviewTypeStep ==
  ASSUME ReviewTypeOK, NoticesInv, ReviewNext
  PROVE  ReviewTypeOK'
<1>. USE ReviewFacts
<1>1. CASE People
  <2>1. reminder' \in [Stages -> Reminder] /\ notices' \in [Stages -> Notices]
    <3>1. Unsent \in Reminder /\ NoNotice \in Notices
      BY DEF Unsent, Reminder, NoNotice, Notices
    <3>. QED
      BY <1>1, <3>1, PeopleTypes DEF ReviewTypeOK
  <2>. QED
    BY <1>1, <2>1, PeopleTypes DEF ReviewTypeOK
<1>2. CASE FindStalled \/ ReadReminder
  BY <1>2, LeaveFacts DEF FindStalled, ReadReminder, ReadWith, ReviewTypeOK, SweepState
<1>3. CASE SendReminder
  <2>1. notices' \in [Stages -> Notices]
    <3>1. \A s \in Stages : RemindersInv(s)' /\ EscalationsInv(s)'
      BY <1>3, NoticesStep DEF ReviewNext, SweepStep
    <3>. QED
      BY <1>3, <3>1 DEF SendReminder, RemindersInv, EscalationsInv, SweepAt, Num, ReviewTypeOK, SweepState, Notices
  <2>. QED
    BY <1>3, <2>1 DEF SendReminder, ReviewTypeOK, SweepState
<1>4. CASE Save
  <2>1. RemindersInv(sweep.stage)
    BY DEF NoticesInv
  <2>2. reminder[sweep.stage] \in Reminder
    BY DEF ReviewTypeOK
  <2>3. Flagged(reminder[sweep.stage]) \in Reminder
    BY <2>2 DEF Flagged, Reminder
  <2>4. sweep.step = "count" => Counted(reminder[sweep.stage]) \in Reminder
    <3>1. sweep.step = "count" => sweep.copy.count + 1 \in 0 .. MaxReminders
      BY <2>1 DEF RemindersInv, SweepAt
    <3>. QED
      BY <2>2, <3>1 DEF Counted, Reminder
  <2>5. reminder' \in [Stages -> Reminder]
    BY <1>4, <2>3, <2>4 DEF Save, SaveAs, ReviewTypeOK
  <2>. QED
    BY <1>4, <2>5, LeaveFacts DEF Save, SaveAs, ReviewTypeOK
<1>5. CASE SweepDies
  BY <1>5 DEF SweepDies, AtStart, ReviewTypeOK, SweepState, Unsent, Reminder, Stages
<1>6. ASSUME NEW t \in Stages, CoolDown(t) PROVE ReviewTypeOK'
  BY <1>6 DEF CoolDown, ReviewTypeOK, Reminder
<1>. QED
  BY <1>1, <1>2, <1>3, <1>4, <1>5, <1>6 DEF ReviewNext, SweepStep

LEMMA ReviewStutter ==
  ASSUME ReviewTypeOK, NoticesInv, UNCHANGED reviewVars
  PROVE  ReviewTypeOK' /\ NoticesInv'
BY DEF reviewVars, ReviewTypeOK, NoticesInv, RemindersInv, EscalationsInv, SweepAt

-------------------------------------------------------------------------------
(* The theorems. *)

\* ReviewTypeOK: whatever people decide while the sweep holds its copy, the count
\* it saves never exceeds MAX_REMINDERS.
THEOREM ReviewTypes == ReviewSpec => []ReviewTypeOK
<1>1. ReviewTypeOK /\ NoticesInv /\ [ReviewNext]_reviewVars => (ReviewTypeOK /\ NoticesInv)'
  BY ReviewTypeStep, NoticesStep, ReviewStutter DEF NoticesInv
<1>. QED
  BY <1>1, ReviewInitHolds, PTL DEF ReviewSpec

\* NoticesBounded: a stage is reminded of at most MAX_REMINDERS times and escalated
\* once, and once more for each sweep that died, however its sends and its saves
\* fall between the decisions that start the stage anew.
THEOREM NoticesAreBounded == ReviewSpec => []NoticesBounded
<1>1. ReviewTypeOK /\ NoticesInv /\ [ReviewNext]_reviewVars => (ReviewTypeOK /\ NoticesInv)'
  BY ReviewTypeStep, NoticesStep, ReviewStutter DEF NoticesInv
<1>. QED
  BY <1>1, ReviewInitHolds, NoticesImply, PTL DEF ReviewSpec

---------------------------------------------------------------------------------
(* Delivery. *)

(* The invariant. *)

HoldsAt(p, i, d) == i \in 1 .. Len(batch[p]) /\ batch[p][i].row = d
CountedBy(p, d) == sending[p] = "counted" /\ HoldsAt(p, 1, d)
CountedSend(d) == \E p \in Processes : CountedBy(p, d)

\* A copy still to be dispatched has attempts left, and its row exists.
ProcessInv(p) ==
  /\ batch[p] = <<>> => sending[p] = "idle"
  /\ \A i \in 1 .. Len(batch[p]) :
       /\ i > 1 \/ sending[p] = "idle" => batch[p][i].tries < MaxAttempts
       /\ sent[batch[p][i].row] # "none"
  /\ sending[p] = "accepted" => batch[p][1].row \in received

\* While nobody else takes it up, a row has one copy, which says what the row
\* says; each counted attempt is called, about to be, or dead.
OwnInv(d) ==
  /\ \A p, q \in Processes : \A i, j \in Nat : HoldsAt(p, i, d) /\ HoldsAt(q, j, d) => p = q /\ i = j
  /\ \A p \in Processes : \A i \in Nat : HoldsAt(p, i, d) => batch[p][i].tries = tries[d]
  /\ calls[d] + Num(CountedSend(d)) <= tries[d]
  /\ tries[d] <= calls[d] + Num(CountedSend(d)) + deaths
  /\ sent[d] = "failed" => /\ tries[d] = MaxAttempts
                           /\ \A p \in Processes : \A i \in Nat : ~HoldsAt(p, i, d)

DeliveryRowInv(d) ==
  /\ sent[d] = "none" => tries[d] = 0 /\ calls[d] = 0
  /\ sent[d] = "delivered" => d \in received
  /\ d \notin shared => OwnInv(d)

\* The order of the rows that are due has no row before itself.
OrderInv == \A d \in Deliveries : <<d, d>> \notin earlier

DeliveryInv ==
  /\ \A p \in Processes : ProcessInv(p)
  /\ \A d \in Deliveries : DeliveryRowInv(d)
  /\ OrderInv

\* What the proof uses of the types.
LEMMA DeliveryFacts ==
  ASSUME DeliveryTypeOK
  PROVE  /\ MaxAttempts \in Nat \ {0} /\ RetryBatch \in Nat \ {0} /\ MaxDeaths \in Nat
         /\ CallBound = MaxAttempts + 1
         /\ deaths \in Nat
         /\ \A d \in Deliveries : tries[d] \in 0 .. MaxAttempts /\ calls[d] \in 0 .. CallBound
         /\ \A p \in Processes : batch[p] \in Seq(Copy) /\ Len(batch[p]) \in Nat
BY DeliveryAssumption DEF DeliveryTypeOK, CallBound

LEMMA CopyFacts ==
  ASSUME DeliveryTypeOK, NEW p \in Processes, NEW i \in 1 .. Len(batch[p])
  PROVE  /\ batch[p][i] \in Copy /\ batch[p][i].row \in Deliveries
         /\ batch[p][i].tries \in 0 .. MaxAttempts
<1>1. batch[p][i] \in Copy
  BY DeliveryFacts
<1>. QED
  BY <1>1 DEF Copy

\* A process that holds copies is at the first of them.
LEMMA FirstFacts ==
  ASSUME DeliveryTypeOK, NEW p \in Processes, Busy(p)
  PROVE  /\ First(p) = batch[p][1] /\ 1 \in 1 .. Len(batch[p]) /\ Len(batch[p]) > 0
         /\ First(p).row \in Deliveries /\ First(p).tries \in 0 .. MaxAttempts
         /\ First(p) \in Copy
<1>1. Len(batch[p]) > 0 /\ First(p) = batch[p][1] /\ 1 \in 1 .. Len(batch[p])
  BY DeliveryFacts DEF Busy, First
<1>. QED
  BY <1>1, CopyFacts

LEMMA IdleHoldsNothing ==
  ASSUME NEW p, ~Busy(p)
  PROVE  \A i, d : ~HoldsAt(p, i, d)
BY DEF Busy, HoldsAt

\* A row whose copies only moved forward in their batches, each with its count,
\* and which nothing else happened to; its process may have died.
LEMMA Untouched ==
  ASSUME DeliveryTypeOK, DeliveryInv, NEW d \in Deliveries,
         sent'[d] = sent[d], tries'[d] = tries[d], calls'[d] = calls[d],
         received \subseteq received', d \notin shared' => d \notin shared,
         \A p \in Processes : \E k \in Nat : \A i \in Nat :
            HoldsAt(p, i, d)' => HoldsAt(p, i + k, d) /\ batch'[p][i].tries = batch[p][i + k].tries,
         \/ deaths' = deaths /\ (CountedSend(d)' <=> CountedSend(d))
         \/ deaths' = deaths + 1 /\ (CountedSend(d)' => CountedSend(d))
  PROVE  DeliveryRowInv(d)'
<1>1. DeliveryRowInv(d)
  BY DEF DeliveryInv
<1>2. ASSUME OwnInv(d) PROVE OwnInv(d)'
  <2>0. \A p, q \in Processes : \A i, j \in Nat : HoldsAt(p, i, d) /\ HoldsAt(q, j, d) => p = q /\ i = j
    BY <1>2 DEF OwnInv
  <2>1. ASSUME NEW p \in Processes, NEW q \in Processes, NEW i \in Nat, NEW j \in Nat,
               HoldsAt(p, i, d)', HoldsAt(q, j, d)'
        PROVE  p = q /\ i = j
    <3>1. PICK k \in Nat : \A n \in Nat : HoldsAt(p, n, d)' => HoldsAt(p, n + k, d)
      OBVIOUS
    <3>2. PICK l \in Nat : \A n \in Nat : HoldsAt(q, n, d)' => HoldsAt(q, n + l, d)
      OBVIOUS
    <3>3. PICK ik \in Nat, jl \in Nat : /\ ik = i + k /\ HoldsAt(p, ik, d)
                                       /\ jl = j + l /\ HoldsAt(q, jl, d)
      BY <2>1, <3>1, <3>2
    <3>4. p = q
      BY <2>0, <3>3
    <3>5. PICK jk \in Nat : jk = j + k /\ HoldsAt(p, jk, d)
      BY <2>1, <3>1, <3>4
    <3>6. ik = jk
      BY <2>0, <3>3, <3>5
    <3>. QED
      BY <3>3, <3>4, <3>5, <3>6
  <2>2. ASSUME NEW p \in Processes, NEW i \in Nat, HoldsAt(p, i, d)'
        PROVE  batch'[p][i].tries = tries'[d] /\ \E j \in Nat : HoldsAt(p, j, d)
    <3>1. PICK k \in Nat : HoldsAt(p, i + k, d) /\ batch'[p][i].tries = batch[p][i + k].tries
      BY <2>2
    <3>. QED
      BY <1>2, <3>1 DEF OwnInv
  <2>3. \A b \in BOOLEAN : Num(b) \in {0, 1}
    BY DEF Num
  <2>4. /\ calls'[d] + Num(CountedSend(d)') <= tries'[d]
        /\ tries'[d] <= calls'[d] + Num(CountedSend(d)') + deaths'
    BY <1>2, DeliveryFacts DEF OwnInv, Num
  <2>5. sent'[d] = "failed" => /\ tries'[d] = MaxAttempts
                              /\ \A p \in Processes : \A i \in Nat : ~HoldsAt(p, i, d)'
    BY <1>2, <2>2 DEF OwnInv
  <2>. QED
    BY <2>1, <2>2, <2>4, <2>5 DEF OwnInv
<1>. QED
  BY <1>1, <1>2 DEF DeliveryRowInv

LEMMA UntouchedInPlace ==
  ASSUME DeliveryTypeOK, DeliveryInv, NEW d \in Deliveries,
         sent'[d] = sent[d], tries'[d] = tries[d], calls'[d] = calls[d],
         received \subseteq received', d \notin shared' => d \notin shared,
         \A p \in Processes : \A i \in Nat :
            HoldsAt(p, i, d)' => HoldsAt(p, i, d) /\ batch'[p][i].tries = batch[p][i].tries,
         \/ deaths' = deaths /\ (CountedSend(d)' <=> CountedSend(d))
         \/ deaths' = deaths + 1 /\ (CountedSend(d)' => CountedSend(d))
  PROVE  DeliveryRowInv(d)'
<1>1. ASSUME NEW p \in Processes
      PROVE  \E k \in Nat : \A i \in Nat :
               HoldsAt(p, i, d)' => HoldsAt(p, i + k, d) /\ batch'[p][i].tries = batch[p][i + k].tries
  <2>1. ASSUME NEW i \in Nat, HoldsAt(p, i, d)'
        PROVE  HoldsAt(p, i + 0, d) /\ batch'[p][i].tries = batch[p][i + 0].tries
    <3>1. i + 0 = i
      OBVIOUS
    <3>. QED
      BY <2>1, <3>1
  <2>2. 0 \in Nat
    OBVIOUS
  <2>. QED
    BY <2>1, <2>2
<1>. QED
  BY <1>1, Untouched

-------------------------------------------------------------------------------
(* The steps of a process. *)

\* The other processes keep their copies and their place.
Still(p) == \A q \in Processes \ {p} : batch'[q] = batch[q] /\ sending'[q] = sending[q]

\* A process whose copies did not change is in order, when no row lost its sent.
LEMMA ProcessUntouched ==
  ASSUME DeliveryTypeOK, NEW q \in Processes, ProcessInv(q),
         batch'[q] = batch[q], sending'[q] = sending[q], received \subseteq received',
         \A d \in Deliveries : sent[d] # "none" => sent'[d] # "none"
  PROVE  ProcessInv(q)'
BY CopyFacts DEF ProcessInv

LEMMA StepNotify ==
  ASSUME DeliveryTypeOK, DeliveryInv, NEW p \in Processes, NEW e \in Deliveries, Notify(p, e)
  PROVE  DeliveryInv'
<1>1. /\ batch[p] = <<>> /\ sending[p] = "idle" /\ sending' = sending /\ Still(p)
      /\ batch'[p] = <<CopyOf(e)>> /\ sent[e] = "none"
      /\ \A d \in Deliveries : sent'[d] = IF d = e THEN "pending" ELSE sent[d]
      /\ tries' = tries /\ calls' = calls /\ received' = received /\ shared' = shared
      /\ deaths' = deaths /\ earlier' = earlier
  BY DEF Notify, Busy, DeliveryTypeOK, DeliveryInv, ProcessInv, Still
<1>2. /\ Len(batch'[p]) = 1 /\ batch'[p][1] = CopyOf(e) /\ CopyOf(e).row = e
      /\ CopyOf(e).tries = tries[e]
  BY <1>1 DEF CopyOf
<1>3. tries[e] = 0 /\ calls[e] = 0
  BY <1>1 DEF DeliveryInv, DeliveryRowInv
<1>4. \A q \in Processes : \A i \in Nat : ~HoldsAt(q, i, e)
  BY <1>1 DEF DeliveryInv, ProcessInv, HoldsAt
<1>5. \A i \in Nat, d \in Deliveries : ~HoldsAt(p, i, d) /\ (HoldsAt(p, i, d)' <=> i = 1 /\ d = e)
  BY <1>1, <1>2 DEF HoldsAt
<1>6. \A q \in Processes \ {p}, i \in Nat, d \in Deliveries : HoldsAt(q, i, d)' <=> HoldsAt(q, i, d)
  BY <1>1 DEF Still, HoldsAt
<1>7. \A q \in Processes, d \in Deliveries : CountedBy(q, d)' <=> CountedBy(q, d)
  BY <1>1, <1>5, <1>6 DEF CountedBy, Still
<1>8. ASSUME NEW q \in Processes PROVE ProcessInv(q)'
  <2>1. CASE q = p
    BY <1>1, <1>2, <1>3, <2>1, DeliveryFacts DEF ProcessInv
  <2>2. CASE q # p
    BY <1>1, <2>2, ProcessUntouched DEF DeliveryInv, Still
  <2>. QED
    BY <2>1, <2>2
<1>9. ASSUME NEW d \in Deliveries PROVE DeliveryRowInv(d)'
  <2>1. CASE d # e
    <3>1. CountedSend(d)' <=> CountedSend(d)
      BY <1>7 DEF CountedSend
    <3>2. \A q \in Processes : \A i \in Nat : HoldsAt(q, i, d)' => HoldsAt(q, i, d) /\ batch'[q][i].tries = batch[q][i].tries
      BY <1>1, <1>5, <1>6, <2>1 DEF Still
    <3>. QED
      BY <1>1, <2>1, <3>1, <3>2, UntouchedInPlace
  <2>2. CASE d = e
    <3>1. ~CountedSend(e)'
      BY <1>1, <1>4, <1>7 DEF CountedSend, CountedBy
    <3>2. OwnInv(e)'
      <4>1. \A q \in Processes, i \in Nat : HoldsAt(q, i, e)' => q = p /\ i = 1
        BY <1>4, <1>5, <1>6
      <4>2. tries'[e] = 0 /\ calls'[e] = 0 /\ batch'[p][1].tries = 0 /\ sent'[e] # "failed"
        BY <1>1, <1>2, <1>3
      <4>. QED
        BY <1>1, <3>1, <4>1, <4>2, DeliveryFacts DEF OwnInv, Num
    <3>. QED
      BY <1>1, <2>2, <3>2 DEF DeliveryRowInv
  <2>. QED
    BY <2>1, <2>2
<1>. QED
  BY <1>1, <1>8, <1>9 DEF DeliveryInv, OrderInv

LEMMA StepQuery ==
  ASSUME DeliveryTypeOK, DeliveryInv, NEW p \in Processes, Query(p)
  PROVE  DeliveryInv'
<1>0. PICK n \in 1 .. RetryBatch : \E rows \in [1 .. n -> Retryable] :
        /\ FirstRows(rows, n)
        /\ batch' = [batch EXCEPT ![p] = [i \in 1 .. n |-> CopyOf(rows[i])]]
        /\ shared' = shared \cup {d \in Retryable : Held(d) # {} /\ \E i \in 1 .. n : d = rows[i]}
  BY DEF Query
<1>1. PICK rows \in [1 .. n -> Retryable] :
        /\ FirstRows(rows, n)
        /\ batch' = [batch EXCEPT ![p] = [i \in 1 .. n |-> CopyOf(rows[i])]]
        /\ shared' = shared \cup {d \in Retryable : Held(d) # {} /\ \E i \in 1 .. n : d = rows[i]}
  BY <1>0
<1>2. /\ batch[p] = <<>> /\ sending[p] = "idle" /\ sending' = sending /\ Still(p)
      /\ batch'[p] = [i \in 1 .. n |-> CopyOf(rows[i])]
      /\ sent' = sent /\ tries' = tries /\ calls' = calls /\ received' = received
      /\ deaths' = deaths /\ earlier' = earlier
  BY <1>1 DEF Query, Busy, DeliveryTypeOK, DeliveryInv, ProcessInv, Still
<1>3. n \in Nat /\ Len(batch'[p]) = n
  BY <1>2, DeliveryFacts
<1>4. \A i \in 1 .. n : /\ rows[i] \in Deliveries /\ sent[rows[i]] = "pending"
                       /\ tries[rows[i]] < MaxAttempts
                       /\ batch'[p][i].row = rows[i] /\ batch'[p][i].tries = tries[rows[i]]
  BY <1>2 DEF CopyOf, Retryable, DeliveryTypeOK
<1>5. \A i, j \in 1 .. n : rows[i] = rows[j] => i = j
  <2>1. \A i, j \in 1 .. n : i < j => rows[i] # rows[j]
    BY <1>1, <1>4 DEF FirstRows, DeliveryInv, OrderInv
  <2>. QED
    BY <1>3, <2>1
<1>6. \A i \in Nat, d \in Deliveries :
        /\ ~HoldsAt(p, i, d)
        /\ HoldsAt(p, i, d)' <=> i \in 1 .. n /\ rows[i] = d
  BY <1>2, <1>3, <1>4 DEF HoldsAt
<1>7. \A q \in Processes \ {p}, i \in Nat, d \in Deliveries : HoldsAt(q, i, d)' <=> HoldsAt(q, i, d)
  BY <1>2 DEF Still, HoldsAt
<1>8. \A q \in Processes, d \in Deliveries : CountedBy(q, d)' <=> CountedBy(q, d)
  BY <1>2, <1>6, <1>7 DEF CountedBy, Still
<1>9. ASSUME NEW q \in Processes PROVE ProcessInv(q)'
  <2>1. CASE q = p
    BY <1>2, <1>3, <1>4, <2>1, DeliveryFacts DEF ProcessInv
  <2>2. CASE q # p
    BY <1>2, <2>2, ProcessUntouched DEF DeliveryInv, Still
  <2>. QED
    BY <2>1, <2>2
<1>10. ASSUME NEW d \in Deliveries PROVE DeliveryRowInv(d)'
  <2>0. CountedSend(d)' <=> CountedSend(d)
    BY <1>8 DEF CountedSend
  <2>1. CASE \A i \in 1 .. n : rows[i] # d
    <3>1. ASSUME NEW q \in Processes
          PROVE  \A i \in Nat : HoldsAt(q, i, d)' => HoldsAt(q, i, d) /\ batch'[q][i].tries = batch[q][i].tries
      <4>1. CASE q = p
        <5>1. ASSUME NEW i \in Nat, HoldsAt(p, i, d)' PROVE FALSE
          <6>1. i \in 1 .. n /\ rows[i] = d
            BY <1>6, <5>1
          <6>. QED
            BY <2>1, <6>1
        <5>. QED
          BY <4>1, <5>1
      <4>2. CASE q # p
        BY <1>2, <1>7, <4>2 DEF Still
      <4>. QED
        BY <4>1, <4>2
    <3>. QED
      BY <1>1, <1>2, <2>0, <2>1, <3>1, UntouchedInPlace
  <2>2. ASSUME NEW m \in 1 .. n, rows[m] = d PROVE DeliveryRowInv(d)'
    <3>1. DeliveryRowInv(d) /\ sent[d] = "pending"
      BY <1>4, <2>2 DEF DeliveryInv
    <3>2. ASSUME d \notin shared' PROVE OwnInv(d)'
      <4>1. d \notin shared /\ Held(d) = {}
        BY <1>1, <2>2, <3>2
      <4>2. \A q \in Processes : \A i \in Nat : ~HoldsAt(q, i, d)
        BY <4>1, DeliveryFacts DEF Held, HoldsAt
      <4>3. \A q \in Processes : \A i \in Nat : HoldsAt(q, i, d)' => q = p /\ i = m
        BY <1>3, <1>5, <1>6, <1>7, <2>2, <4>2
      <4>4. OwnInv(d)
        BY <3>1, <4>1 DEF DeliveryRowInv
      <4>. QED
        BY <1>2, <1>4, <2>0, <2>2, <3>1, <4>3, <4>4 DEF OwnInv, Num
    <3>. QED
      BY <1>2, <3>1, <3>2 DEF DeliveryRowInv
  <2>. QED
    BY <2>1, <2>2
<1>. QED
  BY <1>2, <1>9, <1>10 DEF DeliveryInv, OrderInv

\* What p does to the row of its first copy.
LEMMA StepCount ==
  ASSUME DeliveryTypeOK, DeliveryInv, NEW p \in Processes, Count(p)
  PROVE  DeliveryInv'
<1>e. PICK e \in Deliveries : e = First(p).row
  BY FirstFacts DEF Count
<1>0. /\ First(p) = batch[p][1] /\ 1 \in 1 .. Len(batch[p]) /\ First(p).row = e
      /\ First(p) \in Copy /\ First(p).tries \in 0 .. MaxAttempts
  BY <1>e, FirstFacts DEF Count
<1>1. /\ sending[p] = "idle" /\ sending'[p] = "counted" /\ Still(p)
      /\ \A d \in Deliveries : tries'[d] = IF d = e THEN First(p).tries + 1 ELSE tries[d]
      /\ sent' = sent /\ calls' = calls /\ received' = received /\ shared' = shared
      /\ deaths' = deaths /\ earlier' = earlier
  BY <1>0 DEF Count, Still, DeliveryTypeOK
<1>2. /\ Len(batch'[p]) = Len(batch[p])
      /\ \A i \in 1 .. Len(batch[p]) : batch'[p][i].row = batch[p][i].row
      /\ batch'[p][1].tries = First(p).tries + 1
      /\ \A i \in 1 .. Len(batch[p]) : i # 1 => batch'[p][i].tries = batch[p][i].tries
  <2>1. batch'[p] = [batch[p] EXCEPT ![1].tries = @ + 1]
    BY DEF Count, DeliveryTypeOK
  <2>2. batch[p] \in Seq(Copy)
    BY DeliveryFacts
  <2>3. batch'[p] = [batch[p] EXCEPT ![1] = [batch[p][1] EXCEPT !.tries = @ + 1]]
    BY <2>1
  <2>. QED
    BY <1>0, <2>2, <2>3 DEF Copy
<1>3. \A q \in Processes, i \in Nat, d \in Deliveries : HoldsAt(q, i, d)' <=> HoldsAt(q, i, d)
  BY <1>1, <1>2 DEF Still, HoldsAt
<1>4. \A q \in Processes \ {p}, d \in Deliveries : CountedBy(q, d)' <=> CountedBy(q, d)
  BY <1>1, <1>3 DEF CountedBy, Still
<1>5. \A d \in Deliveries : ~CountedBy(p, d) /\ (CountedBy(p, d)' <=> d = e)
  BY <1>0, <1>1, <1>2 DEF CountedBy, HoldsAt
<1>6. ASSUME NEW q \in Processes PROVE ProcessInv(q)'
  <2>1. CASE q = p
    <3>1. ProcessInv(p)
      BY DEF DeliveryInv
    <3>2. batch'[p] # <<>>
      BY <1>0, <1>2
    <3>. QED
      BY <1>1, <1>2, <2>1, <3>1, <3>2 DEF ProcessInv
  <2>2. CASE q # p
    BY <1>1, <2>2, ProcessUntouched DEF DeliveryInv, Still
  <2>. QED
    BY <2>1, <2>2
<1>7. ASSUME NEW d \in Deliveries PROVE DeliveryRowInv(d)'
  <2>1. CASE d # e
    <3>1. CountedSend(d)' <=> CountedSend(d)
      BY <1>4, <1>5, <2>1 DEF CountedSend
    <3>2. \A q \in Processes : \A i \in Nat : HoldsAt(q, i, d)' => HoldsAt(q, i, d) /\ batch'[q][i].tries = batch[q][i].tries
      BY <1>0, <1>1, <1>2, <1>3, <2>1 DEF Still, HoldsAt
    <3>. QED
      BY <1>1, <2>1, <3>1, <3>2, UntouchedInPlace
  <2>2. CASE d = e
    <3>1. DeliveryRowInv(e) /\ ProcessInv(p)
      BY <1>0 DEF DeliveryInv
    <3>2. sent[e] # "none"
      BY <1>0, <3>1 DEF ProcessInv
    <3>3. ASSUME OwnInv(e) PROVE OwnInv(e)'
      <4>1. HoldsAt(p, 1, e)
        BY <1>0 DEF HoldsAt
      <4>2. \A q \in Processes, i \in Nat : HoldsAt(q, i, e) => q = p /\ i = 1
        BY <3>3, <4>1 DEF OwnInv
      <4>3. First(p).tries = tries[e] /\ sent[e] # "failed"
        BY <1>0, <3>3, <4>1 DEF OwnInv
      <4>4. ~CountedSend(e) /\ CountedSend(e)'
        BY <1>5, <4>2 DEF CountedSend, CountedBy
      <4>. QED
        <5>1. \A q \in Processes, i \in Nat : HoldsAt(q, i, e)' => q = p /\ i = 1
          BY <1>3, <4>2
        <5>2. tries'[e] = tries[e] + 1 /\ calls'[e] = calls[e] /\ batch'[p][1].tries = tries[e] + 1
          BY <1>1, <1>2, <4>3
        <5>3. sent'[e] # "failed" /\ deaths' = deaths
          BY <1>1, <4>3
        <5>4. calls[e] + 0 <= tries[e] /\ tries[e] <= calls[e] + 0 + deaths
          BY <3>3, <4>4 DEF OwnInv, Num
        <5>5. Num(CountedSend(e)') = 1
          BY <4>4 DEF Num
        <5>6. tries[e] \in Nat /\ calls[e] \in Nat /\ deaths \in Nat
          BY DeliveryFacts
        <5>7. /\ calls'[e] + Num(CountedSend(e)') <= tries'[e]
              /\ tries'[e] <= calls'[e] + Num(CountedSend(e)') + deaths'
          BY <5>2, <5>3, <5>4, <5>5, <5>6
        <5>8. \A q \in Processes, i \in Nat : HoldsAt(q, i, e)' =>
                q = p /\ i = 1 /\ batch'[q][i].tries = tries'[e] /\ sent'[e] # "failed"
          BY <5>1, <5>2, <5>3
        <5>. QED
          BY <5>1, <5>3, <5>7, <5>8 DEF OwnInv
    <3>. QED
      BY <1>1, <2>2, <3>1, <3>2, <3>3 DEF DeliveryRowInv
  <2>. QED
    BY <2>1, <2>2
<1>. QED
  BY <1>1, <1>6, <1>7 DEF DeliveryInv, OrderInv

LEMMA StepCall ==
  ASSUME DeliveryTypeOK, DeliveryInv, NEW p \in Processes, Call(p)
  PROVE  DeliveryInv'
<1>e. PICK e \in Deliveries : e = First(p).row
  BY FirstFacts DEF Call
<1>0. Busy(p) /\ First(p) = batch[p][1] /\ 1 \in 1 .. Len(batch[p]) /\ batch[p][1].row = e
  BY <1>e, FirstFacts DEF Call
<1>1. /\ sending[p] = "counted" /\ sending'[p] \in {"accepted", "raised"} /\ Still(p)
      /\ sending'[p] = "accepted" => e \in received'
      /\ \A d \in Deliveries : d # e => calls'[d] = calls[d]
      /\ calls'[e] = IF calls[e] < CallBound THEN calls[e] + 1 ELSE calls[e]
      /\ received \subseteq received'
      /\ sent' = sent /\ tries' = tries /\ batch' = batch /\ shared' = shared
      /\ deaths' = deaths /\ earlier' = earlier
  BY <1>0 DEF Call, Still, DeliveryTypeOK
<1>2. \A q \in Processes, i \in Nat, d \in Deliveries : HoldsAt(q, i, d)' <=> HoldsAt(q, i, d)
  BY <1>1 DEF HoldsAt
<1>3. \A q \in Processes \ {p}, d \in Deliveries : CountedBy(q, d)' <=> CountedBy(q, d)
  BY <1>1, <1>2 DEF CountedBy, Still
<1>4. \A d \in Deliveries : ~CountedBy(p, d)' /\ (CountedBy(p, d) <=> d = e)
  BY <1>0, <1>1 DEF CountedBy, HoldsAt
<1>5. ASSUME NEW q \in Processes PROVE ProcessInv(q)'
  <2>1. CASE q = p
    BY <1>0, <1>1, <2>1 DEF ProcessInv, DeliveryInv
  <2>2. CASE q # p
    BY <1>1, <2>2, ProcessUntouched DEF DeliveryInv, Still
  <2>. QED
    BY <2>1, <2>2
<1>6. ASSUME NEW d \in Deliveries PROVE DeliveryRowInv(d)'
  <2>1. CASE d # e
    <3>1. CountedSend(d)' <=> CountedSend(d)
      BY <1>3, <1>4, <2>1 DEF CountedSend
    <3>. QED
      BY <1>1, <1>2, <2>1, <3>1, UntouchedInPlace
  <2>2. CASE d = e
    <3>1. DeliveryRowInv(e) /\ ProcessInv(p)
      BY DEF DeliveryInv
    <3>2. sent[e] # "none"
      BY <1>0, <3>1 DEF ProcessInv
    <3>3. ASSUME OwnInv(e) PROVE OwnInv(e)'
      <4>1. HoldsAt(p, 1, e)
        BY <1>0 DEF HoldsAt
      <4>2. \A q \in Processes, i \in Nat : HoldsAt(q, i, e) => q = p /\ i = 1
        BY <3>3, <4>1 DEF OwnInv
      <4>3. CountedSend(e) /\ ~CountedSend(e)'
        BY <1>2, <1>4, <4>2 DEF CountedSend, CountedBy
      <4>4. calls[e] + 1 <= tries[e] /\ tries[e] <= calls[e] + 1 + deaths
        BY <3>3, <4>3 DEF OwnInv, Num
      <4>5. calls'[e] = calls[e] + 1
        BY <1>1, <4>4, DeliveryFacts
      <4>6. \A q \in Processes : \A i \in Nat : HoldsAt(q, i, e)' => batch'[q][i].tries = tries'[e]
        BY <1>1, <1>2, <3>3 DEF OwnInv
      <4>7. sent'[e] # "failed"
        BY <1>1, <3>3, <4>1 DEF OwnInv
      <4>. QED
        <5>1. \A q \in Processes, i \in Nat : HoldsAt(q, i, e)' => q = p /\ i = 1
          BY <1>2, <4>2
        <5>2. calls'[e] + 0 <= tries'[e] /\ tries'[e] <= calls'[e] + 0 + deaths'
          BY <1>1, <4>4, <4>5, DeliveryFacts
        <5>. QED
          BY <4>3, <4>6, <4>7, <5>1, <5>2 DEF OwnInv, Num
    <3>. QED
      BY <1>1, <2>2, <3>1, <3>2, <3>3 DEF DeliveryRowInv
  <2>. QED
    BY <2>1, <2>2
<1>. QED
  BY <1>1, <1>5, <1>6 DEF DeliveryInv, OrderInv

\* Whatever verdict the dispatch ends with, when the row earned it.
LEMMA StepEnd ==
  ASSUME DeliveryTypeOK, DeliveryInv, NEW p \in Processes, Busy(p),
         sending[p] \in {"accepted", "raised"},
         NEW s \in {"pending", "delivered", "failed"}, NEW retry \in BOOLEAN,
         EndDispatch(p, s, retry),
         s = "delivered" => sending[p] = "accepted",
         s = "failed" => First(p).tries >= MaxAttempts
  PROVE  DeliveryInv'
<1>e. PICK e \in Deliveries : e = First(p).row
  BY FirstFacts
<1>0. /\ First(p) = batch[p][1] /\ 1 \in 1 .. Len(batch[p]) /\ batch[p][1].row = e
      /\ First(p).tries \in 0 .. MaxAttempts
  BY <1>e, FirstFacts
<1>1. /\ sending'[p] = "idle" /\ Still(p) /\ batch'[p] = Tail(batch[p])
      /\ \A d \in Deliveries : sent'[d] = IF d = e THEN s ELSE sent[d]
      /\ tries' = tries /\ calls' = calls /\ received' = received /\ shared' = shared
      /\ deaths' = deaths /\ earlier' \subseteq earlier
  BY <1>0 DEF EndDispatch, Still, DeliveryTypeOK
<1>2. /\ Len(batch'[p]) = Len(batch[p]) - 1
      /\ \A i \in 1 .. Len(batch[p]) - 1 : batch'[p][i] = batch[p][i + 1]
  BY <1>0, <1>1, DeliveryFacts
<1>3. \A i \in Nat, d \in Deliveries :
        HoldsAt(p, i, d)' => HoldsAt(p, i + 1, d) /\ batch'[p][i].tries = batch[p][i + 1].tries
  <2>1. ASSUME NEW i \in Nat, i \in 1 .. Len(batch'[p])
        PROVE  i + 1 \in 1 .. Len(batch[p]) /\ batch'[p][i] = batch[p][i + 1]
    <3>1. Len(batch[p]) \in Nat
      BY DeliveryFacts
    <3>2. i \in 1 .. Len(batch[p]) - 1
      BY <1>2, <2>1, <3>1
    <3>. QED
      BY <1>2, <3>1, <3>2
  <2>. QED
    BY <2>1 DEF HoldsAt
<1>4. \A q \in Processes \ {p}, i \in Nat, d \in Deliveries : HoldsAt(q, i, d)' <=> HoldsAt(q, i, d)
  BY <1>1 DEF Still, HoldsAt
<1>5. \A q \in Processes, d \in Deliveries : CountedBy(q, d)' <=> CountedBy(q, d)
  BY <1>1, <1>4 DEF CountedBy, Still
<1>6. ProcessInv(p)
  BY DEF DeliveryInv
<1>7. ASSUME NEW q \in Processes PROVE ProcessInv(q)'
  <2>0. \A d \in Deliveries : sent[d] # "none" => sent'[d] # "none"
    BY <1>1
  <2>1. CASE q = p
    <3>1. \A i \in 1 .. Len(batch'[p]) : /\ i + 1 \in 1 .. Len(batch[p]) /\ i + 1 > 1
                                        /\ batch'[p][i] = batch[p][i + 1]
      <4>1. Len(batch[p]) \in Nat
        BY DeliveryFacts
      <4>. QED
        BY <1>2, <4>1
    <3>2. \A i \in 1 .. Len(batch'[p]) :
            batch'[p][i].tries < MaxAttempts /\ sent[batch'[p][i].row] # "none"
            /\ batch'[p][i].row \in Deliveries
      BY <1>6, <3>1, CopyFacts DEF ProcessInv
    <3>. QED
      BY <1>1, <2>0, <2>1, <3>2 DEF ProcessInv
  <2>2. CASE q # p
    BY <1>1, <2>0, <2>2, ProcessUntouched DEF DeliveryInv, Still
  <2>. QED
    BY <2>1, <2>2
<1>8. ASSUME NEW d \in Deliveries PROVE DeliveryRowInv(d)'
  <2>0. CountedSend(d)' <=> CountedSend(d)
    BY <1>5 DEF CountedSend
  <2>1. CASE d # e
    <3>1. ASSUME NEW q \in Processes
          PROVE  \E k \in Nat : \A i \in Nat :
                   HoldsAt(q, i, d)' => HoldsAt(q, i + k, d) /\ batch'[q][i].tries = batch[q][i + k].tries
      <4>1. CASE q = p
        BY <1>3, <4>1
      <4>2. CASE q # p
        <5>1. \A i \in Nat : i + 0 = i
          OBVIOUS
        <5>. QED
          BY <1>1, <1>4, <4>2, <5>1 DEF Still
      <4>. QED
        BY <4>1, <4>2
    <3>. QED
      BY <1>1, <2>0, <2>1, <3>1, Untouched
  <2>2. CASE d = e
    <3>1. DeliveryRowInv(e)
      BY DEF DeliveryInv
    <3>2. s = "delivered" => e \in received
      BY <1>0, <1>6 DEF ProcessInv
    <3>3. ASSUME OwnInv(e) PROVE OwnInv(e)'
      <4>1. HoldsAt(p, 1, e)
        BY <1>0 DEF HoldsAt
      <4>2. \A q \in Processes, i \in Nat : HoldsAt(q, i, e) => q = p /\ i = 1
        BY <3>3, <4>1 DEF OwnInv
      <4>3. \A i \in Nat : ~HoldsAt(p, i, e)'
        <5>1. \A i \in Nat : i + 1 \in Nat /\ (i \in 1 .. Len(batch'[p]) => i + 1 # 1)
          BY <1>2, DeliveryFacts
        <5>. QED
          BY <1>3, <4>2, <5>1 DEF HoldsAt
      <4>4. \A q \in Processes, i \in Nat : ~HoldsAt(q, i, e)'
        BY <1>4, <4>2, <4>3
      <4>5. s = "failed" => tries[e] = MaxAttempts
        BY <1>0, <3>3, <4>1, DeliveryFacts DEF OwnInv
      <4>. QED
        <5>1. (CountedSend(e)' <=> CountedSend(e)) /\ (s = "failed" => tries'[e] = MaxAttempts)
          BY <1>1, <2>0, <2>2, <4>5
        <5>2. calls'[e] + Num(CountedSend(e)') <= tries'[e] /\ tries'[e] <= calls'[e] + Num(CountedSend(e)') + deaths'
          BY <1>1, <3>3, <5>1 DEF OwnInv, Num
        <5>. QED
          BY <1>1, <4>4, <5>1, <5>2 DEF OwnInv
    <3>. QED
      BY <1>1, <2>2, <3>1, <3>2, <3>3 DEF DeliveryRowInv
  <2>. QED
    BY <2>1, <2>2
<1>. QED
  BY <1>1, <1>7, <1>8 DEF DeliveryInv, OrderInv

LEMMA StepRaise ==
  ASSUME DeliveryTypeOK, DeliveryInv, NEW p \in Processes, Busy(p), sending[p] = "accepted",
         sending' = [sending EXCEPT ![p] = "raised"],
         UNCHANGED <<sent, tries, backoff, lapsed, earlier, batch, deaths, calls, received, shared, dropped>>
  PROVE  DeliveryInv'
<1>1. sending'[p] = "raised" /\ Still(p)
  BY DEF Still, DeliveryTypeOK
<1>2. \A q \in Processes, d \in Deliveries : CountedBy(q, d)' <=> CountedBy(q, d)
  BY <1>1 DEF CountedBy, HoldsAt, Still
<1>3. ASSUME NEW q \in Processes PROVE ProcessInv(q)'
  <2>1. CASE q = p
    BY <1>1, <2>1 DEF ProcessInv, DeliveryInv, Busy
  <2>2. CASE q # p
    BY <1>1, <2>2, ProcessUntouched DEF DeliveryInv, Still
  <2>. QED
    BY <2>1, <2>2
<1>4. ASSUME NEW d \in Deliveries PROVE DeliveryRowInv(d)'
  <2>1. CountedSend(d)' <=> CountedSend(d)
    BY <1>2 DEF CountedSend
  <2>. QED
    BY <2>1, UntouchedInPlace DEF HoldsAt
<1>. QED
  BY <1>3, <1>4 DEF DeliveryInv, OrderInv

LEMMA StepDie ==
  ASSUME DeliveryTypeOK, DeliveryInv, NEW p \in Processes, Die(p)
  PROVE  DeliveryInv'
<1>1. /\ batch'[p] = <<>> /\ sending'[p] = "idle" /\ Still(p)
      /\ sent' = sent /\ tries' = tries /\ calls' = calls /\ received' = received
      /\ shared' = shared /\ deaths' = deaths + 1 /\ earlier' = earlier
  BY DEF Die, Still, DeliveryTypeOK
<1>2. /\ \A i \in Nat, d \in Deliveries : ~HoldsAt(p, i, d)'
      /\ \A q \in Processes \ {p}, i \in Nat, d \in Deliveries : HoldsAt(q, i, d)' <=> HoldsAt(q, i, d)
  BY <1>1 DEF HoldsAt, Still
<1>3. \A q \in Processes, d \in Deliveries : CountedBy(q, d)' => CountedBy(q, d)
  BY <1>1, <1>2 DEF CountedBy, Still
<1>4. ASSUME NEW q \in Processes PROVE ProcessInv(q)'
  <2>1. CASE q = p
    BY <1>1, <2>1 DEF ProcessInv
  <2>2. CASE q # p
    BY <1>1, <2>2, ProcessUntouched DEF DeliveryInv, Still
  <2>. QED
    BY <2>1, <2>2
<1>5. ASSUME NEW d \in Deliveries PROVE DeliveryRowInv(d)'
  <2>1. CountedSend(d)' => CountedSend(d)
    BY <1>3 DEF CountedSend
  <2>2. ASSUME NEW q \in Processes, NEW i \in Nat, HoldsAt(q, i, d)'
        PROVE  HoldsAt(q, i, d) /\ batch'[q][i].tries = batch[q][i].tries
    <3>1. q # p
      BY <1>2, <2>2
    <3>. QED
      BY <1>1, <1>2, <2>2, <3>1 DEF Still
  <2>. QED
    BY <1>1, <2>1, <2>2, UntouchedInPlace
<1>. QED
  BY <1>1, <1>4, <1>5 DEF DeliveryInv, OrderInv

LEMMA StepBecomeDue ==
  ASSUME DeliveryTypeOK, DeliveryInv, NEW e \in Deliveries, BecomeDue(e)
  PROVE  DeliveryInv'
<1>1. UNCHANGED <<sent, tries, batch, sending, deaths, calls, received, shared>>
  BY DEF BecomeDue
<1>2. \A q \in Processes : ProcessInv(q)'
  BY <1>1 DEF DeliveryInv, ProcessInv
<1>3. ASSUME NEW d \in Deliveries PROVE DeliveryRowInv(d)'
  <2>1. CountedSend(d)' <=> CountedSend(d)
    BY <1>1 DEF CountedSend, CountedBy, HoldsAt
  <2>. QED
    BY <1>1, <2>1, UntouchedInPlace DEF HoldsAt
<1>4. OrderInv'
  BY DEF BecomeDue, Others, DeliveryInv, OrderInv
<1>. QED
  BY <1>2, <1>3, <1>4 DEF DeliveryInv

LEMMA DeliveryStep ==
  ASSUME DeliveryTypeOK, DeliveryInv, DeliveryNext
  PROVE  DeliveryInv'
<1>1. ASSUME NEW p \in Processes, SaveDelivered(p) PROVE DeliveryInv'
  <2>1. CASE EndDispatch(p, "delivered", FALSE)
    BY <1>1, <2>1, StepEnd DEF SaveDelivered
  <2>2. CASE ~EndDispatch(p, "delivered", FALSE)
    BY <1>1, <2>2, StepRaise DEF SaveDelivered
  <2>. QED
    BY <2>1, <2>2
<1>2. ASSUME NEW p \in Processes, SaveFailure(p) PROVE DeliveryInv'
  <2>1. Busy(p) /\ sending[p] = "raised"
    BY <1>2 DEF SaveFailure
  <2>2. CASE First(p).tries >= MaxAttempts /\ EndDispatch(p, "failed", FALSE)
    BY <2>1, <2>2, StepEnd
  <2>3. CASE EndDispatch(p, "pending", TRUE)
    BY <2>1, <2>3, StepEnd
  <2>. QED
    BY <1>2, <2>2, <2>3 DEF SaveFailure
<1>. QED
  BY <1>1, <1>2, StepNotify, StepQuery, StepCount, StepCall, StepDie, StepBecomeDue
     DEF DeliveryNext, Dispatch

-------------------------------------------------------------------------------
(* Types. *)

LEMMA DeliveryTypeStep ==
  ASSUME DeliveryTypeOK, DeliveryInv, DeliveryNext
  PROVE  DeliveryTypeOK'
<1>. USE DeliveryFacts
<1>0. /\ \A d \in Deliveries : CopyOf(d) \in Copy
      /\ \A d \in Deliveries, n \in 0 .. MaxAttempts : [row |-> d, tries |-> n] \in Copy
  BY DEF CopyOf, Copy
<1>1. ASSUME NEW p \in Processes, NEW d \in Deliveries, Notify(p, d) PROVE DeliveryTypeOK'
  <2>1. <<CopyOf(d)>> \in Seq(Copy)
    BY <1>0
  <2>. QED
    BY <1>1, <2>1 DEF Notify, DeliveryTypeOK
<1>2. ASSUME NEW p \in Processes, Query(p) PROVE DeliveryTypeOK'
  <2>1. PICK n \in 1 .. RetryBatch : \E rows \in [1 .. n -> Retryable] :
          /\ batch' = [batch EXCEPT ![p] = [i \in 1 .. n |-> CopyOf(rows[i])]]
          /\ shared' = shared \cup {d \in Retryable : Held(d) # {} /\ \E i \in 1 .. n : d = rows[i]}
    BY <1>2 DEF Query
  <2>2. PICK rows \in [1 .. n -> Retryable] :
          /\ batch' = [batch EXCEPT ![p] = [i \in 1 .. n |-> CopyOf(rows[i])]]
          /\ shared' = shared \cup {d \in Retryable : Held(d) # {} /\ \E i \in 1 .. n : d = rows[i]}
    BY <2>1
  <2>3. Retryable \subseteq Deliveries
    BY DEF Retryable, DeliveryTypeOK
  <2>4. [i \in 1 .. n |-> CopyOf(rows[i])] \in Seq(Copy)
    BY <1>0, <2>3
  <2>5. batch' \in [Processes -> Seq(Copy)] /\ shared' \subseteq Deliveries
    BY <2>2, <2>3, <2>4 DEF DeliveryTypeOK
  <2>. QED
    BY <1>2, <2>5 DEF Query, DeliveryTypeOK
<1>3. ASSUME NEW p \in Processes, Count(p) PROVE DeliveryTypeOK'
  <2>0. /\ First(p) = batch[p][1] /\ 1 \in 1 .. Len(batch[p]) /\ First(p).row \in Deliveries
        /\ First(p).tries \in 0 .. MaxAttempts /\ First(p) \in Copy
    BY <1>3, FirstFacts DEF Count
  <2>1. First(p).tries + 1 \in 0 .. MaxAttempts
    <3>1. sending[p] = "idle" /\ ProcessInv(p)
      BY <1>3 DEF Count, DeliveryInv
    <3>2. batch[p][1].tries < MaxAttempts
      BY <2>0, <3>1 DEF ProcessInv
    <3>. QED
      BY <2>0, <3>2
  <2>2. [batch[p] EXCEPT ![1] = [batch[p][1] EXCEPT !.tries = @ + 1]] \in Seq(Copy)
    <3>1. [batch[p][1] EXCEPT !.tries = @ + 1] \in Copy
      BY <2>0, <2>1 DEF Copy
    <3>. QED
      BY <2>0, <3>1
  <2>3. batch' = [batch EXCEPT ![p] = [batch[p] EXCEPT ![1] = [batch[p][1] EXCEPT !.tries = @ + 1]]]
    BY <1>3 DEF Count
  <2>4. batch' \in [Processes -> Seq(Copy)]
    BY <2>2, <2>3 DEF DeliveryTypeOK
  <2>. QED
    BY <1>3, <2>0, <2>1, <2>4 DEF Count, DeliveryTypeOK
<1>4. ASSUME NEW p \in Processes, Call(p) PROVE DeliveryTypeOK'
  <2>1. First(p).row \in Deliveries
    BY <1>4, FirstFacts DEF Call
  <2>2. calls' \in [Deliveries -> 0 .. CallBound]
    BY <1>4, <2>1 DEF Call, DeliveryTypeOK
  <2>3. received' \subseteq Deliveries
    BY <1>4, <2>1 DEF Call, DeliveryTypeOK
  <2>4. sending' \in [Processes -> {"idle", "counted", "accepted", "raised"}]
    BY <1>4 DEF Call, DeliveryTypeOK
  <2>. QED
    BY <1>4, <2>2, <2>3, <2>4 DEF Call, DeliveryTypeOK
<1>5. ASSUME NEW p \in Processes, Busy(p), NEW s \in {"pending", "delivered", "failed"},
             NEW retry \in BOOLEAN, EndDispatch(p, s, retry)
      PROVE  DeliveryTypeOK'
  <2>1. First(p).row \in Deliveries /\ Len(batch[p]) > 0
    BY <1>5, FirstFacts
  <2>2. Tail(batch[p]) \in Seq(Copy)
    BY <2>1
  <2>. QED
    BY <1>5, <2>1, <2>2 DEF EndDispatch, DeliveryTypeOK
<1>6. ASSUME NEW p \in Processes, SaveDelivered(p) PROVE DeliveryTypeOK'
  <2>1. CASE EndDispatch(p, "delivered", FALSE)
    BY <1>5, <1>6, <2>1 DEF SaveDelivered
  <2>2. CASE ~EndDispatch(p, "delivered", FALSE)
    BY <1>6, <2>2 DEF SaveDelivered, DeliveryTypeOK
  <2>. QED
    BY <2>1, <2>2
<1>7. ASSUME NEW p \in Processes, SaveFailure(p) PROVE DeliveryTypeOK'
  BY <1>5, <1>7 DEF SaveFailure
<1>8. ASSUME NEW p \in Processes, Die(p) PROVE DeliveryTypeOK'
  <2>1. First(p).row \in Deliveries
    BY <1>8, FirstFacts DEF Die
  <2>. QED
    BY <1>8, <2>1 DEF Die, DeliveryTypeOK
<1>9. ASSUME NEW d \in Deliveries, BecomeDue(d) PROVE DeliveryTypeOK'
  BY <1>9 DEF BecomeDue, Others, DeliveryTypeOK
<1>. QED
  BY <1>1, <1>2, <1>3, <1>4, <1>6, <1>7, <1>8, <1>9 DEF DeliveryNext, Dispatch

LEMMA DeliveryStart == DeliveryInit => DeliveryTypeOK /\ DeliveryInv
<1>. SUFFICES ASSUME DeliveryInit PROVE DeliveryTypeOK /\ DeliveryInv
  OBVIOUS
<1>1. DeliveryTypeOK
  BY DeliveryAssumption DEF DeliveryInit, DeliveryTypeOK, CallBound
<1>2. \A p \in Processes : \A i \in Nat, d \in Deliveries : ~HoldsAt(p, i, d)
  <2>1. \A p \in Processes : batch[p] = <<>>
    BY DEF DeliveryInit
  <2>. QED
    BY <2>1 DEF HoldsAt
<1>3. \A d \in Deliveries : ~CountedSend(d)
  BY <1>2 DEF CountedSend, CountedBy
<1>4. ASSUME NEW p \in Processes PROVE ProcessInv(p)
  BY DEF DeliveryInit, ProcessInv
<1>5. ASSUME NEW d \in Deliveries PROVE DeliveryRowInv(d)
  <2>1. sent[d] = "none" /\ tries[d] = 0 /\ calls[d] = 0 /\ deaths = 0 /\ Num(CountedSend(d)) = 0
    BY <1>3 DEF DeliveryInit, Num
  <2>2. calls[d] + Num(CountedSend(d)) <= tries[d] /\ tries[d] <= calls[d] + Num(CountedSend(d)) + deaths
    BY <2>1
  <2>3. OwnInv(d)
    BY <1>2, <2>1, <2>2 DEF OwnInv
  <2>. QED
    BY <2>1, <2>3 DEF DeliveryRowInv
<1>. QED
  BY <1>1, <1>4, <1>5 DEF DeliveryInv, OrderInv, DeliveryInit

LEMMA DeliveryStutter ==
  ASSUME DeliveryTypeOK, DeliveryInv, UNCHANGED deliveryVars
  PROVE  DeliveryTypeOK' /\ DeliveryInv'
<1>1. DeliveryTypeOK'
  BY DEF deliveryVars, DeliveryTypeOK
<1>2. \A q \in Processes : ProcessInv(q)'
  BY DEF deliveryVars, DeliveryInv, ProcessInv
<1>3. ASSUME NEW d \in Deliveries PROVE DeliveryRowInv(d)'
  <2>1. CountedSend(d)' <=> CountedSend(d)
    BY DEF deliveryVars, CountedSend, CountedBy, HoldsAt
  <2>. QED
    BY <2>1, UntouchedInPlace DEF deliveryVars, HoldsAt
<1>. QED
  BY <1>1, <1>2, <1>3 DEF deliveryVars, DeliveryInv, OrderInv

\* A failed row has no copy left, so nothing of it is counted and not called.
LEMMA DeliveryImplies == DeliveryTypeOK /\ DeliveryInv => DeliveryIsHonest
<1>. SUFFICES ASSUME DeliveryTypeOK, DeliveryInv, NEW d \in Deliveries
     PROVE  /\ d \notin shared => calls[d] <= MaxAttempts
            /\ sent[d] = "delivered" => d \in received
            /\ sent[d] = "failed" /\ d \notin shared => calls[d] + deaths >= MaxAttempts
  BY DEF DeliveryIsHonest, AttemptsBounded, VerdictIsTrue
<1>1. DeliveryRowInv(d)
  BY DEF DeliveryInv
<1>2. ASSUME d \notin shared PROVE calls[d] <= MaxAttempts
  BY <1>1, <1>2, DeliveryFacts DEF DeliveryRowInv, OwnInv, Num
<1>3. ASSUME sent[d] = "failed", d \notin shared PROVE calls[d] + deaths >= MaxAttempts
  <2>1. ~CountedSend(d)
    BY <1>1, <1>3 DEF DeliveryRowInv, OwnInv, CountedSend, CountedBy
  <2>. QED
    BY <1>1, <1>3, <2>1, DeliveryFacts DEF DeliveryRowInv, OwnInv, Num
<1>. QED
  BY <1>1, <1>2, <1>3 DEF DeliveryRowInv

-------------------------------------------------------------------------------
(* The theorem. *)

\* DeliveryIsHonest: a row that no two sweeps held at once is sent at most
\* MAX_RETRY_ATTEMPTS times, and what it says happened: a delivered one reached
\* the user, a failed one was tried as often, but for the attempts that died.
THEOREM DeliveryTellsTruth == DeliverySpec => []DeliveryIsHonest
<1>1. DeliveryTypeOK /\ DeliveryInv /\ [DeliveryNext]_deliveryVars => (DeliveryTypeOK /\ DeliveryInv)'
  BY DeliveryTypeStep, DeliveryStep, DeliveryStutter
<1>. QED
  BY <1>1, DeliveryStart, DeliveryImplies, PTL DEF DeliverySpec

---------------------------------------------------------------------------------
(* OrgDeletion. *)

\* What the task saw still stands, while it is about to delete the organisation.
LookedAtStands ==
  purge.step = "delete" /\ org = "there" => late \/ (due # 0 /\ due <= today)

\* A request that is open began in time.
OpenInTime == \A o \in Owners : asking[o] # "idle" => today <= LastDay

OrgInv == OrgTypeOK /\ OpenInTime /\ LookedAtStands

Purges == [step : {"idle", "delete", "settle"}, task : SUBSET (1 .. End)]

LEMMA OrgFacts ==
  /\ End \in Nat /\ LastDay \in Nat /\ Grace \in Nat \ {0} /\ MaxOrgDeaths \in Nat
  /\ End = LastDay + Grace /\ 1 \in 1 .. End
  /\ NoPurge \in Purges /\ NoPurge.step = "idle"
<1>1. End = LastDay + Grace /\ LastDay \in Nat /\ Grace \in Nat \ {0} /\ MaxOrgDeaths \in Nat
  BY OrgAssumption DEF End
<1>2. End \in Nat /\ 1 \in 1 .. End
  BY <1>1
<1>3. NoPurge \in Purges /\ NoPurge.step = "idle"
  BY DEF NoPurge, Purges
<1> QED  BY <1>1, <1>2, <1>3

LEMMA OrgStarts == OrgInit => OrgInv
<1> SUFFICES ASSUME OrgInit PROVE OrgInv
  OBVIOUS
<1>1. /\ org = "there" /\ due = 0 /\ queued = {} /\ today = 1 /\ purge = NoPurge
      /\ limbo = {} /\ orgDeaths = 0 /\ late = FALSE
      /\ asking \in [Owners -> {"idle"}]
  BY DEF OrgInit
<1>2. due \in 0 .. End /\ today \in 1 .. End /\ orgDeaths \in 0 .. MaxOrgDeaths
  BY <1>1, OrgFacts
<1>3. OrgTypeOK
  BY <1>1, <1>2, OrgFacts DEF OrgTypeOK, Purges
<1>4. OpenInTime /\ LookedAtStands
  BY <1>1, OrgFacts DEF OpenInTime, LookedAtStands
<1> QED  BY <1>3, <1>4 DEF OrgInv

\* An owner's change of mind.
LEMMA MindKeeps ==
  ASSUME OrgInv, NEW o \in Owners, NEW to \in {"idle", "enqueue"},
         asking[o] # "idle" \/ today <= LastDay,
         asking' = [asking EXCEPT ![o] = to],
         due' \in 0 .. End, Overtakes,
         UNCHANGED <<org, queued, today, purge, limbo, orgDeaths>>
  PROVE  OrgInv'
<1>0. OrgTypeOK /\ OpenInTime
  BY DEF OrgInv
<1>1. late' \in BOOLEAN /\ (purge.step = "delete" => late')
  BY <1>0 DEF OrgTypeOK, Overtakes
<1>2. asking' \in [Owners -> {"idle", "enqueue", "clear", "delete", "settle"}]
  BY <1>0 DEF OrgTypeOK
<1>3. OrgTypeOK'
  BY <1>0, <1>1, <1>2 DEF OrgTypeOK
<1>4. OpenInTime'
  BY <1>0 DEF OrgTypeOK, OpenInTime
<1>5. LookedAtStands'
  BY <1>1 DEF LookedAtStands
<1> QED  BY <1>3, <1>4, <1>5 DEF OrgInv

\* An owner's request that leaves the dates alone.
LEMMA AskKeeps ==
  ASSUME OrgInv, NEW o \in Owners, NEW to \in {"idle", "clear", "delete", "settle"},
         asking[o] # "idle" \/ today <= LastDay,
         asking' = [asking EXCEPT ![o] = to],
         queued' \subseteq 1 .. End, org' \in {org, "gone"}, limbo' \subseteq Members,
         UNCHANGED <<due, today, purge, orgDeaths, late>>
  PROVE  OrgInv'
<1>0. OrgTypeOK /\ OpenInTime
  BY DEF OrgInv
<1>1. asking' \in [Owners -> {"idle", "enqueue", "clear", "delete", "settle"}]
  BY <1>0 DEF OrgTypeOK
<1>2. OrgTypeOK'
  BY <1>0, <1>1 DEF OrgTypeOK
<1>3. OpenInTime'
  BY <1>0 DEF OrgTypeOK, OpenInTime
<1>4. LookedAtStands'
  BY DEF OrgInv, LookedAtStands
<1> QED  BY <1>2, <1>3, <1>4 DEF OrgInv

\* The task, which leaves the owners' requests alone.
LEMMA TaskKeeps ==
  ASSUME OrgInv, purge' \in Purges,
         queued' \subseteq queued, org' \in {org, "gone"}, limbo' \subseteq Members,
         late' \in BOOLEAN, orgDeaths' \in 0 .. MaxOrgDeaths,
         UNCHANGED <<due, today, asking>>,
         purge'.step = "delete" /\ org' = "there" => late' \/ (due # 0 /\ due <= today)
  PROVE  OrgInv'
<1>0. OrgTypeOK /\ OpenInTime
  BY DEF OrgInv
<1>1. queued' \subseteq 1 .. End
  BY <1>0 DEF OrgTypeOK
<1>2. OrgTypeOK'
  BY <1>0, <1>1 DEF OrgTypeOK, Purges
<1>3. OpenInTime'
  BY <1>0 DEF OpenInTime
<1>4. LookedAtStands'
  BY DEF LookedAtStands
<1> QED  BY <1>2, <1>3, <1>4 DEF OrgInv

LEMMA OrgStep == OrgInv /\ [OrgNext]_orgVars => OrgInv'
<1> SUFFICES ASSUME OrgInv, [OrgNext]_orgVars PROVE OrgInv'
  OBVIOUS
<1>0. OrgTypeOK /\ OpenInTime /\ LookedAtStands
  BY DEF OrgInv
<1>1. CASE UNCHANGED orgVars
  BY <1>0, <1>1 DEF orgVars, OrgInv, OrgTypeOK, OpenInTime, LookedAtStands
<1>2. ASSUME NEW o \in Owners, ScheduleDeletion(o) PROVE OrgInv'
  <2>1. /\ today < LastDay /\ due' = today + Grace /\ asking' = [asking EXCEPT ![o] = "enqueue"]
        /\ Overtakes /\ UNCHANGED <<org, queued, today, purge, limbo, orgDeaths>>
    BY <1>2 DEF ScheduleDeletion
  <2>2. due' \in 0 .. End /\ today <= LastDay
    BY <1>0, <2>1, OrgFacts DEF OrgTypeOK
  <2> QED  BY <2>1, <2>2, MindKeeps
<1>3. ASSUME NEW o \in Owners, EnqueueTask(o) PROVE OrgInv'
  <2>1. /\ asking[o] = "enqueue" /\ queued' = queued \cup {today + Grace}
        /\ asking' = [asking EXCEPT ![o] = "idle"]
        /\ UNCHANGED <<org, due, today, purge, limbo, orgDeaths, late>>
    BY <1>3 DEF EnqueueTask
  <2>2. today <= LastDay
    BY <1>0, <2>1 DEF OpenInTime
  <2>3. today + Grace \in 1 .. End
    BY <1>0, <2>2, OrgFacts DEF OrgTypeOK
  <2>4. queued' \subseteq 1 .. End /\ limbo' \subseteq Members
    BY <1>0, <2>1, <2>3 DEF OrgTypeOK
  <2> QED  BY <2>1, <2>2, <2>4, AskKeeps
<1>4. ASSUME NEW o \in Owners, CancelDeletion(o) PROVE OrgInv'
  <2>1. /\ today < LastDay /\ queued' = {} /\ asking' = [asking EXCEPT ![o] = "clear"]
        /\ UNCHANGED <<org, due, today, purge, limbo, orgDeaths, late>>
    BY <1>4 DEF CancelDeletion
  <2>2. today <= LastDay /\ limbo' \subseteq Members /\ queued' \subseteq 1 .. End
    BY <1>0, <2>1, OrgFacts DEF OrgTypeOK
  <2> QED  BY <2>1, <2>2, AskKeeps
<1>5. ASSUME NEW o \in Owners, ClearDates(o) PROVE OrgInv'
  <2>1. /\ asking[o] = "clear" /\ due' = 0 /\ asking' = [asking EXCEPT ![o] = "idle"]
        /\ Overtakes /\ UNCHANGED <<org, queued, today, purge, limbo, orgDeaths>>
    BY <1>5 DEF ClearDates
  <2>2. due' \in 0 .. End
    BY <2>1, OrgFacts
  <2> QED  BY <2>1, <2>2, MindKeeps
<1>6. ASSUME NEW o \in Owners, DeleteNow(o) PROVE OrgInv'
  <2>1. PICK to \in {"idle", "delete", "settle"} :
          /\ asking' = [asking EXCEPT ![o] = to]
          /\ asking[o] # "idle" \/ today < LastDay
    BY <1>6 DEF DeleteNow
  <2>2. /\ org' \in {org, "gone"} /\ limbo' \in {limbo, Members} /\ queued' \in {queued, {}}
        /\ UNCHANGED <<due, today, purge, orgDeaths, late>>
    BY <1>6 DEF DeleteNow, HardDelete
  <2>3. limbo' \subseteq Members /\ queued' \subseteq 1 .. End
    BY <1>0, <2>2 DEF OrgTypeOK
  <2>4. asking[o] # "idle" \/ today <= LastDay
    BY <1>0, <2>1, OrgFacts DEF OrgTypeOK
  <2> QED  BY <2>1, <2>2, <2>3, <2>4, AskKeeps
<1>7. CASE RunTask
  <2>1. PICK t \in queued :
          \/ /\ org = "there" /\ due # 0 /\ due <= today
             /\ purge' = [step |-> "delete", task |-> {t}] /\ UNCHANGED queued
          \/ queued' = queued \ {t} /\ UNCHANGED purge
    BY <1>7 DEF RunTask, RunWhen
  <2>2. /\ purge = NoPurge /\ late' = FALSE
        /\ UNCHANGED <<org, due, today, asking, limbo, orgDeaths>>
    BY <1>7 DEF RunTask, RunWhen
  <2>3. /\ purge' \in Purges /\ queued' \subseteq queued
        /\ purge'.step = "delete" => due # 0 /\ due <= today
    <3>1. t \in 1 .. End
      BY <1>0 DEF OrgTypeOK
    <3>2. CASE purge' = [step |-> "delete", task |-> {t}] /\ UNCHANGED queued /\ due # 0 /\ due <= today
      BY <3>1, <3>2 DEF Purges
    <3>3. CASE queued' = queued \ {t} /\ UNCHANGED purge
      BY <2>2, <3>3, OrgFacts
    <3> QED  BY <2>1, <3>2, <3>3
  <2> QED  BY <1>0, <2>2, <2>3, TaskKeeps DEF OrgTypeOK
<1>8. CASE PurgeOrg
  <2>1. /\ org' = "gone" /\ limbo' \in {limbo, Members} /\ purge' = [purge EXCEPT !.step = "settle"]
        /\ UNCHANGED <<due, queued, today, asking, orgDeaths, late>>
    BY <1>8 DEF PurgeOrg, HardDelete
  <2>2. purge' \in Purges /\ limbo' \subseteq Members
    BY <1>0, <2>1 DEF OrgTypeOK, Purges
  <2> QED  BY <1>0, <2>1, <2>2, TaskKeeps DEF OrgTypeOK
<1>9. CASE SettleMember
  <2>1. /\ limbo' \subseteq limbo
        /\ UNCHANGED <<org, due, queued, today, asking, purge, orgDeaths, late>>
    BY <1>9 DEF SettleMember
  <2>2. purge' \in Purges /\ limbo' \subseteq Members
    BY <1>0, <2>1 DEF OrgTypeOK, Purges
  <2> QED  BY <1>0, <2>1, <2>2, TaskKeeps DEF OrgTypeOK, LookedAtStands
<1>10. CASE EndTask
  <2>1. /\ queued' = queued \ purge.task /\ purge' = NoPurge
        /\ UNCHANGED <<org, due, today, asking, limbo, orgDeaths, late>>
    BY <1>10 DEF EndTask
  <2> QED  BY <1>0, <2>1, OrgFacts, TaskKeeps DEF OrgTypeOK
<1>11. CASE Dies
  <2>1. /\ orgDeaths < MaxOrgDeaths /\ orgDeaths' = orgDeaths + 1
        /\ UNCHANGED <<org, due, queued, today, limbo, late>>
    BY <1>11 DEF Dies
  <2>2. orgDeaths' \in 0 .. MaxOrgDeaths
    BY <1>0, <2>1, OrgFacts DEF OrgTypeOK
  <2>3. ASSUME NEW o \in Owners, asking[o] # "idle", asking' = [asking EXCEPT ![o] = "idle"],
               UNCHANGED purge
        PROVE  OrgInv'
    <3>1. asking' \in [Owners -> {"idle", "enqueue", "clear", "delete", "settle"}]
      BY <1>0, <2>3 DEF OrgTypeOK
    <3>2. OrgTypeOK'
      BY <1>0, <2>1, <2>2, <2>3, <3>1 DEF OrgTypeOK
    <3>3. OpenInTime' /\ LookedAtStands'
      BY <1>0, <2>1, <2>3 DEF OrgTypeOK, OpenInTime, LookedAtStands
    <3> QED  BY <3>2, <3>3 DEF OrgInv
  <2>4. CASE purge' = NoPurge /\ UNCHANGED asking
    BY <1>0, <2>1, <2>2, <2>4, OrgFacts, TaskKeeps DEF OrgTypeOK
  <2> QED  BY <1>11, <2>3, <2>4 DEF Dies
<1>12. CASE DayPasses
  <2>1. /\ today < End /\ today' = today + 1
        /\ today < LastDay \/ \A o \in Owners : asking[o] = "idle"
        /\ UNCHANGED <<org, due, queued, asking, purge, limbo, orgDeaths, late>>
    BY <1>12 DEF DayPasses
  <2>2. today' \in 1 .. End /\ due \in Nat /\ today \in Nat
    BY <1>0, <2>1, OrgFacts DEF OrgTypeOK
  <2>3. OrgTypeOK'
    BY <1>0, <2>1, <2>2 DEF OrgTypeOK
  <2>4. OpenInTime'
    BY <1>0, <2>1, <2>2, OrgFacts DEF OpenInTime
  <2>5. LookedAtStands'
    BY <1>0, <2>1, <2>2 DEF LookedAtStands
  <2> QED  BY <2>3, <2>4, <2>5 DEF OrgInv
<1> QED  BY <1>1, <1>2, <1>3, <1>4, <1>5, <1>6, <1>7, <1>8, <1>9, <1>10, <1>11, <1>12
         DEF OrgNext, OwnerStep, PurgeStep

\* The task deletes the organisation with a request that has stood for its whole
\* grace period, unless the owners changed their mind after it had looked.
THEOREM DeletionStands == OrgSpec => DeletesWhatStands
<1>1. OrgSpec => []OrgInv
  BY OrgStarts, OrgStep, PTL DEF OrgSpec
<1>2. OrgInv => (purge.step = "delete" /\ org = "there" => late \/ (due # 0 /\ due <= today))
  BY DEF OrgInv, LookedAtStands
<1>3. OrgInv /\ [OrgNext]_orgVars
        => [purge.step = "delete" /\ org = "there" /\ purge'.step = "settle"
              => late \/ (due # 0 /\ due <= today)]_orgVars
  BY <1>2
<1> QED  BY <1>1, <1>3, PTL DEF OrgSpec, DeletesWhatStands

---------------------------------------------------------------------------------
(* AccountTokens. *)

\* The three tokens of a row, or of a copy, are of one grant of the first n.
Whole(c, n) == c \in AccountRow /\ c.access = c.refresh /\ c.expiry = c.refresh /\ c.refresh <= n

\* The platform takes the latest refresh token or none.
LatestIsLive == live \in {0, minted} /\ (live = 0 => strayed # {})

TokensInv ==
  /\ AccountTypeOK
  /\ Whole(account, minted)
  /\ \A h \in Holders : Whole(holder[h].copy, minted)
  /\ LatestIsLive
  /\ StoredGrantIsLive

Carries(h) == holder[h].step \in {"profile", "save"} /\ holder[h].copy.refresh = live

LEMMA OfGrantIsWhole ==
  ASSUME NEW g \in Grants, NEW shown \in ConnectionStatus
  PROVE  Whole(OfGrant(g, shown), g) /\ OfGrant(g, shown).refresh = g
<1>1. OfGrant(g, shown) \in AccountRow
  BY DEF OfGrant, AccountRow
<1>2. /\ OfGrant(g, shown).access = g /\ OfGrant(g, shown).refresh = g /\ OfGrant(g, shown).expiry = g
      /\ g <= g
  BY DEF OfGrant, Grants
<1> QED  BY <1>1, <1>2 DEF Whole

LEMMA AccountFacts ==
  /\ MaxGrants \in Nat \ {0} /\ MaxFailures \in Nat /\ 1 \in Grants
  /\ AtEase = [step |-> "idle", copy |-> AtEase.copy]
  /\ \A n \in Grants : Whole(AtEase.copy, n)
<1>1. MaxGrants \in Nat \ {0} /\ MaxFailures \in Nat /\ 1 \in Grants
  BY AccountAssumption DEF Grants
<1>2. AtEase.copy = OfGrant(1, "connected")
  BY DEF AtEase
<1>3. AtEase = [step |-> "idle", copy |-> AtEase.copy]
  BY <1>2 DEF AtEase
<1>4. Whole(AtEase.copy, 1)
  BY <1>1, <1>2, OfGrantIsWhole DEF ConnectionStatus
<1>5. ASSUME NEW n \in Grants PROVE Whole(AtEase.copy, n)
  <2>1. AtEase.copy.refresh \in Grants /\ AtEase.copy.refresh <= 1
    BY <1>4 DEF Whole, AccountRow
  <2>2. AtEase.copy.refresh <= n
    BY <1>1, <2>1 DEF Grants
  <2> QED  BY <1>4, <2>2 DEF Whole
<1> QED  BY <1>1, <1>3, <1>5

LEMMA WholeGrows ==
  ASSUME NEW c, NEW m \in Nat, NEW n \in Nat, m <= n, Whole(c, m)
  PROVE  Whole(c, n)
<1>1. c.refresh \in Nat
  BY AccountFacts DEF Whole, AccountRow, Grants
<1> QED  BY <1>1 DEF Whole

\* Another status makes no other grant.
LEMMA StatusKeepsWhole ==
  ASSUME NEW c, NEW n, Whole(c, n), NEW shown \in ConnectionStatus
  PROVE  Whole([c EXCEPT !.status = shown], n) /\ [c EXCEPT !.status = shown].refresh = c.refresh
BY DEF Whole, AccountRow

LEMMA HolderSets ==
  ASSUME AccountTypeOK, NEW h \in Holders, NEW to \in HolderSteps, NEW copy,
         NEW n \in Nat, minted <= n, Whole(copy, n), Continue(h, to, copy),
         \A g \in Holders : Whole(holder[g].copy, minted)
  PROVE  /\ holder' \in [Holders -> [step : HolderSteps, copy : AccountRow]]
         /\ \A g \in Holders : Whole(holder'[g].copy, n)
         /\ holder'[h].step = to /\ holder'[h].copy = copy
         /\ \A g \in Holders \ {h} : holder'[g] = holder[g]
<1>1. holder' = [holder EXCEPT ![h] = [step |-> to, copy |-> copy]]
  BY DEF Continue
<1>2. [step |-> to, copy |-> copy] \in [step : HolderSteps, copy : AccountRow]
  BY DEF Whole
<1>3. holder' \in [Holders -> [step : HolderSteps, copy : AccountRow]]
  BY <1>1, <1>2 DEF AccountTypeOK
<1>4. /\ holder'[h].step = to /\ holder'[h].copy = copy
      /\ \A g \in Holders \ {h} : holder'[g] = holder[g]
  BY <1>1 DEF AccountTypeOK
<1>5. minted \in Nat
  BY AccountFacts DEF AccountTypeOK, Grants
<1>6. \A g \in Holders : Whole(holder'[g].copy, n)
  BY <1>4, <1>5, WholeGrows
<1> QED  BY <1>3, <1>4, <1>6

\* A check or an attempt goes on, fails or dies: what it carries to the row it
\* still carries, or the history says that it is lost.
LEMMA MoveKeeps ==
  ASSUME TokensInv, NEW h \in Holders, NEW to \in HolderSteps, NEW copy,
         Whole(copy, minted), Continue(h, to, copy),
         UNCHANGED <<account, minted, live, soon, stale>>,
         failures' \in 0 .. MaxFailures,
         strayed' \subseteq {"overlap", "lost", "revoked"}, strayed \subseteq strayed',
         Carries(h) => \/ to \in {"profile", "save"} /\ copy.refresh = holder[h].copy.refresh
                       \/ account.refresh = live \/ strayed' # {}
  PROVE  TokensInv'
<1>0. /\ AccountTypeOK /\ LatestIsLive /\ StoredGrantIsLive /\ Whole(account, minted)
      /\ \A g \in Holders : Whole(holder[g].copy, minted)
  BY DEF TokensInv
<1>1. minted \in Nat /\ minted <= minted
  BY <1>0, AccountFacts DEF AccountTypeOK, Grants
<1>2. /\ holder' \in [Holders -> [step : HolderSteps, copy : AccountRow]]
      /\ \A g \in Holders : Whole(holder'[g].copy, minted)
      /\ holder'[h].step = to /\ holder'[h].copy = copy
      /\ \A g \in Holders \ {h} : holder'[g] = holder[g]
  BY <1>0, <1>1, HolderSets
<1>3. AccountTypeOK'
  BY <1>0, <1>2 DEF AccountTypeOK
<1>4. LatestIsLive'
  BY <1>0 DEF LatestIsLive
<1>5. account.refresh = live \/ strayed' # {} \/ \E g \in Holders : Carries(g)'
  <2>1. ASSUME account.refresh # live, strayed' = {}
        PROVE  \E g \in Holders : Carries(g)'
    <3>1. PICK g \in Holders : Carries(g)
      BY <1>0, <2>1 DEF StoredGrantIsLive, Carries
    <3>2. CASE g = h
      BY <1>2, <2>1, <3>1, <3>2 DEF Carries
    <3>3. CASE g # h
      BY <1>2, <3>1, <3>3 DEF Carries
    <3> QED  BY <3>2, <3>3
  <2> QED  BY <2>1
<1>6. StoredGrantIsLive'
  BY <1>0, <1>5 DEF StoredGrantIsLive, Carries
<1> QED  BY <1>0, <1>2, <1>3, <1>4, <1>6 DEF TokensInv

\* A refresh mints the next grant, and the one who asked has it, or it is lost.
LEMMA MintKeeps ==
  ASSUME TokensInv, NEW h \in Holders, NEW to \in HolderSteps, NEW copy,
         minted < MaxGrants, minted' = minted + 1, live' = minted',
         Whole(copy, minted'), Continue(h, to, copy),
         UNCHANGED <<account, soon, stale>>,
         failures' \in 0 .. MaxFailures,
         strayed' \subseteq {"overlap", "lost", "revoked"},
         \/ strayed' # {}
         \/ to \in {"profile", "save"} /\ copy.refresh = live'
  PROVE  TokensInv'
<1>0. /\ AccountTypeOK /\ StoredGrantIsLive /\ Whole(account, minted)
      /\ \A g \in Holders : Whole(holder[g].copy, minted)
  BY DEF TokensInv
<1>1. minted \in Nat /\ minted' \in Grants /\ minted' \in Nat /\ minted <= minted' /\ minted' # 0
  BY <1>0, AccountFacts DEF AccountTypeOK, Grants
<1>2. /\ holder' \in [Holders -> [step : HolderSteps, copy : AccountRow]]
      /\ \A g \in Holders : Whole(holder'[g].copy, minted')
      /\ holder'[h].step = to /\ holder'[h].copy = copy
  BY <1>0, <1>1, HolderSets
<1>3. Whole(account, minted')
  BY <1>0, <1>1, WholeGrows
<1>4. live' \in 0 .. minted'
  BY <1>1
<1>5. AccountTypeOK'
  BY <1>0, <1>1, <1>2, <1>4 DEF AccountTypeOK
<1>6. LatestIsLive'
  BY <1>1 DEF LatestIsLive
<1>7. StoredGrantIsLive'
  BY <1>0, <1>2 DEF StoredGrantIsLive
<1> QED  BY <1>2, <1>3, <1>5, <1>6, <1>7 DEF TokensInv

\* A check or an attempt writes its copy.
LEMMA StoreKeeps ==
  ASSUME TokensInv, NEW h \in Holders, holder[h].step = "save",
         Store(holder[h].copy), Leaves(h), UNCHANGED <<minted, live, soon, stale, failures>>
  PROVE  TokensInv'
<1> DEFINE c == holder[h].copy
<1>0. /\ AccountTypeOK /\ LatestIsLive /\ StoredGrantIsLive /\ Whole(account, minted)
      /\ \A g \in Holders : Whole(holder[g].copy, minted)
  BY DEF TokensInv
<1>1. minted \in Nat /\ minted <= minted /\ minted \in Grants
  BY <1>0, AccountFacts DEF AccountTypeOK, Grants
<1>2. Continue(h, "idle", AtEase.copy) /\ "idle" \in HolderSteps
  BY AccountFacts DEF Continue, Leaves, HolderSteps
<1>3. /\ holder' \in [Holders -> [step : HolderSteps, copy : AccountRow]]
      /\ \A g \in Holders : Whole(holder'[g].copy, minted)
      /\ \A g \in Holders \ {h} : holder'[g] = holder[g]
  BY <1>0, <1>1, <1>2, AccountFacts, HolderSets
<1>4. account' = c /\ strayed' = IF c.refresh < account.refresh THEN strayed \cup {"overlap"} ELSE strayed
  BY DEF Store
<1>5. Whole(account', minted) /\ account' \in AccountRow
  BY <1>0, <1>4 DEF Whole
<1>6. AccountTypeOK'
  BY <1>0, <1>3, <1>4, <1>5 DEF AccountTypeOK
<1>7. LatestIsLive'
  BY <1>0, <1>4 DEF LatestIsLive
<1>8. /\ c.refresh \in Nat /\ account.refresh \in Nat
      /\ c.refresh <= minted /\ account.refresh <= minted
  BY <1>0, AccountFacts DEF Whole, AccountRow, Grants
<1>9. account'.refresh = live \/ strayed' # {} \/ \E g \in Holders : Carries(g)'
  <2>1. ASSUME strayed' = {}, account'.refresh # live
        PROVE  \E g \in Holders : Carries(g)'
    <3>1. strayed = {} /\ c.refresh >= account.refresh
      BY <1>4, <1>8, <2>1
    <3>2. live = minted
      BY <1>0, <3>1 DEF LatestIsLive
    <3>3. account.refresh # live
      BY <1>4, <1>8, <2>1, <3>1, <3>2
    <3>4. PICK g \in Holders : Carries(g)
      BY <1>0, <3>1, <3>3 DEF StoredGrantIsLive, Carries
    <3>5. g # h
      BY <1>4, <2>1, <3>4 DEF Carries
    <3> QED  BY <1>3, <3>4, <3>5 DEF Carries
  <2> QED  BY <2>1
<1>10. StoredGrantIsLive'
  BY <1>5, <1>9 DEF StoredGrantIsLive, Carries, Whole
<1> QED  BY <1>3, <1>5, <1>6, <1>7, <1>10 DEF TokensInv

LEMMA TokensStart == AccountInit => TokensInv
<1> SUFFICES ASSUME AccountInit PROVE TokensInv
  OBVIOUS
<1>1. /\ account = OfGrant(1, "connected") /\ minted = 1 /\ live = 1 /\ soon = {} /\ stale = {}
      /\ failures = 0 /\ strayed = {} /\ holder = [h \in Holders |-> AtEase]
  BY DEF AccountInit
<1>2. Whole(account, minted) /\ account.refresh = live
  BY <1>1, AccountFacts, OfGrantIsWhole DEF ConnectionStatus
<1>3. \A h \in Holders : Whole(holder[h].copy, minted)
  BY <1>1, AccountFacts
<1>4. AtEase \in [step : HolderSteps, copy : AccountRow]
  BY AccountFacts DEF Whole, HolderSteps
<1>5. AccountTypeOK
  <2>1. failures \in 0 .. MaxFailures /\ live \in 0 .. minted /\ minted \in Grants
    BY <1>1, AccountFacts
  <2>2. holder \in [Holders -> [step : HolderSteps, copy : AccountRow]]
    BY <1>1, <1>4
  <2> QED  BY <1>1, <1>2, <2>1, <2>2 DEF AccountTypeOK, Whole
<1>6. LatestIsLive
  BY <1>1 DEF LatestIsLive
<1>7. StoredGrantIsLive
  BY <1>2 DEF StoredGrantIsLive, Whole
<1> QED  BY <1>2, <1>3, <1>5, <1>6, <1>7 DEF TokensInv

\* A refresh that comes to nothing, and one whose answer arrives.
LEMMA RefreshKeeps ==
  ASSUME TokensInv, NEW h \in Holders, holder[h].step = "refresh",
         UNCHANGED <<account, soon, stale>>,
         NEW answered \in {"profile", "save"}, NEW to \in HolderSteps, NEW copy, Whole(copy, minted),
         \/ MintAnswered(holder[h].copy.refresh) /\ Continue(h, answered, OfGrant(live', "connected"))
         \/ RefreshFails(holder[h].copy.refresh) /\ Continue(h, to, copy)
  PROVE  TokensInv'
<1>0. AccountTypeOK
  BY DEF TokensInv
<1>1. ~Carries(h)
  BY DEF Carries
<1>2. /\ failures \in 0 .. MaxFailures /\ strayed \subseteq {"overlap", "lost", "revoked"}
      /\ strayed \cup {"lost"} \subseteq {"overlap", "lost", "revoked"}
      /\ minted \in Nat /\ failures \in Nat
  BY <1>0, AccountFacts DEF AccountTypeOK, Grants
<1>3. FailsAtWill => failures' \in 0 .. MaxFailures
  BY <1>2, AccountFacts DEF FailsAtWill
<1>4. CASE MintAnswered(holder[h].copy.refresh) /\ Continue(h, answered, OfGrant(live', "connected"))
  <2>1. /\ minted < MaxGrants /\ minted' = minted + 1 /\ live' = minted'
        /\ UNCHANGED <<failures, strayed>>
    BY <1>4 DEF MintAnswered, Mint
  <2>2. live' \in Grants /\ answered \in HolderSteps
    BY <1>2, <2>1, AccountFacts DEF Grants, HolderSteps
  <2>3. Whole(OfGrant(live', "connected"), minted') /\ OfGrant(live', "connected").refresh = live'
    BY <2>1, <2>2, OfGrantIsWhole DEF ConnectionStatus
  <2> QED  BY <1>2, <1>4, <2>1, <2>2, <2>3, MintKeeps
<1>5. CASE RefreshFails(holder[h].copy.refresh) /\ Continue(h, to, copy)
  <2>1. CASE UNCHANGED <<minted, live, strayed>> /\ (UNCHANGED failures \/ FailsAtWill)
    <3>1. failures' \in 0 .. MaxFailures
      BY <1>2, <1>3, <2>1
    <3> QED  BY <1>1, <1>2, <1>5, <2>1, <3>1, MoveKeeps
  <2>2. CASE Mint(holder[h].copy.refresh) /\ FailsAtWill /\ strayed' = strayed \cup {"lost"}
    <3>1. /\ minted < MaxGrants /\ minted' = minted + 1 /\ live' = minted'
          /\ failures' \in 0 .. MaxFailures /\ strayed' # {}
          /\ strayed' \subseteq {"overlap", "lost", "revoked"}
      BY <1>2, <1>3, <2>2 DEF Mint
    <3>2. Whole(copy, minted')
      BY <1>2, <3>1, WholeGrows
    <3> QED  BY <1>5, <3>1, <3>2, MintKeeps
  <2> QED  BY <1>5, <2>1, <2>2 DEF RefreshFails
<1> QED  BY <1>4, <1>5

LEMMA TokensStep == TokensInv /\ [AccountNext]_accountVars => TokensInv'
<1> SUFFICES ASSUME TokensInv, [AccountNext]_accountVars PROVE TokensInv'
  OBVIOUS
<1>0. /\ AccountTypeOK /\ LatestIsLive /\ StoredGrantIsLive /\ Whole(account, minted)
      /\ \A g \in Holders : Whole(holder[g].copy, minted)
  BY DEF TokensInv
<1>a. /\ failures \in 0 .. MaxFailures /\ strayed \subseteq {"overlap", "lost", "revoked"}
      /\ minted \in Grants /\ minted \in Nat /\ failures \in Nat
      /\ Checks \subseteq Holders /\ Engines \subseteq Holders
  BY <1>0, AccountFacts DEF AccountTypeOK, Grants, Holders
<1>b. Whole(AtEase.copy, minted)
  BY <1>a, AccountFacts
<1>c. FailsAtWill => failures' \in 0 .. MaxFailures
  BY <1>a, AccountFacts DEF FailsAtWill
<1>d. \A h \in Holders : Leaves(h) => Continue(h, "idle", AtEase.copy)
  BY AccountFacts DEF Leaves, Continue
<1>e. HolderSteps = {"idle", "scheduled", "refresh", "profile", "save"}
  BY DEF HolderSteps
<1>1. CASE UNCHANGED accountVars
  BY <1>0, <1>1 DEF accountVars, TokensInv, AccountTypeOK, LatestIsLive, StoredGrantIsLive
<1>2. ASSUME NEW h \in Holders, ScheduleCheck(h) PROVE TokensInv'
  BY <1>2, <1>a, <1>b, <1>e, MoveKeeps DEF ScheduleCheck, Carries
<1>3. ASSUME NEW h \in Holders, LoadForCheck(h) PROVE TokensInv'
  <2>1. PICK to \in {"refresh", "profile"} : Continue(h, to, account)
    BY <1>3 DEF LoadForCheck
  <2> QED  BY <1>0, <1>3, <1>a, <1>e, <2>1, MoveKeeps DEF LoadForCheck, Carries
<1>4. ASSUME NEW h \in Holders, RefreshInCheck(h) PROVE TokensInv'
  <2> DEFINE c == [holder[h].copy EXCEPT !.status = "token_expiring"]
  <2>1. Whole(c, minted)
    BY <1>0, StatusKeepsWhole DEF ConnectionStatus
  <2>2. /\ holder[h].step = "refresh" /\ UNCHANGED <<account, soon, stale>>
        /\ \/ MintAnswered(holder[h].copy.refresh) /\ Continue(h, "profile", OfGrant(live', "connected"))
           \/ RefreshFails(holder[h].copy.refresh) /\ Continue(h, "profile", c)
    BY <1>4 DEF RefreshInCheck
  <2> HIDE DEF c
  <2> QED  BY <1>e, <2>1, <2>2, RefreshKeeps
<1>5. ASSUME NEW h \in Holders, Validate(h) PROVE TokensInv'
  <2>1. /\ holder[h].step = "profile" /\ UNCHANGED <<account, minted, live, soon, stale, strayed>>
        /\ UNCHANGED failures \/ FailsAtWill
    BY <1>5 DEF Validate
  <2>2. PICK shown \in ConnectionStatus :
          Continue(h, "save", [holder[h].copy EXCEPT !.status = shown])
    BY <1>5 DEF Validate, ConnectionStatus
  <2>3. /\ Whole([holder[h].copy EXCEPT !.status = shown], minted)
        /\ [holder[h].copy EXCEPT !.status = shown].refresh = holder[h].copy.refresh
    BY <1>0, StatusKeepsWhole
  <2>4. failures' \in 0 .. MaxFailures
    BY <1>a, <1>c, <2>1
  <2> QED  BY <1>a, <1>e, <2>1, <2>2, <2>3, <2>4, MoveKeeps
<1>6. ASSUME NEW h \in Holders, SaveCheck(h) PROVE TokensInv'
  BY <1>6, StoreKeeps DEF SaveCheck
<1>7. ASSUME NEW h \in Holders, LoadForPublish(h) PROVE TokensInv'
  BY <1>0, <1>7, <1>a, <1>e, MoveKeeps DEF LoadForPublish, Carries
<1>8. ASSUME NEW h \in Holders, RefreshInPublish(h) PROVE TokensInv'
  <2>1. /\ holder[h].step = "refresh" /\ UNCHANGED <<account, soon, stale>>
        /\ \/ MintAnswered(holder[h].copy.refresh) /\ Continue(h, "save", OfGrant(live', "connected"))
           \/ RefreshFails(holder[h].copy.refresh) /\ Continue(h, "idle", AtEase.copy)
    BY <1>8, <1>d DEF RefreshInPublish
  <2> QED  BY <1>b, <1>e, <2>1, RefreshKeeps
<1>9. ASSUME NEW h \in Holders, SavePublish(h) PROVE TokensInv'
  BY <1>9, StoreKeeps DEF SavePublish
<1>10. ASSUME NEW h \in Holders, HolderDies(h) PROVE TokensInv'
  <2>1. /\ Continue(h, "idle", AtEase.copy) /\ failures' \in 0 .. MaxFailures
        /\ strayed' = IF holder[h].copy.refresh # account.refresh THEN strayed \cup {"lost"} ELSE strayed
        /\ UNCHANGED <<account, minted, live, soon, stale>>
    BY <1>10, <1>c, <1>d DEF HolderDies
  <2>2. /\ strayed' \subseteq {"overlap", "lost", "revoked"} /\ strayed \subseteq strayed'
        /\ Carries(h) => account.refresh = live \/ strayed' # {}
    BY <1>a, <2>1 DEF Carries
  <2> QED  BY <1>b, <1>e, <2>1, <2>2, MoveKeeps
<1>11. CASE Reconnect
  <2>1. /\ minted < MaxGrants /\ minted' = minted + 1 /\ live' = minted'
        /\ account' = OfGrant(minted', "connected") /\ strayed' = {}
        /\ UNCHANGED <<soon, stale, holder, failures>>
    BY <1>11 DEF Reconnect
  <2>2. minted' \in Grants /\ minted' \in Nat /\ minted <= minted' /\ live' \in 0 .. minted' /\ minted' # 0
    BY <1>a, <2>1, AccountFacts DEF Grants
  <2>3. Whole(account', minted') /\ account'.refresh = live'
    BY <2>1, <2>2, OfGrantIsWhole DEF ConnectionStatus
  <2>4. \A g \in Holders : Whole(holder'[g].copy, minted')
    BY <1>0, <1>a, <2>1, <2>2, WholeGrows
  <2>5. AccountTypeOK'
    BY <1>0, <2>1, <2>2, <2>3 DEF AccountTypeOK, Whole
  <2>6. LatestIsLive' /\ StoredGrantIsLive'
    BY <2>1, <2>2, <2>3 DEF LatestIsLive, StoredGrantIsLive, Whole
  <2> QED  BY <2>3, <2>4, <2>5, <2>6 DEF TokensInv
<1>12. CASE Revoke
  <2>1. /\ live' = 0 /\ strayed' = strayed \cup {"revoked"}
        /\ UNCHANGED <<account, minted, soon, stale, holder, failures>>
    BY <1>12 DEF Revoke
  <2>2. live' \in 0 .. minted'
    BY <1>a, <2>1
  <2> QED  BY <1>0, <2>1, <2>2 DEF TokensInv, AccountTypeOK, LatestIsLive, StoredGrantIsLive, Whole
<1>13. ASSUME NEW g \in Grants, TimePassesFor(g) PROVE TokensInv'
  <2>1. /\ stale' \subseteq soon' /\ soon' \subseteq Grants
        /\ UNCHANGED <<account, minted, live, holder, failures, strayed>>
    BY <1>0, <1>13 DEF TimePassesFor, AccountTypeOK
  <2> QED  BY <1>0, <2>1 DEF TokensInv, AccountTypeOK, LatestIsLive, StoredGrantIsLive
<1> QED  BY <1>1, <1>2, <1>3, <1>4, <1>5, <1>6, <1>7, <1>8, <1>9, <1>10, <1>11, <1>12, <1>13, <1>a
         DEF AccountNext, CheckStep

\* The tokens of an account are of one grant, which is the one the platform takes
\* or is on its way to the row, unless two refreshes overlapped, an answer was
\* lost or the person withdrew the grant.
THEOREM StoredGrantStaysLive == AccountSpec => []StoredGrantIsLive
<1>1. AccountSpec => []TokensInv
  BY TokensStart, TokensStep, PTL DEF AccountSpec
<1>2. TokensInv => StoredGrantIsLive
  BY DEF TokensInv
<1> QED  BY <1>1, <1>2, PTL

---------------------------------------------------------------------------------
(* The workers together. *)

\* Each component behaves as if it were alone, whatever the others do.
LEMMA BackgroundParts ==
  Spec => CommentSpec /\ ReviewSpec /\ DeliverySpec /\ AccountSpec /\ OrgSpec
<1>1. Init => CommentInit /\ ReviewInit /\ DeliveryInit /\ AccountInit /\ OrgInit
  BY DEF Init
<1>2. [Next]_allVars =>
        [CommentNext]_commentVars /\ [ReviewNext]_reviewVars /\ [DeliveryNext]_deliveryVars
          /\ [AccountNext]_accountVars /\ [OrgNext]_orgVars
  BY DEF Next, allVars
<1> QED
  BY <1>1, <1>2, PTL DEF Spec, CommentSpec, ReviewSpec, DeliverySpec, AccountSpec, OrgSpec

\* First comments, reviews, deliveries, tokens and the deletion of an
\* organisation stay in their types.
THEOREM BackgroundTypes == Spec => []BackgroundTypeOK
<1>1. DeliverySpec => []DeliveryTypeOK
  <2>1. DeliveryTypeOK /\ DeliveryInv /\ [DeliveryNext]_deliveryVars => (DeliveryTypeOK /\ DeliveryInv)'
    BY DeliveryTypeStep, DeliveryStep, DeliveryStutter
  <2> QED  BY <2>1, DeliveryStart, PTL DEF DeliverySpec
<1>2. AccountSpec => []AccountTypeOK
  <2>1. TokensInv => AccountTypeOK
    BY DEF TokensInv
  <2> QED  BY <2>1, TokensStart, TokensStep, PTL DEF AccountSpec
<1>3. OrgSpec => []OrgTypeOK
  <2>1. OrgInv => OrgTypeOK
    BY DEF OrgInv
  <2> QED  BY <2>1, OrgStarts, OrgStep, PTL DEF OrgSpec
<1>4. CommentTypeOK /\ ReviewTypeOK /\ DeliveryTypeOK /\ AccountTypeOK /\ OrgTypeOK => BackgroundTypeOK
  BY DEF BackgroundTypeOK
<1> QED
  BY <1>1, <1>2, <1>3, <1>4, BackgroundParts, CommentTypes, ReviewTypes, PTL
===================================================================================

---------------------------- MODULE PublisherProofs ----------------------------
(***************************************************************************)
(* Theorems about Publisher, for every number of workers, rows and posts   *)
(* and every bound.                                                        *)
(***************************************************************************)
EXTENDS Publisher, TLAPS

\* Setting one entry of a table of tables.
LEMMA SetEntry ==
  ASSUME NEW A, NEW B, NEW R, NEW f \in [A -> [B -> R]],
         NEW a \in A, NEW b \in B, NEW v \in R
  PROVE  /\ [f EXCEPT ![a][b] = v] \in [A -> [B -> R]]
         /\ \A x \in A, y \in B :
              [f EXCEPT ![a][b] = v][x][y] = IF x = a /\ y = b THEN v ELSE f[x][y]
<1>1. \A x \in A : f[x] \in [B -> R]
  OBVIOUS
<1>2. [f[a] EXCEPT ![b] = v] \in [B -> R]
  BY <1>1
<1>. QED
  BY <1>1, <1>2

-------------------------------------------------------------------------------
(* Types. *)

\* The values the engine and the handlers compute for the data columns.
LEMMA DataFacts ==
  /\ Blank \in Data
  /\ \A t \in 0 .. Horizon : t \in Time /\ Later(t) \in Time
  /\ \A d \in Data, t \in Time : [d EXCEPT !.dueAt = t] \in Data
  /\ \A d \in Data, t \in Time :
       [[d EXCEPT !.retries = 0, !.retryAt = Never] EXCEPT !.dueAt = t] \in Data
<1>1. 0 \in 0 .. MaxRetries /\ Never \in Time
  BY PublisherAssumption DEF Time, Never
<1>2. \A t \in 0 .. Horizon : t \in Time /\ Later(t) \in Time
  BY PublisherAssumption DEF Time, Never, Later
<1>3. Blank \in Data
  BY <1>1 DEF Blank, Data
<1>4. ASSUME NEW d \in Data, NEW t \in Time
      PROVE  /\ [d EXCEPT !.dueAt = t] \in Data
             /\ [d EXCEPT !.retries = 0, !.retryAt = Never] \in Data
  BY <1>1, <1>4 DEF Data
<1>5. ASSUME NEW d \in Data, NEW t \in Time
      PROVE  [[d EXCEPT !.retries = 0, !.retryAt = Never] EXCEPT !.dueAt = t] \in Data
  BY <1>1, <1>5 DEF Data
<1>. QED
  BY <1>2, <1>3, <1>4, <1>5

\* A failure that does not exhaust the retries leaves a proper row.
LEMMA ChargedType ==
  ASSUME NEW m \in Data, ~ m.retries >= MaxRetries, now \in 0 .. Horizon
  PROVE  Charged(m) \in Data
<1>1. m.retries \in 0 .. MaxRetries /\ m.retries + 1 \in 0 .. MaxRetries
  BY PublisherAssumption DEF Data
<1>2. Backoff[m.retries] \in Nat
  BY <1>1, PublisherAssumption
<1>3. Later(now + Backoff[m.retries]) \in Time
  BY <1>2, PublisherAssumption DEF Later, Time, Never
<1>. QED
  BY <1>1, <1>3 DEF Charged, Data

\* A handler's write keeps the types when the values it writes have theirs.
LEMMA WriteRowType ==
  ASSUME TypeOK, NEW r \in requests, NEW s \in Status, NEW d \in Data,
         WriteRow(r, s, d)
  PROVE  TypeOK'
<1>1. r.child \in Children /\ requests' \subseteq Request
  BY DEF TypeOK, WriteRow, Request
<1>2. status' \in [Children -> Status] /\ data' \in [Children -> Data]
  BY <1>1 DEF TypeOK, WriteRow
<1>3. attempts' \in [Children -> 0 .. MaxRetries + 2]
  BY <1>1, PublisherAssumption DEF TypeOK, WriteRow
<1>4. overridden' \subseteq Children
  BY <1>1 DEF TypeOK, WriteRow
<1>. QED
  BY <1>1, <1>2, <1>3, <1>4 DEF TypeOK, WriteRow, workerVars

\* What every handler writes: values of their types; as many retries as the row
\* has, had when it was read, or none; nothing over published but itself, and
\* published over nothing but itself and a claim.
HandlerWrite(r, s, d) ==
  /\ WriteRow(r, s, d)
  /\ s \in Status /\ d \in Data
  /\ d.retries \in {0, data[r.child].retries, r.data.retries}
  /\ r.status = "published" => s = "published"
  /\ s = "published" => r.status \in {"publishing", "published"}

LEMMA RequestFacts ==
  ASSUME TypeOK, NEW r \in requests
  PROVE  /\ r.child \in Children /\ r.status \in Status /\ r.data \in Data
         /\ data[r.child] \in Data
         /\ now \in Time /\ Never \in Time
BY PublisherAssumption DEF TypeOK, Request, Time, Never

LEMMA PeopleWrite ==
  ASSUME TypeOK, People
  PROVE  \/ \E c \in Children : OpenRequest(c)
         \/ \E r \in requests : \E s, d : HandlerWrite(r, s, d)
<1>0. \A t \in now .. Horizon : t \in Time
  BY PublisherAssumption DEF TypeOK, Time, Never
<1>1. /\ \A d \in Data, t \in Time : [d EXCEPT !.dueAt = t].retries = d.retries
      /\ \A d \in Data, t \in Time :
           [[d EXCEPT !.retries = 0, !.retryAt = Never] EXCEPT !.dueAt = t].retries = 0
  BY DEF Data
<1>3. ASSUME NEW r \in requests, NEW target \in UserTargets, TransitionChild(r, target)
      PROVE  HandlerWrite(r, target, data[r.child])
  BY <1>3, RequestFacts, PublisherAssumption
     DEF TransitionChild, HandlerWrite, CanTransition, ValidTransitions, Status
<1>4. ASSUME NEW r \in requests, NEW t \in now .. Horizon, TransitionPlatformPost(r, t)
      PROVE  \E s, d : HandlerWrite(r, s, d)
  <2>1. ASSUME NEW s \in {"scheduled", "draft"}, NEW d \in Data, WriteRow(r, s, d),
               d.retries = data[r.child].retries, r.status # "published"
        PROVE  HandlerWrite(r, s, d)
    BY <2>1 DEF HandlerWrite, Status
  <2>. QED
    BY <1>0, <1>1, <1>4, <2>1, RequestFacts, DataFacts DEF TransitionPlatformPost
<1>5. ASSUME NEW r \in requests, NEW t \in now .. Horizon, Reschedule(r, t)
      PROVE  \E s, d : HandlerWrite(r, s, d)
  <2>1. ASSUME NEW s \in {"scheduled", r.status}, NEW d \in Data, WriteRow(r, s, d),
               d.retries \in {0, data[r.child].retries}, r.status # "published"
        PROVE  HandlerWrite(r, s, d)
    BY <2>1, RequestFacts DEF HandlerWrite, Status
  <2>2. r.status # "published"
    BY <1>5 DEF Reschedule, ReschedulableStatuses
  <2>. QED
    BY <1>0, <1>1, <1>5, <2>1, <2>2, RequestFacts, DataFacts DEF Reschedule
<1>6. ASSUME NEW r \in requests, BulkDraft(r)
      PROVE  \E s, d : HandlerWrite(r, s, d)
  <2>1. ASSUME NEW d \in Data, WriteRow(r, "draft", d), d.retries = r.data.retries
        PROVE  HandlerWrite(r, "draft", d)
    BY <1>6, <2>1 DEF BulkDraft, HandlerWrite, ProtectedStatuses, Status
  <2>. QED
    BY <1>1, <1>6, <2>1, RequestFacts, DataFacts DEF BulkDraft
<1>7. ASSUME NEW r \in requests, BulkPublish(r)
      PROVE  \E s, d : HandlerWrite(r, s, d)
  <2>1. ASSUME NEW d \in Data, WriteRow(r, "scheduled", d),
               d.retries \in {0, r.data.retries}
        PROVE  HandlerWrite(r, "scheduled", d)
    BY <1>7, <2>1 DEF BulkPublish, HandlerWrite, ProtectedStatuses, Status
  <2>. QED
    BY <1>1, <1>7, <2>1, RequestFacts, DataFacts DEF BulkPublish
<1>8. ASSUME NEW r \in requests, ComposerSave(r)
      PROVE  HandlerWrite(r, r.status, r.data)
  BY <1>8, RequestFacts DEF ComposerSave, HandlerWrite
<1>. QED
  BY <1>3, <1>4, <1>5, <1>6, <1>7, <1>8 DEF People

\* The type invariant: the code never leaves the status vocabulary, never
\* counts past MAX_RETRIES and never indexes RETRY_BACKOFF outside its range.
THEOREM TypeCorrect == Spec => []TypeOK
<1>1. Init => TypeOK
  <2>. SUFFICES ASSUME Init PROVE TypeOK
    OBVIOUS
  <2>1. status \in [Children -> Status]
    BY DEF Init, Status
  <2>2. data \in [Children -> Data]
    <3>1. \A t \in {0, Never} : [Blank EXCEPT !.dueAt = t] \in Data
      <4>. 0 \in Time /\ Never \in Time
        BY PublisherAssumption DEF Time, Never
      <4>. QED
        BY DataFacts
    <3>. QED
      BY <3>1 DEF Init
  <2>3. job \in [Workers -> [Children -> JobState]] /\ mem \in [Workers -> [Children -> Data]]
    BY DataFacts DEF Init, JobState
  <2>4. /\ now \in 0 .. Horizon /\ opened \in 0 .. MaxRequests
        /\ live \in [Children -> 0 .. 2] /\ attempts \in [Children -> 0 .. MaxRetries + 2]
    BY PublisherAssumption DEF Init
  <2>. QED
    BY <2>1, <2>2, <2>4, DataFacts, PublisherAssumption, <2>3 DEF Init, TypeOK
<1>2. TypeOK /\ [Next]_vars => TypeOK'
  <2>. SUFFICES ASSUME TypeOK, [Next]_vars PROVE TypeOK'
    OBVIOUS
  <2>. USE DEF TypeOK
  <2>0. ASSUME NEW w \in Workers, NEW c \in Children
        PROVE  /\ \A v \in JobState :
                    [job EXCEPT ![w][c] = v] \in [Workers -> [Children -> JobState]]
               /\ [mem EXCEPT ![w][c] = Blank] \in [Workers -> [Children -> Data]]
    <3>1. ASSUME NEW v \in JobState
          PROVE  [job EXCEPT ![w][c] = v] \in [Workers -> [Children -> JobState]]
      BY SetEntry
    <3>2. Blank \in Data
      BY DataFacts
    <3>3. [mem EXCEPT ![w][c] = Blank] \in [Workers -> [Children -> Data]]
      BY <3>2, SetEntry
    <3>. QED
      BY <3>1, <3>3
  <2>1. ASSUME NEW w \in Workers, Poll(w) PROVE TypeOK'
    BY <2>1 DEF Poll, peopleVars, history
  <2>2. ASSUME NEW w \in Workers, NEW p \in Posts, ClaimGroup(w, p) PROVE TypeOK'
    <3>1. status' \in [Children -> Status]
      BY <2>2 DEF ClaimGroup, Claim, Status
    <3>2. job' \in [Workers -> [Children -> JobState]]
      BY <2>2 DEF ClaimGroup, Claim, JobState
    <3>3. mem' \in [Workers -> [Children -> Data]]
      BY <2>2 DEF ClaimGroup, Claim
    <3>. QED
      BY <2>2, <3>1, <3>2, <3>3 DEF ClaimGroup, Claim, peopleVars, history
  <2>3. ASSUME NEW w \in Workers, StartRetries(w) PROVE TypeOK'
    BY <2>3 DEF StartRetries, peopleVars, history
  <2>4. ASSUME NEW w \in Workers, EndCycle(w) PROVE TypeOK'
    BY <2>4 DEF EndCycle, peopleVars, history
  <2>5. ASSUME NEW w \in Workers, NEW c \in Children, CheckRetry(w, c) PROVE TypeOK'
    <3>1. job' \in [Workers -> [Children -> JobState]]
      <4>1. job' = job \/ job' = [job EXCEPT ![w][c] = "checked"]
        BY <2>5, Zenon DEF CheckRetry, TakeRetry
      <4>. QED
        <5>1. CASE job' = job
          BY <5>1
        <5>2. CASE job' = [job EXCEPT ![w][c] = "checked"]
          BY <5>2, <2>0 DEF JobState
        <5>. QED
          BY <4>1, <5>1, <5>2
    <3>2. mem' \in [Workers -> [Children -> Data]]
      <4>1. mem' = mem \/ mem' = [mem EXCEPT ![w][c] = Blank]
        BY <2>5, Zenon DEF CheckRetry, TakeRetry
      <4>. QED
        <5>1. CASE mem' = mem
          BY <5>1
        <5>2. CASE mem' = [mem EXCEPT ![w][c] = Blank]
          BY <5>2, <2>0
        <5>. QED
          BY <4>1, <5>1, <5>2
    <3>. QED
      BY <2>5, <3>1, <3>2 DEF CheckRetry, TakeRetry, peopleVars, history
  <2>6. ASSUME NEW w \in Workers, NEW c \in Children, MarkRetry(w, c) PROVE TypeOK'
    BY <2>6, <2>0 DEF MarkRetry, Status, JobState, peopleVars, history
  <2>7. ASSUME NEW w \in Workers, NEW c \in Children, CallProvider(w, c) PROVE TypeOK'
    <3>1. attempts' \in [Children -> 0 .. MaxRetries + 2]
      BY <2>7, PublisherAssumption DEF CallProvider, Capped
    <3>2. live' \in [Children -> 0 .. 2]
      BY <2>7 DEF CallProvider, Capped
    <3>3. job' \in [Workers -> [Children -> JobState]]
      <4>1. PICK v \in JobState : job' = [job EXCEPT ![w][c] = v]
        BY <2>7 DEF CallProvider, JobState
      <4>. QED
        BY <4>1, <2>0
    <3>. QED
      BY <2>7, <3>1, <3>2, <3>3 DEF CallProvider, peopleVars
  <2>8. ASSUME NEW w \in Workers, NEW c \in Children, RecordPublished(w, c) PROVE TypeOK'
    BY <2>8, <2>0 DEF RecordPublished, Status, JobState, peopleVars, history
  <2>9. ASSUME NEW w \in Workers, NEW c \in Children, FinishAttempt(w, c) PROVE TypeOK'
    BY <2>9, <2>0 DEF FinishAttempt, JobState, peopleVars, history
  <2>10. ASSUME NEW w \in Workers, NEW c \in Children, RecordFailure(w, c) PROVE TypeOK'
    <3>1. PICK s \in Status, d \in Data : EndFailed(w, c, s, d)
      BY <2>10, ChargedType DEF RecordFailure, Status
    <3>. QED
      BY <3>1, <2>0 DEF EndFailed, JobState, peopleVars
  <2>11. ASSUME NEW w \in Workers, NEW c \in Children, BookkeepingFails(w, c) PROVE TypeOK'
    BY <2>11, <2>0 DEF BookkeepingFails, JobState, peopleVars, history
  <2>12. ASSUME NEW w \in Workers, NEW c \in Children, AbortAttempt(w, c) PROVE TypeOK'
    BY <2>12, <2>0 DEF AbortAttempt, JobState, peopleVars, history
  <2>13. ASSUME NEW w \in Workers, Crash(w) PROVE TypeOK'
    BY <2>13, DataFacts DEF Crash, JobState, peopleVars, history
  <2>14. ASSUME NEW c \in Children, OpenRequest(c) PROVE TypeOK'
    BY <2>14, PublisherAssumption DEF OpenRequest, Request, workerVars, history
  <2>15. ASSUME NEW r \in requests, NEW s, NEW d, HandlerWrite(r, s, d)
         PROVE  TypeOK'
    BY <2>15, WriteRowType DEF HandlerWrite
  <2>16. CASE Tick
    BY <2>16, PublisherAssumption DEF Tick, workerVars, peopleVars, history
  <2>17. CASE UNCHANGED vars
    BY <2>17 DEF vars, workerVars, peopleVars, history
  <2>. QED
    BY <2>1, <2>2, <2>3, <2>4, <2>5, <2>6, <2>7, <2>8, <2>9, <2>10, <2>11, <2>12,
       <2>13, <2>14, <2>15, <2>16, <2>17, PeopleWrite
       DEF Next, Progress, Attempt, Fault
<1>. QED
  BY <1>1, <1>2, PTL DEF Spec

-------------------------------------------------------------------------------
(* The exclusive claim. *)

Good(c) == NeverRetried(c) /\ OneAttempt(c) /\ AttemptMatchesRow(c)

\* A step that leaves the row and its attempts alone, or only ends attempts,
\* keeps it good.
LEMMA GoodUntouched ==
  ASSUME NEW c \in Children, Good(c),
         status'[c] = status[c], data'[c] = data[c], live'[c] = live[c],
         \A w \in Workers : /\ job'[w][c] \in {job[w][c], "none"}
                            /\ mem'[w][c].retries \in {mem[w][c].retries, 0}
                            /\ c \in picked'[w] => c \in picked[w],
         \A r \in requests' : r.child = c => r \in requests \/ r.data.retries = 0
  PROVE  Good(c)'
<1>1. NeverRetried(c)'
  BY DEF Good, NeverRetried
<1>2. OneAttempt(c)'
  BY DEF Good, OneAttempt
<1>3. AttemptMatchesRow(c)'
  BY DEF Good, AttemptMatchesRow
<1>. QED
  BY <1>1, <1>2, <1>3 DEF Good

\* What a worker's own steps on one row change.
LEMMA OneEntry ==
  ASSUME TypeOK, NEW w \in Workers, NEW c \in Children
  PROVE  /\ \A v \in JobState, x \in Workers, y \in Children :
              [job EXCEPT ![w][c] = v][x][y] = IF x = w /\ y = c THEN v ELSE job[x][y]
         /\ \A x \in Workers, y \in Children :
              [mem EXCEPT ![w][c] = Blank][x][y] = IF x = w /\ y = c THEN Blank ELSE mem[x][y]
<1>1. job \in [Workers -> [Children -> JobState]] /\ mem \in [Workers -> [Children -> Data]]
  BY DEF TypeOK
<1>2. ASSUME NEW v \in JobState, NEW x \in Workers, NEW y \in Children
      PROVE  [job EXCEPT ![w][c] = v][x][y] = IF x = w /\ y = c THEN v ELSE job[x][y]
  BY <1>1, SetEntry
<1>3. ASSUME NEW x \in Workers, NEW y \in Children
      PROVE  [mem EXCEPT ![w][c] = Blank][x][y] = IF x = w /\ y = c THEN Blank ELSE mem[x][y]
  <2>1. Blank \in Data
    BY DataFacts
  <2>. QED
    BY <1>1, <2>1, SetEntry
<1>. QED
  BY <1>2, <1>3

\* The first attempt on a row is exclusive, for every number of workers.
LEMMA ExclusiveStep ==
  ASSUME TypeOK, ClaimIsExclusive, [Next]_vars
  PROVE  ClaimIsExclusive'
<1>. SUFFICES ASSUME NEW c \in Children, Clean(c)'
              PROVE  Good(c)'
  BY DEF ClaimIsExclusive, Good
<1>0. /\ "none" \in JobState /\ "checked" \in JobState /\ "ready" \in JobState
      /\ "recorded" \in JobState /\ "failing" \in JobState /\ Blank.retries = 0
  BY DEF JobState, Blank
<1>1. ASSUME Clean(c) PROVE Good(c)
  BY <1>1 DEF ClaimIsExclusive, Good
<1>2. ASSUME NEW w \in Workers, Poll(w) PROVE Good(c)'
  BY <1>1, <1>2, GoodUntouched DEF Poll, Clean, peopleVars, history
<1>3. ASSUME NEW w \in Workers, NEW p \in Posts, ClaimGroup(w, p) PROVE Good(c)'
  <2>1. Good(c)
    BY <1>1, <1>3 DEF ClaimGroup, Claim, Clean, history
  <2>2. CASE c \notin Claimable(w, p)
    <3>1. /\ status'[c] = status[c]
          /\ \A x \in Workers : job'[x][c] = job[x][c] /\ mem'[x][c] = mem[x][c]
      BY <1>3, <2>2 DEF ClaimGroup, Claim, TypeOK
    <3>. QED
      BY <1>3, <2>1, <3>1, GoodUntouched DEF ClaimGroup, Claim, peopleVars, history
  <2>3. CASE c \in Claimable(w, p)
    <3>1. /\ status[c] = "scheduled" /\ status'[c] = "publishing"
          /\ \A x \in Workers : /\ job'[x][c] = IF x = w THEN "ready" ELSE job[x][c]
                                /\ mem'[x][c] = IF x = w THEN data[c] ELSE mem[x][c]
          /\ data' = data /\ picked' = picked /\ requests' = requests /\ live' = live
      BY <1>3, <2>3 DEF ClaimGroup, Claim, Claimable, TypeOK, peopleVars, history
    <3>2. live[c] = 0 /\ \A x \in Workers : job[x][c] = "none"
      BY <2>1, <3>1 DEF Good, AttemptMatchesRow
    <3>3. NeverRetried(c)'
      BY <2>1, <3>1 DEF Good, NeverRetried
    <3>4. OneAttempt(c)'
      BY <3>1, <3>2 DEF OneAttempt
    <3>5. AttemptMatchesRow(c)'
      BY <3>1, <3>2 DEF AttemptMatchesRow
    <3>. QED
      BY <3>3, <3>4, <3>5 DEF Good
  <2>. QED
    BY <2>2, <2>3
<1>4. ASSUME NEW w \in Workers, StartRetries(w) PROVE Good(c)'
  <2>1. Good(c)
    BY <1>1, <1>4 DEF StartRetries, Clean, history
  <2>2. ~IsRetryDue(c)
    BY <2>1, PublisherAssumption DEF Good, NeverRetried, IsRetryDue
  <2>3. \A x \in Workers : mem'[x][c] = mem[x][c] /\ (c \in picked'[x] => c \in picked[x])
    BY <1>4, <2>2 DEF StartRetries, TypeOK
  <2>. QED
    BY <1>4, <2>1, <2>3, GoodUntouched DEF StartRetries, peopleVars, history
<1>5. ASSUME NEW w \in Workers, EndCycle(w) PROVE Good(c)'
  BY <1>1, <1>5, GoodUntouched DEF EndCycle, Clean, peopleVars, history
<1>6. ASSUME NEW w \in Workers, NEW d \in Children, CheckRetry(w, d) PROVE Good(c)'
  <2>1. Good(c)
    BY <1>1, <1>6 DEF CheckRetry, TakeRetry, Clean, history
  <2>2. d # c
    BY <1>6, <2>1 DEF CheckRetry, TakeRetry, Good, NeverRetried
  <2>3. job' = job \/ job' = [job EXCEPT ![w][d] = "checked"]
    BY <1>6, Zenon DEF CheckRetry, TakeRetry
  <2>4. mem' = mem \/ mem' = [mem EXCEPT ![w][d] = Blank]
    BY <1>6, Zenon DEF CheckRetry, TakeRetry
  <2>5. \A x \in Workers : job'[x][c] = job[x][c] /\ mem'[x][c] = mem[x][c]
    <3>1. \A x \in Workers : job'[x][c] = job[x][c]
      <4>1. CASE job' = job
        BY <4>1
      <4>2. CASE job' = [job EXCEPT ![w][d] = "checked"]
        BY <1>0, <2>2, <4>2, OneEntry
      <4>. QED
        BY <2>3, <4>1, <4>2
    <3>2. \A x \in Workers : mem'[x][c] = mem[x][c]
      <4>1. CASE mem' = mem
        BY <4>1
      <4>2. CASE mem' = [mem EXCEPT ![w][d] = Blank]
        BY <2>2, <4>2, OneEntry
      <4>. QED
        BY <2>4, <4>1, <4>2
    <3>. QED
      BY <3>1, <3>2
  <2>6. \A x \in Workers : c \in picked'[x] => c \in picked[x]
    BY <1>6 DEF CheckRetry, TakeRetry, TypeOK
  <2>. QED
    BY <1>6, <2>1, <2>5, <2>6, GoodUntouched DEF CheckRetry, TakeRetry, peopleVars, history
<1>7. ASSUME NEW w \in Workers, NEW d \in Children, MarkRetry(w, d) PROVE Good(c)'
  <2>1. Good(c)
    BY <1>1, <1>7 DEF MarkRetry, Clean, history
  <2>2. d # c
    BY <1>7, <2>1 DEF MarkRetry, Good, NeverRetried
  <2>3. status'[c] = status[c] /\ \A x \in Workers : job'[x][c] = job[x][c]
    BY <1>0, <1>7, <2>2, OneEntry DEF MarkRetry, TypeOK
  <2>. QED
    BY <1>7, <2>1, <2>3, GoodUntouched DEF MarkRetry, peopleVars, history
<1>8. ASSUME NEW w \in Workers, NEW d \in Children, CallProvider(w, d) PROVE Good(c)'
  <2>1. Good(c)
    BY <1>1, <1>8 DEF CallProvider, Clean
  <2>2. PICK v \in {"accepted", "failing", "fatal"} : job' = [job EXCEPT ![w][d] = v]
    BY <1>8 DEF CallProvider
  <2>3. \A x \in Workers : job'[x][c] = IF x = w /\ c = d THEN v ELSE job[x][c]
    BY <2>2, OneEntry DEF JobState
  <2>4. CASE d # c
    <3>1. live'[c] = live[c]
      BY <1>8, <2>4 DEF CallProvider, TypeOK
    <3>. QED
      BY <1>8, <2>1, <2>3, <2>4, <3>1, GoodUntouched DEF CallProvider, peopleVars
  <2>5. CASE d = c
    <3>1. job[w][c] = "ready"
      BY <1>8, <2>5 DEF CallProvider
    <3>2. live[c] = 0 /\ status[c] = "publishing" /\ \A x \in Workers \ {w} : job[x][c] = "none"
      BY <2>1, <3>1 DEF Good, AttemptMatchesRow, OneAttempt
    <3>3. live'[c] \in {0, 1}
      BY <1>8, <2>5, <3>2 DEF CallProvider, TypeOK, Capped
    <3>4. NeverRetried(c)'
      BY <1>8, <2>1, <2>3 DEF CallProvider, Good, NeverRetried, peopleVars
    <3>5. OneAttempt(c)'
      BY <2>3, <3>2 DEF OneAttempt
    <3>6. AttemptMatchesRow(c)'
      BY <1>8, <2>3, <2>5, <3>2, <3>3 DEF CallProvider, AttemptMatchesRow
    <3>. QED
      BY <3>4, <3>5, <3>6 DEF Good
  <2>. QED
    BY <2>4, <2>5
<1>9. ASSUME NEW w \in Workers, NEW d \in Children, RecordPublished(w, d) PROVE Good(c)'
  <2>1. Good(c)
    BY <1>1, <1>9 DEF RecordPublished, Clean, history
  <2>2. \A x \in Workers : job'[x][c] = IF x = w /\ c = d THEN "recorded" ELSE job[x][c]
    BY <1>0, <1>9, OneEntry DEF RecordPublished
  <2>3. CASE d # c
    <3>1. status'[c] = status[c] /\ data'[c] = data[c]
      BY <1>9, <2>3 DEF RecordPublished, TypeOK
    <3>. QED
      BY <1>9, <2>1, <2>2, <2>3, <3>1, GoodUntouched DEF RecordPublished, peopleVars, history
  <2>4. CASE d = c
    <3>1. /\ status'[c] = "published" /\ data'[c] = mem[w][c]
          /\ job[w][c] = "accepted" /\ live' = live /\ picked' = picked
          /\ mem' = mem /\ requests' = requests
      BY <1>9, <2>4 DEF RecordPublished, TypeOK, peopleVars, history
    <3>2. \A x \in Workers \ {w} : job[x][c] = "none"
      BY <2>1, <3>1 DEF Good, OneAttempt
    <3>3. NeverRetried(c)'
      BY <2>1, <2>2, <3>1 DEF Good, NeverRetried
    <3>4. OneAttempt(c)'
      BY <2>2, <3>2 DEF OneAttempt
    <3>5. AttemptMatchesRow(c)'
      BY <2>1, <2>2, <2>4, <3>1, <3>2 DEF Good, AttemptMatchesRow
    <3>. QED
      BY <3>3, <3>4, <3>5 DEF Good
  <2>. QED
    BY <2>3, <2>4
<1>10. ASSUME NEW w \in Workers, NEW d \in Children, FinishAttempt(w, d) PROVE Good(c)'
  <2>1. \A x \in Workers : /\ job'[x][c] \in {job[x][c], "none"}
                           /\ mem'[x][c].retries \in {mem[x][c].retries, 0}
    BY <1>0, <1>10, OneEntry DEF FinishAttempt
  <2>. QED
    BY <1>1, <1>10, <2>1, GoodUntouched DEF FinishAttempt, Clean, peopleVars, history
<1>11. ASSUME NEW w \in Workers, NEW d \in Children, RecordFailure(w, d) PROVE Good(c)'
  <2>1. PICK s, e : EndFailed(w, d, s, e)
    BY <1>11 DEF RecordFailure
  <2>2. d # c /\ Clean(c)
    BY <2>1 DEF EndFailed, Clean
  <2>3. /\ status'[c] = status[c] /\ data'[c] = data[c]
        /\ \A x \in Workers : job'[x][c] = job[x][c] /\ mem'[x][c] = mem[x][c]
    BY <1>0, <2>1, <2>2, OneEntry DEF EndFailed, TypeOK
  <2>. QED
    BY <1>1, <2>1, <2>2, <2>3, GoodUntouched DEF EndFailed, peopleVars
<1>12. ASSUME NEW w \in Workers, NEW d \in Children, BookkeepingFails(w, d) PROVE Good(c)'
  <2>1. Good(c)
    BY <1>1, <1>12 DEF BookkeepingFails, Clean, history
  <2>2. \A x \in Workers : job'[x][c] = IF x = w /\ c = d THEN "failing" ELSE job[x][c]
    BY <1>0, <1>12, OneEntry DEF BookkeepingFails
  <2>3. c = d => job[w][c] \notin {"none", "checked", "ready"}
    BY <1>12 DEF BookkeepingFails
  <2>4. NeverRetried(c)'
    BY <1>12, <2>1, <2>2 DEF BookkeepingFails, Good, NeverRetried, peopleVars
  <2>5. OneAttempt(c)'
    BY <2>1, <2>2, <2>3 DEF Good, OneAttempt
  <2>6. AttemptMatchesRow(c)'
    BY <1>12, <2>1, <2>2, <2>3 DEF BookkeepingFails, Good, AttemptMatchesRow, history
  <2>. QED
    BY <2>4, <2>5, <2>6 DEF Good
<1>13. ASSUME NEW w \in Workers, NEW d \in Children, AbortAttempt(w, d) PROVE Good(c)'
  <2>1. \A x \in Workers : /\ job'[x][c] \in {job[x][c], "none"}
                           /\ mem'[x][c].retries \in {mem[x][c].retries, 0}
    BY <1>0, <1>13, OneEntry DEF AbortAttempt
  <2>. QED
    BY <1>1, <1>13, <2>1, GoodUntouched DEF AbortAttempt, Clean, peopleVars, history
<1>14. ASSUME NEW w \in Workers, Crash(w) PROVE Good(c)'
  <2>1. \A x \in Workers : /\ job'[x][c] \in {job[x][c], "none"}
                           /\ mem'[x][c].retries \in {mem[x][c].retries, 0}
                           /\ c \in picked'[x] => c \in picked[x]
    BY <1>0, <1>14 DEF Crash, TypeOK
  <2>. QED
    BY <1>1, <1>14, <2>1, GoodUntouched DEF Crash, Clean, peopleVars, history
<1>15. ASSUME NEW d \in Children, OpenRequest(d) PROVE Good(c)'
  <2>1. Good(c)
    BY <1>1, <1>15 DEF OpenRequest, Clean, history
  <2>2. \A r \in requests' : r.child = c => r \in requests \/ r.data.retries = 0
    BY <1>15, <2>1 DEF OpenRequest, Good, NeverRetried
  <2>. QED
    BY <1>15, <2>1, <2>2, GoodUntouched DEF OpenRequest, workerVars, history
<1>16. ASSUME NEW r \in requests, NEW s, NEW e, HandlerWrite(r, s, e) PROVE Good(c)'
  <2>1. WriteRow(r, s, e) /\ r.child \in Children
    BY <1>16, RequestFacts DEF HandlerWrite
  <2>2. Clean(c)
    BY <2>1 DEF WriteRow, Clean
  <2>3. Good(c)
    BY <1>1, <2>2
  <2>4. CASE r.child # c
    <3>1. status'[c] = status[c] /\ data'[c] = data[c]
      BY <2>1, <2>4 DEF WriteRow, TypeOK
    <3>. QED
      BY <2>1, <2>3, <3>1, GoodUntouched DEF WriteRow, workerVars
  <2>5. CASE r.child = c
    <3>1. status[c] # "publishing" /\ r.status = status[c]
      BY <2>1, <2>5 DEF WriteRow, Clean
    <3>2. status'[c] = s /\ data'[c] = e
      BY <2>1, <2>5 DEF WriteRow, TypeOK
    <3>3. e.retries = 0
      BY <1>16, <2>3, <2>5 DEF HandlerWrite, Good, NeverRetried
    <3>4. NeverRetried(c)'
      BY <2>1, <2>3, <3>2, <3>3 DEF WriteRow, workerVars, Good, NeverRetried
    <3>5. OneAttempt(c)'
      BY <2>1, <2>3 DEF WriteRow, workerVars, Good, OneAttempt
    <3>6. status[c] = "published" => s = "published"
      BY <1>16, <3>1 DEF HandlerWrite
    <3>7. AttemptMatchesRow(c)'
      BY <2>1, <2>3, <3>1, <3>2, <3>6 DEF WriteRow, workerVars, Good, AttemptMatchesRow
    <3>. QED
      BY <3>4, <3>5, <3>7 DEF Good
  <2>. QED
    BY <2>4, <2>5
<1>17. CASE Tick
  BY <1>1, <1>17, GoodUntouched DEF Tick, Clean, workerVars, peopleVars, history
<1>18. CASE UNCHANGED vars
  BY <1>1, <1>18, GoodUntouched DEF vars, Clean, workerVars, peopleVars, history
<1>. QED
  BY <1>2, <1>3, <1>4, <1>5, <1>6, <1>7, <1>8, <1>9, <1>10, <1>11, <1>12, <1>13,
     <1>14, <1>15, <1>16, <1>17, <1>18, PeopleWrite
     DEF Next, Progress, Attempt, Fault

\* ClaimIsExclusive holds however many processes poll: a row without a recorded
\* failure or an interfering write has one attempt at a time.
THEOREM ClaimExclusive == Spec => []ClaimIsExclusive
<1>1. Init => ClaimIsExclusive
  BY DEF Init, ClaimIsExclusive, NeverRetried, OneAttempt, AttemptMatchesRow, Blank
<1>2. TypeOK /\ ClaimIsExclusive /\ [Next]_vars => ClaimIsExclusive'
  BY ExclusiveStep
<1>. QED
  BY <1>1, <1>2, TypeCorrect, PTL DEF Spec

\* FirstAttemptOnce: the platform never holds two copies of such a row.
THEOREM FirstAttemptIsOnce == Spec => []FirstAttemptOnce
<1>1. ClaimIsExclusive => FirstAttemptOnce
  BY DEF ClaimIsExclusive, AttemptMatchesRow, FirstAttemptOnce
<1>. QED
  BY <1>1, ClaimExclusive, PTL

-------------------------------------------------------------------------------
(* What no step may do. *)

LEMMA PublishedStep ==
  ASSUME TypeOK, ClaimIsExclusive, [Next]_vars
  PROVE  [PublishedStays]_vars
<1>. SUFFICES ASSUME NEW c \in Children, status[c] = "published", Clean(c)',
                     status'[c] # "published"
              PROVE  FALSE
  BY DEF PublishedStays
<1>1. ASSUME Clean(c), NEW w \in Workers
      PROVE  job[w][c] \notin {"checked", "ready", "accepted"}
  BY <1>1 DEF ClaimIsExclusive, NeverRetried, AttemptMatchesRow
<1>2. ASSUME NEW w \in Workers, NEW p \in Posts, ClaimGroup(w, p) PROVE FALSE
  BY <1>2 DEF ClaimGroup, Claim, Claimable, TypeOK
<1>3. ASSUME NEW w \in Workers, NEW d \in Children, MarkRetry(w, d) PROVE FALSE
  BY <1>1, <1>3 DEF MarkRetry, Clean, history, TypeOK
<1>4. ASSUME NEW w \in Workers, NEW d \in Children, RecordPublished(w, d) PROVE FALSE
  BY <1>4 DEF RecordPublished, TypeOK
<1>5. ASSUME NEW w \in Workers, NEW d \in Children, RecordFailure(w, d) PROVE FALSE
  <2>1. PICK s, e : EndFailed(w, d, s, e)
    BY <1>5 DEF RecordFailure
  <2>2. d # c
    BY <2>1 DEF EndFailed, Clean
  <2>. QED
    BY <2>1, <2>2 DEF EndFailed, TypeOK
<1>6. ASSUME NEW r \in requests, NEW s, NEW e, HandlerWrite(r, s, e) PROVE FALSE
  <2>1. WriteRow(r, s, e) /\ r.child \in Children
    BY <1>6, RequestFacts DEF HandlerWrite
  <2>2. r.child = c /\ status'[c] = s
    BY <2>1 DEF WriteRow, TypeOK
  <2>3. r.status = "published"
    BY <2>1, <2>2 DEF WriteRow, Clean
  <2>. QED
    BY <1>6, <2>2, <2>3 DEF HandlerWrite
<1>7. status' # status
  OBVIOUS
<1>8. ASSUME NEW w \in Workers PROVE ~Poll(w) /\ ~StartRetries(w) /\ ~EndCycle(w) /\ ~Crash(w)
  BY <1>7 DEF Poll, StartRetries, EndCycle, Crash
<1>9. ASSUME NEW w \in Workers, NEW d \in Children
      PROVE  /\ ~CheckRetry(w, d) /\ ~CallProvider(w, d) /\ ~FinishAttempt(w, d)
             /\ ~BookkeepingFails(w, d) /\ ~AbortAttempt(w, d)
  BY <1>7 DEF CheckRetry, TakeRetry, CallProvider, FinishAttempt, BookkeepingFails,
              AbortAttempt
<1>10. (\A d \in Children : ~OpenRequest(d)) /\ ~Tick /\ ~UNCHANGED vars
  BY <1>7 DEF OpenRequest, Tick, vars
<1>. QED
  BY <1>2, <1>3, <1>4, <1>5, <1>6, <1>8, <1>9, <1>10, PeopleWrite
     DEF Next, Progress, Attempt, Fault

\* PublishedIsFinal: neither another worker nor a person's request takes a
\* published row back without the history recording a failure or a stale write.
THEOREM PublishedRowsStay == Spec => PublishedIsFinal
<1>1. TypeOK /\ ClaimIsExclusive /\ [Next]_vars => [PublishedStays]_vars
  BY PublishedStep
<1>. QED
  BY <1>1, TypeCorrect, ClaimExclusive, PTL DEF Spec, PublishedIsFinal

LEMMA FreezeStep ==
  ASSUME TypeOK, [Next]_vars
  PROVE  [FreezeLasts]_vars
<1>. DEFINE Begun == {"checked", "ready"}
<1>. SUFFICES ASSUME NEW p \in Posts, Frozen(p), NEW w \in Workers, NEW c \in Siblings(p),
                     job'[w][c] \in Begun
              PROVE  FALSE
  BY DEF FreezeLasts, Frozen
<1>1. /\ c \in Children /\ PostOf[c] = p /\ Held(p)
      /\ job[w][c] \notin Begun
  BY DEF Frozen, Siblings
<1>2. ASSUME NEW x \in Workers, NEW q \in Posts, ClaimGroup(x, q) PROVE FALSE
  <2>1. x = w /\ c \in Claimable(w, q)
    BY <1>1, <1>2 DEF ClaimGroup, Claim, TypeOK
  <2>. QED
    BY <1>1, <2>1 DEF Claimable, Polled, Siblings
<1>3. ASSUME NEW x \in Workers, NEW d \in Children, CheckRetry(x, d) PROVE FALSE
  <2>1. ~Held(PostOf[d]) /\ job' = [job EXCEPT ![x][d] = "checked"]
    BY <1>1, <1>3 DEF CheckRetry, TakeRetry
  <2>2. d = c
    BY <1>1, <2>1, OneEntry DEF JobState
  <2>. QED
    BY <1>1, <2>1, <2>2
<1>4. ASSUME NEW x \in Workers, NEW d \in Children, NEW v \in JobState \ Begun,
             job' = [job EXCEPT ![x][d] = v]
      PROVE  FALSE
  <2>1. job'[w][c] \in {v, job[w][c]}
    BY <1>1, <1>4, OneEntry
  <2>. QED
    BY <1>1, <2>1
<1>5. ASSUME NEW x \in Workers, NEW d \in Children, MarkRetry(x, d) PROVE FALSE
  <2>1. job[x][d] = "checked" /\ job' = [job EXCEPT ![x][d] = "ready"]
    BY <1>5 DEF MarkRetry
  <2>2. d = c /\ x = w
    BY <1>1, <2>1, OneEntry DEF JobState
  <2>. QED
    BY <1>1, <2>1, <2>2
<1>6. ASSUME NEW x \in Workers, NEW d \in Children
      PROVE  /\ ~CallProvider(x, d) /\ ~RecordPublished(x, d) /\ ~FinishAttempt(x, d)
             /\ ~BookkeepingFails(x, d) /\ ~RecordFailure(x, d) /\ ~AbortAttempt(x, d)
  BY <1>4 DEF CallProvider, RecordPublished, FinishAttempt, BookkeepingFails,
              RecordFailure, EndFailed, AbortAttempt, JobState
<1>7. ASSUME NEW x \in Workers, Crash(x) PROVE FALSE
  BY <1>1, <1>7 DEF Crash, TypeOK
<1>8. job' # job
  BY <1>1
<1>9. ASSUME NEW x \in Workers PROVE ~Poll(x) /\ ~StartRetries(x) /\ ~EndCycle(x)
  BY <1>8 DEF Poll, StartRetries, EndCycle
<1>10. /\ \A d \in Children : ~OpenRequest(d)
       /\ \A r, s, e : ~HandlerWrite(r, s, e)
       /\ ~Tick /\ ~UNCHANGED vars
  BY <1>8 DEF OpenRequest, HandlerWrite, WriteRow, Tick, vars, workerVars
<1>. QED
  BY <1>2, <1>3, <1>5, <1>6, <1>7, <1>9, <1>10, PeopleWrite
     DEF Next, Progress, Attempt, Fault

\* HoldFreezesPost: a post on hold stays frozen for as long as the hold lasts,
\* on the locked path and on the retry path.
THEOREM HoldFreezes == Spec => HoldFreezesPost
<1>1. TypeOK /\ [Next]_vars => [FreezeLasts]_vars
  BY FreezeStep
<1>. QED
  BY <1>1, TypeCorrect, PTL DEF Spec, HoldFreezesPost

-------------------------------------------------------------------------------
(* The abstract specification. *)

\* A call that was answered has put the row up.
AnsweredIsUp == \A w \in Workers, c \in Children : job[w][c] = "accepted" => live[c] > 0

LEMMA AnsweredStep ==
  ASSUME TypeOK, AnsweredIsUp, [Next]_vars
  PROVE  AnsweredIsUp'
<1>. SUFFICES ASSUME NEW w \in Workers, NEW c \in Children, job'[w][c] = "accepted"
              PROVE  live'[c] > 0
  BY DEF AnsweredIsUp
<1>1. \A n \in 0 .. 2 : Capped(n, 2) > 0 /\ Capped(n, 2) >= n
  BY DEF Capped
<1>2. live[c] \in 0 .. 2 /\ (job[w][c] = "accepted" => live[c] > 0)
  BY DEF TypeOK, AnsweredIsUp
<1>3. ASSUME NEW x \in Workers, NEW d \in Children, CallProvider(x, d) PROVE live'[c] > 0
  <2>1. PICK v \in {"accepted", "failing", "fatal"} :
          /\ job' = [job EXCEPT ![x][d] = v]
          /\ v = "accepted" => live' = [live EXCEPT ![d] = Capped(@, 2)]
    BY <1>3 DEF CallProvider
  <2>2. job'[w][c] = IF w = x /\ c = d THEN v ELSE job[w][c]
    BY <2>1, OneEntry DEF JobState
  <2>3. live' = live \/ live' = [live EXCEPT ![d] = Capped(@, 2)]
    BY <1>3 DEF CallProvider
  <2>4. CASE w = x /\ c = d
    BY <1>1, <1>2, <2>1, <2>2, <2>4 DEF TypeOK
  <2>5. CASE ~(w = x /\ c = d)
    BY <1>1, <1>2, <2>2, <2>3, <2>5 DEF TypeOK
  <2>. QED
    BY <2>4, <2>5
<1>4. ASSUME job'[w][c] = job[w][c], live'[c] = live[c] PROVE live'[c] > 0
  BY <1>2, <1>4
<1>5. ASSUME NEW x \in Workers, NEW d \in Children, NEW v \in JobState \ {"accepted"},
             job' = [job EXCEPT ![x][d] = v], live' = live
      PROVE  live'[c] > 0
  BY <1>2, <1>5, OneEntry
<1>6. ASSUME NEW x \in Workers, NEW p \in Posts, ClaimGroup(x, p) PROVE live'[c] > 0
  <2>1. live' = live /\ job'[w][c] \in {"ready", job[w][c]}
    BY <1>6 DEF ClaimGroup, Claim, TypeOK, history
  <2>. QED
    BY <1>4, <2>1
<1>7. ASSUME NEW x \in Workers, NEW d \in Children, Attempt(x, d) \/ BookkeepingFails(x, d) \/ AbortAttempt(x, d)
      PROVE  live'[c] > 0
  <2>1. CASE CheckRetry(x, d)
    <3>1. live' = live /\ (job' = job \/ job' = [job EXCEPT ![x][d] = "checked"])
      BY <2>1, Zenon DEF CheckRetry, TakeRetry, history
    <3>. QED
      BY <1>4, <1>5, <3>1 DEF JobState
  <2>2. CASE MarkRetry(x, d) \/ RecordPublished(x, d) \/ FinishAttempt(x, d)
    BY <1>5, <2>2 DEF MarkRetry, RecordPublished, FinishAttempt, JobState, history
  <2>3. CASE RecordFailure(x, d)
    BY <1>5, <2>3 DEF RecordFailure, EndFailed, JobState
  <2>4. CASE BookkeepingFails(x, d) \/ AbortAttempt(x, d)
    BY <1>5, <2>4 DEF BookkeepingFails, AbortAttempt, JobState, history
  <2>. QED
    BY <1>3, <1>7, <2>1, <2>2, <2>3, <2>4 DEF Attempt
<1>8. ASSUME NEW x \in Workers, Crash(x) PROVE live'[c] > 0
  <2>1. live' = live /\ job'[w][c] \in {"none", job[w][c]}
    BY <1>8 DEF Crash, TypeOK, history
  <2>. QED
    BY <1>4, <2>1
<1>9. ASSUME NEW x \in Workers, Poll(x) \/ StartRetries(x) \/ EndCycle(x) PROVE live'[c] > 0
  BY <1>4, <1>9 DEF Poll, StartRetries, EndCycle, history
<1>10. ASSUME People PROVE live'[c] > 0
  BY <1>4, <1>10, PeopleWrite DEF OpenRequest, HandlerWrite, WriteRow, workerVars, history
<1>11. CASE Tick \/ UNCHANGED vars
  BY <1>4, <1>11 DEF Tick, vars, workerVars, history
<1>. QED
  BY <1>6, <1>7, <1>8, <1>9, <1>10, <1>11 DEF Next, Progress, Fault

\* A row whose state maps to the same state as before.
Kept(c) ==
  /\ ClaimOf'[c] = ClaimOf[c]
  /\ HolderOf'[c] = HolderOf[c]
  /\ CopiesOf'[c] = CopiesOf[c]

LEMMA RowKept ==
  ASSUME NEW c \in Children, Clean(c)' <=> Clean(c), status'[c] = status[c], live'[c] = live[c],
         \A w \in Workers : job'[w][c] = "none" <=> job[w][c] = "none"
  PROVE  Kept(c)
<1>1. {w \in Workers : job'[w][c] # "none"} = {w \in Workers : job[w][c] # "none"}
  OBVIOUS
<1>. QED
  BY <1>1 DEF Kept, ClaimOf, HolderOf, CopiesOf

\* What has left the promise stays out of it.
LEMMA VoidKept ==
  ASSUME NEW c \in Children, ~Clean(c), ~Clean(c)'
  PROVE  Kept(c)
BY DEF Kept, ClaimOf, HolderOf, CopiesOf

\* The maps are functions, before and after.
LEMMA MapsAre ==
  /\ ClaimOf = [c \in Children |-> ClaimOf[c]] /\ ClaimOf' = [c \in Children |-> ClaimOf'[c]]
  /\ HolderOf = [c \in Children |-> HolderOf[c]] /\ HolderOf' = [c \in Children |-> HolderOf'[c]]
  /\ CopiesOf = [c \in Children |-> CopiesOf[c]] /\ CopiesOf' = [c \in Children |-> CopiesOf'[c]]
BY DEF ClaimOf, HolderOf, CopiesOf

LEMMA SameMap ==
  ASSUME NEW S, NEW f, NEW g, f = [x \in S |-> f[x]], g = [x \in S |-> g[x]],
         \A x \in S : g[x] = f[x]
  PROVE  g = f
OBVIOUS

LEMMA OneChanged ==
  ASSUME NEW S, NEW f, NEW g, f = [x \in S |-> f[x]], g = [x \in S |-> g[x]],
         NEW c \in S, NEW v, g[c] = v, \A x \in S \ {c} : g[x] = f[x]
  PROVE  g = [f EXCEPT ![c] = v]
OBVIOUS

LEMMA AllKept ==
  ASSUME \A c \in Children : Kept(c)
  PROVE  UNCHANGED <<ClaimOf, HolderOf, CopiesOf>>
BY MapsAre, SameMap DEF Kept

\* Every step maps to a step of the abstract specification or to a stutter.
LEMMA PromiseStep ==
  ASSUME TypeOK, ClaimIsExclusive, AnsweredIsUp, [Next]_vars
  PROVE  Promise!Next \/ UNCHANGED <<ClaimOf, HolderOf, CopiesOf>>
<1>0. ASSUME NEW c \in Children, Clean(c) PROVE Good(c)
  BY <1>0 DEF ClaimIsExclusive, Good
<1>1. ASSUME UNCHANGED <<status, job, history>>
      PROVE  UNCHANGED <<ClaimOf, HolderOf, CopiesOf>>
  BY <1>1, AllKept, RowKept DEF Clean, history
<1>2. ASSUME NEW w \in Workers, Poll(w) \/ StartRetries(w) \/ EndCycle(w)
      PROVE  UNCHANGED <<ClaimOf, HolderOf, CopiesOf>>
  BY <1>1, <1>2 DEF Poll, StartRetries, EndCycle
<1>3. CASE Tick \/ UNCHANGED vars
  BY <1>1, <1>3 DEF Tick, vars, workerVars
<1>4. ASSUME NEW c \in Children, OpenRequest(c)
      PROVE  UNCHANGED <<ClaimOf, HolderOf, CopiesOf>>
  BY <1>1, <1>4 DEF OpenRequest, workerVars
\* A worker's step on row c changes the job of that row alone.
<1>5. ASSUME NEW w \in Workers, NEW c \in Children, NEW v \in JobState,
             job' = [job EXCEPT ![w][c] = v]
      PROVE  /\ \A x \in Workers, y \in Children \ {c} : job'[x][y] = job[x][y]
             /\ \A x \in Workers : job'[x][c] = IF x = w THEN v ELSE job[x][c]
  BY <1>5, OneEntry
<1>6. ASSUME NEW w \in Workers, NEW p \in Posts, ClaimGroup(w, p)
      PROVE  Promise!Next
  <2>. DEFINE taken == {c \in Claimable(w, p) : Clean(c)}
  <2>1. /\ \A c \in Children : status'[c] = IF c \in Claimable(w, p) THEN "publishing" ELSE status[c]
        /\ \A x \in Workers, c \in Children :
             job'[x][c] = IF x = w /\ c \in Claimable(w, p) THEN "ready" ELSE job[x][c]
        /\ UNCHANGED history
    BY <1>6 DEF ClaimGroup, Claim, TypeOK
  <2>2. \A c \in Children : (Clean(c)' <=> Clean(c)) /\ live'[c] = live[c]
    BY <2>1 DEF history, Clean
  <2>3. ASSUME NEW c \in Children, c \notin taken PROVE Kept(c)
    BY <2>1, <2>2, <2>3, RowKept, VoidKept
  <2>4. ASSUME NEW c \in Children, c \in taken
        PROVE  /\ ClaimOf[c] = "free" /\ ClaimOf'[c] = "held" /\ HolderOf'[c] = {w}
               /\ CopiesOf'[c] = CopiesOf[c]
    <3>1. status[c] = "scheduled" /\ status'[c] = "publishing" /\ Clean(c) /\ Clean(c)'
      BY <2>1, <2>2, <2>4 DEF Claimable
    <3>2. \A x \in Workers : job[x][c] = "none"
      BY <1>0, <3>1 DEF Good, AttemptMatchesRow
    <3>3. {x \in Workers : job'[x][c] # "none"} = {w}
      BY <2>1, <2>4, <3>2
    <3>. QED
      BY <2>2, <3>1, <3>3 DEF ClaimOf, HolderOf, CopiesOf
  <2>5. taken \in SUBSET Children
    BY DEF Claimable, Polled, Siblings
  <2>6. ClaimOf' = [c \in Children |-> IF c \in taken THEN "held" ELSE ClaimOf[c]]
    <3>1. \A c \in Children : ClaimOf'[c] = IF c \in taken THEN "held" ELSE ClaimOf[c]
      BY <2>3, <2>4 DEF Kept
    <3>. QED
      BY <3>1, MapsAre
  <2>7. HolderOf' = [c \in Children |-> IF c \in taken THEN {w} ELSE HolderOf[c]]
    <3>1. \A c \in Children : HolderOf'[c] = IF c \in taken THEN {w} ELSE HolderOf[c]
      BY <2>3, <2>4 DEF Kept
    <3>. QED
      BY <3>1, MapsAre
  <2>8. CopiesOf' = CopiesOf
    <3>1. \A c \in Children : CopiesOf'[c] = CopiesOf[c]
      BY <2>3, <2>4 DEF Kept
    <3>. QED
      BY <3>1, MapsAre, SameMap
  <2>9. Promise!Take(taken, {w})
    <3>. HIDE DEF taken
    <3>. QED
      BY <2>4, <2>5, <2>6, <2>7, <2>8 DEF Promise!Take
  <2>. QED
    BY <2>5, <2>9 DEF Promise!Next
<1>7. ASSUME NEW w \in Workers, NEW c \in Children, CheckRetry(w, c) \/ MarkRetry(w, c)
      PROVE  UNCHANGED <<ClaimOf, HolderOf, CopiesOf>>
  <2>1. ~Clean(c)
    <3>1. c \in picked[w] \/ job[w][c] = "checked"
      BY <1>7, Zenon DEF CheckRetry, MarkRetry, TakeRetry
    <3>. QED
      BY <1>0, <3>1 DEF Good, NeverRetried
  <2>2. UNCHANGED history
    BY <1>7 DEF CheckRetry, MarkRetry, TakeRetry
  <2>3. \A y \in Children \ {c} : status'[y] = status[y]
    BY <1>7 DEF CheckRetry, MarkRetry, TakeRetry, TypeOK
  <2>4. job' = job \/ \E v \in JobState : job' = [job EXCEPT ![w][c] = v]
    BY <1>7, Zenon DEF CheckRetry, MarkRetry, TakeRetry, JobState
  <2>5. \A x \in Workers, y \in Children \ {c} : job'[x][y] = job[x][y]
    BY <1>5, <2>4
  <2>6. \A y \in Children : Clean(y)' <=> Clean(y)
    BY <2>2 DEF history, Clean
  <2>7. \A y \in Children : Kept(y)
    BY <2>2, <2>1, <2>3, <2>5, <2>6, RowKept, VoidKept DEF history
  <2>. QED
    BY <2>7, AllKept
<1>8. ASSUME NEW w \in Workers, NEW c \in Children, CallProvider(w, c)
      PROVE  Promise!Next \/ UNCHANGED <<ClaimOf, HolderOf, CopiesOf>>
  <2>1. PICK v \in {"accepted", "failing", "fatal"} : job' = [job EXCEPT ![w][c] = v]
    BY <1>8 DEF CallProvider
  <2>2. /\ \A x \in Workers, y \in Children : job'[x][y] = "none" <=> job[x][y] = "none"
        /\ status' = status /\ \A y \in Children : Clean(y)' <=> Clean(y)
        /\ job[w][c] = "ready"
    <3>1. v \in JobState /\ v # "none"
      BY DEF JobState
    <3>2. job[w][c] = "ready" /\ status' = status /\ faltered' = faltered /\ overridden' = overridden
      BY <1>8 DEF CallProvider
    <3>. QED
      BY <1>5, <2>1, <3>1, <3>2 DEF Clean
  <2>3. ASSUME NEW y \in Children \ {c} PROVE Kept(y)
    <3>1. live'[y] = live[y]
      BY <1>8 DEF CallProvider, TypeOK
    <3>. QED
      BY <2>2, <3>1, RowKept
  <2>4. CASE ~Clean(c) \/ live' = live
    <3>1. Kept(c)
      BY <2>2, <2>4, RowKept, VoidKept
    <3>. QED
      BY <2>3, <3>1, AllKept
  <2>5. CASE Clean(c) /\ live' # live
    <3>1. live[c] = 0 /\ status[c] = "publishing"
      BY <1>0, <2>2, <2>5 DEF Good, AttemptMatchesRow
    <3>2. live'[c] = 1
      BY <1>8, <2>5, <3>1 DEF CallProvider, TypeOK, Capped
    <3>3. w \in {x \in Workers : job[x][c] # "none"}
      BY <2>2
    <3>4. {x \in Workers : job'[x][c] # "none"} = {x \in Workers : job[x][c] # "none"}
      BY <2>2
    <3>5. /\ ClaimOf[c] = "held" /\ ClaimOf'[c] = "held" /\ HolderOf[c] # {}
          /\ HolderOf'[c] = HolderOf[c] /\ CopiesOf[c] = 0 /\ CopiesOf'[c] = 1
      BY <2>2, <2>5, <3>1, <3>2, <3>3, <3>4 DEF ClaimOf, HolderOf, CopiesOf
    <3>6. ClaimOf' = ClaimOf /\ HolderOf' = HolderOf
      BY <2>3, <3>5, MapsAre, SameMap DEF Kept
    <3>7. CopiesOf' = [CopiesOf EXCEPT ![c] = 1]
      BY <2>3, <3>5, MapsAre, OneChanged DEF Kept
    <3>8. Promise!PutUp(c)
      BY <3>5, <3>6, <3>7 DEF Promise!PutUp
    <3>. QED
      BY <3>8 DEF Promise!Next
  <2>. QED
    BY <2>4, <2>5
<1>9. ASSUME NEW w \in Workers, NEW c \in Children, RecordPublished(w, c)
      PROVE  Promise!Next \/ UNCHANGED <<ClaimOf, HolderOf, CopiesOf>>
  <2>1. /\ job[w][c] = "accepted" /\ job' = [job EXCEPT ![w][c] = "recorded"]
        /\ status' = [status EXCEPT ![c] = "published"] /\ UNCHANGED history
    BY <1>9 DEF RecordPublished
  <2>2. /\ \A x \in Workers, y \in Children : job'[x][y] = "none" <=> job[x][y] = "none"
        /\ \A y \in Children : (Clean(y)' <=> Clean(y)) /\ live'[y] = live[y]
    BY <1>5, <2>1 DEF Clean, history, JobState
  <2>3. ASSUME NEW y \in Children \ {c} PROVE Kept(y)
    <3>1. status'[y] = status[y]
      BY <2>1 DEF TypeOK
    <3>. QED
      BY <2>2, <3>1, RowKept
  <2>4. CASE ~Clean(c)
    <3>1. Kept(c)
      BY <2>2, <2>4, VoidKept
    <3>. QED
      BY <2>3, <3>1, AllKept
  <2>5. CASE Clean(c)
    <3>1. status[c] = "publishing" /\ live[c] <= 1 /\ status'[c] = "published"
      BY <1>0, <2>1, <2>5 DEF Good, AttemptMatchesRow, TypeOK
    <3>2. live[c] = 1
      <4>1. live[c] \in 0 .. 2
        BY DEF TypeOK
      <4>2. live[c] > 0
        BY <2>1 DEF AnsweredIsUp
      <4>. QED
        BY <3>1, <4>1, <4>2
    <3>3. w \in {x \in Workers : job[x][c] # "none"}
      BY <2>1
    <3>4. {x \in Workers : job'[x][c] # "none"} = {x \in Workers : job[x][c] # "none"}
      BY <2>2
    <3>5. /\ ClaimOf[c] = "held" /\ ClaimOf'[c] = "done" /\ HolderOf[c] # {}
          /\ HolderOf'[c] = HolderOf[c] /\ CopiesOf[c] = 1 /\ CopiesOf'[c] = CopiesOf[c]
      BY <2>2, <2>5, <3>1, <3>2, <3>3, <3>4 DEF ClaimOf, HolderOf, CopiesOf
    <3>6. CopiesOf' = CopiesOf /\ HolderOf' = HolderOf
      BY <2>3, <3>5, MapsAre, SameMap DEF Kept
    <3>7. ClaimOf' = [ClaimOf EXCEPT ![c] = "done"]
      BY <2>3, <3>5, MapsAre, OneChanged DEF Kept
    <3>8. Promise!Settle(c)
      BY <3>5, <3>6, <3>7 DEF Promise!Settle
    <3>. QED
      BY <3>8 DEF Promise!Next
  <2>. QED
    BY <2>4, <2>5
\* A worker that lets go of some rows, for whatever reason.
<1>10. ASSUME NEW w \in Workers, NEW left \in SUBSET Children, UNCHANGED <<status, history>>,
              \A x \in Workers, y \in Children :
                job'[x][y] = IF x = w /\ y \in left THEN "none" ELSE job[x][y]
       PROVE  Promise!Next
  <2>1. \A y \in Children : (Clean(y)' <=> Clean(y)) /\ live'[y] = live[y] /\ status'[y] = status[y]
    BY <1>10 DEF Clean, history
  <2>2. ClaimOf' = ClaimOf /\ CopiesOf' = CopiesOf
    <3>1. \A y \in Children : ClaimOf'[y] = ClaimOf[y] /\ CopiesOf'[y] = CopiesOf[y]
      BY <2>1 DEF ClaimOf, CopiesOf
    <3>. QED
      BY <3>1, MapsAre, SameMap
  <2>3. ASSUME NEW y \in Children
        PROVE  HolderOf'[y] = IF y \in left THEN HolderOf[y] \ {w} ELSE HolderOf[y]
    <3>1. {x \in Workers : job'[x][y] # "none"}
            = IF y \in left THEN {x \in Workers : job[x][y] # "none"} \ {w}
                            ELSE {x \in Workers : job[x][y] # "none"}
      BY <1>10
    <3>. QED
      BY <2>1, <3>1 DEF HolderOf
  <2>4. HolderOf' = [y \in Children |-> IF y \in left THEN HolderOf[y] \ {w} ELSE HolderOf[y]]
    BY <2>3, MapsAre
  <2>5. Promise!LetGo(w, left)
    BY <2>2, <2>4 DEF Promise!LetGo
  <2>. QED
    BY <2>5 DEF Promise!Next
<1>11. ASSUME NEW w \in Workers, NEW c \in Children, FinishAttempt(w, c) \/ AbortAttempt(w, c)
       PROVE  Promise!Next
  <2>1. job' = [job EXCEPT ![w][c] = "none"] /\ UNCHANGED <<status, history>>
    BY <1>11 DEF FinishAttempt, AbortAttempt
  <2>2. \A x \in Workers, y \in Children :
          job'[x][y] = IF x = w /\ y \in {c} THEN "none" ELSE job[x][y]
    BY <2>1, OneEntry DEF JobState
  <2>3. {c} \in SUBSET Children
    OBVIOUS
  <2>. QED
    BY <1>10, <2>1, <2>2, <2>3
<1>12. ASSUME NEW w \in Workers, Crash(w) PROVE Promise!Next
  <2>1. /\ UNCHANGED <<status, history>>
        /\ \A x \in Workers, y \in Children :
             job'[x][y] = IF x = w /\ y \in Children THEN "none" ELSE job[x][y]
    BY <1>12 DEF Crash, TypeOK
  <2>. QED
    BY <1>10, <2>1
<1>13. ASSUME NEW w \in Workers, NEW c \in Children, BookkeepingFails(w, c)
       PROVE  UNCHANGED <<ClaimOf, HolderOf, CopiesOf>>
  <2>1. /\ job' = [job EXCEPT ![w][c] = "failing"] /\ job[w][c] \in {"accepted", "recorded"}
        /\ UNCHANGED <<status, history>>
    BY <1>13 DEF BookkeepingFails
  <2>2. /\ \A x \in Workers, y \in Children : job'[x][y] = "none" <=> job[x][y] = "none"
        /\ \A y \in Children : (Clean(y)' <=> Clean(y)) /\ live'[y] = live[y]
    BY <1>5, <2>1 DEF Clean, history, JobState
  <2>. QED
    BY <2>1, <2>2, RowKept, AllKept
\* A row that leaves the promise.
<1>14. ASSUME NEW c \in Children, ~Clean(c)', \A y \in Children \ {c} : Kept(y)
       PROVE  Promise!Next
  <2>1. ClaimOf'[c] = "void" /\ HolderOf'[c] = {} /\ CopiesOf'[c] = 0
    BY <1>14 DEF ClaimOf, HolderOf, CopiesOf
  <2>2. /\ ClaimOf' = [ClaimOf EXCEPT ![c] = "void"]
        /\ HolderOf' = [HolderOf EXCEPT ![c] = {}]
        /\ CopiesOf' = [CopiesOf EXCEPT ![c] = 0]
    BY <1>14, <2>1, MapsAre, OneChanged DEF Kept
  <2>3. Promise!Void(c)
    BY <2>2 DEF Promise!Void
  <2>. QED
    BY <2>3 DEF Promise!Next
<1>15. ASSUME NEW w \in Workers, NEW c \in Children, RecordFailure(w, c)
       PROVE  Promise!Next
  <2>1. PICK s, e : EndFailed(w, c, s, e)
    BY <1>15 DEF RecordFailure
  <2>2. ~Clean(c)'
    BY <2>1 DEF EndFailed, Clean
  <2>3. ASSUME NEW y \in Children \ {c} PROVE Kept(y)
    <3>1. status'[y] = status[y] /\ live'[y] = live[y] /\ (Clean(y)' <=> Clean(y))
      BY <2>1 DEF EndFailed, Clean, TypeOK
    <3>2. \A x \in Workers : job'[x][y] = job[x][y]
      BY <1>5, <2>1 DEF EndFailed, JobState
    <3>. QED
      BY <3>1, <3>2, RowKept
  <2>. QED
    BY <1>14, <2>2, <2>3
<1>16. ASSUME NEW r \in requests, NEW s, NEW e, HandlerWrite(r, s, e)
       PROVE  Promise!Next \/ UNCHANGED <<ClaimOf, HolderOf, CopiesOf>>
  <2>. DEFINE c == r.child
  <2>1. WriteRow(r, s, e) /\ c \in Children
    BY <1>16, RequestFacts DEF HandlerWrite
  <2>2. job' = job /\ live' = live
    BY <2>1 DEF WriteRow, workerVars
  <2>3. ASSUME NEW y \in Children \ {c} PROVE Kept(y)
    <3>1. status'[y] = status[y] /\ (Clean(y)' <=> Clean(y))
      BY <2>1 DEF WriteRow, Clean, TypeOK
    <3>. QED
      BY <2>2, <3>1, RowKept
  <2>4. CASE ~Clean(c)'
    BY <1>14, <2>1, <2>3, <2>4
  <2>5. CASE Clean(c)'
    <3>1. Clean(c) /\ status[c] # "publishing" /\ r.status = status[c] /\ status'[c] = s
      BY <2>1, <2>5 DEF WriteRow, Clean, TypeOK
    <3>2. s = "published" <=> status[c] = "published"
      BY <1>16, <3>1 DEF HandlerWrite
    <3>3. CASE s # "publishing"
      <4>1. ClaimOf'[c] = ClaimOf[c]
        BY <2>1, <2>5, <3>1, <3>2, <3>3 DEF ClaimOf
      <4>2. HolderOf'[c] = HolderOf[c] /\ CopiesOf'[c] = CopiesOf[c]
        BY <2>1, <2>2, <2>5, <3>1 DEF HolderOf, CopiesOf
      <4>3. \A y \in Children : Kept(y)
        BY <2>3, <4>1, <4>2 DEF Kept
      <4>. QED
        BY <4>3, AllKept
    <3>4. CASE s = "publishing"
      <4>1. status[c] \notin {"publishing", "published"}
        BY <3>1, <3>2, <3>4
      <4>2. \A x \in Workers : job[x][c] = "none"
        BY <1>0, <2>1, <3>1, <4>1 DEF Good, AttemptMatchesRow
      <4>3. /\ ClaimOf[c] = "free" /\ ClaimOf'[c] = "held"
            /\ HolderOf[c] = {} /\ HolderOf'[c] = {} /\ CopiesOf'[c] = CopiesOf[c]
        BY <2>1, <2>2, <2>5, <3>1, <3>4, <4>1, <4>2 DEF ClaimOf, HolderOf, CopiesOf
      <4>4. ClaimOf' = [y \in Children |-> IF y \in {c} THEN "held" ELSE ClaimOf[y]]
        BY <2>3, <4>3, MapsAre DEF Kept
      <4>5. HolderOf' = [y \in Children |-> IF y \in {c} THEN {} ELSE HolderOf[y]]
        BY <2>3, <4>3, MapsAre DEF Kept
      <4>6. CopiesOf' = CopiesOf
        BY <2>3, <4>3, MapsAre, SameMap DEF Kept
      <4>7. {c} \in SUBSET Children /\ Promise!Take({c}, {})
        BY <2>1, <4>3, <4>4, <4>5, <4>6 DEF Promise!Take
      <4>. QED
        BY <4>7 DEF Promise!Next
    <3>. QED
      BY <3>3, <3>4
  <2>. QED
    BY <2>4, <2>5
<1>17. ASSUME NEW w \in Workers, Progress(w) \/ Fault(w)
       PROVE  Promise!Next \/ UNCHANGED <<ClaimOf, HolderOf, CopiesOf>>
  BY <1>2, <1>6, <1>7, <1>8, <1>9, <1>11, <1>12, <1>13, <1>15, <1>17
     DEF Progress, Attempt, Fault
<1>18. CASE People
  BY <1>4, <1>16, <1>18, PeopleWrite
<1>. QED
  BY <1>3, <1>17, <1>18 DEF Next

\* The claim keeps what FirstAttempt promises, for any number of workers and rows:
\* one worker takes a clean row, once, and only that one posts it; a row that
\* reads published was posted, once; and a claim whose worker died is not taken over.
THEOREM FirstAttemptKept == Spec => KeepsFirstAttempt
<1>1. Init => Promise!Init
  <2>. SUFFICES ASSUME Init PROVE Promise!Init
    OBVIOUS
  <2>1. ASSUME NEW c \in Children
        PROVE  /\ status[c] \notin {"publishing", "published"} /\ Clean(c) /\ live[c] = 0
               /\ {w \in Workers : job[w][c] # "none"} = {}
    BY DEF Init, Clean
  <2>2. \A c \in Children : ClaimOf[c] = "free" /\ HolderOf[c] = {} /\ CopiesOf[c] = 0
    BY <2>1 DEF ClaimOf, HolderOf, CopiesOf
  <2>3. /\ ClaimOf = [c \in Children |-> "free"]
        /\ HolderOf = [c \in Children |-> {}]
        /\ CopiesOf = [c \in Children |-> 0]
    BY <2>2, MapsAre
  <2>. QED
    BY <2>3 DEF Promise!Init
<1>2. Init => AnsweredIsUp
  BY DEF Init, AnsweredIsUp
<1>3. TypeOK /\ AnsweredIsUp /\ [Next]_vars => AnsweredIsUp'
  BY AnsweredStep
<1>4. TypeOK /\ ClaimIsExclusive /\ ClaimIsExclusive' /\ AnsweredIsUp /\ [Next]_vars
        => [Promise!Next]_(Promise!claimVars)
  BY PromiseStep DEF Promise!claimVars
<1>. QED
  BY <1>1, <1>2, <1>3, <1>4, TypeCorrect, ClaimExclusive, PTL
     DEF Spec, KeepsFirstAttempt, Promise!Spec

-------------------------------------------------------------------------------
(* The retry budget. *)

\* A row that nobody wrote while it was claimed or from a stale read: the calls
\* made for it are covered by the count in the row, or in the copy of the worker
\* that is at it.
Budgeted(c) ==
  /\ attempts[c] <= MaxRetries + 1
  /\ status[c] = "scheduled" => attempts[c] <= data[c].retries
  /\ \A w \in Workers :
       /\ c \in picked[w] => job[w][c] = "none" /\ attempts[c] <= mem[w][c].retries
       /\ job[w][c] \in {"checked", "ready"} => attempts[c] <= mem[w][c].retries
       /\ job[w][c] = "ready" => status[c] = "publishing"
       /\ job[w][c] # "none" => attempts[c] <= mem[w][c].retries + 1

BudgetInv ==
  /\ \A w \in Workers : phase[w] # "retry" => picked[w] = {}
  /\ \A c \in Children \ overridden : Budgeted(c)

\* A step that leaves the row alone, and its attempts alone or over.
LEMMA BudgetUntouched ==
  ASSUME NEW c \in Children, Budgeted(c),
         status'[c] = status[c], data'[c] = data[c], attempts'[c] = attempts[c],
         \A w \in Workers :
           /\ \/ job'[w][c] = job[w][c] /\ mem'[w][c] = mem[w][c]
              \/ job'[w][c] = "none" /\ c \notin picked'[w]
           /\ c \in picked'[w] => c \in picked[w]
  PROVE  Budgeted(c)'
<1>1. ASSUME NEW w \in Workers
      PROVE  /\ c \in picked'[w] => job'[w][c] = "none" /\ attempts'[c] <= mem'[w][c].retries
             /\ job'[w][c] \in {"checked", "ready"} => attempts'[c] <= mem'[w][c].retries
             /\ job'[w][c] = "ready" => status'[c] = "publishing"
             /\ job'[w][c] # "none" => attempts'[c] <= mem'[w][c].retries + 1
  BY DEF Budgeted
<1>. QED
  BY <1>1 DEF Budgeted

LEMMA BudgetStep ==
  ASSUME \A v, w \in Workers : v = w, TypeOK, BudgetInv, [Next]_vars
  PROVE  BudgetInv'
<1>0. /\ JobState = {"none", "checked", "ready", "accepted", "recorded", "failing", "fatal"}
      /\ Blank.retries = 0
      /\ \A d \in Data : d.retries \in 0 .. MaxRetries
      /\ \A c \in Children : /\ status[c] \in Status /\ data[c] \in Data
                             /\ attempts[c] \in 0 .. MaxRetries + 2
      /\ \A w \in Workers, c \in Children : mem[w][c] \in Data /\ job[w][c] \in JobState
      /\ MaxRetries \in Nat
  BY PublisherAssumption DEF JobState, Blank, TypeOK, Data
<1>a. ASSUME NEW w \in Workers, phase'[w] # "retry" PROVE picked'[w] = {}
  <2>. USE <1>a DEF TypeOK
  <2>1. ASSUME NEW x \in Workers
        PROVE  /\ Poll(x) \/ EndCycle(x) \/ StartRetries(x) \/ Crash(x) => picked'[w] = {}
               /\ \A p \in Posts : ClaimGroup(x, p) => picked'[w] = {}
               /\ \A c \in Children : CheckRetry(x, c) => picked'[w] = {}
    BY DEF BudgetInv, Poll, EndCycle, StartRetries, Crash, ClaimGroup, Claim, CheckRetry, TakeRetry
  <2>2. ASSUME NEW x \in Workers, NEW c \in Children,
               \/ MarkRetry(x, c) \/ CallProvider(x, c) \/ RecordPublished(x, c)
               \/ FinishAttempt(x, c) \/ RecordFailure(x, c) \/ BookkeepingFails(x, c)
               \/ AbortAttempt(x, c)
        PROVE  picked'[w] = {}
    BY <2>2 DEF BudgetInv, MarkRetry, CallProvider, RecordPublished, FinishAttempt, RecordFailure,
                EndFailed, BookkeepingFails, AbortAttempt
  <2>3. ASSUME \/ \E c \in Children : OpenRequest(c)
               \/ \E r \in requests : \E s, d : HandlerWrite(r, s, d)
               \/ Tick
               \/ UNCHANGED vars
        PROVE  picked'[w] = {}
    BY <2>3 DEF BudgetInv, OpenRequest, HandlerWrite, WriteRow, Tick, vars, workerVars
  <2>. QED
    BY <2>1, <2>2, <2>3, PeopleWrite DEF Next, Progress, Attempt, Fault
<1>. SUFFICES ASSUME NEW c \in Children \ overridden'
              PROVE  Budgeted(c)'
  BY <1>a DEF BudgetInv
<1>b. ASSUME c \notin overridden PROVE Budgeted(c)
  BY <1>b DEF BudgetInv
<1>2. ASSUME NEW w \in Workers, Poll(w) PROVE Budgeted(c)'
  BY <1>b, <1>2, BudgetUntouched DEF Poll, peopleVars, history
<1>3. ASSUME NEW w \in Workers, NEW p \in Posts, ClaimGroup(w, p) PROVE Budgeted(c)'
  <2>1. Budgeted(c) /\ picked' = picked /\ data' = data /\ attempts' = attempts
    BY <1>b, <1>3 DEF ClaimGroup, Claim, history
  <2>2. CASE c \notin Claimable(w, p)
    <3>1. /\ status'[c] = status[c]
          /\ \A x \in Workers : job'[x][c] = job[x][c] /\ mem'[x][c] = mem[x][c]
      BY <1>3, <2>2 DEF ClaimGroup, Claim, TypeOK
    <3>. QED
      BY <2>1, <3>1, BudgetUntouched
  <2>3. CASE c \in Claimable(w, p)
    <3>1. /\ status[c] = "scheduled" /\ status'[c] = "publishing"
          /\ job'[w][c] = "ready" /\ mem'[w][c] = data[c]
      BY <1>3, <2>3 DEF ClaimGroup, Claim, Claimable, TypeOK
    <3>2. picked'[w] = {}
      BY <1>3, <2>1 DEF ClaimGroup, Claim, BudgetInv
    <3>. QED
      BY <1>0, <2>1, <3>1, <3>2 DEF Budgeted
  <2>. QED
    BY <2>2, <2>3
<1>4. ASSUME NEW w \in Workers, StartRetries(w) PROVE Budgeted(c)'
  <2>1. /\ Budgeted(c) /\ status' = status /\ data' = data /\ attempts' = attempts
        /\ job' = job /\ job[w][c] = "none"
    BY <1>b, <1>4 DEF StartRetries, NoJobs, history
  <2>2. c \in picked'[w] => status[c] = "scheduled" /\ mem'[w][c] = data[c]
    BY <1>4 DEF StartRetries, IsRetryDue, TypeOK
  <2>. QED
    BY <2>1, <2>2 DEF Budgeted
<1>5. ASSUME NEW w \in Workers, EndCycle(w) PROVE Budgeted(c)'
  BY <1>b, <1>5, BudgetUntouched DEF EndCycle, peopleVars, history
<1>6. ASSUME NEW w \in Workers, NEW d \in Children, CheckRetry(w, d) PROVE Budgeted(c)'
  <2>1. /\ Budgeted(c) /\ status' = status /\ data' = data /\ attempts' = attempts
        /\ job[w][d] = "none" /\ d \in picked[w]
    BY <1>b, <1>6 DEF CheckRetry, TakeRetry, NoJobs, history
  <2>2. picked'[w] = picked[w] \ {d}
    BY <1>6 DEF CheckRetry, TakeRetry, TypeOK
  <2>3. CASE job' = job /\ mem' = [mem EXCEPT ![w][d] = Blank]
    <3>1. d # c => mem'[w][c] = mem[w][c]
      BY <2>3, OneEntry
    <3>. QED
      BY <2>1, <2>2, <2>3, <3>1, BudgetUntouched
  <2>4. CASE mem' = mem /\ job' = [job EXCEPT ![w][d] = "checked"]
    <3>1. job'[w][c] = IF c = d THEN "checked" ELSE job[w][c]
      BY <1>0, <2>4, OneEntry
    <3>2. CASE c = d
      <4>1. job'[w][c] = "checked" /\ attempts'[c] <= mem'[w][c].retries /\ c \notin picked'[w]
        BY <2>1, <2>2, <2>4, <3>1, <3>2 DEF Budgeted
      <4>. QED
        BY <1>0, <2>1, <2>4, <4>1 DEF Budgeted
    <3>3. CASE c # d
      BY <2>1, <2>2, <2>4, <3>1, <3>3, BudgetUntouched
    <3>. QED
      BY <3>2, <3>3
  <2>. QED
    BY <1>6, <2>3, <2>4, Zenon DEF CheckRetry, TakeRetry
\* The steps of a worker on one row, for another row.
<1>c. ASSUME NEW w \in Workers, NEW d \in Children, c # d,
             \/ MarkRetry(w, d) \/ CallProvider(w, d) \/ RecordPublished(w, d)
             \/ FinishAttempt(w, d) \/ RecordFailure(w, d) \/ BookkeepingFails(w, d)
             \/ AbortAttempt(w, d)
      PROVE  Budgeted(c)'
  <2>1. picked' = picked /\ overridden' = overridden
    BY <1>c DEF MarkRetry, CallProvider, RecordPublished, FinishAttempt, RecordFailure, EndFailed,
                BookkeepingFails, AbortAttempt, history
  <2>2. status'[c] = status[c] /\ data'[c] = data[c] /\ attempts'[c] = attempts[c]
    BY <1>c DEF MarkRetry, CallProvider, RecordPublished, FinishAttempt, RecordFailure, EndFailed,
                BookkeepingFails, AbortAttempt, history, TypeOK
  <2>3. \E v \in JobState : job' = [job EXCEPT ![w][d] = v]
    BY <1>c, <1>0 DEF MarkRetry, CallProvider, RecordPublished, FinishAttempt, RecordFailure,
                EndFailed, BookkeepingFails, AbortAttempt
  <2>4. mem' = mem \/ mem' = [mem EXCEPT ![w][d] = Blank]
    BY <1>c DEF MarkRetry, CallProvider, RecordPublished, FinishAttempt, RecordFailure,
                EndFailed, BookkeepingFails, AbortAttempt
  <2>5. job'[w][c] = job[w][c]
    BY <1>c, <2>3, OneEntry
  <2>6. mem'[w][c] = mem[w][c]
    <3>1. CASE mem' = mem
      BY <3>1
    <3>2. CASE mem' = [mem EXCEPT ![w][d] = Blank]
      <4>1. c \in Children /\ c # d
        BY <1>c
      <4>. QED
        BY <3>2, <4>1, OneEntry
    <3>. QED
      BY <2>4, <3>1, <3>2
  <2>. QED
    BY <1>b, <2>1, <2>2, <2>5, <2>6, BudgetUntouched
\* The same steps for the row itself, which is not picked any more.
<1>d. ASSUME NEW w \in Workers, NEW v \in JobState, job' = [job EXCEPT ![w][c] = v],
             picked' = picked, overridden' = overridden, job[w][c] # "none"
      PROVE  Budgeted(c) /\ job'[w][c] = v /\ c \notin picked'[w]
  <2>1. Budgeted(c) /\ c \in Children
    BY <1>b, <1>d
  <2>2. job'[w][c] = v
    BY <1>d, <2>1, OneEntry
  <2>. QED
    BY <1>d, <2>1, <2>2 DEF Budgeted
<1>7. ASSUME NEW w \in Workers, MarkRetry(w, c) PROVE Budgeted(c)'
  <2>1. /\ Budgeted(c) /\ job'[w][c] = "ready" /\ c \notin picked'[w] /\ mem' = mem
        /\ attempts' = attempts /\ attempts[c] <= mem[w][c].retries
    BY <1>0, <1>7, <1>d DEF MarkRetry, history, Budgeted
  <2>2. status'[c] = "publishing"
    BY <1>7 DEF MarkRetry, TypeOK
  <2>. QED
    BY <1>0, <2>1, <2>2 DEF Budgeted
<1>8. ASSUME NEW w \in Workers, CallProvider(w, c) PROVE Budgeted(c)'
  <2>1. PICK v \in {"accepted", "failing", "fatal"} : job' = [job EXCEPT ![w][c] = v]
    BY <1>8 DEF CallProvider
  <2>2. /\ Budgeted(c) /\ job'[w][c] = v /\ c \notin picked'[w] /\ mem' = mem
        /\ status' = status
    BY <1>0, <1>8, <1>d, <2>1 DEF CallProvider
  <2>3. attempts[c] <= mem[w][c].retries /\ status[c] = "publishing"
    BY <1>8, <2>2 DEF CallProvider, Budgeted
  <2>4. attempts'[c] = attempts[c] + 1
    BY <1>0, <1>8, <2>3 DEF CallProvider, Capped, TypeOK
  <2>5. mem[w][c].retries \in 0 .. MaxRetries
    BY <1>0
  <2>. QED
    BY <1>0, <2>1, <2>2, <2>3, <2>4, <2>5 DEF Budgeted
<1>9. ASSUME NEW w \in Workers, RecordPublished(w, c) PROVE Budgeted(c)'
  <2>1. /\ Budgeted(c) /\ job'[w][c] = "recorded" /\ c \notin picked'[w] /\ mem' = mem
        /\ attempts' = attempts /\ job[w][c] = "accepted"
    BY <1>0, <1>9, <1>d DEF RecordPublished, history
  <2>2. status'[c] = "published"
    BY <1>9 DEF RecordPublished, TypeOK
  <2>. QED
    BY <1>0, <2>1, <2>2 DEF Budgeted
<1>10. ASSUME NEW w \in Workers, FinishAttempt(w, c) \/ AbortAttempt(w, c) PROVE Budgeted(c)'
  <2>1. /\ Budgeted(c) /\ job'[w][c] = "none" /\ c \notin picked'[w]
    BY <1>0, <1>10, <1>d DEF FinishAttempt, AbortAttempt, history
  <2>. QED
    BY <1>0, <1>10, <2>1, BudgetUntouched DEF FinishAttempt, AbortAttempt, history
<1>11. ASSUME NEW w \in Workers, RecordFailure(w, c) PROVE Budgeted(c)'
  <2>1. PICK s, e :
          /\ s \in {"failed", "scheduled"}
          /\ EndFailed(w, c, s, e)
          /\ s = "scheduled" => e.retries = mem[w][c].retries + 1
    <3>1. mem[w][c] \in Data
      BY <1>0
    <3>2. Charged(mem[w][c]).retries = mem[w][c].retries + 1
      BY <3>1 DEF Charged, Data
    <3>. QED
      BY <1>11, <3>2 DEF RecordFailure
  <2>2. /\ Budgeted(c) /\ job'[w][c] = "none" /\ c \notin picked'[w]
        /\ attempts' = attempts /\ job[w][c] # "none"
    BY <1>0, <1>11, <1>d, <2>1 DEF RecordFailure, EndFailed
  <2>3. status'[c] = s /\ data'[c] = e
    BY <2>1 DEF EndFailed, TypeOK
  <2>. QED
    BY <1>0, <2>1, <2>2, <2>3 DEF Budgeted
<1>12. ASSUME NEW w \in Workers, BookkeepingFails(w, c) PROVE Budgeted(c)'
  <2>1. /\ Budgeted(c) /\ job'[w][c] = "failing" /\ c \notin picked'[w] /\ mem' = mem
        /\ attempts' = attempts /\ status' = status /\ data' = data /\ job[w][c] # "none"
    BY <1>0, <1>12, <1>d DEF BookkeepingFails, history
  <2>. QED
    BY <1>0, <2>1 DEF Budgeted
<1>13. ASSUME NEW w \in Workers, Crash(w) PROVE Budgeted(c)'
  <2>1. job'[w][c] = "none" /\ picked'[w] = {}
    BY <1>13 DEF Crash, TypeOK
  <2>. QED
    BY <1>b, <1>13, <2>1, BudgetUntouched DEF Crash, peopleVars, history
<1>14. ASSUME NEW d \in Children, OpenRequest(d) PROVE Budgeted(c)'
  BY <1>b, <1>14, BudgetUntouched DEF OpenRequest, workerVars, history
<1>15. ASSUME NEW r \in requests, NEW s, NEW e, HandlerWrite(r, s, e) PROVE Budgeted(c)'
  <2>1. WriteRow(r, s, e) /\ r.child \in Children /\ e \in Data
    BY <1>15, RequestFacts DEF HandlerWrite
  <2>2. Budgeted(c) /\ job' = job /\ mem' = mem /\ picked' = picked
    BY <1>b, <2>1 DEF WriteRow, workerVars
  <2>3. CASE r.child # c
    <3>1. status'[c] = status[c] /\ data'[c] = data[c] /\ attempts'[c] = attempts[c]
      BY <2>1, <2>3 DEF WriteRow, TypeOK
    <3>. QED
      BY <2>2, <3>1, BudgetUntouched
  <2>4. CASE r.child = c
    <3>1. status[c] # "publishing" /\ attempts'[c] = 0 /\ data'[c] = e
      BY <2>1, <2>4 DEF WriteRow, TypeOK
    <3>2. e.retries \in 0 .. MaxRetries /\ \A w \in Workers : mem[w][c].retries \in 0 .. MaxRetries
      BY <1>0, <2>1
    <3>3. \A w \in Workers : job[w][c] # "ready"
      BY <2>2, <3>1 DEF Budgeted
    <3>. QED
      BY <1>0, <2>2, <3>1, <3>2, <3>3 DEF Budgeted
  <2>. QED
    BY <2>3, <2>4
<1>16. CASE Tick
  BY <1>b, <1>16, BudgetUntouched DEF Tick, workerVars, peopleVars, history
<1>17. CASE UNCHANGED vars
  BY <1>b, <1>17, BudgetUntouched DEF vars, workerVars, peopleVars, history
<1>. QED
  BY <1>2, <1>3, <1>4, <1>5, <1>6, <1>c, <1>7, <1>8, <1>9, <1>10, <1>11, <1>12, <1>13,
     <1>14, <1>15, <1>16, <1>17, PeopleWrite
     DEF Next, Progress, Attempt, Fault

\* RetryBudget: where one worker publishes, whatever the provider answers and
\* whichever write raises, it is called at most MAX_RETRIES + 1 times for a row
\* between two writes of a person.  Two workers that read the same count on the
\* retry path, which takes no lock, would each charge it once.
THEOREM RetriesWithinBudget ==
  ASSUME \A v, w \in Workers : v = w
  PROVE  Spec => []RetryBudget
<1>1. Init => BudgetInv
  BY PublisherAssumption DEF Init, BudgetInv, Budgeted, Blank
<1>2. TypeOK /\ BudgetInv /\ [Next]_vars => BudgetInv'
  BY BudgetStep
<1>3. BudgetInv => RetryBudget
  BY DEF BudgetInv, Budgeted, RetryBudget
<1>. QED
  BY <1>1, <1>2, <1>3, TypeCorrect, PTL DEF Spec

===============================================================================

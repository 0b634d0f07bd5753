----------------------------- MODULE PostsApiProofs -----------------------------
(***************************************************************************)
(* Proofs about PostsApi, for any number of requests, keys and calls: a    *)
(* key makes one post, its answers are true, and the API implements        *)
(* KeyContract.                                                            *)
(***************************************************************************)
EXTENDS PostsApi, FiniteSetTheorems, TLAPS

\* The steps of a request that has inserted its key's row.
Holding(r) == step[r] \in {"claimed", "checked", "created", "failing"}

\* A key's row belongs to one request, which has begun.
OwnerIsOne ==
  \A k \in Keys : \A o \in owner[k] :
    /\ KeyOf[o] = k
    /\ step[o] \notin {"new", "lookup"}
    /\ owner[k] = {o}

\* While a request runs, its row is there and young.
HolderOwns == \A r \in Requests : Holding(r) => owner[KeyOf[r]] = {r} /\ KeyOf[r] \notin aged

\* An answer is the post of the row's owner, which is past its creation.
AnswerIsOwners ==
  \A k \in Keys : \A p \in answer[k] :
    answer[k] = owner[k] /\ Exists(p) /\ step[p] \in {"failing", "over"}

\* Only rows that are there are old.
AgedIsThere == \A k \in aged : owner[k] # {}

\* A request creates its post when it says so.
CreatesOnce ==
  \A r \in Requests :
    /\ step[r] \in {"new", "lookup", "claimed", "checked"} => ~Exists(r)
    /\ step[r] = "created" => Exists(r)

\* A call has read a post that exists.
CallsExist == \A c \in Calls : \A p \in call[c].post : Exists(p)

\* A post that is not spoiled is accounted for by its key's row: its request
\* still runs, or the row holds the answer.
PostIsAccounted ==
  \A p \in Requests :
    Exists(p) /\ p \notin spoiled =>
      /\ owner[KeyOf[p]] = {p}
      /\ step[p] = "created" \/ answer[KeyOf[p]] = {p}

KeyInv ==
  /\ ApiTypeOK
  /\ OwnerIsOne
  /\ HolderOwns
  /\ AnswerIsOwners
  /\ AgedIsThere
  /\ CreatesOnce
  /\ CallsExist
  /\ PostIsAccounted
  /\ AnswersAreTrue

\* The parts of KeyInv that speak of more than types.
KeyParts ==
  /\ OwnerIsOne
  /\ HolderOwns
  /\ AnswerIsOwners
  /\ AgedIsThere
  /\ CreatesOnce
  /\ CallsExist
  /\ PostIsAccounted
  /\ AnswersAreTrue

--------------------------------------------------------------------------------
(* Type correctness. *)

\* The type invariant is inductive.
LEMMA ApiTypeInductive == ASSUME ApiTypeOK, [ApiNext]_apiVars PROVE ApiTypeOK'
<1> USE ApiAssumption DEF ApiTypeOK, keyVars, postVars, Steps, PostStatus, Call
<1>1. CASE UNCHANGED apiVars
  BY <1>1 DEF apiVars
<1>2. ASSUME NEW r \in Requests, Proceed(r) PROVE ApiTypeOK'
  <2>1. CASE Claim(r)
    BY <2>1 DEF Claim, Goto
  <2>2. CASE Lookup(r)
    BY <2>2 DEF Lookup, Respond, Goto
  <2>3. CASE CheckQuota(r)
    <3>1. contended' \in BOOLEAN
      BY <2>3, Zenon DEF CheckQuota
    <3> QED BY <2>3, <3>1 DEF CheckQuota, Goto
  <2>4. CASE Create(r)
    BY <2>4 DEF Create, Goto
  <2>5. CASE Finalize(r)
    BY <2>5 DEF Finalize, Respond, Goto
  <2>6. CASE BreakAfterCreate(r)
    BY <2>6 DEF BreakAfterCreate, Goto
  <2>7. CASE Release(r)
    BY <2>7 DEF Release, Respond, Goto
  <2> QED BY <1>2, <2>1, <2>2, <2>3, <2>4, <2>5, <2>6, <2>7 DEF Proceed
<1>3. ASSUME NEW r \in Requests, Die(r) PROVE ApiTypeOK'
  BY <1>3 DEF Die, Goto
<1>4. ASSUME NEW p \in Requests, Publish(p) PROVE ApiTypeOK'
  <2>1. contended' \in BOOLEAN
    BY <1>4, Zenon DEF Publish
  <2> QED BY <1>4, <2>1 DEF Publish
<1>5. ASSUME NEW p \in Requests, LeaveWindow(p) PROVE ApiTypeOK'
  BY <1>5 DEF LeaveWindow
<1>6. ASSUME NEW k \in Keys, Age(k) PROVE ApiTypeOK'
  BY <1>6 DEF Age
<1>7. CASE Sweep
  BY <1>7 DEF Sweep, Delete
<1>8. ASSUME NEW c \in Calls, WritePost(c) PROVE ApiTypeOK'
  <2>1. post' \in [Requests -> PostStatus]
    BY <1>8 DEF WritePost
  <2>2. call' \in [Calls -> Call]
    BY <1>8 DEF WritePost, Idle
  <2>3. recent' \subseteq Requests
    BY <1>8 DEF WritePost
  <2> QED BY <1>8, <2>1, <2>2, <2>3 DEF WritePost
<1>9. ASSUME NEW c \in Calls, NEW p \in Requests, ReadPost(c, p) PROVE ApiTypeOK'
  <2>1. contended' \in BOOLEAN
    BY <1>9, Zenon DEF ReadPost
  <2>2. call' \in [Calls -> Call]
    BY <1>9 DEF ReadPost
  <2> QED BY <1>9, <2>1, <2>2 DEF ReadPost
<1> QED BY <1>1, <1>2, <1>3, <1>4, <1>5, <1>6, <1>7, <1>8, <1>9 DEF ApiNext

\* The initial state has the declared types.
LEMMA ApiTypeInitially == ASSUME ApiInit PROVE ApiTypeOK
<1>1. contended \in BOOLEAN
  BY Zenon DEF ApiInit
<1>2. call \in [Calls -> Call]
  BY DEF ApiInit, Call, Idle
<1> QED BY <1>1, <1>2 DEF ApiInit, ApiTypeOK, Steps, PostStatus

\* Every reachable state has the declared types, for any number of requests.
THEOREM ApiTypeCorrect == ApiSpec => []ApiTypeOK
<1>1. ApiInit => ApiTypeOK
  BY ApiTypeInitially
<1>2. ApiTypeOK /\ [ApiNext]_apiVars => ApiTypeOK'
  BY ApiTypeInductive
<1> QED BY <1>1, <1>2, PTL DEF ApiSpec

--------------------------------------------------------------------------------
(* The key. *)

\* Initially no key is taken and no post is there.
LEMMA KeyInitially == ASSUME ApiInit PROVE KeyInv
<1>1. ApiTypeOK
  BY ApiTypeInitially
<1>2. KeyParts
  BY ApiAssumption DEF ApiInit, KeyParts, OwnerIsOne, HolderOwns, Holding, AnswerIsOwners,
     AgedIsThere, CreatesOnce, CallsExist, PostIsAccounted, AnswersAreTrue, Exists, Idle
<1> QED BY <1>1, <1>2 DEF KeyInv, KeyParts

\* What a step that changes no key, no request and no history leaves true, as
\* long as the same posts are there.
LEMMA KeyUntouched ==
  ASSUME KeyInv, ApiTypeOK',
         UNCHANGED <<keyVars, step, reply, spoiled>>,
         \A p \in Requests : Exists(p)' <=> Exists(p),
         \A c \in Calls : \A p \in call'[c].post : Exists(p)
  PROVE  KeyInv'
<1> USE DEF KeyInv, keyVars
<1>1. OwnerIsOne' /\ HolderOwns' /\ AgedIsThere'
  BY DEF OwnerIsOne, HolderOwns, Holding, AgedIsThere
<1>2. AnswerIsOwners' /\ CreatesOnce' /\ PostIsAccounted' /\ AnswersAreTrue'
  BY DEF ApiTypeOK, AnswerIsOwners, CreatesOnce, PostIsAccounted, AnswersAreTrue
<1>3. CallsExist'
  BY DEF CallsExist, ApiTypeOK, Call
<1> QED BY <1>1, <1>2, <1>3

\* Claiming: the row is inserted when there is none, and then no post of the
\* key is unspoiled.
LEMMA ClaimKeeps == ASSUME KeyInv, NEW r \in Requests, Claim(r) PROVE KeyParts'
<1> USE ApiAssumption DEF KeyInv, ApiTypeOK, Goto, keyVars, postVars, Exists
<1>1. CASE owner[KeyOf[r]] = {}
  <2>1. /\ owner' = [owner EXCEPT ![KeyOf[r]] = {r}]
        /\ step' = [step EXCEPT ![r] = "claimed"]
        /\ step[r] = "new"
        /\ UNCHANGED <<answer, aged, reply, post, recent, call, spoiled>>
    BY <1>1 DEF Claim
  <2>2. OwnerIsOne'
    BY <2>1 DEF OwnerIsOne
  <2>3. HolderOwns'
    BY <1>1, <2>1 DEF HolderOwns, Holding, AgedIsThere
  <2>4. AnswerIsOwners'
    BY <1>1, <2>1 DEF AnswerIsOwners
  <2>5. AgedIsThere' /\ CreatesOnce' /\ CallsExist' /\ AnswersAreTrue'
    BY <2>1 DEF AgedIsThere, CreatesOnce, CallsExist, AnswersAreTrue, Call
  <2>6. PostIsAccounted'
    BY <1>1, <2>1 DEF PostIsAccounted, CreatesOnce
  <2> QED BY <2>2, <2>3, <2>4, <2>5, <2>6 DEF KeyParts
<1>2. CASE owner[KeyOf[r]] # {}
  <2>1. /\ step' = [step EXCEPT ![r] = "lookup"]
        /\ step[r] = "new"
        /\ UNCHANGED <<owner, answer, aged, reply, post, recent, call, spoiled>>
    BY <1>2 DEF Claim
  <2>2. OwnerIsOne' /\ HolderOwns' /\ AgedIsThere'
    BY <2>1 DEF OwnerIsOne, HolderOwns, Holding, AgedIsThere
  <2>3. AnswerIsOwners'
    BY <2>1 DEF AnswerIsOwners
  <2>4. CreatesOnce' /\ CallsExist' /\ PostIsAccounted' /\ AnswersAreTrue'
    BY <2>1 DEF CreatesOnce, CallsExist, PostIsAccounted, AnswersAreTrue, Call
  <2> QED BY <2>2, <2>3, <2>4 DEF KeyParts
<1> QED BY <1>1, <1>2

\* Looking up: a replayed answer is the owner's post, made for the same body.
LEMMA LookupKeeps == ASSUME KeyInv, NEW r \in Requests, Lookup(r) PROVE KeyParts'
<1> USE ApiAssumption DEF KeyInv, ApiTypeOK, Goto, Respond, keyVars, postVars, Exists
<1>1. /\ step[r] = "lookup"
      /\ step' = [step EXCEPT ![r] = "over"]
      /\ UNCHANGED <<owner, answer, aged, post, recent, call, spoiled>>
  BY DEF Lookup
<1>2. OwnerIsOne' /\ HolderOwns' /\ AgedIsThere' /\ AnswerIsOwners'
  BY <1>1 DEF OwnerIsOne, HolderOwns, Holding, AgedIsThere, AnswerIsOwners
<1>3. CreatesOnce' /\ CallsExist' /\ PostIsAccounted'
  BY <1>1 DEF CreatesOnce, CallsExist, PostIsAccounted, Call
<1>4. AnswersAreTrue'
  <2>1. CASE \E o \in owner[KeyOf[r]] : BodyOf[o] = BodyOf[r]
    <3>1. reply' = [reply EXCEPT ![r] = answer[KeyOf[r]]]
      BY <2>1 DEF Lookup
    <3>2. ASSUME NEW p \in answer[KeyOf[r]]
          PROVE  Exists(p) /\ BodyOf[p] = BodyOf[r] /\ KeyOf[p] = KeyOf[r]
      <4>1. p \in owner[KeyOf[r]] /\ Exists(p)
        BY DEF AnswerIsOwners
      <4> QED BY <2>1, <4>1 DEF OwnerIsOne
    <3> QED BY <1>1, <3>1, <3>2 DEF AnswersAreTrue
  <2>2. CASE ~\E o \in owner[KeyOf[r]] : BodyOf[o] = BodyOf[r]
    <3>1. reply' = [reply EXCEPT ![r] = {}]
      BY <2>2 DEF Lookup
    <3> QED BY <1>1, <3>1 DEF AnswersAreTrue
  <2> QED BY <2>1, <2>2
<1> QED BY <1>2, <1>3, <1>4 DEF KeyParts

\* Counting, and whatever fails before the post is made.
LEMMA CheckKeeps == ASSUME KeyInv, NEW r \in Requests, CheckQuota(r) PROVE KeyParts'
<1> USE ApiAssumption DEF KeyInv, ApiTypeOK, Goto, keyVars, postVars, Exists
<1>1. /\ step[r] = "claimed"
      /\ \E s \in {"checked", "failing"} : step' = [step EXCEPT ![r] = s]
      /\ UNCHANGED <<owner, answer, aged, reply, post, recent, call, spoiled>>
  BY DEF CheckQuota
<1>2. OwnerIsOne' /\ HolderOwns' /\ AgedIsThere' /\ AnswerIsOwners'
  BY <1>1 DEF OwnerIsOne, HolderOwns, Holding, AgedIsThere, AnswerIsOwners
<1>3. CreatesOnce' /\ CallsExist' /\ PostIsAccounted' /\ AnswersAreTrue'
  BY <1>1 DEF CreatesOnce, CallsExist, PostIsAccounted, AnswersAreTrue, Call
<1> QED BY <1>2, <1>3 DEF KeyParts

\* Creating: the post is accounted for by the row its request holds.
LEMMA CreateKeeps == ASSUME KeyInv, NEW r \in Requests, Create(r) PROVE KeyParts'
<1> USE ApiAssumption DEF KeyInv, ApiTypeOK, Goto, keyVars, postVars, Exists
<1>1. step[r] = "checked" /\ UNCHANGED <<owner, answer, aged, reply, call, spoiled>>
  BY DEF Create
<1>2. CASE step' = [step EXCEPT ![r] = "failing"] /\ UNCHANGED post
  <2>1. OwnerIsOne' /\ HolderOwns' /\ AgedIsThere' /\ AnswerIsOwners'
    BY <1>1, <1>2 DEF OwnerIsOne, HolderOwns, Holding, AgedIsThere, AnswerIsOwners
  <2>2. CreatesOnce' /\ CallsExist' /\ PostIsAccounted' /\ AnswersAreTrue'
    BY <1>1, <1>2 DEF CreatesOnce, CallsExist, PostIsAccounted, AnswersAreTrue, Call
  <2> QED BY <2>1, <2>2 DEF KeyParts
<1>3. CASE /\ step' = [step EXCEPT ![r] = "created"]
           /\ \E s \in {"scheduled", "draft"} : post' = [post EXCEPT ![r] = s]
  <2>1. Exists(r)' /\ \A p \in Requests : p # r => (Exists(p)' <=> Exists(p))
    BY <1>3
  <2>2. OwnerIsOne' /\ HolderOwns' /\ AgedIsThere'
    BY <1>1, <1>3 DEF OwnerIsOne, HolderOwns, Holding, AgedIsThere
  <2>3. AnswerIsOwners'
    BY <1>1, <1>3, <2>1 DEF AnswerIsOwners
  <2>4. CreatesOnce'
    BY <1>1, <1>3, <2>1 DEF CreatesOnce
  <2>5. CallsExist' /\ AnswersAreTrue'
    BY <1>1, <2>1 DEF CallsExist, AnswersAreTrue, Call
  <2>6. PostIsAccounted'
    BY <1>1, <1>3, <2>1 DEF PostIsAccounted, HolderOwns, Holding
  <2> QED BY <2>2, <2>3, <2>4, <2>5, <2>6 DEF KeyParts
<1> QED BY <1>2, <1>3 DEF Create

\* Answering: the holder's row takes its post.
LEMMA FinalizeKeeps == ASSUME KeyInv, NEW r \in Requests, Finalize(r) PROVE KeyParts'
<1> USE ApiAssumption DEF KeyInv, ApiTypeOK, Goto, Respond, keyVars, postVars, Exists
<1>1. /\ step[r] = "created"
      /\ \E s \in {"over", "failing"} : step' = [step EXCEPT ![r] = s]
      /\ reply' = reply \/ reply' = [reply EXCEPT ![r] = {r}]
      /\ UNCHANGED <<owner, aged, post, recent, call, spoiled>>
  BY DEF Finalize
<1>2. owner[KeyOf[r]] = {r} /\ answer' = [answer EXCEPT ![KeyOf[r]] = {r}]
  BY <1>1 DEF Finalize, HolderOwns, Holding
<1>3. OwnerIsOne' /\ HolderOwns' /\ AgedIsThere'
  BY <1>1 DEF OwnerIsOne, HolderOwns, Holding, AgedIsThere
<1>4. AnswerIsOwners'
  BY <1>1, <1>2 DEF AnswerIsOwners, CreatesOnce
<1>5. CreatesOnce' /\ CallsExist' /\ AnswersAreTrue'
  BY <1>1 DEF CreatesOnce, CallsExist, AnswersAreTrue, Call
<1>6. PostIsAccounted'
  BY <1>1, <1>2 DEF PostIsAccounted
<1> QED BY <1>3, <1>4, <1>5, <1>6 DEF KeyParts

\* Breaking off: the post, if it is there and has no answer, is spoiled.
LEMMA BreakKeeps ==
  ASSUME KeyInv, NEW r \in Requests, BreakAfterCreate(r) \/ Die(r) PROVE KeyParts'
<1> USE ApiAssumption DEF KeyInv, ApiTypeOK, Goto, keyVars, postVars, Exists
<1>1. /\ step[r] \notin {"new", "over"}
      /\ \/ step' = [step EXCEPT ![r] = "over"]
         \/ step[r] = "created" /\ step' = [step EXCEPT ![r] = "failing"]
      /\ spoiled' = IF step[r] = "created" THEN spoiled \cup {r} ELSE spoiled
      /\ UNCHANGED <<owner, answer, aged, reply, post, recent, call>>
  BY DEF BreakAfterCreate, Die, Running
<1>2. OwnerIsOne' /\ HolderOwns' /\ AgedIsThere' /\ AnswerIsOwners'
  BY <1>1 DEF OwnerIsOne, HolderOwns, Holding, AgedIsThere, AnswerIsOwners
<1>3. CreatesOnce' /\ CallsExist' /\ AnswersAreTrue'
  BY <1>1 DEF CreatesOnce, CallsExist, AnswersAreTrue, Call
<1>4. PostIsAccounted'
  BY <1>1 DEF PostIsAccounted
<1> QED BY <1>2, <1>3, <1>4 DEF KeyParts

\* Releasing: a row without an answer accounts for no unspoiled post.
LEMMA ReleaseKeeps == ASSUME KeyInv, NEW r \in Requests, Release(r) PROVE KeyParts'
<1> USE ApiAssumption DEF KeyInv, ApiTypeOK, Goto, Respond, keyVars, postVars, Exists
<1>1. /\ step[r] = "failing"
      /\ step' = [step EXCEPT ![r] = "over"]
      /\ reply' = [reply EXCEPT ![r] = {}]
      /\ UNCHANGED <<answer, post, recent, call, spoiled>>
  BY DEF Release
<1>2. owner[KeyOf[r]] = {r} /\ KeyOf[r] \notin aged
  BY <1>1 DEF HolderOwns, Holding
<1>3. CreatesOnce' /\ CallsExist' /\ AnswersAreTrue'
  BY <1>1 DEF CreatesOnce, CallsExist, AnswersAreTrue, Call
<1>4. CASE answer[KeyOf[r]] # {}
  <2>1. UNCHANGED <<owner, aged>>
    BY <1>4 DEF Release
  <2>2. OwnerIsOne' /\ HolderOwns' /\ AgedIsThere' /\ AnswerIsOwners'
    BY <1>1, <2>1 DEF OwnerIsOne, HolderOwns, Holding, AgedIsThere, AnswerIsOwners
  <2>3. PostIsAccounted'
    BY <1>1, <2>1 DEF PostIsAccounted
  <2> QED BY <1>3, <2>2, <2>3 DEF KeyParts
<1>5. CASE answer[KeyOf[r]] = {}
  <2>1. owner' = [owner EXCEPT ![KeyOf[r]] = {}] /\ aged' = aged \ {KeyOf[r]}
    BY <1>5 DEF Release
  <2>2. OwnerIsOne' /\ AgedIsThere'
    BY <1>1, <2>1 DEF OwnerIsOne, AgedIsThere
  <2>3. HolderOwns'
    BY <1>1, <1>2, <2>1 DEF HolderOwns, Holding
  <2>4. AnswerIsOwners'
    BY <1>1, <1>5, <2>1 DEF AnswerIsOwners
  <2>5. PostIsAccounted'
    <3>1. ASSUME NEW p \in Requests, Exists(p), p \notin spoiled PROVE KeyOf[p] # KeyOf[r]
      BY <1>1, <1>2, <1>5, <3>1 DEF PostIsAccounted
    <3> QED BY <1>1, <2>1, <3>1 DEF PostIsAccounted
  <2> QED BY <1>3, <2>2, <2>3, <2>4, <2>5 DEF KeyParts
<1> QED BY <1>4, <1>5

\* Growing old: nobody holds the key any more.
LEMMA AgeKeeps == ASSUME KeyInv, NEW k \in Keys, Age(k) PROVE KeyParts'
<1> USE ApiAssumption DEF KeyInv, ApiTypeOK, keyVars, postVars, Exists
<1>1. /\ owner[k] # {}
      /\ \A r \in owner[k] : step[r] \in {"new", "over"}
      /\ aged' = aged \cup {k}
      /\ UNCHANGED <<owner, answer, step, reply, post, recent, call, spoiled>>
  BY DEF Age, Running
<1>2. OwnerIsOne' /\ AgedIsThere' /\ AnswerIsOwners'
  BY <1>1 DEF OwnerIsOne, AgedIsThere, AnswerIsOwners
<1>3. HolderOwns'
  BY <1>1 DEF HolderOwns, Holding
<1>4. CreatesOnce' /\ CallsExist' /\ PostIsAccounted' /\ AnswersAreTrue'
  BY <1>1 DEF CreatesOnce, CallsExist, PostIsAccounted, AnswersAreTrue
<1> QED BY <1>2, <1>3, <1>4 DEF KeyParts

\* Sweeping: the posts whose answers go are spoiled; no running request is hit.
LEMMA SweepKeeps == ASSUME KeyInv, Sweep PROVE KeyParts'
<1> USE ApiAssumption DEF KeyInv, ApiTypeOK, keyVars, postVars, Exists
<1>1. /\ owner' = [k \in Keys |-> IF k \in aged THEN {} ELSE owner[k]]
      /\ answer' = [k \in Keys |-> IF k \in aged THEN {} ELSE answer[k]]
      /\ aged' = {}
      /\ UNCHANGED <<step, reply, post, recent, call>>
  BY DEF Sweep, Delete
<1>2. spoiled \subseteq spoiled' /\ \A k \in aged : answer[k] \subseteq spoiled'
  BY DEF Sweep, Delete
<1>3. OwnerIsOne' /\ AgedIsThere' /\ AnswerIsOwners'
  BY <1>1 DEF OwnerIsOne, AgedIsThere, AnswerIsOwners
<1>4. HolderOwns'
  BY <1>1 DEF HolderOwns, Holding
<1>5. CreatesOnce' /\ CallsExist' /\ AnswersAreTrue'
  BY <1>1 DEF CreatesOnce, CallsExist, AnswersAreTrue
<1>6. PostIsAccounted'
  <2>1. ASSUME NEW p \in Requests, Exists(p), p \notin spoiled' PROVE KeyOf[p] \notin aged
    BY <1>2, <2>1 DEF PostIsAccounted, HolderOwns, Holding
  <2> QED BY <1>1, <1>2, <2>1 DEF PostIsAccounted
<1> QED BY <1>3, <1>4, <1>5, <1>6 DEF KeyParts

\* Every step leaves KeyInv true.
LEMMA KeyInductive == ASSUME KeyInv, [ApiNext]_apiVars PROVE KeyInv'
<1>0. ApiTypeOK'
  BY ApiTypeInductive DEF KeyInv
<1>0a. SUFFICES ASSUME ~KeyParts' PROVE FALSE
  BY <1>0 DEF KeyInv, KeyParts
<1>1. CASE UNCHANGED apiVars
  BY <1>0, <1>0a, <1>1, KeyUntouched DEF apiVars, postVars, Exists, KeyInv, CallsExist, KeyParts
<1>2. ASSUME NEW r \in Requests, Proceed(r) \/ Die(r) PROVE FALSE
  BY <1>0a, <1>2, ClaimKeeps, LookupKeeps, CheckKeeps, CreateKeeps, FinalizeKeeps, BreakKeeps,
     ReleaseKeeps DEF Proceed
<1>3. ASSUME NEW p \in Requests, Publish(p) \/ LeaveWindow(p) PROVE FALSE
  <2>1. \A q \in Requests : Exists(q)' <=> Exists(q)
    BY <1>3 DEF Publish, LeaveWindow, Exists, KeyInv, ApiTypeOK
  <2>2. UNCHANGED <<keyVars, step, reply, spoiled, call>>
    BY <1>3 DEF Publish, LeaveWindow
  <2> QED BY <1>0, <1>0a, <2>1, <2>2, KeyUntouched DEF KeyInv, KeyParts, CallsExist
<1>4. ASSUME NEW k \in Keys, Age(k) PROVE FALSE
  BY <1>0a, <1>4, AgeKeeps
<1>5. CASE Sweep
  BY <1>0a, <1>5, SweepKeeps
<1>6. ASSUME NEW c \in Calls, WritePost(c) PROVE FALSE
  <2>1. \A q \in Requests : Exists(q)' <=> Exists(q)
    BY <1>6 DEF WritePost, Exists, KeyInv, ApiTypeOK, CallsExist
  <2>2. \A d \in Calls : \A p \in call'[d].post : Exists(p)
    BY <1>6 DEF WritePost, Idle, KeyInv, ApiTypeOK, CallsExist
  <2>3. UNCHANGED <<keyVars, step, reply, spoiled>>
    BY <1>6 DEF WritePost
  <2> QED BY <1>0, <1>0a, <2>1, <2>2, <2>3, KeyUntouched DEF KeyInv, KeyParts
<1>7. ASSUME NEW c \in Calls, NEW p \in Requests, ReadPost(c, p) PROVE FALSE
  <2>1. UNCHANGED <<keyVars, step, reply, spoiled, post>>
    BY <1>7 DEF ReadPost
  <2>2. \A d \in Calls : \A q \in call'[d].post : Exists(q)
    BY <1>7 DEF ReadPost, Exists, KeyInv, ApiTypeOK, CallsExist
  <2>3. \A q \in Requests : Exists(q)' <=> Exists(q)
    BY <2>1 DEF Exists
  <2> QED BY <1>0, <1>0a, <2>1, <2>2, <2>3, KeyUntouched DEF KeyInv, KeyParts
<1> QED BY <1>1, <1>2, <1>3, <1>4, <1>5, <1>6, <1>7 DEF ApiNext

\* KeyInv holds in every reachable state.
THEOREM KeyInvariant == ApiSpec => []KeyInv
<1>1. ApiInit => KeyInv
  BY KeyInitially
<1>2. KeyInv /\ [ApiNext]_apiVars => KeyInv'
  BY KeyInductive
<1> QED BY <1>1, <1>2, PTL DEF ApiSpec

\* For any number of requests and keys, two posts made under one key mean that
\* one of them broke off after its creation or outlived its key's row.
THEOREM OnePostForAKey == ApiSpec => []OnePostPerKey
<1>1. KeyInv => OnePostPerKey
  BY DEF KeyInv, PostIsAccounted, OnePostPerKey
<1> QED BY <1>1, KeyInvariant, PTL

\* For any number of requests and keys, an answer names a post that exists and
\* is what the request asked for.
THEOREM AnswersStayTrue == ApiSpec => []AnswersAreTrue
<1>1. KeyInv => AnswersAreTrue
  BY DEF KeyInv
<1> QED BY <1>1, KeyInvariant, PTL

--------------------------------------------------------------------------------
(* The quota. *)

\* A request and a call that were counted and have not written yet.
Reserving(r) == step[r] = "checked" /\ BodyOf[r] \in Immediate
Scheduling(c) == call[c].kind = "schedule"

\* A call holds the one post it has read.
CallsReadOne ==
  \A c \in Calls :
    \/ call[c] = Idle
    \/ call[c].kind \in {"schedule", "cancel"} /\ \E p \in Requests : call[c].post = {p}

\* As long as nobody counts while another is admitted, at most one is.
OneAdmitted ==
  /\ \A r, q \in Requests : Reserving(r) /\ Reserving(q) => r = q
  /\ \A c, d \in Calls : Scheduling(c) /\ Scheduling(d) => c = d
  /\ \A r \in Requests, c \in Calls : ~(Reserving(r) /\ Scheduling(c))

\* Who is admitted has room for what it will write.
RoomIsLeft ==
  /\ Cardinality(Used) <= QuotaLimit
  /\ \A r \in Requests : Reserving(r) => Cardinality(Used) < QuotaLimit
  /\ \A c \in Calls : Scheduling(c) => Cardinality(Used) < QuotaLimit

QuotaInv ==
  /\ IsFiniteSet(recent)
  /\ CallsReadOne
  /\ ~contended => OneAdmitted /\ RoomIsLeft

\* What counts is finite, and one more element counts one more at most.
LEMMA OneMoreAtMost ==
  ASSUME NEW S, IsFiniteSet(S), NEW x, NEW T, T \subseteq S \cup {x}
  PROVE  /\ Cardinality(S) \in Nat /\ Cardinality(T) \in Nat
         /\ Cardinality(T) <= Cardinality(S) + 1
<1>1. /\ Cardinality(S) \in Nat
      /\ IsFiniteSet(S \cup {x})
      /\ Cardinality(S \cup {x}) <= Cardinality(S) + 1
  <2>1. Cardinality(S) \in Nat
    BY FS_CardinalityType
  <2>2. /\ IsFiniteSet(S \cup {x})
        /\ Cardinality(S \cup {x}) = IF x \in S THEN Cardinality(S) ELSE Cardinality(S) + 1
    BY FS_AddElement
  <2> QED BY <2>1, <2>2
<1>2. /\ Cardinality(T) \in Nat /\ Cardinality(S \cup {x}) \in Nat
      /\ Cardinality(T) <= Cardinality(S \cup {x})
  BY <1>1, FS_Subset, FS_CardinalityType
<1> QED BY <1>1, <1>2

\* Fewer elements count no more.
LEMMA NoMore ==
  ASSUME NEW S, IsFiniteSet(S), NEW T, T \subseteq S
  PROVE  /\ Cardinality(S) \in Nat /\ Cardinality(T) \in Nat
         /\ Cardinality(T) <= Cardinality(S)
BY FS_Subset, FS_CardinalityType

\* Posts that leave the count, and admissions that end, keep the quota.
LEMMA QuotaShrinks ==
  ASSUME QuotaInv, IsFiniteSet(recent'), CallsReadOne',
         ~contended' => ~contended /\ Used' \subseteq Used,
         \A r \in Requests : Reserving(r)' => Reserving(r),
         \A c \in Calls : Scheduling(c)' => Scheduling(c)
  PROVE  QuotaInv'
<1>1. ASSUME ~contended' PROVE OneAdmitted' /\ RoomIsLeft'
  <2>1. OneAdmitted /\ RoomIsLeft
    BY <1>1 DEF QuotaInv
  <2>2. OneAdmitted'
    BY <2>1 DEF OneAdmitted
  <2>3. IsFiniteSet(Used)
    BY FS_Subset DEF QuotaInv, Used
  <2>4. /\ Cardinality(Used) \in Nat /\ Cardinality(Used') \in Nat
        /\ Cardinality(Used') <= Cardinality(Used)
    BY <1>1, <2>3, NoMore
  <2>5. RoomIsLeft'
    BY <2>1, <2>4, ApiAssumption DEF RoomIsLeft
  <2> QED BY <2>2, <2>5
<1> QED BY <1>1 DEF QuotaInv

\* Whoever is admitted writes one post, and nobody is admitted after it.
LEMMA QuotaFills ==
  ASSUME QuotaInv, IsFiniteSet(recent'), CallsReadOne', NEW p,
         ~contended' => ~contended,
         Used' \subseteq Used \cup {p},
         \/ \E r \in Requests : Reserving(r) /\ ~Reserving(r)'
         \/ \E c \in Calls : Scheduling(c) /\ ~Scheduling(c)',
         \A r \in Requests : Reserving(r)' => Reserving(r),
         \A c \in Calls : Scheduling(c)' => Scheduling(c)
  PROVE  QuotaInv'
<1>1. ASSUME ~contended' PROVE OneAdmitted' /\ RoomIsLeft'
  <2>1. OneAdmitted /\ RoomIsLeft
    BY <1>1 DEF QuotaInv
  <2>2. (\A r \in Requests : ~Reserving(r)') /\ (\A c \in Calls : ~Scheduling(c)')
    BY <2>1 DEF OneAdmitted
  <2>3. IsFiniteSet(Used)
    BY FS_Subset DEF QuotaInv, Used
  <2>4. /\ Cardinality(Used) \in Nat /\ Cardinality(Used') \in Nat
        /\ Cardinality(Used') <= Cardinality(Used) + 1
    BY <2>3, OneMoreAtMost
  <2>5. Cardinality(Used) < QuotaLimit
    BY <2>1 DEF RoomIsLeft
  <2>6. RoomIsLeft'
    BY <2>2, <2>4, <2>5, ApiAssumption DEF RoomIsLeft
  <2> QED BY <2>2, <2>6 DEF OneAdmitted
<1> QED BY <1>1 DEF QuotaInv

\* Who is admitted found room, and nobody else admitted.
LEMMA QuotaAdmits ==
  ASSUME QuotaInv, UNCHANGED <<post, recent>>, CallsReadOne',
         ~contended' => ~contended /\ Admitted = {} /\ WithinQuota,
         \/ UNCHANGED call /\ \E r \in Requests : \A q \in Requests : Reserving(q)' => Reserving(q) \/ q = r
         \/ /\ \A q \in Requests : Reserving(q)' => Reserving(q)
            /\ \E c \in Calls : \A d \in Calls : Scheduling(d)' => Scheduling(d) \/ d = c
  PROVE  QuotaInv'
<1>1. ASSUME ~contended' PROVE OneAdmitted' /\ RoomIsLeft'
  <2>1. RoomIsLeft /\ Used' = Used /\ Cardinality(Used) < QuotaLimit
    BY <1>1 DEF QuotaInv, Used, WithinQuota
  <2>2. (\A r \in Requests : ~Reserving(r)) /\ (\A c \in Calls : ~Scheduling(c))
    BY <1>1 DEF Admitted, Reserving, Scheduling
  <2>3. OneAdmitted'
    BY <2>2 DEF OneAdmitted, Scheduling
  <2>4. RoomIsLeft'
    BY <2>1 DEF RoomIsLeft
  <2> QED BY <2>3, <2>4
<1> QED BY <1>1 DEF QuotaInv

\* Every step leaves QuotaInv true.
LEMMA QuotaInductive == ASSUME ApiTypeOK, QuotaInv, [ApiNext]_apiVars PROVE QuotaInv'
<1> USE ApiAssumption DEF ApiTypeOK, Goto, keyVars, postVars
<1>1. ASSUME UNCHANGED <<postVars, contended>>,
             \A r \in Requests : step'[r] = "checked" => step[r] = "checked"
      PROVE  QuotaInv'
  <2>1. Used' = Used /\ CallsReadOne' /\ IsFiniteSet(recent') /\ (~contended' => ~contended)
    BY <1>1 DEF Used, CallsReadOne, QuotaInv
  <2>2. /\ \A r \in Requests : Reserving(r)' => Reserving(r)
        /\ \A c \in Calls : Scheduling(c)' => Scheduling(c)
    BY <1>1 DEF Reserving, Scheduling
  <2> QED BY <2>1, <2>2, QuotaShrinks
<1>2. CASE UNCHANGED apiVars
  BY <1>1, <1>2 DEF apiVars
<1>3. ASSUME NEW r \in Requests,
             \/ Claim(r) \/ Lookup(r) \/ Finalize(r)
             \/ BreakAfterCreate(r) \/ Release(r) \/ Die(r)
      PROVE  QuotaInv'
  <2>1. UNCHANGED <<postVars, contended>>
    BY <1>3 DEF Claim, Lookup, Finalize, BreakAfterCreate, Release, Die
  <2>2. PICK s \in Steps \ {"checked"} : step' = [step EXCEPT ![r] = s]
    BY <1>3 DEF Claim, Lookup, Finalize, BreakAfterCreate, Release, Die, Respond, Steps
  <2>3. \A q \in Requests : step'[q] = "checked" => step[q] = "checked"
    BY <2>2
  <2> QED BY <1>1, <2>1, <2>3
<1>4. ASSUME NEW k \in Keys, Age(k) PROVE QuotaInv'
  BY <1>1, <1>4 DEF Age
<1>5. CASE Sweep
  BY <1>1, <1>5 DEF Sweep, Delete
<1>6. ASSUME NEW r \in Requests, CheckQuota(r) PROVE QuotaInv'
  <2>1. UNCHANGED <<post, recent, call>> /\ CallsReadOne'
    BY <1>6 DEF CheckQuota, QuotaInv, CallsReadOne
  <2>2. CASE BodyOf[r] \in Immediate /\ WithinQuota
    <3>1. contended' = (contended \/ Admitted # {}) /\ step' = [step EXCEPT ![r] = "checked"]
      BY <1>6, <2>2 DEF CheckQuota
    <3>2. ~contended' => ~contended /\ Admitted = {}
      BY <3>1, Zenon
    <3>3. \A q \in Requests : Reserving(q)' => Reserving(q) \/ q = r
      BY <3>1 DEF Reserving
    <3> QED BY <2>1, <2>2, <3>2, <3>3, QuotaAdmits
  <2>3. CASE ~(BodyOf[r] \in Immediate /\ WithinQuota)
    <3>1. UNCHANGED contended
      BY <1>6, <2>3 DEF CheckQuota
    <3>2. \A q \in Requests : Reserving(q)' => Reserving(q)
      BY <1>6, <2>3 DEF CheckQuota, Reserving
    <3>3. Used' = Used /\ \A c \in Calls : Scheduling(c)' => Scheduling(c)
      BY <2>1 DEF Used, Scheduling
    <3> QED BY <2>1, <3>1, <3>2, <3>3, QuotaShrinks DEF QuotaInv
  <2> QED BY <2>2, <2>3
<1>7. ASSUME NEW r \in Requests, Create(r) PROVE QuotaInv'
  <2>1. /\ step[r] = "checked"
        /\ UNCHANGED <<call, contended>>
        /\ \E s \in {"created", "failing"} : step' = [step EXCEPT ![r] = s]
    BY <1>7 DEF Create
  <2>2. CallsReadOne' /\ \A c \in Calls : Scheduling(c)' => Scheduling(c)
    BY <2>1 DEF CallsReadOne, QuotaInv, Scheduling
  <2>3. ~Reserving(r)' /\ \A q \in Requests : Reserving(q)' => Reserving(q)
    BY <2>1 DEF Reserving
  <2>4. IsFiniteSet(recent')
    <3>1. recent' = recent \/ recent' = recent \cup {r}
      BY <1>7 DEF Create
    <3>2. IsFiniteSet(recent)
      BY DEF QuotaInv
    <3>3. IsFiniteSet(recent \cup {r})
      BY <3>2, FS_AddElement
    <3> QED BY <3>1, <3>2, <3>3
  <2>5. CASE BodyOf[r] \in Immediate
    <3>1. Used' \subseteq Used \cup {r}
      BY <1>7 DEF Create, Used
    <3>2. Reserving(r)
      BY <2>1, <2>5 DEF Reserving
    <3> QED BY <2>1, <2>2, <2>3, <2>4, <3>1, <3>2, QuotaFills
  <2>6. CASE BodyOf[r] \notin Immediate
    <3>1. Used' \subseteq Used
      BY <1>7, <2>6 DEF Create, Used, Consuming
    <3> QED BY <2>1, <2>2, <2>3, <2>4, <3>1, QuotaShrinks
  <2> QED BY <2>5, <2>6
<1>8. ASSUME NEW c \in Calls, NEW p \in Requests, ReadPost(c, p) PROVE QuotaInv'
  <2>1. UNCHANGED <<step, post, recent>>
    BY <1>8 DEF ReadPost
  <2>2. PICK k \in {"schedule", "cancel"} :
          /\ call' = [call EXCEPT ![c] = [kind |-> k, post |-> {p}]]
          /\ \/ k = "schedule" /\ WithinQuota /\ contended' = (contended \/ Admitted # {})
             \/ k = "cancel" /\ UNCHANGED contended
    BY <1>8 DEF ReadPost
  <2>3. CallsReadOne'
    <3>1. call'[c].kind = k /\ call'[c].post = {p}
      BY <2>2
    <3>2. \A d \in Calls : d # c => call'[d] = call[d]
      BY <2>2
    <3> QED BY <3>1, <3>2 DEF CallsReadOne, QuotaInv
  <2>4. \A q \in Requests : Reserving(q)' => Reserving(q)
    BY <2>1 DEF Reserving
  <2>5. CASE k = "schedule"
    <3>1. ~contended' => ~contended /\ Admitted = {} /\ WithinQuota
      BY <2>2, <2>5, Zenon
    <3>2. \A d \in Calls : Scheduling(d)' => Scheduling(d) \/ d = c
      BY <2>2 DEF Scheduling
    <3> QED BY <2>1, <2>3, <2>4, <3>1, <3>2, QuotaAdmits
  <2>6. CASE k = "cancel"
    <3>1. UNCHANGED contended /\ Used' = Used
      BY <2>1, <2>2, <2>6 DEF Used
    <3>2. \A d \in Calls : Scheduling(d)' => Scheduling(d)
      BY <2>2, <2>6 DEF Scheduling
    <3> QED BY <2>1, <2>3, <2>4, <3>1, <3>2, QuotaShrinks DEF QuotaInv
  <2> QED BY <2>5, <2>6
<1>9. ASSUME NEW c \in Calls, WritePost(c) PROVE QuotaInv'
  <2>1. /\ call' = [call EXCEPT ![c] = Idle]
        /\ recent' = recent \cup call[c].post
        /\ UNCHANGED <<step, contended>>
    BY <1>9 DEF WritePost
  <2>2. PICK p \in Requests : call[c].post = {p} /\ call[c].kind \in {"schedule", "cancel"}
    BY <1>9 DEF WritePost, QuotaInv, CallsReadOne
  <2>3. CallsReadOne'
    BY <2>1 DEF CallsReadOne, QuotaInv
  <2>4. \A q \in Requests : Reserving(q)' => Reserving(q)
    BY <2>1 DEF Reserving
  <2>5. ~Scheduling(c)' /\ \A d \in Calls : Scheduling(d)' => Scheduling(d)
    BY <2>1 DEF Scheduling, Idle
  <2>6. IsFiniteSet(recent')
    <3>1. IsFiniteSet(recent)
      BY DEF QuotaInv
    <3>2. IsFiniteSet(recent \cup {p})
      BY <3>1, FS_AddElement
    <3> QED BY <2>1, <2>2, <3>2
  <2>7. /\ post'[p] = IF call[c].kind = "schedule" THEN "scheduled" ELSE "draft"
        /\ \A q \in Requests : q # p => post'[q] = post[q]
    BY <1>9, <2>2 DEF WritePost
  <2>8. CASE call[c].kind = "schedule"
    <3>1. Used' \subseteq Used \cup {p}
      BY <2>1, <2>2, <2>7 DEF Used
    <3>2. Scheduling(c)
      BY <2>8 DEF Scheduling
    <3> QED BY <2>1, <2>3, <2>4, <2>5, <2>6, <3>1, <3>2, QuotaFills
  <2>9. CASE call[c].kind = "cancel"
    <3>1. Used' \subseteq Used
      BY <2>1, <2>2, <2>7, <2>9 DEF Used, Consuming
    <3> QED BY <2>1, <2>3, <2>4, <2>5, <2>6, <3>1, QuotaShrinks
  <2> QED BY <2>2, <2>8, <2>9
<1>10. ASSUME NEW p \in Requests, Publish(p) \/ LeaveWindow(p) PROVE QuotaInv'
  <2>1. UNCHANGED <<step, call>>
    BY <1>10 DEF Publish, LeaveWindow
  <2>2. /\ CallsReadOne'
        /\ \A q \in Requests : Reserving(q)' => Reserving(q)
        /\ \A c \in Calls : Scheduling(c)' => Scheduling(c)
    BY <2>1 DEF CallsReadOne, QuotaInv, Reserving, Scheduling
  <2>3. IsFiniteSet(recent')
    <3>1. recent' = recent \cup {p} \/ recent' = recent \ {p}
      BY <1>10 DEF Publish, LeaveWindow
    <3>2. IsFiniteSet(recent)
      BY DEF QuotaInv
    <3>3. IsFiniteSet(recent \cup {p}) /\ IsFiniteSet(recent \ {p})
      BY <3>2, FS_AddElement, FS_RemoveElement
    <3> QED BY <3>1, <3>2, <3>3
  <2>4. ~contended' => ~contended /\ Used' \subseteq Used
    <3>1. CASE LeaveWindow(p)
      <4>1. Used' \subseteq Used
        BY <3>1 DEF LeaveWindow, Used
      <4> QED BY <3>1, <4>1, Zenon DEF LeaveWindow
    <3>2. CASE Publish(p)
      <4>1. p \in recent => Used' \subseteq Used
        BY <3>2 DEF Publish, Used, Consuming
      <4>2. ~contended' => ~contended /\ p \in recent
        BY <3>2, Zenon DEF Publish
      <4> QED BY <4>1, <4>2
    <3> QED BY <1>10, <3>1, <3>2
  <2> QED BY <2>2, <2>3, <2>4, QuotaShrinks
<1> QED BY <1>2, <1>3, <1>4, <1>5, <1>6, <1>7, <1>8, <1>9, <1>10 DEF ApiNext, Proceed

\* For any number of requests and calls, and any limit: the account is over its
\* daily cap only after two counted before either wrote, or when a row that had
\* left the window is published.
THEOREM QuotaIsKept == ApiSpec => []QuotaHolds
<1>1. ApiInit => QuotaInv
  <2>1. ASSUME ApiInit PROVE QuotaInv
    <3>1. Used = {} /\ IsFiniteSet(recent) /\ Cardinality(Used) = 0
      BY <2>1, FS_EmptySet DEF ApiInit, Used
    <3>2. /\ \A r \in Requests : ~Reserving(r)
          /\ \A c \in Calls : call[c] = Idle /\ ~Scheduling(c)
      BY <2>1 DEF ApiInit, Reserving, Scheduling, Idle
    <3>3. RoomIsLeft /\ CallsReadOne /\ OneAdmitted
      BY <3>1, <3>2, ApiAssumption DEF RoomIsLeft, CallsReadOne, OneAdmitted
    <3> QED BY <3>1, <3>3 DEF QuotaInv
  <2> QED BY <2>1
<1>2. ApiTypeOK /\ QuotaInv /\ [ApiNext]_apiVars => QuotaInv'
  BY QuotaInductive
<1>3. QuotaInv => QuotaHolds
  BY DEF QuotaInv, RoomIsLeft, QuotaHolds
<1> QED BY <1>1, <1>2, <1>3, ApiTypeCorrect, PTL DEF ApiSpec

--------------------------------------------------------------------------------
(* The API implements the contract of a key. *)

\* The contract's variables after a step that changes no row and makes no post.
LEMMA ContractStutters ==
  ASSUME UNCHANGED keyVars, KeyInv,
         \A p \in Requests : Exists(p)' <=> Exists(p)
  PROVE  UNCHANGED <<ContractPhase, ContractDone, aged>>
<1>1. \A k \in Keys : {p \in owner[k] : Exists(p)}' = {p \in owner[k] : Exists(p)}
  BY DEF keyVars, KeyInv, ApiTypeOK
<1> QED BY <1>1 DEF keyVars, ContractPhase, ContractDone

\* A row that is inserted takes the key; nothing is done under it yet.
LEMMA ClaimTakes ==
  ASSUME KeyInv, NEW r \in Requests, Claim(r), owner[KeyOf[r]] = {}
  PROVE  Contract!Take(KeyOf[r])
<1> USE ApiAssumption DEF KeyInv, ApiTypeOK, keyVars, postVars, Exists
<1>1. /\ owner' = [owner EXCEPT ![KeyOf[r]] = {r}]
      /\ step[r] = "new"
      /\ UNCHANGED <<answer, aged, post>>
  BY DEF Claim
<1>2. post[r] = "none"
  BY <1>1 DEF CreatesOnce
<1>3. answer[KeyOf[r]] = {}
  BY DEF AnswerIsOwners
<1>4. ContractDone' = ContractDone
  BY <1>1, <1>2 DEF ContractDone
<1>5. ContractPhase' = [ContractPhase EXCEPT ![KeyOf[r]] = "taken"]
  BY <1>1, <1>3 DEF ContractPhase
<1> QED BY <1>1, <1>4, <1>5 DEF Contract!Take, ContractPhase

\* A post that is created is what is done under the key.
LEMMA CreateDoes ==
  ASSUME KeyInv, NEW r \in Requests, Create(r), post' # post
  PROVE  Contract!Do(KeyOf[r], r)
<1> USE ApiAssumption DEF KeyInv, ApiTypeOK, keyVars, postVars, Exists
<1>1. /\ step[r] = "checked"
      /\ \E s \in {"scheduled", "draft"} : post' = [post EXCEPT ![r] = s]
      /\ UNCHANGED <<owner, answer, aged>>
  BY DEF Create
<1>2. owner[KeyOf[r]] = {r} /\ post[r] = "none" /\ answer[KeyOf[r]] = {}
  BY <1>1 DEF HolderOwns, Holding, CreatesOnce, AnswerIsOwners
<1>3. \A k \in Keys : k # KeyOf[r] => r \notin owner[k]
  BY DEF OwnerIsOne
<1>4. ContractDone[KeyOf[r]] = {} /\ ContractPhase[KeyOf[r]] = "taken"
  BY <1>2 DEF ContractDone, ContractPhase
<1>5. ContractDone' = [ContractDone EXCEPT ![KeyOf[r]] = {r}]
  <2>1. {p \in owner[KeyOf[r]] : post'[p] # "none"} = {r}
    BY <1>1, <1>2
  <2>2. ASSUME NEW k \in Keys, k # KeyOf[r]
        PROVE  {p \in owner[k] : post'[p] # "none"} = {p \in owner[k] : post[p] # "none"}
    BY <1>1, <1>3, <2>2
  <2> QED BY <1>1, <2>1, <2>2 DEF ContractDone
<1>6. ContractPhase' = ContractPhase
  BY <1>1 DEF ContractPhase
<1> QED BY <1>1, <1>4, <1>5, <1>6 DEF Contract!Do

\* An answer settles the key.
LEMMA FinalizeSettles ==
  ASSUME KeyInv, NEW r \in Requests, Finalize(r) PROVE Contract!Settle(KeyOf[r])
<1> USE ApiAssumption DEF KeyInv, ApiTypeOK, keyVars, postVars, Exists
<1>1. step[r] = "created" /\ UNCHANGED <<owner, aged, post>>
  BY DEF Finalize
<1>2. /\ owner[KeyOf[r]] = {r}
      /\ post[r] # "none"
      /\ answer[KeyOf[r]] = {}
      /\ answer' = [answer EXCEPT ![KeyOf[r]] = {r}]
  <2>1. owner[KeyOf[r]] = {r} /\ post[r] # "none"
    BY <1>1 DEF HolderOwns, Holding, CreatesOnce
  <2>2. answer[KeyOf[r]] = {}
    BY <1>1, <2>1 DEF AnswerIsOwners
  <2> QED BY <2>1, <2>2 DEF Finalize
<1>3. ContractDone[KeyOf[r]] # {} /\ ContractPhase[KeyOf[r]] = "taken"
  BY <1>2 DEF ContractDone, ContractPhase
<1>4. ContractDone' = ContractDone
  BY <1>1 DEF ContractDone
<1>5. ContractPhase' = [ContractPhase EXCEPT ![KeyOf[r]] = "settled"]
  BY <1>1, <1>2 DEF ContractPhase
<1> QED BY <1>1, <1>3, <1>4, <1>5 DEF Contract!Settle

\* A release gives the key back.
LEMMA ReleaseReleases ==
  ASSUME KeyInv, NEW r \in Requests, Release(r), answer[KeyOf[r]] = {}
  PROVE  Contract!Release(KeyOf[r])
<1> USE ApiAssumption DEF KeyInv, ApiTypeOK, keyVars, postVars, Exists
<1>1. /\ step[r] = "failing"
      /\ owner' = [owner EXCEPT ![KeyOf[r]] = {}]
      /\ aged' = aged \ {KeyOf[r]}
      /\ UNCHANGED <<answer, post>>
  BY DEF Release
<1>2. owner[KeyOf[r]] = {r}
  BY <1>1 DEF HolderOwns, Holding
<1>3. ContractPhase[KeyOf[r]] = "taken"
  BY <1>2 DEF ContractPhase
<1>4. ContractDone' = [ContractDone EXCEPT ![KeyOf[r]] = {}]
  BY <1>1 DEF ContractDone
<1>5. ContractPhase' = [ContractPhase EXCEPT ![KeyOf[r]] = "free"]
  BY <1>1 DEF ContractPhase
<1> QED BY <1>1, <1>3, <1>4, <1>5 DEF Contract!Release

\* A sweep lets the old keys expire.
LEMMA SweepExpires == ASSUME KeyInv, Sweep PROVE Contract!Expire(aged)
<1> USE DEF KeyInv, ApiTypeOK, keyVars, postVars, Exists
<1>1. /\ owner' = [k \in Keys |-> IF k \in aged THEN {} ELSE owner[k]]
      /\ answer' = [k \in Keys |-> IF k \in aged THEN {} ELSE answer[k]]
      /\ aged' = aged \ aged
      /\ UNCHANGED post
  BY DEF Sweep, Delete
<1>2. ContractDone' = [k \in Keys |-> IF k \in aged THEN {} ELSE ContractDone[k]]
  BY <1>1 DEF ContractDone
<1>3. ContractPhase' = [k \in Keys |-> IF k \in aged THEN "free" ELSE ContractPhase[k]]
  BY <1>1 DEF ContractPhase
<1> QED BY <1>1, <1>2, <1>3 DEF Contract!Expire

\* Every step of the API is a step of the contract, or leaves it as it is.
LEMMA StepIsContractStep ==
  ASSUME KeyInv, [ApiNext]_apiVars
  PROVE  [Contract!Next]_<<ContractPhase, ContractDone, aged>>
<1> USE ApiAssumption
<1>1. CASE UNCHANGED apiVars
  BY <1>1, ContractStutters DEF apiVars, postVars, Exists
<1>2. ASSUME NEW r \in Requests, Claim(r)
      PROVE  [Contract!Next]_<<ContractPhase, ContractDone, aged>>
  <2>1. CASE owner[KeyOf[r]] = {}
    BY <1>2, <2>1, ClaimTakes DEF Contract!Next
  <2>2. CASE owner[KeyOf[r]] # {}
    BY <1>2, <2>2, ContractStutters DEF Claim, postVars, Exists
  <2> QED BY <2>1, <2>2
<1>3. ASSUME NEW r \in Requests, Create(r)
      PROVE  [Contract!Next]_<<ContractPhase, ContractDone, aged>>
  <2>1. CASE post' # post
    BY <1>3, <2>1, CreateDoes DEF Contract!Next
  <2>2. CASE post' = post
    BY <1>3, <2>2, ContractStutters DEF Create, Exists
  <2> QED BY <2>1, <2>2
<1>4. ASSUME NEW r \in Requests, Finalize(r)
      PROVE  [Contract!Next]_<<ContractPhase, ContractDone, aged>>
  BY <1>4, FinalizeSettles DEF Contract!Next
<1>5. ASSUME NEW r \in Requests, Release(r)
      PROVE  [Contract!Next]_<<ContractPhase, ContractDone, aged>>
  <2>1. CASE answer[KeyOf[r]] = {}
    BY <1>5, <2>1, ReleaseReleases DEF Contract!Next
  <2>2. CASE answer[KeyOf[r]] # {}
    BY <1>5, <2>2, ContractStutters DEF Release, keyVars, postVars, Exists
  <2> QED BY <2>1, <2>2
<1>6. ASSUME NEW r \in Requests,
             Lookup(r) \/ CheckQuota(r) \/ BreakAfterCreate(r) \/ Die(r)
      PROVE  [Contract!Next]_<<ContractPhase, ContractDone, aged>>
  <2>1. UNCHANGED keyVars /\ UNCHANGED post
    BY <1>6 DEF Lookup, CheckQuota, BreakAfterCreate, Die, postVars
  <2> QED BY <2>1, ContractStutters DEF Exists
<1>7. ASSUME NEW p \in Requests, Publish(p) \/ LeaveWindow(p)
      PROVE  [Contract!Next]_<<ContractPhase, ContractDone, aged>>
  <2>1. UNCHANGED keyVars /\ \A q \in Requests : Exists(q)' <=> Exists(q)
    BY <1>7 DEF Publish, LeaveWindow, Exists, KeyInv, ApiTypeOK
  <2> QED BY <2>1, ContractStutters
<1>8. ASSUME NEW k \in Keys, Age(k)
      PROVE  [Contract!Next]_<<ContractPhase, ContractDone, aged>>
  <2>1. Contract!Age(k)
    BY <1>8 DEF Age, Contract!Age, ContractPhase, ContractDone, postVars, Exists
  <2> QED BY <2>1 DEF Contract!Next
<1>9. CASE Sweep
  BY <1>9, SweepExpires DEF Contract!Next, KeyInv, ApiTypeOK
<1>10. ASSUME NEW c \in Calls, WritePost(c)
       PROVE  [Contract!Next]_<<ContractPhase, ContractDone, aged>>
  <2>1. UNCHANGED keyVars /\ \A q \in Requests : Exists(q)' <=> Exists(q)
    BY <1>10 DEF WritePost, Exists, KeyInv, ApiTypeOK, CallsExist
  <2> QED BY <2>1, ContractStutters
<1>11. ASSUME NEW c \in Calls, NEW p \in Requests, ReadPost(c, p)
       PROVE  [Contract!Next]_<<ContractPhase, ContractDone, aged>>
  BY <1>11, ContractStutters DEF ReadPost, Exists
<1> QED BY <1>1, <1>2, <1>3, <1>4, <1>5, <1>6, <1>7, <1>8, <1>9, <1>10, <1>11
        DEF ApiNext, Proceed

\* The API implements KeyContract, for any number of requests and keys: while a
\* key is held at most one thing is done under it, and once it is answered the
\* answer stays what was done until the key expires.
THEOREM ContractKept == ApiSpec => KeepsKeyContract
<1>1. ApiInit => Contract!Init
  BY DEF ApiInit, Contract!Init, ContractPhase, ContractDone
<1>2. KeyInv /\ [ApiNext]_apiVars => [Contract!Next]_<<ContractPhase, ContractDone, aged>>
  BY StepIsContractStep
<1> QED BY <1>1, <1>2, KeyInvariant, PTL DEF ApiSpec, KeepsKeyContract, Contract!Spec
===================================================================================

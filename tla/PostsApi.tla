-------------------------------- MODULE PostsApi --------------------------------
(***************************************************************************)
(* The agents' API (src/apps/api/routers/posts.py and middleware.py, and   *)
(* the MCP tools of src/apps/mcp/handlers.py over the same services):      *)
(* creating a post under an idempotency key, scheduling and cancelling it, *)
(* and the daily quota of the account they all post to.                    *)
(*                                                                         *)
(* No request runs in one transaction (ATOMIC_REQUESTS is not set): the    *)
(* claim of the key, the count of the quota, the creation and the answer   *)
(* commit one by one, and a worker may die between any two of them.  A     *)
(* request makes at most one post, which bears its name; one without a     *)
(* key, as every MCP call is, has a key here that no other request uses.   *)
(***************************************************************************)
EXTENDS Integers, FiniteSets

CONSTANTS
  Requests,     \* POST /posts requests, and the posts they make
  Keys,         \* idempotency keys of one API key
  KeyOf,        \* the key of each request
  Bodies,       \* what requests ask for
  BodyOf,       \* the fingerprinted body of each request
  Immediate,    \* bodies whose action is schedule
  Calls,        \* outstanding schedule and cancel calls
  QuotaLimit    \* resolve_platform_limit of the account

ASSUME ApiAssumption ==
  /\ KeyOf \in [Requests -> Keys]
  /\ BodyOf \in [Requests -> Bodies]
  /\ Immediate \subseteq Bodies
  /\ QuotaLimit \in Nat

VARIABLES
  owner,      \* the request that inserted the key's row; {} without a row
  answer,     \* the post in the row's stored response; {} while pending
  aged,       \* keys whose row is older than IDEMPOTENCY_RECORD_TTL_HOURS
  step,       \* where each request is
  reply,      \* the post a request was told of; {} for none and for errors
  post,       \* status of the post of each request
  recent,     \* posts with updated_at in the last 24 hours
  call,       \* what a schedule or cancel call has read
  \* history
  spoiled,    \* posts a key's row does not account for
  contended   \* the quota was counted by two at once, or an old row came back

keyVars == <<owner, answer, aged>>
postVars == <<post, recent, call>>
apiVars == <<keyVars, step, reply, postVars, spoiled, contended>>

Steps == {"new", "lookup", "claimed", "checked", "created", "failing", "over"}
PostStatus == {"none", "draft", "scheduled", "attempted"}
Call == [kind : {"none", "schedule", "cancel"}, post : SUBSET Requests]
Idle == [kind |-> "none", post |-> {}]

ApiTypeOK ==
  /\ owner \in [Keys -> SUBSET Requests]
  /\ answer \in [Keys -> SUBSET Requests]
  /\ aged \subseteq Keys
  /\ step \in [Requests -> Steps]
  /\ reply \in [Requests -> SUBSET Requests]
  /\ post \in [Requests -> PostStatus]
  /\ recent \subseteq Requests
  /\ call \in [Calls -> Call]
  /\ spoiled \subseteq Requests
  /\ contended \in BOOLEAN

ApiInit ==
  /\ owner = [k \in Keys |-> {}]
  /\ answer = [k \in Keys |-> {}]
  /\ aged = {}
  /\ step = [r \in Requests |-> "new"]
  /\ reply = [r \in Requests |-> {}]
  /\ post = [r \in Requests |-> "none"]
  /\ recent = {}
  /\ call = [c \in Calls |-> Idle]
  /\ spoiled = {}
  /\ contended = FALSE

Exists(p) == post[p] # "none"
Running(r) == step[r] \notin {"new", "over"}

Goto(r, s) == step' = [step EXCEPT ![r] = s]

--------------------------------------------------------------------------------
(* The key. *)

\* Mutant: a pending row is taken over.
ClaimPending(r) ==
  LET k == KeyOf[r]
  IN  /\ step[r] = "new"
      /\ IF answer[k] # {}
           THEN Goto(r, "lookup") /\ UNCHANGED keyVars
           ELSE /\ Goto(r, "claimed")
                /\ owner' = [owner EXCEPT ![k] = {r}]
                /\ UNCHANGED <<answer, aged>>
      /\ UNCHANGED <<reply, postVars, spoiled, contended>>

\* INSERT under the unique constraint (api_key, key).
Claim(r) ==
  LET k == KeyOf[r]
  IN  /\ step[r] = "new"
      /\ \/ /\ owner[k] = {}
            /\ owner' = [owner EXCEPT ![k] = {r}]
            /\ Goto(r, "claimed")
            /\ UNCHANGED <<answer, aged>>
         \/ /\ owner[k] # {}
            /\ Goto(r, "lookup")
            /\ UNCHANGED keyVars
      /\ UNCHANGED <<reply, postVars, spoiled, contended>>

\* The request is answered with the posts of a, {} standing for an error.
Respond(r, a) ==
  /\ Goto(r, "over")
  /\ reply' = [reply EXCEPT ![r] = a]

\* Mutant: the fingerprint is not compared.
LookupBlind(r) ==
  /\ step[r] = "lookup"
  /\ Respond(r, answer[KeyOf[r]])
  /\ UNCHANGED <<keyVars, postVars, spoiled, contended>>

\* The row that was in the way, fetched again: replayed when it has an answer
\* to the same body; in flight, mismatched or gone by now, an error.
Lookup(r) ==
  LET k == KeyOf[r]
      same == \E o \in owner[k] : BodyOf[o] = BodyOf[r]
  IN  /\ step[r] = "lookup"
      /\ \/ same /\ Respond(r, answer[k])
         \/ ~same /\ Respond(r, {})
      /\ UNCHANGED <<keyVars, postVars, spoiled, contended>>

\* The stored response, by a filtered UPDATE: nothing if the row is gone.  The
\* client may not hear it, and the UPDATE may raise after it was applied.
Finalize(r) ==
  LET k == KeyOf[r]
  IN  /\ step[r] = "created"
      /\ answer' = IF owner[k] # {} THEN [answer EXCEPT ![k] = {r}] ELSE answer
      /\ \/ Respond(r, {r})
         \/ Goto(r, "over") /\ UNCHANGED reply
         \/ Goto(r, "failing") /\ UNCHANGED reply
      /\ UNCHANGED <<owner, aged, postVars, spoiled, contended>>

\* Mutant: the row goes, answered or not.
ReleaseAny(r) ==
  /\ step[r] = "failing"
  /\ owner' = [owner EXCEPT ![KeyOf[r]] = {}]
  /\ answer' = [answer EXCEPT ![KeyOf[r]] = {}]
  /\ aged' = aged \ {KeyOf[r]}
  /\ Respond(r, {})
  /\ UNCHANGED <<postVars, spoiled, contended>>

\* DELETE of a row that is still pending.
Release(r) ==
  LET k == KeyOf[r]
      pending == answer[k] = {}
  IN  /\ step[r] = "failing"
      /\ owner' = IF pending THEN [owner EXCEPT ![k] = {}] ELSE owner
      /\ aged' = IF pending THEN aged \ {k} ELSE aged
      /\ Respond(r, {})
      /\ UNCHANGED <<answer, postVars, spoiled, contended>>

\* A day has passed since the row was inserted; no request lives that long.
Age(k) ==
  /\ owner[k] # {}
  /\ \A r \in owner[k] : ~Running(r)
  /\ k \notin aged
  /\ aged' = aged \cup {k}
  /\ UNCHANGED <<owner, answer, step, reply, postVars, spoiled, contended>>

\* The rows of the keys in gone are deleted.
Delete(gone) ==
  /\ gone # {}
  /\ owner' = [k \in Keys |-> IF k \in gone THEN {} ELSE owner[k]]
  /\ answer' = [k \in Keys |-> IF k \in gone THEN {} ELSE answer[k]]
  /\ aged' = aged \ gone
  /\ spoiled' = spoiled \cup UNION {answer[k] : k \in gone}
  /\ UNCHANGED <<step, reply, postVars, contended>>

\* Mutant: rows without an answer are kept.
SweepAnswered == Delete({k \in aged : answer[k] # {}})

\* sweep_stale_idempotency_records: whatever their response_status.
Sweep == Delete(aged)

--------------------------------------------------------------------------------
(* The quota and the posts. *)

Consuming == {"scheduled", "attempted"}

\* count_recent_creations; attempted is publishing, published and failed.
Used == {p \in recent : post[p] \in Consuming}

\* Counted, and not scheduled yet.
Admitted ==
  {r \in Requests : step[r] = "checked" /\ BodyOf[r] \in Immediate}
    \cup {c \in Calls : call[c].kind = "schedule"}

\* Mutant: one too many.
WithinQuotaLate == Cardinality(Used) <= QuotaLimit

WithinQuota == Cardinality(Used) < QuotaLimit

\* check_platform_quota, for a request that schedules at once.
CheckQuota(r) ==
  /\ step[r] = "claimed"
  /\ IF BodyOf[r] \in Immediate
       THEN \/ /\ WithinQuota
               /\ Goto(r, "checked")
               /\ contended' = (contended \/ Admitted # {})
            \/ /\ ~WithinQuota
               /\ Goto(r, "failing")
               /\ UNCHANGED contended
       ELSE Goto(r, "checked") /\ UNCHANGED contended
  /\ UNCHANGED <<keyVars, reply, postVars, spoiled>>

\* create_post commits the post and its row together, or nothing.
Create(r) ==
  /\ step[r] = "checked"
  /\ \/ /\ Goto(r, "created")
        /\ post' = [post EXCEPT ![r] = IF BodyOf[r] \in Immediate THEN "scheduled" ELSE "draft"]
        /\ recent' = recent \cup {r}
     \/ Goto(r, "failing") /\ UNCHANGED <<post, recent>>
  /\ UNCHANGED <<keyVars, reply, call, spoiled, contended>>

\* The response or the audit entry raises after create_post committed.
BreakAfterCreate(r) ==
  /\ step[r] = "created"
  /\ Goto(r, "failing")
  /\ spoiled' = spoiled \cup {r}
  /\ UNCHANGED <<keyVars, reply, postVars, contended>>

\* The worker dies; nobody is answered and the key is not released.
Die(r) ==
  /\ Running(r)
  /\ Goto(r, "over")
  /\ spoiled' = IF step[r] = "created" THEN spoiled \cup {r} ELSE spoiled
  /\ UNCHANGED <<keyVars, reply, postVars, contended>>

\* /schedule reads the draft and counts; /cancel reads the scheduled row.
ReadPost(c, p) ==
  /\ call[c] = Idle
  /\ \/ /\ post[p] = "draft"
        /\ WithinQuota
        /\ call' = [call EXCEPT ![c] = [kind |-> "schedule", post |-> {p}]]
        /\ contended' = (contended \/ Admitted # {})
     \/ /\ post[p] = "scheduled"
        /\ call' = [call EXCEPT ![c] = [kind |-> "cancel", post |-> {p}]]
        /\ UNCHANGED contended
  /\ UNCHANGED <<keyVars, step, reply, post, recent, spoiled>>

\* transition_platform_post decides on the row as it was read.
WritePost(c) ==
  /\ call[c] # Idle
  /\ post' = [p \in Requests |->
                IF p \notin call[c].post THEN post[p]
                ELSE IF call[c].kind = "schedule" THEN "scheduled" ELSE "draft"]
  /\ recent' = recent \cup call[c].post
  /\ call' = [call EXCEPT ![c] = Idle]
  /\ UNCHANGED <<keyVars, step, reply, spoiled, contended>>

\* The publisher works on the row, which counts from now on.
Publish(p) ==
  /\ post[p] = "scheduled"
  /\ post' = [post EXCEPT ![p] = "attempted"]
  /\ recent' = recent \cup {p}
  /\ contended' = (contended \/ p \notin recent)
  /\ UNCHANGED <<keyVars, step, reply, call, spoiled>>

\* A day without a write to the row; no request lives that long.
LeaveWindow(p) ==
  /\ p \in recent
  /\ \A r \in Requests : ~Running(r)
  /\ \A c \in Calls : call[c] = Idle
  /\ recent' = recent \ {p}
  /\ UNCHANGED <<keyVars, step, reply, post, call, spoiled, contended>>

--------------------------------------------------------------------------------
Proceed(r) ==
  \/ Claim(r)
  \/ Lookup(r)
  \/ CheckQuota(r)
  \/ Create(r)
  \/ Finalize(r)
  \/ BreakAfterCreate(r)
  \/ Release(r)

ApiNext ==
  \/ \E r \in Requests : Proceed(r) \/ Die(r) \/ Publish(r) \/ LeaveWindow(r)
  \/ \E k \in Keys : Age(k)
  \/ Sweep
  \/ \E c \in Calls : WritePost(c) \/ \E p \in Requests : ReadPost(c, p)

ApiSpec == ApiInit /\ [][ApiNext]_apiVars

--------------------------------------------------------------------------------
(* Properties. *)

\* The key as the contract sees it: what was done is what its holder made.
ContractPhase ==
  [k \in Keys |-> IF owner[k] = {} THEN "free" ELSE IF answer[k] = {} THEN "taken" ELSE "settled"]
ContractDone == [k \in Keys |-> {p \in owner[k] : Exists(p)}]

Contract == INSTANCE KeyContract
              WITH Effects <- Requests, phase <- ContractPhase, done <- ContractDone, old <- aged

\* The API implements the contract of a key: claim, creation, answer, release
\* and sweep, in whatever order the requests that share a key take them.
KeepsKeyContract == Contract!Spec

\* "This is the same pattern Stripe documents": two posts made under one key
\* mean that the first broke or died after its creation, or that its row was
\* swept a day later.
OnePostPerKey ==
  \A p, q \in Requests :
    /\ Exists(p) /\ Exists(q)
    /\ KeyOf[p] = KeyOf[q]
    => p = q \/ p \in spoiled \/ q \in spoiled

\* An answer names a post that exists and is what the request asked for.
AnswersAreTrue ==
  \A r \in Requests : \A p \in reply[r] :
    /\ Exists(p)
    /\ BodyOf[p] = BodyOf[r]
    /\ KeyOf[p] = KeyOf[r]

\* The account exceeds its daily cap only after two calls counted before either
\* wrote, or when a row that had left the window is published.
QuotaHolds == contended \/ Cardinality(Used) <= QuotaLimit

\* A key that answers 409 does not do so for ever, whoever died holding it.
KeyIsFreed ==
  \A k \in Keys : owner[k] # {} /\ answer[k] = {} ~> owner[k] = {} \/ answer[k] # {}

================================================================================

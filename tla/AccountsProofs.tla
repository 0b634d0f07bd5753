----------------------------- MODULE AccountsProofs -----------------------------
(***************************************************************************)
(* Proofs about the accounts of a workspace and who reaches them.          *)
(* AgentAccess, for any number of workers, channels and scopes: an agent   *)
(* stays inside what its key and the key's issuer may do.  Connections,    *)
(* for any number of tabs, workspaces and dialogues: an account is         *)
(* connected under a mandate, counted, and by an authorisation used once.  *)
(* Subscriptions, for any number of workspaces, connections and calls: who *)
(* is shown as live is, and what is pushed to nobody has a reason.         *)
(***************************************************************************)
EXTENDS AgentAccess, Connections, Subscriptions, WellFoundedInduction, FiniteSetTheorems, TLAPS

--------------------------------------------------------------------------------
(* AgentAccess: what makes the invariant inductive. *)

\* What a call is made of.
KeyRow == [perms : SUBSET Perms, allow : SUBSET Home, revoked : BOOLEAN]
Row == [key : KeyRow, mode : {"none", "required"}]
Why == {"since", "role", "raced", "busting", "uncommitted", "elsewhere", "unwatched", "empty"}
Visit == [step : Stages, kind : {"key", "oauth", "wrong", "session"}, row : Row,
          behind : SUBSET Why, perms : SUBSET Perms, space : Spaces, left : Int]
Edit == [step : {"commit"}, perms : SUBSET Perms, allow : SUBSET Home]
Entry == [row : Row, behind : SUBSET (Why \ {"role"})]
DoesBust == [step |-> "bust"]

AccessShape ==
  /\ shared \in BOOLEAN
  /\ key \in KeyRow
  /\ mode \in {"none", "required"}
  /\ role \in [Spaces -> DOMAIN Rights]
  /\ cached \in [Servers -> Entry]
  /\ call \in [Servers -> {Free, DoesBust} \cup Edit \cup Visit]
  /\ idea \in [drafts : Nat, linked : BOOLEAN]
  /\ failures \in Nat

\* The steps in which a call works on what it found out.
Acting == {"run", "pick", "link"}

\* The call's copy of the row is older than a change.
Older(w) == call[w].behind \ {"role"} # {}

\* Until a change makes it old, the copy a call works on is the row, and the
\* permissions it has are those of the row and of the issuer.
CallIsFresh(w) ==
  LET c == call[w]
  IN  /\ c.step \in {"lookup", "read", "store", "check", "grant"} => c.space = "home"
      /\ c.step = "resolve" => c.kind # "key"
      /\ c.step = "store" => Older(w) \/ (c.row = RowNow /\ ~key.revoked)
      /\ c.step \in {"check", "grant"} \cup Acting => Older(w) \/ c.row = RowNow
      /\ c.step = "grant" => "role" \in c.behind \/ Employed("home")
      /\ c.step \in {"grant"} \cup Acting /\ c.kind = "key" => ~c.row.key.revoked
      /\ c.step \in Acting => "role" \in c.behind \/ (Employed(c.space) /\ c.perms \subseteq Rights[role[c.space]])
      /\ c.step \in Acting /\ c.kind = "key" => c.perms \subseteq c.row.key.perms

CallsAreFresh == \A w \in Servers : CallIsFresh(w)
EntriesAreExplained == \A w \in Servers : EntryIsExplained(w)

\* Who works on the idea.
Picking == {w \in Servers : call[w].step \in {"pick", "link"}}

IdeaIsTakenOnce ==
  ~crossed =>
    /\ \A v, w \in Picking : v = w
    /\ \A w \in Servers : Does(w, "pick") => idea.drafts = 0
    /\ idea.drafts <= 1
    /\ idea.drafts = 1 => idea.linked \/ \E w \in Servers : Does(w, "link")

\* The calls whose refusal will be counted.
Counted == {w \in Servers : call[w].step \in Stages /\ call[w].kind # "session"}
FailuresAreLimited == failures + Cardinality(Counted) < FailLimit + Cardinality(Servers)

AccessInv ==
  AccessShape /\ CallsAreFresh /\ EntriesAreExplained /\ IdeaIsTakenOnce /\ FailuresAreLimited

CallShape == {Free, DoesBust} \cup Edit \cup Visit

--------------------------------------------------------------------------------
(* Shapes. *)

\* What a call that is under way is made of.
LEMMA VisitOfStep ==
  ASSUME AccessShape, NEW w \in Servers, call[w].step \in Stages
  PROVE  call[w] \in Visit
BY DEF AccessShape, Free, DoesBust, Edit, Stages

LEMMA EditOfStep ==
  ASSUME AccessShape, NEW w \in Servers, call[w].step = "commit"
  PROVE  call[w] \in Edit
BY DEF AccessShape, Free, DoesBust, Visit, Stages

\* An entry is put into one cache, or into the one that is shared.
LEMMA EnteredShape ==
  ASSUME AccessShape, NEW w \in Servers, NEW e \in Entry
  PROVE  Entered(w, e) \in [Servers -> Entry]
BY DEF AccessShape, Entered

LEMMA NoRowShape == NoRow \in Row /\ NoEntry \in Entry
BY DEF NoRow, Row, KeyRow, NoEntry, Entry, Why

LEMMA RowNowShape == ASSUME AccessShape PROVE RowNow \in Row
BY DEF AccessShape, RowNow, Row

\* The next message of a call, or its end.
LEMMA AnsweredShape ==
  ASSUME NEW w \in Servers, call[w] \in Visit
  PROVE  /\ Answered(w) \in CallShape
         /\ Answered(w) = Free \/ (Answered(w) \in Visit /\ Answered(w).step = "run")
<1>1. [call[w] EXCEPT !.step = "run", !.left = @ - 1] \in Visit
  <2>1. call[w].left - 1 \in Int /\ "run" \in Stages
    BY DEF Visit, Stages
  <2>. QED BY <2>1 DEF Visit
<1>. QED BY <1>1 DEF Answered, CallShape, Visit

LEMMA RightsShape == Rights \in [DOMAIN Rights -> SUBSET Perms]
BY DEF Rights, Perms

\* What FallBehind does to the calls and to the entries.
LEMMA FallBehindShape ==
  ASSUME AccessShape, NEW next \in [Servers -> CallShape], NEW why \in [Servers -> Why \ {"role"}],
         FallBehind(next, why)
  PROVE  call' \in [Servers -> CallShape] /\ cached' \in [Servers -> Entry]
<1>1. \A w \in Servers : next[w].step \in Stages =>
        next[w] \in Visit /\ [next[w] EXCEPT !.behind = @ \cup {"since"}] \in Visit
  BY DEF CallShape, Free, DoesBust, Edit, Visit, Stages, Why
<1>2. call' \in [Servers -> CallShape]
  BY <1>1 DEF FallBehind, CallShape
<1>3. \A w \in Servers : [cached[w] EXCEPT !.behind = @ \cup {why[w]}] \in Entry
  BY DEF AccessShape, Entry
<1>4. cached' \in [Servers -> Entry]
  BY <1>3, NoRowShape DEF FallBehind
<1>. QED BY <1>2, <1>4

\* The calls of a step of one worker.
LEMMA ServeShape ==
  ASSUME AccessShape, NEW w \in Servers, Serve(w)
  PROVE  call' \in [Servers -> CallShape] /\ cached' \in [Servers -> Entry] /\ failures' \in Nat
<1>0. /\ call \in [Servers -> CallShape] /\ cached \in [Servers -> Entry] /\ failures \in Nat
      /\ Free \in CallShape
  BY DEF AccessShape, CallShape
<1>1. CASE Arrive(w)
  <2>1. \A kind \in {"key", "oauth", "wrong", "session"}, step \in {"lookup", "resolve"}, n \in Int :
          Caller(kind, step, n) \in Visit
    BY NoRowShape DEF Caller, Visit, Stages, Spaces
  <2>. QED BY <1>0, <1>1, <2>1, AccessAssumption DEF Arrive, Becomes, CallShape
<1>2. CASE LookUp(w)
  <2>1. call[w] \in Visit
    BY <1>2, VisitOfStep DEF LookUp, Does, Stages
  <2>2. [call[w] EXCEPT !.step = "read"] \in Visit
    BY <2>1 DEF Visit, Stages
  <2>3. [call[w] EXCEPT !.step = "check", !.row = cached[w].row, !.behind = cached[w].behind] \in Visit
    BY <1>0, <2>1 DEF Visit, Stages, Entry
  <2>. QED BY <1>0, <1>2, <2>2, <2>3 DEF LookUp, Becomes, Refuse, CallShape
<1>3. CASE ReadRow(w)
  <2>1. call[w] \in Visit
    BY <1>3, VisitOfStep DEF ReadRow, Does, Stages
  <2>2. \A s \in Stages : [call[w] EXCEPT !.step = s, !.row = RowNow] \in Visit
    BY <2>1, RowNowShape DEF Visit
  <2>3. [call[w] EXCEPT !.step = IF IsActive(key) THEN "store" ELSE "check", !.row = RowNow] \in Visit
    BY <2>2 DEF Stages
  <2>. QED BY <1>0, <1>3, <2>3 DEF ReadRow, Becomes, CallShape
<1>4. CASE Store(w)
  <2>1. call[w] \in Visit
    BY <1>4, VisitOfStep DEF Store, Does, Stages
  <2>2. [call[w] EXCEPT !.step = "check"] \in Visit
    BY <2>1 DEF Visit, Stages
  <2>3. [row |-> call[w].row, behind |-> IF call[w].behind = {} THEN {} ELSE {"raced"}] \in Entry
    BY <2>1 DEF Visit, Entry, Why
  <2>4. cached' \in [Servers -> Entry]
    BY <1>4, <2>3, EnteredShape DEF Store
  <2>. QED BY <1>0, <1>4, <2>2, <2>4 DEF Store, Becomes, CallShape
<1>5. CASE Check(w)
  <2>1. call[w] \in Visit
    BY <1>5, VisitOfStep DEF Check, Does, Stages
  <2>2. [call[w] EXCEPT !.step = "grant"] \in Visit
    BY <2>1 DEF Visit, Stages
  <2>3. Entered(w, NoEntry) \in [Servers -> Entry]
    BY NoRowShape, EnteredShape
  <2>. QED BY <1>0, <1>5, <2>2, <2>3 DEF Check, Becomes, Refuse, CallShape
<1>6. CASE Grant(w)
  <2>1. call[w] \in Visit
    BY <1>6, VisitOfStep DEF Grant, Does, Stages
  <2>2. [call[w] EXCEPT !.step = "run", !.perms = call[w].row.key.perms \cap Rights[role["home"]]] \in Visit
    BY <2>1 DEF Visit, Stages, Row, KeyRow
  <2>. QED BY <1>0, <1>6, <2>2 DEF Grant, Becomes, CallShape
<1>7. CASE Resolve(w)
  <2>1. call[w] \in Visit
    BY <1>7, VisitOfStep DEF Resolve, Does, Stages
  <2>2. \A x \in Spaces : Rights[role[x]] \in SUBSET Perms
    BY RightsShape DEF AccessShape
  <2>3. \A x \in Spaces :
          [call[w] EXCEPT !.step = "run", !.space = x, !.row = RowNow, !.perms = Rights[role[x]]] \in Visit
    BY <2>1, <2>2, RowNowShape DEF Visit, Stages
  <2>4. cached' = cached /\ (failures' = failures \/ failures' = failures + 1)
    BY <1>7 DEF Resolve, Refuse
  <2>5. \/ Becomes(w, Free)
        \/ \E x \in Spaces :
             Becomes(w, [call[w] EXCEPT !.step = "run", !.space = x, !.row = RowNow,
                                        !.perms = Rights[role[x]]])
    BY <1>7 DEF Resolve, Refuse
  <2>6. call' \in [Servers -> CallShape]
    BY <1>0, <2>3, <2>5 DEF Becomes, CallShape
  <2>. QED BY <1>0, <2>4, <2>6
<1>. QED BY <1>1, <1>2, <1>3, <1>4, <1>5, <1>6, <1>7 DEF Serve

LEMMA MessageShape ==
  ASSUME AccessShape, NEW w \in Servers, Message(w)
  PROVE  call' \in [Servers -> CallShape] /\ idea' \in [drafts : Nat, linked : BOOLEAN]
<1>0. call \in [Servers -> CallShape] /\ Free \in CallShape
  BY DEF AccessShape, CallShape
<1>1. call[w] \in Visit
  BY VisitOfStep DEF Message, Rejected, Limited, CallTool, PickIdea, MakeDraft, LinkIdea, Die, Does, Stages
<1>2. /\ Answered(w) \in CallShape
      /\ [call[w] EXCEPT !.step = "pick"] \in CallShape
      /\ [call[w] EXCEPT !.step = "link"] \in CallShape
  BY <1>1, AnsweredShape DEF Visit, Stages, CallShape
<1>3. call' \in [Servers -> CallShape]
  BY <1>0, <1>2
     DEF Message, Rejected, Limited, CallTool, PickIdea, MakeDraft, LinkIdea, Die, Becomes
<1>4. idea' \in [drafts : Nat, linked : BOOLEAN]
  <2>1. \/ idea' = idea
        \/ idea' = [idea EXCEPT !.drafts = @ + 1]
        \/ idea' = [idea EXCEPT !.linked = TRUE]
    BY DEF Message, Rejected, Limited, CallTool, PickIdea, MakeDraft, LinkIdea, Die, dataVars
  <2>2. idea \in [drafts : Nat, linked : BOOLEAN] /\ idea.drafts + 1 \in Nat
    BY DEF AccessShape
  <2>. QED BY <2>1, <2>2
<1>. QED BY <1>3, <1>4

LEMMA AdministerShape ==
  ASSUME AccessShape, NEW w \in Servers, Administer(w)
  PROVE  call' \in [Servers -> CallShape] /\ cached' \in [Servers -> Entry] /\ key' \in KeyRow
<1>0. /\ call \in [Servers -> CallShape] /\ cached \in [Servers -> Entry]
      /\ Free \in CallShape /\ DoesBust \in CallShape
      /\ Entered(w, NoEntry) \in [Servers -> Entry]
  BY NoRowShape, EnteredShape DEF AccessShape, CallShape
<1>1. CASE SaveEdit(w)
  <2>1. PICK asked \in Scopes, allow \in SUBSET AccountsIn("home") \ {{}} :
          Becomes(w, [step |-> "commit", perms |-> Clamped(asked), allow |-> allow])
    BY <1>1 DEF SaveEdit
  <2>2. Clamped(asked) \subseteq Perms /\ allow \subseteq Home
    BY AccessAssumption, RightsShape DEF Clamped, AccountsIn, AccessShape, KeyRow
  <2>3. [step |-> "commit", perms |-> Clamped(asked), allow |-> allow] \in Edit
    BY <2>2 DEF Edit
  <2>. QED BY <1>0, <1>1, <2>1, <2>3 DEF SaveEdit, Becomes, CallShape, AccessShape
<1>2. CASE CommitEdit(w)
  <2>1. call[w] \in Edit
    BY <1>2, EditOfStep DEF CommitEdit, Does
  <2>2. [v \in Servers |-> Here(w, v, "uncommitted")] \in [Servers -> Why \ {"role"}]
    BY DEF Here, Why
  <2>3. [call EXCEPT ![w] = Free] \in [Servers -> CallShape]
    BY <1>0
  <2>4. call' \in [Servers -> CallShape] /\ cached' \in [Servers -> Entry]
    BY <1>2, <2>2, <2>3, FallBehindShape DEF CommitEdit
  <2>5. key' \in KeyRow
    BY <1>2, <2>1 DEF CommitEdit, KeyRow, Edit, AccessShape
  <2>. QED BY <2>4, <2>5
<1>3. CASE SaveRevoked(w)
  <2>2. [v \in Servers |-> Here(w, v, "busting")] \in [Servers -> Why \ {"role"}]
    BY DEF Here, Why
  <2>3. [call EXCEPT ![w] = [step |-> "bust"]] \in [Servers -> CallShape]
    BY <1>0 DEF DoesBust
  <2>4. call' \in [Servers -> CallShape] /\ cached' \in [Servers -> Entry]
    BY <1>3, <2>2, <2>3, FallBehindShape DEF SaveRevoked
  <2>5. key' \in KeyRow
    BY <1>3 DEF SaveRevoked, KeyRow, AccessShape
  <2>. QED BY <2>4, <2>5
<1>4. CASE AbortEdit(w) \/ Bust(w)
  BY <1>0, <1>4 DEF AbortEdit, Bust, Becomes, AccessShape
<1>. QED BY <1>1, <1>2, <1>3, <1>4 DEF Administer

LEMMA MeanwhileShape ==
  ASSUME AccessShape, Meanwhile
  PROVE  /\ call' \in [Servers -> CallShape] /\ cached' \in [Servers -> Entry] /\ key' \in KeyRow
         /\ mode' \in {"none", "required"} /\ role' \in [Spaces -> DOMAIN Rights]
         /\ failures' \in Nat /\ shared' = shared /\ idea' = idea
<1>0. /\ call \in [Servers -> CallShape] /\ cached \in [Servers -> Entry] /\ key \in KeyRow
      /\ mode \in {"none", "required"} /\ role \in [Spaces -> DOMAIN Rights] /\ failures \in Nat
  BY DEF AccessShape, CallShape
<1>1. CASE KeyExpires \/ ForgetFailures \/ \E x \in Spaces : SwitchSpace(x)
  BY <1>0, <1>1 DEF KeyExpires, ForgetFailures, SwitchSpace, worldVars, dataVars
<1>2. CASE \E w \in Servers : EntryExpires(w)
  BY <1>0, <1>2, NoRowShape, EnteredShape DEF EntryExpires, worldVars, dataVars
<1>3. ASSUME NEW x \in Spaces, NEW r \in Roles, ChangeRole(x, r)
      PROVE  /\ call' \in [Servers -> CallShape] /\ role' \in [Spaces -> DOMAIN Rights]
             /\ UNCHANGED <<cached, key, mode, failures, shared, idea>>
  <2>1. \A w \in Servers : call[w].step \in {"grant", "run", "pick", "link"} =>
          [call[w] EXCEPT !.behind = @ \cup {"role"}] \in Visit
    <3>1. ASSUME NEW w \in Servers, call[w] \in Visit
          PROVE  [call[w] EXCEPT !.behind = @ \cup {"role"}] \in Visit
      BY <3>1 DEF Visit, Why
    <3>. QED BY <3>1, VisitOfStep DEF Stages
  <2>2. call' \in [Servers -> CallShape]
    BY <1>0, <1>3, <2>1 DEF ChangeRole, CallShape
  <2>. QED BY <1>0, <1>3, <2>2, AccessAssumption DEF ChangeRole, dataVars
<1>4. CASE SetMode
  <2>1. Unwatched \in [Servers -> Why \ {"role"}]
    BY DEF Unwatched, Why
  <2>. QED BY <1>0, <1>4, <2>1, FallBehindShape DEF SetMode, dataVars
<1>5. ASSUME NEW c \in Home \cup Away, Disconnect(c)
      PROVE  /\ call' \in [Servers -> CallShape] /\ cached' \in [Servers -> Entry] /\ key' \in KeyRow
             /\ UNCHANGED <<mode, role, failures, shared, idea>>
  <2>1. Unwatched \in [Servers -> Why \ {"role"}]
    BY DEF Unwatched, Why
  <2>2. key' \in KeyRow
    BY <1>0, <1>5 DEF Disconnect, KeyRow
  <2>. QED BY <1>0, <1>5, <2>1, <2>2, FallBehindShape DEF Disconnect
<1>. QED BY <1>0, <1>1, <1>2, <1>3, <1>4, <1>5 DEF Meanwhile

\* Every step keeps the shapes.
LEMMA ShapeStep == ASSUME AccessShape, [AccessNext]_accessVars PROVE AccessShape'
<1>0. AccessShape' <=> /\ shared' \in BOOLEAN /\ key' \in KeyRow /\ mode' \in {"none", "required"}
                       /\ role' \in [Spaces -> DOMAIN Rights] /\ cached' \in [Servers -> Entry]
                       /\ call' \in [Servers -> CallShape]
                       /\ idea' \in [drafts : Nat, linked : BOOLEAN] /\ failures' \in Nat
  BY DEF AccessShape, CallShape
<1>1. CASE UNCHANGED accessVars
  BY <1>1 DEF AccessShape, accessVars, worldVars, dataVars
<1>2. ASSUME NEW w \in Servers, Serve(w) PROVE AccessShape'
  <2>1. UNCHANGED <<shared, key, mode, role, idea>>
    BY <1>2 DEF Serve, Arrive, LookUp, ReadRow, Store, Check, Grant, Resolve, worldVars, dataVars
  <2>. QED BY <1>0, <1>2, <2>1, ServeShape DEF AccessShape
<1>3. ASSUME NEW w \in Servers, Message(w) PROVE AccessShape'
  <2>1. UNCHANGED <<shared, key, mode, role, cached, failures>>
    BY <1>3 DEF Message, Rejected, Limited, CallTool, PickIdea, MakeDraft, LinkIdea, Die, worldVars
  <2>. QED BY <1>0, <1>3, <2>1, MessageShape DEF AccessShape
<1>4. ASSUME NEW w \in Servers, Administer(w) PROVE AccessShape'
  <2>1. UNCHANGED <<shared, mode, role, idea, failures>>
    BY <1>4 DEF Administer, SaveEdit, CommitEdit, AbortEdit, SaveRevoked, Bust, worldVars, dataVars
  <2>. QED BY <1>0, <1>4, <2>1, AdministerShape DEF AccessShape
<1>5. CASE Meanwhile
  BY <1>0, <1>5, MeanwhileShape DEF AccessShape
<1>. QED BY <1>1, <1>2, <1>3, <1>4, <1>5 DEF AccessNext

--------------------------------------------------------------------------------
(* The caches and the copies. *)

\* The steps in which FallBehind marks a call.
Marked == Stages \ {"lookup", "read", "resolve"}

\* A call of one worker goes on while nothing it looks at changes.
LEMMA OthersStayFresh ==
  ASSUME CallsAreFresh, UNCHANGED <<key, mode, role>>, NEW w \in Servers,
         \A v \in Servers \ {w} : call'[v] = call[v],
         CallIsFresh(w)'
  PROVE  CallsAreFresh'
<1>1. ASSUME NEW v \in Servers, v # w PROVE CallIsFresh(v)'
  <2>1. CallIsFresh(v) /\ call'[v] = call[v]
    BY <1>1 DEF CallsAreFresh
  <2>. QED BY <2>1 DEF CallIsFresh, Older, RowNow, Employed
<1>. QED BY <1>1 DEF CallsAreFresh

\* The row changes, and every call that has a copy of it knows.
LEMMA MarkedStayFresh ==
  ASSUME AccessShape, CallsAreFresh, UNCHANGED role,
         \A v \in Servers :
           \/ call'[v].step \notin Stages
           \/ call[v].step \in Marked /\ call'[v] = [call[v] EXCEPT !.behind = @ \cup {"since"}]
           \/ call[v].step \in Stages \ Marked /\ call'[v] = call[v]
  PROVE  CallsAreFresh'
<1>1. ASSUME NEW v \in Servers, call'[v].step \notin Stages PROVE CallIsFresh(v)'
  BY <1>1 DEF CallIsFresh, Stages, Acting
<1>2. ASSUME NEW v \in Servers, call[v].step \in Stages \ Marked, call'[v] = call[v]
      PROVE  CallIsFresh(v)'
  <2>1. CallIsFresh(v)
    BY DEF CallsAreFresh
  <2>. QED BY <1>2, <2>1 DEF CallIsFresh, Marked, Stages, Acting
<1>3. ASSUME NEW v \in Servers, call[v].step \in Marked,
             call'[v] = [call[v] EXCEPT !.behind = @ \cup {"since"}]
      PROVE  CallIsFresh(v)'
  <2>1. CallIsFresh(v)
    BY DEF CallsAreFresh
  <2>2. call[v] \in Visit
    BY <1>3, VisitOfStep DEF Marked
  <2>3. /\ call'[v].step = call[v].step /\ call'[v].kind = call[v].kind
        /\ call'[v].row = call[v].row /\ call'[v].perms = call[v].perms
        /\ call'[v].space = call[v].space
        /\ call'[v].behind = call[v].behind \cup {"since"}
    BY <1>3, <2>2 DEF Visit
  <2>4. Older(v)' /\ ("role" \in call[v].behind => "role" \in call'[v].behind)
    BY <2>3 DEF Older
  <2>. QED BY <2>1, <2>3, <2>4 DEF CallIsFresh, Employed
<1>. QED BY <1>1, <1>2, <1>3 DEF CallsAreFresh

\* What FallBehind says of a call.
LEMMA FallBehindMarks ==
  ASSUME NEW next, NEW why, FallBehind(next, why),
         \A v \in Servers : next[v] = call[v] \/ next[v].step \notin Stages
  PROVE  \A v \in Servers :
           \/ call'[v].step \notin Stages
           \/ call[v].step \in Marked /\ call'[v] = [call[v] EXCEPT !.behind = @ \cup {"since"}]
           \/ call[v].step \in Stages \ Marked /\ call'[v] = call[v]
BY DEF FallBehind, Marked

\* Entries that go, or stay while the row does.
LEMMA EntriesStand ==
  ASSUME EntriesAreExplained, UNCHANGED <<key, mode, shared>>,
         \A u \in Servers : cached'[u] = cached[u] \/ cached'[u] = NoEntry,
         \A v \in Servers : Does(v, "bust") => Does(v, "bust")'
  PROVE  EntriesAreExplained'
<1>1. ASSUME NEW u \in Servers PROVE EntryIsExplained(u)'
  <2>1. EntryIsExplained(u)
    BY DEF EntriesAreExplained
  <2>. QED BY <2>1 DEF EntryIsExplained, RowNow
<1>. QED BY <1>1 DEF EntriesAreExplained

\* Entries that fall behind while the key is revoked or not as it was.
LEMMA EntriesFallBehind ==
  ASSUME AccessShape, EntriesAreExplained, UNCHANGED shared, NEW why,
         \A u \in Servers :
           /\ why[u] \notin {"busting", "elsewhere"} \/ (why[u] = "elsewhere" /\ ~shared)
           /\ cached'[u] = IF cached[u] = NoEntry THEN NoEntry
                           ELSE [cached[u] EXCEPT !.behind = @ \cup {why[u]}],
         key'.revoked = key.revoked,
         \A v \in Servers : Does(v, "bust") => Does(v, "bust")'
  PROVE  EntriesAreExplained'
<1>1. ASSUME NEW u \in Servers PROVE EntryIsExplained(u)'
  <2>1. CASE cached[u] = NoEntry
    BY <2>1 DEF EntryIsExplained
  <2>2. CASE cached[u] # NoEntry
    <3>1. EntryIsExplained(u) /\ cached[u] \in Entry
      BY DEF EntriesAreExplained, AccessShape
    <3>2. cached'[u].row = cached[u].row /\ cached'[u].behind = cached[u].behind \cup {why[u]}
      BY <2>2, <3>1 DEF Entry
    <3>. QED BY <2>2, <3>1, <3>2 DEF EntryIsExplained
  <2>. QED BY <2>1, <2>2
<1>. QED BY <1>1 DEF EntriesAreExplained

--------------------------------------------------------------------------------
(* The steps. *)

LEMMA ServeFresh ==
  ASSUME AccessShape, CallsAreFresh, EntriesAreExplained, NEW w \in Servers, Serve(w)
  PROVE  CallsAreFresh'
<1>0. /\ UNCHANGED <<key, mode, role>> /\ RowNow' = RowNow
      /\ call \in [Servers -> CallShape] /\ CallIsFresh(w)
  BY DEF Serve, Arrive, LookUp, ReadRow, Store, Check, Grant, Resolve, worldVars, RowNow,
         AccessShape, CallShape, CallsAreFresh
<1>1. SUFFICES CallIsFresh(w)'
  <2>1. \A v \in Servers \ {w} : call'[v] = call[v]
    BY <1>0 DEF Serve, Arrive, LookUp, ReadRow, Store, Check, Grant, Resolve, Becomes, Refuse
  <2>. QED BY <1>0, <2>1, OthersStayFresh
<1>2. CASE call'[w] = Free
  BY <1>2 DEF CallIsFresh, Free, Acting
<1>3. CASE Arrive(w)
  <2>1. PICK kind \in {"key", "oauth", "wrong", "session"}, n \in {1, MaxBatch} :
          call'[w] = Caller(kind, IF kind \in {"key", "wrong"} THEN "lookup" ELSE "resolve", n)
    BY <1>0, <1>3 DEF Arrive, Becomes
  <2>. QED BY <2>1 DEF Caller, CallIsFresh, Acting
<1>4. CASE LookUp(w) /\ call'[w] # Free
  <2>1. call[w] \in Visit /\ call[w].step = "lookup"
    BY <1>4, VisitOfStep DEF LookUp, Does, Stages
  <2>2. CASE call'[w] = [call[w] EXCEPT !.step = "read"]
    BY <1>0, <2>1, <2>2 DEF CallIsFresh, Acting, Visit
  <2>3. CASE cached[w] # NoEntry /\ call'[w] = [call[w] EXCEPT !.step = "check", !.row = cached[w].row,
                                                               !.behind = cached[w].behind]
    <3>1. EntryIsExplained(w) /\ cached[w] \in Entry
      BY DEF EntriesAreExplained, AccessShape
    <3>2. cached[w].behind \ {"role"} # {} \/ cached[w].row = RowNow
      BY <2>3, <3>1 DEF EntryIsExplained, Entry
    <3>. QED BY <1>0, <2>1, <2>3, <3>2 DEF CallIsFresh, Acting, Visit, Older
  <2>. QED BY <1>0, <1>4, <2>2, <2>3 DEF LookUp, Refuse, Becomes
<1>5. CASE ReadRow(w)
  <2>1. call[w] \in Visit /\ call[w].step = "read"
    BY <1>5, VisitOfStep DEF ReadRow, Does, Stages
  <2>2. /\ call'[w] = [call[w] EXCEPT !.step = IF IsActive(key) THEN "store" ELSE "check", !.row = RowNow]
    BY <1>0, <1>5 DEF ReadRow, Becomes
  <2>. QED BY <1>0, <2>1, <2>2 DEF CallIsFresh, Acting, Visit, IsActive
<1>6. CASE Store(w)
  <2>1. call[w] \in Visit /\ call[w].step = "store"
    BY <1>6, VisitOfStep DEF Store, Does, Stages
  <2>2. call'[w] = [call[w] EXCEPT !.step = "check"]
    BY <1>0, <1>6 DEF Store, Becomes
  <2>. QED BY <1>0, <2>1, <2>2 DEF CallIsFresh, Acting, Visit, Older
<1>7. CASE Check(w) /\ call'[w] # Free
  <2>1. call[w] \in Visit /\ call[w].step = "check"
    BY <1>7, VisitOfStep DEF Check, Does, Stages
  <2>2. /\ call'[w] = [call[w] EXCEPT !.step = "grant"]
        /\ Employed("home") /\ ~call[w].row.key.revoked
    BY <1>0, <1>7 DEF Check, Becomes, Refuse, IsActive
  <2>3. Employed("home")'
    BY <1>0, <2>2 DEF Employed
  <2>. QED BY <1>0, <2>1, <2>2, <2>3 DEF CallIsFresh, Acting, Visit, Older
<1>8. CASE Grant(w)
  <2>1. call[w] \in Visit /\ call[w].step = "grant"
    BY <1>8, VisitOfStep DEF Grant, Does, Stages
  <2>2. call'[w] = [call[w] EXCEPT !.step = "run",
                                   !.perms = call[w].row.key.perms \cap Rights[role["home"]]]
    BY <1>0, <1>8 DEF Grant, Becomes
  <2>3. /\ call'[w].step = "run" /\ call'[w].perms = call[w].row.key.perms \cap Rights[role["home"]]
        /\ call'[w].row = call[w].row /\ call'[w].kind = call[w].kind
        /\ call'[w].behind = call[w].behind /\ call'[w].space = call[w].space
    BY <2>1, <2>2 DEF Visit
  <2>. QED BY <1>0, <2>1, <2>3 DEF CallIsFresh, Acting, Older, Employed
<1>9. CASE Resolve(w) /\ call'[w] # Free
  <2>1. call[w] \in Visit /\ call[w].step = "resolve"
    BY <1>9, VisitOfStep DEF Resolve, Does, Stages
  <2>2. PICK x \in Spaces :
          /\ x = ActiveSpace \/ x \in Joined
          /\ call'[w] = [call[w] EXCEPT !.step = "run", !.space = x, !.row = RowNow, !.perms = Rights[role[x]]]
    BY <1>0, <1>9 DEF Resolve, Becomes, Refuse
  <2>3. Joined # {}
    BY <1>0, <1>9 DEF Resolve, Becomes, Refuse
  <2>4. x \in Joined
    BY <2>2, <2>3 DEF ActiveSpace, Joined, Spaces
  <2>5. /\ call'[w].step = "run" /\ call'[w].perms = Rights[role[x]]
        /\ call'[w].row = RowNow /\ call'[w].kind = call[w].kind /\ call'[w].space = x
    BY <2>1, <2>2 DEF Visit
  <2>. QED BY <1>0, <2>1, <2>4, <2>5 DEF CallIsFresh, Acting, Employed, Joined
<1>. QED BY <1>2, <1>3, <1>4, <1>5, <1>6, <1>7, <1>8, <1>9 DEF Serve

LEMMA ServeExplained ==
  ASSUME AccessShape, CallsAreFresh, EntriesAreExplained, NEW w \in Servers, Serve(w)
  PROVE  EntriesAreExplained'
<1>1. UNCHANGED <<key, mode, shared>> /\ RowNow' = RowNow
  BY DEF Serve, Arrive, LookUp, ReadRow, Store, Check, Grant, Resolve, worldVars, RowNow
<1>2. \A v \in Servers : Does(v, "bust") => Does(v, "bust")'
  <2>1. call[w].step # "bust" /\ \A v \in Servers \ {w} : call'[v] = call[v]
    BY DEF Serve, Arrive, LookUp, ReadRow, Store, Check, Grant, Resolve, Becomes, Refuse, Does,
           AccessShape
  <2>. QED BY <2>1 DEF Does
<1>3. CASE Store(w)
  <2>1. /\ call[w] \in Visit /\ call[w].step = "store" /\ CallIsFresh(w)
    BY <1>3, VisitOfStep DEF Store, Does, Stages, CallsAreFresh
  <2>2. PICK e \in Entry : /\ e = [row |-> call[w].row, behind |-> IF call[w].behind = {} THEN {} ELSE {"raced"}]
                           /\ cached' = Entered(w, e)
    <3>1. [row |-> call[w].row, behind |-> IF call[w].behind = {} THEN {} ELSE {"raced"}] \in Entry
      BY <2>1 DEF Visit, Entry, Why
    <3>. QED BY <1>3, <3>1 DEF Store
  <2>3. e.behind = {"raced"} \/ (e.behind = {} /\ e.row = RowNow /\ ~key.revoked)
    BY <2>1, <2>2 DEF CallIsFresh, Older
  <2>4. \A u \in Servers : cached'[u] = e \/ cached'[u] = cached[u]
    BY <2>2 DEF Entered, AccessShape
  <2>5. ASSUME NEW u \in Servers PROVE EntryIsExplained(u)'
    <3>1. CASE cached'[u] = e
      BY <1>1, <2>3, <3>1 DEF EntryIsExplained
    <3>2. CASE cached'[u] = cached[u]
      <4>1. EntryIsExplained(u)
        BY DEF EntriesAreExplained
      <4>. QED BY <1>1, <1>2, <3>2, <4>1 DEF EntryIsExplained
    <3>. QED BY <2>4, <3>1, <3>2
  <2>. QED BY <2>5 DEF EntriesAreExplained
<1>4. CASE ~Store(w)
  <2>1. \A u \in Servers : cached'[u] = cached[u] \/ cached'[u] = NoEntry
    BY <1>4 DEF Serve, Arrive, LookUp, ReadRow, Check, Grant, Resolve, Entered, AccessShape
  <2>. QED BY <1>1, <1>2, <2>1, EntriesStand
<1>. QED BY <1>3, <1>4

LEMMA MessageFresh ==
  ASSUME AccessShape, CallsAreFresh, EntriesAreExplained, NEW w \in Servers, Message(w)
  PROVE  CallsAreFresh' /\ EntriesAreExplained'
<1>0. UNCHANGED <<key, mode, role, shared, cached>>
  BY DEF Message, Rejected, Limited, CallTool, PickIdea, MakeDraft, LinkIdea, Die, worldVars
<1>1. call[w] \in Visit /\ call[w].step \in Acting /\ call \in [Servers -> CallShape]
  BY VisitOfStep DEF Message, Rejected, Limited, CallTool, PickIdea, MakeDraft, LinkIdea, Die, Does,
                     Stages, Acting, AccessShape, CallShape
<1>2. /\ \A v \in Servers \ {w} : call'[v] = call[v]
      /\ \/ call'[w] = Free
         \/ \E s \in Acting : call'[w] = [call[w] EXCEPT !.step = s]
         \/ call'[w] = [call[w] EXCEPT !.step = "run", !.left = @ - 1]
  BY <1>1 DEF Message, Rejected, Limited, CallTool, PickIdea, MakeDraft, LinkIdea, Die, Becomes, Answered,
              Acting
<1>3. CallIsFresh(w)'
  <2>1. CASE call'[w] = Free
    BY <2>1 DEF CallIsFresh, Free, Acting
  <2>2. CASE /\ call'[w].step \in Acting /\ call'[w].perms = call[w].perms /\ call'[w].row = call[w].row
             /\ call'[w].kind = call[w].kind /\ call'[w].behind = call[w].behind
             /\ call'[w].space = call[w].space
    <3>1. CallIsFresh(w)
      BY DEF CallsAreFresh
    <3>. QED BY <1>0, <1>1, <2>2, <3>1 DEF CallIsFresh, Older, RowNow, Employed, Acting
  <2>. QED BY <1>1, <1>2, <2>1, <2>2 DEF Visit, Acting
<1>4. \A v \in Servers : Does(v, "bust") => Does(v, "bust")'
  BY <1>1, <1>2 DEF Does, Acting
<1>. QED BY <1>0, <1>2, <1>3, <1>4, OthersStayFresh, EntriesStand

LEMMA AdministerFresh ==
  ASSUME AccessShape, CallsAreFresh, EntriesAreExplained, NEW w \in Servers, Administer(w)
  PROVE  CallsAreFresh' /\ EntriesAreExplained'
<1>0. /\ UNCHANGED <<mode, role, shared>> /\ call \in [Servers -> CallShape]
      /\ \A v \in Servers : v # w /\ Does(v, "bust") => call[v].step = "bust"
  BY DEF Administer, SaveEdit, CommitEdit, AbortEdit, SaveRevoked, Bust, worldVars,
         AccessShape, CallShape, Does
<1>1. CASE SaveEdit(w) \/ AbortEdit(w)
  <2>1. /\ UNCHANGED key /\ call[w].step # "bust"
        /\ \A v \in Servers \ {w} : call'[v] = call[v]
        /\ call'[w].step \notin Stages
    BY <1>0, <1>1 DEF SaveEdit, AbortEdit, Becomes, Does, Free, Stages
  <2>2. \A u \in Servers : cached'[u] = cached[u] \/ cached'[u] = NoEntry
    BY <1>1 DEF SaveEdit, AbortEdit, Entered, AccessShape
  <2>3. CallIsFresh(w)'
    BY <2>1 DEF CallIsFresh, Stages, Acting
  <2>. QED BY <1>0, <2>1, <2>2, <2>3, OthersStayFresh, EntriesStand DEF Does
<1>2. CASE CommitEdit(w)
  <2>1. /\ FallBehind([call EXCEPT ![w] = Free], [v \in Servers |-> Here(w, v, "uncommitted")])
        /\ key'.revoked = key.revoked /\ call[w].step = "commit"
    BY <1>2 DEF CommitEdit, AccessShape, KeyRow, Does
  <2>2. \A v \in Servers : [call EXCEPT ![w] = Free][v] = call[v] \/ [call EXCEPT ![w] = Free][v].step \notin Stages
    BY <1>0 DEF Free, Stages
  <2>3. CallsAreFresh'
    BY <1>0, <2>1, <2>2, FallBehindMarks, MarkedStayFresh
  <2>4. \A v \in Servers : Does(v, "bust") => Does(v, "bust")'
    BY <1>0, <2>1 DEF FallBehind, Does, Stages
  <2>5. EntriesAreExplained'
    <3>. DEFINE why == [v \in Servers |-> Here(w, v, "uncommitted")]
    <3>1. \A u \in Servers : why[u] \notin {"busting", "elsewhere"} \/ (why[u] = "elsewhere" /\ ~shared)
      BY DEF Here
    <3>2. \A u \in Servers : cached'[u] = IF cached[u] = NoEntry THEN NoEntry
                                          ELSE [cached[u] EXCEPT !.behind = @ \cup {why[u]}]
      BY <2>1 DEF FallBehind
    <3>3. \A u \in Servers :
           /\ why[u] \notin {"busting", "elsewhere"} \/ (why[u] = "elsewhere" /\ ~shared)
           /\ cached'[u] = IF cached[u] = NoEntry THEN NoEntry
                           ELSE [cached[u] EXCEPT !.behind = @ \cup {why[u]}]
      BY <3>1, <3>2
    <3>. HIDE DEF why
    <3>. QED BY <1>0, <2>1, <2>4, <3>3, EntriesFallBehind
  <2>. QED BY <2>3, <2>5
<1>3. CASE SaveRevoked(w)
  <2>. DEFINE why == [v \in Servers |-> Here(w, v, "busting")]
  <2>1. /\ FallBehind([call EXCEPT ![w] = [step |-> "bust"]], why)
        /\ call[w].step = "idle" /\ RowNow'.mode = RowNow.mode
    BY <1>0, <1>3 DEF SaveRevoked, Does, RowNow
  <2>2. \A v \in Servers : \/ [call EXCEPT ![w] = [step |-> "bust"]][v] = call[v]
                           \/ [call EXCEPT ![w] = [step |-> "bust"]][v].step \notin Stages
    BY <1>0 DEF Stages
  <2>3. CallsAreFresh'
    BY <1>0, <2>1, <2>2, FallBehindMarks, MarkedStayFresh
  <2>4. Does(w, "bust")' /\ \A v \in Servers : Does(v, "bust") => Does(v, "bust")'
    BY <1>0, <2>1 DEF FallBehind, Does, Stages
  <2>5. ASSUME NEW u \in Servers PROVE EntryIsExplained(u)'
    <3>1. CASE cached[u] = NoEntry
      BY <2>1, <3>1 DEF EntryIsExplained, FallBehind
    <3>2. CASE cached[u] # NoEntry
      <4>1. EntryIsExplained(u) /\ cached[u] \in Entry
        BY DEF EntriesAreExplained, AccessShape
      <4>2. cached'[u].behind = cached[u].behind \cup {why[u]}
        BY <2>1, <3>2, <4>1 DEF FallBehind, Entry
      <4>3. \/ why[u] = "busting" /\ (shared \/ u = w)
            \/ why[u] = "elsewhere" /\ ~shared
        BY DEF Here
      <4>4. "busting" \in cached'[u].behind => \E v \in Servers : Does(v, "bust")' /\ (shared \/ v = u)
        BY <2>4, <3>2, <4>1, <4>2, <4>3 DEF EntryIsExplained
      <4>5. "elsewhere" \in cached'[u].behind => ~shared
        BY <3>2, <4>1, <4>2, <4>3 DEF EntryIsExplained
      <4>6. cached'[u].behind \cap {"busting", "elsewhere", "raced"} # {}
        BY <4>2, <4>3
      <4>. QED BY <1>0, <4>4, <4>5, <4>6 DEF EntryIsExplained
    <3>. QED BY <3>1, <3>2
  <2>. QED BY <2>3, <2>5 DEF EntriesAreExplained
<1>4. CASE Bust(w)
  <2>1. /\ UNCHANGED key /\ call'[w] = Free /\ call[w].step = "bust"
        /\ \A v \in Servers \ {w} : call'[v] = call[v]
        /\ cached' = Entered(w, NoEntry)
    BY <1>0, <1>4 DEF Bust, Becomes, Does
  <2>2. CallIsFresh(w)'
    BY <2>1 DEF CallIsFresh, Free, Acting
  <2>3. ASSUME NEW u \in Servers PROVE EntryIsExplained(u)'
    <3>1. CASE shared \/ u = w
      <4>1. cached'[u] = NoEntry
        BY <2>1, <3>1 DEF Entered, AccessShape
      <4>. QED BY <4>1 DEF EntryIsExplained
    <3>2. CASE ~shared /\ u # w
      <4>1. cached'[u] = cached[u] /\ EntryIsExplained(u)
        BY <2>1, <3>2 DEF Entered, AccessShape, EntriesAreExplained
      <4>2. "busting" \in cached[u].behind /\ cached[u] # NoEntry => Does(u, "bust")'
        BY <2>1, <3>2, <4>1 DEF EntryIsExplained, Does
      <4>3. RowNow' = RowNow
        BY <1>0, <2>1 DEF RowNow
      <4>. QED BY <1>0, <2>1, <4>1, <4>2, <4>3 DEF EntryIsExplained
    <3>. QED BY <3>1, <3>2
  <2>. QED BY <1>0, <2>1, <2>2, <2>3, OthersStayFresh DEF EntriesAreExplained
<1>. QED BY <1>1, <1>2, <1>3, <1>4 DEF Administer

LEMMA MeanwhileFresh ==
  ASSUME AccessShape, CallsAreFresh, EntriesAreExplained, Meanwhile
  PROVE  CallsAreFresh' /\ EntriesAreExplained'
<1>0. UNCHANGED shared /\ call \in [Servers -> CallShape]
  BY DEF Meanwhile, KeyExpires, SetMode, ForgetFailures, EntryExpires, SwitchSpace, ChangeRole, Disconnect,
         worldVars, AccessShape, CallShape
<1>1. ASSUME UNCHANGED <<key, mode, role, call>>,
             \A u \in Servers : cached'[u] = cached[u] \/ cached'[u] = NoEntry
      PROVE  CallsAreFresh' /\ EntriesAreExplained'
  <2>1. CallsAreFresh'
    BY <1>1 DEF CallsAreFresh, CallIsFresh, Older, RowNow, Employed
  <2>2. \A v \in Servers : Does(v, "bust") => Does(v, "bust")'
    BY <1>1 DEF Does
  <2>. QED BY <1>0, <1>1, <2>1, <2>2, EntriesStand
<1>2. CASE KeyExpires \/ ForgetFailures \/ \E x \in Spaces : SwitchSpace(x)
  BY <1>1, <1>2 DEF KeyExpires, ForgetFailures, SwitchSpace, worldVars, dataVars
<1>3. CASE \E w \in Servers : EntryExpires(w)
  BY <1>1, <1>3 DEF EntryExpires, Entered, worldVars, dataVars, AccessShape
<1>4. ASSUME NEW x \in Spaces, NEW r \in Roles, ChangeRole(x, r)
      PROVE  CallsAreFresh' /\ EntriesAreExplained'
  <2>1. UNCHANGED <<key, mode, cached>> /\ RowNow' = RowNow
    BY <1>4 DEF ChangeRole, RowNow
  <2>2. ASSUME NEW v \in Servers PROVE CallIsFresh(v)'
    <3>1. CallIsFresh(v)
      BY DEF CallsAreFresh
    <3>2. CASE call[v].step \notin {"grant"} \cup Acting
      <4>1. call'[v] = call[v]
        BY <1>4, <3>2 DEF ChangeRole, Acting
      <4>. QED BY <2>1, <3>1, <3>2, <4>1 DEF CallIsFresh, Older, Acting
    <3>3. CASE call[v].step \in {"grant"} \cup Acting
      <4>1. call[v] \in Visit
        BY <3>3, VisitOfStep DEF Acting, Stages
      <4>2. call'[v] = [call[v] EXCEPT !.behind = @ \cup {"role"}]
        BY <1>4, <3>3 DEF ChangeRole, Acting
      <4>3. /\ call'[v].step = call[v].step /\ call'[v].kind = call[v].kind
            /\ call'[v].row = call[v].row /\ call'[v].perms = call[v].perms
            /\ call'[v].space = call[v].space
            /\ call'[v].behind = call[v].behind \cup {"role"}
        BY <4>1, <4>2 DEF Visit
      <4>4. Older(v) => Older(v)'
        BY <4>3 DEF Older
      <4>. QED BY <2>1, <3>1, <3>3, <4>3, <4>4 DEF CallIsFresh, Acting
    <3>. QED BY <3>2, <3>3
  <2>3. \A v \in Servers : Does(v, "bust") => Does(v, "bust")'
    BY <1>4 DEF ChangeRole, Does
  <2>. QED BY <1>0, <2>1, <2>2, <2>3, EntriesStand DEF CallsAreFresh
<1>5. ASSUME FallBehind(call, Unwatched), UNCHANGED role, key'.revoked = key.revoked
      PROVE  CallsAreFresh' /\ EntriesAreExplained'
  <2>1. CallsAreFresh'
    BY <1>5, FallBehindMarks, MarkedStayFresh
  <2>2. \A v \in Servers : Does(v, "bust") => Does(v, "bust")'
    BY <1>5 DEF FallBehind, Does, Stages
  <2>3. \A u \in Servers :
         /\ \/ Unwatched[u] \notin {"busting", "elsewhere"}
            \/ Unwatched[u] = "elsewhere" /\ ~shared
         /\ cached'[u] = IF cached[u] = NoEntry THEN NoEntry
                         ELSE [cached[u] EXCEPT !.behind = @ \cup {Unwatched[u]}]
    BY <1>5 DEF FallBehind, Unwatched
  <2>4. EntriesAreExplained'
    BY <1>0, <1>5, <2>2, <2>3, EntriesFallBehind
  <2>. QED BY <2>1, <2>4
<1>6. CASE SetMode
  BY <1>5, <1>6 DEF SetMode
<1>7. CASE \E c \in Home \cup Away : Disconnect(c)
  BY <1>5, <1>7 DEF Disconnect, AccessShape, KeyRow
<1>. QED BY <1>2, <1>3, <1>4, <1>6, <1>7 DEF Meanwhile

--------------------------------------------------------------------------------
(* What the tools do. *)

\* A use of a tool shows or changes nothing outside the accounts the call may use,
\* and one that makes a scheduled post in the key's workspace is not made where
\* posts need an approval, as far as the call knows.
Bounded(w, t) ==
  /\ t.about \subseteq Allowed(w)
  /\ t.made = "new" => ~HomeCall(w) \/ Direct(call[w].row.mode)

LEMMA ReadingBounded ==
  ASSUME NEW w, NEW needs, NEW about, about \subseteq Allowed(w)
  PROVE  Bounded(w, Reading(needs, about))
BY DEF Bounded, Reading, Use

LEMMA MoveBounded ==
  ASSUME NEW w, NEW needs, NEW from, NEW to, to # "new"
  PROVE  \A t \in Move(w, needs, from, to) : Bounded(w, t)
BY DEF Bounded, Move, Use, Sees

LEMMA ToolsBounded == ASSUME NEW w PROVE \A t \in Tools(w) : Bounded(w, t)
<1>1. \A t \in ListAccounts(w) \cup Me(w) : Bounded(w, t)
  BY ReadingBounded DEF ListAccounts, Me
<1>2. \A t \in GetPost(w) \cup ListPosts(w) : Bounded(w, t)
  BY ReadingBounded DEF GetPost, ListPosts, Sees
<1>3. \A t \in GetPolicy \cup SearchMedia \cup GetMedia \cup ListSavedReplies \cup ListIdeas
               \cup RecordRun \cup UploadMedia \cup RequestUpload \cup FinalizeUpload : Bounded(w, t)
  BY ReadingBounded DEF GetPolicy, SearchMedia, GetMedia, ListSavedReplies, ListIdeas, RecordRun,
                        UploadMedia, RequestUpload, FinalizeUpload
<1>4. ASSUME NEW needs, NEW c \in Reachable(w) PROVE Bounded(w, Reading(needs, {c}))
  BY DEF Reachable, Bounded, Reading, Use
<1>5. \A t \in GetSchedule(w) \cup ListInbox(w) : Bounded(w, t)
  BY ReadingBounded DEF GetSchedule, ListInbox, Reachable
<1>6. \A t \in GetAccountAnalytics(w) : Bounded(w, t)
  BY <1>4 DEF GetAccountAnalytics
<1>7. \A t \in GetPostAnalytics(w) : Bounded(w, t)
  BY ReadingBounded DEF GetPostAnalytics, Sees
<1>8. \A t \in GetMessage(w) \cup ReplyToMessage(w) : Bounded(w, t)
  BY <1>4 DEF GetMessage, ReplyToMessage
<1>9. \A t \in TriageMessage(w) : Bounded(w, t)
  BY <1>4 DEF TriageMessage
<1>10. \A t \in NotifyTeam(w) : Bounded(w, t)
  BY <1>2, ReadingBounded DEF NotifyTeam
<1>11. \A t \in CreateDraft(w) : Bounded(w, t)
  BY <1>4 DEF CreateDraft
<1>12. \A t \in ScheduleNew(w) : Bounded(w, t)
  BY DEF ScheduleNew, Bounded, Use, Reachable
<1>13. \A t \in CancelPost(w) \cup ScheduleDraft(w) \cup SubmitForApproval(w) : Bounded(w, t)
  BY MoveBounded DEF CancelPost, ScheduleDraft, SubmitForApproval
<1>14. \A t \in UpdatePost(w) : Bounded(w, t)
  BY MoveBounded, ReadingBounded DEF UpdatePost, Sees
<1>15. \A t \in RestPosts(w) \cup RestAnalytics(w) \cup RestMedia : Bounded(w, t)
  BY <1>2, <1>3, <1>6, <1>7 DEF RestPosts, RestAnalytics, RestMedia
<1>. QED
  BY <1>1, <1>2, <1>3, <1>5, <1>6, <1>7, <1>8, <1>9, <1>10, <1>11, <1>12, <1>13, <1>14, <1>15 DEF Tools

\* A call that works on a fresh copy stays inside.
LEMMA FreshIsInside ==
  ASSUME AccessShape, CallsAreFresh, NEW w \in Servers, NEW t \in Open(w)
  PROVE  UseIsInside(w, t)
<1>1. /\ call[w].step = "run" /\ t.needs \subseteq call[w].perms /\ Bounded(w, t)
      /\ CallIsFresh(w)
  BY ToolsBounded DEF Open, Does, CallsAreFresh
<1>2. call[w] \in Visit
  BY <1>1, VisitOfStep DEF Stages
<1>3. \/ Employed(call[w].space) /\ t.needs \subseteq Rights[role[call[w].space]]
      \/ "role" \in call[w].behind
  BY <1>1 DEF CallIsFresh, Acting
<1>4. ASSUME call[w].kind = "key"
      PROVE  \/ ~key.revoked /\ t.needs \subseteq key.perms /\ t.about \subseteq key.allow
             \/ call[w].behind \ {"role"} # {}
  <2>1. /\ ~call[w].row.key.revoked /\ t.needs \subseteq call[w].row.key.perms
        /\ t.about \subseteq call[w].row.key.allow
    BY <1>1, <1>4 DEF CallIsFresh, Acting, Bounded, Allowed
  <2>2. Older(w) \/ call[w].row.key = key
    BY <1>1 DEF CallIsFresh, Acting, RowNow
  <2>. QED BY <2>1, <2>2 DEF Older
<1>5. call[w].kind # "key" => t.about \subseteq AccountsIn(call[w].space)
  BY <1>1 DEF Bounded, Allowed
<1>6. ASSUME t.made = "new", HomeCall(w), mode = "required" PROVE call[w].behind # {}
  <2>1. call[w].row.mode = "none"
    BY <1>1, <1>6 DEF Bounded, Direct
  <2>2. Older(w) \/ call[w].row.mode = mode
    BY <1>1 DEF CallIsFresh, Acting, RowNow
  <2>. QED BY <1>6, <2>1, <2>2 DEF Older
<1>. QED BY <1>3, <1>4, <1>5, <1>6 DEF UseIsInside

--------------------------------------------------------------------------------
(* The idea and the failures. *)

\* What a step leaves of a call: its step and its kind, or nothing that counts.
SameCall(v) ==
  \/ call[v].step \notin Stages /\ call'[v].step \notin Stages
  \/ /\ call[v].step \in Stages /\ call'[v].step = call[v].step
     /\ call'[v].kind = call[v].kind

LEMMA MeanwhileCalls == ASSUME AccessShape, Meanwhile PROVE \A v \in Servers : SameCall(v)
<1>1. CASE UNCHANGED call
  BY <1>1 DEF SameCall
<1>2. ASSUME NEW x \in Spaces, NEW r \in Roles, ChangeRole(x, r), NEW v \in Servers
      PROVE  SameCall(v)
  <2>1. call'[v] = call[v] \/ (call[v].step \in Stages /\ call'[v] = [call[v] EXCEPT !.behind = @ \cup {"role"}])
    BY <1>2 DEF ChangeRole, Stages
  <2>2. call[v].step \in Stages => call[v] \in Visit
    BY VisitOfStep
  <2>. QED BY <2>1, <2>2 DEF SameCall, Visit
<1>3. ASSUME FallBehind(call, Unwatched), NEW v \in Servers PROVE SameCall(v)
  <2>1. call'[v] = call[v] \/ (call[v].step \in Stages /\ call'[v] = [call[v] EXCEPT !.behind = @ \cup {"since"}])
    BY <1>3 DEF FallBehind
  <2>2. call[v].step \in Stages => call[v] \in Visit
    BY VisitOfStep
  <2>. QED BY <2>1, <2>2 DEF SameCall, Visit
<1>4. CASE KeyExpires \/ ForgetFailures \/ (\E w \in Servers : EntryExpires(w)) \/ \E x \in Spaces : SwitchSpace(x)
  BY <1>1, <1>4 DEF KeyExpires, ForgetFailures, EntryExpires, SwitchSpace
<1>5. CASE SetMode \/ \E c \in Home \cup Away : Disconnect(c)
  BY <1>3, <1>5 DEF SetMode, Disconnect
<1>. QED BY <1>2, <1>4, <1>5 DEF Meanwhile

LEMMA AdministerCalls ==
  ASSUME AccessShape, NEW w \in Servers, Administer(w)
  PROVE  \A v \in Servers : SameCall(v)
<1>0. call[w].step \notin Stages /\ call \in [Servers -> CallShape]
  BY DEF Administer, SaveEdit, CommitEdit, AbortEdit, SaveRevoked, Bust, Does, Stages, AccessShape, CallShape
<1>1. ASSUME NEW e, e.step \notin Stages, call' = [call EXCEPT ![w] = e], NEW v \in Servers
      PROVE  SameCall(v)
  BY <1>0, <1>1 DEF SameCall
<1>2. ASSUME NEW e, NEW why, e.step \notin Stages, FallBehind([call EXCEPT ![w] = e], why), NEW v \in Servers
      PROVE  SameCall(v)
  <2>1. CASE v = w
    BY <1>0, <1>2, <2>1 DEF FallBehind, SameCall
  <2>2. CASE v # w
    <3>1. call'[v] = call[v] \/ (call[v].step \in Stages /\ call'[v] = [call[v] EXCEPT !.behind = @ \cup {"since"}])
      BY <1>0, <1>2, <2>2 DEF FallBehind
    <3>2. call[v].step \in Stages => call[v] \in Visit
      BY VisitOfStep
    <3>. QED BY <3>1, <3>2 DEF SameCall, Visit
  <2>. QED BY <2>1, <2>2
<1>3. Free.step \notin Stages /\ DoesBust.step \notin Stages
  BY DEF Free, DoesBust, Stages
<1>4. CASE SaveEdit(w)
  <2>1. PICK asked \in Scopes, allow \in SUBSET AccountsIn("home") \ {{}} :
          call' = [call EXCEPT ![w] = [step |-> "commit", perms |-> Clamped(asked), allow |-> allow]]
    BY <1>4 DEF SaveEdit, Becomes
  <2>. QED BY <1>1, <2>1 DEF Stages
<1>5. CASE AbortEdit(w) \/ Bust(w)
  BY <1>1, <1>3, <1>5 DEF AbortEdit, Bust, Becomes
<1>6. CASE CommitEdit(w)
  BY <1>2, <1>3, <1>6 DEF CommitEdit
<1>7. CASE SaveRevoked(w)
  BY <1>2, <1>3, <1>7 DEF SaveRevoked, DoesBust
<1>. QED BY <1>4, <1>5, <1>6, <1>7 DEF Administer

\* The idea is in the hands it was in.
LEMMA SameHands ==
  ASSUME IdeaIsTakenOnce, idea' = idea, crossed' = crossed,
         \A v \in Servers : (Does(v, "pick")' <=> Does(v, "pick")) /\ (Does(v, "link")' <=> Does(v, "link"))
  PROVE  IdeaIsTakenOnce'
BY DEF IdeaIsTakenOnce, Picking, Does

\* Nobody is counted who was not, and no failure is.
LEMMA NobodyCounted ==
  ASSUME IsFiniteSet(Servers), FailuresAreLimited, failures \in Nat, failures' \in Nat, failures' <= failures,
         \A v \in Servers : SameCall(v) \/ call'[v].step \notin Stages \/ call'[v].kind = "session"
  PROVE  FailuresAreLimited'
<1>1. Counted' \subseteq Counted /\ Counted \subseteq Servers
  BY DEF Counted, SameCall
<1>2. IsFiniteSet(Counted)
  BY <1>1, FS_Subset
<1>3. Cardinality(Counted') <= Cardinality(Counted) /\ IsFiniteSet(Counted')
  BY <1>1, <1>2, FS_Subset
<1>4. Cardinality(Counted') \in Nat /\ Cardinality(Counted) \in Nat /\ Cardinality(Servers) \in Nat
  BY <1>2, <1>3, FS_CardinalityType
<1>. QED BY <1>3, <1>4, AccessAssumption DEF FailuresAreLimited

\* One who was counted fails.
LEMMA OneFails ==
  ASSUME FailuresAreLimited, failures \in Nat, NEW w \in Servers,
         call[w].step \in Stages, call[w].kind # "session", failures' = failures + 1,
         call'[w].step \notin Stages, \A v \in Servers \ {w} : call'[v] = call[v]
  PROVE  FailuresAreLimited'
<1>1. Counted' = Counted \ {w} /\ w \in Counted /\ Counted \subseteq Servers
  BY DEF Counted
<1>2. IsFiniteSet(Counted)
  <2>1. IsFiniteSet(Servers)
    BY AccessAssumption
  <2>. QED BY <1>1, <2>1, FS_Subset
<1>3. Cardinality(Counted \ {w}) = Cardinality(Counted) - 1
  BY <1>1, <1>2, FS_RemoveElement
<1>4. Cardinality(Counted) \in Nat
  BY <1>2, FS_CardinalityType
<1>5. Cardinality(Servers) \in Nat
  BY AccessAssumption, FS_CardinalityType
<1>. QED BY <1>1, <1>3, <1>4, <1>5, AccessAssumption DEF FailuresAreLimited

\* While the limit is not reached, there is room for every worker's failure.
LEMMA RoomForAll ==
  ASSUME failures \in Nat, failures < FailLimit, failures' = failures
  PROVE  FailuresAreLimited'
<1>1. IsFiniteSet(Servers) /\ Counted' \subseteq Servers
  BY AccessAssumption DEF Counted
<1>2. Cardinality(Counted') <= Cardinality(Servers) /\ IsFiniteSet(Counted')
  BY <1>1, FS_Subset
<1>3. Cardinality(Counted') \in Nat /\ Cardinality(Servers) \in Nat
  BY <1>1, <1>2, FS_CardinalityType
<1>. QED BY <1>2, <1>3, AccessAssumption DEF FailuresAreLimited

LEMMA ServeCounts ==
  ASSUME AccessShape, IdeaIsTakenOnce, FailuresAreLimited, NEW w \in Servers, Serve(w)
  PROVE  IdeaIsTakenOnce' /\ FailuresAreLimited'
<1>0. /\ UNCHANGED <<idea, crossed>> /\ call \in [Servers -> CallShape] /\ failures \in Nat
      /\ \A v \in Servers \ {w} : call'[v] = call[v]
      /\ IsFiniteSet(Servers)
  BY AccessAssumption
     DEF Serve, Arrive, LookUp, ReadRow, Store, Check, Grant, Resolve, Becomes, Refuse, dataVars,
         AccessShape, CallShape
<1>1. CASE Arrive(w)
  <2>1. PICK kind \in {"key", "oauth", "wrong", "session"}, n \in {1, MaxBatch} :
          /\ kind # "session" => failures < FailLimit
          /\ call'[w] = Caller(kind, IF kind \in {"key", "wrong"} THEN "lookup" ELSE "resolve", n)
    BY <1>0, <1>1 DEF Arrive, Becomes
  <2>2. /\ call[w].step = "idle" /\ call'[w].step \in {"lookup", "resolve"} /\ call'[w].kind = kind
        /\ failures' = failures
    BY <1>1, <2>1 DEF Arrive, Does, Caller
  <2>3. IdeaIsTakenOnce'
    <3>1. \A v \in Servers : (Does(v, "pick")' <=> Does(v, "pick")) /\ (Does(v, "link")' <=> Does(v, "link"))
      BY <1>0, <2>2 DEF Does
    <3>. QED BY <1>0, <3>1, SameHands
  <2>4. FailuresAreLimited'
    <3>1. CASE kind = "session"
      <4>1. \A v \in Servers : SameCall(v) \/ call'[v].kind = "session"
        BY <1>0, <2>2, <3>1 DEF SameCall
      <4>. QED BY <1>0, <2>2, <4>1, NobodyCounted
    <3>2. CASE kind # "session"
      BY <1>0, <2>1, <2>2, <3>2, RoomForAll
    <3>. QED BY <3>1, <3>2
  <2>. QED BY <2>3, <2>4
<1>2. ASSUME call[w].step \in {"lookup", "read", "store", "check", "grant", "resolve"}, Refuse(w)
      PROVE  IdeaIsTakenOnce' /\ FailuresAreLimited'
  <2>1. call'[w] = Free /\ call[w].step \in Stages
    BY <1>0, <1>2 DEF Refuse, Becomes, Stages
  <2>2. \A v \in Servers : (Does(v, "pick")' <=> Does(v, "pick")) /\ (Does(v, "link")' <=> Does(v, "link"))
    BY <1>0, <1>2, <2>1 DEF Does, Free
  <2>3. IdeaIsTakenOnce'
    BY <1>0, <2>2, SameHands
  <2>4. CASE call[w].kind = "session"
    <3>1. failures' = failures /\ \A v \in Servers : SameCall(v) \/ call'[v].step \notin Stages
      BY <1>0, <1>2, <2>1, <2>4 DEF Refuse, SameCall, Free, Stages
    <3>. QED BY <1>0, <2>3, <3>1, NobodyCounted
  <2>5. CASE call[w].kind # "session"
    <3>1. failures' = failures + 1 /\ call'[w].step \notin Stages
      BY <1>2, <2>1, <2>5 DEF Refuse, Free, Stages
    <3>. QED BY <1>0, <2>1, <2>3, <2>5, <3>1, OneFails
  <2>. QED BY <2>4, <2>5
<1>3. ASSUME failures' = failures, call[w].step \in {"lookup", "read", "store", "check", "grant", "resolve"},
             call'[w].step \in {"read", "store", "check", "grant", "run"}, call'[w].kind = call[w].kind
      PROVE  IdeaIsTakenOnce' /\ FailuresAreLimited'
  <2>1. \A v \in Servers : (Does(v, "pick")' <=> Does(v, "pick")) /\ (Does(v, "link")' <=> Does(v, "link"))
    BY <1>0, <1>3 DEF Does
  <2>2. IdeaIsTakenOnce'
    BY <1>0, <2>1, SameHands
  <2>3. Counted' = Counted
    BY <1>0, <1>3 DEF Counted, Stages
  <2>4. FailuresAreLimited'
    BY <1>3, <2>3 DEF FailuresAreLimited
  <2>. QED BY <2>2, <2>4
<1>4. CASE ~Arrive(w) /\ ~Refuse(w)
  <2>1. call[w].step \in {"lookup", "read", "store", "check", "grant", "resolve"} /\ call[w] \in Visit
    BY <1>4, VisitOfStep DEF Serve, LookUp, ReadRow, Store, Check, Grant, Resolve, Does, Stages
  <2>2. failures' = failures
    BY <1>4 DEF Serve, LookUp, ReadRow, Store, Check, Grant, Resolve
  <2>3. CASE LookUp(w)
    BY <1>0, <1>3, <1>4, <2>1, <2>2, <2>3 DEF LookUp, Becomes, Visit
  <2>4. CASE ReadRow(w)
    BY <1>0, <1>3, <2>1, <2>2, <2>4 DEF ReadRow, Becomes, Visit
  <2>5. CASE Store(w)
    BY <1>0, <1>3, <2>1, <2>2, <2>5 DEF Store, Becomes, Visit
  <2>6. CASE Check(w)
    BY <1>0, <1>3, <1>4, <2>1, <2>2, <2>6 DEF Check, Becomes, Visit
  <2>7. CASE Grant(w)
    BY <1>0, <1>3, <2>1, <2>2, <2>7 DEF Grant, Becomes, Visit
  <2>8. CASE Resolve(w)
    BY <1>0, <1>3, <1>4, <2>1, <2>2, <2>8 DEF Resolve, Becomes, Visit
  <2>. QED BY <1>4, <2>3, <2>4, <2>5, <2>6, <2>7, <2>8 DEF Serve
<1>5. CASE Refuse(w) /\ ~Arrive(w)
  BY <1>2, <1>5 DEF Serve, LookUp, ReadRow, Store, Check, Grant, Resolve, Does
<1>. QED BY <1>1, <1>4, <1>5

LEMMA MessageCounts ==
  ASSUME AccessShape, IdeaIsTakenOnce, FailuresAreLimited, NEW w \in Servers, Message(w)
  PROVE  IdeaIsTakenOnce' /\ FailuresAreLimited'
<1>0. /\ failures' = failures /\ call \in [Servers -> CallShape] /\ failures \in Nat
      /\ \A v \in Servers \ {w} : call'[v] = call[v]
      /\ IsFiniteSet(Servers)
  BY AccessAssumption
     DEF Message, Rejected, Limited, CallTool, PickIdea, MakeDraft, LinkIdea, Die, Becomes, worldVars,
         AccessShape, CallShape
<1>1. call[w] \in Visit /\ call[w].step \in Acting
  BY VisitOfStep DEF Message, Rejected, Limited, CallTool, PickIdea, MakeDraft, LinkIdea, Die, Does,
                     Stages, Acting
<1>2. Answered(w).step \in {"idle", "run"} /\ Answered(w) \in {Free, [call[w] EXCEPT !.step = "run", !.left = @ - 1]}
  BY <1>1 DEF Answered, Free, Visit
<1>3. /\ call'[w].step \in Stages => call'[w].kind = call[w].kind
      /\ call'[w].step \in {"idle"} \cup Acting
  <2>1. \/ call'[w] = Free
        \/ \E s \in Acting : call'[w] = [call[w] EXCEPT !.step = s]
        \/ call'[w] = [call[w] EXCEPT !.step = "run", !.left = @ - 1]
    BY <1>0, <1>2 DEF Message, Rejected, Limited, CallTool, PickIdea, MakeDraft, LinkIdea, Die, Becomes, Acting
  <2>2. CASE call'[w] = Free
    BY <2>2 DEF Free, Stages
  <2>3. ASSUME NEW s \in Acting, call'[w] = [call[w] EXCEPT !.step = s]
        PROVE  call'[w].kind = call[w].kind /\ call'[w].step \in Acting
    BY <1>1, <2>3 DEF Visit
  <2>4. CASE call'[w] = [call[w] EXCEPT !.step = "run", !.left = @ - 1]
    BY <1>1, <2>4 DEF Visit, Acting
  <2>. QED BY <2>1, <2>2, <2>3, <2>4
<1>4. FailuresAreLimited'
  <2>1. Counted' \subseteq Counted /\ Counted \subseteq Servers
    BY <1>0, <1>1, <1>3 DEF Counted, Acting, Stages
  <2>2. IsFiniteSet(Counted)
    BY <1>0, <2>1, FS_Subset
  <2>3. Cardinality(Counted') <= Cardinality(Counted) /\ IsFiniteSet(Counted')
    BY <2>1, <2>2, FS_Subset
  <2>4. Cardinality(Counted') \in Nat /\ Cardinality(Counted) \in Nat /\ Cardinality(Servers) \in Nat
    BY <1>0, <2>2, <2>3, FS_CardinalityType
  <2>. QED BY <1>0, <2>3, <2>4, AccessAssumption DEF FailuresAreLimited
<1>5. IdeaIsTakenOnce'
  <2>1. CASE Rejected(w) \/ Limited(w) \/ CallTool(w)
    <3>1. call[w].step = "run" /\ call'[w].step \in {"idle", "run"} /\ UNCHANGED <<idea, crossed>>
      BY <1>0, <1>2, <2>1 DEF Rejected, Limited, CallTool, Does, Becomes, Free, dataVars
    <3>2. \A v \in Servers : (Does(v, "pick")' <=> Does(v, "pick")) /\ (Does(v, "link")' <=> Does(v, "link"))
      BY <1>0, <3>1 DEF Does
    <3>. QED BY <3>1, <3>2, SameHands
  <2>2. CASE PickIdea(w)
    <3>1. /\ idea' = idea /\ ~idea.linked /\ call'[w].step = "pick"
          /\ ~crossed' => ~crossed /\ Picking = {}
      BY <1>0, <1>1, <2>2 DEF PickIdea, Becomes, Picking, Visit
    <3>2. ASSUME ~crossed' PROVE idea.drafts = 0 /\ Picking' = {w}
      <4>1. Picking = {} /\ idea.drafts <= 1 /\ idea.drafts # 1
        BY <3>1, <3>2 DEF IdeaIsTakenOnce, Picking, Does
      <4>. QED BY <1>0, <3>1, <4>1 DEF Picking, AccessShape
    <3>. QED BY <3>1, <3>2 DEF IdeaIsTakenOnce
  <2>3. CASE MakeDraft(w)
    <3>1. /\ idea'.drafts = idea.drafts + 1 /\ call[w].step = "pick" /\ call'[w].step = "link" /\ crossed' = crossed
      BY <1>0, <1>1, <2>3 DEF MakeDraft, Becomes, Visit, Does, AccessShape
    <3>2. ASSUME ~crossed' PROVE idea.drafts = 0 /\ Picking' = {w}
      <4>1. w \in Picking /\ idea.drafts = 0 /\ \A v \in Picking : v = w
        BY <3>1, <3>2 DEF IdeaIsTakenOnce, Picking, Does
      <4>. QED BY <1>0, <3>1, <4>1 DEF Picking
    <3>. QED BY <3>1, <3>2 DEF IdeaIsTakenOnce, Picking, Does
  <2>4. CASE LinkIdea(w)
    <3>1. /\ idea'.drafts = idea.drafts /\ idea'.linked /\ call[w].step = "link"
          /\ call'[w].step \in {"idle", "run"} /\ crossed' = crossed
      BY <1>0, <1>2, <2>4 DEF LinkIdea, Becomes, Does, AccessShape
    <3>2. ASSUME ~crossed' PROVE idea.drafts <= 1 /\ Picking' = {}
      <4>1. w \in Picking /\ idea.drafts <= 1 /\ \A v \in Picking : v = w
        BY <3>1, <3>2 DEF IdeaIsTakenOnce, Picking, Does
      <4>. QED BY <1>0, <3>1, <4>1 DEF Picking
    <3>. QED BY <3>1, <3>2 DEF IdeaIsTakenOnce, Picking, Does
  <2>5. CASE Die(w)
    BY <2>5 DEF Die, IdeaIsTakenOnce
  <2>. QED BY <2>1, <2>2, <2>3, <2>4, <2>5 DEF Message
<1>. QED BY <1>4, <1>5

\* A step of nobody's call.
LEMMA OthersCount ==
  ASSUME AccessShape, IdeaIsTakenOnce, FailuresAreLimited, UNCHANGED <<idea, crossed>>,
         failures' \in Nat, failures' <= failures, \A v \in Servers : SameCall(v)
  PROVE  IdeaIsTakenOnce' /\ FailuresAreLimited'
<1>1. \A v \in Servers : (Does(v, "pick")' <=> Does(v, "pick")) /\ (Does(v, "link")' <=> Does(v, "link"))
  BY DEF SameCall, Does, Stages
<1>2. IdeaIsTakenOnce'
  BY <1>1, SameHands
<1>3. IsFiniteSet(Servers) /\ failures \in Nat
  BY AccessAssumption DEF AccessShape
<1>. QED BY <1>2, <1>3, NobodyCounted

--------------------------------------------------------------------------------
LEMMA AccessStart == AccessInit => AccessInv
<1>. SUFFICES ASSUME AccessInit PROVE AccessInv
  OBVIOUS
<1>1. AccessShape
  <2>1. key \in KeyRow /\ role \in [Spaces -> DOMAIN Rights]
    BY AccessAssumption DEF AccessInit, KeyRow, Rights
  <2>. QED BY <2>1, NoRowShape DEF AccessInit, AccessShape
<1>2. CallsAreFresh /\ EntriesAreExplained
  BY DEF AccessInit, CallsAreFresh, CallIsFresh, EntriesAreExplained, EntryIsExplained, Free, Acting
<1>3. Picking = {} /\ Counted = {}
  BY DEF AccessInit, Picking, Counted, Free, Stages
<1>4. IdeaIsTakenOnce
  BY <1>3 DEF AccessInit, IdeaIsTakenOnce, Picking, Does, Free
<1>5. FailuresAreLimited
  <2>1. Cardinality(Counted) = 0 /\ Cardinality(Servers) \in Nat
    BY <1>3, AccessAssumption, FS_EmptySet, FS_CardinalityType
  <2>. QED BY <2>1, AccessAssumption DEF AccessInit, FailuresAreLimited
<1>. QED BY <1>1, <1>2, <1>4, <1>5 DEF AccessInv

LEMMA AccessStep == AccessInv /\ [AccessNext]_accessVars => AccessInv'
<1>. SUFFICES ASSUME AccessInv, [AccessNext]_accessVars PROVE AccessInv'
  OBVIOUS
<1>. USE DEF AccessInv
<1>1. AccessShape'
  BY ShapeStep
<1>2. CASE UNCHANGED accessVars
  BY <1>1, <1>2 DEF accessVars, worldVars, dataVars, CallsAreFresh, CallIsFresh, Older, RowNow, Employed,
                    EntriesAreExplained, EntryIsExplained, Does, IdeaIsTakenOnce, Picking,
                    FailuresAreLimited, Counted
<1>3. ASSUME NEW w \in Servers, Serve(w) PROVE AccessInv'
  BY <1>1, <1>3, ServeFresh, ServeExplained, ServeCounts
<1>4. ASSUME NEW w \in Servers, Message(w) PROVE AccessInv'
  BY <1>1, <1>4, MessageFresh, MessageCounts
<1>5. ASSUME NEW w \in Servers, Administer(w) PROVE AccessInv'
  <2>1. UNCHANGED <<idea, crossed, failures>> /\ failures \in Nat
    BY <1>5 DEF Administer, SaveEdit, CommitEdit, AbortEdit, SaveRevoked, Bust, dataVars, AccessShape
  <2>2. IdeaIsTakenOnce' /\ FailuresAreLimited'
    BY <1>5, <2>1, AdministerCalls, OthersCount
  <2>. QED BY <1>1, <1>5, <2>2, AdministerFresh
<1>6. CASE Meanwhile
  <2>1. UNCHANGED <<idea, crossed>> /\ failures' \in Nat /\ failures' <= failures
    BY <1>6 DEF Meanwhile, KeyExpires, SetMode, ForgetFailures, EntryExpires, SwitchSpace, ChangeRole,
                Disconnect, dataVars, AccessShape
  <2>2. IdeaIsTakenOnce' /\ FailuresAreLimited'
    BY <1>6, <2>1, MeanwhileCalls, OthersCount
  <2>. QED BY <1>1, <1>6, <2>2, MeanwhileFresh
<1>. QED BY <1>2, <1>3, <1>4, <1>5, <1>6 DEF AccessNext

LEMMA AccessInside == AccessInv => AgentStaysInside
<1>. SUFFICES ASSUME AccessInv PROVE AgentStaysInside
  OBVIOUS
<1>1. \A w \in Servers : \A t \in Open(w) : UseIsInside(w, t)
  BY FreshIsInside DEF AccessInv
<1>2. idea.drafts > 1 => crossed
  BY DEF AccessInv, IdeaIsTakenOnce, AccessShape
<1>3. failures < FailLimit + Cardinality(Servers)
  <2>1. Counted \subseteq Servers /\ IsFiniteSet(Servers)
    BY AccessAssumption DEF Counted
  <2>2. IsFiniteSet(Counted)
    BY <2>1, FS_Subset
  <2>3. Cardinality(Counted) \in Nat /\ Cardinality(Servers) \in Nat
    BY <2>1, <2>2, FS_CardinalityType
  <2>. QED BY <2>3, AccessAssumption DEF AccessInv, FailuresAreLimited, AccessShape
<1>. QED BY <1>1, <1>2, <1>3 DEF AgentStaysInside, AccessInv, EntriesAreExplained

\* An agent stays inside what its key and the key's issuer may do, whatever people
\* change meanwhile: a copy it works on is the key as it is, or older for a known
\* reason; an idea is taken once, and failures stop at their limit.
THEOREM AgentIsKeptInside == AccessSpec => []AgentStaysInside
<1>1. AccessInit => AccessInv
  BY AccessStart
<1>2. AccessInv /\ [AccessNext]_accessVars => AccessInv'
  BY AccessStep
<1>3. AccessInv => AgentStaysInside
  BY AccessInside
<1>. QED BY <1>1, <1>2, <1>3, PTL DEF AccessSpec

--------------------------------------------------------------------------------
(* Connections: what makes the invariant inductive. *)

\* What a tab is made of while it asks for the first answer, and after it came back.
Askable == {d \in Flow : d.kind # "direct" /\ (d.route = "composio" => d.kind \in {"single", "pages"})}
Asking == [step : {"ask"}, flow : Askable, loaded : Session, copy : Session, todo : {{}}]
Working == [step : {"exchange", "connect", "note", "save"}, flow : FlowIds,
            loaded : Session, copy : Session, todo : SUBSET Pages]

\* The shape of the variables.
ConnectionShape ==
  /\ session \in Session
  /\ flows \in Seq(Flow) /\ Len(flows) <= MaxFlows
  /\ spent \cup passed \cup broken \cup used \cup reused \subseteq DOMAIN flows
  /\ app \in {"none", "member", "link"}
  /\ mandate \in [{"member", "link"} -> BOOLEAN]
  /\ token \in [Homes -> [Pages -> FlowIds \cup {Nobody}]]
  /\ usage \subseteq Pages
  /\ tab \in [Tabs -> {Waiting} \cup Asking \cup Working]
  /\ overwritten \in BOOLEAN

Asks(t) == tab[t] \in Asking
Works(t) == tab[t] \in Working

\* The flows a session is for have begun.
Begun(s) == \A x \in Slots : s[x] # Nobody => s[x] \in DOMAIN flows

\* Nothing names a flow that has not begun, and who connects has pages to connect.
FlowsHaveBegun ==
  /\ Begun(session)
  /\ \A t \in Tabs : ~Idle(t) => Begun(tab[t].loaded) /\ Begun(tab[t].copy)
  /\ \A t \in Tabs : Works(t) => tab[t].flow \in DOMAIN flows
  /\ \A t \in Tabs : Works(t) /\ tab[t].step \in {"connect", "note"} => tab[t].todo # {}
  /\ \A h \in Homes, p \in Pages : token[h][p] # Nobody => token[h][p] \in DOMAIN flows

\* Only a flow that came back under its mandate is worked on, or waits for a choice.
Mandated(s) == s["pick"] # Nobody => s["pick"] \in passed
WorkIsMandated ==
  /\ Mandated(session)
  /\ \A t \in Tabs : ~Idle(t) => Mandated(tab[t].loaded) /\ Mandated(tab[t].copy)
  /\ \A t \in Tabs : Works(t) => tab[t].flow \in passed

\* An account that a link connected is counted, or about to be.
UsageIsNoted ==
  \A h \in Homes, p \in Pages :
    LET f == token[h][p]
    IN  Granted(h, p) /\ flows[f].route = "link" =>
          \/ p \in usage \/ f \in broken
          \/ \E t \in Tabs : Works(t) /\ tab[t].step = "note" /\ tab[t].flow = f /\ FirstOf(tab[t].todo) = p

\* The place from which a flow is taken to be used again, if there is one.
Repeatable(f) == flows[f].route = "composio" \/ (flows[f].route = "member" /\ flows[f].kind = "pages")
Place(f) == IF flows[f].kind = "pages" THEN "pick" ELSE "composio"

\* A place holds flows of its route; the choice of pages is for flows with pages.
Placed(s) ==
  /\ \A r \in Routes : s[r] # Nobody => flows[s[r]].route = r /\ flows[s[r]].kind # "direct"
  /\ s["pick"] # Nobody => flows[s["pick"]].kind = "pages" /\ flows[s["pick"]].route # "link"

\* A tab's copy is what it loaded, less what it took and with what it puts there.
CopyIsDerived(t) ==
  LET s == tab[t] IN
  \/ \A x \in Slots : s.copy[x] \in {Nobody, s.loaded[x]}
  \/ /\ s.step = "save" /\ s.flow \in DOMAIN flows
     /\ flows[s.flow].kind = "pages" /\ flows[s.flow].route # "link"
     /\ s.loaded[flows[s.flow].route] = s.flow /\ s.copy[flows[s.flow].route] = Nobody
     /\ s.copy["pick"] = s.flow
     /\ \A x \in Routes : s.copy[x] \in {Nobody, s.loaded[x]}

PlacesAreKept ==
  /\ Placed(session)
  /\ \A t \in Tabs : ~Idle(t) => Placed(tab[t].loaded) /\ Placed(tab[t].copy) /\ CopyIsDerived(t)
  /\ \A t \in Tabs : Works(t) /\ tab[t].step = "exchange" =>
       LET f == tab[t].flow
       IN  /\ flows[f].kind # "direct"
           /\ tab[t].loaded[flows[f].route] = f
           /\ tab[t].copy = [tab[t].loaded EXCEPT ![flows[f].route] = Nobody]

\* Who uses the flow, and takes it from its place when the session is saved.
Takers(f) ==
  {t \in Tabs : /\ Works(t) /\ tab[t].step \in {"connect", "note", "save"} /\ tab[t].flow = f
                /\ tab[t].loaded[Place(f)] = f /\ tab[t].copy[Place(f)] # f}

\* What keeps a flow from being used twice while no session is saved over a newer one.
UseIsOnce ==
  /\ \A f \in used : Repeatable(f) \/ f \in spent \/ flows[f].kind = "direct"
  /\ \A f \in reused : f \in used /\ Repeatable(f)
  /\ ~overwritten =>
       /\ session["pick"] # Nobody => session[flows[session["pick"]].route] # session["pick"]
       /\ \A f \in used :
            Repeatable(f) =>
              /\ Place(f) = "pick" => session[flows[f].route] # f
              /\ f \notin broken /\ session[Place(f)] = f => Takers(f) # {}
       /\ \A f \in reused \ broken :
            \/ session[Place(f)] # f /\ Takers(f) # {}
            \/ \E t, u \in Takers(f) : t # u

ConnectionInv ==
  ConnectionShape /\ FlowsHaveBegun /\ WorkIsMandated /\ TokensAreMandated /\ UsageIsNoted /\ PlacesAreKept /\ UseIsOnce

--------------------------------------------------------------------------------
(* Shapes. *)

\* Pages left to do have a first one.
LEMMA FirstIsOne == ASSUME NEW todo \in SUBSET Pages, todo # {} PROVE FirstOf(todo) \in todo
<1>1. todo \subseteq Nat
  BY ConnectionAssumption DEF Pages
<1>2. \E x \in todo : \A y \in todo : ~ (<<y, x>> \in OpToRel(<, Nat))
  BY <1>1, NatLessThanWellFounded, WFMin
<1>3. PICK x \in todo : \A y \in todo : ~ (<<y, x>> \in OpToRel(<, Nat))
  BY <1>2
<1>4. \A y \in todo : ~ (y < x)
  BY <1>1, <1>3 DEF OpToRel
<1>5. \A y \in todo : x <= y
  BY <1>1, <1>4
<1>. QED BY <1>5 DEF FirstOf

LEMMA ClearedShape == ASSUME NEW s \in Session, NEW x \in Slots PROVE [s EXCEPT ![x] = Nobody] \in Session
BY DEF Session

\* Dialogues begun so far stay as they are.
LEMMA FlowsGrow ==
  ASSUME ConnectionShape, [ConnectionNext]_connectionVars
  PROVE  /\ \A f \in DOMAIN flows : f \in DOMAIN flows' /\ flows'[f] = flows[f]
         /\ flows' = flows \/ (Len(flows) < MaxFlows /\ \E flow \in Flow : flows' = Append(flows, flow))
<1>1. flows' = flows \/ (Len(flows) < MaxFlows /\ \E flow \in Flow : flows' = Append(flows, flow))
  <2>1. ASSUME NEW t \in Tabs, NEW flow \in Dialogues, First(t, flow)
        PROVE  flows' = flows \/ (Len(flows) < MaxFlows /\ flows' = Append(flows, flow))
    BY <2>1 DEF First, ConnectPlatform, ConnectionOauthStart, StartComposioConnect, ConnectMastodon,
                ConnectionMastodonStart, ConnectBluesky, ConnectionBlueskyConnect, AskInstance,
                ConnectDirectly, Begin, Ask, MayBegin
  <2>2. ASSUME NEW t \in Tabs, FinishAsking(t)
        PROVE  flows' = flows \/ (Len(flows) < MaxFlows /\ \E flow \in Flow : flows' = Append(flows, flow))
    <3>1. tab[t].flow \in Flow
      BY <2>2 DEF FinishAsking, ConnectionShape, Asking, Askable, Working, Waiting
    <3>. QED BY <2>2, <3>1 DEF FinishAsking
  <2>3. ASSUME NEW t \in Tabs, Goes(t), ~FinishAsking(t) PROVE flows' = flows
    BY <2>3 DEF Goes, ExchangeCode, ExchangeCodeOfLink, AskComposio, ExchangeFails, ConnectOne, NoteUsage,
                Break, Answer, ExchangeRest
  <2>4. ASSUME NEW t \in Tabs, \/ \E f \in DOMAIN flows : Second(t, f)
                               \/ \E route \in Routes : Decline(t, route)
                               \/ \E chosen \in SUBSET Pages : Submit(t, chosen)
        PROVE  flows' = flows
    BY <2>4 DEF Second, OauthCallback, ConnectionOauthCallback, ComposioCallback, Return, Decline, Submit
  <2>5. ASSUME NEW m, Withdraw(m) PROVE flows' = flows
    BY <2>5 DEF Withdraw
  <2>6. CASE UNCHANGED connectionVars
    BY <2>6 DEF connectionVars
  <2>7. Dialogues \subseteq Flow
    BY ConnectionAssumption
  <2>. QED BY <2>1, <2>2, <2>3, <2>4, <2>5, <2>6, <2>7 DEF ConnectionNext
<1>2. flows \in Seq(Flow)
  BY DEF ConnectionShape
<1>. QED BY <1>1, <1>2

\* The three outcomes of the exchange: the pages wait for a choice, a code is
\* spent and the accounts are connected, or Composio's are.
Keeps(t) ==
  LET f == tab[t].flow
  IN  /\ flows[f].kind = "pages" /\ flows[f].route # "link" /\ KeepsPages(t, f)
      /\ spent' \in {spent, spent \cup {f}}
Spends(t) ==
  LET f == tab[t].flow
  IN  /\ ~Repeatable(f) /\ f \notin spent /\ spent' = spent \cup {f} /\ ConnectsAll(t, f)
ComposioAnswers(t) ==
  LET f == tab[t].flow
  IN  /\ flows[f].route = "composio" /\ flows[f].kind # "pages" /\ UNCHANGED spent /\ ConnectsAll(t, f)
Exchanges(t) == tab[t].step = "exchange" /\ UNCHANGED ExchangeRest /\ (Keeps(t) \/ Spends(t) \/ ComposioAnswers(t))

\* The steps of a tab.
TabStep(t) ==
  \/ \E flow \in Askable : Begin(t, flow) \/ Ask(t, flow)
  \/ \E flow \in Flow : flow.route # "composio" /\ ConnectDirectly(t, flow)
  \/ \E f \in DOMAIN flows : Return(t, f)
  \/ \E route \in Routes : Decline(t, route)
  \/ \E chosen \in SUBSET Pages : Submit(t, chosen)
  \/ FinishAsking(t) \/ Exchanges(t) \/ ExchangeFails(t)
  \/ ConnectOne(t) \/ NoteUsage(t) \/ Break(t) \/ Answer(t)

LEMMA TabSteps ==
  ASSUME ConnectionShape, FlowsHaveBegun, ConnectionNext
  PROVE  (\E t \in Tabs : TabStep(t)) \/ \E m \in {"member", "link"} : Withdraw(m)
<1>1. ASSUME NEW t \in Tabs, NEW flow \in Dialogues, First(t, flow) PROVE TabStep(t)
  <2>1. flow \in Flow /\ (flow.route = "composio" => flow.kind \in {"single", "pages"})
    BY ConnectionAssumption
  <2>2. \/ flow \in Askable /\ (Begin(t, flow) \/ Ask(t, flow))
        \/ flow.route # "composio" /\ ConnectDirectly(t, flow)
    BY <1>1, <2>1 DEF Askable, First, ConnectPlatform, ConnectionOauthStart, StartComposioConnect, ConnectMastodon,
                ConnectionMastodonStart, ConnectBluesky, ConnectionBlueskyConnect, AskInstance
  <2>. QED BY <2>1, <2>2 DEF TabStep
<1>2. ASSUME NEW t \in Tabs, NEW f \in DOMAIN flows, Second(t, f) PROVE TabStep(t)
  BY <1>2 DEF Second, OauthCallback, ConnectionOauthCallback, ComposioCallback, TabStep
<1>3. ASSUME NEW t \in Tabs, ExchangeCode(t) PROVE Exchanges(t)
  <2>1. CASE flows[tab[t].flow].kind = "pages"
    BY <1>3, <2>1 DEF ExchangeCode, Exchanging, Exchanges, Keeps
  <2>2. CASE flows[tab[t].flow].kind # "pages"
    BY <1>3, <2>2 DEF ExchangeCode, Exchanging, Exchanges, Spends, Repeatable
  <2>. QED BY <2>1, <2>2
<1>4. ASSUME NEW t \in Tabs, ExchangeCodeOfLink(t) PROVE Exchanges(t)
  BY <1>4 DEF ExchangeCodeOfLink, Exchanging, Exchanges, Spends, Repeatable
<1>5. ASSUME NEW t \in Tabs, AskComposio(t) PROVE Exchanges(t)
  <2>1. CASE flows[tab[t].flow].kind = "pages"
    BY <1>5, <2>1 DEF AskComposio, Exchanging, Exchanges, Keeps
  <2>2. CASE flows[tab[t].flow].kind # "pages"
    BY <1>5, <2>2 DEF AskComposio, Exchanging, Exchanges, ComposioAnswers
  <2>. QED BY <2>1, <2>2
<1>6. ASSUME NEW t \in Tabs, Goes(t) PROVE TabStep(t)
  BY <1>3, <1>4, <1>5, <1>6 DEF Goes, TabStep
<1>. QED BY <1>1, <1>2, <1>6 DEF ConnectionNext, TabStep

\* The step a tab takes is read off its shape.
LEMMA TabShape ==
  ASSUME ConnectionShape, NEW t \in Tabs
  PROVE  /\ tab[t].step = "ask" => Asks(t)
         /\ tab[t].step \in {"exchange", "connect", "note", "save"} => Works(t)
         /\ Idle(t) \/ Asks(t) \/ Works(t)
         /\ Idle(t) => tab[t].step = "idle"
         /\ Asks(t) => tab[t].step = "ask"
         /\ Works(t) => tab[t].step \in {"exchange", "connect", "note", "save"}
BY DEF ConnectionShape, Asks, Works, Asking, Working, Idle, Waiting

\* The same request goes on.
LEMMA GoesOn ==
  ASSUME ConnectionShape, NEW t \in Tabs, Works(t), NEW step \in {"exchange", "connect", "note", "save"},
         NEW todo \in SUBSET Pages, Steps(t, step, todo)
  PROVE  /\ tab' \in [Tabs -> {Waiting} \cup Asking \cup Working]
         /\ Works(t)' /\ tab'[t].step = step /\ tab'[t].todo = todo
         /\ tab'[t].flow = tab[t].flow /\ tab'[t].loaded = tab[t].loaded /\ tab'[t].copy = tab[t].copy
         /\ \A u \in Tabs \ {t} : tab'[u] = tab[u]
<1>1. tab[t] \in Working /\ tab \in [Tabs -> {Waiting} \cup Asking \cup Working]
  BY DEF ConnectionShape, Works
<1>2. tab' = [tab EXCEPT ![t] = [tab[t] EXCEPT !.step = step, !.todo = todo]]
  BY <1>1 DEF Steps
<1>3. [tab[t] EXCEPT !.step = step, !.todo = todo] \in Working
  BY <1>1 DEF Working
<1>. QED BY <1>1, <1>2, <1>3 DEF Works, Working

\* The steps that follow one page.
LEMMA PageDone ==
  ASSUME ConnectionShape, NEW t \in Tabs, Works(t), NEW p, Leaves(t, p)
  PROVE  \E step \in {"connect", "save"}, todo \in SUBSET Pages :
           Steps(t, step, todo) /\ (step = "connect" /\ p \in tab[t].todo => todo # {})
<1>1. tab[t].todo \in SUBSET Pages
  BY DEF Works, Working
<1>2. tab[t].todo \ {p} \in SUBSET Pages
  BY <1>1
<1>3. CASE tab[t].todo = {p}
  BY <1>2, <1>3 DEF Leaves
<1>4. CASE tab[t].todo # {p}
  <2>1. p \in tab[t].todo => tab[t].todo \ {p} # {}
    BY <1>4
  <2>. QED BY <1>2, <1>4, <2>1 DEF Leaves
<1>. QED BY <1>3, <1>4

\* What the steps of a request do to its tab, and to what it uses.
LEMMA WorkShape ==
  ASSUME ConnectionShape, FlowsHaveBegun, NEW t \in Tabs,
         Exchanges(t) \/ ExchangeFails(t) \/ ConnectOne(t) \/ NoteUsage(t)
  PROVE  /\ Works(t) /\ Works(t)' /\ tab' \in [Tabs -> {Waiting} \cup Asking \cup Working]
         /\ tab'[t].flow = tab[t].flow /\ tab'[t].loaded = tab[t].loaded
         /\ tab'[t].step \in {"connect", "note"} => tab'[t].todo # {}
         /\ \A u \in Tabs \ {t} : tab'[u] = tab[u]
         /\ ~Keeps(t) \/ tab[t].step # "exchange" => tab'[t].copy = tab[t].copy
         /\ Keeps(t) /\ tab[t].step = "exchange" /\ ~ExchangeFails(t) =>
              tab'[t].step = "save" /\ tab'[t].copy = [tab[t].copy EXCEPT !["pick"] = tab[t].flow]
         /\ UNCHANGED <<session, flows, app, mandate, passed, broken, overwritten>>
         /\ tab'[t].step \in {"connect", "note", "save"}
<1>0. Works(t) /\ tab[t].todo \in SUBSET Pages /\ tab[t] \in Working /\ {} \in SUBSET Pages
  BY TabShape DEF Exchanges, ExchangeFails, ConnectOne, NoteUsage, Works, Working
<1>1. ASSUME NEW step \in {"connect", "note", "save"}, NEW todo \in SUBSET Pages, Steps(t, step, todo),
             step \in {"connect", "note"} => todo # {}
      PROVE  /\ Works(t)' /\ tab' \in [Tabs -> {Waiting} \cup Asking \cup Working]
             /\ tab'[t].flow = tab[t].flow /\ tab'[t].loaded = tab[t].loaded
             /\ tab'[t].copy = tab[t].copy
             /\ tab'[t].step \in {"connect", "note", "save"}
             /\ tab'[t].step \in {"connect", "note"} => tab'[t].todo # {}
             /\ \A u \in Tabs \ {t} : tab'[u] = tab[u]
  BY <1>0, <1>1, GoesOn
<1>2. CASE ExchangeFails(t)
  <2>1. UNCHANGED <<session, flows, app, mandate, passed, broken, overwritten>> /\ Steps(t, "save", {})
    BY <1>2 DEF ExchangeFails, ExchangeRest
  <2>. QED BY <1>0, <1>1, <1>2, <2>1
<1>3. CASE Exchanges(t) /\ ~ExchangeFails(t)
  <2>0. /\ UNCHANGED <<session, flows, app, mandate, passed, broken, overwritten>>
        /\ tab[t].step = "exchange" /\ tab[t].flow \in DOMAIN flows
    BY <1>0, <1>3 DEF Exchanges, ExchangeRest, FlowsHaveBegun
  <2>1. CASE Keeps(t)
    <3>1. tab' = [tab EXCEPT ![t] = [tab[t] EXCEPT !.step = "save", !.copy = [@ EXCEPT !["pick"] = tab[t].flow]]]
      BY <1>0, <2>1 DEF Keeps, KeepsPages, ConnectionShape
    <3>2. [tab[t].copy EXCEPT !["pick"] = tab[t].flow] \in Session
      BY <1>0 DEF Working, Session
    <3>3. [tab[t] EXCEPT !.step = "save", !.copy = [@ EXCEPT !["pick"] = tab[t].flow]] \in Working
      BY <1>0, <3>2 DEF Working
    <3>4. /\ tab'[t] = [tab[t] EXCEPT !.step = "save", !.copy = [@ EXCEPT !["pick"] = tab[t].flow]]
          /\ \A u \in Tabs \ {t} : tab'[u] = tab[u]
      BY <3>1 DEF ConnectionShape
    <3>5. /\ tab'[t].flow = tab[t].flow /\ tab'[t].loaded = tab[t].loaded /\ tab'[t].step = "save"
          /\ tab'[t].copy = [tab[t].copy EXCEPT !["pick"] = tab[t].flow]
      BY <1>0, <3>4 DEF Working
    <3>6. tab' \in [Tabs -> {Waiting} \cup Asking \cup Working] /\ Works(t)'
      BY <3>1, <3>3, <3>4 DEF ConnectionShape, Works
    <3>. QED BY <1>0, <1>3, <2>0, <2>1, <3>4, <3>5, <3>6
  <2>2. CASE ~Keeps(t)
    <3>1. ConnectsAll(t, tab[t].flow)
      BY <1>3, <2>2 DEF Exchanges, Spends, ComposioAnswers
    <3>2. PICK todo \in SUBSET Pages : todo # {} /\ Steps(t, "connect", todo)
      <4>1. Pages # {} /\ \A p \in Pages : {p} \in SUBSET Pages /\ {p} # {}
        BY ConnectionAssumption DEF Pages
      <4>. QED BY <3>1, <4>1 DEF ConnectsAll
    <3>. QED BY <1>0, <1>1, <2>0, <2>2, <3>2
  <2>. QED BY <2>1, <2>2
<1>4. CASE ConnectOne(t) \/ NoteUsage(t)
  <2>1. UNCHANGED <<session, flows, app, mandate, passed, broken, overwritten>> /\ tab[t].step \in {"connect", "note"}
    BY <1>4 DEF ConnectOne, NoteUsage
  <2>2. tab[t].todo # {}
    BY <1>0, <2>1 DEF FlowsHaveBegun
  <2>3. FirstOf(tab[t].todo) \in tab[t].todo
    BY <1>0, <2>2, FirstIsOne
  <2>4. \/ Steps(t, "note", tab[t].todo)
        \/ Leaves(t, FirstOf(tab[t].todo))
    BY <1>4 DEF ConnectOne, NoteUsage
  <2>5. PICK step \in {"connect", "note", "save"}, todo \in SUBSET Pages :
          Steps(t, step, todo) /\ (step \in {"connect", "note"} => todo # {})
    BY <1>0, <2>2, <2>3, <2>4, PageDone
  <2>. QED BY <1>0, <1>1, <2>1, <2>5
<1>. QED BY <1>2, <1>3, <1>4

\* The other steps of a tab, as they change it.
LEMMA TabChange ==
  ASSUME ConnectionShape, FlowsHaveBegun, NEW t \in Tabs
  PROVE  /\ \A flow \in Askable : Ask(t, flow) =>
              /\ Asks(t)' /\ tab'[t].loaded = session /\ tab'[t].copy = session /\ tab'[t].flow = flow
              /\ tab'[t].step = "ask"
         /\ \A flow \in Flow : ConnectDirectly(t, flow) =>
              /\ Works(t)' /\ tab'[t].loaded = session /\ tab'[t].copy = session
              /\ tab'[t].flow = Len(flows) + 1 /\ tab'[t].step = "connect" /\ tab'[t].todo # {}
         /\ \A f \in DOMAIN flows : Return(t, f) /\ tab' # tab =>
              /\ Works(t)' /\ tab'[t].loaded = session /\ tab'[t].copy = Cleared(flows[f].route)
              /\ tab'[t].flow = f /\ tab'[t].step = "exchange" /\ session' = session
              /\ session[flows[f].route] = f /\ passed' = passed \cup {f}
         /\ \A chosen \in SUBSET Pages : Submit(t, chosen) =>
              /\ Works(t)' /\ tab'[t].loaded = session /\ tab'[t].copy = Cleared("pick")
              /\ tab'[t].flow = session["pick"] /\ tab'[t].step \in {"connect", "save"}
              /\ tab'[t].step = "connect" => tab'[t].todo # {}
<1>0. tab \in [Tabs -> {Waiting} \cup Asking \cup Working] /\ session \in Session
  BY DEF ConnectionShape
<1>1. ASSUME NEW flow \in Askable, Ask(t, flow)
      PROVE  /\ Asks(t)' /\ tab'[t].loaded = session /\ tab'[t].copy = session /\ tab'[t].flow = flow
             /\ tab'[t].step = "ask"
  <2>1. [step |-> "ask", flow |-> flow, loaded |-> session, copy |-> session, todo |-> {}] \in Asking
    BY <1>0 DEF Asking
  <2>. QED BY <1>0, <1>1, <2>1 DEF Ask, Asks
<1>2. ASSUME NEW flow \in Flow, ConnectDirectly(t, flow)
      PROVE  /\ Works(t)' /\ tab'[t].loaded = session /\ tab'[t].copy = session
             /\ tab'[t].flow = Len(flows) + 1 /\ tab'[t].step = "connect" /\ tab'[t].todo # {}
  <2>1. Len(flows') = Len(flows) + 1 /\ Len(flows) + 1 \in FlowIds
    BY <1>2, ConnectionAssumption DEF ConnectDirectly, MayBegin, ConnectionShape, FlowIds
  <2>2. {1} \in SUBSET Pages
    BY ConnectionAssumption DEF Pages
  <2>3. [step |-> "connect", flow |-> Len(flows'), loaded |-> session, copy |-> session, todo |-> {1}] \in Working
    BY <1>0, <2>1, <2>2 DEF Working
  <2>4. tab'[t] = [step |-> "connect", flow |-> Len(flows'), loaded |-> session, copy |-> session, todo |-> {1}]
    BY <1>0, <1>2 DEF ConnectDirectly
  <2>. QED BY <2>1, <2>3, <2>4 DEF Works
<1>3. ASSUME NEW f \in DOMAIN flows, Return(t, f), tab' # tab
      PROVE  /\ Works(t)' /\ tab'[t].loaded = session /\ tab'[t].copy = Cleared(flows[f].route)
             /\ tab'[t].flow = f /\ tab'[t].step = "exchange" /\ session' = session
             /\ session[flows[f].route] = f /\ passed' = passed \cup {f}
  <2>1. flows[f].route \in Slots /\ f \in FlowIds
    <3>1. flows \in Seq(Flow) /\ Len(flows) <= MaxFlows /\ MaxFlows \in Nat
      BY ConnectionAssumption DEF ConnectionShape
    <3>2. flows[f] \in Flow /\ f \in 1 .. Len(flows)
      BY <3>1
    <3>. QED BY <3>1, <3>2 DEF Flow, Slots, FlowIds
  <2>2. Cleared(flows[f].route) \in Session
    BY <1>0, <2>1, ClearedShape DEF Cleared
  <2>3. [step |-> "exchange", flow |-> f, loaded |-> session, copy |-> Cleared(flows[f].route), todo |-> {}] \in Working
    BY <1>0, <2>1, <2>2 DEF Working
  <2>4. /\ tab' = [tab EXCEPT ![t] = [step |-> "exchange", flow |-> f, loaded |-> session,
                                      copy |-> Cleared(flows[f].route), todo |-> {}]]
        /\ session' = session /\ session[flows[f].route] = f /\ passed' = passed \cup {f}
    BY <1>3 DEF Return
  <2>. QED BY <1>0, <2>3, <2>4 DEF Works
<1>4. ASSUME NEW chosen \in SUBSET Pages, Submit(t, chosen)
      PROVE  /\ Works(t)' /\ tab'[t].loaded = session /\ tab'[t].copy = Cleared("pick")
             /\ tab'[t].flow = session["pick"] /\ tab'[t].step \in {"connect", "save"}
             /\ tab'[t].step = "connect" => tab'[t].todo # {}
  <2>1. session["pick"] \in FlowIds /\ Cleared("pick") \in Session
    BY <1>0, <1>4, ClearedShape DEF Submit, Session, Slots, Cleared
  <2>2. [step |-> IF chosen = {} THEN "save" ELSE "connect", flow |-> session["pick"],
         loaded |-> session, copy |-> Cleared("pick"), todo |-> chosen] \in Working
    BY <1>0, <2>1 DEF Working
  <2>3. tab'[t] = [step |-> IF chosen = {} THEN "save" ELSE "connect", flow |-> session["pick"],
                   loaded |-> session, copy |-> Cleared("pick"), todo |-> chosen]
    BY <1>0, <1>4 DEF Submit
  <2>. QED BY <2>2, <2>3 DEF Works
<1>. QED BY <1>1, <1>2, <1>3, <1>4

\* A dialogue that begins gets the next number.
LEMMA NextFlow ==
  ASSUME ConnectionShape, Len(flows) < MaxFlows, NEW flow \in Flow, flows' = Append(flows, flow)
  PROVE  /\ Len(flows') = Len(flows) + 1 /\ Len(flows') \in FlowIds /\ Len(flows') # Nobody
         /\ Len(flows') \in DOMAIN flows' /\ Len(flows') \notin DOMAIN flows /\ flows'[Len(flows')] = flow
         /\ DOMAIN flows \subseteq DOMAIN flows' /\ flows' \in Seq(Flow) /\ Len(flows') <= MaxFlows
         /\ \A f \in DOMAIN flows : flows'[f] = flows[f]
<1>1. flows \in Seq(Flow) /\ MaxFlows \in Nat
  BY ConnectionAssumption DEF ConnectionShape
<1>2. /\ Len(flows') = Len(flows) + 1 /\ flows' \in Seq(Flow) /\ flows'[Len(flows')] = flow
      /\ DOMAIN flows = 1 .. Len(flows) /\ DOMAIN flows' = 1 .. Len(flows') /\ Len(flows) \in Nat
      /\ \A f \in 1 .. Len(flows) : flows'[f] = flows[f]
  BY <1>1
<1>. QED BY <1>1, <1>2 DEF FlowIds, Nobody

LEMMA FlowOf ==
  ASSUME ConnectionShape, NEW f \in DOMAIN flows
  PROVE  /\ flows[f] \in Flow /\ flows[f].home \in Homes /\ flows[f].route \in Routes
         /\ flows[f].kind \in Kinds /\ f \in FlowIds /\ f # Nobody
<1>1. flows \in Seq(Flow) /\ Len(flows) <= MaxFlows /\ MaxFlows \in Nat
  BY ConnectionAssumption DEF ConnectionShape
<1>2. flows[f] \in Flow /\ f \in 1 .. Len(flows)
  BY <1>1
<1>. QED BY <1>1, <1>2 DEF Flow, FlowIds, Nobody

LEMMA ConnectionShapeStep ==
  ASSUME ConnectionShape, FlowsHaveBegun, [ConnectionNext]_connectionVars PROVE ConnectionShape'
<1>0. /\ tab \in [Tabs -> {Waiting} \cup Asking \cup Working] /\ session \in Session
      /\ flows \in Seq(Flow)
  BY DEF ConnectionShape
<1>1. CASE UNCHANGED connectionVars
  BY <1>1 DEF ConnectionShape, connectionVars
<1>2. ASSUME NEW m \in {"member", "link"}, Withdraw(m) PROVE ConnectionShape'
  BY <1>2 DEF Withdraw, ConnectionShape
<1>3. ASSUME NEW t \in Tabs, NEW flow \in Askable, Begin(t, flow) PROVE ConnectionShape'
  <2>1. Len(flows) < MaxFlows /\ flows' = Append(flows, flow)
    BY <1>3 DEF Begin, MayBegin
  <2>2. session' \in Session
    BY <1>0, <1>3, <2>1, NextFlow DEF Begin, Session, Askable
  <2>. QED BY <1>3, <2>1, <2>2, NextFlow DEF Begin, ConnectionShape, Askable
<1>4. ASSUME NEW t \in Tabs, NEW flow \in Askable, Ask(t, flow) PROVE ConnectionShape'
  <2>1. tab'[t] \in Asking /\ tab' = [tab EXCEPT ![t] = tab'[t]]
    BY <1>0, <1>4, TabChange DEF Ask, Asks
  <2>2. tab' \in [Tabs -> {Waiting} \cup Asking \cup Working]
    BY <1>0, <2>1
  <2>. QED BY <1>4, <2>2 DEF Ask, ConnectionShape
<1>5. ASSUME NEW t \in Tabs, NEW flow \in Flow, ConnectDirectly(t, flow) PROVE ConnectionShape'
  <2>1. tab'[t] \in Working /\ tab' = [tab EXCEPT ![t] = tab'[t]]
    BY <1>0, <1>5, TabChange DEF ConnectDirectly, Works
  <2>2. tab' \in [Tabs -> {Waiting} \cup Asking \cup Working]
    BY <1>0, <2>1
  <2>3. Len(flows) < MaxFlows /\ flows' = Append(flows, flow)
    BY <1>5 DEF ConnectDirectly, MayBegin
  <2>. QED BY <1>5, <2>2, <2>3, NextFlow DEF ConnectDirectly, ConnectionShape, Uses
<1>6. ASSUME NEW t \in Tabs, NEW f \in DOMAIN flows, Return(t, f) PROVE ConnectionShape'
  <2>0. flows[f].route \in Slots
    BY FlowOf DEF Slots
  <2>1. session' \in Session
    BY <1>0, <1>6, <2>0, ClearedShape DEF Return, Cleared
  <2>2. tab' \in [Tabs -> {Waiting} \cup Asking \cup Working]
    <3>1. CASE tab' = tab
      BY <1>0, <3>1
    <3>2. CASE tab' # tab
      <4>1. tab'[t] \in Working
        BY <1>6, <3>2, TabChange DEF Works
      <4>2. tab' = [tab EXCEPT ![t] = tab'[t]]
        BY <1>0, <1>6, <3>2 DEF Return
      <4>. QED BY <1>0, <4>1, <4>2
    <3>. QED BY <3>1, <3>2
  <2>. QED BY <1>6, <2>1, <2>2 DEF Return, ConnectionShape
<1>7. ASSUME NEW t \in Tabs, NEW route \in Routes, Decline(t, route) PROVE ConnectionShape'
  <2>1. session' \in Session
    BY <1>0, <1>7, ClearedShape DEF Decline, Cleared, Slots
  <2>. QED BY <1>7, <2>1 DEF Decline, ConnectionShape
<1>8. ASSUME NEW t \in Tabs, NEW chosen \in SUBSET Pages, Submit(t, chosen) PROVE ConnectionShape'
  <2>1. tab'[t] \in Working /\ tab' = [tab EXCEPT ![t] = tab'[t]]
    BY <1>0, <1>8, TabChange DEF Submit, Works
  <2>2. tab' \in [Tabs -> {Waiting} \cup Asking \cup Working]
    BY <1>0, <2>1
  <2>3. session["pick"] \in DOMAIN flows
    BY <1>8 DEF Submit, FlowsHaveBegun, Begun, Slots
  <2>. QED BY <1>8, <2>2, <2>3 DEF Submit, ConnectionShape, Uses
<1>9. ASSUME NEW t \in Tabs, FinishAsking(t) PROVE ConnectionShape'
  <2>1. tab[t] \in Asking
    BY <1>9, TabShape DEF FinishAsking, Asks
  <2>2. tab' \in [Tabs -> {Waiting} \cup Asking \cup Working] /\ overwritten' \in BOOLEAN
    BY <1>0, <1>9 DEF FinishAsking, Saves, ConnectionShape
  <2>3. CASE flows' = flows /\ Saves(t, tab[t].copy) /\ app' = app
    BY <1>9, <2>1, <2>2, <2>3 DEF FinishAsking, Saves, ConnectionShape, Asking
  <2>4. CASE /\ Len(flows) < MaxFlows /\ flows' = Append(flows, tab[t].flow)
             /\ Saves(t, [tab[t].copy EXCEPT ![tab[t].flow.route] = Len(flows')])
             /\ app' \in {app, tab[t].flow.route} /\ (app' # app => tab[t].flow.kind = "mastodon")
    <3>1. tab[t].flow \in Flow /\ tab[t].copy \in Session
      BY <2>1 DEF Asking, Askable
    <3>4. app' \in {"none", "member", "link"}
      BY <2>1, <2>4 DEF Asking, Askable, Flow, Routes, ConnectionShape
    <3>2. session' \in Session
      BY <2>4, <3>1, NextFlow DEF Saves, Session
    <3>3. /\ flows' \in Seq(Flow) /\ Len(flows') <= MaxFlows /\ DOMAIN flows \subseteq DOMAIN flows'
      BY <2>4, <3>1, NextFlow
    <3>. QED BY <1>9, <2>2, <2>4, <3>2, <3>3, <3>4 DEF FinishAsking, ConnectionShape
  <2>. QED BY <1>9, <2>3, <2>4 DEF FinishAsking
<1>10. ASSUME NEW t \in Tabs, Exchanges(t) \/ ExchangeFails(t) PROVE ConnectionShape'
  <2>1. tab[t].flow \in DOMAIN flows /\ UNCHANGED <<token, usage>>
    BY <1>10, WorkShape DEF FlowsHaveBegun, Exchanges, ExchangeFails, ExchangeRest
  <2>2. spent' \cup used' \cup reused' \subseteq spent \cup used \cup reused \cup {tab[t].flow}
    BY <1>10 DEF Exchanges, ExchangeFails, Keeps, Spends, ComposioAnswers, KeepsPages, ConnectsAll, Uses
  <2>. QED BY <1>10, <2>1, <2>2, WorkShape DEF ConnectionShape
<1>11. ASSUME NEW t \in Tabs, ConnectOne(t) PROVE ConnectionShape'
  <2>1. tab[t].flow \in DOMAIN flows /\ tab[t] \in Working
    BY <1>11, WorkShape DEF FlowsHaveBegun, Works
  <2>2. tab[t].flow \in FlowIds /\ flows[tab[t].flow].home \in Homes
    BY <2>1, FlowOf
  <2>3. token' \in [Homes -> [Pages -> FlowIds \cup {Nobody}]]
    BY <1>11, <2>2 DEF ConnectOne, ConnectionShape
  <2>4. UNCHANGED <<spent, usage, used, reused>>
    BY <1>11 DEF ConnectOne
  <2>. QED BY <1>11, <2>3, <2>4, WorkShape DEF ConnectionShape
<1>12. ASSUME NEW t \in Tabs, NoteUsage(t) PROVE ConnectionShape'
  <2>1. tab[t].todo # {} /\ tab[t].todo \in SUBSET Pages
    BY <1>12, WorkShape DEF NoteUsage, FlowsHaveBegun, Works, Working
  <2>2. FirstOf(tab[t].todo) \in Pages
    BY <2>1, FirstIsOne
  <2>3. UNCHANGED <<spent, token, used, reused>> /\ usage' = usage \cup {FirstOf(tab[t].todo)}
    BY <1>12 DEF NoteUsage
  <2>. QED BY <1>12, <2>2, <2>3, WorkShape DEF ConnectionShape
<1>13. ASSUME NEW t \in Tabs, Break(t) PROVE ConnectionShape'
  <2>1. Works(t) /\ tab[t].flow \in DOMAIN flows
    BY <1>13, TabShape DEF Break, FlowsHaveBegun
  <2>2. tab' \in [Tabs -> {Waiting} \cup Asking \cup Working]
    BY <1>0, <1>13, <2>1, GoesOn DEF Break
  <2>. QED BY <1>13, <2>1, <2>2 DEF Break, ConnectionShape
<1>14. ASSUME NEW t \in Tabs, Answer(t) PROVE ConnectionShape'
  <2>1. tab[t].copy \in Session
    BY <1>14, TabShape DEF Answer, Works, Working
  <2>2. tab' \in [Tabs -> {Waiting} \cup Asking \cup Working] /\ overwritten' \in BOOLEAN
    BY <1>0, <1>14 DEF Answer, Saves, ConnectionShape
  <2>. QED BY <1>14, <2>1, <2>2 DEF Answer, Saves, ConnectionShape
<1>15. ASSUME NEW t \in Tabs, TabStep(t) PROVE ConnectionShape'
  BY <1>3, <1>4, <1>5, <1>6, <1>7, <1>8, <1>9, <1>10, <1>11, <1>12, <1>13, <1>14, <1>15 DEF TabStep
<1>. QED BY <1>1, <1>2, <1>15, TabSteps

--------------------------------------------------------------------------------
(* Where flows are named. *)

\* A step of one tab leaves the others', and what it leaves of its own.
LEMMA OtherTabs ==
  ASSUME ConnectionShape, NEW t \in Tabs, TabStep(t)
  PROVE  \A u \in Tabs \ {t} : tab'[u] = tab[u]
BY DEF TabStep, Begin, Ask, ConnectDirectly, Return, Decline, Submit, FinishAsking, Saves, Exchanges, Keeps,
       Spends, ComposioAnswers, KeepsPages, ConnectsAll, Steps, ExchangeFails, ConnectOne, NoteUsage, Leaves,
       Break, Answer, ConnectionShape

\* How a step of a tab changes the session.
LEMMA SessionChange ==
  ASSUME ConnectionShape, FlowsHaveBegun, NEW t \in Tabs, TabStep(t)
  PROVE  \/ \A x \in Slots : session'[x] \in {Nobody, session[x]}
         \/ \E flow \in Askable :
              /\ Begin(t, flow) /\ session' = [session EXCEPT ![flow.route] = Len(flows')]
              /\ Len(flows) < MaxFlows /\ flows' = Append(flows, flow)
         \/ /\ ~Idle(t) /\ session' = tab[t].copy /\ flows' = flows
            /\ tab'[t] = Waiting /\ overwritten' = (overwritten \/ session # tab[t].loaded)
         \/ /\ Asks(t) /\ session' = [tab[t].copy EXCEPT ![tab[t].flow.route] = Len(flows')]
            /\ Len(flows) < MaxFlows /\ flows' = Append(flows, tab[t].flow) /\ tab[t].flow \in Askable
            /\ tab'[t] = Waiting /\ overwritten' = (overwritten \/ session # tab[t].loaded)
<1>0. tab \in [Tabs -> {Waiting} \cup Asking \cup Working] /\ session \in Session
  BY DEF ConnectionShape
<1>1. CASE \E flow \in Askable : Begin(t, flow)
  BY <1>1 DEF Begin, MayBegin
<1>2. CASE FinishAsking(t)
  <2>1. Asks(t) /\ tab[t] \in Asking
    BY <1>2, TabShape DEF FinishAsking, Asks
  <2>2. ~Idle(t) /\ tab[t].flow \in Askable
    BY <2>1 DEF Asking, Idle, Waiting
  <2>. QED BY <1>0, <1>2, <2>1, <2>2 DEF FinishAsking, Saves
<1>3. CASE Answer(t)
  <2>1. ~Idle(t)
    BY <1>3 DEF Answer, Idle, Waiting
  <2>. QED BY <1>0, <1>3, <2>1 DEF Answer, Saves
<1>4. CASE \E f \in DOMAIN flows : Return(t, f)
  BY <1>0, <1>4 DEF Return, Cleared, Session
<1>5. CASE \E route \in Routes : Decline(t, route)
  BY <1>0, <1>5 DEF Decline, Cleared, Session
<1>6. CASE \/ \E flow \in Flow : ConnectDirectly(t, flow)
           \/ \E flow \in Askable : Ask(t, flow)
           \/ \E chosen \in SUBSET Pages : Submit(t, chosen)
           \/ Break(t)
  BY <1>6 DEF ConnectDirectly, Ask, Submit, Break
<1>7. CASE Exchanges(t) \/ ExchangeFails(t) \/ ConnectOne(t) \/ NoteUsage(t)
  BY <1>7, WorkShape
<1>. QED BY <1>1, <1>2, <1>3, <1>4, <1>5, <1>6, <1>7 DEF TabStep

\* How a step of a tab changes the request it is waiting for.
LEMMA RequestChange ==
  ASSUME ConnectionShape, FlowsHaveBegun, NEW t \in Tabs, TabStep(t)
  PROVE  \/ tab'[t] = tab[t]
         \/ tab'[t] = Waiting
         \/ /\ Asks(t)' /\ tab'[t].loaded = session /\ tab'[t].copy = session /\ session' = session
            /\ tab'[t].step = "ask" /\ Idle(t)
         \/ /\ Works(t)' /\ tab'[t].loaded = session /\ Idle(t) /\ session' = session
            /\ \/ \E flow \in Flow :
                    /\ ConnectDirectly(t, flow) /\ tab'[t].copy = session
                    /\ tab'[t].flow = Len(flows) + 1 /\ tab'[t].step = "connect" /\ tab'[t].todo # {}
               \/ \E f \in DOMAIN flows :
                    /\ Return(t, f) /\ tab'[t].copy = Cleared(flows[f].route) /\ tab'[t].flow = f
                    /\ tab'[t].step = "exchange" /\ session[flows[f].route] = f /\ passed' = passed \cup {f}
               \/ \E chosen \in SUBSET Pages :
                    /\ Submit(t, chosen) /\ tab'[t].copy = Cleared("pick") /\ tab'[t].flow = session["pick"]
                    /\ tab'[t].step \in {"connect", "save"} /\ (tab'[t].step = "connect" => tab'[t].todo # {})
         \/ /\ Works(t) /\ Works(t)' /\ session' = session
            /\ tab'[t].flow = tab[t].flow /\ tab'[t].loaded = tab[t].loaded
            /\ tab'[t].step \in {"connect", "note"} => tab'[t].todo # {}
            /\ tab'[t].step \in {"connect", "note", "save"}
            /\ \/ tab'[t].copy = tab[t].copy
               \/ /\ Exchanges(t) /\ Keeps(t) /\ tab'[t].step = "save"
                  /\ tab'[t].copy = [tab[t].copy EXCEPT !["pick"] = tab[t].flow]
<1>0. tab \in [Tabs -> {Waiting} \cup Asking \cup Working]
  BY DEF ConnectionShape
<1>1. CASE \/ \E flow \in Askable : Begin(t, flow)
           \/ \E route \in Routes : Decline(t, route)
  BY <1>1 DEF Begin, Decline
<1>2. CASE \E flow \in Askable : Ask(t, flow)
  BY <1>2, TabChange DEF Ask, MayBegin
<1>3. CASE \E flow \in Flow : ConnectDirectly(t, flow)
  BY <1>3, TabChange DEF ConnectDirectly, MayBegin
<1>4. CASE \E f \in DOMAIN flows : Return(t, f)
  BY <1>4, TabChange DEF Return
<1>5. CASE \E chosen \in SUBSET Pages : Submit(t, chosen)
  BY <1>5, TabChange DEF Submit
<1>6. CASE FinishAsking(t) \/ Answer(t)
  BY <1>0, <1>6 DEF FinishAsking, Answer, Saves
<1>7. CASE Break(t)
  <2>1. Works(t)
    BY <1>7, TabShape DEF Break
  <2>2. tab' = [tab EXCEPT ![t] = Waiting] \/ Steps(t, "save", {})
    BY <1>7 DEF Break
  <2>3. CASE Steps(t, "save", {})
    BY <1>7, <2>1, <2>3, GoesOn DEF Break
  <2>. QED BY <1>0, <2>2, <2>3
<1>8. CASE Exchanges(t) \/ ExchangeFails(t) \/ ConnectOne(t) \/ NoteUsage(t)
  <2>1. Exchanges(t) => tab[t].step = "exchange"
    BY DEF Exchanges
  <2>2. CASE Exchanges(t) /\ Keeps(t) /\ ~ExchangeFails(t)
    BY <1>8, <2>1, <2>2, WorkShape
  <2>3. CASE ~(Exchanges(t) /\ Keeps(t) /\ ~ExchangeFails(t))
    <3>1. ~Keeps(t) \/ tab[t].step # "exchange" \/ ExchangeFails(t)
      BY <1>8, <2>3 DEF ConnectOne, NoteUsage
    <3>2. tab'[t].copy = tab[t].copy
      <4>1. CASE ExchangeFails(t)
        BY <4>1, TabShape, GoesOn DEF ExchangeFails
      <4>. QED BY <1>8, <3>1, <4>1, WorkShape
    <3>. QED BY <1>8, <3>2, WorkShape
  <2>. QED BY <2>2, <2>3
<1>. QED BY <1>1, <1>2, <1>3, <1>4, <1>5, <1>6, <1>7, <1>8 DEF TabStep

\* How a step of a tab changes the tokens.
LEMMA TokenChange ==
  ASSUME ConnectionShape, FlowsHaveBegun, NEW t \in Tabs, TabStep(t), NEW h \in Homes, NEW p \in Pages
  PROVE  \/ token'[h][p] = token[h][p]
         \/ /\ ConnectOne(t) /\ Works(t) /\ token'[h][p] = tab[t].flow
            /\ h = flows[tab[t].flow].home /\ p = FirstOf(tab[t].todo)
<1>1. CASE ConnectOne(t)
  <2>1. Works(t) /\ tab[t].flow \in DOMAIN flows
    BY <1>1, WorkShape DEF FlowsHaveBegun
  <2>2. flows[tab[t].flow].home \in Homes
    BY <2>1, FlowOf
  <2>. QED BY <1>1, <2>1, <2>2 DEF ConnectOne, ConnectionShape
<1>2. CASE ~ConnectOne(t)
  <2>1. token' = token
    BY <1>2 DEF TabStep, Begin, Ask, ConnectDirectly, Return, Decline, Submit, FinishAsking, Exchanges, ExchangeRest,
                ExchangeFails, NoteUsage, Break, Answer
  <2>. QED BY <2>1
<1>. QED BY <1>1, <1>2

LEMMA BegunStep ==
  ASSUME ConnectionShape, FlowsHaveBegun, ConnectionNext, NEW t \in Tabs, TabStep(t)
  PROVE  FlowsHaveBegun'
<1>1. /\ \A f \in DOMAIN flows : f \in DOMAIN flows' /\ flows'[f] = flows[f]
      /\ session \in Session /\ tab \in [Tabs -> {Waiting} \cup Asking \cup Working]
  BY FlowsGrow DEF ConnectionShape
<1>2. Begun(session)'
  <2>1. CASE \A x \in Slots : session'[x] \in {Nobody, session[x]}
    BY <1>1, <2>1 DEF FlowsHaveBegun, Begun
  <2>2. ASSUME NEW flow \in Askable, session' = [session EXCEPT ![flow.route] = Len(flows')],
               Len(flows) < MaxFlows, flows' = Append(flows, flow)
        PROVE  Begun(session)'
    <3>1. Len(flows') \in DOMAIN flows'
      BY <2>2, NextFlow DEF Askable
    <3>. QED BY <1>1, <2>2, <3>1 DEF FlowsHaveBegun, Begun, Session
  <2>3. CASE ~Idle(t) /\ session' = tab[t].copy /\ flows' = flows
    BY <1>1, <2>3 DEF FlowsHaveBegun, Begun
  <2>4. CASE /\ Asks(t) /\ session' = [tab[t].copy EXCEPT ![tab[t].flow.route] = Len(flows')]
             /\ Len(flows) < MaxFlows /\ flows' = Append(flows, tab[t].flow) /\ tab[t].flow \in Askable
    <3>1. Len(flows') \in DOMAIN flows'
      BY <2>4, NextFlow DEF Askable
    <3>2. tab[t].copy \in Session /\ Begun(tab[t].copy)
      BY <2>4 DEF FlowsHaveBegun, Asks, Asking, Idle, Waiting
    <3>. QED BY <1>1, <2>4, <3>1, <3>2 DEF Begun, Session
  <2>. QED BY <2>1, <2>2, <2>3, <2>4, SessionChange
<1>3. ASSUME NEW u \in Tabs, u # t
      PROVE  /\ ~Idle(u)' => Begun(tab[u].loaded)' /\ Begun(tab[u].copy)'
             /\ Works(u)' => /\ (tab[u].flow)' \in DOMAIN flows'
                             /\ tab'[u].step \in {"connect", "note"} => tab'[u].todo # {}
  <2>1. tab'[u] = tab[u]
    BY <1>3, OtherTabs
  <2>. QED BY <1>1, <2>1 DEF FlowsHaveBegun, Begun, Idle, Works
<1>4. /\ ~Idle(t)' => Begun(tab[t].loaded)' /\ Begun(tab[t].copy)'
      /\ Works(t)' => /\ (tab[t].flow)' \in DOMAIN flows'
                      /\ tab'[t].step \in {"connect", "note"} => tab'[t].todo # {}
  <2>1. CASE tab'[t] = tab[t]
    BY <1>1, <2>1 DEF FlowsHaveBegun, Begun, Idle, Works
  <2>2. CASE tab'[t] = Waiting
    BY <2>2 DEF Idle, Works, Working, Waiting
  <2>3. CASE Asks(t)' /\ tab'[t].loaded = session /\ tab'[t].copy = session
    BY <1>1, <2>3 DEF FlowsHaveBegun, Begun, Works, Working, Asks, Asking
  <2>4. CASE /\ tab'[t].loaded = session
             /\ tab'[t].copy = session \/ \E x \in Slots : tab'[t].copy = Cleared(x)
             /\ tab'[t].flow \in DOMAIN flows' /\ (tab'[t].step \in {"connect", "note"} => tab'[t].todo # {})
    BY <1>1, <2>4 DEF FlowsHaveBegun, Begun, Cleared, Session
  <2>5. CASE /\ Works(t) /\ tab'[t].flow = tab[t].flow /\ tab'[t].loaded = tab[t].loaded
             /\ tab'[t].step \in {"connect", "note"} => tab'[t].todo # {}
             /\ tab'[t].copy \in {tab[t].copy, [tab[t].copy EXCEPT !["pick"] = tab[t].flow]}
    <3>1. /\ tab[t].copy \in Session /\ Begun(tab[t].copy) /\ Begun(tab[t].loaded) /\ tab[t].flow \in DOMAIN flows
      BY <2>5 DEF FlowsHaveBegun, Works, Working, Idle, Waiting
    <3>. QED BY <1>1, <2>5, <3>1 DEF Begun, Session
  <2>6. ASSUME NEW flow \in Flow, ConnectDirectly(t, flow), tab'[t].flow = Len(flows) + 1
        PROVE  tab'[t].flow \in DOMAIN flows'
    BY <2>6, NextFlow DEF ConnectDirectly, MayBegin
  <2>7. ASSUME NEW chosen \in SUBSET Pages, Submit(t, chosen) PROVE session["pick"] \in DOMAIN flows'
    BY <1>1, <2>7 DEF Submit, FlowsHaveBegun, Begun, Slots
  <2>8. \A f \in DOMAIN flows : flows[f].route \in Slots
    BY FlowOf DEF Slots
  <2>9. "pick" \in Slots
    BY DEF Slots
  <2>. QED BY <1>1, <2>1, <2>2, <2>3, <2>4, <2>5, <2>6, <2>7, <2>8, <2>9, RequestChange
<1>5. ASSUME NEW h \in Homes, NEW p \in Pages, token'[h][p] # Nobody PROVE token'[h][p] \in DOMAIN flows'
  BY <1>1, <1>5, TokenChange DEF FlowsHaveBegun
<1>. QED BY <1>2, <1>3, <1>4, <1>5 DEF FlowsHaveBegun

\* What comes back under a mandate stays mandated, and only that is worked on.
LEMMA MandateStep ==
  ASSUME ConnectionShape, FlowsHaveBegun, WorkIsMandated, TokensAreMandated, ConnectionNext,
         NEW t \in Tabs, TabStep(t)
  PROVE  WorkIsMandated' /\ TokensAreMandated'
<1>1. /\ \A f \in DOMAIN flows : f \in DOMAIN flows' /\ flows'[f] = flows[f]
      /\ session \in Session /\ passed \subseteq passed'
  BY FlowsGrow
     DEF ConnectionShape, TabStep, Begin, Ask, ConnectDirectly, Return, Decline, Submit, FinishAsking, Exchanges,
         ExchangeRest, ExchangeFails, ConnectOne, NoteUsage, Break, Answer
<1>2. Mandated(session)'
  <2>1. CASE \A x \in Slots : session'[x] \in {Nobody, session[x]}
    BY <1>1, <2>1 DEF WorkIsMandated, Mandated, Slots
  <2>2. ASSUME NEW flow \in Askable, session' = [session EXCEPT ![flow.route] = Len(flows')]
        PROVE  Mandated(session)'
    <3>1. flow.route # "pick"
      BY DEF Askable, Flow, Routes
    <3>. QED BY <1>1, <2>2, <3>1 DEF WorkIsMandated, Mandated, Session, Slots
  <2>3. CASE ~Idle(t) /\ session' = tab[t].copy
    BY <1>1, <2>3 DEF WorkIsMandated, Mandated
  <2>4. CASE Asks(t) /\ session' = [tab[t].copy EXCEPT ![tab[t].flow.route] = Len(flows')] /\ tab[t].flow \in Askable
    <3>1. tab[t].flow.route # "pick"
      BY <2>4 DEF Askable, Flow, Routes
    <3>2. tab[t].copy \in Session /\ Mandated(tab[t].copy)
      BY <2>4 DEF WorkIsMandated, Asks, Asking, Idle, Waiting
    <3>. QED BY <1>1, <2>4, <3>1, <3>2 DEF Mandated, Session, Slots
  <2>. QED BY <2>1, <2>2, <2>3, <2>4, SessionChange
<1>3. ASSUME NEW u \in Tabs, u # t
      PROVE  /\ ~Idle(u)' => Mandated(tab[u].loaded)' /\ Mandated(tab[u].copy)'
             /\ Works(u)' => (tab[u].flow)' \in passed'
  <2>1. tab'[u] = tab[u]
    BY <1>3, OtherTabs
  <2>. QED BY <1>1, <2>1 DEF WorkIsMandated, Mandated, Idle, Works
<1>4. /\ ~Idle(t)' => Mandated(tab[t].loaded)' /\ Mandated(tab[t].copy)'
      /\ Works(t)' => (tab[t].flow)' \in passed'
  <2>1. CASE tab'[t] = tab[t]
    BY <1>1, <2>1 DEF WorkIsMandated, Mandated, Idle, Works
  <2>2. CASE tab'[t] = Waiting
    BY <2>2 DEF Idle, Works, Working, Waiting
  <2>3. CASE Asks(t)' /\ tab'[t].loaded = session /\ tab'[t].copy = session
    BY <1>1, <2>3 DEF WorkIsMandated, Mandated, Works, Working, Asks, Asking
  <2>4. CASE /\ tab'[t].loaded = session
             /\ tab'[t].copy = session \/ \E x \in Slots : tab'[t].copy = Cleared(x)
             /\ tab'[t].flow \in passed'
    BY <1>1, <2>4 DEF WorkIsMandated, Mandated, Cleared, Session, Slots
  <2>5. CASE /\ Works(t) /\ tab'[t].flow = tab[t].flow /\ tab'[t].loaded = tab[t].loaded
             /\ tab'[t].copy \in {tab[t].copy, [tab[t].copy EXCEPT !["pick"] = tab[t].flow]}
    <3>1. /\ tab[t].copy \in Session /\ Mandated(tab[t].copy) /\ Mandated(tab[t].loaded) /\ tab[t].flow \in passed
      BY <2>5 DEF WorkIsMandated, Works, Working, Idle, Waiting
    <3>. QED BY <1>1, <2>5, <3>1 DEF Mandated, Session, Slots
  <2>6. ASSUME NEW flow \in Flow, ConnectDirectly(t, flow), tab'[t].flow = Len(flows) + 1
        PROVE  tab'[t].flow \in passed'
    BY <2>6, NextFlow DEF ConnectDirectly, MayBegin
  <2>7. ASSUME NEW chosen \in SUBSET Pages, Submit(t, chosen) PROVE session["pick"] \in passed'
    BY <1>1, <2>7 DEF Submit, WorkIsMandated, Mandated
  <2>8. \A f \in DOMAIN flows : flows[f].route \in Slots
    BY FlowOf DEF Slots
  <2>9. "pick" \in Slots
    BY DEF Slots
  <2>. QED BY <1>1, <2>1, <2>2, <2>3, <2>4, <2>5, <2>6, <2>7, <2>8, <2>9, RequestChange
<1>5. TokensAreMandated'
  <2>1. ASSUME NEW h \in Homes, NEW p \in Pages, token'[h][p] # Nobody
        PROVE  flows'[token'[h][p]].home = h /\ token'[h][p] \in passed'
    <3>1. CASE token'[h][p] = token[h][p]
      BY <1>1, <2>1, <3>1 DEF TokensAreMandated, Granted, FlowsHaveBegun
    <3>2. CASE Works(t) /\ token'[h][p] = tab[t].flow /\ h = flows[tab[t].flow].home
      BY <1>1, <3>2 DEF WorkIsMandated, FlowsHaveBegun
    <3>. QED BY <3>1, <3>2, TokenChange
  <2>. QED BY <2>1 DEF TokensAreMandated, Granted
<1>. QED BY <1>2, <1>3, <1>4, <1>5 DEF WorkIsMandated

\* A tab that has a page to note does that or breaks.
LEMMA NotingIsSure ==
  ASSUME ConnectionShape, NEW t \in Tabs, TabStep(t), tab[t].step = "note"
  PROVE  \/ NoteUsage(t) \/ (Break(t) /\ broken' = broken \cup {tab[t].flow})
         \/ tab' = tab
<1>1. ~Idle(t)
  BY DEF Idle, Waiting
<1>. QED BY <1>1 DEF TabStep, Begin, MayBegin, Ask, ConnectDirectly, Return, Decline, Submit, FinishAsking, Exchanges,
                     ExchangeFails, ConnectOne, Break, Answer

LEMMA UsageStep ==
  ASSUME ConnectionShape, FlowsHaveBegun, UsageIsNoted, ConnectionNext, NEW t \in Tabs, TabStep(t)
  PROVE  UsageIsNoted'
<1>1. /\ \A f \in DOMAIN flows : f \in DOMAIN flows' /\ flows'[f] = flows[f]
      /\ usage \subseteq usage' /\ broken \subseteq broken'
  BY FlowsGrow
     DEF TabStep, Begin, Ask, ConnectDirectly, Return, Decline, Submit, FinishAsking, Exchanges,
         ExchangeRest, ExchangeFails, ConnectOne, NoteUsage, Break, Answer, Keeps, Spends, ComposioAnswers
<1>2. ASSUME NEW h \in Homes, NEW p \in Pages, token'[h][p] # Nobody, flows'[token'[h][p]].route = "link"
      PROVE  \/ p \in usage' \/ token'[h][p] \in broken'
             \/ \E v \in Tabs : /\ Works(v)' /\ tab'[v].step = "note" /\ tab'[v].flow = token'[h][p]
                                /\ FirstOf(tab'[v].todo) = p
  <2>1. CASE token'[h][p] = token[h][p]
    <3>1. flows[token[h][p]].route = "link"
      BY <1>1, <1>2, <2>1 DEF FlowsHaveBegun
    <3>2. \/ p \in usage \/ token[h][p] \in broken
          \/ \E v \in Tabs : /\ Works(v) /\ tab[v].step = "note" /\ tab[v].flow = token[h][p]
                             /\ FirstOf(tab[v].todo) = p
      BY <1>2, <2>1, <3>1 DEF UsageIsNoted, Granted
    <3>3. ASSUME NEW v \in Tabs, Works(v), tab[v].step = "note", tab[v].flow = token[h][p],
                 FirstOf(tab[v].todo) = p
          PROVE  \/ p \in usage' \/ token[h][p] \in broken'
                 \/ Works(v)' /\ tab'[v].step = "note" /\ tab'[v].flow = token[h][p] /\ FirstOf(tab'[v].todo) = p
      <4>1. CASE tab'[v] = tab[v]
        BY <3>3, <4>1 DEF Works
      <4>2. CASE v = t
        <5>1. NoteUsage(t) => p \in usage'
          BY <3>3, <4>2 DEF NoteUsage
        <5>. QED BY <3>3, <4>1, <4>2, <5>1, NotingIsSure
      <4>. QED BY <4>1, <4>2, OtherTabs
    <3>. QED BY <1>1, <2>1, <3>2, <3>3
  <2>2. CASE /\ ConnectOne(t) /\ Works(t) /\ token'[h][p] = tab[t].flow
             /\ h = flows[tab[t].flow].home /\ p = FirstOf(tab[t].todo)
    <3>1. flows[tab[t].flow].route = "link" /\ tab[t].todo \in SUBSET Pages
      BY <1>1, <1>2, <2>2 DEF FlowsHaveBegun, Works, Working
    <3>2. Steps(t, "note", tab[t].todo)
      BY <2>2, <3>1 DEF ConnectOne
    <3>3. Works(t)' /\ tab'[t].step = "note" /\ tab'[t].todo = tab[t].todo /\ tab'[t].flow = tab[t].flow
      BY <2>2, <3>1, <3>2, GoesOn
    <3>. QED BY <2>2, <3>3
  <2>. QED BY <2>1, <2>2, TokenChange
<1>. QED BY <1>2 DEF UsageIsNoted, Granted

--------------------------------------------------------------------------------
(* Where a flow is taken from. *)

\* A session is placed for good: flows stay as they are.
LEMMA PlacedStays ==
  ASSUME ConnectionShape, ConnectionNext, NEW s \in Session, Begun(s), Placed(s)
  PROVE  /\ \A r \in Routes : s[r] # Nobody => flows'[s[r]].route = r /\ flows'[s[r]].kind # "direct"
         /\ s["pick"] # Nobody => flows'[s["pick"]].kind = "pages" /\ flows'[s["pick"]].route # "link"
<1>1. \A f \in DOMAIN flows : flows'[f] = flows[f]
  BY FlowsGrow
<1>. QED BY <1>1 DEF Placed, Begun, Slots

LEMMA CopyStays ==
  ASSUME ConnectionShape, ConnectionNext, NEW u \in Tabs, CopyIsDerived(u), tab'[u] = tab[u]
  PROVE  CopyIsDerived(u)'
<1>1. \A f \in DOMAIN flows : f \in DOMAIN flows' /\ flows'[f] = flows[f]
  BY FlowsGrow
<1>. QED BY <1>1 DEF CopyIsDerived

LEMMA PlacesStep ==
  ASSUME ConnectionShape, FlowsHaveBegun, PlacesAreKept, ConnectionNext, NEW t \in Tabs, TabStep(t)
  PROVE  PlacesAreKept'
<1>1. /\ \A f \in DOMAIN flows : f \in DOMAIN flows' /\ flows'[f] = flows[f]
      /\ session \in Session /\ Begun(session) /\ Placed(session)
      /\ \A f \in DOMAIN flows : flows[f].route \in Slots \ {"pick"}
  BY FlowsGrow, FlowOf DEF ConnectionShape, FlowsHaveBegun, PlacesAreKept, Slots, Routes
<1>2. \A u \in Tabs : ~Idle(u) => /\ tab[u].loaded \in Session /\ tab[u].copy \in Session
                                  /\ Begun(tab[u].loaded) /\ Begun(tab[u].copy)
                                  /\ Placed(tab[u].loaded) /\ Placed(tab[u].copy)
  BY TabShape DEF FlowsHaveBegun, PlacesAreKept, Asks, Works, Asking, Working
<1>3. Placed(session)'
  <2>1. CASE \A x \in Slots : session'[x] \in {Nobody, session[x]}
    BY <1>1, <2>1 DEF Placed, Begun, Slots
  <2>2. ASSUME NEW flow \in Askable, NEW s \in Session, Begun(s), Placed(s), session' = [s EXCEPT ![flow.route] = Len(flows')],
               Len(flows) < MaxFlows, flows' = Append(flows, flow)
        PROVE  Placed(session)'
    <3>1. /\ flow \in Flow /\ flow.route \in Routes /\ flow.kind # "direct" /\ flow.route # "pick"
      BY DEF Askable, Flow, Routes
    <3>2. flows'[Len(flows')] = flow
      BY <2>2, <3>1, NextFlow
    <3>3. session'[flow.route] = Len(flows') /\ \A x \in Slots \ {flow.route} : session'[x] = s[x]
      BY <2>2, <3>1 DEF Session, Slots
    <3>4. /\ \A r \in Routes : s[r] # Nobody => flows'[s[r]].route = r /\ flows'[s[r]].kind # "direct"
          /\ s["pick"] # Nobody => flows'[s["pick"]].kind = "pages" /\ flows'[s["pick"]].route # "link"
      BY <2>2, PlacedStays
    <3>5. session'["pick"] = s["pick"] /\ \A r \in Routes \ {flow.route} : session'[r] = s[r]
      BY <3>1, <3>3 DEF Slots, Routes
    <3>. QED BY <3>1, <3>2, <3>3, <3>4, <3>5 DEF Placed
  <2>3. CASE ~Idle(t) /\ session' = tab[t].copy
    BY <1>2, <2>3, PlacedStays DEF Placed
  <2>4. Asks(t) => ~Idle(t)
    BY DEF Asks, Asking, Idle, Waiting
  <2>. QED BY <1>1, <1>2, <2>1, <2>2, <2>3, <2>4, SessionChange
<1>4. ASSUME NEW u \in Tabs, tab'[u] = tab[u]
      PROVE  /\ ~Idle(u)' => Placed(tab[u].loaded)' /\ Placed(tab[u].copy)' /\ CopyIsDerived(u)'
             /\ Works(u)' /\ tab'[u].step = "exchange" =>
                  LET f == tab'[u].flow
                  IN  /\ flows'[f].kind # "direct"
                      /\ tab'[u].loaded[flows'[f].route] = f
                      /\ tab'[u].copy = [tab'[u].loaded EXCEPT ![flows'[f].route] = Nobody]
  <2>1. ~Idle(u) => CopyIsDerived(u)'
    BY <1>4, CopyStays DEF PlacesAreKept
  <2>2. ~Idle(u)' => Placed(tab[u].loaded)' /\ Placed(tab[u].copy)'
    BY <1>2, <1>4, PlacedStays DEF Placed, Idle
  <2>3. Works(u) => tab[u].flow \in DOMAIN flows
    BY DEF FlowsHaveBegun
  <2>. QED BY <1>1, <1>4, <2>1, <2>2, <2>3 DEF PlacesAreKept, Idle, Works
<1>5. ASSUME tab'[t] # tab[t]
      PROVE  /\ ~Idle(t)' => Placed(tab[t].loaded)' /\ Placed(tab[t].copy)' /\ CopyIsDerived(t)'
             /\ Works(t)' /\ tab'[t].step = "exchange" =>
                  LET f == tab'[t].flow
                  IN  /\ flows'[f].kind # "direct"
                      /\ tab'[t].loaded[flows'[f].route] = f
                      /\ tab'[t].copy = [tab'[t].loaded EXCEPT ![flows'[f].route] = Nobody]
  <2>1. CASE tab'[t] = Waiting
    BY <2>1 DEF Idle, Works, Working, Waiting
  <2>2. CASE /\ tab'[t].loaded = session /\ tab'[t].step # "exchange"
             /\ tab'[t].copy = session \/ tab'[t].copy = Cleared("pick")
    <3>1. \A x \in Slots : tab'[t].copy[x] \in {Nobody, session[x]}
      BY <1>1, <2>2 DEF Cleared, Session
    <3>2. CopyIsDerived(t)'
      BY <2>2, <3>1 DEF CopyIsDerived
    <3>3. Placed(tab[t].loaded)'
      BY <1>1, <2>2, PlacedStays DEF Placed
    <3>4. Placed(tab[t].copy)'
      BY <1>1, <2>2, <3>1, PlacedStays DEF Placed, Slots
    <3>. QED BY <2>2, <3>2, <3>3, <3>4
  <2>3. ASSUME NEW f \in DOMAIN flows, tab'[t].loaded = session, tab'[t].step = "exchange", tab'[t].flow = f,
               tab'[t].copy = Cleared(flows[f].route), session[flows[f].route] = f
        PROVE  /\ ~Idle(t)' => Placed(tab[t].loaded)' /\ Placed(tab[t].copy)' /\ CopyIsDerived(t)'
               /\ flows'[f].kind # "direct"
               /\ tab'[t].loaded[flows'[f].route] = f
               /\ tab'[t].copy = [tab'[t].loaded EXCEPT ![flows'[f].route] = Nobody]
    <3>1. \A x \in Slots : tab'[t].copy[x] \in {Nobody, session[x]}
      BY <1>1, <2>3 DEF Cleared, Session
    <3>2. CopyIsDerived(t)'
      BY <2>3, <3>1 DEF CopyIsDerived
    <3>3. Placed(tab[t].loaded)'
      BY <1>1, <2>3, PlacedStays DEF Placed
    <3>4. Placed(tab[t].copy)'
      BY <1>1, <2>3, <3>1, PlacedStays DEF Placed, Slots
    <3>5. flows[f].kind # "direct" /\ flows'[f] = flows[f]
      <4>1. flows[f].route \in Routes /\ f # Nobody
        BY FlowOf
      <4>. QED BY <1>1, <2>3, <4>1 DEF Placed
    <3>. QED BY <2>3, <3>2, <3>3, <3>4, <3>5 DEF Cleared
  <2>4. CASE /\ Works(t) /\ tab'[t].flow = tab[t].flow /\ tab'[t].loaded = tab[t].loaded
             /\ tab'[t].step \in {"connect", "note", "save"} /\ tab'[t].copy = tab[t].copy
    <3>1. ~Idle(t) /\ CopyIsDerived(t)
      BY <2>4 DEF Works, Working, Idle, Waiting, PlacesAreKept
    <3>2. Placed(tab[t].loaded)' /\ Placed(tab[t].copy)'
      BY <1>2, <2>4, <3>1, PlacedStays DEF Placed
    <3>3. CopyIsDerived(t)'
      <4>1. CASE \A x \in Slots : tab[t].copy[x] \in {Nobody, tab[t].loaded[x]}
        BY <2>4, <4>1 DEF CopyIsDerived
      <4>2. CASE tab[t].step = "save"
        <5>1. FALSE \/ tab'[t].step = "save"
          BY <2>4, <4>2, <1>5 DEF TabStep, Begin, Ask, ConnectDirectly, Return, Decline, Submit, FinishAsking, Exchanges,
                     ExchangeFails, ConnectOne, NoteUsage, Break, Answer, MayBegin, Idle, Waiting, Saves, ConnectionShape
        <5>. QED BY <1>1, <2>4, <3>1, <5>1 DEF CopyIsDerived
      <4>. QED BY <3>1, <4>1, <4>2 DEF CopyIsDerived
    <3>. QED BY <2>4, <3>2, <3>3
  <2>5. CASE /\ Works(t) /\ tab'[t].flow = tab[t].flow /\ tab'[t].loaded = tab[t].loaded
             /\ Exchanges(t) /\ Keeps(t) /\ tab'[t].step = "save"
             /\ tab'[t].copy = [tab[t].copy EXCEPT !["pick"] = tab[t].flow]
    <3>. DEFINE f == tab[t].flow
    <3>1. /\ ~Idle(t) /\ f \in DOMAIN flows /\ flows[f].kind = "pages" /\ flows[f].route # "link"
          /\ tab[t].loaded[flows[f].route] = f
          /\ tab[t].copy = [tab[t].loaded EXCEPT ![flows[f].route] = Nobody]
          /\ flows[f].route \in Slots \ {"pick"}
      BY <1>1, <2>5 DEF Works, Working, Idle, Waiting, PlacesAreKept, FlowsHaveBegun, Exchanges, Keeps
    <3>2. /\ tab'[t].copy["pick"] = f /\ tab'[t].copy[flows[f].route] = Nobody
          /\ \A x \in Slots \ {"pick"} : tab'[t].copy[x] = tab[t].copy[x]
          /\ \A x \in Routes : tab'[t].copy[x] \in {Nobody, tab[t].loaded[x]}
      BY <1>2, <2>5, <3>1 DEF Session, Slots, Routes
    <3>3. flows'[f] = flows[f] /\ f \in DOMAIN flows'
      BY <1>1, <3>1
    <3>4. CopyIsDerived(t)'
      BY <2>5, <3>1, <3>2, <3>3 DEF CopyIsDerived
    <3>5. Placed(tab[t].loaded)'
      BY <1>2, <2>5, <3>1, PlacedStays DEF Placed
    <3>6. Placed(tab[t].copy)'
      <4>1. \A r \in Routes : r \in Slots \ {"pick"}
        BY DEF Slots, Routes
      <4>2. \A r \in Routes : tab[t].copy[r] # Nobody => flows'[tab[t].copy[r]].route = r /\ flows'[tab[t].copy[r]].kind # "direct"
        BY <1>2, <3>1, PlacedStays
      <4>. QED BY <3>1, <3>2, <3>3, <4>1, <4>2 DEF Placed
    <3>. QED BY <2>5, <3>4, <3>5, <3>6
  <2>6. "ask" # "exchange" /\ Asks(t)' => tab'[t].step = "ask"
    BY DEF Asks, Asking
  <2>. QED BY <1>5, <2>1, <2>2, <2>3, <2>4, <2>5, <2>6, RequestChange
<1>6. \A u \in Tabs \ {t} : tab'[u] = tab[u]
  BY OtherTabs
<1>. QED BY <1>3, <1>4, <1>5, <1>6 DEF PlacesAreKept

--------------------------------------------------------------------------------
(* Using a flow once. *)

\* A flow does not come back to where it was taken from, unless a session is
\* saved over a newer one; it comes to the choice of pages from its route.
LEMMA NoWayBack ==
  ASSUME ConnectionShape, FlowsHaveBegun, PlacesAreKept, NEW t \in Tabs, TabStep(t), ~overwritten',
         NEW f \in DOMAIN flows
  PROVE  /\ \A x \in Routes : session'[x] = f => session[x] = f
         /\ session'["pick"] = f =>
              session["pick"] = f \/ (session[flows[f].route] = f /\ session'[flows[f].route] # f)
<1>1. /\ session \in Session /\ f # Nobody /\ flows[f].route \in Routes
      /\ \A r \in Routes : r \in Slots /\ r # "pick"
      /\ "pick" \in Slots /\ f \in FlowIds
  BY FlowOf DEF ConnectionShape, Slots, Routes
<1>2. CASE \A x \in Slots : session'[x] \in {Nobody, session[x]}
  BY <1>1, <1>2
<1>3. ASSUME NEW flow \in Askable, session' = [session EXCEPT ![flow.route] = Len(flows')],
             Len(flows) < MaxFlows, flows' = Append(flows, flow)
      PROVE  \A x \in Slots : session'[x] = f => session[x] = f
  <2>1. Len(flows') # f
    BY <1>3, NextFlow DEF Askable
  <2>. QED BY <1>1, <1>3, <2>1 DEF Session
<1>4. CASE ~Idle(t) /\ session' = tab[t].copy /\ overwritten' = (overwritten \/ session # tab[t].loaded)
  <2>1. CopyIsDerived(t) /\ session = tab[t].loaded
    BY <1>4 DEF PlacesAreKept
  <2>. QED BY <1>1, <1>4, <2>1 DEF CopyIsDerived
<1>5. CASE /\ Asks(t) /\ session' = [tab[t].copy EXCEPT ![tab[t].flow.route] = Len(flows')]
           /\ Len(flows) < MaxFlows /\ flows' = Append(flows, tab[t].flow) /\ tab[t].flow \in Askable
           /\ overwritten' = (overwritten \/ session # tab[t].loaded)
  <2>1. /\ CopyIsDerived(t) /\ session = tab[t].loaded /\ tab[t].step = "ask" /\ tab[t].copy \in Session
    <3>1. tab[t].step = "ask" /\ tab[t].copy \in Session /\ ~Idle(t)
      BY <1>5 DEF Asks, Asking, Idle, Waiting
    <3>. QED BY <1>5, <3>1 DEF PlacesAreKept
  <2>2. \A x \in Slots : tab[t].copy[x] \in {Nobody, session[x]}
    BY <2>1 DEF CopyIsDerived
  <2>3. Len(flows') # f
    BY <1>5, NextFlow DEF Askable
  <2>4. \A x \in Slots : session'[x] = f => session[x] = f
    BY <1>1, <1>5, <2>1, <2>2, <2>3 DEF Session
  <2>. QED BY <1>1, <2>4
<1>. QED BY <1>1, <1>2, <1>3, <1>4, <1>5, SessionChange

\* What a step uses.
LEMMA UseChange ==
  ASSUME ConnectionShape, FlowsHaveBegun, PlacesAreKept, UseIsOnce, NEW t \in Tabs, TabStep(t)
  PROVE  \/ used' = used /\ reused' = reused
         \/ \E f : /\ used' = used \cup {f} /\ reused' = reused /\ f \notin used
                   /\ \/ f = Len(flows) + 1 /\ ConnectDirectly(t, flows'[f]) /\ flows'[f].route # "composio"
                         /\ f \in DOMAIN flows'
                      \/ f \in DOMAIN flows /\ ~Repeatable(f) /\ f \in spent'
         \/ \E f \in DOMAIN flows :
              /\ Uses(f) /\ Repeatable(f) /\ Works(t)' /\ session' = session /\ overwritten' = overwritten
              /\ tab'[t].step = "connect" /\ tab'[t].flow = f /\ tab'[t].loaded[Place(f)] = f
              /\ tab'[t].copy[Place(f)] # f /\ t \notin Takers(f) /\ broken' = broken /\ flows' = flows
              /\ Place(f) = "pick" => session["pick"] = f
<1>1. ASSUME NEW flow \in Flow, flow.route # "composio", ConnectDirectly(t, flow)
      PROVE  LET f == Len(flows) + 1
             IN  /\ used' = used \cup {f} /\ reused' = reused /\ f \notin used
                 /\ ConnectDirectly(t, flows'[f]) /\ flows'[f].route # "composio" /\ f \in DOMAIN flows'
  <2>1. /\ Len(flows') = Len(flows) + 1 /\ flows'[Len(flows')] = flow /\ Len(flows') \notin DOMAIN flows
        /\ Len(flows') \in DOMAIN flows'
    BY <1>1, NextFlow DEF ConnectDirectly, MayBegin
  <2>. QED BY <1>1, <2>1 DEF ConnectDirectly, Uses, ConnectionShape
<1>2. ASSUME NEW chosen \in SUBSET Pages, Submit(t, chosen), chosen # {}
      PROVE  LET f == session["pick"]
             IN  /\ f \in DOMAIN flows /\ Uses(f) /\ Repeatable(f) /\ Works(t)' /\ session' = session
                 /\ overwritten' = overwritten /\ broken' = broken /\ flows' = flows
                 /\ tab'[t].step = "connect" /\ tab'[t].flow = f /\ tab'[t].loaded[Place(f)] = f
                 /\ tab'[t].copy[Place(f)] # f /\ t \notin Takers(f)
  <2>. DEFINE f == session["pick"]
  <2>1. /\ f \in DOMAIN flows /\ f # Nobody /\ session \in Session /\ Idle(t)
        /\ flows[f].kind = "pages" /\ flows[f].route # "link" /\ flows[f].route \in Routes
    BY <1>2, FlowOf DEF Submit, FlowsHaveBegun, Begun, Slots, PlacesAreKept, Placed, ConnectionShape
  <2>2. Repeatable(f) /\ Place(f) = "pick"
    BY <2>1 DEF Repeatable, Place, Routes
  <2>3. Cleared("pick")["pick"] = Nobody
    BY <2>1 DEF Cleared, Session, Slots
  <2>4. t \notin Takers(f)
    BY <2>1 DEF Takers, Idle, Waiting, Works, Working
  <2>5. /\ Works(t)' /\ tab'[t].flow = f /\ tab'[t].loaded = session /\ tab'[t].copy = Cleared("pick")
    BY <1>2, TabChange
  <2>6. tab'[t].step = "connect"
    BY <1>2 DEF Submit, ConnectionShape
  <2>. QED BY <1>2, <2>1, <2>2, <2>3, <2>4, <2>5, <2>6 DEF Submit
<1>3. ASSUME Exchanges(t)
      PROVE  \/ used' = used /\ reused' = reused
             \/ LET f == tab[t].flow
                IN  /\ f \in DOMAIN flows /\ used' = used \cup {f} /\ reused' = reused /\ f \notin used
                    /\ ~Repeatable(f) /\ f \in spent'
             \/ LET f == tab[t].flow
                IN  /\ f \in DOMAIN flows /\ Uses(f) /\ Repeatable(f) /\ Works(t)' /\ session' = session
                    /\ overwritten' = overwritten /\ broken' = broken /\ flows' = flows
                    /\ tab'[t].step = "connect" /\ tab'[t].flow = f /\ tab'[t].loaded[Place(f)] = f
                    /\ tab'[t].copy[Place(f)] # f /\ t \notin Takers(f) /\ Place(f) # "pick"
  <2>. DEFINE f == tab[t].flow
  <2>1. /\ Works(t) /\ tab[t].step = "exchange" /\ f \in DOMAIN flows /\ flows[f].kind # "direct"
        /\ tab[t].loaded[flows[f].route] = f
        /\ tab[t].copy = [tab[t].loaded EXCEPT ![flows[f].route] = Nobody]
        /\ flows[f].route \in Routes /\ f # Nobody /\ tab[t].loaded \in Session
    <3>1. Works(t) /\ tab[t].step = "exchange"
      BY <1>3, WorkShape DEF Exchanges
    <3>2. f \in DOMAIN flows
      BY <3>1 DEF FlowsHaveBegun
    <3>. QED BY <3>1, <3>2, FlowOf DEF PlacesAreKept, Works, Working
  <2>2. CASE Keeps(t)
    BY <2>2 DEF Keeps, KeepsPages
  <2>3. CASE Spends(t)
    <3>1. ~Repeatable(f) /\ f \notin spent /\ f \in spent' /\ Uses(f)
      BY <2>3 DEF Spends, ConnectsAll
    <3>2. f \notin used
      BY <2>1, <3>1 DEF UseIsOnce
    <3>. QED BY <2>1, <3>1, <3>2 DEF Uses
  <2>4. CASE ComposioAnswers(t) /\ ~Keeps(t)
    <3>1. Repeatable(f) /\ Place(f) = "composio" /\ flows[f].route = "composio" /\ Uses(f)
      BY <2>4 DEF ComposioAnswers, Repeatable, Place, ConnectsAll
    <3>2. t \notin Takers(f)
      BY <2>1 DEF Takers
    <3>3. /\ Works(t)' /\ tab'[t].flow = f /\ tab'[t].loaded = tab[t].loaded /\ tab'[t].copy = tab[t].copy
          /\ session' = session /\ overwritten' = overwritten /\ broken' = broken /\ flows' = flows
      BY <1>3, <2>4, WorkShape
    <3>4. tab[t].copy["composio"] = Nobody
      BY <2>1, <3>1 DEF Session, Slots, Routes
    <3>5. tab'[t].step = "connect"
      <4>1. \E todo \in SUBSET Pages : Steps(t, "connect", todo)
        BY <2>4 DEF ComposioAnswers, ConnectsAll
      <4>. QED BY <2>1, <4>1, GoesOn
    <3>. QED BY <2>1, <3>1, <3>2, <3>3, <3>4, <3>5
  <2>. QED BY <1>3, <2>2, <2>3, <2>4 DEF Exchanges
<1>4. CASE /\ \A flow \in Flow : ~ConnectDirectly(t, flow)
           /\ \A chosen \in SUBSET Pages : Submit(t, chosen) => chosen = {}
           /\ ~Exchanges(t)
  BY <1>4 DEF TabStep, Begin, Ask, Return, Decline, Submit, FinishAsking, ExchangeFails, ConnectOne, NoteUsage,
              Break, Answer
<1>5. CASE \E flow \in Flow : ConnectDirectly(t, flow)
  <2>1. \E flow \in Flow : flow.route # "composio" /\ ConnectDirectly(t, flow)
    <3>1. PICK flow \in Flow : ConnectDirectly(t, flow)
      BY <1>5
    <3>2. Idle(t) /\ tab'[t].step = "connect" /\ flows' # flows
      <4>1. tab'[t].step = "connect"
        BY <3>1, TabChange
      <4>2. Len(flows') # Len(flows)
        BY <3>1, NextFlow DEF ConnectDirectly, MayBegin
      <4>. QED BY <3>1, <4>1, <4>2 DEF ConnectDirectly, MayBegin
    <3>. QED BY <3>2
         DEF TabStep, Begin, Ask, Return, Decline, Submit, FinishAsking, ExchangeFails, ConnectOne, NoteUsage,
             Break, Answer, Exchanges, Idle, Waiting
  <2>. QED BY <1>1, <2>1
<1>6. CASE Exchanges(t)
  BY <1>3, <1>6
<1>7. CASE \E chosen \in SUBSET Pages : Submit(t, chosen) /\ chosen # {}
  BY <1>2, <1>7
<1>. QED BY <1>4, <1>5, <1>6, <1>7

\* A tab that uses a flow goes on with it, breaks, or takes it from its place.
LEMMA TakersStay ==
  ASSUME ConnectionShape, FlowsHaveBegun, ConnectionNext, NEW t \in Tabs, TabStep(t), ~overwritten',
         NEW f \in DOMAIN flows, f \notin broken', NEW u \in Takers(f)
  PROVE  \/ u \in Takers(f)'
         \/ u = t /\ session[Place(f)] = f /\ session'[Place(f)] # f
<1>1. f \in DOMAIN flows' /\ flows'[f] = flows[f]
  BY FlowsGrow
<1>2. Place(f)' = Place(f)
  BY <1>1 DEF Place
<1>3. /\ Works(u) /\ tab[u].step \in {"connect", "note", "save"} /\ tab[u].flow = f
      /\ tab[u].loaded[Place(f)] = f /\ tab[u].copy[Place(f)] # f /\ u \in Tabs
  BY DEF Takers
<1>4. CASE tab'[u] = tab[u]
  BY <1>2, <1>3, <1>4 DEF Takers, Works
<1>5. CASE u = t /\ Answer(t)
  <2>1. session' = tab[t].copy /\ session = tab[t].loaded
    BY <1>5 DEF Answer, Saves
  <2>. QED BY <1>3, <1>5, <2>1
<1>6. CASE /\ u = t /\ Works(t)' /\ tab'[t].flow = tab[t].flow /\ tab'[t].loaded = tab[t].loaded
           /\ tab'[t].step \in {"connect", "note", "save"} /\ tab'[t].copy = tab[t].copy
  BY <1>2, <1>3, <1>6 DEF Takers
<1>7. CASE u = t /\ ~Answer(t) /\ tab'[t] # tab[t]
  <2>1. ~Break(t)
    BY <1>3, <1>7 DEF Break
  <2>2. ~Idle(t) /\ tab[t].step \notin {"ask", "exchange"}
    BY <1>3, <1>7 DEF Idle, Waiting
  <2>3. ConnectOne(t) \/ NoteUsage(t)
    BY <1>7, <2>1, <2>2
       DEF TabStep, Begin, MayBegin, Ask, ConnectDirectly, Return, Decline, Submit, FinishAsking, Exchanges, ExchangeFails
  <2>4. tab[t].step # "exchange"
    BY <2>2
  <2>. QED BY <1>6, <1>7, <2>3, <2>4, WorkShape
<1>8. u # t => tab'[u] = tab[u]
  BY <1>3, OtherTabs
<1>. QED BY <1>4, <1>5, <1>7, <1>8

LEMMA UseStep ==
  ASSUME ConnectionShape, FlowsHaveBegun, PlacesAreKept, UseIsOnce, ConnectionNext, NEW t \in Tabs, TabStep(t)
  PROVE  UseIsOnce'
<1>1. /\ \A f \in DOMAIN flows : f \in DOMAIN flows' /\ flows'[f] = flows[f] /\ f # Nobody
      /\ used \cup reused \subseteq DOMAIN flows /\ spent \subseteq spent' /\ broken \subseteq broken'
      /\ overwritten => overwritten'
  BY FlowsGrow, FlowOf
     DEF ConnectionShape, TabStep, Begin, Ask, ConnectDirectly, Return, Decline, Submit, FinishAsking, Saves, Exchanges,
         ExchangeRest, ExchangeFails, ConnectOne, NoteUsage, Break, Answer, Keeps, Spends, ComposioAnswers
<1>2. \A f \in DOMAIN flows : /\ Repeatable(f)' = Repeatable(f) /\ Place(f)' = Place(f)
                              /\ Place(f) \in {"pick", "composio"} /\ flows[f].route \in Routes
  BY <1>1, FlowOf DEF Repeatable, Place
<1>3. \A f \in used' \ used : \/ f \in DOMAIN flows
                              \/ f \in DOMAIN flows' /\ flows'[f].kind = "direct" /\ flows'[f].route # "composio"
  BY UseChange DEF Uses, ConnectDirectly
<1>4. \A f \in used' : Repeatable(f)' \/ f \in spent' \/ flows'[f].kind = "direct"
  <2>1. \A f \in used : Repeatable(f)' \/ f \in spent' \/ flows'[f].kind = "direct"
    BY <1>1, <1>2 DEF UseIsOnce
  <2>. QED BY <1>1, <1>2, <2>1, UseChange DEF Uses, ConnectDirectly
<1>5. \A f \in reused' : f \in used' /\ Repeatable(f)'
  <2>1. \A f \in reused : f \in used /\ Repeatable(f)'
    BY <1>1, <1>2 DEF UseIsOnce
  <2>. QED BY <1>1, <1>2, <2>1, UseChange DEF Uses
<1>6. ASSUME ~overwritten', session'["pick"] # Nobody
      PROVE  session'[flows'[session'["pick"]].route] # session'["pick"]
  <2>. DEFINE f == session'["pick"]
  <2>1. f \in DOMAIN flows
    <3>1. "pick" \in Slots
      BY DEF Slots
    <3>2. CASE \A x \in Slots : session'[x] \in {Nobody, session[x]}
      BY <1>6, <3>1, <3>2 DEF FlowsHaveBegun, Begun
    <3>3. ASSUME NEW flow \in Askable, session' = [session EXCEPT ![flow.route] = Len(flows')] PROVE f \in DOMAIN flows
      BY <1>6, <3>1, <3>3 DEF Askable, Flow, Routes, FlowsHaveBegun, Begun, ConnectionShape, Session
    <3>4. CASE ~Idle(t) /\ session' = tab[t].copy
      BY <1>6, <3>1, <3>4 DEF FlowsHaveBegun, Begun
    <3>5. CASE Asks(t) /\ session' = [tab[t].copy EXCEPT ![tab[t].flow.route] = Len(flows')] /\ tab[t].flow \in Askable
      BY <1>6, <3>1, <3>5 DEF Asks, Asking, Askable, Flow, Routes, FlowsHaveBegun, Begun, Idle, Waiting, Session
    <3>. QED BY <3>2, <3>3, <3>4, <3>5, SessionChange
  <2>2. CASE session["pick"] = f
    <3>1. session[flows[f].route] # f
      BY <1>1, <1>6, <2>1, <2>2 DEF UseIsOnce
    <3>. QED BY <1>1, <1>2, <1>6, <2>1, <3>1, NoWayBack
  <2>. QED BY <1>1, <1>6, <2>1, <2>2, NoWayBack
<1>7. ASSUME ~overwritten', NEW f \in used, Repeatable(f)
      PROVE  /\ Place(f) = "pick" => session'[flows[f].route] # f
             /\ f \notin broken' /\ session'[Place(f)] = f => Takers(f)' # {}
  <2>1. /\ ~overwritten /\ f \in DOMAIN flows
        /\ Place(f) = "pick" => session[flows[f].route] # f
        /\ f \notin broken /\ session[Place(f)] = f => Takers(f) # {}
    BY <1>1, <1>7 DEF UseIsOnce
  <2>2. Place(f) = "pick" => session'[flows[f].route] # f
    BY <1>2, <1>7, <2>1, NoWayBack
  <2>3. ASSUME f \notin broken', session'[Place(f)] = f PROVE Takers(f)' # {}
    <3>1. session[Place(f)] = f
      BY <1>2, <1>7, <2>1, <2>3, NoWayBack DEF Routes
    <3>2. PICK u \in Takers(f) : TRUE
      BY <1>1, <2>1, <2>3, <3>1
    <3>. QED BY <1>7, <2>1, <2>3, <3>2, TakersStay
  <2>. QED BY <2>2, <2>3
<1>8. ASSUME ~overwritten', NEW f \in reused \ broken'
      PROVE  \/ session'[Place(f)] # f /\ Takers(f)' # {}
             \/ \E v, u \in Takers(f)' : v # u
  <2>1. /\ ~overwritten /\ f \in DOMAIN flows /\ f \notin broken' /\ Repeatable(f) /\ f \in used
        /\ \/ session[Place(f)] # f /\ Takers(f) # {}
           \/ \E v, u \in Takers(f) : v # u
    BY <1>1, <1>8 DEF UseIsOnce
  <2>2. session[Place(f)] # f => session'[Place(f)] # f
    BY <1>2, <1>7, <1>8, <2>1, NoWayBack DEF Routes, UseIsOnce
  <2>3. \A u \in Takers(f) : u \in Takers(f)' \/ (u = t /\ session[Place(f)] = f /\ session'[Place(f)] # f)
    BY <1>8, <2>1, TakersStay
  <2>. QED BY <2>1, <2>2, <2>3
<1>9. ASSUME ~overwritten', NEW f \in DOMAIN flows, Uses(f), Repeatable(f), Works(t)', session' = session,
             tab'[t].step = "connect", tab'[t].flow = f, tab'[t].loaded[Place(f)] = f,
             tab'[t].copy[Place(f)] # f, t \notin Takers(f), broken' = broken,
             Place(f) = "pick" => session["pick"] = f
      PROVE  /\ t \in Takers(f)'
             /\ Place(f) = "pick" => session'[flows[f].route] # f
             /\ f \in reused' \ broken' => \/ session'[Place(f)] # f /\ Takers(f)' # {}
                                           \/ \E v, u \in Takers(f)' : v # u
  <2>1. t \in Takers(f)'
    BY <1>2, <1>9 DEF Takers
  <2>2. Place(f) = "pick" => session'[flows[f].route] # f
    BY <1>1, <1>9 DEF UseIsOnce
  <2>3. ASSUME f \in reused' \ broken', f \notin reused, session'[Place(f)] = f
        PROVE  \E v, u \in Takers(f)' : v # u
    <3>1. f \in used /\ f \notin broken /\ session[Place(f)] = f
      BY <1>9, <2>3 DEF Uses
    <3>2. PICK u \in Takers(f) : TRUE
      BY <1>1, <1>9, <3>1 DEF UseIsOnce
    <3>3. u # t /\ u \in Takers(f)'
      BY <1>9, <3>1, <3>2, TakersStay
    <3>. QED BY <2>1, <3>3
  <2>. QED BY <1>8, <1>9, <2>1, <2>2, <2>3
<1>10. ASSUME ~overwritten'
       PROVE  /\ \A f \in used' : Repeatable(f)' =>
                   /\ Place(f)' = "pick" => session'[flows'[f].route] # f
                   /\ f \notin broken' /\ session'[Place(f)'] = f => Takers(f)' # {}
              /\ \A f \in reused' \ broken' :
                   \/ session'[Place(f)'] # f /\ Takers(f)' # {}
                   \/ \E v, u \in Takers(f)' : v # u
  <2>1. \A f \in used : Repeatable(f)' =>
          /\ Place(f)' = "pick" => session'[flows'[f].route] # f
          /\ f \notin broken' /\ session'[Place(f)'] = f => Takers(f)' # {}
    BY <1>1, <1>2, <1>7, <1>10
  <2>2. \A f \in reused \ broken' : \/ session'[Place(f)'] # f /\ Takers(f)' # {}
                                    \/ \E v, u \in Takers(f)' : v # u
    BY <1>1, <1>2, <1>8, <1>10
  <2>3. CASE used' = used /\ reused' = reused
    BY <2>1, <2>2, <2>3
  <2>4. ASSUME NEW f, used' = used \cup {f}, reused' = reused, ~Repeatable(f)'
        PROVE  \A g \in used' : Repeatable(g)' => g \in used
    BY <2>4
  <2>5. ASSUME NEW f \in DOMAIN flows, Uses(f), Repeatable(f), Works(t)', session' = session,
               tab'[t].step = "connect", tab'[t].flow = f, tab'[t].loaded[Place(f)] = f,
               tab'[t].copy[Place(f)] # f, t \notin Takers(f), broken' = broken,
               Place(f) = "pick" => session["pick"] = f
        PROVE  /\ \A g \in used' : Repeatable(g)' =>
                    /\ Place(g)' = "pick" => session'[flows'[g].route] # g
                    /\ g \notin broken' /\ session'[Place(g)'] = g => Takers(g)' # {}
               /\ \A g \in reused' \ broken' :
                    \/ session'[Place(g)'] # g /\ Takers(g)' # {}
                    \/ \E v, u \in Takers(g)' : v # u
    <3>1. /\ t \in Takers(f)'
          /\ Place(f) = "pick" => session'[flows[f].route] # f
          /\ f \in reused' \ broken' => \/ session'[Place(f)] # f /\ Takers(f)' # {}
                                        \/ \E v, u \in Takers(f)' : v # u
      BY <1>9, <1>10, <2>5
    <3>2. used' = used \cup {f} /\ reused' \subseteq reused \cup {f}
      BY <2>5 DEF Uses
    <3>3. flows'[f] = flows[f] /\ Place(f)' = Place(f)
      BY <1>1, <1>2
    <3>. QED BY <2>1, <2>2, <3>1, <3>2, <3>3
  <2>6. ASSUME NEW f, used' = used \cup {f}, reused' = reused,
               \/ ConnectDirectly(t, flows'[f]) /\ flows'[f].route # "composio"
               \/ f \in DOMAIN flows /\ ~Repeatable(f)
        PROVE  ~Repeatable(f)'
    BY <1>2, <2>6 DEF Repeatable, ConnectDirectly
  <2>. QED BY <2>1, <2>2, <2>3, <2>4, <2>5, <2>6, UseChange
<1>. QED BY <1>4, <1>5, <1>6, <1>10 DEF UseIsOnce

--------------------------------------------------------------------------------
LEMMA ConnectionStart == ConnectionInit => ConnectionInv
<1>. SUFFICES ASSUME ConnectionInit PROVE ConnectionInv
  OBVIOUS
<1>1. ConnectionShape
  <2>1. flows \in Seq(Flow) /\ Len(flows) <= MaxFlows
    BY ConnectionAssumption DEF ConnectionInit
  <2>2. session \in Session /\ token \in [Homes -> [Pages -> FlowIds \cup {Nobody}]]
    BY DEF ConnectionInit, Session
  <2>3. spent \cup passed \cup broken \cup used \cup reused = {}
    BY DEF ConnectionInit
  <2>. QED BY <2>1, <2>2, <2>3 DEF ConnectionInit, ConnectionShape
<1>2. DOMAIN flows = {} /\ \A t \in Tabs : Idle(t) /\ ~Works(t) /\ ~Asks(t)
  BY DEF ConnectionInit, Idle, Works, Working, Asks, Asking, Waiting
<1>3. FlowsHaveBegun /\ WorkIsMandated /\ TokensAreMandated /\ UsageIsNoted
  BY <1>2 DEF ConnectionInit, FlowsHaveBegun, Begun, WorkIsMandated, Mandated, TokensAreMandated, UsageIsNoted, Granted,
              Slots
<1>4. PlacesAreKept /\ UseIsOnce
  BY <1>2 DEF ConnectionInit, PlacesAreKept, Placed, UseIsOnce, Slots, Routes
<1>. QED BY <1>1, <1>3, <1>4 DEF ConnectionInv

LEMMA ConnectionStep == ConnectionInv /\ [ConnectionNext]_connectionVars => ConnectionInv'
<1>. SUFFICES ASSUME ConnectionInv, [ConnectionNext]_connectionVars PROVE ConnectionInv'
  OBVIOUS
<1>. USE DEF ConnectionInv
<1>1. ConnectionShape'
  BY ConnectionShapeStep
<1>2. ASSUME UNCHANGED <<session, flows, spent, token, usage, tab, passed, used, reused, broken, overwritten>>
      PROVE  ConnectionInv'
  <2>1. FlowsHaveBegun' /\ WorkIsMandated'
    BY <1>2 DEF FlowsHaveBegun, Begun, WorkIsMandated, Mandated, Idle, Works
  <2>2. TokensAreMandated' /\ UsageIsNoted'
    BY <1>2 DEF TokensAreMandated, UsageIsNoted, Granted, Works
  <2>3. PlacesAreKept'
    BY <1>2 DEF PlacesAreKept, Placed, CopyIsDerived, Idle, Works
  <2>4. \A f : Takers(f)' = Takers(f) /\ Repeatable(f)' = Repeatable(f) /\ Place(f)' = Place(f)
    BY <1>2 DEF Takers, Works, Repeatable, Place
  <2>5. UseIsOnce'
    BY <1>2, <2>4 DEF UseIsOnce
  <2>. QED BY <1>1, <2>1, <2>2, <2>3, <2>5
<1>3. CASE UNCHANGED connectionVars
  BY <1>2, <1>3 DEF connectionVars
<1>4. CASE \E m \in {"member", "link"} : Withdraw(m)
  BY <1>2, <1>4 DEF Withdraw
<1>5. ASSUME ConnectionNext, NEW t \in Tabs, TabStep(t) PROVE ConnectionInv'
  BY <1>1, <1>5, BegunStep, MandateStep, UsageStep, PlacesStep, UseStep
<1>. QED BY <1>3, <1>4, <1>5, TabSteps

LEMMA ConnectionsHonest == ConnectionInv => ConnectionsAreHonest
<1>. SUFFICES ASSUME ConnectionInv PROVE ConnectionsAreHonest
  OBVIOUS
<1>1. ConnectionTypeOK
  BY DEF ConnectionInv, ConnectionShape, ConnectionTypeOK, Asking, Working
<1>2. UsageIsComplete
  <2>1. (\A t \in Tabs : Idle(t)) => \A t \in Tabs : ~Works(t)
    BY DEF Idle, Works, Working, Waiting
  <2>. QED BY <2>1 DEF ConnectionInv, UsageIsNoted, UsageIsComplete
<1>3. UsedOnce
  <2>1. ASSUME \A t \in Tabs : Idle(t), NEW f PROVE Takers(f) = {}
    BY <2>1 DEF Takers, Idle, Works, Working, Waiting
  <2>. QED BY <2>1 DEF ConnectionInv, UseIsOnce, UsedOnce
<1>. QED BY <1>1, <1>2, <1>3 DEF ConnectionsAreHonest, ConnectionInv

\* An account is connected where its dialogue began, under a mandate that stood
\* when the dialogue came back; a link counts what it connected; and, while no
\* session is saved over a newer one, an authorisation is used once.
THEOREM ConnectionsStayHonest == ConnectionSpec => []ConnectionsAreHonest
<1>1. ConnectionInit => ConnectionInv
  BY ConnectionStart
<1>2. ConnectionInv /\ [ConnectionNext]_connectionVars => ConnectionInv'
  BY ConnectionStep
<1>3. ConnectionInv => ConnectionsAreHonest
  BY ConnectionsHonest
<1>. QED BY <1>1, <1>2, <1>3, PTL DEF ConnectionSpec

---------------------------------------------------------------------------------
(* Subscriptions. *)

Reports == {"on", "off", "regrant"}
RowShape == [pk : Nat, grant : Nat, status : CardStatus,
             active : Verdicts, regrant : BOOLEAN, count : Nat]
CopyShape == [pk : Nat, grant : Nat, count : Nat, retry : BOOLEAN]
CallerShape == [step : {"health", "call"} \cup Reports, copy : CopyShape]
LeaveShape == [step : {"look", "unsubscribe", "delete"}, seen : SUBSET Workspaces]

\* The invariant, in parts.  What the variables are.
SubscriptionShape ==
  /\ card \in [Workspaces -> RowShape \cup {NoCard}]
  /\ caller \in [Workspaces -> [Callers -> CallerShape \cup {NotCalling}]]
  /\ leaver \in [Workspaces -> LeaveShape \cup {NotLeaving}]
  /\ tries \in [Workspaces -> Nat]
  /\ subscribed \in BOOLEAN /\ loose \in BOOLEAN
  /\ overlapped \subseteq Workspaces /\ misled \subseteq Workspaces /\ slipped \subseteq Workspaces
  /\ connects \in 0 .. MaxConnects
  /\ able \subseteq 1 .. connects
  /\ toSubscribe \subseteq [of : Workspaces, pk : 1 .. connects, grant : 1 .. connects]

\* Rows, and the copies of rows, have names and grants that were given out: the
\* next connection's are new.
NamesAreGiven ==
  /\ \A w \in Workspaces :
       card[w] # NoCard => card[w].pk \in 1 .. connects /\ card[w].grant \in 1 .. connects
  /\ \A w \in Workspaces, c \in Callers :
       caller[w][c] # NotCalling =>
         caller[w][c].copy.pk \in 1 .. connects /\ caller[w][c].copy.grant \in 1 .. connects

\* Checks count up to the budget, and each task that was started adds one.
CountsAreBounded ==
  /\ IsFiniteSet(toSubscribe) /\ Cardinality(toSubscribe) <= connects
  /\ \A w \in Workspaces :
       card[w] # NoCard => card[w].count <= Budget + connects - Cardinality(toSubscribe)
  /\ \A w \in Workspaces :
       /\ caller[w]["task"] # NotCalling =>
            caller[w]["task"].copy.count < Budget + connects - Cardinality(toSubscribe)
       /\ caller[w]["press"] # NotCalling => caller[w]["press"].copy.count = 0
       /\ caller[w]["check"] # NotCalling =>
            caller[w]["check"].copy.count <= Budget + connects - Cardinality(toSubscribe)

\* A health check calls only while the row it copied has some budget left.
ChecksHaveBudget ==
  \A w \in Workspaces :
    caller[w]["check"] # NotCalling =>
      \/ caller[w]["check"].copy.count < Budget
      \/ caller[w]["check"].step = "health" /\ ~caller[w]["check"].copy.retry

\* Who heard that the page is subscribed was right, unless silenced since.
HeardOn(w) ==
  \/ card[w].active = "on"
  \/ \E c \in Callers : caller[w][c].step = "on" /\ caller[w][c].copy.pk = card[w].pk
SilenceIsNoted ==
  /\ \A w \in Workspaces :
       card[w] # NoCard /\ leaver[w] = NotLeaving /\ HeardOn(w) => subscribed \/ w \in slipped
  /\ \A w \in Workspaces : leaver[w].step = "unsubscribe" => leaver[w].seen = {}

\* A subscription has an account that will see to it when it leaves.
SomebodyAnswers ==
  subscribed /\ ~loose => \E w \in Workspaces : card[w] # NoCard /\ leaver[w].step # "delete"

\* The calls of the health check are in the row's count, or will be.
Reported(w) ==
  caller[w]["check"].step \in Reports /\ card[w] # NoCard /\ caller[w]["check"].copy.pk = card[w].pk
RetriesAreCharged ==
  \A w \in Workspaces :
    /\ card[w] = NoCard => tries[w] = 0
    /\ w \notin overlapped =>
         /\ tries[w] <= Budget
         /\ card[w] # NoCard /\ ~Reported(w) => tries[w] <= card[w].count
         /\ Reported(w) => tries[w] <= caller[w]["check"].copy.count + 1
         /\ caller[w]["check"].step \in {"health", "call"} => tries[w] <= caller[w]["check"].copy.count

\* The word that a grant does not reach is of that grant.
RegrantsAreOfGrants ==
  /\ RegrantIsTrue
  /\ \A w \in Workspaces, c \in Callers :
       caller[w][c].step = "regrant" /\ UpToDate(w, caller[w][c].copy)
         => caller[w][c].copy.grant \notin able \/ w \in misled

SubscriptionInv ==
  /\ SubscriptionShape /\ NamesAreGiven /\ CountsAreBounded /\ ChecksHaveBudget
  /\ SilenceIsNoted /\ SomebodyAnswers /\ RetriesAreCharged /\ RegrantsAreOfGrants

-----------------------------------------------------------------------------
(* What a step leaves alone, and what it does to the one it is of. *)

\* A caller's step is its own.
LEMMA TakesOne ==
  ASSUME SubscriptionShape, NEW w \in Workspaces, NEW c \in Callers,
         NEW s \in {"health", "call"} \cup Reports, NEW copy \in CopyShape,
         Takes(w, c, s, copy)
  PROVE  /\ caller' \in [Workspaces -> [Callers -> CallerShape \cup {NotCalling}]]
         /\ caller'[w][c] = [step |-> s, copy |-> copy]
         /\ \A d \in Callers : d # c => caller'[w][d] = caller[w][d]
         /\ \A v \in Workspaces : v # w => caller'[v] = caller[v]
<1>1. [step |-> s, copy |-> copy] \in CallerShape
  BY DEF CallerShape
<1>2. caller \in [Workspaces -> [Callers -> CallerShape \cup {NotCalling}]]
  BY DEF SubscriptionShape
<1>3. caller' = [caller EXCEPT ![w][c] = [step |-> s, copy |-> copy]]
  BY DEF Takes
<1> QED  BY <1>1, <1>2, <1>3

LEMMA EndsOne ==
  ASSUME SubscriptionShape, NEW w \in Workspaces, NEW c \in Callers, Ends(w, c)
  PROVE  /\ caller' \in [Workspaces -> [Callers -> CallerShape \cup {NotCalling}]]
         /\ caller'[w][c] = NotCalling
         /\ \A d \in Callers : d # c => caller'[w][d] = caller[w][d]
         /\ \A v \in Workspaces : v # w => caller'[v] = caller[v]
<1>1. caller \in [Workspaces -> [Callers -> CallerShape \cup {NotCalling}]]
  BY DEF SubscriptionShape
<1>2. caller' = [caller EXCEPT ![w][c] = NotCalling]
  BY DEF Ends
<1> QED  BY <1>1, <1>2

\* The copy of a row.
LEMMA CopyOfRow ==
  ASSUME NEW r \in RowShape, NEW retry \in BOOLEAN
  PROVE  /\ Copied(r, retry) \in CopyShape
         /\ Copied(r, retry).pk = r.pk /\ Copied(r, retry).grant = r.grant
         /\ Copied(r, retry).count = r.count /\ Copied(r, retry).retry = retry
BY DEF Copied, CopyShape, RowShape

\* A row is there, or is none; a caller has a copy, or is idle; one who leaves
\* is at a step, or is not leaving.
LEMMA Shapes ==
  ASSUME SubscriptionShape
  PROVE  /\ NoCard \notin RowShape
         /\ \A w \in Workspaces : card[w] # NoCard => card[w] \in RowShape
         /\ \A w \in Workspaces, c \in Callers :
              /\ caller[w][c] # NotCalling => caller[w][c] \in CallerShape
              /\ caller[w][c].step # "idle" => caller[w][c] \in CallerShape
         /\ \A w \in Workspaces :
              /\ leaver[w] # NotLeaving => leaver[w] \in LeaveShape
              /\ leaver[w].step # "idle" => leaver[w] \in LeaveShape
         /\ NotCalling.step = "idle" /\ NotLeaving.step = "idle"
         /\ \A x \in CallerShape : x.step \in {"health", "call"} \cup Reports /\ x.copy \in CopyShape /\ x # NotCalling
         /\ \A x \in LeaveShape : x.step \in {"look", "unsubscribe", "delete"} /\ x # NotLeaving
<1>1. NoCard \notin RowShape
  BY DEF NoCard, RowShape, CardStatus
<1>2. NotCalling.step = "idle" /\ NotLeaving.step = "idle"
  BY DEF NotCalling, NotLeaving
<1>3. \A x \in CallerShape : x.step \in {"health", "call"} \cup Reports /\ x.copy \in CopyShape /\ x # NotCalling
  BY <1>2 DEF CallerShape, Reports
<1>4. \A x \in LeaveShape : x.step \in {"look", "unsubscribe", "delete"} /\ x # NotLeaving
  BY <1>2 DEF LeaveShape
<1>5. \A w \in Workspaces : card[w] \in RowShape \cup {NoCard}
  BY DEF SubscriptionShape
<1>6. \A w \in Workspaces, c \in Callers : caller[w][c] \in CallerShape \cup {NotCalling}
  BY DEF SubscriptionShape
<1>7. \A w \in Workspaces : leaver[w] \in LeaveShape \cup {NotLeaving}
  BY DEF SubscriptionShape
<1> QED  BY <1>1, <1>2, <1>3, <1>4, <1>5, <1>6, <1>7

LEMMA Numbers ==
  /\ Budget \in Nat \ {0} /\ MaxConnects \in Nat \ {0} /\ MaxBusy \in Nat \ {0}
  /\ Callers = {"task", "check", "press"}
BY SubscriptionAssumption DEF Callers

-----------------------------------------------------------------------------
(* Connections. *)

\* A connected row is new or has a new grant: copies of before are not of it.
LEMMA ConnectKeeps ==
  ASSUME SubscriptionInv, NEW w \in Workspaces, Connect(w)
  PROVE  SubscriptionInv'
<1> USE DEF SubscriptionInv
<1> DEFINE pk == IF card[w] = NoCard THEN connects' ELSE card[w].pk
           fresh == [pk |-> pk, grant |-> connects', status |-> "connected",
                     active |-> "none", regrant |-> FALSE, count |-> 0]
           task == [of |-> w, pk |-> pk, grant |-> connects']
<1>1. connects \in Nat /\ connects' = connects + 1 /\ connects' \in 0 .. MaxConnects
  BY Numbers DEF Connect, SubscriptionShape
<1>2. pk \in 1 .. connects'
  BY <1>1 DEF NamesAreGiven
<1>3. fresh \in RowShape
  BY <1>1, <1>2 DEF RowShape, CardStatus, Verdicts
<1>4. task \in [of : Workspaces, pk : 1 .. connects', grant : 1 .. connects']
  BY <1>1, <1>2
<1>5. /\ card' = [card EXCEPT ![w] = fresh]
      /\ toSubscribe' = toSubscribe \cup {task}
      /\ tries' = [tries EXCEPT ![w] = 0]
      /\ able' \in {able, able \cup {connects'}}
      /\ overlapped' = overlapped \ {w} /\ misled' = misled \ {w}
      /\ UNCHANGED <<caller, subscribed, leaver, slipped, loose>>
  BY DEF Connect
<1>a. fresh.pk = pk /\ fresh.grant = connects' /\ fresh.active = "none" /\ ~fresh.regrant /\ fresh.count = 0
  OBVIOUS
<1> HIDE DEF fresh, task, pk
<1>6. card' \in [Workspaces -> RowShape \cup {NoCard}] /\ card'[w] = fresh /\ card'[w] # NoCard
      /\ \A v \in Workspaces : v # w => card'[v] = card[v]
  BY <1>3, <1>5, Shapes DEF SubscriptionShape
<1>7. tries' \in [Workspaces -> Nat] /\ tries'[w] = 0 /\ \A v \in Workspaces : v # w => tries'[v] = tries[v]
  BY <1>5 DEF SubscriptionShape
<1>8. SubscriptionShape'
  <2>1. able' \subseteq 1 .. connects'
    BY <1>1, <1>5 DEF SubscriptionShape
  <2>2. toSubscribe' \subseteq [of : Workspaces, pk : 1 .. connects', grant : 1 .. connects']
    BY <1>1, <1>4, <1>5 DEF SubscriptionShape
  <2> QED  BY <1>1, <1>5, <1>6, <1>7, <2>1, <2>2 DEF SubscriptionShape
<1>9. NamesAreGiven'
  BY <1>1, <1>2, <1>5, <1>6, <1>a DEF NamesAreGiven
<1>10. CountsAreBounded'
  <2>0. IsFiniteSet(toSubscribe)
    BY DEF CountsAreBounded
  <2>a. Cardinality(toSubscribe) \in Nat
    BY <2>0, FS_CardinalityType
  <2>b. /\ IsFiniteSet(toSubscribe \cup {task})
        /\ \/ Cardinality(toSubscribe \cup {task}) = Cardinality(toSubscribe)
           \/ Cardinality(toSubscribe \cup {task}) = Cardinality(toSubscribe) + 1
    BY <2>0, FS_AddElement
  <2>1. IsFiniteSet(toSubscribe') /\ Cardinality(toSubscribe') <= Cardinality(toSubscribe) + 1
        /\ Cardinality(toSubscribe) \in Nat
    BY <1>5, <2>a, <2>b
  <2>2. Cardinality(toSubscribe') \in Nat
    BY <2>1, FS_CardinalityType
  <2>5. Cardinality(toSubscribe) <= connects
    BY DEF CountsAreBounded
  <2>6. /\ Cardinality(toSubscribe') <= connects'
        /\ Budget + connects - Cardinality(toSubscribe) <= Budget + connects' - Cardinality(toSubscribe')
        /\ Budget + connects - Cardinality(toSubscribe) \in Int
        /\ Budget + connects' - Cardinality(toSubscribe') \in Int
    BY <1>1, <2>1, <2>2, <2>5, Numbers
  <2>3. \A v \in Workspaces :
          card'[v] # NoCard => card'[v].count <= Budget + connects' - Cardinality(toSubscribe')
    BY <1>1, <1>5, <1>6, <1>a, <2>1, <2>2, Numbers, Shapes DEF CountsAreBounded, RowShape
  <2>4. \A v \in Workspaces, c \in Callers :
          caller[v][c] # NotCalling => caller[v][c].copy.count \in Nat
    BY Shapes DEF CopyShape
  <2>7. ASSUME NEW v \in Workspaces
        PROVE  /\ caller'[v]["task"] # NotCalling =>
                    caller'[v]["task"].copy.count < Budget + connects' - Cardinality(toSubscribe')
               /\ caller'[v]["press"] # NotCalling => caller'[v]["press"].copy.count = 0
               /\ caller'[v]["check"] # NotCalling =>
                    caller'[v]["check"].copy.count <= Budget + connects' - Cardinality(toSubscribe')
    BY <1>5, <2>4, <2>6, Numbers DEF CountsAreBounded
  <2> QED  BY <2>1, <2>3, <2>6, <2>7 DEF CountsAreBounded
<1>11. ChecksHaveBudget'
  BY <1>5 DEF ChecksHaveBudget
<1>12. SilenceIsNoted'
  <2>1. ASSUME NEW v \in Workspaces, card'[v] # NoCard, leaver'[v] = NotLeaving, HeardOn(v)'
        PROVE  subscribed' \/ v \in slipped'
    <3>1. CASE v # w
      BY <1>5, <1>6, <2>1, <3>1 DEF SilenceIsNoted, HeardOn
    <3>2. CASE v = w
      <4>1. PICK c \in Callers : caller[w][c].step = "on" /\ caller[w][c].copy.pk = pk
        BY <1>5, <1>6, <1>a, <2>1, <3>2 DEF HeardOn
      <4>2. caller[w][c].copy.pk \in 1 .. connects
        BY <4>1, Shapes DEF NamesAreGiven
      <4>3. card[w] # NoCard /\ pk = card[w].pk
        BY <1>1, <4>1, <4>2 DEF pk
      <4> QED  BY <1>5, <2>1, <3>2, <4>1, <4>3 DEF SilenceIsNoted, HeardOn
    <3> QED  BY <3>1, <3>2
  <2> QED  BY <1>5, <2>1 DEF SilenceIsNoted
<1>13. SomebodyAnswers'
  BY <1>5, <1>6 DEF SomebodyAnswers
<1>14. RetriesAreCharged'
  <2>1. \A v \in Workspaces : v # w =>
          card'[v] = card[v] /\ tries'[v] = tries[v] /\ caller'[v] = caller[v]
          /\ (v \in overlapped' <=> v \in overlapped)
    BY <1>5, <1>6, <1>7
  <2>2. "check" \in Callers
    BY Numbers
  <2>3. caller'[w]["check"] # NotCalling => caller'[w]["check"].copy.count \in Nat
    BY <1>5, <2>2, Shapes DEF CopyShape
  <2>4. caller'[w]["check"].step \in {"health", "call"} \cup Reports => caller'[w]["check"] # NotCalling
    BY Shapes DEF Reports
  <2>5. 0 <= Budget
    BY Numbers
  <2> QED  BY <1>6, <1>7, <1>a, <2>1, <2>3, <2>4, <2>5 DEF RetriesAreCharged, Reported
<1>15. RegrantsAreOfGrants'
  <2>1. \A v \in Workspaces : card'[v] # NoCard /\ card'[v].regrant => card'[v].grant \notin able' \/ v \in misled'
    BY <1>1, <1>5, <1>6, <1>a DEF RegrantsAreOfGrants, RegrantIsTrue, NamesAreGiven
  <2>2. ASSUME NEW v \in Workspaces, NEW c \in Callers, caller'[v][c].step = "regrant",
               UpToDate(v, caller[v][c].copy)'
        PROVE  caller'[v][c].copy.grant \notin able' \/ v \in misled'
    <3>1. caller[v][c].copy.grant \in 1 .. connects
      BY <1>5, <2>2, Shapes DEF NamesAreGiven
    <3>2. v # w
      BY <1>1, <1>5, <1>6, <1>a, <2>2, <3>1 DEF UpToDate
    <3> QED  BY <1>1, <1>5, <1>6, <2>2, <3>1, <3>2 DEF RegrantsAreOfGrants, UpToDate, Same
  <2> QED  BY <1>5, <2>1, <2>2 DEF RegrantsAreOfGrants, RegrantIsTrue
<1> QED  BY <1>8, <1>9, <1>10, <1>11, <1>12, <1>13, <1>14, <1>15

-----------------------------------------------------------------------------
(* Calls: what begins or ends without a verdict. *)

\* A caller that has no verdict, over a row that keeps its own.
LEMMA QuietKeeps ==
  ASSUME SubscriptionShape, NamesAreGiven, SilenceIsNoted, SomebodyAnswers,
         NEW w \in Workspaces, NEW c \in Callers,
         \/ caller'[w][c] = NotCalling
         \/ /\ caller'[w][c].step \in {"health", "call"}
            /\ caller'[w][c].copy.pk \in 1 .. connects /\ caller'[w][c].copy.grant \in 1 .. connects,
         \A d \in Callers : d # c => caller'[w][d] = caller[w][d],
         \A v \in Workspaces : v # w => caller'[v] = caller[v],
         \A v \in Workspaces :
           /\ card[v] = NoCard <=> card'[v] = NoCard
           /\ card'[v].pk = card[v].pk /\ card'[v].active = card[v].active
           /\ card'[v] # NoCard => card'[v].grant \in 1 .. connects,
         UNCHANGED <<connects, subscribed, leaver, slipped, loose>>
  PROVE  NamesAreGiven' /\ SilenceIsNoted' /\ SomebodyAnswers'
<1>1. caller'[w][c].step # "on"
  BY Shapes
<1>2. NamesAreGiven'
  BY DEF NamesAreGiven
<1>3. \A v \in Workspaces : HeardOn(v)' => HeardOn(v)
  BY <1>1 DEF HeardOn
<1>4. SilenceIsNoted'
  BY <1>3 DEF SilenceIsNoted
<1>5. SomebodyAnswers'
  BY DEF SomebodyAnswers
<1> QED  BY <1>2, <1>4, <1>5

LEMMA QuietGrants ==
  ASSUME SubscriptionShape, RegrantsAreOfGrants,
         NEW w \in Workspaces, NEW c \in Callers,
         caller'[w][c].step # "regrant",
         \A d \in Callers : d # c => caller'[w][d] = caller[w][d],
         \A v \in Workspaces : v # w => caller'[v] = caller[v],
         \A v \in Workspaces :
           /\ card[v] = NoCard <=> card'[v] = NoCard
           /\ card'[v].pk = card[v].pk /\ card'[v].grant = card[v].grant
           /\ card'[v].regrant = card[v].regrant,
         UNCHANGED <<able, misled>>
  PROVE  RegrantsAreOfGrants'
BY DEF RegrantsAreOfGrants, RegrantIsTrue, UpToDate, Same

\* A task that is taken off its queue.
LEMMA StartTaskKeeps ==
  ASSUME SubscriptionInv, NEW w \in Workspaces, StartTask(w)
  PROVE  SubscriptionInv'
<1> USE DEF SubscriptionInv
<1>0. "task" \in Callers /\ "check" \in Callers /\ "press" \in Callers
  BY Numbers
<1>1. PICK t \in toSubscribe :
        /\ toSubscribe' = toSubscribe \ {t}
        /\ IF Same(w, t) THEN Takes(w, "task", "call", Copied(card[w], FALSE)) ELSE UNCHANGED caller
  BY DEF StartTask
<1>2. UNCHANGED <<card, connects, able, tries, overlapped, subscribed, leaver, misled, slipped, loose>>
  BY DEF StartTask
<1>3. /\ IsFiniteSet(toSubscribe') /\ Cardinality(toSubscribe') = Cardinality(toSubscribe) - 1
      /\ Cardinality(toSubscribe) \in Nat /\ Cardinality(toSubscribe') \in Nat
  <2>1. IsFiniteSet(toSubscribe)
    BY DEF CountsAreBounded
  <2>2. Cardinality(toSubscribe) \in Nat
    BY <2>1, FS_CardinalityType
  <2>3. IsFiniteSet(toSubscribe \ {t}) /\ Cardinality(toSubscribe \ {t}) = Cardinality(toSubscribe) - 1
    BY <1>1, <2>1, FS_RemoveElement
  <2>4. Cardinality(toSubscribe') \in Nat
    BY <1>1, <2>3, FS_CardinalityType
  <2> QED  BY <1>1, <2>2, <2>3, <2>4
<1>4. Cardinality(toSubscribe) <= connects /\ connects \in Nat
  BY DEF CountsAreBounded, SubscriptionShape
<1>5. toSubscribe' \subseteq toSubscribe
  BY <1>1
<1>6. \A v \in Workspaces, c \in Callers :
        caller[v][c] # NotCalling => caller[v][c].copy.count \in Nat
  BY Shapes DEF CopyShape
<1>7. \A v \in Workspaces : card[v] # NoCard => card[v].count \in Nat
  BY Shapes DEF RowShape
<1>8. CASE Same(w, t)
  <2>1. card[w] # NoCard /\ card[w] \in RowShape
    BY <1>8, Shapes DEF Same
  <2> DEFINE copy == Copied(card[w], FALSE)
  <2>2. /\ copy \in CopyShape /\ copy.pk = card[w].pk /\ copy.grant = card[w].grant
        /\ copy.count = card[w].count
    BY <2>1, CopyOfRow
  <2> HIDE DEF copy
  <2>3. /\ caller' \in [Workspaces -> [Callers -> CallerShape \cup {NotCalling}]]
        /\ caller'[w]["task"] = [step |-> "call", copy |-> copy]
        /\ \A d \in Callers : d # "task" => caller'[w][d] = caller[w][d]
        /\ \A v \in Workspaces : v # w => caller'[v] = caller[v]
    <3>1. Takes(w, "task", "call", copy)
      BY <1>1, <1>8 DEF copy
    <3> QED  BY <1>0, <2>2, <3>1, TakesOne
  <2>4. caller'[w]["task"].step = "call" /\ caller'[w]["task"].copy = copy
    BY <2>3
  <2>5. SubscriptionShape'
    BY <1>2, <1>5, <2>3 DEF SubscriptionShape
  <2>6. copy.pk \in 1 .. connects /\ copy.grant \in 1 .. connects
    BY <2>1, <2>2 DEF NamesAreGiven
  <2>7. NamesAreGiven' /\ SilenceIsNoted' /\ SomebodyAnswers'
    <3>1. \A v \in Workspaces : card[v] # NoCard => card[v].grant \in 1 .. connects
      BY DEF NamesAreGiven
    <3> QED  BY <1>0, <1>2, <2>3, <2>4, <2>6, <3>1, QuietKeeps
  <2>8. RegrantsAreOfGrants'
    BY <1>0, <1>2, <2>3, <2>4, QuietGrants
  <2>9. CountsAreBounded'
    <3>1. ASSUME NEW v \in Workspaces
          PROVE  /\ card'[v] # NoCard => card'[v].count <= Budget + connects' - Cardinality(toSubscribe')
                 /\ caller'[v]["task"] # NotCalling =>
                      caller'[v]["task"].copy.count < Budget + connects' - Cardinality(toSubscribe')
                 /\ caller'[v]["press"] # NotCalling => caller'[v]["press"].copy.count = 0
                 /\ caller'[v]["check"] # NotCalling =>
                      caller'[v]["check"].copy.count <= Budget + connects' - Cardinality(toSubscribe')
      <4>1. card[v] # NoCard => card[v].count <= Budget + connects - Cardinality(toSubscribe)
        BY DEF CountsAreBounded
      <4>2. CASE v # w
        BY <1>0, <1>2, <1>3, <1>4, <1>6, <1>7, <2>3, <4>1, <4>2, Numbers DEF CountsAreBounded
      <4>3. CASE v = w
        BY <1>0, <1>2, <1>3, <1>4, <1>6, <1>7, <2>1, <2>2, <2>3, <2>4, <4>1, <4>3, Numbers DEF CountsAreBounded
      <4> QED  BY <4>2, <4>3
    <3> QED  BY <1>2, <1>3, <1>4, <3>1 DEF CountsAreBounded
  <2>10. \A v \in Workspaces : caller'[v]["check"] = caller[v]["check"]
    BY <1>0, <2>3
  <2>11. ChecksHaveBudget' /\ RetriesAreCharged'
    BY <1>2, <2>10 DEF ChecksHaveBudget, RetriesAreCharged, Reported
  <2> QED  BY <2>5, <2>7, <2>8, <2>9, <2>11
<1>9. CASE ~Same(w, t)
  <2>1. UNCHANGED caller
    BY <1>1, <1>9
  <2>2. SubscriptionShape'
    BY <1>2, <1>5, <2>1 DEF SubscriptionShape
  <2>3. CountsAreBounded'
    <3>1. ASSUME NEW v \in Workspaces
          PROVE  /\ card'[v] # NoCard => card'[v].count <= Budget + connects' - Cardinality(toSubscribe')
                 /\ caller'[v]["task"] # NotCalling =>
                      caller'[v]["task"].copy.count < Budget + connects' - Cardinality(toSubscribe')
                 /\ caller'[v]["press"] # NotCalling => caller'[v]["press"].copy.count = 0
                 /\ caller'[v]["check"] # NotCalling =>
                      caller'[v]["check"].copy.count <= Budget + connects' - Cardinality(toSubscribe')
      BY <1>0, <1>2, <1>3, <1>4, <1>6, <1>7, <2>1, Numbers DEF CountsAreBounded
    <3> QED  BY <1>2, <1>3, <1>4, <3>1 DEF CountsAreBounded
  <2>4. NamesAreGiven' /\ ChecksHaveBudget' /\ SilenceIsNoted'
    BY <1>2, <2>1 DEF NamesAreGiven, ChecksHaveBudget, SilenceIsNoted, HeardOn
  <2>5. SomebodyAnswers' /\ RetriesAreCharged' /\ RegrantsAreOfGrants'
    BY <1>2, <2>1 DEF SomebodyAnswers, RetriesAreCharged, Reported, RegrantsAreOfGrants, RegrantIsTrue, UpToDate, Same
  <2> QED  BY <2>2, <2>3, <2>4, <2>5
<1> QED  BY <1>8, <1>9

\* What may be counted, with the tasks that were started.
Limit == Budget + connects - Cardinality(toSubscribe)

LEMMA CountsKept ==
  ASSUME CountsAreBounded, NEW w \in Workspaces,
         UNCHANGED <<connects, toSubscribe>>,
         \A v \in Workspaces : v # w => card'[v] = card[v] /\ caller'[v] = caller[v],
         card'[w] # NoCard => card'[w].count <= Limit,
         caller'[w]["task"] # NotCalling => caller'[w]["task"].copy.count < Limit,
         caller'[w]["press"] # NotCalling => caller'[w]["press"].copy.count = 0,
         caller'[w]["check"] # NotCalling => caller'[w]["check"].copy.count <= Limit
  PROVE  CountsAreBounded'
BY DEF CountsAreBounded, Limit

LEMMA LimitIs ==
  ASSUME SubscriptionInv
  PROVE  /\ Limit \in Int /\ Budget <= Limit
         /\ \A w \in Workspaces :
              /\ card[w] # NoCard => card[w].count <= Limit /\ card[w].count \in Nat
              /\ caller[w]["task"] # NotCalling => caller[w]["task"].copy.count < Limit
              /\ caller[w]["press"] # NotCalling => caller[w]["press"].copy.count = 0
              /\ caller[w]["check"] # NotCalling => caller[w]["check"].copy.count <= Limit
         /\ \A w \in Workspaces, c \in Callers :
              caller[w][c] # NotCalling => caller[w][c].copy.count \in Nat
<1>1. IsFiniteSet(toSubscribe) /\ Cardinality(toSubscribe) <= connects /\ connects \in Nat
  BY DEF SubscriptionInv, CountsAreBounded, SubscriptionShape
<1>2. Cardinality(toSubscribe) \in Nat
  BY <1>1, FS_CardinalityType
<1>3. Limit \in Int /\ Budget <= Limit
  BY <1>1, <1>2, Numbers DEF Limit
<1>4. \A w \in Workspaces :
        /\ card[w] # NoCard => card[w].count <= Limit
        /\ caller[w]["task"] # NotCalling => caller[w]["task"].copy.count < Limit
        /\ caller[w]["press"] # NotCalling => caller[w]["press"].copy.count = 0
        /\ caller[w]["check"] # NotCalling => caller[w]["check"].copy.count <= Limit
  BY DEF SubscriptionInv, CountsAreBounded, Limit
<1>5. \A w \in Workspaces, c \in Callers :
        caller[w][c] # NotCalling => caller[w][c].copy.count \in Nat
  BY Shapes DEF CopyShape, SubscriptionInv
<1>6. \A w \in Workspaces : card[w] # NoCard => card[w].count \in Nat
  BY Shapes DEF RowShape, SubscriptionInv
<1> QED  BY <1>3, <1>4, <1>5, <1>6

LEMMA StartCheckKeeps ==
  ASSUME SubscriptionInv, NEW w \in Workspaces, StartCheck(w)
  PROVE  SubscriptionInv'
<1> USE DEF SubscriptionInv
<1>0. "task" \in Callers /\ "check" \in Callers /\ "press" \in Callers
  BY Numbers
<1>1. card[w] # NoCard /\ card[w] \in RowShape
  BY Shapes DEF StartCheck, NoCard
<1> DEFINE copy == Copied(card[w], Retryable(card[w]))
<1>2. /\ copy \in CopyShape /\ copy.pk = card[w].pk /\ copy.grant = card[w].grant
      /\ copy.count = card[w].count /\ copy.retry = Retryable(card[w])
  <2>1. Retryable(card[w]) \in BOOLEAN
    BY <1>1 DEF Retryable
  <2> QED  BY <1>1, <2>1, CopyOfRow
<1>3. /\ Takes(w, "check", "health", copy) /\ caller[w]["check"] = NotCalling
      /\ UNCHANGED <<card, connects, able, toSubscribe, tries, overlapped, subscribed, leaver, misled, slipped, loose>>
  BY DEF StartCheck, cardVars
<1> HIDE DEF copy
<1>4. /\ caller' \in [Workspaces -> [Callers -> CallerShape \cup {NotCalling}]]
      /\ caller'[w]["check"] = [step |-> "health", copy |-> copy]
      /\ \A d \in Callers : d # "check" => caller'[w][d] = caller[w][d]
      /\ \A v \in Workspaces : v # w => caller'[v] = caller[v]
  BY <1>0, <1>2, <1>3, TakesOne
<1>5. caller'[w]["check"].step = "health" /\ caller'[w]["check"].copy = copy
  BY <1>4
<1>6. SubscriptionShape'
  BY <1>3, <1>4 DEF SubscriptionShape
<1>7. NamesAreGiven' /\ SilenceIsNoted' /\ SomebodyAnswers'
  <2>1. \A v \in Workspaces : card[v] # NoCard => card[v].grant \in 1 .. connects
    BY DEF NamesAreGiven
  <2>2. copy.pk \in 1 .. connects /\ copy.grant \in 1 .. connects
    BY <1>1, <1>2 DEF NamesAreGiven
  <2> QED  BY <1>0, <1>3, <1>4, <1>5, <2>1, <2>2, QuietKeeps
<1>8. RegrantsAreOfGrants'
  BY <1>0, <1>3, <1>4, <1>5, QuietGrants
<1>9. CountsAreBounded'
  BY <1>0, <1>1, <1>2, <1>3, <1>4, <1>5, LimitIs, CountsKept
<1>10. ChecksHaveBudget'
  BY <1>0, <1>2, <1>3, <1>4, <1>5 DEF ChecksHaveBudget, Retryable
<1>11. RetriesAreCharged'
  <2>1. ~Reported(w) /\ ~Reported(w)'
    BY <1>3, <1>5, Shapes DEF Reported, Reports
  <2>2. \A v \in Workspaces : v # w => caller'[v]["check"] = caller[v]["check"] /\ (Reported(v)' <=> Reported(v))
    BY <1>3, <1>4 DEF Reported
  <2> QED  BY <1>1, <1>2, <1>3, <1>5, <2>1, <2>2 DEF RetriesAreCharged
<1> QED  BY <1>6, <1>7, <1>8, <1>9, <1>10, <1>11

\* A person's retry gives the row its whole budget back.
LEMMA PressKeeps ==
  ASSUME SubscriptionInv, NEW w \in Workspaces, Press(w)
  PROVE  SubscriptionInv'
<1> USE DEF SubscriptionInv
<1>0. "task" \in Callers /\ "check" \in Callers /\ "press" \in Callers
  BY Numbers
<1>1. card[w] # NoCard /\ card[w] \in RowShape
  BY Shapes DEF Press, NoCard
<1> DEFINE row == [card[w] EXCEPT !.count = 0]
           copy == Copied(row, FALSE)
<1>2. /\ row \in RowShape /\ row.pk = card[w].pk /\ row.grant = card[w].grant
      /\ row.active = card[w].active /\ row.regrant = card[w].regrant /\ row.count = 0
  <2>1. row \in RowShape
    BY <1>1 DEF RowShape
  <2> QED  BY <1>1, <2>1 DEF RowShape
<1>3. /\ card' = [card EXCEPT ![w] = row]
      /\ caller[w]["press"] = NotCalling
      /\ Takes(w, "press", "call", Copied(card'[w], FALSE))
      /\ tries' = [tries EXCEPT ![w] = 0]
      /\ UNCHANGED <<connects, able, toSubscribe, overlapped, subscribed, leaver, misled, slipped, loose>>
  BY DEF Press
<1> HIDE DEF row
<1>4. /\ card' \in [Workspaces -> RowShape \cup {NoCard}] /\ card'[w] = row /\ card'[w] # NoCard
      /\ \A v \in Workspaces : v # w => card'[v] = card[v]
  BY <1>2, <1>3, Shapes DEF SubscriptionShape
<1>5. /\ copy \in CopyShape /\ copy.pk = card[w].pk /\ copy.grant = card[w].grant /\ copy.count = 0
  BY <1>2, CopyOfRow
<1>6. Takes(w, "press", "call", copy)
  BY <1>3, <1>4
<1> HIDE DEF copy
<1>7. /\ caller' \in [Workspaces -> [Callers -> CallerShape \cup {NotCalling}]]
      /\ caller'[w]["press"] = [step |-> "call", copy |-> copy]
      /\ \A d \in Callers : d # "press" => caller'[w][d] = caller[w][d]
      /\ \A v \in Workspaces : v # w => caller'[v] = caller[v]
  BY <1>0, <1>5, <1>6, TakesOne
<1>8. caller'[w]["press"].step = "call" /\ caller'[w]["press"].copy = copy
  BY <1>7
<1>9. tries' \in [Workspaces -> Nat] /\ tries'[w] = 0 /\ \A v \in Workspaces : v # w => tries'[v] = tries[v]
  BY <1>3 DEF SubscriptionShape
<1>10. SubscriptionShape'
  BY <1>3, <1>4, <1>7, <1>9 DEF SubscriptionShape
<1>11. \A v \in Workspaces :
         /\ card[v] = NoCard <=> card'[v] = NoCard
         /\ card'[v].pk = card[v].pk /\ card'[v].active = card[v].active
         /\ card'[v].grant = card[v].grant /\ card'[v].regrant = card[v].regrant
  BY <1>1, <1>2, <1>4
<1>12. NamesAreGiven' /\ SilenceIsNoted' /\ SomebodyAnswers'
  <2>1. \A v \in Workspaces : card'[v] # NoCard => card'[v].grant \in 1 .. connects
    BY <1>11 DEF NamesAreGiven
  <2>2. copy.pk \in 1 .. connects /\ copy.grant \in 1 .. connects
    BY <1>1, <1>5 DEF NamesAreGiven
  <2> QED  BY <1>0, <1>3, <1>7, <1>8, <1>11, <2>1, <2>2, QuietKeeps
<1>13. RegrantsAreOfGrants'
  BY <1>0, <1>3, <1>7, <1>8, <1>11, QuietGrants
<1>14. CountsAreBounded'
  BY <1>0, <1>2, <1>3, <1>4, <1>5, <1>7, <1>8, LimitIs, CountsKept, Numbers
<1>15. \A v \in Workspaces : caller'[v]["check"] = caller[v]["check"]
  BY <1>0, <1>7
<1>16. ChecksHaveBudget'
  BY <1>15 DEF ChecksHaveBudget
<1>17. RetriesAreCharged'
  <2>1. \A v \in Workspaces : Reported(v)' <=> Reported(v)
    BY <1>11, <1>15 DEF Reported
  <2>2. caller[w]["check"].step \in {"health", "call"} \cup Reports => caller[w]["check"].copy.count \in Nat
    BY <1>0, Shapes DEF CopyShape, Reports
  <2>3. Reported(w) => caller[w]["check"].copy.count \in Nat
    BY <2>2 DEF Reported
  <2> QED  BY <1>2, <1>3, <1>4, <1>9, <1>15, <2>1, <2>2, <2>3, Numbers DEF RetriesAreCharged
<1> QED  BY <1>10, <1>12, <1>13, <1>14, <1>16, <1>17

\* The check's save, of an older grant perhaps, and whether it goes on to call.
LEMMA CheckHealthKeeps ==
  ASSUME SubscriptionInv, NEW w \in Workspaces, CheckHealth(w)
  PROVE  SubscriptionInv'
<1> USE DEF SubscriptionInv
<1> DEFINE copy == caller[w]["check"].copy
           again == [copy EXCEPT !.retry = FALSE]
<1>0. "task" \in Callers /\ "check" \in Callers /\ "press" \in Callers
  BY Numbers
<1>1. caller[w]["check"] # NotCalling /\ caller[w]["check"].step = "health" /\ copy \in CopyShape
  BY <1>0, Shapes DEF CheckHealth, IsAt
<1>2. /\ again \in CopyShape /\ again.pk = copy.pk /\ again.grant = copy.grant
      /\ again.count = copy.count
  BY <1>1 DEF CopyShape
<1>3. UNCHANGED <<connects, able, toSubscribe, tries, overlapped, subscribed, leaver, slipped, loose>>
  BY DEF CheckHealth
<1>4. \/ Ends(w, "check")
      \/ copy.retry /\ Takes(w, "check", "call", again)
  BY DEF CheckHealth
<1>5. /\ \/ misled' = misled
         \/ misled' = misled \cup {w} /\ ~UpToDate(w, copy)
      /\ \/ card' = card /\ misled' = misled
         \/ /\ Same(w, copy) /\ (UpToDate(w, copy) \/ w \in misled')
            /\ \E s \in CardStatus : card' = [card EXCEPT ![w].status = s, ![w].grant = copy.grant]
  BY DEF CheckHealth
<1>6. copy.pk \in 1 .. connects /\ copy.grant \in 1 .. connects
  BY <1>0, <1>1 DEF NamesAreGiven
<1> HIDE DEF copy, again
<1>7. /\ caller' \in [Workspaces -> [Callers -> CallerShape \cup {NotCalling}]]
      /\ \A d \in Callers : d # "check" => caller'[w][d] = caller[w][d]
      /\ \A v \in Workspaces : v # w => caller'[v] = caller[v]
      /\ \/ caller'[w]["check"] = NotCalling
         \/ /\ caller'[w]["check"].step = "call" /\ caller'[w]["check"].copy = again
            /\ copy.retry
  <2>1. CASE Ends(w, "check")
    BY <1>0, <2>1, EndsOne
  <2>2. CASE copy.retry /\ Takes(w, "check", "call", again)
    <3>1. caller'[w]["check"] = [step |-> "call", copy |-> again]
      BY <1>0, <1>2, <2>2, TakesOne
    <3>2. caller'[w]["check"].step = "call" /\ caller'[w]["check"].copy = again
      BY <3>1
    <3> QED  BY <1>0, <1>2, <2>2, <3>2, TakesOne
  <2> QED  BY <1>4, <2>1, <2>2
<1>8. /\ card' \in [Workspaces -> RowShape \cup {NoCard}]
      /\ \A v \in Workspaces : v # w => card'[v] = card[v]
      /\ card'[w] = NoCard <=> card[w] = NoCard
      /\ card'[w].pk = card[w].pk /\ card'[w].active = card[w].active
      /\ card'[w].regrant = card[w].regrant /\ card'[w].count = card[w].count
      /\ \/ card'[w].grant = card[w].grant
         \/ card'[w].grant = copy.grant /\ (UpToDate(w, copy) \/ w \in misled')
  <2>1. CASE card' = card
    BY <2>1 DEF SubscriptionShape
  <2>2. ASSUME Same(w, copy), UpToDate(w, copy) \/ w \in misled', NEW s \in CardStatus,
               card' = [card EXCEPT ![w].status = s, ![w].grant = copy.grant]
        PROVE  <1>8!:
    <3> DEFINE row == [card[w] EXCEPT !.status = s, !.grant = copy.grant]
    <3>1. card[w] # NoCard /\ card[w] \in RowShape
      BY <2>2, Shapes DEF Same
    <3>2. copy.grant \in Nat
      BY <1>1 DEF CopyShape
    <3>3. /\ row \in RowShape /\ row.pk = card[w].pk /\ row.active = card[w].active
          /\ row.regrant = card[w].regrant /\ row.count = card[w].count /\ row.grant = copy.grant
      BY <3>1, <3>2 DEF RowShape
    <3>4. card' = [card EXCEPT ![w] = row]
      BY <2>2 DEF SubscriptionShape
    <3> HIDE DEF row
    <3>5. card' \in [Workspaces -> RowShape \cup {NoCard}]
      BY <3>3, <3>4 DEF SubscriptionShape
    <3>6. card'[w] = row /\ \A v \in Workspaces : v # w => card'[v] = card[v]
      BY <3>4 DEF SubscriptionShape
    <3> QED  BY <2>2, <3>1, <3>3, <3>5, <3>6, Shapes
  <2> QED  BY <1>5, <2>1, <2>2
<1>9. SubscriptionShape'
  BY <1>3, <1>5, <1>7, <1>8 DEF SubscriptionShape
<1>10. NamesAreGiven' /\ SilenceIsNoted' /\ SomebodyAnswers'
  <2>1. \A v \in Workspaces : card'[v] # NoCard => card'[v].grant \in 1 .. connects
    BY <1>6, <1>8 DEF NamesAreGiven
  <2>2. again.pk \in 1 .. connects /\ again.grant \in 1 .. connects
    BY <1>2, <1>6
  <2>3. \A v \in Workspaces :
          /\ card[v] = NoCard <=> card'[v] = NoCard
          /\ card'[v].pk = card[v].pk /\ card'[v].active = card[v].active
    BY <1>8
  <2> QED  BY <1>0, <1>3, <1>7, <2>1, <2>2, <2>3, QuietKeeps
<1>11. RegrantsAreOfGrants'
  <2>1. caller'[w]["check"].step # "regrant"
    BY <1>7, Shapes
  <2>2. misled \subseteq misled' /\ \A v \in Workspaces : v \in misled' => v \in misled \/ v = w
    BY <1>5
  <2>3. \A v \in Workspaces : card'[v] # NoCard /\ card'[v].regrant => card'[v].grant \notin able' \/ v \in misled'
    <3>1. ASSUME card'[w] # NoCard, card'[w].regrant, w \notin misled'
          PROVE  card'[w].grant = card[w].grant
      BY <1>8, <3>1 DEF UpToDate
    <3> QED  BY <1>3, <1>8, <2>2, <3>1 DEF RegrantsAreOfGrants, RegrantIsTrue
  <2>4. ASSUME NEW v \in Workspaces, NEW c \in Callers, caller'[v][c].step = "regrant",
               UpToDate(v, caller[v][c].copy)', v \notin misled'
        PROVE  caller'[v][c].copy.grant \notin able'
    <3>1. caller'[v][c] = caller[v][c]
      BY <1>7, <2>1, <2>4
    <3>2. card'[v].grant = card[v].grant
      BY <1>8, <2>4 DEF UpToDate
    <3>3. UpToDate(v, caller[v][c].copy)
      BY <1>8, <2>4, <3>1, <3>2 DEF UpToDate, Same
    <3> QED  BY <1>3, <2>2, <2>4, <3>1, <3>3 DEF RegrantsAreOfGrants
  <2> QED  BY <2>3, <2>4 DEF RegrantsAreOfGrants, RegrantIsTrue
<1>12. CountsAreBounded'
  <2>1. copy.count <= Limit
    BY <1>1, LimitIs DEF copy
  <2> QED  BY <1>0, <1>2, <1>3, <1>7, <1>8, <2>1, LimitIs, CountsKept
<1>13. ChecksHaveBudget'
  BY <1>0, <1>1, <1>2, <1>7 DEF ChecksHaveBudget, copy
<1>14. RetriesAreCharged'
  <2>1. ~Reported(w) /\ ~Reported(w)'
    BY <1>1, <1>7, Shapes DEF Reported, Reports
  <2>2. \A v \in Workspaces : v # w => caller'[v]["check"] = caller[v]["check"] /\ (Reported(v)' <=> Reported(v))
    BY <1>7, <1>8 DEF Reported
  <2>3. w \notin overlapped => tries[w] <= copy.count
    BY <1>1 DEF RetriesAreCharged, copy
  <2>4. caller'[w]["check"].step \in {"health", "call"} => caller'[w]["check"].copy = again
    BY <1>7, Shapes
  <2> QED  BY <1>2, <1>3, <1>8, <2>1, <2>2, <2>3, <2>4 DEF RetriesAreCharged
<1> QED  BY <1>9, <1>10, <1>11, <1>12, <1>13, <1>14

-----------------------------------------------------------------------------
(* Calls: the platform's word, and its record. *)

\* What the platform was asked, and what the caller heard.
LEMMA SubscribeKeeps ==
  ASSUME SubscriptionInv, NEW w \in Workspaces, NEW c \in Callers, Subscribe(w, c)
  PROVE  SubscriptionInv'
<1> USE DEF SubscriptionInv
<1> DEFINE copy == caller[w][c].copy
<1>0. "task" \in Callers /\ "check" \in Callers /\ "press" \in Callers
  BY Numbers
<1>1. caller[w][c] # NotCalling /\ caller[w][c].step = "call" /\ copy \in CopyShape
  BY Shapes DEF Subscribe, IsAt
<1>2. /\ UNCHANGED <<card, connects, able, toSubscribe, overlapped, leaver, misled>>
      /\ tries' = IF c = "check" /\ Same(w, copy) THEN [tries EXCEPT ![w] = @ + 1] ELSE tries
  BY DEF Subscribe, cardVars
<1>3. PICK s \in Reports :
        /\ Takes(w, c, s, copy)
        /\ s = "on" => subscribed'
        /\ s = "regrant" => copy.grant \notin able \/ ~UpToDate(w, copy)
  BY DEF Subscribe, Reports
<1>4. /\ \/ subscribed' = TRUE
         \/ subscribed' = subscribed /\ slipped' = slipped /\ loose' = loose
      /\ \/ slipped' = slipped
         \/ slipped' = slipped \cup {w}
         \/ slipped' = slipped \ {w}
      /\ \/ loose' = loose /\ subscribed' = subscribed
         \/ loose' = (loose \/ card[w] = NoCard \/ leaver[w].step = "delete")
  BY DEF Subscribe
<1> HIDE DEF copy
<1>5. /\ caller' \in [Workspaces -> [Callers -> CallerShape \cup {NotCalling}]]
      /\ caller'[w][c] = [step |-> s, copy |-> copy]
      /\ \A d \in Callers : d # c => caller'[w][d] = caller[w][d]
      /\ \A v \in Workspaces : v # w => caller'[v] = caller[v]
  BY <1>1, <1>3, TakesOne
<1>6. caller'[w][c].step = s /\ caller'[w][c].copy = copy /\ caller'[w][c] # NotCalling
  BY <1>5, Shapes DEF Reports
<1>7. SubscriptionShape'
  <2>1. tries' \in [Workspaces -> Nat]
    BY <1>2 DEF SubscriptionShape
  <2>2. loose' \in BOOLEAN /\ subscribed' \in BOOLEAN
    BY <1>4 DEF SubscriptionShape
  <2>3. slipped' \subseteq Workspaces
    BY <1>4 DEF SubscriptionShape
  <2> QED  BY <1>2, <1>5, <2>1, <2>2, <2>3 DEF SubscriptionShape
<1>8. NamesAreGiven'
  BY <1>1, <1>2, <1>5, <1>6 DEF NamesAreGiven, copy
<1>9. CountsAreBounded'
  <2>1. c = "task" => copy.count < Limit
    BY <1>1, LimitIs DEF copy
  <2>2. c = "press" => copy.count = 0
    BY <1>1, LimitIs DEF copy
  <2>3. c = "check" => copy.count <= Limit
    BY <1>1, LimitIs DEF copy
  <2>4. caller'[w]["task"] # NotCalling => caller'[w]["task"].copy.count < Limit
    BY <1>0, <1>5, <1>6, <2>1, LimitIs
  <2>5. caller'[w]["press"] # NotCalling => caller'[w]["press"].copy.count = 0
    BY <1>0, <1>5, <1>6, <2>2, LimitIs
  <2>6. caller'[w]["check"] # NotCalling => caller'[w]["check"].copy.count <= Limit
    BY <1>0, <1>5, <1>6, <2>3, LimitIs
  <2> QED  BY <1>2, <1>5, <2>4, <2>5, <2>6, LimitIs, CountsKept
<1>10. ChecksHaveBudget'
  <2>1. c = "check" => copy.count < Budget
    BY <1>0, <1>1 DEF ChecksHaveBudget, copy
  <2> QED  BY <1>0, <1>5, <1>6, <2>1 DEF ChecksHaveBudget
<1>11. SilenceIsNoted'
  <2>1. ASSUME NEW v \in Workspaces, card'[v] # NoCard, leaver'[v] = NotLeaving, HeardOn(v)',
               subscribed' # TRUE
        PROVE  v \in slipped'
    <3>1. subscribed' = subscribed /\ slipped' = slipped /\ s # "on"
      BY <1>3, <1>4, <2>1
    <3>2. HeardOn(v)
      BY <1>2, <1>5, <1>6, <2>1, <3>1 DEF HeardOn
    <3> QED  BY <1>2, <2>1, <3>1, <3>2 DEF SilenceIsNoted
  <2>2. subscribed' \in BOOLEAN
    BY <1>7 DEF SubscriptionShape
  <2> QED  BY <1>2, <2>1, <2>2 DEF SilenceIsNoted
<1>12. SomebodyAnswers'
  <2>1. ASSUME subscribed', ~loose'
        PROVE  \E v \in Workspaces : card'[v] # NoCard /\ leaver'[v].step # "delete"
    <3>1. CASE loose' = loose /\ subscribed' = subscribed
      BY <1>2, <2>1, <3>1 DEF SomebodyAnswers
    <3>2. CASE loose' = (loose \/ card[w] = NoCard \/ leaver[w].step = "delete")
      BY <1>2, <2>1, <3>2
    <3> QED  BY <1>4, <3>1, <3>2
  <2> QED  BY <2>1 DEF SomebodyAnswers
<1>13. RegrantsAreOfGrants'
  <2>1. RegrantIsTrue'
    BY <1>2 DEF RegrantsAreOfGrants, RegrantIsTrue
  <2>2. ASSUME NEW v \in Workspaces, NEW d \in Callers, caller'[v][d].step = "regrant",
               UpToDate(v, caller[v][d].copy)'
        PROVE  caller'[v][d].copy.grant \notin able' \/ v \in misled'
    <3>1. CASE v = w /\ d = c
      BY <1>2, <1>3, <1>6, <2>2, <3>1 DEF UpToDate, Same
    <3>2. CASE ~(v = w /\ d = c)
      BY <1>2, <1>5, <2>2, <3>2 DEF RegrantsAreOfGrants, UpToDate, Same
    <3> QED  BY <3>1, <3>2
  <2> QED  BY <2>1, <2>2 DEF RegrantsAreOfGrants
<1>14. RetriesAreCharged'
  <2>1. CASE c # "check"
    <3>1. \A v \in Workspaces : caller'[v]["check"] = caller[v]["check"]
      BY <1>0, <1>5, <2>1
    <3> QED  BY <1>2, <2>1, <3>1 DEF RetriesAreCharged, Reported
  <2>2. CASE c = "check"
    <3>1. copy.count \in Nat /\ copy.count < Budget /\ tries[w] \in Nat /\ Budget \in Nat
      BY <1>1, <2>2, Numbers DEF ChecksHaveBudget, CopyShape, SubscriptionShape, copy
    <3>2. w \notin overlapped => tries[w] <= copy.count
      BY <1>1, <2>2 DEF RetriesAreCharged, copy
    <3>3. ~Reported(w)
      BY <1>1, <2>2 DEF Reported, Reports
    <3>4. Reported(w)' <=> Same(w, copy)
      BY <1>2, <1>6, <2>2 DEF Reported, Same
    <3>5. \A v \in Workspaces : v # w =>
            caller'[v]["check"] = caller[v]["check"] /\ tries'[v] = tries[v] /\ (Reported(v)' <=> Reported(v))
      BY <1>2, <1>5 DEF Reported, SubscriptionShape
    <3>6. tries'[w] = IF Same(w, copy) THEN tries[w] + 1 ELSE tries[w]
      BY <1>2, <2>2 DEF SubscriptionShape
    <3>7. Same(w, copy) => card[w] # NoCard
      BY DEF Same
    <3>8. caller'[w]["check"].step \notin {"health", "call"} /\ caller'[w]["check"].copy = copy
      BY <1>6, <2>2 DEF Reports
    <3>9. card[w] = NoCard => tries'[w] = 0
      BY <3>6, <3>7 DEF RetriesAreCharged
    <3>10. ASSUME w \notin overlapped
           PROVE  /\ tries'[w] <= Budget
                  /\ card[w] # NoCard /\ ~Same(w, copy) => tries'[w] <= card[w].count
                  /\ Same(w, copy) => tries'[w] <= copy.count + 1
      BY <3>1, <3>2, <3>3, <3>6, <3>10 DEF RetriesAreCharged
    <3>11. ASSUME NEW v \in Workspaces
           PROVE  /\ card'[v] = NoCard => tries'[v] = 0
                  /\ v \notin overlapped' =>
                       /\ tries'[v] <= Budget
                       /\ card'[v] # NoCard /\ ~Reported(v)' => tries'[v] <= card'[v].count
                       /\ Reported(v)' => tries'[v] <= caller'[v]["check"].copy.count + 1
                       /\ caller'[v]["check"].step \in {"health", "call"} => tries'[v] <= caller'[v]["check"].copy.count
      <4>1. CASE v # w
        BY <1>2, <3>5, <4>1 DEF RetriesAreCharged
      <4>2. CASE v = w
        BY <1>2, <3>4, <3>8, <3>9, <3>10, <4>2
      <4> QED  BY <4>1, <4>2
    <3> QED  BY <3>11 DEF RetriesAreCharged
  <2> QED  BY <2>1, <2>2
<1> QED  BY <1>7, <1>8, <1>9, <1>10, <1>11, <1>12, <1>13, <1>14

\* The verdict is written on the row the copy is of, or on none.
LEMMA RecordResultKeeps ==
  ASSUME SubscriptionInv, NEW w \in Workspaces, NEW c \in Callers, RecordResult(w, c)
  PROVE  SubscriptionInv'
<1> USE DEF SubscriptionInv
<1> DEFINE copy == caller[w][c].copy
           s == caller[w][c].step
           row == [card[w] EXCEPT !.active = IF s = "on" THEN "on" ELSE "off",
                                  !.regrant = s = "regrant",
                                  !.count = IF s = "on" THEN 0 ELSE copy.count + 1]
<1>0. "task" \in Callers /\ "check" \in Callers /\ "press" \in Callers
  BY Numbers
<1>1. caller[w][c] # NotCalling /\ s \in Reports /\ copy \in CopyShape
  BY Shapes DEF RecordResult, Reports
<1>2. UNCHANGED <<connects, able, toSubscribe, subscribed, leaver, slipped, loose>> /\ Ends(w, c)
  BY DEF RecordResult
<1>3. /\ ~Same(w, copy) => UNCHANGED <<card, overlapped, misled, tries>>
      /\ Same(w, copy) =>
           /\ overlapped' = IF s # "on" /\ copy.count # card[w].count THEN overlapped \cup {w} ELSE overlapped
           /\ misled' = IF UpToDate(w, copy) THEN misled ELSE misled \cup {w}
           /\ tries' = IF s = "on" THEN [tries EXCEPT ![w] = 0] ELSE tries
  BY DEF RecordResult
<1>4. Same(w, copy) =>
        /\ card[w] # NoCard /\ card[w] \in RowShape /\ card[w].pk = copy.pk
        /\ card' = [card EXCEPT ![w] = row]
  BY Shapes DEF RecordResult, Same, SubscriptionShape
<1>5. Same(w, copy) =>
        /\ row \in RowShape /\ row.pk = card[w].pk /\ row.grant = card[w].grant
        /\ row.active = (IF s = "on" THEN "on" ELSE "off") /\ row.regrant = (s = "regrant")
        /\ row.count = IF s = "on" THEN 0 ELSE copy.count + 1
  <2>1. ASSUME Same(w, copy), NEW active \in Verdicts, NEW regrant \in BOOLEAN, NEW count \in Nat,
               row = [card[w] EXCEPT !.active = active, !.regrant = regrant, !.count = count]
        PROVE  /\ row \in RowShape /\ row.pk = card[w].pk /\ row.grant = card[w].grant
               /\ row.active = active /\ row.regrant = regrant /\ row.count = count
    <3> HIDE DEF row
    <3>1. card[w] \in RowShape
      BY <1>4, <2>1
    <3>2. row \in RowShape
      BY <2>1, <3>1 DEF RowShape
    <3> QED  BY <2>1, <3>1, <3>2 DEF RowShape
  <2>2. (IF s = "on" THEN "on" ELSE "off") \in Verdicts /\ (s = "regrant") \in BOOLEAN
        /\ (IF s = "on" THEN 0 ELSE copy.count + 1) \in Nat
    BY <1>1 DEF Verdicts, CopyShape
  <2> HIDE DEF copy, s
  <2> QED  BY <2>1, <2>2
<1>6. copy.count \in Nat /\ copy.pk \in Nat /\ copy.grant \in Nat
  BY <1>1 DEF CopyShape
<1>7. c # "check" => c \in {"task", "press"}
  BY Numbers
<1>8. copy.count + 1 <= Limit
  <2>1. c = "task" => copy.count < Limit
    BY <1>1, LimitIs
  <2>2. c = "press" => copy.count = 0
    BY <1>1, LimitIs
  <2>3. c = "check" => copy.count < Budget
    BY <1>1, Shapes DEF ChecksHaveBudget, Reports
  <2> QED  BY <1>6, <1>7, <2>1, <2>2, <2>3, LimitIs, Numbers
<1>9. s = "regrant" /\ UpToDate(w, copy) => copy.grant \notin able \/ w \in misled
  BY DEF RegrantsAreOfGrants
<1>10. s = "on" /\ card[w] # NoCard /\ copy.pk = card[w].pk => HeardOn(w)
  BY DEF HeardOn
<1>11. c = "check" => (Reported(w) <=> Same(w, copy))
  BY <1>1 DEF Reported, Same
<1>12. c = "check" /\ Same(w, copy) /\ w \notin overlapped => tries[w] <= copy.count + 1
  BY <1>11 DEF RetriesAreCharged
<1> HIDE DEF copy, s, row
<1>13. /\ caller' \in [Workspaces -> [Callers -> CallerShape \cup {NotCalling}]]
       /\ caller'[w][c] = NotCalling
       /\ \A d \in Callers : d # c => caller'[w][d] = caller[w][d]
       /\ \A v \in Workspaces : v # w => caller'[v] = caller[v]
  BY <1>2, EndsOne
<1>14. /\ card' \in [Workspaces -> RowShape \cup {NoCard}]
       /\ \A v \in Workspaces : v # w => card'[v] = card[v]
       /\ card'[w] = IF Same(w, copy) THEN row ELSE card[w]
  BY <1>3, <1>4, <1>5 DEF SubscriptionShape
<1>15. Same(w, copy) => card'[w] # NoCard /\ card'[w] = row
  BY <1>5, <1>14, Shapes
<1>16. /\ tries' \in [Workspaces -> Nat]
       /\ \A v \in Workspaces : v # w => tries'[v] = tries[v]
       /\ tries'[w] = IF Same(w, copy) /\ s = "on" THEN 0 ELSE tries[w]
  BY <1>3 DEF SubscriptionShape
<1>17. /\ \A v \in Workspaces : v # w => (v \in overlapped' <=> v \in overlapped)
       /\ \A v \in Workspaces : v # w => (v \in misled' <=> v \in misled)
       /\ overlapped \subseteq overlapped' /\ misled \subseteq misled'
       /\ overlapped' \subseteq Workspaces /\ misled' \subseteq Workspaces
  BY <1>3 DEF SubscriptionShape
<1>18. \A v \in Workspaces :
         /\ card[v] = NoCard <=> card'[v] = NoCard
         /\ card'[v].pk = card[v].pk /\ card'[v].grant = card[v].grant
  BY <1>4, <1>5, <1>14, <1>15
<1>19. SubscriptionShape'
  BY <1>2, <1>13, <1>14, <1>16, <1>17 DEF SubscriptionShape
<1>20. NamesAreGiven'
  BY <1>2, <1>13, <1>18 DEF NamesAreGiven
<1>21. CountsAreBounded'
  <2>1. card'[w] # NoCard => card'[w].count <= Limit
    BY <1>5, <1>8, <1>14, <1>15, LimitIs, Numbers
  <2> QED  BY <1>0, <1>2, <1>13, <1>14, <2>1, LimitIs, CountsKept
<1>22. ChecksHaveBudget'
  BY <1>0, <1>13 DEF ChecksHaveBudget
<1>23. SilenceIsNoted'
  <2>1. ASSUME NEW v \in Workspaces, card'[v] # NoCard, HeardOn(v)'
        PROVE  HeardOn(v)
    <3>1. CASE v # w
      BY <1>13, <1>14, <2>1, <3>1 DEF HeardOn
    <3>2. CASE v = w
      <4>1. ASSUME NEW d \in Callers, caller'[w][d].step = "on", caller'[w][d].copy.pk = card'[w].pk
            PROVE  HeardOn(w)
        BY <1>13, <1>18, <4>1, Shapes DEF HeardOn
      <4>2. ASSUME card'[w].active = "on"
            PROVE  HeardOn(w)
        BY <1>4, <1>5, <1>10, <1>14, <1>15, <4>2 DEF HeardOn
      <4> QED  BY <2>1, <3>2, <4>1, <4>2 DEF HeardOn
    <3> QED  BY <3>1, <3>2
  <2> QED  BY <1>2, <1>18, <2>1 DEF SilenceIsNoted
<1>24. SomebodyAnswers'
  BY <1>2, <1>18 DEF SomebodyAnswers
<1>25. RegrantsAreOfGrants'
  <2>1. ASSUME NEW v \in Workspaces, card'[v] # NoCard, card'[v].regrant, v \notin misled'
        PROVE  card'[v].grant \notin able'
    <3>1. CASE v = w /\ Same(w, copy)
      <4>1. s = "regrant" /\ UpToDate(w, copy) /\ w \notin misled
        BY <1>3, <1>5, <1>15, <1>17, <2>1, <3>1
      <4> QED  BY <1>2, <1>9, <1>18, <3>1, <4>1 DEF UpToDate
    <3>2. CASE ~(v = w /\ Same(w, copy))
      BY <1>2, <1>14, <1>17, <2>1, <3>2 DEF RegrantsAreOfGrants, RegrantIsTrue
    <3> QED  BY <3>1, <3>2
  <2>2. ASSUME NEW v \in Workspaces, NEW d \in Callers, caller'[v][d].step = "regrant",
               UpToDate(v, caller[v][d].copy)', v \notin misled'
        PROVE  caller'[v][d].copy.grant \notin able'
    <3>1. caller'[v][d] = caller[v][d]
      BY <1>13, <2>2, Shapes
    <3>2. UpToDate(v, caller[v][d].copy)
      BY <1>18, <2>2, <3>1 DEF UpToDate, Same
    <3> QED  BY <1>2, <1>17, <2>2, <3>1, <3>2 DEF RegrantsAreOfGrants
  <2> QED  BY <2>1, <2>2 DEF RegrantsAreOfGrants, RegrantIsTrue
<1>26. RetriesAreCharged'
  <2>1. \A v \in Workspaces : v # w =>
          caller'[v]["check"] = caller[v]["check"] /\ (Reported(v)' <=> Reported(v))
    BY <1>13, <1>14 DEF Reported
  <2>2. card'[w] = NoCard => tries'[w] = 0
    BY <1>16, <1>18 DEF RetriesAreCharged
  <2>3. c = "check" => ~Reported(w)' /\ caller'[w]["check"].step \notin {"health", "call"}
    BY <1>13, Shapes DEF Reported, Reports
  <2>4. c # "check" => caller'[w]["check"] = caller[w]["check"] /\ (Reported(w)' <=> Reported(w))
    BY <1>0, <1>13, <1>18 DEF Reported
  <2>5. caller[w]["check"].step \in {"health", "call"} \cup Reports => caller[w]["check"].copy.count \in Nat
    BY <1>0, Shapes DEF CopyShape, Reports
  <2>6. tries[w] \in Nat /\ Budget \in Nat /\ (card[w] # NoCard => card[w].count \in Nat)
    BY Numbers, LimitIs DEF SubscriptionShape
  <2>7. ASSUME w \notin overlapped'
        PROVE  /\ tries'[w] <= Budget
               /\ card'[w] # NoCard /\ ~Reported(w)' => tries'[w] <= card'[w].count
               /\ Reported(w)' => tries'[w] <= caller'[w]["check"].copy.count + 1
               /\ caller'[w]["check"].step \in {"health", "call"} => tries'[w] <= caller'[w]["check"].copy.count
    <3>1. w \notin overlapped
      BY <1>17, <2>7
    <3>2. /\ tries[w] <= Budget
          /\ card[w] # NoCard /\ ~Reported(w) => tries[w] <= card[w].count
          /\ Reported(w) => tries[w] <= caller[w]["check"].copy.count + 1
          /\ caller[w]["check"].step \in {"health", "call"} => tries[w] <= caller[w]["check"].copy.count
      BY <3>1 DEF RetriesAreCharged
    <3>3. CASE ~Same(w, copy)
      BY <1>11, <1>14, <1>16, <2>3, <2>4, <3>2, <3>3
    <3>4. CASE Same(w, copy) /\ s = "on"
      <4>1. tries'[w] = 0 /\ card'[w].count = 0
        BY <1>5, <1>15, <1>16, <3>4
      <4>2. Reported(w)' => caller'[w]["check"].copy.count \in Nat
        BY <2>3, <2>4, <2>5 DEF Reported
      <4>3. caller'[w]["check"].step \in {"health", "call"} => caller'[w]["check"].copy.count \in Nat
        BY <2>3, <2>4, <2>5
      <4> QED  BY <2>6, <4>1, <4>2, <4>3
    <3>5. CASE Same(w, copy) /\ s # "on"
      <4>1. tries'[w] = tries[w] /\ card'[w].count = copy.count + 1 /\ copy.count = card[w].count /\ card[w] # NoCard
        BY <1>3, <1>4, <1>5, <1>15, <1>16, <2>7, <3>5
      <4>2. CASE c = "check"
        BY <1>12, <2>3, <3>1, <3>2, <3>5, <4>1, <4>2
      <4>3. CASE c # "check"
        BY <1>6, <2>4, <2>6, <3>2, <4>1, <4>3
      <4> QED  BY <4>2, <4>3
    <3> QED  BY <3>3, <3>4, <3>5
  <2>8. ASSUME NEW v \in Workspaces
        PROVE  /\ card'[v] = NoCard => tries'[v] = 0
               /\ v \notin overlapped' =>
                    /\ tries'[v] <= Budget
                    /\ card'[v] # NoCard /\ ~Reported(v)' => tries'[v] <= card'[v].count
                    /\ Reported(v)' => tries'[v] <= caller'[v]["check"].copy.count + 1
                    /\ caller'[v]["check"].step \in {"health", "call"} => tries'[v] <= caller'[v]["check"].copy.count
    <3>1. CASE v # w
      BY <1>14, <1>16, <1>17, <2>1, <3>1 DEF RetriesAreCharged
    <3>2. CASE v = w
      BY <2>2, <2>7, <3>2
    <3> QED  BY <3>1, <3>2
  <2> QED  BY <2>8 DEF RetriesAreCharged
<1> QED  BY <1>19, <1>20, <1>21, <1>22, <1>23, <1>24, <1>25, <1>26

-----------------------------------------------------------------------------
(* Disconnections. *)

\* A disconnection that does not touch the row.
LEMMA LeavingKeeps ==
  ASSUME SubscriptionInv, NEW w \in Workspaces, StartLeaving(w) \/ Look(w) \/ Unsubscribe(w)
  PROVE  SubscriptionInv'
<1> USE DEF SubscriptionInv
<1>1. UNCHANGED <<card, connects, able, toSubscribe, caller, tries, overlapped, misled>>
  BY DEF StartLeaving, Look, Unsubscribe, cardVars, callVars
<1>2. PICK s \in {"look", "unsubscribe", "delete"}, seen \in SUBSET Workspaces :
        /\ leaver' = [leaver EXCEPT ![w] = [step |-> s, seen |-> seen]]
        /\ s = "unsubscribe" => seen = {}
  <2>1. Sharing(w) \in SUBSET Workspaces
    BY DEF Sharing
  <2> QED  BY <2>1 DEF StartLeaving, Look, Unsubscribe
<1>3. [step |-> s, seen |-> seen] \in LeaveShape
  BY DEF LeaveShape
<1>4. /\ leaver' \in [Workspaces -> LeaveShape \cup {NotLeaving}]
      /\ leaver'[w] = [step |-> s, seen |-> seen]
      /\ \A v \in Workspaces : v # w => leaver'[v] = leaver[v]
  BY <1>2, <1>3 DEF SubscriptionShape
<1>5. leaver'[w] # NotLeaving /\ leaver'[w].step = s /\ leaver'[w].seen = seen
  BY <1>3, <1>4, Shapes
<1>6. /\ \/ subscribed' = subscribed /\ slipped' = slipped
         \/ /\ subscribed' = FALSE
            /\ slipped' = slipped \cup (Workspaces \ ({w} \cup leaver[w].seen)) /\ leaver[w].seen = {}
      /\ loose' \in BOOLEAN
  BY DEF StartLeaving, Look, Unsubscribe, SilenceIsNoted, SubscriptionShape
<1>7. SubscriptionShape'
  BY <1>1, <1>4, <1>6 DEF SubscriptionShape
<1>8. NamesAreGiven' /\ CountsAreBounded' /\ ChecksHaveBudget' /\ RetriesAreCharged' /\ RegrantsAreOfGrants'
  BY <1>1 DEF NamesAreGiven, CountsAreBounded, ChecksHaveBudget, RetriesAreCharged, Reported,
              RegrantsAreOfGrants, RegrantIsTrue, UpToDate, Same
<1>9. SilenceIsNoted'
  <2>1. ASSUME NEW v \in Workspaces, card'[v] # NoCard, leaver'[v] = NotLeaving, HeardOn(v)'
        PROVE  subscribed' \/ v \in slipped'
    <3>1. v # w /\ leaver[v] = NotLeaving
      BY <1>4, <1>5, <2>1
    <3>2. HeardOn(v)
      BY <1>1, <2>1 DEF HeardOn
    <3> QED  BY <1>1, <1>6, <2>1, <3>1, <3>2 DEF SilenceIsNoted
  <2> QED  BY <1>2, <1>4, <1>5, <2>1 DEF SilenceIsNoted
<1>10. SomebodyAnswers'
  <2>1. ASSUME subscribed', ~loose'
        PROVE  \E v \in Workspaces : card'[v] # NoCard /\ leaver'[v].step # "delete"
    <3>1. CASE StartLeaving(w)
      <4>1. subscribed /\ ~loose /\ card[w] # NoCard /\ leaver'[w] = [step |-> "look", seen |-> {}]
        BY <2>1, <3>1 DEF StartLeaving, SubscriptionShape
      <4> QED  BY <1>1, <4>1
    <3>2. CASE Look(w)
      <4>1. subscribed /\ ~loose /\ \A v \in Sharing(w) : leaver[v].step # "delete"
        BY <2>1, <3>2 DEF Look
      <4>2. PICK u \in Workspaces : card[u] # NoCard /\ leaver[u].step # "delete"
        BY <4>1 DEF SomebodyAnswers
      <4>3. CASE u # w
        BY <1>1, <1>4, <4>2, <4>3
      <4>4. CASE u = w /\ Sharing(w) = {}
        <5>1. leaver'[w] = [step |-> "unsubscribe", seen |-> Sharing(w)]
          BY <3>2, <4>4 DEF Look, SubscriptionShape
        <5> QED  BY <1>1, <4>2, <4>4, <5>1
      <4>5. CASE Sharing(w) # {}
        <5>1. PICK v \in Workspaces \ {w} : card[v].status = "connected" /\ leaver[v].step # "delete"
          BY <4>1, <4>5 DEF Sharing
        <5>2. card[v] # NoCard
          BY <5>1 DEF NoCard
        <5> QED  BY <1>1, <1>4, <5>1, <5>2
      <4> QED  BY <4>3, <4>4, <4>5
    <3>3. CASE Unsubscribe(w)
      BY <2>1, <3>3 DEF Unsubscribe
    <3> QED  BY <3>1, <3>2, <3>3
  <2> QED  BY <2>1 DEF SomebodyAnswers
<1> QED  BY <1>7, <1>8, <1>9, <1>10

LEMMA DeleteCardKeeps ==
  ASSUME SubscriptionInv, NEW w \in Workspaces, DeleteCard(w)
  PROVE  SubscriptionInv'
<1> USE DEF SubscriptionInv
<1>0. "task" \in Callers /\ "check" \in Callers /\ "press" \in Callers
  BY Numbers
<1>1. /\ leaver[w].step = "delete"
      /\ card' = [card EXCEPT ![w] = NoCard]
      /\ leaver' = [leaver EXCEPT ![w] = NotLeaving]
      /\ tries' = [tries EXCEPT ![w] = 0]
      /\ overlapped' = overlapped \ {w} /\ misled' = misled \ {w}
      /\ UNCHANGED <<connects, able, toSubscribe, caller, subscribed, slipped, loose>>
  BY DEF DeleteCard
<1>2. /\ card' \in [Workspaces -> RowShape \cup {NoCard}] /\ card'[w] = NoCard
      /\ \A v \in Workspaces : v # w => card'[v] = card[v]
  BY <1>1 DEF SubscriptionShape
<1>3. /\ leaver' \in [Workspaces -> LeaveShape \cup {NotLeaving}] /\ leaver'[w] = NotLeaving
      /\ \A v \in Workspaces : v # w => leaver'[v] = leaver[v]
  BY <1>1 DEF SubscriptionShape
<1>4. /\ tries' \in [Workspaces -> Nat] /\ tries'[w] = 0
      /\ \A v \in Workspaces : v # w => tries'[v] = tries[v]
  BY <1>1 DEF SubscriptionShape
<1>5. SubscriptionShape'
  BY <1>1, <1>2, <1>3, <1>4 DEF SubscriptionShape
<1>6. NamesAreGiven' /\ ChecksHaveBudget'
  BY <1>1, <1>2 DEF NamesAreGiven, ChecksHaveBudget
<1>7. CountsAreBounded'
  BY <1>1, <1>2 DEF CountsAreBounded
<1>8. SilenceIsNoted'
  <2>1. leaver'[w].step # "unsubscribe"
    BY <1>3, Shapes
  <2>2. \A v \in Workspaces : v # w /\ HeardOn(v)' => HeardOn(v)
    BY <1>1, <1>2 DEF HeardOn
  <2> QED  BY <1>1, <1>2, <1>3, <2>1, <2>2 DEF SilenceIsNoted
<1>9. SomebodyAnswers'
  <2>1. ASSUME subscribed', ~loose'
        PROVE  \E v \in Workspaces : card'[v] # NoCard /\ leaver'[v].step # "delete"
    <3>1. PICK v \in Workspaces : card[v] # NoCard /\ leaver[v].step # "delete"
      BY <1>1, <2>1 DEF SomebodyAnswers
    <3> QED  BY <1>1, <1>2, <1>3, <3>1
  <2> QED  BY <2>1 DEF SomebodyAnswers
<1>10. RetriesAreCharged'
  <2>1. ~Reported(w)'
    BY <1>2 DEF Reported
  <2>2. caller[w]["check"].step \in {"health", "call"} => caller[w]["check"].copy.count \in Nat
    BY <1>0, Shapes DEF CopyShape
  <2>3. \A v \in Workspaces : v # w => (Reported(v)' <=> Reported(v)) /\ (v \in overlapped' <=> v \in overlapped)
    BY <1>1, <1>2 DEF Reported
  <2> QED  BY <1>1, <1>2, <1>4, <2>1, <2>2, <2>3, Numbers DEF RetriesAreCharged
<1>11. RegrantsAreOfGrants'
  BY <1>1, <1>2 DEF RegrantsAreOfGrants, RegrantIsTrue, UpToDate, Same
<1> QED  BY <1>5, <1>6, <1>7, <1>8, <1>9, <1>10, <1>11

-----------------------------------------------------------------------------
LEMMA SubscriptionStarts == SubscriptionInit => SubscriptionInv
<1> SUFFICES ASSUME SubscriptionInit PROVE SubscriptionInv
  OBVIOUS
<1> USE DEF SubscriptionInit
<1>1. \A w \in Workspaces : card[w] = NoCard /\ leaver[w] = NotLeaving /\ tries[w] = 0
  OBVIOUS
<1>2. \A w \in Workspaces, c \in Callers : caller[w][c] = NotCalling /\ caller[w][c].step = "idle"
  BY DEF NotCalling
<1>3. SubscriptionShape
  <2>1. connects \in 0 .. MaxConnects /\ able \subseteq 1 .. connects
    BY Numbers
  <2>2. caller \in [Workspaces -> [Callers -> CallerShape \cup {NotCalling}]]
    OBVIOUS
  <2> QED  BY <2>1, <2>2 DEF SubscriptionShape
<1>4. NamesAreGiven /\ ChecksHaveBudget /\ CountsAreBounded
  <2>1. IsFiniteSet(toSubscribe) /\ Cardinality(toSubscribe) = 0
    BY FS_EmptySet
  <2> QED  BY <1>1, <1>2, <2>1, Numbers DEF NamesAreGiven, ChecksHaveBudget, CountsAreBounded
<1>5. SilenceIsNoted /\ SomebodyAnswers
  BY <1>1 DEF SilenceIsNoted, SomebodyAnswers, NotLeaving
<1>6. RetriesAreCharged
  BY <1>1, <1>2, Numbers DEF RetriesAreCharged, Reported
<1>7. RegrantsAreOfGrants
  BY <1>1, <1>2 DEF RegrantsAreOfGrants, RegrantIsTrue
<1> QED  BY <1>3, <1>4, <1>5, <1>6, <1>7 DEF SubscriptionInv

LEMMA SubscriptionStep == SubscriptionInv /\ [SubscriptionNext]_subscriptionVars => SubscriptionInv'
<1> SUFFICES ASSUME SubscriptionInv, [SubscriptionNext]_subscriptionVars
             PROVE  SubscriptionInv'
  OBVIOUS
<1>1. CASE UNCHANGED subscriptionVars
  BY <1>1 DEF subscriptionVars, cardVars, callVars, SubscriptionInv, SubscriptionShape, NamesAreGiven,
              CountsAreBounded, ChecksHaveBudget, SilenceIsNoted, HeardOn, SomebodyAnswers,
              RetriesAreCharged, Reported, RegrantsAreOfGrants, RegrantIsTrue, UpToDate, Same
<1>2. ASSUME NEW w \in Workspaces,
             \/ Connect(w) \/ StartTask(w)
             \/ StartCheck(w) \/ CheckHealth(w)
             \/ Press(w)
             \/ \E c \in Callers : Subscribe(w, c) \/ RecordResult(w, c)
             \/ StartLeaving(w) \/ Look(w) \/ Unsubscribe(w) \/ DeleteCard(w)
      PROVE  SubscriptionInv'
  BY <1>2, ConnectKeeps, StartTaskKeeps, StartCheckKeeps, CheckHealthKeeps, PressKeeps,
     SubscribeKeeps, RecordResultKeeps, LeavingKeeps, DeleteCardKeeps
<1> QED  BY <1>1, <1>2 DEF SubscriptionNext

\* The invariant is enough.
LEMMA SubscriptionEnough == SubscriptionInv => SubscriptionsAreHonest
<1> SUFFICES ASSUME SubscriptionInv PROVE SubscriptionsAreHonest
  OBVIOUS
<1> USE DEF SubscriptionInv
<1>1. Limit <= Budget + MaxBusy + MaxConnects
  <2>1. IsFiniteSet(toSubscribe) /\ connects \in Nat /\ connects <= MaxConnects
    BY Numbers DEF CountsAreBounded, SubscriptionShape
  <2>2. Cardinality(toSubscribe) \in Nat
    BY <2>1, FS_CardinalityType
  <2> QED  BY <2>1, <2>2, Numbers DEF Limit
<1>2. \A n \in Nat : n <= Limit => n \in Counts
  BY <1>1, LimitIs, Numbers DEF Counts
<1>3. \A n \in 1 .. connects : n \in Connects
  BY Numbers DEF Connects, SubscriptionShape
<1>4. SubscriptionTypeOK
  <2>1. ASSUME NEW w \in Workspaces
        PROVE  card[w] \in Card \cup {NoCard}
    <3>1. CASE card[w] # NoCard
      <4>1. card[w] \in RowShape /\ card[w].count \in Counts /\ card[w].pk \in Connects /\ card[w].grant \in Connects
        BY <1>2, <1>3, <3>1, Shapes, LimitIs DEF NamesAreGiven
      <4> QED  BY <4>1 DEF RowShape, Card
    <3> QED  BY <3>1
  <2>2. ASSUME NEW w \in Workspaces, NEW c \in Callers, caller[w][c] # NotCalling
        PROVE  /\ caller[w][c].step \in {"health", "call", "on", "off", "regrant"}
               /\ caller[w][c].copy \in CardCopies
    <3>1. caller[w][c].step \in {"health", "call"} \cup Reports /\ caller[w][c].copy \in CopyShape
      BY <2>2, Shapes
    <3>2. caller[w][c].copy.count \in Nat /\ caller[w][c].copy.count <= Limit
      BY <2>2, LimitIs, Numbers
    <3>3. caller[w][c].copy.pk \in Connects /\ caller[w][c].copy.grant \in Connects
      BY <1>3, <2>2 DEF NamesAreGiven
    <3> QED  BY <1>2, <3>1, <3>2, <3>3 DEF CopyShape, CardCopies, Reports
  <2>3. ASSUME NEW w \in Workspaces, leaver[w] # NotLeaving
        PROVE  leaver[w].step \in {"look", "unsubscribe", "delete"} /\ leaver[w].seen \subseteq Workspaces
    BY <2>3, Shapes DEF LeaveShape
  <2>4. toSubscribe \subseteq [of : Workspaces, pk : Connects, grant : Connects]
    BY <1>3 DEF SubscriptionShape
  <2> QED  BY <2>1, <2>2, <2>3, <2>4 DEF SubscriptionTypeOK, SubscriptionShape
<1>5. ActiveIsSubscribed
  BY DEF ActiveIsSubscribed, SilenceIsNoted, HeardOn
<1>6. NobodyIsPushedTo
  BY DEF NobodyIsPushedTo, SomebodyAnswers
<1>7. RetriesAreBounded /\ RegrantIsTrue
  BY DEF RetriesAreBounded, RetriesAreCharged, RegrantsAreOfGrants
<1> QED  BY <1>4, <1>5, <1>6, <1>7 DEF SubscriptionsAreHonest

\* An account shown as live is pushed to, or was silenced by a disconnection that
\* did not know of it; when the last one is gone the platform does not push any
\* more, or there is a named reason; the health check calls within its budget;
\* and a person is asked to reconnect only over a grant that does not reach.
THEOREM SubscriptionsStayHonest == SubscriptionSpec => []SubscriptionsAreHonest
<1>1. SubscriptionSpec => []SubscriptionInv
  BY SubscriptionStarts, SubscriptionStep, PTL DEF SubscriptionSpec
<1> QED  BY <1>1, SubscriptionEnough, PTL
=================================================================================

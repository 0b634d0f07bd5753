------------------------------- MODULE AgentAccess -------------------------------
(***************************************************************************)
(* What an agent may do: its key and the cache of verified keys            *)
(* (src/apps/api_keys), the credentials of a call (src/apps/api/auth.py),  *)
(* and the tools it calls over MCP or REST (src/apps/mcp, src/apps/api).   *)
(* A call proves who it is once, and then runs one message or a batch of   *)
(* them on what it found out; meanwhile the key is edited or revoked, its  *)
(* issuer leaves, accounts are deleted and workspaces change.              *)
(***************************************************************************)
EXTENDS Integers, FiniteSets

CONSTANTS
  Servers,       \* workers that serve requests
  Home, Away,    \* channels of the key's workspace, and of another one
  Scopes,        \* bound: sets of permissions a key is given
  Roles,         \* bound: roles the issuer has in a workspace
  EditorRole,    \* the role of the administrator who edits keys
  FailLimit,     \* _AUTH_FAIL_LIMIT, lower
  MaxBatch,      \* bound: messages in a batch
  MaxVisits,      \* bound: calls
  MaxChanges     \* bound: what people do meanwhile

VARIABLES
  shared,        \* one cache for all workers (Redis), or one each (LocMem)
  key,           \* the ApiKey row: permissions, allowlist, revoked
  expired,       \* whether `expires_at' has passed
  role,          \* WorkspaceMembership of the issuer: his role in a workspace
  current,       \* User.last_workspace_id
  mode,          \* approval_workflow_mode of the key's workspace
  channels,      \* accounts that are connected
  target,        \* PlatformPost.status of the rows of one post
  idea,          \* drafts made from one idea, and whether it is linked to one
  cached,        \* the entry of the key in a worker's cache, or NoEntry
  call,          \* what a worker is doing
  failures,      \* failed authentications of the agent's address
  budget,        \* calls and changes so far
  \* history
  crossed        \* the idea was held by two calls at once, or its call died

worldVars == <<shared, expired, role, current, mode, channels>>
dataVars == <<target, idea, crossed>>
accessVars == <<key, worldVars, dataVars, cached, call, failures, budget>>

Spaces == {"home", "away"}
Perms == {"create_posts", "publish_directly", "view_analytics", "use_inbox",
          "reply_from_inbox", "upload_media"}

\* BUILTIN_ROLE_PERMISSIONS, for the permissions the tools ask for.
Rights == [manager |-> Perms, editor |-> Perms \ {"publish_directly"},
           contributor |-> {"create_posts", "upload_media"}, gone |-> {}]

ASSUME AccessAssumption ==
  /\ IsFiniteSet(Servers)
  /\ Scopes \subseteq SUBSET Perms
  /\ Roles \cup {EditorRole} \subseteq DOMAIN Rights
  /\ FailLimit \in Nat \ {0}
  /\ MaxBatch \in Nat \ {0}

Employed(x) == role[x] # "gone"
Joined == {x \in Spaces : Employed(x)}

AccountsIn(x) == channels \cap (IF x = "home" THEN Home ELSE Away)
Targets == {c \in Home \cap channels : target[c] # "none"}

NoRow == [key |-> [perms |-> {}, allow |-> {}, revoked |-> FALSE], mode |-> "none"]
NoEntry == [row |-> NoRow, behind |-> {"empty"}]
Free == [step |-> "idle"]

Stages == {"lookup", "read", "store", "check", "grant", "resolve", "run", "pick", "link"}

\* A key as the database has it, with what select_related and prefetch_related load.
RowNow == [key |-> key, mode |-> mode]
IsActive(k) == ~k.revoked /\ ~expired

AccessTypeOK ==
  /\ key \in [perms : SUBSET Perms, allow : SUBSET Home, revoked : BOOLEAN]
  /\ role \in [Spaces -> Roles] /\ current \in Spaces /\ mode \in {"none", "required"}
  /\ channels \subseteq Home \cup Away
  /\ target \in [Home -> {"none", "draft", "scheduled", "pending_review"}]
  /\ \A w \in Servers : cached[w] = NoEntry \/ cached[w].row.key.allow \subseteq Home
  /\ \A w \in Servers :
       \/ call[w].step \in {"idle", "bust"}
       \/ call[w].step \in Stages \cup {"commit"} /\ call[w].perms \subseteq Perms
  /\ failures \in 0 .. FailLimit + MaxVisits

\* What issue_api_key lets through: the issuer holds what he grants.
AccessInit ==
  /\ role \in [Spaces -> {"manager"}]
  /\ key \in [perms : {p \in Scopes : p \subseteq Rights[role["home"]]},
              allow : SUBSET Home \ {{}}, revoked : {FALSE}]
  /\ shared \in BOOLEAN /\ expired = FALSE /\ current = "home" /\ mode = "none"
  /\ channels = Home \cup Away
  /\ target = [c \in Home |-> "draft"]
  /\ idea = [drafts |-> 0, linked |-> FALSE] /\ crossed = FALSE
  /\ cached = [w \in Servers |-> NoEntry]
  /\ call = [w \in Servers |-> Free]
  /\ failures = 0 /\ budget = [calls |-> 0, changes |-> 0]

Does(w, step) == call[w].step = step
Becomes(w, next) == call' = [call EXCEPT ![w] = next]

\* The entry of w's cache, and what the others' caches are to w.
Entered(w, e) == IF shared THEN [v \in Servers |-> e] ELSE [cached EXCEPT ![w] = e]
Here(w, v, why) == IF shared \/ v = w THEN why ELSE "elsewhere"

---------------------------------------------------------------------------------
(* What happens meanwhile.  Calls and entries that hold a copy of what changes *)
(* fall behind, for a reason.                                                  *)

Changes == budget.changes < MaxChanges /\ budget' = [budget EXCEPT !.changes = @ + 1]

\* Copies of the row in the hands of calls, and in the caches.
FallBehind(next, why) ==
  /\ call' = [w \in Servers |->
       IF next[w].step \in Stages \ {"lookup", "read", "resolve"}
       THEN [next[w] EXCEPT !.behind = @ \cup {"since"}] ELSE next[w]]
  /\ cached' = [w \in Servers |->
       IF cached[w] = NoEntry THEN NoEntry ELSE [cached[w] EXCEPT !.behind = @ \cup {why[w]}]]

Unwatched == [w \in Servers |-> "unwatched"]

\* An edit: the editor flips what he may grant and keeps the rest.  The signals
\* bust his cache at the save, in the transaction that the commit ends.
Clamped(asked) == (asked \cap Rights[EditorRole]) \cup (key.perms \ Rights[EditorRole])

\* The transaction of an edit holds the key's row.
NoEdit == \A w \in Servers : ~Does(w, "commit")

SaveEdit(w) ==
  /\ Does(w, "idle") /\ NoEdit /\ Changes
  /\ IsActive(key)
  /\ \E asked \in Scopes, allow \in SUBSET AccountsIn("home") \ {{}} :
       Becomes(w, [step |-> "commit", perms |-> Clamped(asked), allow |-> allow])
  /\ cached' = Entered(w, NoEntry)
  /\ UNCHANGED <<key, worldVars, dataVars, failures>>

CommitEdit(w) ==
  /\ Does(w, "commit") /\ call[w].allow \subseteq channels
  /\ key' = [key EXCEPT !.perms = call[w].perms, !.allow = call[w].allow]
  /\ FallBehind([call EXCEPT ![w] = Free],
       [v \in Servers |-> Here(w, v, "uncommitted")])
  /\ UNCHANGED <<worldVars, dataVars, failures, budget>>

\* An account of the new allowlist was deleted meanwhile.
AbortEdit(w) ==
  /\ Does(w, "commit") /\ ~(call[w].allow \subseteq channels)
  /\ Becomes(w, Free)
  /\ UNCHANGED <<key, worldVars, dataVars, cached, failures, budget>>

\* A revocation is committed and then busts the cache.
SaveRevoked(w) ==
  /\ Does(w, "idle") /\ NoEdit /\ Changes
  /\ ~key.revoked
  /\ key' = [key EXCEPT !.revoked = TRUE]
  /\ FallBehind([call EXCEPT ![w] = [step |-> "bust"]],
       [v \in Servers |-> Here(w, v, "busting")])
  /\ UNCHANGED <<worldVars, dataVars, failures>>

\* Mutant: the entry is left to its time.
LeaveEntry(w) ==
  /\ Does(w, "bust")
  /\ Becomes(w, Free)
  /\ UNCHANGED <<key, worldVars, dataVars, cached, failures, budget>>

Bust(w) ==
  /\ Does(w, "bust")
  /\ cached' = Entered(w, NoEntry)
  /\ Becomes(w, Free)
  /\ UNCHANGED <<key, worldVars, dataVars, failures, budget>>

\* REVOCATION_CACHE_TTL.
EntryExpires(w) ==
  /\ cached[w] # NoEntry
  /\ cached' = Entered(w, NoEntry)
  /\ UNCHANGED <<key, worldVars, dataVars, call, failures, budget>>

KeyExpires ==
  /\ Changes /\ ~expired /\ expired' = TRUE
  /\ UNCHANGED <<key, shared, role, current, mode, channels, dataVars, cached, call, failures>>

\* The issuer, who is also the person with an OAuth token, gets another role or leaves.
ChangeRole(x, r) ==
  /\ Changes /\ role[x] # r
  /\ role' = [role EXCEPT ![x] = r]
  /\ call' = [w \in Servers |->
       IF call[w].step \in {"grant", "run", "pick", "link"}
       THEN [call[w] EXCEPT !.behind = @ \cup {"role"}] ELSE call[w]]
  /\ UNCHANGED <<key, shared, expired, current, mode, channels, dataVars, cached, failures>>

\* The person opens another workspace in the dashboard.
SwitchSpace(x) ==
  /\ Changes /\ current # x /\ x \in Joined /\ current' = x
  /\ UNCHANGED <<key, shared, expired, role, mode, channels, dataVars, cached, call, failures>>

\* No signal of a workspace or an account busts an entry that has a copy of it.
SetMode ==
  /\ Changes /\ mode' = IF mode = "none" THEN "required" ELSE "none"
  /\ FallBehind(call, Unwatched)
  /\ UNCHANGED <<key, shared, expired, role, current, channels, dataVars, failures>>

Disconnect(c) ==
  /\ Changes /\ c \in channels /\ channels' = channels \ {c}
  /\ key' = [key EXCEPT !.allow = @ \ {c}]
  /\ target' = IF c \in Home THEN [target EXCEPT ![c] = "none"] ELSE target
  /\ FallBehind(call, Unwatched)
  /\ UNCHANGED <<shared, expired, role, current, mode, idea, crossed, failures>>

---------------------------------------------------------------------------------
(* Who calls: a key, a person with an OAuth token, or a browser session. *)

Caller(kind, step, n) ==
  [step |-> step, kind |-> kind, row |-> NoRow, behind |-> {}, perms |-> {},
   space |-> "home", left |-> n]

\* A session sends single requests.  A shorter batch is one that was cut.
Arrive(w) ==
  /\ Does(w, "idle") /\ budget.calls < MaxVisits
  /\ budget' = [budget EXCEPT !.calls = @ + 1]
  /\ \E kind \in {"key", "oauth", "wrong", "session"} :
       /\ kind # "session" => failures < FailLimit
       /\ Becomes(w, Caller(kind, IF kind \in {"key", "wrong"} THEN "lookup" ELSE "resolve",
                          IF kind = "session" THEN 1 ELSE MaxBatch))
  /\ UNCHANGED <<key, worldVars, dataVars, cached, failures>>

\* record_failed_auth; the browser's 401 is not counted.
Refuse(w) ==
  /\ Becomes(w, Free)
  /\ failures' = IF call[w].kind = "session" THEN failures ELSE failures + 1

ForgetFailures ==
  /\ failures > 0 /\ failures' = 0
  /\ UNCHANGED <<key, worldVars, dataVars, cached, call, budget>>

\* A token that is no key's is unknown in the cache and in the database.
IsKey(w) == call[w].kind # "wrong"

\* cache.get.
LookUp(w) ==
  /\ Does(w, "lookup")
  /\ IF ~IsKey(w) THEN Refuse(w)
     ELSE /\ LET e == cached[w] IN
             IF e = NoEntry THEN Becomes(w, [call[w] EXCEPT !.step = "read"])
             ELSE Becomes(w, [call[w] EXCEPT !.step = "check", !.row = e.row, !.behind = e.behind])
          /\ UNCHANGED failures
  /\ UNCHANGED <<key, worldVars, dataVars, cached, budget>>

ReadRow(w) ==
  /\ Does(w, "read")
  /\ Becomes(w, [call[w] EXCEPT !.step = IF IsActive(key) THEN "store" ELSE "check",
                             !.row = RowNow])
  /\ UNCHANGED <<key, worldVars, dataVars, cached, failures, budget>>

Store(w) ==
  /\ Does(w, "store")
  /\ cached' = Entered(w,
       [row |-> call[w].row, behind |-> IF call[w].behind = {} THEN {} ELSE {"raced"}])
  /\ Becomes(w, [call[w] EXCEPT !.step = "check"])
  /\ UNCHANGED <<key, worldVars, dataVars, failures, budget>>

\* is_active of the row in hand, and _issuer_still_authorized of the database.
Check(w) ==
  /\ Does(w, "check")
  /\ IF IsActive(call[w].row.key) /\ Employed("home")
     THEN Becomes(w, [call[w] EXCEPT !.step = "grant"]) /\ UNCHANGED <<cached, failures>>
     ELSE Refuse(w) /\ cached' = Entered(w, NoEntry)
  /\ UNCHANGED <<key, worldVars, dataVars, budget>>

\* Mutant: all that the key has.
GrantAll(w) ==
  /\ Does(w, "grant")
  /\ Becomes(w, [call[w] EXCEPT !.step = "run", !.perms = call[w].row.key.perms])
  /\ UNCHANGED <<key, worldVars, dataVars, cached, failures, budget>>

\* _resolve_effective_permissions: what the key has and its issuer still holds.
Grant(w) ==
  /\ Does(w, "grant")
  /\ Becomes(w, [call[w] EXCEPT !.step = "run",
       !.perms = call[w].row.key.perms \cap Rights[role["home"]]])
  /\ UNCHANGED <<key, worldVars, dataVars, cached, failures, budget>>

\* _resolve_active_membership: the current workspace of a member, or the first he
\* joined; a browser may name another one of his.
ActiveSpace == IF current \in Joined THEN current ELSE IF "home" \in Joined THEN "home" ELSE "away"

Resolve(w) ==
  /\ Does(w, "resolve")
  /\ IF Joined = {} THEN Refuse(w)
     ELSE /\ \E x \in Spaces :
               /\ x = ActiveSpace \/ (call[w].kind = "session" /\ x \in Joined)
               /\ Becomes(w, [call[w] EXCEPT !.step = "run", !.space = x, !.row = RowNow,
                                          !.perms = Rights[role[x]]])
          /\ UNCHANGED failures
  /\ UNCHANGED <<key, worldVars, dataVars, cached, budget>>

---------------------------------------------------------------------------------
(* Messages.  Each one checks the permissions and the allowlist found at the   *)
(* start, and answers with what it showed or touched.                          *)

\* A key's allowlist is the one in its row; a person's is every account there is now.
Allowed(w) == IF call[w].kind = "key" THEN call[w].row.key.allow ELSE AccountsIn(call[w].space)
Reachable(w) == Allowed(w) \cap channels
HomeCall(w) == call[w].space = "home"

\* _visible_posts_qs, _get_workspace_post: every target of the post is allowed.
Sees(w) == HomeCall(w) /\ Targets # {} /\ Targets \subseteq Allowed(w)

Answered(w) == IF call[w].left = 1 THEN Free ELSE [call[w] EXCEPT !.step = "run", !.left = @ - 1]

\* A message is refused: an argument, a permission, an unknown id, a state.
Rejected(w) ==
  /\ Does(w, "run")
  /\ Becomes(w, Answered(w))
  /\ UNCHANGED <<key, worldVars, dataVars, cached, failures, budget>>

\* enforce_http_rate_limits between two messages ends the whole batch.
Limited(w) ==
  /\ Does(w, "run")
  /\ Becomes(w, Free)
  /\ UNCHANGED <<key, worldVars, dataVars, cached, failures, budget>>

\* A use of a tool: what it needs, the accounts it shows or changes something of,
\* and the status their rows get.
Use(needs, about, made) == [needs |-> needs, about |-> about, made |-> made]
Reading(needs, about) == Use(needs, about, "same")

ListAccounts(w) == {Reading({}, Allowed(w))}
GetPost(w) == IF Sees(w) THEN {Reading({}, Targets)} ELSE {}
ListPosts(w) == {Reading({}, IF Sees(w) THEN Targets ELSE {})}
GetSchedule(w) == {Reading({}, Reachable(w))}
GetPolicy == {Reading({}, {})}
SearchMedia == {Reading({}, {})}
GetMedia == {Reading({}, {})}
GetAccountAnalytics(w) == {Reading({"view_analytics"}, {c}) : c \in Reachable(w)}
GetPostAnalytics(w) == IF Sees(w) THEN {Reading({"view_analytics"}, Targets)} ELSE {}
ListInbox(w) == {Reading({"use_inbox"}, Reachable(w))}
GetMessage(w) == {Reading({"use_inbox"}, {c}) : c \in Reachable(w)}
ListSavedReplies == {Reading({"use_inbox"}, {})}
ListIdeas == {Reading({"create_posts"}, {})}
NotifyTeam(w) == {Reading({}, {})} \cup GetPost(w)
ReplyToMessage(w) == {Reading({"reply_from_inbox"}, {c}) : c \in Reachable(w)}
TriageMessage(w) ==
  {Reading({"use_inbox"}, {c}) : c \in Reachable(w)}
    \cup {Reading({"use_inbox", "reply_from_inbox"}, {c}) : c \in Reachable(w)}
RecordRun == {Reading({}, {})}
UploadMedia == {Reading({"upload_media"}, {})}
RequestUpload == {Reading({"upload_media"}, {})}
FinalizeUpload == {Reading({"upload_media"}, {})}

\* Their twins over REST.
Me(w) == {Reading({}, Allowed(w))}
RestPosts(w) == ListPosts(w) \cup GetPost(w)
RestAnalytics(w) == GetAccountAnalytics(w) \cup GetPostAnalytics(w)
RestMedia == UploadMedia \cup SearchMedia \cup GetMedia

\* create_post for a channel, as a draft, or scheduled where the workspace, as it
\* was when the caller was found out, lets posts be scheduled directly.
Direct(m) == m = "none"
CreateDraft(w) == {Reading({"create_posts"}, {c}) : c \in Reachable(w)}
ScheduleNew(w) ==
  {Use({"create_posts", "publish_directly"}, {c}, "new") :
     c \in IF HomeCall(w) /\ ~Direct(call[w].row.mode) THEN {} ELSE Reachable(w)}

\* All rows of the post that are at `from' go to `to'.
Move(w, needs, from, to) ==
  LET rows == {c \in Targets : target[c] = from} IN
  IF Sees(w) /\ rows # {} THEN {Use(needs, rows, to)} ELSE {}

CancelPost(w) == Move(w, {"create_posts"}, "scheduled", "draft")

\* transition_platform_post asks the workspace as it is now.
ScheduleDraft(w) ==
  IF Direct(mode) THEN Move(w, {"create_posts", "publish_directly"}, "draft", "scheduled") ELSE {}

SubmitForApproval(w) == Move(w, {"create_posts"}, "draft", "pending_review")

\* A scheduled row is given another time by who may publish.
UpdatePost(w) ==
  Move(w, {"create_posts", "publish_directly"}, "scheduled", "scheduled")
    \cup IF Sees(w) THEN {Reading({"create_posts"}, Targets)} ELSE {}

Tools(w) ==
  ListAccounts(w) \cup GetPost(w) \cup ListPosts(w) \cup GetSchedule(w) \cup GetPolicy
    \cup SearchMedia \cup GetMedia \cup GetAccountAnalytics(w) \cup GetPostAnalytics(w) \cup ListInbox(w)
    \cup GetMessage(w) \cup ListSavedReplies \cup ListIdeas \cup NotifyTeam(w)
    \cup ReplyToMessage(w) \cup TriageMessage(w) \cup RecordRun
    \cup UploadMedia \cup RequestUpload \cup FinalizeUpload \cup CreateDraft(w)
    \cup ScheduleNew(w) \cup CancelPost(w) \cup ScheduleDraft(w) \cup SubmitForApproval(w)
    \cup UpdatePost(w) \cup Me(w) \cup RestPosts(w) \cup RestAnalytics(w) \cup RestMedia

\* What the caller may use, by the permissions found at the start.
Open(w) == IF Does(w, "run") THEN {t \in Tools(w) : t.needs \subseteq call[w].perms} ELSE {}

CallTool(w) ==
  /\ Does(w, "run")
  /\ \E t \in Open(w) :
       target' = [c \in Home |-> IF c \in t.about /\ t.made \notin {"same", "new"}
                                 THEN t.made ELSE target[c]]
  /\ Becomes(w, Answered(w))
  /\ UNCHANGED <<key, worldVars, idea, crossed, cached, failures, budget>>

\* _resolve_unused_idea, the post, and the link, each in a statement of its own.
PickIdea(w) ==
  /\ Does(w, "run") /\ "create_posts" \in call[w].perms /\ HomeCall(w) /\ Reachable(w) # {}
  /\ ~idea.linked
  /\ crossed' = (crossed \/ \E v \in Servers : call[v].step \in {"pick", "link"})
  /\ Becomes(w, [call[w] EXCEPT !.step = "pick"])
  /\ UNCHANGED <<key, worldVars, target, idea, cached, failures, budget>>

MakeDraft(w) ==
  /\ Does(w, "pick")
  /\ idea' = [idea EXCEPT !.drafts = @ + 1]
  /\ Becomes(w, [call[w] EXCEPT !.step = "link"])
  /\ UNCHANGED <<key, worldVars, target, crossed, cached, failures, budget>>

LinkIdea(w) ==
  /\ Does(w, "link")
  /\ idea' = [idea EXCEPT !.linked = TRUE]
  /\ Becomes(w, Answered(w))
  /\ UNCHANGED <<key, worldVars, target, crossed, cached, failures, budget>>

\* The worker dies between two of them.
Die(w) ==
  /\ call[w].step \in {"pick", "link"}
  /\ crossed' = TRUE
  /\ Becomes(w, Free)
  /\ UNCHANGED <<key, worldVars, target, idea, cached, failures, budget>>

---------------------------------------------------------------------------------
Serve(w) ==
  \/ Arrive(w) \/ LookUp(w) \/ ReadRow(w) \/ Store(w) \/ Check(w) \/ Grant(w) \/ Resolve(w)

Message(w) ==
  Rejected(w) \/ Limited(w) \/ CallTool(w) \/ PickIdea(w) \/ MakeDraft(w) \/ LinkIdea(w) \/ Die(w)

Administer(w) == SaveEdit(w) \/ CommitEdit(w) \/ AbortEdit(w) \/ SaveRevoked(w) \/ Bust(w)

Meanwhile ==
  \/ KeyExpires \/ SetMode \/ ForgetFailures
  \/ \E w \in Servers : EntryExpires(w)
  \/ \E x \in Spaces : SwitchSpace(x) \/ \E r \in Roles : ChangeRole(x, r)
  \/ \E c \in Home \cup Away : Disconnect(c)

AccessNext == Meanwhile \/ \E w \in Servers : Serve(w) \/ Message(w) \/ Administer(w)

AccessSpec == AccessInit /\ [][AccessNext]_accessVars

\* A cached key is the key as the database has it, or older for a known reason;
\* one that a revocation must still remove is about to be.
EntryIsExplained(w) ==
  cached[w] # NoEntry =>
    /\ cached[w].row # RowNow => cached[w].behind # {}
    /\ key.revoked => cached[w].behind \cap {"busting", "elsewhere", "raced"} # {}
    /\ "busting" \in cached[w].behind => \E v \in Servers : Does(v, "bust") /\ (shared \/ v = w)
    /\ "elsewhere" \in cached[w].behind => ~shared

\* What a use of a tool needs the issuer has, and the key too, in the accounts it
\* may use, unless the call or the entry it found is older than the change.
UseIsInside(w, t) ==
  /\ \/ Employed(call[w].space) /\ t.needs \subseteq Rights[role[call[w].space]]
     \/ "role" \in call[w].behind
  /\ call[w].kind = "key" =>
       \/ ~key.revoked /\ t.needs \subseteq key.perms /\ t.about \subseteq key.allow
       \/ call[w].behind \ {"role"} # {}
  /\ call[w].kind # "key" => t.about \subseteq AccountsIn(call[w].space)
  /\ t.made = "new" /\ HomeCall(w) /\ mode = "required" => call[w].behind # {}

AgentStaysInside ==
  /\ \A w \in Servers : EntryIsExplained(w)
  /\ \A w \in Servers : \A t \in Open(w) : UseIsInside(w, t)
  /\ idea.drafts > 1 => crossed
  /\ failures < FailLimit + Cardinality(Servers)
=================================================================================

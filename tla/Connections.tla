------------------------------- MODULE Connections -------------------------------
(***************************************************************************)
(* How an account is connected: a dialogue with the platform that begins   *)
(* in one request and ends in another (src/apps/social_accounts/views.py,  *)
(* src/apps/onboarding/views.py).                                          *)
(* A member begins it in a workspace, a client on a connection link, and   *)
(* for some platforms Composio holds the dialogue.  What the second        *)
(* request must know waits in the session of the browser, one place for    *)
(* each route; a request works on the copy it loaded and saves it whole,   *)
(* whatever another tab has saved since.                                   *)
(***************************************************************************)
EXTENDS Integers, Sequences

CONSTANTS
  Homes,        \* workspaces
  LinkHome,     \* the one the connection link belongs to
  Tabs,         \* of one browser: each makes one request at a time
  Dialogues,    \* bound: which dialogues people begin
  LastPage,     \* accounts a platform answers with, in its order
  MaxFlows      \* bound: dialogues begun

Routes == {"member", "composio", "link"}
\* single: the account of the person; pages: the pages the person administers,
\* to choose from; mastodon: an instance the program registers with first;
\* direct: a password or a key, which is all that Bluesky and DEV.to ask for.
Kinds == {"single", "pages", "mastodon", "direct"}
Flow == [home : Homes, route : Routes, kind : Kinds]

ASSUME ConnectionAssumption ==
  /\ LinkHome \in Homes
  /\ \A d \in Dialogues :
       /\ d \in Flow
       /\ d.route = "link" => d.home = LinkHome
       /\ d.route = "composio" => d.kind \in {"single", "pages"}
  /\ LastPage \in Nat \ {0}
  /\ MaxFlows \in Nat

VARIABLES
  session,      \* the flow each place of the session is for, or Nobody
  flows,        \* dialogues in the order they began
  spent,        \* flows whose code was exchanged
  app,          \* the route that registered with the instance, or "none"
  mandate,      \* who may connect: the member has the permission, the link is active
  token,        \* the flow whose token the account of a workspace holds, or Nobody
  usage,        \* accounts with a ConnectionLinkUsage row
  tab,          \* the request a tab is waiting for
  \* history
  passed,       \* flows that came back while their mandate stood
  used, reused, \* flows whose tokens were taken, and taken again
  broken,       \* flows with a request that failed while it connected
  overwritten   \* a copy of the session was saved over a newer one

connectionVars ==
  <<session, flows, spent, app, mandate, token, usage, tab, passed, used, reused, broken, overwritten>>

Nobody == 0
Pages == 1 .. LastPage
FlowIds == 1 .. MaxFlows
Slots == Routes \cup {"pick"}
Session == [Slots -> FlowIds \cup {Nobody}]
Waiting == [step |-> "idle"]

\* The permission a route depends on.
Mandate(route) == IF route = "link" THEN "link" ELSE "member"

ConnectionTypeOK ==
  /\ session \in Session
  /\ flows \in Seq(Flow) /\ Len(flows) <= MaxFlows
  /\ spent \cup passed \cup broken \cup used \cup reused \subseteq DOMAIN flows
  /\ app \in {"none", "member", "link"}
  /\ mandate \in [{"member", "link"} -> BOOLEAN]
  /\ token \in [Homes -> [Pages -> FlowIds \cup {Nobody}]]
  /\ usage \subseteq Pages
  /\ \A t \in Tabs :
       \/ tab[t] = Waiting
       \/ /\ tab[t].step \in {"ask", "exchange", "connect", "note", "save"}
          /\ tab[t].loaded \in Session /\ tab[t].copy \in Session
  /\ overwritten \in BOOLEAN

ConnectionInit ==
  /\ session = [s \in Slots |-> Nobody]
  /\ flows = <<>>
  /\ spent = {}
  /\ app = "none"
  /\ mandate = [m \in {"member", "link"} |-> TRUE]
  /\ token = [h \in Homes |-> [p \in Pages |-> Nobody]]
  /\ usage = {}
  /\ tab = [t \in Tabs |-> Waiting]
  /\ passed = {}
  /\ used = {} /\ reused = {}
  /\ broken = {}
  /\ overwritten = FALSE

Idle(t) == tab[t] = Waiting
Cleared(slot) == [session EXCEPT ![slot] = Nobody]

\* The whole copy is saved (SESSION_SAVE_EVERY_REQUEST) and the tab is answered.
Saves(t, copy) ==
  /\ session' = copy
  /\ overwritten' = (overwritten \/ session # tab[t].loaded)
  /\ tab' = [tab EXCEPT ![t] = Waiting]

Uses(f) ==
  /\ used' = used \cup {f}
  /\ reused' = IF f \in used THEN reused \cup {f} ELSE reused

Steps(t, step, todo) == tab' = [tab EXCEPT ![t].step = step, ![t].todo = todo]

FirstOf(todo) == CHOOSE p \in todo : \A q \in todo : p <= q
\* Page p is dealt with.
Leaves(t, p) == Steps(t, IF tab[t].todo = {p} THEN "save" ELSE "connect", tab[t].todo \ {p})

-----------------------------------------------------------------------------------
(* The first request. *)

MayBegin(t, flow) == Idle(t) /\ Len(flows) < MaxFlows /\ mandate[Mandate(flow.route)]

\* Nobody is called, so the session is loaded and saved in one step.
Begin(t, flow) ==
  /\ MayBegin(t, flow)
  /\ flows' = Append(flows, flow)
  /\ session' = [session EXCEPT ![flow.route] = Len(flows')]
  /\ UNCHANGED <<spent, app, mandate, token, usage, tab, passed, used, reused, broken, overwritten>>

\* Somebody is asked first, and the session is saved after the answer.
Ask(t, flow) ==
  /\ MayBegin(t, flow)
  /\ tab' = [tab EXCEPT ![t] =
       [step |-> "ask", flow |-> flow, loaded |-> session, copy |-> session, todo |-> {}]]
  /\ UNCHANGED <<session, flows, spent, app, mandate, token, usage, passed, used, reused, broken, overwritten>>

\* connect_platform and reconnect.
ConnectPlatform(t, flow) ==
  flow.route = "member" /\ flow.kind \in {"single", "pages"} /\ Begin(t, flow)

ConnectionOauthStart(t, flow) ==
  flow.route = "link" /\ flow.kind \in {"single", "pages"} /\ Begin(t, flow)

StartComposioConnect(t, flow) == flow.route = "composio" /\ Ask(t, flow)

\* The application on the instance is the one that is stored, or a new one.
AskInstance(t, flow) ==
  flow.kind = "mastodon" /\ IF app = "none" THEN Ask(t, flow) ELSE Begin(t, flow)

ConnectMastodon(t, flow) == flow.route = "member" /\ AskInstance(t, flow)
ConnectionMastodonStart(t, flow) == flow.route = "link" /\ AskInstance(t, flow)

\* The answer: instance_url is unique, so the later of two registrations raises.
FinishAsking(t) ==
  /\ tab[t].step = "ask"
  /\ LET flow == tab[t].flow
         registers == flow.kind = "mastodon"
     IN  \/ /\ registers => app = "none"
            /\ Len(flows) < MaxFlows
            /\ flows' = Append(flows, flow)
            /\ app' = IF registers THEN flow.route ELSE app
            /\ Saves(t, [tab[t].copy EXCEPT ![flow.route] = Len(flows')])
         \/ /\ Saves(t, tab[t].copy)
            /\ UNCHANGED <<flows, app>>
  /\ UNCHANGED <<spent, mandate, token, usage, passed, used, reused, broken>>

\* There is no second request: the platform is called, and the account connected.
ConnectDirectly(t, flow) ==
  /\ flow.kind = "direct" /\ MayBegin(t, flow)
  /\ flows' = Append(flows, flow)
  /\ tab' = [tab EXCEPT ![t] = [step |-> "connect", flow |-> Len(flows'),
                                loaded |-> session, copy |-> session, todo |-> {1}]]
  /\ passed' = passed \cup {Len(flows')}
  /\ Uses(Len(flows'))
  /\ UNCHANGED <<session, spent, app, mandate, token, usage, broken, overwritten>>

\* A password or a key: Bluesky's and DEV.to's forms.
ConnectBluesky(t, flow) == flow.route = "member" /\ ConnectDirectly(t, flow)
ConnectionBlueskyConnect(t, flow) == flow.route = "link" /\ ConnectDirectly(t, flow)

-----------------------------------------------------------------------------------
(* The second request. *)

\* An instance sends back only to the redirect URI it was registered with.
ComesBack(f) == flows[f].kind = "mastodon" => app = flows[f].route

\* Mutant: whether the mandate still stands is not looked at again.
ReturnUnchecked(t, f) ==
  /\ Idle(t) /\ ComesBack(f)
  /\ LET route == flows[f].route
         without == Cleared(route)
     IN  IF session[route] = f
           THEN /\ tab' = [tab EXCEPT ![t] = [step |-> "exchange", flow |-> f,
                                              loaded |-> session, copy |-> without, todo |-> {}]]
                /\ passed' = IF mandate[Mandate(route)] THEN passed \cup {f} ELSE passed
                /\ UNCHANGED session
           ELSE /\ session' = without
                /\ UNCHANGED <<tab, passed>>
  /\ UNCHANGED <<flows, spent, app, mandate, token, usage, used, reused, broken, overwritten>>

\* The place is emptied, and only what it held is carried on with, by who may
\* still connect.
Return(t, f) ==
  /\ Idle(t) /\ ComesBack(f)
  /\ LET route == flows[f].route
         without == Cleared(route)
     IN  IF session[route] = f /\ mandate[Mandate(route)]
           THEN /\ tab' = [tab EXCEPT ![t] = [step |-> "exchange", flow |-> f,
                                              loaded |-> session, copy |-> without, todo |-> {}]]
                /\ passed' = passed \cup {f}
                /\ UNCHANGED session
           ELSE /\ session' = without
                /\ UNCHANGED <<tab, passed>>
  /\ UNCHANGED <<flows, spent, app, mandate, token, usage, used, reused, broken, overwritten>>

\* The person declined: the place is emptied, whichever flow it is for.
Decline(t, route) ==
  /\ Idle(t) /\ route # "composio"
  /\ session[route] # Nobody
  /\ session' = Cleared(route)
  /\ UNCHANGED <<flows, spent, app, mandate, token, usage, tab, passed, used, reused, broken, overwritten>>

OauthCallback(t, f) == flows[f].route = "member" /\ Return(t, f)
ConnectionOauthCallback(t, f) == flows[f].route = "link" /\ Return(t, f)
ComposioCallback(t, f) == flows[f].route = "composio" /\ Return(t, f)

\* The pages wait in the session for the member's choice.
KeepsPages(t, f) ==
  /\ tab' = [tab EXCEPT ![t].step = "save", ![t].copy = [@ EXCEPT !["pick"] = f]]
  /\ UNCHANGED <<used, reused>>

ConnectsAll(t, f) ==
  /\ Uses(f)
  /\ IF flows[f].kind = "pages" THEN Steps(t, "connect", Pages)
     ELSE \E p \in Pages : Steps(t, "connect", {p})

Exchanging(t, route) == tab[t].step = "exchange" /\ flows[tab[t].flow].route = route
ExchangeRest == <<session, flows, app, mandate, token, usage, passed, broken, overwritten>>

\* A code is good for one exchange.
ExchangeCode(t) ==
  /\ Exchanging(t, "member")
  /\ LET f == tab[t].flow
     IN  /\ f \notin spent
         /\ spent' = spent \cup {f}
         /\ IF flows[f].kind = "pages" THEN KeepsPages(t, f) ELSE ConnectsAll(t, f)
  /\ UNCHANGED ExchangeRest

\* On a link nobody chooses: all the pages are connected.
ExchangeCodeOfLink(t) ==
  /\ Exchanging(t, "link")
  /\ LET f == tab[t].flow
     IN  f \notin spent /\ spent' = spent \cup {f} /\ ConnectsAll(t, f)
  /\ UNCHANGED ExchangeRest

\* Composio has the tokens, and answers whenever it is asked.
AskComposio(t) ==
  /\ Exchanging(t, "composio")
  /\ LET f == tab[t].flow
     IN  IF flows[f].kind = "pages" THEN KeepsPages(t, f) ELSE ConnectsAll(t, f)
  /\ UNCHANGED spent
  /\ UNCHANGED ExchangeRest

ExchangeFails(t) ==
  /\ tab[t].step = "exchange"
  /\ Steps(t, "save", {})
  /\ UNCHANGED <<spent, used, reused>>
  /\ UNCHANGED ExchangeRest

\* select_account: the pages chosen on the form that are also in the session,
\* which may be none when another tab has put its own there.
Submit(t, chosen) ==
  /\ Idle(t) /\ session["pick"] # Nobody
  /\ tab' = [tab EXCEPT ![t] =
       [step |-> IF chosen = {} THEN "save" ELSE "connect", flow |-> session["pick"],
        loaded |-> session, copy |-> Cleared("pick"), todo |-> chosen]]
  /\ IF chosen = {} THEN UNCHANGED <<used, reused>> ELSE Uses(session["pick"])
  /\ UNCHANGED <<session, flows, spent, app, mandate, token, usage, passed, broken, overwritten>>

\* _create_or_update_account.
ConnectOne(t) ==
  /\ tab[t].step = "connect"
  /\ LET f == tab[t].flow
         p == FirstOf(tab[t].todo)
     IN  /\ token' = [token EXCEPT ![flows[f].home][p] = f]
         /\ IF flows[f].route = "link" THEN Steps(t, "note", tab[t].todo) ELSE Leaves(t, p)
  /\ UNCHANGED <<session, flows, spent, app, mandate, usage, passed, used, reused, broken, overwritten>>

\* ConnectionLinkUsage.get_or_create, after the account is there.
NoteUsage(t) ==
  /\ tab[t].step = "note"
  /\ LET p == FirstOf(tab[t].todo) IN usage' = usage \cup {p} /\ Leaves(t, p)
  /\ UNCHANGED <<session, flows, spent, app, mandate, token, passed, used, reused, broken, overwritten>>

\* A callback hides a failure and saves its session; select_account answers
\* 500, or the process dies, and then the session is not saved.
Break(t) ==
  /\ tab[t].step \in {"connect", "note"}
  /\ broken' = broken \cup {tab[t].flow}
  /\ \/ tab' = [tab EXCEPT ![t] = Waiting]
     \/ /\ flows[tab[t].flow].kind = "pages" => flows[tab[t].flow].route = "link"
        /\ Steps(t, "save", {})
  /\ UNCHANGED <<session, flows, spent, app, mandate, token, usage, passed, used, reused, overwritten>>

Answer(t) ==
  /\ tab[t].step = "save"
  /\ Saves(t, tab[t].copy)
  /\ UNCHANGED <<flows, spent, app, mandate, token, usage, passed, used, reused, broken>>

\* The member loses the permission; revoke_link, or the link expires.
Withdraw(m) ==
  /\ mandate[m]
  /\ mandate' = [mandate EXCEPT ![m] = FALSE]
  /\ UNCHANGED <<session, flows, spent, app, token, usage, tab, passed, used, reused, broken, overwritten>>

-----------------------------------------------------------------------------------
First(t, flow) ==
  \/ ConnectPlatform(t, flow) \/ ConnectionOauthStart(t, flow) \/ StartComposioConnect(t, flow)
  \/ ConnectMastodon(t, flow) \/ ConnectionMastodonStart(t, flow)
  \/ ConnectBluesky(t, flow) \/ ConnectionBlueskyConnect(t, flow)

Second(t, f) == OauthCallback(t, f) \/ ConnectionOauthCallback(t, f) \/ ComposioCallback(t, f)

Goes(t) ==
  \/ FinishAsking(t)
  \/ ExchangeCode(t) \/ ExchangeCodeOfLink(t) \/ AskComposio(t) \/ ExchangeFails(t)
  \/ ConnectOne(t) \/ NoteUsage(t) \/ Break(t) \/ Answer(t)

ConnectionNext ==
  \/ \E t \in Tabs :
       \/ \E flow \in Dialogues : First(t, flow)
       \/ \E f \in DOMAIN flows : Second(t, f)
       \/ \E route \in Routes : Decline(t, route)
       \/ \E chosen \in SUBSET Pages : Submit(t, chosen)
       \/ Goes(t)
  \/ \E m \in {"member", "link"} : Withdraw(m)

ConnectionSpec == ConnectionInit /\ [][ConnectionNext]_connectionVars

-----------------------------------------------------------------------------------
(* Properties. *)

Granted(h, p) == token[h][p] # Nobody

\* An account is connected in the workspace the dialogue was begun for, by a
\* dialogue that came back while the member had the permission or the link was
\* active.
TokensAreMandated ==
  \A h \in Homes, p \in Pages :
    Granted(h, p) => flows[token[h][p]].home = h /\ token[h][p] \in passed

\* A link counts the accounts it connected, unless its request failed midway.
UsageIsComplete ==
  (\A t \in Tabs : Idle(t)) =>
    \A h \in Homes, p \in Pages :
      LET f == token[h][p]
      IN  Granted(h, p) /\ flows[f].route = "link" => p \in usage \/ f \in broken

\* An authorisation is used once, unless a request that had failed is repeated
\* or a tab saved an older session over a newer one.
UsedOnce ==
  (\A t \in Tabs : Idle(t)) /\ ~overwritten =>
    \A f \in DOMAIN flows : f \in reused => f \in broken

ConnectionsAreHonest ==
  ConnectionTypeOK /\ TokensAreMandated /\ UsageIsComplete /\ UsedOnce

===================================================================================

------------------------------- MODULE MCAccounts -------------------------------
(***************************************************************************)
(* What is done with an account: the attempts to publish a row on it, with *)
(* every fault, the subscription of its page, the dialogues that connect   *)
(* it and the agents that use it, checked in one run.  The components      *)
(* share no state here; `focus', chosen at the start, says which one moves.*)
(***************************************************************************)
EXTENDS MCPublisher, Subscriptions, Connections, AgentAccess

CONSTANTS h1, h2   \* workspaces; h1 has a connection link

VARIABLE focus

Dialogue(home, route, kind) == [home |-> home, route |-> route, kind |-> kind]

\* Pages to choose from in one workspace, an account in another; pages that
\* Composio holds; and an instance that is registered with by the member of one
\* or on the link of the other.  Each focus begins dialogues of its own.
MCPages ==
  {Dialogue(h1, "member", "pages"), Dialogue(h2, "member", "single")}
MCComposio == {Dialogue(h2, "composio", "pages")}
MCInstance ==
  {Dialogue(h1, "link", "mastodon"), Dialogue(h2, "member", "mastodon"),
   Dialogue(h1, "member", "direct"), Dialogue(h1, "link", "direct"),
   Dialogue(h1, "link", "pages")}
MCDialogues == MCPages \cup MCComposio \cup MCInstance

Asked == {t \in Tabs : tab'[t].step = "ask"}
Begins(choice) ==
  {flows'[i] : i \in DOMAIN flows'} \cup {tab'[t].flow : t \in Asked} \subseteq choice

\* Keys with every permission the tools ask for, and with few.
MCScopes == {Perms, {"create_posts", "use_inbox"}}

MCTabs == Permutations(Tabs)

On(component) == focus = component /\ UNCHANGED focus

AccountsInit ==
  /\ focus \in {"publisher", "webhooks", "pages", "composio", "instance", "agents"}
  /\ Init
  /\ SubscriptionInit
  /\ ConnectionInit
  /\ AccessInit /\ (focus # "agents" => ~shared)
  /\ key = [perms |-> Perms, allow |-> Home, revoked |-> FALSE]
  /\ focus # "publisher" => status = [c \in Children |-> "scheduled"]

AccountsNext ==
  \/ On("publisher") /\ Next /\ UNCHANGED <<subscriptionVars, connectionVars, accessVars>>
  \/ On("webhooks") /\ SubscriptionNext /\ UNCHANGED <<vars, connectionVars, accessVars>>
  \/ On("pages") /\ ConnectionNext /\ Begins(MCPages) /\ UNCHANGED <<vars, subscriptionVars, accessVars>>
  \/ On("composio") /\ ConnectionNext /\ Begins(MCComposio) /\ UNCHANGED <<vars, subscriptionVars, accessVars>>
  \/ On("instance") /\ ConnectionNext /\ Begins(MCInstance) /\ UNCHANGED <<vars, subscriptionVars, accessVars>>
  \/ On("agents") /\ AccessNext /\ UNCHANGED <<vars, subscriptionVars, connectionVars>>

AccountsSpec ==
  /\ AccountsInit
  /\ [][AccountsNext]_<<focus, vars, subscriptionVars, connectionVars, accessVars>>
================================================================================

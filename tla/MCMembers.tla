------------------------------- MODULE MCMembers -------------------------------
(***************************************************************************)
(* Two workers over one post, and the people of the organization, checked  *)
(* in one run.  The two share no state: `focus', chosen at the start, says *)
(* which one moves.  Two focuses have the members to themselves: who comes *)
(* in, and who changes and leaves.                                         *)
(***************************************************************************)
EXTENDS MCPublisher, Members

VARIABLE focus

On(component) == focus = component /\ UNCHANGED focus

Comings == {"invite", "accept", "signup", "resend", "revoke", "delete"}
Changes == {"orgRole", "assign", "remove", "create", "archive", "delete", "leave"}
Asking(kinds) == \A w \in Threads : request'[w] # Idle => request'[w].kind \in kinds

PeopleInit ==
  /\ focus \in {"publisher", "comings", "changes"}
  /\ Init
  /\ MemberInit
  /\ IF focus = "publisher" THEN "draft" \notin {status[c] : c \in Children}
     ELSE status = [c \in Children |-> "scheduled"]
  /\ focus # "changes" => Active = Workspaces
  /\ focus = "publisher" => home = Others \ {NewUser}

PeopleNext ==
  \/ On("publisher") /\ Next /\ UNCHANGED memberVars
  \/ /\ On("comings") /\ MemberNext /\ Asking(Comings)
     /\ UNCHANGED vars
  \/ /\ On("changes") /\ MemberNext /\ Asking(Changes) /\ accounts' \subseteq accounts
     /\ UNCHANGED vars

PeopleSpec == PeopleInit /\ [][PeopleNext]_<<focus, vars, memberVars>>

MembersSymmetry == MCSymmetry \cup Permutations(Workspaces) \cup Permutations(Threads)
===============================================================================

-------------------------------- MODULE Members --------------------------------
(***************************************************************************)
(* The people of one organization: invitations, roles, removals, sign-ups  *)
(* and its workspaces (src/apps/members/services.py, accounts/signals.py,  *)
(* workspaces/services.py).  A request reads and checks, and writes later, *)
(* statement by statement: nothing but the checks keeps two requests apart *)
(* (the lock of _active_count_locked is dropped by the database layer,     *)
(* which counts rows without FOR UPDATE).                                  *)
(***************************************************************************)
EXTENDS Integers, FiniteSets

CONSTANTS
  Founder,      \* whose sign-up made the organization
  Others,       \* who may be invited to it
  NewUser,      \* of Others, the one who has no account yet
  Workspaces,
  Threads,      \* bound: requests at once
  Slots,        \* bound: invitations
  Roles,        \* bound: workspace roles that are given
  MaxAsked      \* bound: requests

ASSUME MemberAssumption ==
  /\ Founder \notin Others /\ NewUser \in Others
  /\ Roles \subseteq 1 .. 6
  /\ MaxAsked \in Nat \ {0}
  /\ IsFiniteSet(Threads)

VARIABLES
  org,          \* OrgMembership.org_role of a user, 0 without one
  role,         \* WorkspaceMembership.workspace_role of a user in a workspace
  space,        \* the workspaces
  invitation,   \* the Invitation in a slot, or NoInvitation
  accounts,     \* users who have an account
  home,         \* users who own the organization of their own sign-up
  session,      \* the link that NewUser's browser remembers, or NoLink
  request,      \* what a worker is doing, or Idle
  begun,        \* requests begun, counted
  \* history
  madeBy,       \* who gave a member the org role
  entrants,     \* who came in through an invitation
  disturbed     \* users, slots and workspaces that two requests were about at
                \* once, or that one was about when it failed half-way

orgVars == <<org, madeBy>>
linkVars == <<invitation, session, entrants>>
userVars == <<accounts, home>>
workVars == <<request, begun, disturbed>>
memberVars == <<orgVars, linkVars, userVars, workVars, role, space>>

Users == Others \cup {Founder}

\* ORG_ROLE_LEVEL and WS_ROLE_LEVEL; the levels between are left out.
OrgRoles == 1 .. 3
Owner == 3
Admin == 2
Manager == 5
Assignments == [Workspaces -> Roles \cup {0, 1, 6}]
Nowhere == [x \in Workspaces |-> 0]
Only(x, r) == [Nowhere EXCEPT ![x] = r]

\* Bound: a request gives a role in one workspace at most.
Given == {Nowhere} \cup {Only(x, n) : x \in Workspaces, n \in Roles}

NoInvitation == [email |-> "none"]
NoLink == [token |-> 0]
Idle == [step |-> "idle"]
Kinds == {"invite", "accept", "signup", "resend", "revoke", "remove", "orgRole",
          "assign", "create", "archive", "delete", "leave"}

IsInvitation(i) ==
  /\ i.email \in Others /\ i.org \in OrgRoles /\ i.place \in Assignments
  /\ i.by \in Users /\ i.token \in 1 .. MaxAsked + 1
  /\ i.live \in BOOLEAN /\ i.done \in BOOLEAN

MemberTypeOK ==
  /\ org \in [Users -> OrgRoles \cup {0}]
  /\ role \in [Users -> Assignments]
  /\ space \in [Workspaces -> {"unborn", "active", "archived", "gone"}]
  /\ \A s \in Slots : invitation[s] = NoInvitation \/ IsInvitation(invitation[s])
  /\ accounts \subseteq Users /\ home \subseteq accounts
  /\ \A w \in Threads : request[w] = Idle \/ request[w].kind \in Kinds
  /\ begun \in 0 .. MaxAsked
  /\ \A u \in Users : org[u] # 0 => madeBy[u] \in Users

\* Some joined earlier, as admins with a low role.
MemberInit ==
  /\ \E born \in (SUBSET Workspaces) \ {{}}, staff \in SUBSET (Others \ {NewUser}) :
       /\ org = [u \in Users |-> IF u = Founder THEN Owner ELSE IF u \in staff THEN Admin ELSE 0]
       /\ role = [u \in Users |-> [x \in Workspaces |->
            IF x \notin born THEN 0 ELSE IF u = Founder THEN 6 ELSE IF u \in staff THEN 1 ELSE 0]]
       /\ space = [x \in Workspaces |-> IF x \in born THEN "active" ELSE "unborn"]
       /\ home = Others \ (staff \cup {NewUser})
  /\ invitation = [s \in Slots |-> NoInvitation]
  /\ accounts = Users \ {NewUser}
  /\ session = NoLink
  /\ request = [w \in Threads |-> Idle]
  /\ begun = 0
  /\ madeBy = [u \in Users |-> Founder]
  /\ entrants = [s \in Slots |-> {}]
  /\ disturbed = {}

-----------------------------------------------------------------------------------
(* Requests.  A request is about users, slots or workspaces, and holds the rows *)
(* it has read: <<u>> is a membership, <<u, x>> one of a workspace, <<x>> a     *)
(* workspace.  A row that another request deletes is no longer held.            *)

Busy == {w \in Threads : request[w] # Idle}

Begin(w, r) ==
  /\ request[w] = Idle /\ begun < MaxAsked
  /\ begun' = begun + 1
  /\ request' = [request EXCEPT ![w] = r]
  /\ disturbed' = disturbed \cup UNION {request[v].about \cap r.about : v \in Busy}

AtStep(w, kind, step) == request[w] # Idle /\ request[w].kind = kind /\ request[w].step = step

\* The worker goes on to `next', an Idle one when it is done; rows are deleted.
Proceeds(w, next, rows) ==
  request' = [v \in Threads |->
    IF v = w THEN next
    ELSE IF request[v] = Idle THEN Idle
    ELSE [request[v] EXCEPT !.holds = @ \ rows]]
GoesTo(w, step) == [request[w] EXCEPT !.step = step]
FailsIf(cond, w) == disturbed' = IF cond THEN disturbed \cup request[w].about ELSE disturbed

\* _inviter_workspace_level.
Level(u, x) == IF org[u] = Owner THEN 6 ELSE role[u][x]
Active == {x \in Workspaces : space[x] = "active"}
Owners == {u \in Users : org[u] = Owner}
InActive(place) == \A x \in Workspaces : place[x] # 0 => x \in Active
MayGrant(u, place) == \A x \in Workspaces : place[x] <= Level(u, x)
IsAdmin(u) == org[u] >= Admin

\* Mutant: an admin makes admins.
MayMakeEqual(u, r) == r # Owner /\ (r >= Admin => r <= org[u])

\* Nobody is made an owner; admins are made by those above them.
MayMake(u, r) == r # Owner /\ (r >= Admin => r < org[u])

-----------------------------------------------------------------------------------
(* Invitations. *)

\* The admins' page, or a manager's page for the clients of one workspace.
MayInvite(u, place) ==
  \/ IsAdmin(u)
  \/ \E x \in Active : role[u][x] >= Manager /\ place = Only(x, 1)

IsPending(s, email) ==
  invitation[s].email = email /\ invitation[s].live /\ ~invitation[s].done
Free == {s \in Slots : invitation[s] = NoInvitation}

Invite(w) ==
  \E by \in accounts, email \in Others, r \in OrgRoles,
     place \in Given :
    /\ MayInvite(by, place)
    /\ org[email] = 0
    /\ InActive(place)
    /\ \A s \in Slots : ~IsPending(s, email)
    /\ MayMake(by, r)
    /\ MayGrant(by, place)
    /\ Begin(w, [kind |-> "invite", step |-> "create", by |-> by, about |-> {by, email}, holds |-> {},
                 new |-> [email |-> email, org |-> r, place |-> place, by |-> by,
                          token |-> 1, live |-> TRUE, done |-> FALSE]])
    /\ UNCHANGED <<orgVars, linkVars, userVars, role, space>>

\* The row refers to the user who invites.
CreateInvitation(w) ==
  /\ AtStep(w, "invite", "create")
  /\ IF request[w].by \in accounts /\ Free # {}
       THEN \E s \in Free : invitation' = [invitation EXCEPT ![s] = request[w].new]
       ELSE UNCHANGED invitation
  /\ Proceeds(w, Idle, {})
  /\ UNCHANGED <<orgVars, userVars, session, entrants, begun, disturbed, role, space>>

\* resend_invitation and revoke_invitation of an invitation not yet accepted; an
\* expired one can be sent again.
Reissue(w) ==
  \E by \in accounts, s \in Slots \ Free, kind \in {"resend", "revoke"} :
    /\ IsAdmin(by)
    /\ ~invitation[s].done
    /\ Begin(w, [kind |-> kind, step |-> "save", slot |-> s, about |-> {s}, holds |-> {}])
    /\ UNCHANGED <<orgVars, linkVars, userVars, role, space>>

SaveReissue(w) ==
  /\ AtStep(w, "resend", "save") \/ AtStep(w, "revoke", "save")
  /\ invitation' =
       IF request[w].kind = "revoke" THEN [invitation EXCEPT ![request[w].slot].live = FALSE]
       ELSE [invitation EXCEPT ![request[w].slot].live = TRUE, ![request[w].slot].token = @ + 1]
  /\ Proceeds(w, Idle, {})
  /\ UNCHANGED <<orgVars, userVars, session, entrants, begun, disturbed, role, space>>

\* INVITE_EXPIRY_DAYS pass.
Expire(s) ==
  /\ invitation[s] # NoInvitation /\ invitation[s].live
  /\ invitation' = [invitation EXCEPT ![s].live = FALSE]
  /\ UNCHANGED <<orgVars, userVars, workVars, session, entrants, role, space>>

IsOpen(i) == i # NoInvitation /\ i.live /\ ~i.done

\* accept_invite, GET: the link is remembered for a sign-up.
ShowInvite(s) ==
  /\ NewUser \notin accounts
  /\ IsOpen(invitation[s])
  /\ session' = [slot |-> s, token |-> invitation[s].token]
  /\ UNCHANGED <<orgVars, userVars, workVars, invitation, entrants, role, space>>

Accepting(u, kind, s) ==
  [kind |-> kind, step |-> "join", by |-> u, slot |-> s, about |-> {u, s}, holds |-> {},
   seen |-> invitation[s]]

\* accept_invite, POST.
Accept(w) ==
  \E s \in Slots :
    /\ IsOpen(invitation[s])
    /\ invitation[s].email \in accounts
    /\ Begin(w, Accepting(invitation[s].email, "accept", s))
    /\ UNCHANGED <<orgVars, linkVars, userVars, role, space>>

IsLink(l) == l # NoLink /\ IsOpen(invitation[l.slot]) /\ invitation[l.slot].token = l.token

\* The account gets an organization of its own; then create_organization_on_signup
\* takes the link out of the session, whoever it was sent to.
SignUp(w) ==
  /\ NewUser \notin accounts
  /\ accounts' = accounts \cup {NewUser}
  /\ home' = home \cup {NewUser}
  /\ session' = NoLink
  /\ IF IsLink(session)
       THEN Begin(w, Accepting(NewUser, "signup", session.slot))
       ELSE request[w] = Idle /\ UNCHANGED workVars
  /\ UNCHANGED <<orgVars, invitation, entrants, role, space>>

\* accept_invitation: get_or_create of the membership...
JoinOrg(w) ==
  /\ AtStep(w, "accept", "join") \/ AtStep(w, "signup", "join")
  /\ LET u == request[w].by
         i == request[w].seen
         comes == u \in accounts /\ org[u] = 0
     IN  /\ org' = IF comes THEN [org EXCEPT ![u] = i.org] ELSE org
         /\ madeBy' = IF comes THEN [madeBy EXCEPT ![u] = i.by] ELSE madeBy
         /\ entrants' = IF comes THEN [entrants EXCEPT ![request[w].slot] = @ \cup {u}] ELSE entrants
         /\ Proceeds(w, IF u \in accounts THEN GoesTo(w, "spaces") ELSE Idle, {})
  /\ UNCHANGED <<userVars, invitation, session, begun, disturbed, role, space>>

\* ... and of those of the workspaces: one that is gone ends the request.
JoinSpaces(w) ==
  /\ AtStep(w, "accept", "spaces") \/ AtStep(w, "signup", "spaces")
  /\ LET u == request[w].by
         place == request[w].seen.place
         fails == u \notin accounts \/ \E x \in Workspaces : place[x] # 0 /\ space[x] = "gone"
     IN  /\ role' = IF fails THEN role
                    ELSE [role EXCEPT ![u] = [x \in Workspaces |-> IF @[x] = 0 THEN place[x] ELSE @[x]]]
         /\ Proceeds(w, IF fails THEN Idle ELSE GoesTo(w, "mark"), {})
         /\ FailsIf(fails, w)
  /\ UNCHANGED <<orgVars, linkVars, userVars, begun, space>>

\* accepted_at; a sign-up then deletes the organization of its own.
MarkAccepted(w) ==
  /\ AtStep(w, "accept", "mark") \/ AtStep(w, "signup", "mark")
  /\ invitation' = [invitation EXCEPT ![request[w].slot].done = TRUE]
  /\ home' = IF request[w].kind = "signup" THEN home \ {request[w].by} ELSE home
  /\ Proceeds(w, Idle, {})
  /\ UNCHANGED <<orgVars, accounts, session, entrants, begun, disturbed, role, space>>

-----------------------------------------------------------------------------------
(* Members. *)

\* remove_member.
RemoveMember(w) ==
  \E by \in accounts, u \in Users :
    /\ u # by
    /\ IsAdmin(by) /\ org[u] # 0
    /\ org[u] = Owner => Cardinality(Owners) > 1
    /\ Begin(w, [kind |-> "remove", step |-> "spaces", by |-> by, of |-> u, about |-> {by, u}, holds |-> {<<u>>}])
    /\ UNCHANGED <<orgVars, linkVars, userVars, role, space>>

LeaveSpaces(w) ==
  /\ AtStep(w, "remove", "spaces")
  /\ role' = [role EXCEPT ![request[w].of] = Nowhere]
  /\ Proceeds(w, GoesTo(w, "org"), {<<request[w].of, x>> : x \in Workspaces})
  /\ UNCHANGED <<orgVars, linkVars, userVars, begun, disturbed, space>>

LeaveOrg(w) ==
  /\ AtStep(w, "remove", "org")
  /\ LET u == request[w].of
     IN  /\ org' = IF <<u>> \in request[w].holds THEN [org EXCEPT ![u] = 0] ELSE org
         /\ Proceeds(w, Idle, {<<u>>})
  /\ UNCHANGED <<linkVars, userVars, begun, disturbed, madeBy, role, space>>

\* update_member_org_role.
ChangeOrgRole(w) ==
  \E by \in accounts, u \in Users, r \in OrgRoles :
    /\ IsAdmin(by) /\ org[u] # 0
    /\ MayMake(by, r)
    /\ org[by] >= org[u]
    /\ org[u] = Owner => Cardinality(Owners) > 1
    /\ Begin(w, [kind |-> "orgRole", step |-> "save", by |-> by, of |-> u, new |-> r,
                 about |-> {by, u}, holds |-> {<<u>>}])
    /\ UNCHANGED <<orgVars, linkVars, userVars, role, space>>

SaveOrgRole(w) ==
  /\ AtStep(w, "orgRole", "save")
  /\ LET r == request[w]
     IN  IF <<r.of>> \in r.holds
           THEN org' = [org EXCEPT ![r.of] = r.new] /\ madeBy' = [madeBy EXCEPT ![r.of] = r.by]
           ELSE UNCHANGED orgVars
  /\ Proceeds(w, Idle, {})
  /\ UNCHANGED <<linkVars, userVars, begun, disturbed, role, space>>

\* update_workspace_assignments: authority over the role there is and the new one.
MayReassign(by, u, place) ==
  /\ MayGrant(by, place)
  /\ \A x \in Active : place[x] # role[u][x] => role[u][x] <= Level(by, x)

Reassign(w) ==
  \E by \in accounts, u \in Users, place \in Given :
    /\ IsAdmin(by) /\ org[u] # 0
    /\ InActive(place)
    /\ MayReassign(by, u, place)
    /\ Begin(w, [kind |-> "assign", step |-> "drop", by |-> by, of |-> u, new |-> place,
                 seen |-> [x \in Workspaces |-> IF x \in Active THEN role[u][x] ELSE 0],
                 about |-> {by, u}, holds |-> {<<u, x>> : x \in {y \in Active : role[u][y] # 0}}])
    /\ UNCHANGED <<orgVars, linkVars, userVars, role, space>>

DropSpaces(w) ==
  /\ AtStep(w, "assign", "drop")
  /\ LET r == request[w]
         out == {x \in Workspaces : <<r.of, x>> \in r.holds /\ r.new[x] = 0}
     IN  /\ role' = [role EXCEPT ![r.of] = [x \in Workspaces |-> IF x \in out THEN 0 ELSE @[x]]]
         /\ Proceeds(w, GoesTo(w, "set"), {<<r.of, x>> : x \in out})
  /\ UNCHANGED <<orgVars, linkVars, userVars, begun, disturbed, space>>

\* A row that is gone cannot be saved nor one that is there created: what comes
\* after it is not written.
SetSpaces(w) ==
  /\ AtStep(w, "assign", "set")
  /\ LET r == request[w]
         todo == {x \in Workspaces : r.new[x] # 0 /\ r.new[x] # r.seen[x]}
         able == {x \in todo : IF r.seen[x] # 0 THEN <<r.of, x>> \in r.holds
                               ELSE role[r.of][x] = 0 /\ space[x] # "gone" /\ r.of \in accounts}
     IN  /\ \E done \in IF able = todo THEN {todo} ELSE SUBSET able :
              role' = [role EXCEPT ![r.of] = [x \in Workspaces |-> IF x \in done THEN r.new[x] ELSE @[x]]]
         /\ FailsIf(able # todo, w)
  /\ Proceeds(w, Idle, {})
  /\ UNCHANGED <<orgVars, linkVars, userVars, begun, space>>

\* delete_account, which refuses the sole owner of an organization.
DeleteAccount(w) ==
  \E u \in accounts \ home :
    /\ Owners # {u}
    /\ Begin(w, [kind |-> "leave", step |-> "delete", of |-> u, about |-> {u}, holds |-> {}])
    /\ UNCHANGED <<orgVars, linkVars, userVars, role, space>>

EraseUser(w) ==
  /\ AtStep(w, "leave", "delete")
  /\ LET u == request[w].of
     IN  /\ accounts' = accounts \ {u}
         /\ home' = home \ {u}
         /\ org' = [org EXCEPT ![u] = 0]
         /\ role' = [role EXCEPT ![u] = Nowhere]
         /\ Proceeds(w, Idle, {<<u>>} \cup {<<u, x>> : x \in Workspaces})
  /\ UNCHANGED <<linkVars, madeBy, begun, disturbed, space>>

-----------------------------------------------------------------------------------
(* Workspaces. *)

CreateSpace(w) ==
  \E by \in accounts, x \in Workspaces :
    /\ IsAdmin(by) /\ space[x] = "unborn"
    /\ Begin(w, [kind |-> "create", step |-> "save", by |-> by, space |-> x, about |-> {by}, holds |-> {}])
    /\ UNCHANGED <<orgVars, linkVars, userVars, role, space>>

SaveSpace(w) ==
  /\ AtStep(w, "create", "save")
  /\ LET r == request[w]
     IN  IF space[r.space] # "unborn" THEN UNCHANGED <<role, space>>
         ELSE /\ space' = [space EXCEPT ![r.space] = "active"]
              /\ role' = IF r.by \in accounts THEN [role EXCEPT ![r.by][r.space] = 6] ELSE role
  /\ Proceeds(w, Idle, {})
  /\ UNCHANGED <<orgVars, linkVars, userVars, begun, disturbed>>

\* archive_workspace and delete_workspace: never the last active one.  They are
\* about all workspaces: they count them.
CloseSpace(w) ==
  \E by \in accounts, x \in Workspaces, kind \in {"archive", "delete"} :
    /\ role[by][x] >= Manager
    /\ \/ space[x] = "active" /\ Cardinality(Active) > 1
       \/ space[x] = "archived" /\ kind = "delete"
    /\ Begin(w, [kind |-> kind, step |-> "save", space |-> x, about |-> Workspaces, holds |-> {<<x>>}])
    /\ UNCHANGED <<orgVars, linkVars, userVars, role, space>>

SaveClosed(w) ==
  /\ AtStep(w, "archive", "save") \/ AtStep(w, "delete", "save")
  /\ LET x == request[w].space
         held == <<x>> \in request[w].holds
         gone == held /\ request[w].kind = "delete"
     IN  /\ space' = IF gone THEN [space EXCEPT ![x] = "gone"]
                     ELSE IF held THEN [space EXCEPT ![x] = "archived"] ELSE space
         /\ role' = IF gone THEN [u \in Users |-> [role[u] EXCEPT ![x] = 0]] ELSE role
         /\ Proceeds(w, Idle, IF gone THEN {<<x>>} \cup {<<u, x>> : u \in Users} ELSE {})
  /\ UNCHANGED <<orgVars, linkVars, userVars, begun, disturbed>>

UnarchiveSpace ==
  \E by \in accounts, x \in Workspaces :
    /\ role[by][x] >= Manager /\ space[x] = "archived"
    /\ space' = [space EXCEPT ![x] = "active"]
    /\ UNCHANGED <<orgVars, linkVars, userVars, workVars, role>>

-----------------------------------------------------------------------------------
MemberNext ==
  \/ \E w \in Threads :
       \/ Invite(w) \/ CreateInvitation(w) \/ Reissue(w) \/ SaveReissue(w)
       \/ Accept(w) \/ SignUp(w) \/ JoinOrg(w) \/ JoinSpaces(w) \/ MarkAccepted(w)
       \/ RemoveMember(w) \/ LeaveSpaces(w) \/ LeaveOrg(w)
       \/ ChangeOrgRole(w) \/ SaveOrgRole(w)
       \/ Reassign(w) \/ DropSpaces(w) \/ SetSpaces(w)
       \/ DeleteAccount(w) \/ EraseUser(w)
       \/ CreateSpace(w) \/ SaveSpace(w) \/ CloseSpace(w) \/ SaveClosed(w)
  \/ \E s \in Slots : Expire(s) \/ ShowInvite(s)
  \/ UnarchiveSpace

MemberSpec == MemberInit /\ [][MemberNext]_memberVars

-----------------------------------------------------------------------------------
(* Properties. *)

Undisturbed(S) == S \cap disturbed = {} /\ \A w \in Busy : request[w].about \cap S = {}

\* The organization keeps the owner it began with, and no other, whoever removes,
\* demotes or invites whom at the same time; and every admin was made by the owner.
OneOwner == Owners = {Founder} /\ \A u \in Users : org[u] = Admin => madeBy[u] = Founder

\* Who is no member has no role left in a workspace, unless two requests about the
\* same person overlapped: a removal deletes the roles first.
NobodyLingers == \A u \in Users : Undisturbed({u}) /\ org[u] = 0 => role[u] = Nowhere

\* An invitation lets one person in, the one it was sent to or a sign-up that had
\* the link, unless two of them came at once or the acceptance failed half-way.
OneEntrant == \A s \in Slots : s \notin disturbed => Cardinality(entrants[s]) <= 1

\* The last active workspace is not archived or deleted, except by two at once.
SomewhereToWork == Workspaces \cap disturbed = {} => Active # {}

\* What was checked of a change of roles is still so when it is written, unless
\* another request about one of the two persons came between.
ChecksStillHold ==
  \A w \in Busy :
    LET r == request[w]
    IN  r.about \cap disturbed = {} =>
          /\ AtStep(w, "assign", "drop") =>
               \A x \in Active : r.new[x] # r.seen[x] =>
                 r.new[x] <= Level(r.by, x) /\ role[r.of][x] <= Level(r.by, x)
          /\ AtStep(w, "orgRole", "save") => org[r.by] >= org[r.of] /\ MayMake(r.by, r.new)

\* Whatever requests meet: the organization's owner, admins, members' roles,
\* entrants and workspaces are what the checks of each request make them, with
\* the exceptions each part names.
MembershipIsHonest ==
  /\ MemberTypeOK
  /\ OneOwner /\ NobodyLingers /\ OneEntrant /\ SomewhereToWork /\ ChecksStillHold
===================================================================================

------------------------------ MODULE MembersProofs ------------------------------
(***************************************************************************)
(* Theorems about Members, for any people, workspaces, invitations, number *)
(* of workers and of requests.                                             *)
(***************************************************************************)
EXTENDS Members, FiniteSetTheorems, TLAPS

---------------------------------------------------------------------------------
(* The invariant. *)

\* What a request is about, and the rows it holds.
Subjects == Users \cup Slots \cup Workspaces
Keys == {<<a>> : a \in Users \cup Workspaces} \cup (Users \X Workspaces)

\* Invitations as the checks of create_invitation leave them.
Good ==
  {i \in [email : Others, org : OrgRoles \ {Owner}, place : Assignments, by : Users,
          token : Nat \ {0}, live : BOOLEAN, done : BOOLEAN] : i.org = Admin => i.by = Founder}

Fresh == {i \in Good : i.token = 1}

Invites == [kind : {"invite"}, step : {"create"}, by : Users, new : Fresh,
            about : SUBSET Subjects, holds : SUBSET Keys]
Accepts == [kind : {"accept", "signup"}, step : {"join", "spaces", "mark"}, by : Users, slot : Slots,
            seen : Good, about : SUBSET Subjects, holds : SUBSET Keys]
Reissues == [kind : {"resend", "revoke"}, step : {"save"}, slot : Slots,
             about : SUBSET Subjects, holds : SUBSET Keys]
Removals == [kind : {"remove"}, step : {"spaces", "org"}, by : Users, of : Users,
             about : SUBSET Subjects, holds : SUBSET Keys]
RoleChanges == [kind : {"orgRole"}, step : {"save"}, by : Users, of : Users, new : OrgRoles,
                about : SUBSET Subjects, holds : SUBSET Keys]
Assigns == [kind : {"assign"}, step : {"drop", "set"}, by : Users, of : Users,
            new : Assignments, seen : Assignments, about : SUBSET Subjects, holds : SUBSET Keys]
Departures == [kind : {"leave"}, step : {"delete"}, of : Users,
               about : SUBSET Subjects, holds : SUBSET Keys]
Creations == [kind : {"create"}, step : {"save"}, by : Users, space : Workspaces,
              about : SUBSET Subjects, holds : SUBSET Keys]
Closings == [kind : {"archive", "delete"}, step : {"save"}, space : Workspaces,
             about : SUBSET Subjects, holds : SUBSET Keys]
Requests == Invites \cup Accepts \cup Reissues \cup Removals \cup RoleChanges \cup Assigns
            \cup Departures \cup Creations \cup Closings

MemberShape ==
  /\ org \in [Users -> OrgRoles \cup {0}]
  /\ role \in [Users -> Assignments]
  /\ space \in [Workspaces -> {"unborn", "active", "archived", "gone"}]
  /\ invitation \in [Slots -> Good \cup {NoInvitation}]
  /\ session \in [slot : Slots, token : Nat] \cup {NoLink}
  /\ accounts \subseteq Users /\ home \subseteq accounts
  /\ request \in [Threads -> Requests \cup {Idle}]
  /\ begun \in 0 .. MaxAsked
  /\ madeBy \in [Users -> Users]
  /\ entrants \in [Slots -> SUBSET Users]

\* What is still so of a request, unless another about the same came between.
AcceptFits(r) ==
  /\ r.by \in r.about /\ r.slot \in r.about
  /\ invitation[r.slot] # NoInvitation
  /\ r.step = "join" => r.slot \in disturbed \/ entrants[r.slot] = {}
  /\ r.step = "spaces" => r.by \in disturbed \/ org[r.by] # 0

ReissueFits(r) == invitation[r.slot] # NoInvitation

RemovalFits(r) ==
  /\ r.of \in r.about /\ r.of # Founder
  /\ r.step = "org" => r.of \in disturbed \/ role[r.of] = Nowhere

RoleChangeFits(r) ==
  /\ r.by \in r.about /\ r.of \in r.about /\ r.of # Founder
  /\ r.new # Owner /\ (r.new = Admin => r.by = Founder)
  /\ r.about \cap disturbed = {} => org[r.by] >= org[r.of] /\ MayMake(r.by, r.new)

AssignFits(r) ==
  /\ r.by \in r.about /\ r.of \in r.about
  /\ r.of \in disturbed \/ org[r.of] # 0
  /\ r.step = "drop" /\ r.about \cap disturbed = {} =>
       \A x \in Workspaces : space[x] # "gone" /\ r.new[x] # r.seen[x] =>
         r.new[x] <= Level(r.by, x) /\ role[r.of][x] <= Level(r.by, x)

DepartureFits(r) == r.of \in r.about /\ r.of # Founder

CreationFits(r) == r.by \in r.about /\ (r.by \in disturbed \/ org[r.by] # 0)

ClosingFits(r) ==
  /\ r.about = Workspaces
  /\ <<r.space>> \in r.holds => space[r.space] \in {"active", "archived"}
  /\ Workspaces \cap disturbed = {} => \E y \in Active : y # r.space

Fits(r) ==
  /\ r \in Accepts => AcceptFits(r)
  /\ r \in Reissues => ReissueFits(r)
  /\ r \in Removals => RemovalFits(r)
  /\ r \in RoleChanges => RoleChangeFits(r)
  /\ r \in Assigns => AssignFits(r)
  /\ r \in Departures => DepartureFits(r)
  /\ r \in Creations => CreationFits(r)
  /\ r \in Closings => ClosingFits(r)

RequestsFit == \A w \in Threads : \A r \in Requests : request[w] = r => Fits(r)

\* Two requests about the same disturb it.
RequestsApart ==
  \A v, w \in Threads : v # w /\ request[v] # Idle /\ request[w] # Idle =>
    request[v].about \cap request[w].about \subseteq disturbed

\* Who is no member has no role, not even while a request is about him.
NobodyIsLeft == \A u \in Users : u \notin disturbed /\ org[u] = 0 => role[u] = Nowhere

\* Who came in through an invitation is on his way to marking it, or has.
ComingIn(w, s) == request[w] \in Accepts /\ request[w].slot = s /\ request[w].step \in {"spaces", "mark"}
OneComesIn ==
  \A s \in Slots : s \notin disturbed /\ entrants[s] # {} =>
    /\ \E u \in Users : entrants[s] = {u}
    /\ invitation[s] # NoInvitation
    /\ invitation[s].done \/ \E w \in Threads : ComingIn(w, s)

\* A link is reissued once for each request that asked for it.
Resending(s) == {w \in Threads : request[w] \in Reissues /\ request[w].kind = "resend" /\ request[w].slot = s}
TokensCounted ==
  /\ \A s \in Slots : invitation[s] # NoInvitation =>
       invitation[s].token + Cardinality(Resending(s)) <= begun
  /\ Busy # {} => begun > 0

MemberInv ==
  /\ MemberShape /\ OneOwner /\ NobodyIsLeft /\ OneComesIn /\ SomewhereToWork
  /\ RequestsFit /\ RequestsApart /\ TokensCounted

---------------------------------------------------------------------------------
(* Requests. *)

\* An invitation is one, and it is not NoInvitation.
LEMMA GoodIsOne == \A i \in Good : i # NoInvitation
<1>. SUFFICES ASSUME NEW i \in Good, i = NoInvitation PROVE FALSE
  OBVIOUS
<1>1. DOMAIN i = {"email", "org", "place", "by", "token", "live", "done"}
  BY DEF Good
<1>2. DOMAIN i = {"email"}
  BY DEF NoInvitation
<1>3. "org" \in DOMAIN i
  BY <1>1
<1>. QED
  BY <1>2, <1>3

\* The kind of a request says which fields it has.
LEMMA KindOf ==
  ASSUME NEW r \in Requests
  PROVE  /\ r # Idle /\ r.kind \in Kinds
         /\ r.about \in SUBSET Subjects /\ r.holds \in SUBSET Keys
         /\ r \in Invites <=> r.kind = "invite"
         /\ r \in Accepts <=> r.kind \in {"accept", "signup"}
         /\ r \in Reissues <=> r.kind \in {"resend", "revoke"}
         /\ r \in Removals <=> r.kind = "remove"
         /\ r \in RoleChanges <=> r.kind = "orgRole"
         /\ r \in Assigns <=> r.kind = "assign"
         /\ r \in Departures <=> r.kind = "leave"
         /\ r \in Creations <=> r.kind = "create"
         /\ r \in Closings <=> r.kind \in {"archive", "delete"}
<1>1. /\ r.kind \in Kinds
      /\ r.about \in SUBSET Subjects /\ r.holds \in SUBSET Keys
  BY DEF Requests, Kinds, Invites, Accepts, Reissues, Removals, RoleChanges, Assigns, Departures,
         Creations, Closings
<1>2. r # Idle
  <2>1. r.step # "idle"
    BY DEF Requests, Invites, Accepts, Reissues, Removals, RoleChanges, Assigns, Departures,
           Creations, Closings
  <2>. QED
    BY <2>1 DEF Idle
<1>3. /\ r \in Invites <=> r.kind = "invite"
      /\ r \in Accepts <=> r.kind \in {"accept", "signup"}
      /\ r \in Reissues <=> r.kind \in {"resend", "revoke"}
      /\ r \in Removals <=> r.kind = "remove"
      /\ r \in RoleChanges <=> r.kind = "orgRole"
      /\ r \in Assigns <=> r.kind = "assign"
      /\ r \in Departures <=> r.kind = "leave"
      /\ r \in Creations <=> r.kind = "create"
      /\ r \in Closings <=> r.kind \in {"archive", "delete"}
  <2>1. /\ r \in Invites => r.kind = "invite"
        /\ r \in Accepts => r.kind \in {"accept", "signup"}
        /\ r \in Reissues => r.kind \in {"resend", "revoke"}
        /\ r \in Removals => r.kind = "remove"
        /\ r \in RoleChanges => r.kind = "orgRole"
        /\ r \in Assigns => r.kind = "assign"
        /\ r \in Departures => r.kind = "leave"
        /\ r \in Creations => r.kind = "create"
        /\ r \in Closings => r.kind \in {"archive", "delete"}
    BY DEF Invites, Accepts, Reissues, Removals, RoleChanges, Assigns, Departures, Creations, Closings
  <2>. QED
    BY <2>1 DEF Requests
<1>. QED
  BY <1>1, <1>2, <1>3

\* A request that no longer holds some rows.
Without(r, rows) == [r EXCEPT !.holds = @ \ rows]

LEMMA WithoutIsRequest ==
  ASSUME NEW r \in Requests, NEW rows
  PROVE  /\ Without(r, rows) \in Requests
         /\ r \in Accepts <=> Without(r, rows) \in Accepts
         /\ r \in Reissues <=> Without(r, rows) \in Reissues
         /\ r \in Removals <=> Without(r, rows) \in Removals
         /\ r \in RoleChanges <=> Without(r, rows) \in RoleChanges
         /\ r \in Assigns <=> Without(r, rows) \in Assigns
         /\ r \in Departures <=> Without(r, rows) \in Departures
         /\ r \in Creations <=> Without(r, rows) \in Creations
         /\ r \in Closings <=> Without(r, rows) \in Closings
         /\ Without(r, rows).kind = r.kind /\ Without(r, rows).step = r.step
         /\ Without(r, rows).about = r.about /\ Without(r, rows).holds = r.holds \ rows
<1>. DEFINE q == Without(r, rows)
<1>1. r \in Invites => q \in Invites
  BY DEF Without, Invites
<1>2. r \in Accepts => q \in Accepts
  BY DEF Without, Accepts
<1>3. r \in Reissues => q \in Reissues
  BY DEF Without, Reissues
<1>4. r \in Removals => q \in Removals
  BY DEF Without, Removals
<1>5. r \in RoleChanges => q \in RoleChanges
  BY DEF Without, RoleChanges
<1>6. r \in Assigns => q \in Assigns
  BY DEF Without, Assigns
<1>7. r \in Departures => q \in Departures
  BY DEF Without, Departures
<1>8. r \in Creations => q \in Creations
  BY DEF Without, Creations
<1>9. r \in Closings => q \in Closings
  BY DEF Without, Closings
<1>10. q.kind = r.kind /\ q.step = r.step /\ q.about = r.about /\ q.holds = r.holds \ rows
  <2>1. {"kind", "step", "about", "holds"} \subseteq DOMAIN r
    BY DEF Requests, Invites, Accepts, Reissues, Removals, RoleChanges, Assigns, Departures,
           Creations, Closings
  <2>. QED
    BY <2>1 DEF Without
<1>11. q \in Requests
  <2>. HIDE DEF q
  <2>. QED
    BY <1>1, <1>2, <1>3, <1>4, <1>5, <1>6, <1>7, <1>8, <1>9 DEF Requests
<1>. QED
  <2>. HIDE DEF q
  <2>1. /\ r \in Accepts <=> q \in Accepts
        /\ r \in Reissues <=> q \in Reissues
        /\ r \in Removals <=> q \in Removals
        /\ r \in RoleChanges <=> q \in RoleChanges
        /\ r \in Assigns <=> q \in Assigns
        /\ r \in Departures <=> q \in Departures
        /\ r \in Creations <=> q \in Creations
        /\ r \in Closings <=> q \in Closings
    BY <1>10, <1>11, KindOf
  <2>. QED
    BY <1>10, <1>11, <2>1 DEF q

\* It is about the same persons, slots and workspaces.
LEMMA WithoutIsSame ==
  ASSUME NEW r \in Requests, NEW rows
  PROVE  /\ r \in Accepts => /\ Without(r, rows).by = r.by /\ Without(r, rows).slot = r.slot
                             /\ Without(r, rows).seen = r.seen
         /\ r \in Reissues => Without(r, rows).slot = r.slot
         /\ r \in Removals => Without(r, rows).of = r.of
         /\ r \in RoleChanges => /\ Without(r, rows).by = r.by /\ Without(r, rows).of = r.of
                                 /\ Without(r, rows).new = r.new
         /\ r \in Assigns => /\ Without(r, rows).by = r.by /\ Without(r, rows).of = r.of
                             /\ Without(r, rows).new = r.new /\ Without(r, rows).seen = r.seen
         /\ r \in Departures => Without(r, rows).of = r.of
         /\ r \in Creations => Without(r, rows).by = r.by
         /\ r \in Closings => Without(r, rows).space = r.space
<1>1. r \in Accepts => /\ Without(r, rows).by = r.by /\ Without(r, rows).slot = r.slot
                       /\ Without(r, rows).seen = r.seen
  BY DEF Without, Accepts
<1>2. r \in Reissues => Without(r, rows).slot = r.slot
  BY DEF Without, Reissues
<1>3. r \in Removals => Without(r, rows).of = r.of
  BY DEF Without, Removals
<1>4. r \in RoleChanges => /\ Without(r, rows).by = r.by /\ Without(r, rows).of = r.of
                           /\ Without(r, rows).new = r.new
  BY DEF Without, RoleChanges
<1>5. r \in Assigns => /\ Without(r, rows).by = r.by /\ Without(r, rows).of = r.of
                       /\ Without(r, rows).new = r.new /\ Without(r, rows).seen = r.seen
  BY DEF Without, Assigns
<1>6. r \in Departures => Without(r, rows).of = r.of
  BY DEF Without, Departures
<1>7. r \in Creations => Without(r, rows).by = r.by
  BY DEF Without, Creations
<1>8. r \in Closings => Without(r, rows).space = r.space
  BY DEF Without, Closings
<1>. QED
  BY <1>1, <1>2, <1>3, <1>4, <1>5, <1>6, <1>7, <1>8

---------------------------------------------------------------------------------
(* One request goes on. *)

\* What a step of a request about A does to the rest: it changes no other
\* member's role but by deleting a workspace, and brings nothing back.
LeavesUsers(A) ==
  \A u \in Users \ A : /\ org'[u] = org[u]
                       /\ \A x \in Workspaces :
                            role'[u][x] = role[u][x] \/ (role'[u][x] = 0 /\ space'[x] = "gone")
LeavesLinks(A) ==
  \A s \in Slots : /\ invitation[s] # NoInvitation => invitation'[s] # NoInvitation
                   /\ s \notin A => entrants'[s] = entrants[s]
LeavesSpaces(A, rows) ==
  /\ \A x \in Workspaces : /\ space[x] = "gone" => space'[x] = "gone"
                           /\ space[x] \in {"active", "archived"} =>
                                space'[x] \in {"active", "archived"} \/ <<x>> \in rows
  /\ Active \subseteq Active' \/ Workspaces \subseteq A
Leaves(A, rows) == disturbed \subseteq disturbed' /\ LeavesUsers(A) /\ LeavesLinks(A) /\ LeavesSpaces(A, rows)

LEMMA RolesGone ==
  ASSUME MemberShape, MemberShape', NEW u \in Users, role[u] = Nowhere,
         \A x \in Workspaces : role'[u][x] = role[u][x] \/ role'[u][x] = 0
  PROVE  role'[u] = Nowhere
<1>1. role'[u] \in Assignments
  BY DEF MemberShape
<1>2. \A x \in Workspaces : role'[u][x] = 0
  BY DEF Nowhere
<1>. QED
  BY <1>1, <1>2 DEF Assignments, Nowhere

\* What was so of a request stays so when another goes on.
LEMMA FitsStays ==
  ASSUME MemberShape, MemberShape', NEW A, NEW rows, Leaves(A, rows),
         NEW r \in Requests, Fits(r), r.about \cap A \subseteq disturbed'
  PROVE  Fits(Without(r, rows))'
<1>. DEFINE q == Without(r, rows)
<1>0. q \in Requests
  BY WithoutIsRequest
<1>k. /\ q.kind = r.kind /\ q.step = r.step /\ q.about = r.about /\ q.holds = r.holds \ rows
  BY WithoutIsRequest
<1>d. disturbed \subseteq disturbed'
  BY DEF Leaves
<1>u. \A u \in Users : u \in r.about /\ u \notin disturbed' =>
        /\ org'[u] = org[u]
        /\ \A x \in Workspaces : role'[u][x] = role[u][x] \/ (role'[u][x] = 0 /\ space'[x] = "gone")
  BY DEF Leaves, LeavesUsers
<1>s. \A s \in Slots : s \in r.about /\ s \notin disturbed' => entrants'[s] = entrants[s]
  BY DEF Leaves, LeavesLinks
<1>i. \A s \in Slots : invitation[s] # NoInvitation => invitation'[s] # NoInvitation
  BY DEF Leaves, LeavesLinks
<1>g. \A x \in Workspaces : space[x] = "gone" => space'[x] = "gone"
  BY DEF Leaves, LeavesSpaces
<1>1. ASSUME q \in Accepts PROVE AcceptFits(q)'
  <2>1. /\ r \in Accepts /\ AcceptFits(r) /\ q.by = r.by /\ q.slot = r.slot
        /\ r.by \in Users /\ r.slot \in Slots
    BY <1>1, WithoutIsRequest, WithoutIsSame DEF Fits, Accepts
  <2>. HIDE DEF q
  <2>2. r.step = "join" => r.slot \in disturbed' \/ entrants'[r.slot] = {}
    BY <1>d, <1>s, <2>1 DEF AcceptFits
  <2>3. r.step = "spaces" => r.by \in disturbed' \/ org'[r.by] # 0
    BY <1>d, <1>u, <2>1 DEF AcceptFits
  <2>. QED
    BY <1>i, <1>k, <2>1, <2>2, <2>3 DEF AcceptFits
<1>2. ASSUME q \in Reissues PROVE ReissueFits(q)'
  <2>1. r \in Reissues /\ ReissueFits(r) /\ q.slot = r.slot /\ r.slot \in Slots
    BY <1>2, WithoutIsRequest, WithoutIsSame DEF Fits, Reissues
  <2>. HIDE DEF q
  <2>. QED
    BY <1>i, <2>1 DEF ReissueFits
<1>3. ASSUME q \in Removals PROVE RemovalFits(q)'
  <2>1. r \in Removals /\ RemovalFits(r) /\ q.of = r.of /\ r.of \in Users
    BY <1>3, WithoutIsRequest, WithoutIsSame DEF Fits, Removals
  <2>. HIDE DEF q
  <2>2. r.step = "org" => r.of \in disturbed' \/ role'[r.of] = Nowhere
    BY <1>d, <1>u, <2>1, RolesGone DEF RemovalFits
  <2>. QED
    BY <1>k, <2>1, <2>2 DEF RemovalFits
<1>4. ASSUME q \in RoleChanges PROVE RoleChangeFits(q)'
  <2>1. /\ r \in RoleChanges /\ RoleChangeFits(r) /\ q.by = r.by /\ q.of = r.of /\ q.new = r.new
        /\ r.by \in Users /\ r.of \in Users
    BY <1>4, WithoutIsRequest, WithoutIsSame DEF Fits, RoleChanges
  <2>. HIDE DEF q
  <2>2. ASSUME r.about \cap disturbed' = {} PROVE org'[r.by] >= org'[r.of] /\ MayMake(r.by, r.new)'
    <3>1. org'[r.by] = org[r.by] /\ org'[r.of] = org[r.of]
      BY <1>u, <2>1, <2>2 DEF RoleChangeFits
    <3>2. org[r.by] >= org[r.of] /\ MayMake(r.by, r.new)
      BY <1>d, <2>1, <2>2 DEF RoleChangeFits
    <3>. QED
      BY <3>1, <3>2 DEF MayMake
  <2>. QED
    BY <1>k, <2>1, <2>2 DEF RoleChangeFits, MayMake
<1>5. ASSUME q \in Assigns PROVE AssignFits(q)'
  <2>1. /\ r \in Assigns /\ AssignFits(r) /\ q.by = r.by /\ q.of = r.of /\ q.new = r.new /\ q.seen = r.seen
        /\ r.by \in Users /\ r.of \in Users
    BY <1>5, WithoutIsRequest, WithoutIsSame DEF Fits, Assigns
  <2>. HIDE DEF q
  <2>2. r.of \in disturbed' \/ org'[r.of] # 0
    BY <1>d, <1>u, <2>1 DEF AssignFits
  <2>3. ASSUME r.step = "drop", r.about \cap disturbed' = {},
               NEW x \in Workspaces, space'[x] # "gone", r.new[x] # r.seen[x]
        PROVE  r.new[x] <= Level(r.by, x)' /\ role'[r.of][x] <= Level(r.by, x)'
    <3>1. r.new[x] <= Level(r.by, x) /\ role[r.of][x] <= Level(r.by, x)
      BY <1>d, <1>g, <2>1, <2>3 DEF AssignFits
    <3>2. /\ org'[r.by] = org[r.by] /\ role'[r.by][x] = role[r.by][x]
          /\ role'[r.of][x] = role[r.of][x]
      BY <1>u, <2>1, <2>3 DEF AssignFits
    <3>. QED
      BY <3>1, <3>2 DEF Level
  <2>. QED
    BY <1>k, <2>1, <2>2, <2>3 DEF AssignFits, Level
<1>6. ASSUME q \in Departures PROVE DepartureFits(q)'
  <2>1. r \in Departures /\ DepartureFits(r) /\ q.of = r.of
    BY <1>6, WithoutIsRequest, WithoutIsSame DEF Fits
  <2>. HIDE DEF q
  <2>. QED
    BY <1>k, <2>1 DEF DepartureFits
<1>7. ASSUME q \in Creations PROVE CreationFits(q)'
  <2>1. r \in Creations /\ CreationFits(r) /\ q.by = r.by /\ r.by \in Users
    BY <1>7, WithoutIsRequest, WithoutIsSame DEF Fits, Creations
  <2>. HIDE DEF q
  <2>. QED
    BY <1>d, <1>k, <1>u, <2>1 DEF CreationFits
<1>8. ASSUME q \in Closings PROVE ClosingFits(q)'
  <2>1. r \in Closings /\ ClosingFits(r) /\ q.space = r.space /\ r.space \in Workspaces
    BY <1>8, WithoutIsRequest, WithoutIsSame DEF Fits, Closings
  <2>. HIDE DEF q
  <2>2. <<r.space>> \in r.holds \ rows => space'[r.space] \in {"active", "archived"}
    BY <2>1 DEF ClosingFits, Leaves, LeavesSpaces
  <2>3. ASSUME Workspaces \cap disturbed' = {} PROVE \E y \in Active' : y # r.space
    <3>1. \E y \in Active : y # r.space
      BY <1>d, <2>1, <2>3 DEF ClosingFits
    <3>2. ~(Workspaces \subseteq A)
      BY <2>1, <2>3 DEF ClosingFits
    <3>. QED
      BY <3>1, <3>2 DEF Leaves, LeavesSpaces
  <2>. QED
    BY <1>k, <2>1, <2>2, <2>3 DEF ClosingFits
<1>. QED
  BY <1>1, <1>2, <1>3, <1>4, <1>5, <1>6, <1>7, <1>8 DEF Fits

\* What Proceeds does to each request.
GoesOn(w, next, rows) ==
  /\ request' \in [Threads -> Requests \cup {Idle}]
  /\ request'[w] = next
  /\ \A v \in Threads \ {w} : \A r \in Requests :
       request[v] = r => request'[v] = Without(r, rows)
  /\ \A v \in Threads \ {w} : request[v] = Idle => request'[v] = Idle

LEMMA ProceedsTo ==
  ASSUME MemberShape, NEW w \in Threads, NEW next \in Requests \cup {Idle}, NEW rows,
         Proceeds(w, next, rows)
  PROVE  GoesOn(w, next, rows)
<1>1. request' = [v \in Threads |->
        IF v = w THEN next ELSE IF request[v] = Idle THEN Idle ELSE Without(request[v], rows)]
  BY DEF Proceeds, Without
<1>2. ASSUME NEW v \in Threads, request[v] # Idle PROVE Without(request[v], rows) \in Requests
  <2>1. PICK r \in Requests : request[v] = r
    BY <1>2 DEF MemberShape
  <2>. QED
    BY <2>1, WithoutIsRequest
<1>3. request' \in [Threads -> Requests \cup {Idle}]
  BY <1>1, <1>2
<1>4. request'[w] = next
  BY <1>1
<1>5. ASSUME NEW v \in Threads \ {w}, NEW r \in Requests, request[v] = r
      PROVE  request'[v] = Without(r, rows)
  BY <1>1, <1>5, KindOf
<1>6. \A v \in Threads \ {w} : request[v] = Idle => request'[v] = Idle
  BY <1>1
<1>. QED
  BY <1>3, <1>4, <1>5, <1>6 DEF GoesOn

\* Worker w goes on with its request or ends it: the others' stay as they are
\* but for the rows that went, and so does what is known of them.
LEMMA StepKeeps ==
  ASSUME MemberInv, MemberShape', NEW w \in Threads, NEW R \in Requests, request[w] = R,
         NEW next \in Requests \cup {Idle}, NEW rows, Proceeds(w, next, rows),
         next # Idle => /\ next.about = R.about /\ next \notin Reissues /\ Fits(next)',
         Leaves(R.about, rows), begun' = begun
  PROVE  /\ RequestsFit' /\ RequestsApart'
         /\ Busy' # {} => begun' > 0
         /\ \A s \in Slots : Resending(s)' \subseteq Resending(s) \ {w}
         /\ \A s \in Slots : \A v \in Threads \ {w} : ComingIn(v, s) => ComingIn(v, s)'
<1>0. MemberShape
  BY DEF MemberInv
<1>1. /\ request'[w] = next
      /\ \A v \in Threads \ {w} : \A r \in Requests :
           request[v] = r => request'[v] = Without(r, rows)
      /\ \A v \in Threads \ {w} : request[v] = Idle => request'[v] = Idle
  <2>1. GoesOn(w, next, rows)
    BY <1>0, ProceedsTo
  <2>. QED
    BY <2>1 DEF GoesOn
<1>2. \A v \in Threads : request[v] # Idle => request[v] \in Requests
  BY <1>0 DEF MemberShape
<1>r. R # Idle /\ Idle \notin Requests
  BY KindOf
<1>3. \A v \in Threads : request'[v] # Idle =>
        request[v] # Idle /\ request'[v].about = request[v].about
  <2>1. ASSUME NEW v \in Threads, v # w, request'[v] # Idle
        PROVE  request[v] # Idle /\ request'[v].about = request[v].about
    <3>1. request[v] # Idle /\ request[v] \in Requests
      BY <1>1, <1>2, <2>1
    <3>. QED
      BY <1>1, <2>1, <3>1, WithoutIsRequest
  <2>. QED
    BY <1>1, <1>r, <2>1
<1>4. RequestsFit'
  <2>. SUFFICES ASSUME NEW v \in Threads, NEW q \in Requests, request'[v] = q PROVE Fits(q)'
    BY DEF RequestsFit
  <2>1. CASE v = w
    BY <1>1, <1>r, <2>1
  <2>2. CASE v # w
    <3>1. PICK r \in Requests : request[v] = r
      BY <1>1, <1>2, <1>r, <2>2
    <3>2. q = Without(r, rows) /\ Fits(r)
      BY <1>1, <2>2, <3>1 DEF MemberInv, RequestsFit
    <3>3. r.about \cap R.about \subseteq disturbed'
      BY <1>r, <2>2, <3>1, KindOf DEF MemberInv, RequestsApart, Leaves
    <3>. QED
      BY <1>0, <3>2, <3>3, FitsStays
  <2>. QED
    BY <2>1, <2>2
<1>5. RequestsApart'
  <2>1. disturbed \subseteq disturbed'
    BY DEF Leaves
  <2>. QED
    BY <1>3, <2>1 DEF MemberInv, RequestsApart
<1>6. Busy' # {} => begun' > 0
  BY <1>3 DEF MemberInv, TokensCounted, Busy
<1>7. ASSUME NEW s \in Slots PROVE Resending(s)' \subseteq Resending(s) \ {w}
  <2>1. ASSUME NEW v \in Threads, request'[v] \in Reissues, request'[v].kind = "resend", request'[v].slot = s
        PROVE  v # w /\ request[v] \in Reissues /\ request[v].kind = "resend" /\ request[v].slot = s
    <3>0. request'[v] \in Requests
      BY <2>1 DEF Requests
    <3>1. v # w
      BY <1>1, <1>r, <2>1, <3>0
    <3>2. PICK r \in Requests : request[v] = r
      BY <1>1, <1>2, <1>r, <3>0, <3>1
    <3>3. request'[v] = Without(r, rows)
      BY <1>1, <3>1, <3>2
    <3>. QED
      BY <2>1, <3>1, <3>2, <3>3, WithoutIsRequest, WithoutIsSame
  <2>. QED
    BY <2>1 DEF Resending
<1>8. ASSUME NEW s \in Slots, NEW v \in Threads \ {w}, ComingIn(v, s) PROVE ComingIn(v, s)'
  <2>1. PICK r \in Requests : request[v] = r
    BY <1>8 DEF ComingIn, Requests
  <2>2. request'[v] = Without(r, rows)
    BY <1>1, <2>1
  <2>. QED
    BY <1>8, <2>1, <2>2, WithoutIsRequest, WithoutIsSame DEF ComingIn
<1>. QED
  BY <1>4, <1>5, <1>6, <1>7, <1>8

\* Fewer workers that resend a link are fewer in number.
LEMMA ResendingCount ==
  ASSUME NEW s \in Slots
  PROVE  /\ Cardinality(Resending(s)) \in Nat
         /\ Resending(s)' \subseteq Resending(s) =>
              Cardinality(Resending(s)') \in Nat /\ Cardinality(Resending(s)') <= Cardinality(Resending(s))
         /\ \A w \in Resending(s) : Resending(s)' \subseteq Resending(s) \ {w} =>
              Cardinality(Resending(s)') + 1 <= Cardinality(Resending(s))
         /\ \A w \in Threads : Resending(s)' \subseteq Resending(s) \cup {w} =>
              Cardinality(Resending(s)') \in Nat /\ Cardinality(Resending(s)') <= Cardinality(Resending(s)) + 1
<1>1. IsFiniteSet(Resending(s))
  <2>1. Resending(s) \subseteq Threads
    BY DEF Resending
  <2>. QED
    BY <2>1, FS_Subset, MemberAssumption
<1>2. Cardinality(Resending(s)) \in Nat
  BY <1>1, FS_CardinalityType
<1>3. ASSUME Resending(s)' \subseteq Resending(s)
      PROVE  Cardinality(Resending(s)') \in Nat /\ Cardinality(Resending(s)') <= Cardinality(Resending(s))
  <2>1. IsFiniteSet(Resending(s)') /\ Cardinality(Resending(s)') <= Cardinality(Resending(s))
    BY <1>1, <1>3, FS_Subset
  <2>2. Cardinality(Resending(s)') \in Nat
    BY <2>1, FS_CardinalityType
  <2>. QED
    BY <2>1, <2>2
<1>4. ASSUME NEW w \in Resending(s), Resending(s)' \subseteq Resending(s) \ {w}
      PROVE  Cardinality(Resending(s)') + 1 <= Cardinality(Resending(s))
  <2>1. IsFiniteSet(Resending(s) \ {w}) /\ Cardinality(Resending(s) \ {w}) = Cardinality(Resending(s)) - 1
    BY <1>1, FS_RemoveElement
  <2>2. IsFiniteSet(Resending(s)') /\ Cardinality(Resending(s)') <= Cardinality(Resending(s) \ {w})
    BY <1>4, <2>1, FS_Subset
  <2>3. Cardinality(Resending(s)') \in Nat
    BY <2>2, FS_CardinalityType
  <2>. QED
    BY <1>2, <2>1, <2>2, <2>3
<1>5. ASSUME NEW w \in Threads, Resending(s)' \subseteq Resending(s) \cup {w}
      PROVE  Cardinality(Resending(s)') \in Nat /\ Cardinality(Resending(s)') <= Cardinality(Resending(s)) + 1
  <2>1. /\ IsFiniteSet(Resending(s) \cup {w})
        /\ Cardinality(Resending(s) \cup {w}) = IF w \in Resending(s) THEN Cardinality(Resending(s))
                                                ELSE Cardinality(Resending(s)) + 1
    BY <1>1, FS_AddElement
  <2>2. IsFiniteSet(Resending(s)') /\ Cardinality(Resending(s)') <= Cardinality(Resending(s) \cup {w})
    BY <1>5, <2>1, FS_Subset
  <2>3. Cardinality(Resending(s)') \in Nat
    BY <2>2, FS_CardinalityType
  <2>. QED
    BY <1>2, <2>1, <2>2, <2>3
<1>. QED
  BY <1>2, <1>3, <1>4, <1>5

\* What is known of an invitation's number.
LEMMA TokenFacts ==
  ASSUME MemberInv, NEW s \in Slots, invitation[s] # NoInvitation
  PROVE  /\ invitation[s] \in Good /\ invitation[s].token \in Nat \ {0}
         /\ invitation[s].token + Cardinality(Resending(s)) <= begun
         /\ begun \in Nat /\ begun <= MaxAsked /\ MaxAsked \in Nat
<1>1. invitation[s] \in Good
  BY DEF MemberInv, MemberShape
<1>2. begun \in Nat /\ begun <= MaxAsked /\ MaxAsked \in Nat
  BY MemberAssumption DEF MemberInv, MemberShape
<1>3. invitation[s].token \in Nat \ {0}
  BY <1>1 DEF Good
<1>. QED
  BY <1>1, <1>2, <1>3 DEF MemberInv, TokensCounted

LEMMA TokensStay ==
  ASSUME MemberInv, begun' = begun, Busy' # {} => begun' > 0,
         \A s \in Slots : Resending(s)' \subseteq Resending(s),
         \A s \in Slots : invitation'[s] # NoInvitation =>
           invitation[s] # NoInvitation /\ invitation'[s].token = invitation[s].token
  PROVE  TokensCounted'
<1>. SUFFICES ASSUME NEW s \in Slots, invitation'[s] # NoInvitation
     PROVE  invitation'[s].token + Cardinality(Resending(s)') <= begun'
  BY DEF TokensCounted
<1>1. /\ Cardinality(Resending(s)') <= Cardinality(Resending(s))
      /\ Cardinality(Resending(s)') \in Nat /\ Cardinality(Resending(s)) \in Nat
  BY ResendingCount
<1>. QED
  BY <1>1, TokenFacts

LEMMA WithoutNone == \A r \in Requests : Without(r, {}) = r
<1>. SUFFICES ASSUME NEW r \in Requests PROVE [r EXCEPT !.holds = @ \ {}] = r
  BY DEF Without
<1>1. r.holds \ {} = r.holds
  OBVIOUS
<1>2. [r EXCEPT !.holds = r.holds] = r
  BY DEF Requests, Invites, Accepts, Reissues, Removals, RoleChanges, Assigns, Departures,
         Creations, Closings
<1>. QED
  BY <1>1, <1>2

\* The workers go on with their requests when nobody else does anything to them.
LEMMA AllFit ==
  ASSUME MemberInv, MemberShape', Leaves({}, {}), NEW w \in Threads, NEW r \in Requests, request[w] = r
  PROVE  Fits(r)'
<1>1. MemberShape /\ Fits(r)
  BY DEF MemberInv, RequestsFit
<1>2. Fits(Without(r, {}))'
  BY <1>1, FitsStays
<1>. QED
  BY <1>2, WithoutNone

---------------------------------------------------------------------------------
(* The parts of the invariant that a step may leave alone. *)

LEMMA OwnerStays ==
  ASSUME MemberInv, org' = org, madeBy' = madeBy
  PROVE  OneOwner'
BY DEF MemberInv, OneOwner, Owners

\* Roles go, or are those of members.
LEMMA NobodyStays ==
  ASSUME MemberInv, MemberShape', disturbed \subseteq disturbed',
         \A u \in Users : u \notin disturbed' /\ org'[u] = 0 =>
           \/ role'[u] = Nowhere
           \/ org[u] = 0 /\ \A x \in Workspaces : role'[u][x] = role[u][x] \/ role'[u][x] = 0
  PROVE  NobodyIsLeft'
<1>. SUFFICES ASSUME NEW u \in Users, u \notin disturbed', org'[u] = 0 PROVE role'[u] = Nowhere
  BY DEF NobodyIsLeft
<1>. SUFFICES ASSUME org[u] = 0, \A x \in Workspaces : role'[u][x] = role[u][x] \/ role'[u][x] = 0
     PROVE  role'[u] = Nowhere
  OBVIOUS
<1>1. role[u] = Nowhere
  BY DEF MemberInv, NobodyIsLeft
<1>. QED
  BY <1>1, RolesGone DEF MemberInv

LEMMA EntrantsStay ==
  ASSUME MemberInv, disturbed \subseteq disturbed', entrants' = entrants,
         \A s \in Slots : invitation[s] # NoInvitation =>
           invitation'[s] # NoInvitation /\ (invitation[s].done => invitation'[s].done),
         \A s \in Slots : \A w \in Threads : ComingIn(w, s) => ComingIn(w, s)'
  PROVE  OneComesIn'
<1>. SUFFICES ASSUME NEW s \in Slots, s \notin disturbed', entrants'[s] # {}
     PROVE  /\ \E u \in Users : entrants'[s] = {u}
            /\ invitation'[s] # NoInvitation
            /\ invitation'[s].done \/ \E w \in Threads : ComingIn(w, s)'
  BY DEF OneComesIn
<1>1. /\ \E u \in Users : entrants[s] = {u}
      /\ invitation[s] # NoInvitation
      /\ invitation[s].done \/ \E w \in Threads : ComingIn(w, s)
  BY DEF MemberInv, OneComesIn
<1>. QED
  BY <1>1

LEMMA SomewhereStays ==
  ASSUME MemberInv, disturbed \subseteq disturbed', Active \subseteq Active'
  PROVE  SomewhereToWork'
BY DEF MemberInv, SomewhereToWork

---------------------------------------------------------------------------------
(* A request is begun, or nobody works. *)

\* Every action but the steps of the requests changes at most the accounts, and
\* sets links that expire or are shown.
LEMMA NobodyWorks ==
  ASSUME MemberInv, MemberShape', org' = org, madeBy' = madeBy, role' = role, entrants' = entrants,
         request' = request, begun' = begun, disturbed' = disturbed,
         \A x \in Workspaces : space'[x] = space[x] \/ (space[x] = "archived" /\ space'[x] = "active"),
         \A s \in Slots :
           /\ invitation'[s] = NoInvitation <=> invitation[s] = NoInvitation
           /\ invitation[s] # NoInvitation => /\ invitation'[s].token = invitation[s].token
                                              /\ invitation'[s].done = invitation[s].done
  PROVE  MemberInv'
<1>1. Active \subseteq Active'
  BY DEF Active
<1>2. Leaves({}, {})
  BY <1>1 DEF Leaves, LeavesUsers, LeavesLinks, LeavesSpaces
<1>3. RequestsFit'
  BY <1>2, AllFit DEF RequestsFit
<1>4. RequestsApart'
  BY DEF MemberInv, RequestsApart
<1>5. OneOwner'
  BY OwnerStays
<1>6. NobodyIsLeft'
  BY DEF MemberInv, NobodyIsLeft
<1>7. \A s \in Slots : \A w \in Threads : ComingIn(w, s) => ComingIn(w, s)'
  BY DEF ComingIn
<1>8. OneComesIn'
  BY <1>7, EntrantsStay
<1>9. SomewhereToWork'
  BY <1>1, SomewhereStays
<1>10. TokensCounted'
  <2>1. \A s \in Slots : Resending(s)' \subseteq Resending(s)
    BY DEF Resending
  <2>2. Busy' # {} => begun' > 0
    BY DEF MemberInv, TokensCounted, Busy
  <2>. QED
    BY <2>1, <2>2, TokensStay
<1>. QED
  BY <1>3, <1>4, <1>5, <1>6, <1>8, <1>9, <1>10 DEF MemberInv

\* What Begin does.
LEMMA BeginFacts ==
  ASSUME MemberInv, NEW w \in Threads, NEW r \in Requests, Begin(w, r)
  PROVE  /\ request[w] = Idle /\ request'[w] = r /\ r # Idle
         /\ \A v \in Threads \ {w} : request'[v] = request[v]
         /\ request' \in [Threads -> Requests \cup {Idle}]
         /\ begun' = begun + 1 /\ begun' \in 0 .. MaxAsked /\ begun \in Nat
         /\ disturbed \subseteq disturbed'
         /\ \A v \in Threads : request[v] # Idle => request[v].about \cap r.about \subseteq disturbed'
<1>1. request \in [Threads -> Requests \cup {Idle}] /\ begun \in 0 .. MaxAsked /\ MaxAsked \in Nat
  BY MemberAssumption DEF MemberInv, MemberShape
<1>2. /\ request[w] = Idle /\ begun < MaxAsked /\ begun' = begun + 1
      /\ request' = [request EXCEPT ![w] = r]
      /\ disturbed' = disturbed \cup UNION {request[v].about \cap r.about : v \in Busy}
  BY DEF Begin
<1>3. ASSUME NEW v \in Threads, request[v] # Idle PROVE request[v].about \cap r.about \subseteq disturbed'
  <2>1. v \in Busy
    BY <1>3 DEF Busy
  <2>. QED
    BY <1>2, <2>1
<1>. QED
  BY <1>1, <1>2, <1>3, KindOf

LEMMA BeginKeeps ==
  ASSUME MemberInv, NEW w \in Threads, NEW r \in Requests, Begin(w, r), Fits(r)',
         org' = org, madeBy' = madeBy, role' = role, space' = space,
         invitation' = invitation, entrants' = entrants,
         session' \in [slot : Slots, token : Nat] \cup {NoLink},
         accounts' \subseteq Users, home' \subseteq accounts'
  PROVE  MemberInv'
<1>1. /\ request[w] = Idle /\ request'[w] = r /\ r # Idle
      /\ \A v \in Threads \ {w} : request'[v] = request[v]
      /\ request' \in [Threads -> Requests \cup {Idle}]
      /\ begun' = begun + 1 /\ begun' \in 0 .. MaxAsked /\ begun \in Nat
      /\ disturbed \subseteq disturbed'
      /\ \A v \in Threads : request[v] # Idle => request[v].about \cap r.about \subseteq disturbed'
  BY BeginFacts
<1>2. MemberShape'
  BY <1>1 DEF MemberInv, MemberShape
<1>3. Active' = Active
  BY DEF Active
<1>4. Leaves({}, {})
  BY <1>1, <1>3 DEF Leaves, LeavesUsers, LeavesLinks, LeavesSpaces
<1>5. RequestsFit'
  <2>. SUFFICES ASSUME NEW v \in Threads, NEW q \in Requests, request'[v] = q PROVE Fits(q)'
    BY DEF RequestsFit
  <2>. QED
    BY <1>1, <1>2, <1>4, AllFit
<1>6. RequestsApart'
  BY <1>1 DEF MemberInv, RequestsApart
<1>7. OneOwner'
  BY OwnerStays
<1>8. NobodyIsLeft'
  BY <1>1 DEF MemberInv, NobodyIsLeft
<1>9. OneComesIn'
  <2>1. ASSUME NEW s \in Slots, NEW v \in Threads, ComingIn(v, s) PROVE ComingIn(v, s)'
    <3>1. v # w
      BY <1>1, <2>1, KindOf DEF ComingIn, Requests
    <3>. QED
      BY <1>1, <2>1, <3>1 DEF ComingIn
  <2>. QED
    BY <1>1, <2>1, EntrantsStay
<1>10. SomewhereToWork'
  BY <1>1, <1>3, SomewhereStays
<1>11. TokensCounted'
  <2>. SUFFICES ASSUME NEW s \in Slots, invitation'[s] # NoInvitation
       PROVE  invitation'[s].token + Cardinality(Resending(s)') <= begun'
    BY <1>1 DEF TokensCounted
  <2>1. Resending(s)' \subseteq Resending(s) \cup {w}
    BY <1>1 DEF Resending
  <2>2. /\ Cardinality(Resending(s)') \in Nat /\ Cardinality(Resending(s)) \in Nat
        /\ Cardinality(Resending(s)') <= Cardinality(Resending(s)) + 1
    BY <2>1, ResendingCount
  <2>. QED
    BY <1>1, <2>2, TokenFacts
<1>. QED
  BY <1>2, <1>5, <1>6, <1>7, <1>8, <1>9, <1>10, <1>11 DEF MemberInv

LEMMA MakesFit ==
  ASSUME MemberInv, NEW by \in Users, NEW r \in OrgRoles, MayMake(by, r)
  PROVE  r # Owner /\ (r = Admin => by = Founder)
<1>1. r # Owner /\ (r = Admin => Admin < org[by])
  BY DEF MayMake, OrgRoles, Owner, Admin
<1>2. org[by] \in 0 .. 3
  BY DEF MemberInv, MemberShape, OrgRoles
<1>3. org[by] = Owner => by = Founder
  BY DEF MemberInv, OneOwner, Owners
<1>. QED
  BY <1>1, <1>2, <1>3 DEF Owner, Admin

LEMMA NowhereIs == Nowhere \in Assignments /\ Given \subseteq Assignments
<1>1. Nowhere \in Assignments
  BY DEF Nowhere, Assignments
<1>2. ASSUME NEW x \in Workspaces, NEW n \in Roles PROVE Only(x, n) \in Assignments
  <2>1. Only(x, n) = [y \in Workspaces |-> IF y = x THEN n ELSE 0]
    BY DEF Only, Nowhere
  <2>. QED
    BY <2>1 DEF Assignments
<1>. QED
  BY <1>1, <1>2 DEF Given

\* The owner is one: who is not the last owner is not the founder.
LEMMA FounderAlone ==
  ASSUME MemberInv
  PROVE  /\ org[Founder] = Owner /\ Founder \in Users
         /\ \A u \in Users : org[u] = Owner => u = Founder
         /\ Owners = {Founder} /\ ~(Cardinality(Owners) > 1)
<1>1. Owners = {Founder} /\ Founder \in Users
  BY DEF MemberInv, OneOwner, Users
<1>2. Cardinality(Owners) = 1
  BY <1>1, FS_Singleton
<1>. QED
  BY <1>1, <1>2 DEF Owners

LEMMA InviteKeeps ==
  ASSUME MemberInv, NEW w \in Threads, Invite(w)
  PROVE  MemberInv'
<1>1. PICK by \in accounts, email \in Others, r \in OrgRoles, place \in Given :
        /\ MayMake(by, r)
        /\ Begin(w, [kind |-> "invite", step |-> "create", by |-> by, about |-> {by, email}, holds |-> {},
                     new |-> [email |-> email, org |-> r, place |-> place, by |-> by,
                              token |-> 1, live |-> TRUE, done |-> FALSE]])
        /\ UNCHANGED <<orgVars, linkVars, userVars, role, space>>
  BY DEF Invite
<1>. DEFINE new == [email |-> email, org |-> r, place |-> place, by |-> by,
                    token |-> 1, live |-> TRUE, done |-> FALSE]
            R == [kind |-> "invite", step |-> "create", by |-> by, about |-> {by, email}, holds |-> {},
                  new |-> new]
<1>2. by \in Users /\ email \in Users /\ place \in Assignments
  BY NowhereIs DEF MemberInv, MemberShape, Users
<1>3. r # Owner /\ (r = Admin => by = Founder)
  BY <1>1, <1>2, MakesFit
<1>4. new \in Fresh
  BY <1>2, <1>3 DEF Fresh, Good
<1>5. R \in Invites
  <2>. HIDE DEF new
  <2>. QED
    BY <1>2, <1>4 DEF Invites, Subjects
<1>6. R \in Requests /\ R.kind = "invite"
  BY <1>5 DEF Requests
<1>7. Begin(w, R)
  BY <1>1
<1>. HIDE DEF R
<1>8. Fits(R)'
  BY <1>6, KindOf DEF Fits
<1>. QED
  BY <1>1, <1>6, <1>7, <1>8, BeginKeeps DEF orgVars, linkVars, userVars, MemberInv, MemberShape

LEMMA ReissueKeeps ==
  ASSUME MemberInv, NEW w \in Threads, Reissue(w)
  PROVE  MemberInv'
<1>1. PICK by \in accounts, s \in Slots \ Free, kind \in {"resend", "revoke"} :
        /\ Begin(w, [kind |-> kind, step |-> "save", slot |-> s, about |-> {s}, holds |-> {}])
        /\ UNCHANGED <<orgVars, linkVars, userVars, role, space>>
  BY DEF Reissue
<1>. DEFINE R == [kind |-> kind, step |-> "save", slot |-> s, about |-> {s}, holds |-> {}]
<1>2. R \in Reissues /\ R.kind \in {"resend", "revoke"} /\ R.slot = s
  BY DEF Reissues, Subjects
<1>3. R \in Requests
  BY <1>2 DEF Requests
<1>4. Begin(w, R)
  BY <1>1
<1>. HIDE DEF R
<1>5. Fits(R)'
  <2>1. ReissueFits(R)'
    BY <1>1, <1>2 DEF Free, ReissueFits, linkVars
  <2>. QED
    BY <1>2, <1>3, <2>1, KindOf DEF Fits
<1>. QED
  BY <1>1, <1>3, <1>4, <1>5, BeginKeeps DEF orgVars, linkVars, userVars, MemberInv, MemberShape

\* Who accepts an open invitation finds nobody in who came by it, unless another
\* is about it too.
LEMMA AcceptingFits ==
  ASSUME MemberInv, NEW w \in Threads, NEW u \in Users, NEW kind \in {"accept", "signup"}, NEW s \in Slots,
         IsOpen(invitation[s]), NEW R, R = Accepting(u, kind, s), Begin(w, R),
         invitation' = invitation, entrants' = entrants
  PROVE  R \in Requests /\ Fits(R)'
<1>1. invitation[s] # NoInvitation /\ invitation[s] \in Good /\ ~invitation[s].done
  BY DEF IsOpen, MemberInv, MemberShape
<1>2. R \in Accepts /\ R.by = u /\ R.slot = s /\ R.step = "join" /\ R.about = {u, s}
  <2>1. R = [kind |-> kind, step |-> "join", by |-> u, slot |-> s, about |-> {u, s}, holds |-> {},
             seen |-> invitation[s]]
    BY DEF Accepting
  <2>. QED
    BY <1>1, <2>1 DEF Accepts, Subjects
<1>3. R \in Requests /\ R.kind \in {"accept", "signup"}
  BY <1>2 DEF Requests, Accepts
<1>4. s \in disturbed' \/ entrants'[s] = {}
  <2>. SUFFICES ASSUME s \notin disturbed', entrants[s] # {} PROVE FALSE
    OBVIOUS
  <2>0. disturbed \subseteq disturbed'
    BY <1>3, BeginFacts
  <2>1. PICK v \in Threads : ComingIn(v, s)
    BY <1>1, <2>0 DEF MemberInv, OneComesIn
  <2>2. PICK q \in Requests : request[v] = q /\ q \in Accepts /\ q.slot = s
    BY <2>1 DEF ComingIn, Requests
  <2>3. s \in q.about
    BY <2>2 DEF MemberInv, RequestsFit, Fits, AcceptFits
  <2>4. q.about \cap R.about \subseteq disturbed'
    BY <1>3, <2>2, BeginFacts, KindOf
  <2>. QED
    BY <1>2, <2>3, <2>4
<1>5. AcceptFits(R)'
  BY <1>1, <1>2, <1>4 DEF AcceptFits
<1>. QED
  BY <1>3, <1>5, KindOf DEF Fits

LEMMA AcceptKeeps ==
  ASSUME MemberInv, NEW w \in Threads, Accept(w)
  PROVE  MemberInv'
<1>1. PICK s \in Slots :
        /\ IsOpen(invitation[s])
        /\ invitation[s].email \in accounts
        /\ Begin(w, Accepting(invitation[s].email, "accept", s))
        /\ UNCHANGED <<orgVars, linkVars, userVars, role, space>>
  BY DEF Accept
<1>2. PICK u \in Users : u = invitation[s].email
  BY <1>1 DEF MemberInv, MemberShape
<1>3. PICK R : R = Accepting(u, "accept", s)
  OBVIOUS
<1>4. Begin(w, R) /\ R \in Requests /\ Fits(R)'
  BY <1>1, <1>2, <1>3, AcceptingFits DEF linkVars
<1>. QED
  BY <1>1, <1>4, BeginKeeps DEF orgVars, linkVars, userVars, MemberInv, MemberShape

LEMMA SignUpKeeps ==
  ASSUME MemberInv, NEW w \in Threads, SignUp(w)
  PROVE  MemberInv'
<1>1. /\ accounts' = accounts \cup {NewUser} /\ home' = home \cup {NewUser} /\ session' = NoLink
      /\ UNCHANGED <<orgVars, invitation, entrants, role, space>>
  BY DEF SignUp
<1>2. NewUser \in Users
  BY MemberAssumption DEF Users
<1>3. accounts' \subseteq Users /\ home' \subseteq accounts'
  BY <1>1, <1>2 DEF MemberInv, MemberShape
<1>4. CASE IsLink(session)
  <2>1. PICK s \in Slots : s = session.slot
    BY <1>4 DEF IsLink, MemberInv, MemberShape
  <2>2. PICK R : R = Accepting(NewUser, "signup", s)
    OBVIOUS
  <2>3. IsOpen(invitation[s]) /\ Begin(w, R)
    BY <1>4, <2>1, <2>2 DEF SignUp, IsLink
  <2>4. R \in Requests /\ Fits(R)'
    BY <1>1, <1>2, <2>2, <2>3, AcceptingFits
  <2>. QED
    BY <1>1, <1>3, <2>3, <2>4, BeginKeeps DEF orgVars
<1>5. CASE ~IsLink(session)
  <2>1. UNCHANGED workVars
    BY <1>5 DEF SignUp
  <2>2. MemberShape'
    BY <1>1, <1>3, <2>1 DEF MemberInv, MemberShape, orgVars, workVars
  <2>. QED
    BY <1>1, <2>1, <2>2, NobodyWorks DEF orgVars, workVars
<1>. QED
  BY <1>4, <1>5

LEMMA RemoveMemberKeeps ==
  ASSUME MemberInv, NEW w \in Threads, RemoveMember(w)
  PROVE  MemberInv'
<1>1. PICK by \in accounts, u \in Users :
        /\ org[u] = Owner => Cardinality(Owners) > 1
        /\ Begin(w, [kind |-> "remove", step |-> "spaces", by |-> by, of |-> u, about |-> {by, u},
                     holds |-> {<<u>>}])
        /\ UNCHANGED <<orgVars, linkVars, userVars, role, space>>
  BY DEF RemoveMember
<1>. DEFINE R == [kind |-> "remove", step |-> "spaces", by |-> by, of |-> u, about |-> {by, u},
                  holds |-> {<<u>>}]
<1>2. by \in Users
  BY DEF MemberInv, MemberShape
<1>3. u # Founder
  BY <1>1, FounderAlone
<1>4. <<u>> \in Keys
  BY DEF Keys
<1>5. R \in Removals /\ R.kind = "remove" /\ R.of = u /\ R.about = {by, u} /\ R.step = "spaces"
  BY <1>2, <1>4 DEF Removals, Subjects
<1>6. R \in Requests
  BY <1>5 DEF Requests
<1>7. Begin(w, R)
  BY <1>1
<1>. HIDE DEF R
<1>8. Fits(R)'
  <2>1. RemovalFits(R)'
    BY <1>3, <1>5 DEF RemovalFits
  <2>. QED
    BY <1>5, <1>6, <2>1, KindOf DEF Fits
<1>. QED
  BY <1>1, <1>6, <1>7, <1>8, BeginKeeps DEF orgVars, linkVars, userVars, MemberInv, MemberShape

LEMMA ChangeOrgRoleKeeps ==
  ASSUME MemberInv, NEW w \in Threads, ChangeOrgRole(w)
  PROVE  MemberInv'
<1>1. PICK by \in accounts, u \in Users, r \in OrgRoles :
        /\ MayMake(by, r) /\ org[by] >= org[u]
        /\ org[u] = Owner => Cardinality(Owners) > 1
        /\ Begin(w, [kind |-> "orgRole", step |-> "save", by |-> by, of |-> u, new |-> r,
                     about |-> {by, u}, holds |-> {<<u>>}])
        /\ UNCHANGED <<orgVars, linkVars, userVars, role, space>>
  BY DEF ChangeOrgRole
<1>. DEFINE R == [kind |-> "orgRole", step |-> "save", by |-> by, of |-> u, new |-> r,
                  about |-> {by, u}, holds |-> {<<u>>}]
<1>2. by \in Users
  BY DEF MemberInv, MemberShape
<1>3. u # Founder
  BY <1>1, FounderAlone
<1>4. <<u>> \in Keys
  BY DEF Keys
<1>5. /\ R \in RoleChanges /\ R.kind = "orgRole" /\ R.of = u /\ R.by = by /\ R.new = r
      /\ R.about = {by, u}
  BY <1>2, <1>4 DEF RoleChanges, Subjects
<1>6. R \in Requests
  BY <1>5 DEF Requests
<1>7. Begin(w, R)
  BY <1>1
<1>8. r # Owner /\ (r = Admin => by = Founder)
  BY <1>1, <1>2, MakesFit
<1>. HIDE DEF R
<1>9. Fits(R)'
  <2>1. org'[by] >= org'[u] /\ MayMake(by, r)'
    BY <1>1 DEF MayMake, orgVars
  <2>2. RoleChangeFits(R)'
    BY <1>3, <1>5, <1>8, <2>1 DEF RoleChangeFits, MayMake
  <2>. QED
    BY <1>5, <1>6, <2>2, KindOf DEF Fits
<1>. QED
  BY <1>1, <1>6, <1>7, <1>9, BeginKeeps DEF orgVars, linkVars, userVars, MemberInv, MemberShape

LEMMA ReassignKeeps ==
  ASSUME MemberInv, NEW w \in Threads, Reassign(w)
  PROVE  MemberInv'
<1>1. PICK by \in accounts, u \in Users, place \in Given :
        /\ org[u] # 0
        /\ InActive(place)
        /\ MayReassign(by, u, place)
        /\ Begin(w, [kind |-> "assign", step |-> "drop", by |-> by, of |-> u, new |-> place,
                     seen |-> [x \in Workspaces |-> IF x \in Active THEN role[u][x] ELSE 0],
                     about |-> {by, u}, holds |-> {<<u, x>> : x \in {y \in Active : role[u][y] # 0}}])
        /\ UNCHANGED <<orgVars, linkVars, userVars, role, space>>
  BY DEF Reassign
<1>. DEFINE seen0 == [x \in Workspaces |-> IF x \in Active THEN role[u][x] ELSE 0]
            holds0 == {<<u, x>> : x \in {y \in Active : role[u][y] # 0}}
<1>2. PICK seen, holds : seen = seen0 /\ holds = holds0
  OBVIOUS
<1>3. by \in Users /\ place \in Assignments /\ role[u] \in Assignments
  BY NowhereIs DEF MemberInv, MemberShape
<1>4. seen \in Assignments
  BY <1>2, <1>3 DEF Assignments
<1>5. holds \subseteq Keys
  BY <1>2 DEF Keys, Active
<1>. DEFINE R == [kind |-> "assign", step |-> "drop", by |-> by, of |-> u, new |-> place,
                  seen |-> seen, about |-> {by, u}, holds |-> holds]
<1>6. Begin(w, R)
  BY <1>1, <1>2
<1>7. /\ R \in Assigns /\ R.kind = "assign" /\ R.of = u /\ R.by = by /\ R.new = place /\ R.seen = seen
      /\ R.about = {by, u}
  BY <1>3, <1>4, <1>5 DEF Assigns, Subjects
<1>8. R \in Requests
  BY <1>7 DEF Requests
<1>. HIDE DEF R
<1>9. ASSUME NEW x \in Workspaces, place[x] # seen[x]
      PROVE  place[x] <= Level(by, x) /\ role[u][x] <= Level(by, x)
  <2>1. x \in Active
    <3>1. x \notin Active => place[x] = 0 /\ seen[x] = 0
      BY <1>1, <1>2 DEF InActive
    <3>. QED
      BY <1>9, <3>1
  <2>2. seen[x] = role[u][x]
    BY <1>2, <2>1
  <2>. QED
    BY <1>1, <1>9, <2>1, <2>2 DEF MayReassign, MayGrant
<1>10. Fits(R)'
  <2>1. org' = org /\ role' = role
    BY <1>1 DEF orgVars
  <2>2. ASSUME NEW x \in Workspaces, place[x] # seen[x]
        PROVE  place[x] <= Level(by, x)' /\ role'[u][x] <= Level(by, x)'
    BY <1>9, <2>1, <2>2 DEF Level
  <2>3. AssignFits(R)'
    BY <1>1, <1>7, <2>1, <2>2 DEF AssignFits, Level
  <2>. QED
    BY <1>7, <1>8, <2>3, KindOf DEF Fits
<1>. QED
  BY <1>1, <1>6, <1>8, <1>10, BeginKeeps DEF orgVars, linkVars, userVars, MemberInv, MemberShape

LEMMA DeleteAccountKeeps ==
  ASSUME MemberInv, NEW w \in Threads, DeleteAccount(w)
  PROVE  MemberInv'
<1>1. PICK u \in accounts \ home :
        /\ Owners # {u}
        /\ Begin(w, [kind |-> "leave", step |-> "delete", of |-> u, about |-> {u}, holds |-> {}])
        /\ UNCHANGED <<orgVars, linkVars, userVars, role, space>>
  BY DEF DeleteAccount
<1>. DEFINE R == [kind |-> "leave", step |-> "delete", of |-> u, about |-> {u}, holds |-> {}]
<1>2. u \in Users /\ u # Founder
  BY <1>1, FounderAlone DEF MemberInv, MemberShape
<1>3. R \in Departures /\ R.kind = "leave" /\ R.of = u /\ R.about = {u}
  BY <1>2 DEF Departures, Subjects
<1>4. R \in Requests
  BY <1>3 DEF Requests
<1>5. Begin(w, R)
  BY <1>1
<1>. HIDE DEF R
<1>6. Fits(R)'
  <2>1. DepartureFits(R)'
    BY <1>2, <1>3 DEF DepartureFits
  <2>. QED
    BY <1>3, <1>4, <2>1, KindOf DEF Fits
<1>. QED
  BY <1>1, <1>4, <1>5, <1>6, BeginKeeps DEF orgVars, linkVars, userVars, MemberInv, MemberShape

LEMMA CreateSpaceKeeps ==
  ASSUME MemberInv, NEW w \in Threads, CreateSpace(w)
  PROVE  MemberInv'
<1>1. PICK by \in accounts, x \in Workspaces :
        /\ IsAdmin(by)
        /\ Begin(w, [kind |-> "create", step |-> "save", by |-> by, space |-> x, about |-> {by}, holds |-> {}])
        /\ UNCHANGED <<orgVars, linkVars, userVars, role, space>>
  BY DEF CreateSpace
<1>. DEFINE R == [kind |-> "create", step |-> "save", by |-> by, space |-> x, about |-> {by}, holds |-> {}]
<1>2. by \in Users /\ org[by] # 0
  BY <1>1 DEF MemberInv, MemberShape, IsAdmin, Admin
<1>3. R \in Creations /\ R.kind = "create" /\ R.by = by /\ R.about = {by}
  BY <1>2 DEF Creations, Subjects
<1>4. R \in Requests
  BY <1>3 DEF Requests
<1>5. Begin(w, R)
  BY <1>1
<1>. HIDE DEF R
<1>6. Fits(R)'
  <2>1. CreationFits(R)'
    BY <1>1, <1>2, <1>3 DEF CreationFits, orgVars
  <2>. QED
    BY <1>3, <1>4, <2>1, KindOf DEF Fits
<1>. QED
  BY <1>1, <1>4, <1>5, <1>6, BeginKeeps DEF orgVars, linkVars, userVars, MemberInv, MemberShape

LEMMA CloseSpaceKeeps ==
  ASSUME MemberInv, NEW w \in Threads, CloseSpace(w)
  PROVE  MemberInv'
<1>1. PICK by \in accounts, x \in Workspaces, kind \in {"archive", "delete"} :
        /\ \/ space[x] = "active" /\ Cardinality(Active) > 1
           \/ space[x] = "archived" /\ kind = "delete"
        /\ Begin(w, [kind |-> kind, step |-> "save", space |-> x, about |-> Workspaces, holds |-> {<<x>>}])
        /\ UNCHANGED <<orgVars, linkVars, userVars, role, space>>
  BY DEF CloseSpace
<1>. DEFINE R == [kind |-> kind, step |-> "save", space |-> x, about |-> Workspaces, holds |-> {<<x>>}]
<1>2. <<x>> \in Keys
  BY DEF Keys
<1>3. /\ R \in Closings /\ R.kind \in {"archive", "delete"} /\ R.space = x /\ R.about = Workspaces
      /\ R.holds = {<<x>>}
  BY <1>2 DEF Closings, Subjects
<1>4. R \in Requests
  BY <1>3 DEF Requests
<1>5. Begin(w, R)
  BY <1>1
<1>. HIDE DEF R
<1>6. space[x] \in {"active", "archived"}
  BY <1>1
<1>7. ASSUME Workspaces \cap disturbed' = {} PROVE \E y \in Active : y # x
  <2>1. CASE space[x] = "active"
    <3>. SUFFICES ASSUME \A y \in Active : y = x PROVE FALSE
      OBVIOUS
    <3>1. Active = {x}
      BY <2>1 DEF Active
    <3>2. Cardinality(Active) = 1
      BY <3>1, FS_Singleton
    <3>. QED
      BY <1>1, <2>1, <3>2
  <2>2. CASE space[x] = "archived"
    <3>1. disturbed \subseteq disturbed'
      BY <1>4, <1>5, BeginFacts
    <3>2. Active # {}
      BY <1>7, <3>1 DEF MemberInv, SomewhereToWork
    <3>. QED
      BY <2>2, <3>2 DEF Active
  <2>. QED
    BY <1>6, <2>1, <2>2
<1>8. Fits(R)'
  <2>1. space' = space /\ Active' = Active
    BY <1>1 DEF Active
  <2>2. ClosingFits(R)'
    BY <1>3, <1>6, <1>7, <2>1 DEF ClosingFits
  <2>. QED
    BY <1>3, <1>4, <2>2, KindOf DEF Fits
<1>. QED
  BY <1>1, <1>4, <1>5, <1>8, BeginKeeps DEF orgVars, linkVars, userVars, MemberInv, MemberShape

---------------------------------------------------------------------------------
(* Nobody works. *)

LEMMA ExpireKeeps ==
  ASSUME MemberInv, NEW s \in Slots, Expire(s)
  PROVE  MemberInv'
<1>1. /\ invitation[s] # NoInvitation
      /\ invitation' = [invitation EXCEPT ![s].live = FALSE]
      /\ UNCHANGED <<orgVars, userVars, workVars, session, entrants, role, space>>
  BY DEF Expire
<1>2. invitation \in [Slots -> Good \cup {NoInvitation}] /\ invitation[s] \in Good
  BY <1>1 DEF MemberInv, MemberShape
<1>3. /\ [invitation[s] EXCEPT !.live = FALSE] \in Good
      /\ [invitation[s] EXCEPT !.live = FALSE].token = invitation[s].token
      /\ [invitation[s] EXCEPT !.live = FALSE].done = invitation[s].done
  BY <1>2 DEF Good
<1>4. invitation' = [invitation EXCEPT ![s] = [invitation[s] EXCEPT !.live = FALSE]]
  BY <1>1, <1>2
<1>5. PICK i \in Good : /\ i = [invitation[s] EXCEPT !.live = FALSE]
                        /\ i.token = invitation[s].token /\ i.done = invitation[s].done
  BY <1>3
<1>6. /\ invitation' \in [Slots -> Good \cup {NoInvitation}]
      /\ \A t \in Slots : invitation'[t] = IF t = s THEN i ELSE invitation[t]
  BY <1>2, <1>4, <1>5
<1>7. MemberShape'
  BY <1>1, <1>6 DEF MemberInv, MemberShape, orgVars, userVars, workVars
<1>8. \A t \in Slots :
        /\ invitation'[t] = NoInvitation <=> invitation[t] = NoInvitation
        /\ invitation[t] # NoInvitation => /\ invitation'[t].token = invitation[t].token
                                           /\ invitation'[t].done = invitation[t].done
  BY <1>1, <1>5, <1>6, GoodIsOne
<1>. QED
  BY <1>1, <1>7, <1>8, NobodyWorks DEF orgVars, workVars

LEMMA ShowInviteKeeps ==
  ASSUME MemberInv, NEW s \in Slots, ShowInvite(s)
  PROVE  MemberInv'
<1>1. /\ session' = [slot |-> s, token |-> invitation[s].token]
      /\ invitation[s] # NoInvitation
      /\ UNCHANGED <<orgVars, userVars, workVars, invitation, entrants, role, space>>
  BY DEF ShowInvite, IsOpen
<1>2. session' \in [slot : Slots, token : Nat]
  BY <1>1, TokenFacts
<1>3. MemberShape'
  BY <1>1, <1>2 DEF MemberInv, MemberShape, orgVars, userVars, workVars
<1>. QED
  BY <1>1, <1>3, NobodyWorks DEF orgVars, workVars

LEMMA UnarchiveSpaceKeeps ==
  ASSUME MemberInv, UnarchiveSpace
  PROVE  MemberInv'
<1>1. PICK x \in Workspaces :
        /\ space[x] = "archived"
        /\ space' = [space EXCEPT ![x] = "active"]
        /\ UNCHANGED <<orgVars, linkVars, userVars, workVars, role>>
  BY DEF UnarchiveSpace
<1>2. MemberShape'
  BY <1>1 DEF MemberInv, MemberShape, orgVars, linkVars, userVars, workVars
<1>3. \A y \in Workspaces : space'[y] = space[y] \/ (space[y] = "archived" /\ space'[y] = "active")
  BY <1>1 DEF MemberInv, MemberShape
<1>. QED
  BY <1>1, <1>2, <1>3, NobodyWorks DEF orgVars, linkVars, workVars

---------------------------------------------------------------------------------
(* A request goes on. *)

LEMMA AtStepIs ==
  ASSUME MemberInv, NEW w \in Threads, NEW kind, NEW step, AtStep(w, kind, step)
  PROVE  \E R \in Requests : request[w] = R /\ R.kind = kind /\ R.step = step /\ Fits(R)
<1>1. request[w] \in Requests
  BY DEF AtStep, MemberInv, MemberShape
<1>2. PICK R \in Requests : R = request[w]
  BY <1>1
<1>. QED
  BY <1>2 DEF AtStep, MemberInv, RequestsFit

\* A step that touches no invitation.
LEMMA PlainStep ==
  ASSUME MemberInv, MemberShape', NEW w \in Threads, NEW R \in Requests, request[w] = R,
         R \notin Accepts,
         NEW next \in Requests \cup {Idle}, NEW rows, Proceeds(w, next, rows),
         next # Idle => /\ next.about = R.about /\ next \notin Reissues /\ Fits(next)',
         Leaves(R.about, rows), begun' = begun, invitation' = invitation, entrants' = entrants
  PROVE  RequestsFit' /\ RequestsApart' /\ TokensCounted' /\ OneComesIn'
<1>1. /\ RequestsFit' /\ RequestsApart'
      /\ Busy' # {} => begun' > 0
      /\ \A s \in Slots : Resending(s)' \subseteq Resending(s) \ {w}
      /\ \A s \in Slots : \A v \in Threads \ {w} : ComingIn(v, s) => ComingIn(v, s)'
  BY StepKeeps
<1>2. TokensCounted'
  <2>1. \A s \in Slots : Resending(s)' \subseteq Resending(s)
    BY <1>1
  <2>2. \A s \in Slots : invitation'[s] # NoInvitation =>
          invitation[s] # NoInvitation /\ invitation'[s].token = invitation[s].token
    OBVIOUS
  <2>. QED
    BY <1>1, <2>1, <2>2, TokensStay
<1>3. OneComesIn'
  <2>1. \A s \in Slots : \A v \in Threads : ComingIn(v, s) => ComingIn(v, s)'
    BY <1>1 DEF ComingIn
  <2>2. disturbed \subseteq disturbed'
    BY DEF Leaves
  <2>. QED
    BY <2>1, <2>2, EntrantsStay
<1>. QED
  BY <1>1, <1>2, <1>3

\* Nothing of the members, invitations and workspaces goes but what is said.
LEMMA LeavesIntro ==
  ASSUME NEW A, NEW rows, disturbed \subseteq disturbed',
         \A u \in Users \ A : org'[u] = org[u] /\ role'[u] = role[u],
         invitation' = invitation, entrants' = entrants, space' = space
  PROVE  Leaves(A, rows)
<1>1. Active' = Active
  BY DEF Active
<1>. QED
  BY <1>1 DEF Leaves, LeavesUsers, LeavesLinks, LeavesSpaces

LEMMA LeaveSpacesKeeps ==
  ASSUME MemberInv, NEW w \in Threads, LeaveSpaces(w)
  PROVE  MemberInv'
<1>1. PICK R \in Requests : request[w] = R /\ R.kind = "remove" /\ R.step = "spaces" /\ Fits(R)
  BY AtStepIs DEF LeaveSpaces
<1>2. R \in Removals /\ R.of \in Users /\ RemovalFits(R) /\ R \notin Accepts
  <2>1. R \in Removals /\ R \notin Accepts
    BY <1>1, KindOf
  <2>. QED
    BY <1>1, <2>1 DEF Removals, Fits
<1>. DEFINE rows0 == {<<R.of, x>> : x \in Workspaces}
            next0 == [R EXCEPT !.step = "org"]
<1>3. PICK rows, next : rows = rows0 /\ next = next0
  OBVIOUS
<1>4. /\ role' = [role EXCEPT ![R.of] = Nowhere]
      /\ Proceeds(w, next, rows)
      /\ UNCHANGED <<orgVars, linkVars, userVars, begun, disturbed, space>>
  BY <1>1, <1>3 DEF LeaveSpaces, GoesTo
<1>5. /\ next \in Removals /\ next.of = R.of /\ next.about = R.about /\ next.step = "org"
      /\ next.kind = "remove"
  BY <1>2, <1>3 DEF Removals
<1>6. next \in Requests /\ next \notin Reissues
  <2>1. next \in Requests
    BY <1>5 DEF Requests
  <2>. QED
    BY <1>5, <2>1, KindOf
<1>7. MemberShape'
  <2>1. request' \in [Threads -> Requests \cup {Idle}]
    BY <1>4, <1>6, ProceedsTo DEF MemberInv, GoesOn
  <2>2. role' \in [Users -> Assignments]
    BY <1>2, <1>4, NowhereIs DEF MemberInv, MemberShape
  <2>. QED
    BY <1>4, <2>1, <2>2 DEF MemberInv, MemberShape, orgVars, linkVars, userVars
<1>8. \A u \in Users : role'[u] = IF u = R.of THEN Nowhere ELSE role[u]
  BY <1>2, <1>4 DEF MemberInv, MemberShape
<1>9. Leaves(R.about, rows)
  BY <1>2, <1>4, <1>8, LeavesIntro DEF RemovalFits, orgVars, linkVars
<1>10. Fits(next)'
  <2>1. RemovalFits(next)'
    BY <1>2, <1>5, <1>8 DEF RemovalFits
  <2>. QED
    BY <1>5, <1>6, <2>1, KindOf DEF Fits
<1>11. RequestsFit' /\ RequestsApart' /\ TokensCounted' /\ OneComesIn'
  BY <1>1, <1>2, <1>4, <1>5, <1>6, <1>7, <1>9, <1>10, PlainStep DEF linkVars
<1>12. OneOwner'
  BY <1>4, OwnerStays DEF orgVars
<1>13. NobodyIsLeft'
  <2>1. \A u \in Users : u \notin disturbed' /\ org'[u] = 0 =>
          role'[u] = Nowhere \/ (org[u] = 0 /\ \A x \in Workspaces : role'[u][x] = role[u][x] \/ role'[u][x] = 0)
    BY <1>4, <1>8 DEF orgVars
  <2>. QED
    BY <1>4, <1>7, <2>1, NobodyStays
<1>14. SomewhereToWork'
  BY <1>4, SomewhereStays DEF Active
<1>. QED
  BY <1>7, <1>11, <1>12, <1>13, <1>14 DEF MemberInv

LEMMA LeaveOrgKeeps ==
  ASSUME MemberInv, NEW w \in Threads, LeaveOrg(w)
  PROVE  MemberInv'
<1>1. PICK R \in Requests : request[w] = R /\ R.kind = "remove" /\ R.step = "org" /\ Fits(R)
  BY AtStepIs DEF LeaveOrg
<1>2. R \in Removals /\ R.of \in Users /\ RemovalFits(R) /\ R \notin Accepts
  <2>1. R \in Removals /\ R \notin Accepts
    BY <1>1, KindOf
  <2>. QED
    BY <1>1, <2>1 DEF Removals, Fits
<1>3. PICK rows : rows = {<<R.of>>}
  OBVIOUS
<1>4. /\ org' = IF <<R.of>> \in R.holds THEN [org EXCEPT ![R.of] = 0] ELSE org
      /\ Proceeds(w, Idle, rows)
      /\ UNCHANGED <<linkVars, userVars, begun, disturbed, madeBy, role, space>>
  BY <1>1, <1>3 DEF LeaveOrg
<1>5. MemberShape'
  <2>1. request' \in [Threads -> Requests \cup {Idle}]
    BY <1>4, ProceedsTo DEF MemberInv, GoesOn
  <2>2. org' \in [Users -> OrgRoles \cup {0}]
    BY <1>2, <1>4 DEF MemberInv, MemberShape
  <2>. QED
    BY <1>4, <2>1, <2>2 DEF MemberInv, MemberShape, linkVars, userVars
<1>6. \A u \in Users : org'[u] = org[u] \/ (u = R.of /\ org'[u] = 0)
  BY <1>2, <1>4 DEF MemberInv, MemberShape
<1>7. Leaves(R.about, rows)
  BY <1>2, <1>4, <1>6, LeavesIntro DEF RemovalFits, linkVars
<1>8. RequestsFit' /\ RequestsApart' /\ TokensCounted' /\ OneComesIn'
  BY <1>1, <1>2, <1>4, <1>5, <1>7, PlainStep DEF linkVars
<1>9. OneOwner'
  BY <1>2, <1>4, <1>6 DEF RemovalFits, MemberInv, OneOwner, Owners, Owner, Admin
<1>10. NobodyIsLeft'
  <2>1. \A u \in Users : u \notin disturbed' /\ org'[u] = 0 =>
          role'[u] = Nowhere \/ (org[u] = 0 /\ \A x \in Workspaces : role'[u][x] = role[u][x] \/ role'[u][x] = 0)
    BY <1>1, <1>2, <1>4, <1>6 DEF RemovalFits
  <2>. QED
    BY <1>4, <1>5, <2>1, NobodyStays
<1>11. SomewhereToWork'
  BY <1>4, SomewhereStays DEF Active
<1>. QED
  BY <1>5, <1>8, <1>9, <1>10, <1>11 DEF MemberInv

LEMMA SaveOrgRoleKeeps ==
  ASSUME MemberInv, NEW w \in Threads, SaveOrgRole(w)
  PROVE  MemberInv'
<1>1. PICK R \in Requests : request[w] = R /\ R.kind = "orgRole" /\ R.step = "save" /\ Fits(R)
  BY AtStepIs DEF SaveOrgRole
<1>2. /\ R \in RoleChanges /\ R.of \in Users /\ R.by \in Users /\ R.new \in OrgRoles
      /\ RoleChangeFits(R) /\ R \notin Accepts
  <2>1. R \in RoleChanges /\ R \notin Accepts
    BY <1>1, KindOf
  <2>. QED
    BY <1>1, <2>1 DEF RoleChanges, Fits
<1>3. /\ \/ org' = [org EXCEPT ![R.of] = R.new] /\ madeBy' = [madeBy EXCEPT ![R.of] = R.by]
         \/ org' = org /\ madeBy' = madeBy
      /\ Proceeds(w, Idle, {})
      /\ UNCHANGED <<linkVars, userVars, begun, disturbed, role, space>>
  BY <1>1 DEF SaveOrgRole, orgVars
<1>4. MemberShape'
  <2>1. request' \in [Threads -> Requests \cup {Idle}]
    BY <1>3, ProceedsTo DEF MemberInv, GoesOn
  <2>2. org' \in [Users -> OrgRoles \cup {0}] /\ madeBy' \in [Users -> Users]
    BY <1>2, <1>3 DEF MemberInv, MemberShape
  <2>. QED
    BY <1>3, <2>1, <2>2 DEF MemberInv, MemberShape, linkVars, userVars
<1>5. \A u \in Users : \/ org'[u] = org[u] /\ madeBy'[u] = madeBy[u]
                       \/ u = R.of /\ org'[u] = R.new /\ madeBy'[u] = R.by
  BY <1>2, <1>3 DEF MemberInv, MemberShape
<1>6. Leaves(R.about, {})
  <2>1. \A u \in Users \ R.about : org'[u] = org[u] /\ role'[u] = role[u]
    BY <1>2, <1>3, <1>5 DEF RoleChangeFits
  <2>. QED
    BY <1>3, <2>1, LeavesIntro DEF linkVars
<1>7. RequestsFit' /\ RequestsApart' /\ TokensCounted' /\ OneComesIn'
  BY <1>1, <1>2, <1>3, <1>4, <1>6, PlainStep DEF linkVars
<1>8. OneOwner'
  <2>1. R.of # Founder /\ R.new # Owner /\ (R.new = Admin => R.by = Founder)
    BY <1>2 DEF RoleChangeFits
  <2>2. \A u \in Users : org'[u] = Owner <=> org[u] = Owner
    BY <1>5, <2>1, FounderAlone
  <2>3. \A u \in Users : org'[u] = Admin => madeBy'[u] = Founder
    BY <1>5, <2>1 DEF MemberInv, OneOwner
  <2>. QED
    BY <2>2, <2>3 DEF MemberInv, OneOwner, Owners
<1>9. NobodyIsLeft'
  <2>1. \A u \in Users : u \notin disturbed' /\ org'[u] = 0 => org[u] = 0
    BY <1>2, <1>5 DEF OrgRoles
  <2>. QED
    BY <1>3, <1>4, <2>1, NobodyStays
<1>10. SomewhereToWork'
  BY <1>3, SomewhereStays DEF Active
<1>. QED
  BY <1>4, <1>7, <1>8, <1>9, <1>10 DEF MemberInv

LEMMA DropSpacesKeeps ==
  ASSUME MemberInv, NEW w \in Threads, DropSpaces(w)
  PROVE  MemberInv'
<1>1. PICK R \in Requests : request[w] = R /\ R.kind = "assign" /\ R.step = "drop" /\ Fits(R)
  BY AtStepIs DEF DropSpaces
<1>2. R \in Assigns /\ R.of \in Users /\ AssignFits(R) /\ R \notin Accepts
  <2>1. R \in Assigns /\ R \notin Accepts
    BY <1>1, KindOf
  <2>. QED
    BY <1>1, <2>1 DEF Assigns, Fits
<1>. DEFINE out0 == {x \in Workspaces : <<R.of, x>> \in R.holds /\ R.new[x] = 0}
<1>3. PICK out : out = out0
  OBVIOUS
<1>4. PICK rows, next : rows = {<<R.of, x>> : x \in out} /\ next = [R EXCEPT !.step = "set"]
  OBVIOUS
<1>5. /\ role' = [role EXCEPT ![R.of] = [x \in Workspaces |-> IF x \in out THEN 0 ELSE @[x]]]
      /\ Proceeds(w, next, rows)
      /\ UNCHANGED <<orgVars, linkVars, userVars, begun, disturbed, space>>
  BY <1>1, <1>3, <1>4 DEF DropSpaces, GoesTo
<1>6. /\ next \in Assigns /\ next.of = R.of /\ next.by = R.by /\ next.about = R.about /\ next.step = "set"
      /\ next.kind = "assign"
  BY <1>2, <1>4 DEF Assigns
<1>7. next \in Requests /\ next \notin Reissues
  <2>1. next \in Requests
    BY <1>6 DEF Requests
  <2>. QED
    BY <1>6, <2>1, KindOf
<1>8. \A u \in Users : role'[u] = IF u = R.of THEN [x \in Workspaces |-> IF x \in out THEN 0 ELSE role[u][x]]
                                 ELSE role[u]
  BY <1>2, <1>5 DEF MemberInv, MemberShape
<1>9. MemberShape'
  <2>1. request' \in [Threads -> Requests \cup {Idle}]
    BY <1>5, <1>7, ProceedsTo DEF MemberInv, GoesOn
  <2>2. role[R.of] \in Assignments
    BY <1>2 DEF MemberInv, MemberShape
  <2>3. [x \in Workspaces |-> IF x \in out THEN 0 ELSE role[R.of][x]] \in Assignments
    BY <2>2 DEF Assignments
  <2>4. role' \in [Users -> Assignments]
    BY <1>2, <1>5, <2>3 DEF MemberInv, MemberShape
  <2>. QED
    BY <1>5, <2>1, <2>4 DEF MemberInv, MemberShape, orgVars, linkVars, userVars
<1>10. Leaves(R.about, rows)
  <2>1. \A u \in Users \ R.about : org'[u] = org[u] /\ role'[u] = role[u]
    BY <1>2, <1>5, <1>8 DEF AssignFits, orgVars
  <2>. QED
    BY <1>5, <2>1, LeavesIntro DEF linkVars
<1>11. Fits(next)'
  <2>1. AssignFits(next)'
    BY <1>2, <1>5, <1>6 DEF AssignFits, orgVars
  <2>. QED
    BY <1>6, <1>7, <2>1, KindOf DEF Fits
<1>12. RequestsFit' /\ RequestsApart' /\ TokensCounted' /\ OneComesIn'
  BY <1>1, <1>2, <1>5, <1>6, <1>7, <1>9, <1>10, <1>11, PlainStep DEF linkVars
<1>13. OneOwner'
  BY <1>5, OwnerStays DEF orgVars
<1>14. NobodyIsLeft'
  <2>1. \A u \in Users, x \in Workspaces : role'[u][x] = role[u][x] \/ role'[u][x] = 0
    BY <1>8
  <2>2. org' = org /\ disturbed' = disturbed
    BY <1>5 DEF orgVars
  <2>. QED
    BY <1>9, <2>1, <2>2, NobodyStays
<1>15. SomewhereToWork'
  BY <1>5, SomewhereStays DEF Active
<1>. QED
  BY <1>9, <1>12, <1>13, <1>14, <1>15 DEF MemberInv

LEMMA SetSpacesKeeps ==
  ASSUME MemberInv, NEW w \in Threads, SetSpaces(w)
  PROVE  MemberInv'
<1>1. PICK R \in Requests : request[w] = R /\ R.kind = "assign" /\ R.step = "set" /\ Fits(R)
  BY AtStepIs DEF SetSpaces
<1>2. /\ R \in Assigns /\ R.of \in Users /\ R.new \in Assignments /\ AssignFits(R)
      /\ R \notin Accepts
  <2>1. R \in Assigns /\ R \notin Accepts
    BY <1>1, KindOf
  <2>. QED
    BY <1>1, <2>1 DEF Assigns, Fits
<1>3. PICK done :
        role' = [role EXCEPT ![R.of] = [x \in Workspaces |-> IF x \in done THEN R.new[x] ELSE role[R.of][x]]]
  <2>. DEFINE r == request[w]
              todo == {x \in Workspaces : r.new[x] # 0 /\ r.new[x] # r.seen[x]}
              able == {x \in todo : IF r.seen[x] # 0 THEN <<r.of, x>> \in r.holds
                                    ELSE role[r.of][x] = 0 /\ space[x] # "gone" /\ r.of \in accounts}
  <2>1. \E done \in IF able = todo THEN {todo} ELSE SUBSET able :
          role' = [role EXCEPT ![r.of] = [x \in Workspaces |-> IF x \in done THEN r.new[x] ELSE @[x]]]
    BY ZenonT(30) DEF SetSpaces
  <2>. HIDE DEF todo, able
  <2>2. PICK done :
          role' = [role EXCEPT ![r.of] = [x \in Workspaces |-> IF x \in done THEN r.new[x] ELSE @[x]]]
    BY <2>1
  <2>3. role' = [role EXCEPT ![r.of] = [x \in Workspaces |-> IF x \in done THEN r.new[x] ELSE role[r.of][x]]]
    BY <2>2
  <2>4. [x \in Workspaces |-> IF x \in done THEN r.new[x] ELSE role[r.of][x]]
        = [x \in Workspaces |-> IF x \in done THEN R.new[x] ELSE role[R.of][x]]
    BY <1>1
  <2>. QED
    BY <1>1, <2>3, <2>4
<1>4. /\ Proceeds(w, Idle, {}) /\ disturbed \subseteq disturbed'
      /\ UNCHANGED <<orgVars, linkVars, userVars, begun, space>>
  <2>1. Proceeds(w, Idle, {}) /\ UNCHANGED <<orgVars, linkVars, userVars, begun, space>>
    BY DEF SetSpaces
  <2>2. disturbed \subseteq disturbed'
    BY DEF SetSpaces, FailsIf
  <2>. QED
    BY <2>1, <2>2
<1>5. \A u \in Users :
        role'[u] = IF u = R.of THEN [x \in Workspaces |-> IF x \in done THEN R.new[x] ELSE role[u][x]]
                   ELSE role[u]
  BY <1>2, <1>3 DEF MemberInv, MemberShape
<1>6. MemberShape'
  <2>1. request' \in [Threads -> Requests \cup {Idle}]
    BY <1>4, ProceedsTo DEF MemberInv, GoesOn
  <2>2. role[R.of] \in Assignments
    BY <1>2 DEF MemberInv, MemberShape
  <2>3. [x \in Workspaces |-> IF x \in done THEN R.new[x] ELSE role[R.of][x]] \in Assignments
    BY <1>2, <2>2 DEF Assignments
  <2>4. role' \in [Users -> Assignments]
    BY <1>2, <1>3, <2>3 DEF MemberInv, MemberShape
  <2>. QED
    BY <1>4, <2>1, <2>4 DEF MemberInv, MemberShape, orgVars, linkVars, userVars
<1>7. Leaves(R.about, {})
  <2>1. \A u \in Users \ R.about : org'[u] = org[u] /\ role'[u] = role[u]
    BY <1>2, <1>4, <1>5 DEF AssignFits, orgVars
  <2>. QED
    BY <1>4, <2>1, LeavesIntro DEF linkVars
<1>8. RequestsFit' /\ RequestsApart' /\ TokensCounted' /\ OneComesIn'
  BY <1>1, <1>2, <1>4, <1>6, <1>7, PlainStep DEF linkVars
<1>9. OneOwner'
  BY <1>4, OwnerStays DEF orgVars
<1>10. NobodyIsLeft'
  <2>1. org' = org
    BY <1>4 DEF orgVars
  <2>2. \A u \in Users : u \notin disturbed' /\ org'[u] = 0 => u # R.of
    BY <1>2, <1>4, <2>1 DEF AssignFits
  <2>3. \A u \in Users : u \notin disturbed' /\ org'[u] = 0 => role'[u] = role[u]
    BY <1>5, <2>2
  <2>. QED
    BY <1>4, <1>6, <2>1, <2>3, NobodyStays
<1>11. SomewhereToWork'
  BY <1>4, SomewhereStays DEF Active
<1>. QED
  BY <1>6, <1>8, <1>9, <1>10, <1>11 DEF MemberInv

LEMMA EraseUserKeeps ==
  ASSUME MemberInv, NEW w \in Threads, EraseUser(w)
  PROVE  MemberInv'
<1>1. PICK R \in Requests : request[w] = R /\ R.kind = "leave" /\ R.step = "delete" /\ Fits(R)
  BY AtStepIs DEF EraseUser
<1>2. R \in Departures /\ R.of \in Users /\ DepartureFits(R) /\ R \notin Accepts
  <2>1. R \in Departures /\ R \notin Accepts
    BY <1>1, KindOf
  <2>. QED
    BY <1>1, <2>1 DEF Departures, Fits
<1>3. PICK rows : rows = {<<R.of>>} \cup {<<R.of, x>> : x \in Workspaces}
  OBVIOUS
<1>4. /\ accounts' = accounts \ {R.of} /\ home' = home \ {R.of}
      /\ org' = [org EXCEPT ![R.of] = 0]
      /\ role' = [role EXCEPT ![R.of] = Nowhere]
      /\ Proceeds(w, Idle, rows)
      /\ UNCHANGED <<linkVars, madeBy, begun, disturbed, space>>
  BY <1>1, <1>3 DEF EraseUser
<1>5. /\ \A u \in Users : org'[u] = IF u = R.of THEN 0 ELSE org[u]
      /\ \A u \in Users : role'[u] = IF u = R.of THEN Nowhere ELSE role[u]
  BY <1>2, <1>4 DEF MemberInv, MemberShape
<1>6. MemberShape'
  <2>1. request' \in [Threads -> Requests \cup {Idle}]
    BY <1>4, ProceedsTo DEF MemberInv, GoesOn
  <2>2. role' \in [Users -> Assignments]
    BY <1>2, <1>4, NowhereIs DEF MemberInv, MemberShape
  <2>3. org' \in [Users -> OrgRoles \cup {0}]
    BY <1>2, <1>4 DEF MemberInv, MemberShape
  <2>4. accounts' \subseteq Users /\ home' \subseteq accounts'
    BY <1>4 DEF MemberInv, MemberShape
  <2>. QED
    BY <1>4, <2>1, <2>2, <2>3, <2>4 DEF MemberInv, MemberShape, linkVars
<1>7. Leaves(R.about, rows)
  <2>1. \A u \in Users \ R.about : org'[u] = org[u] /\ role'[u] = role[u]
    BY <1>2, <1>5 DEF DepartureFits
  <2>. QED
    BY <1>4, <2>1, LeavesIntro DEF linkVars
<1>8. RequestsFit' /\ RequestsApart' /\ TokensCounted' /\ OneComesIn'
  BY <1>1, <1>2, <1>4, <1>6, <1>7, PlainStep DEF linkVars
<1>9. OneOwner'
  BY <1>2, <1>4, <1>5 DEF DepartureFits, MemberInv, OneOwner, Owners, Owner, Admin
<1>10. NobodyIsLeft'
  <2>1. \A u \in Users : u \notin disturbed' /\ org'[u] = 0 =>
          role'[u] = Nowhere \/ (org[u] = 0 /\ \A x \in Workspaces : role'[u][x] = role[u][x] \/ role'[u][x] = 0)
    BY <1>5
  <2>. QED
    BY <1>4, <1>6, <2>1, NobodyStays
<1>11. SomewhereToWork'
  BY <1>4, SomewhereStays DEF Active
<1>. QED
  BY <1>6, <1>8, <1>9, <1>10, <1>11 DEF MemberInv

LEMMA SaveSpaceKeeps ==
  ASSUME MemberInv, NEW w \in Threads, SaveSpace(w)
  PROVE  MemberInv'
<1>1. PICK R \in Requests : request[w] = R /\ R.kind = "create" /\ R.step = "save" /\ Fits(R)
  BY AtStepIs DEF SaveSpace
<1>2. /\ R \in Creations /\ R.by \in Users /\ R.space \in Workspaces /\ CreationFits(R)
      /\ R \notin Accepts /\ R \notin Closings
  <2>1. R \in Creations /\ R \notin Accepts /\ R \notin Closings
    BY <1>1, KindOf
  <2>. QED
    BY <1>1, <2>1 DEF Creations, Fits
<1>3. /\ \/ space' = space /\ role' = role
         \/ /\ space[R.space] = "unborn"
            /\ space' = [space EXCEPT ![R.space] = "active"]
            /\ role' = [role EXCEPT ![R.by][R.space] = 6] \/ role' = role
      /\ Proceeds(w, Idle, {})
      /\ UNCHANGED <<orgVars, linkVars, userVars, begun, disturbed>>
  BY <1>1 DEF SaveSpace
<1>4. /\ \A u \in Users : u # R.by => role'[u] = role[u]
      /\ \A x \in Workspaces : space'[x] = space[x] \/ (space[x] = "unborn" /\ space'[x] = "active")
      /\ role' \in [Users -> Assignments]
      /\ space' \in [Workspaces -> {"unborn", "active", "archived", "gone"}]
  <2>1. role \in [Users -> Assignments] /\ space \in [Workspaces -> {"unborn", "active", "archived", "gone"}]
    BY DEF MemberInv, MemberShape
  <2>2. role[R.by] \in Assignments /\ [role[R.by] EXCEPT ![R.space] = 6] \in Assignments
    BY <1>2, <2>1 DEF Assignments
  <2>3. [role EXCEPT ![R.by][R.space] = 6] = [role EXCEPT ![R.by] = [role[R.by] EXCEPT ![R.space] = 6]]
    BY <1>2, <2>1
  <2>4. role' = role \/ role' = [role EXCEPT ![R.by] = [role[R.by] EXCEPT ![R.space] = 6]]
    BY <1>3, <2>3
  <2>5. \A u \in Users : u # R.by => role'[u] = role[u]
    BY <1>2, <2>1, <2>4
  <2>6. role' \in [Users -> Assignments]
    BY <1>2, <2>1, <2>2, <2>4
  <2>7. /\ \A x \in Workspaces : space'[x] = space[x] \/ (space[x] = "unborn" /\ space'[x] = "active")
        /\ space' \in [Workspaces -> {"unborn", "active", "archived", "gone"}]
    BY <1>2, <1>3, <2>1
  <2>. QED
    BY <2>5, <2>6, <2>7
<1>5. MemberShape'
  <2>1. request' \in [Threads -> Requests \cup {Idle}]
    BY <1>3, ProceedsTo DEF MemberInv, GoesOn
  <2>. QED
    BY <1>3, <1>4, <2>1 DEF MemberInv, MemberShape, orgVars, linkVars, userVars
<1>6. Active \subseteq Active'
  BY <1>4 DEF Active
<1>7. Leaves(R.about, {})
  <2>1. \A u \in Users \ R.about : org'[u] = org[u] /\ role'[u] = role[u]
    BY <1>2, <1>3, <1>4 DEF CreationFits, orgVars
  <2>. QED
    BY <1>3, <1>4, <1>6, <2>1 DEF Leaves, LeavesUsers, LeavesLinks, LeavesSpaces, linkVars
<1>8. RequestsFit' /\ RequestsApart' /\ TokensCounted' /\ OneComesIn'
  BY <1>1, <1>2, <1>3, <1>5, <1>7, PlainStep DEF linkVars
<1>9. OneOwner'
  BY <1>3, OwnerStays DEF orgVars
<1>10. NobodyIsLeft'
  <2>1. org' = org /\ disturbed' = disturbed
    BY <1>3 DEF orgVars
  <2>2. \A u \in Users : u \notin disturbed' /\ org'[u] = 0 => role'[u] = role[u]
    BY <1>2, <1>4, <2>1 DEF CreationFits
  <2>. QED
    BY <1>5, <2>1, <2>2, NobodyStays
<1>11. SomewhereToWork'
  BY <1>3, <1>6, SomewhereStays
<1>. QED
  BY <1>5, <1>8, <1>9, <1>10, <1>11 DEF MemberInv

LEMMA SaveClosedKeeps ==
  ASSUME MemberInv, NEW w \in Threads, SaveClosed(w)
  PROVE  MemberInv'
<1>1. PICK R \in Requests : request[w] = R /\ R.kind \in {"archive", "delete"} /\ Fits(R)
  BY AtStepIs DEF SaveClosed
<1>2. /\ R \in Closings /\ R.space \in Workspaces /\ ClosingFits(R) /\ R \notin Accepts
  <2>1. R \in Closings /\ R \notin Accepts
    BY <1>1, KindOf
  <2>. QED
    BY <1>1, <2>1 DEF Closings, Fits
<1>3. PICK held \in BOOLEAN, gone \in BOOLEAN :
        /\ held <=> <<R.space>> \in R.holds
        /\ gone <=> held /\ R.kind = "delete"
  OBVIOUS
<1>4. PICK rows : rows = IF gone THEN {<<R.space>>} \cup {<<u, R.space>> : u \in Users} ELSE {}
  OBVIOUS
<1>5. /\ space' = IF gone THEN [space EXCEPT ![R.space] = "gone"]
                  ELSE IF held THEN [space EXCEPT ![R.space] = "archived"] ELSE space
      /\ role' = IF gone THEN [u \in Users |-> [role[u] EXCEPT ![R.space] = 0]] ELSE role
      /\ Proceeds(w, Idle, rows)
      /\ UNCHANGED <<orgVars, linkVars, userVars, begun, disturbed>>
  BY <1>1, <1>3, <1>4 DEF SaveClosed
<1>6. /\ role \in [Users -> Assignments]
      /\ space \in [Workspaces -> {"unborn", "active", "archived", "gone"}]
  BY DEF MemberInv, MemberShape
<1>7. /\ \A x \in Workspaces : x # R.space => space'[x] = space[x]
      /\ gone => space'[R.space] = "gone"
      /\ ~gone /\ held => space'[R.space] = "archived"
      /\ ~gone /\ ~held => space'[R.space] = space[R.space]
      /\ space' \in [Workspaces -> {"unborn", "active", "archived", "gone"}]
  <2>1. CASE gone
    BY <1>2, <1>5, <1>6, <2>1
  <2>2. CASE ~gone /\ held
    BY <1>2, <1>5, <1>6, <2>2
  <2>3. CASE ~gone /\ ~held
    BY <1>2, <1>5, <1>6, <2>3
  <2>. QED
    BY <2>1, <2>2, <2>3
<1>8. /\ \A u \in Users, x \in Workspaces : role'[u][x] = role[u][x] \/ (role'[u][x] = 0 /\ space'[x] = "gone")
      /\ role' \in [Users -> Assignments]
  <2>1. CASE gone
    <3>1. \A u \in Users : role'[u] = [role[u] EXCEPT ![R.space] = 0]
      BY <1>5, <2>1
    <3>2. ASSUME NEW u \in Users
          PROVE  /\ [role[u] EXCEPT ![R.space] = 0] \in Assignments
                 /\ \A x \in Workspaces :
                      [role[u] EXCEPT ![R.space] = 0][x] = IF x = R.space THEN 0 ELSE role[u][x]
      <4>1. role[u] \in Assignments
        BY <1>6
      <4>. QED
        BY <1>2, <4>1 DEF Assignments
    <3>3. role' \in [Users -> Assignments]
      BY <1>5, <2>1, <3>2
    <3>4. ASSUME NEW u \in Users, NEW x \in Workspaces
          PROVE  role'[u][x] = role[u][x] \/ (role'[u][x] = 0 /\ space'[x] = "gone")
      <4>1. role'[u][x] = IF x = R.space THEN 0 ELSE role[u][x]
        <5>1. role[u] \in Assignments /\ role'[u] = [role[u] EXCEPT ![R.space] = 0]
          BY <1>6, <3>1
        <5>. QED
          BY <1>2, <5>1 DEF Assignments
      <4>. QED
        BY <1>7, <2>1, <4>1
    <3>. QED
      BY <3>3, <3>4
  <2>2. CASE ~gone
    BY <1>5, <1>6, <2>2
  <2>. QED
    BY <2>1, <2>2
<1>9. MemberShape'
  <2>1. request' \in [Threads -> Requests \cup {Idle}]
    BY <1>5, ProceedsTo DEF MemberInv, GoesOn
  <2>. QED
    BY <1>5, <1>7, <1>8, <2>1 DEF MemberInv, MemberShape, orgVars, linkVars, userVars
<1>10. Leaves(R.about, rows)
  <2>1. LeavesUsers(R.about)
    BY <1>5, <1>8 DEF LeavesUsers, orgVars
  <2>2. LeavesLinks(R.about)
    BY <1>5 DEF LeavesLinks, linkVars
  <2>3. Workspaces \subseteq R.about
    BY <1>2 DEF ClosingFits
  <2>4. held => space[R.space] \in {"active", "archived"}
    BY <1>2, <1>3 DEF ClosingFits
  <2>5. gone => <<R.space>> \in rows /\ held
    BY <1>3, <1>4
  <2>6. ASSUME NEW x \in Workspaces
        PROVE  /\ space[x] = "gone" => space'[x] = "gone"
               /\ space[x] \in {"active", "archived"} =>
                    space'[x] \in {"active", "archived"} \/ <<x>> \in rows
    BY <1>7, <2>4, <2>5
  <2>7. LeavesSpaces(R.about, rows)
    BY <2>3, <2>6 DEF LeavesSpaces
  <2>. QED
    BY <1>5, <2>1, <2>2, <2>7 DEF Leaves
<1>11. RequestsFit' /\ RequestsApart' /\ TokensCounted' /\ OneComesIn'
  BY <1>1, <1>2, <1>5, <1>9, <1>10, PlainStep DEF linkVars
<1>12. OneOwner'
  BY <1>5, OwnerStays DEF orgVars
<1>13. NobodyIsLeft'
  <2>1. org' = org /\ disturbed' = disturbed
    BY <1>5 DEF orgVars
  <2>2. \A u \in Users, x \in Workspaces : role'[u][x] = role[u][x] \/ role'[u][x] = 0
    BY <1>8
  <2>. QED
    BY <1>9, <2>1, <2>2, NobodyStays
<1>14. SomewhereToWork'
  <2>1. ASSUME Workspaces \cap disturbed' = {} PROVE Active' # {}
    <3>1. PICK y \in Active : y # R.space
      BY <1>2, <1>5, <2>1 DEF ClosingFits
    <3>. QED
      BY <1>7, <3>1 DEF Active
  <2>. QED
    BY <2>1 DEF SomewhereToWork
<1>. QED
  BY <1>9, <1>11, <1>12, <1>13, <1>14 DEF MemberInv

LEMMA CreateInvitationKeeps ==
  ASSUME MemberInv, NEW w \in Threads, CreateInvitation(w)
  PROVE  MemberInv'
<1>1. PICK R \in Requests : request[w] = R /\ R.kind = "invite" /\ Fits(R)
  BY AtStepIs DEF CreateInvitation
<1>2. R \in Invites /\ R.new \in Good /\ R.new.token = 1 /\ R \notin Accepts
  <2>1. R \in Invites /\ R \notin Accepts
    BY <1>1, KindOf
  <2>. QED
    BY <2>1 DEF Invites, Fresh
<1>3. /\ invitation' = invitation \/ \E s \in Free : invitation' = [invitation EXCEPT ![s] = R.new]
      /\ Proceeds(w, Idle, {})
      /\ UNCHANGED <<orgVars, userVars, session, entrants, begun, disturbed, role, space>>
  BY <1>1 DEF CreateInvitation
<1>4. /\ invitation' \in [Slots -> Good \cup {NoInvitation}]
      /\ \A s \in Slots : invitation'[s] = invitation[s]
                          \/ (invitation[s] = NoInvitation /\ invitation'[s] = R.new)
  <2>0. invitation \in [Slots -> Good \cup {NoInvitation}]
    BY DEF MemberInv, MemberShape
  <2>1. CASE invitation' = invitation
    BY <2>0, <2>1
  <2>2. ASSUME NEW s \in Free, invitation' = [invitation EXCEPT ![s] = R.new]
        PROVE  <1>4!:
    BY <1>2, <2>0, <2>2 DEF Free
  <2>. QED
    BY <1>3, <2>1, <2>2
<1>5. MemberShape'
  <2>1. request' \in [Threads -> Requests \cup {Idle}]
    BY <1>3, ProceedsTo DEF MemberInv, GoesOn
  <2>. QED
    BY <1>3, <1>4, <2>1 DEF MemberInv, MemberShape, orgVars, userVars
<1>6. Leaves(R.about, {})
  <2>1. Active' = Active
    BY <1>3 DEF Active
  <2>2. \A s \in Slots : invitation[s] # NoInvitation => invitation'[s] # NoInvitation
    BY <1>4
  <2>. QED
    BY <1>3, <2>1, <2>2 DEF Leaves, LeavesUsers, LeavesLinks, LeavesSpaces, orgVars
<1>7. /\ RequestsFit' /\ RequestsApart'
      /\ \A s \in Slots : Resending(s)' \subseteq Resending(s) \ {w}
      /\ \A s \in Slots : \A v \in Threads \ {w} : ComingIn(v, s) => ComingIn(v, s)'
      /\ Busy' # {} => begun' > 0
  BY <1>1, <1>3, <1>5, <1>6, StepKeeps
<1>8. TokensCounted'
  <2>. SUFFICES ASSUME NEW s \in Slots, invitation'[s] # NoInvitation
       PROVE  invitation'[s].token + Cardinality(Resending(s)') <= begun'
    BY <1>7 DEF TokensCounted
  <2>1. CASE invitation'[s] = invitation[s]
    <3>1. /\ Cardinality(Resending(s)') <= Cardinality(Resending(s))
          /\ Cardinality(Resending(s)') \in Nat /\ Cardinality(Resending(s)) \in Nat
      BY <1>7, ResendingCount
    <3>. QED
      BY <1>3, <2>1, <3>1, TokenFacts
  <2>2. CASE invitation[s] = NoInvitation /\ invitation'[s] = R.new
    <3>1. Resending(s) = {}
      <4>. SUFFICES ASSUME NEW v \in Resending(s) PROVE FALSE
        OBVIOUS
      <4>1. PICK q \in Requests : request[v] = q /\ q \in Reissues /\ q.slot = s
        BY DEF Resending, Requests
      <4>2. ReissueFits(q)
        BY <4>1 DEF Resending, MemberInv, RequestsFit, Fits
      <4>. QED
        BY <2>2, <4>1, <4>2 DEF ReissueFits
    <3>2. Resending(s)' = {}
      BY <1>7, <3>1
    <3>3. Cardinality(Resending(s)') = 0
      BY <3>2, FS_EmptySet
    <3>4. begun' \in Nat /\ begun' > 0
      <4>1. begun \in Nat
        BY MemberAssumption DEF MemberInv, MemberShape
      <4>2. w \in Busy
        BY <1>1, KindOf DEF Busy
      <4>. QED
        BY <1>3, <4>1, <4>2 DEF MemberInv, TokensCounted
    <3>. QED
      BY <1>2, <2>2, <3>3, <3>4
  <2>. QED
    BY <1>4, <2>1, <2>2
<1>9. OneComesIn'
  <2>1. \A s \in Slots : \A v \in Threads : ComingIn(v, s) => ComingIn(v, s)'
    BY <1>1, <1>2, <1>7 DEF ComingIn
  <2>2. \A s \in Slots : invitation[s] # NoInvitation =>
          invitation'[s] # NoInvitation /\ (invitation[s].done => invitation'[s].done)
    BY <1>4
  <2>. QED
    BY <1>3, <2>1, <2>2, EntrantsStay
<1>10. OneOwner'
  BY <1>3, OwnerStays DEF orgVars
<1>11. NobodyIsLeft'
  BY <1>3 DEF orgVars, MemberInv, NobodyIsLeft
<1>12. SomewhereToWork'
  BY <1>3, SomewhereStays DEF Active
<1>. QED
  BY <1>5, <1>7, <1>8, <1>9, <1>10, <1>11, <1>12 DEF MemberInv

LEMMA SaveReissueKeeps ==
  ASSUME MemberInv, NEW w \in Threads, SaveReissue(w)
  PROVE  MemberInv'
<1>1. PICK R \in Requests : request[w] = R /\ R.kind \in {"resend", "revoke"} /\ Fits(R)
  BY AtStepIs DEF SaveReissue
<1>2. /\ R \in Reissues /\ R.slot \in Slots /\ R \notin Accepts
      /\ invitation[R.slot] # NoInvitation /\ invitation[R.slot] \in Good
  <2>1. R \in Reissues /\ R \notin Accepts
    BY <1>1, KindOf
  <2>2. R.slot \in Slots /\ ReissueFits(R)
    BY <1>1, <2>1 DEF Reissues, Fits
  <2>. QED
    BY <2>1, <2>2 DEF ReissueFits, MemberInv, MemberShape
<1>. DEFINE old == invitation[R.slot]
<1>3. /\ invitation' = IF R.kind = "revoke" THEN [invitation EXCEPT ![R.slot].live = FALSE]
                       ELSE [invitation EXCEPT ![R.slot].live = TRUE, ![R.slot].token = @ + 1]
      /\ Proceeds(w, Idle, {})
      /\ UNCHANGED <<orgVars, userVars, session, entrants, begun, disturbed, role, space>>
  BY <1>1 DEF SaveReissue
<1>4. invitation \in [Slots -> Good \cup {NoInvitation}]
  BY DEF MemberInv, MemberShape
<1>5. PICK i \in Good :
        /\ invitation' = [invitation EXCEPT ![R.slot] = i]
        /\ i.done = old.done
        /\ R.kind = "revoke" => i.token = old.token
        /\ R.kind # "revoke" => i.token = old.token + 1
  <2>1. old \in Good /\ old.token \in Nat \ {0}
    BY <1>2 DEF Good
  <2>2. CASE R.kind = "revoke"
    <3>. DEFINE i == [old EXCEPT !.live = FALSE]
    <3>1. i \in Good /\ i.done = old.done /\ i.token = old.token
      BY <2>1 DEF Good
    <3>2. invitation' = [invitation EXCEPT ![R.slot] = i]
      BY <1>2, <1>3, <1>4, <2>2
    <3>. HIDE DEF i
    <3>. QED
      BY <2>2, <3>1, <3>2
  <2>3. CASE R.kind # "revoke"
    <3>. DEFINE j == [old EXCEPT !.live = TRUE]
                i == [j EXCEPT !.token = old.token + 1]
    <3>0. j \in Good /\ j.done = old.done /\ j.token = old.token
      BY <2>1 DEF Good
    <3>1. i \in Good /\ i.done = old.done /\ i.token = old.token + 1
      <4>. HIDE DEF j
      <4>1. old.token + 1 \in Nat \ {0}
        BY <2>1
      <4>. QED
        BY <3>0, <4>1 DEF Good
    <3>2. invitation' = [invitation EXCEPT ![R.slot].live = TRUE, ![R.slot].token = @ + 1]
      BY <1>3, <2>3
    <3>3. invitation' = [invitation EXCEPT ![R.slot] = i]
      BY <1>2, <1>4, <2>1, <3>2 DEF Good
    <3>. HIDE DEF i
    <3>. QED
      BY <2>3, <3>1, <3>3
  <2>. QED
    BY <2>2, <2>3
<1>6. /\ invitation' \in [Slots -> Good \cup {NoInvitation}]
      /\ \A s \in Slots : invitation'[s] = IF s = R.slot THEN i ELSE invitation[s]
  BY <1>2, <1>4, <1>5
<1>n. i # NoInvitation
  BY GoodIsOne
<1>7. MemberShape'
  <2>1. request' \in [Threads -> Requests \cup {Idle}]
    BY <1>3, ProceedsTo DEF MemberInv, GoesOn
  <2>. QED
    BY <1>3, <1>6, <2>1 DEF MemberInv, MemberShape, orgVars, userVars
<1>8. Leaves(R.about, {})
  <2>1. Active' = Active
    BY <1>3 DEF Active
  <2>2. \A s \in Slots : invitation[s] # NoInvitation => invitation'[s] # NoInvitation
    BY <1>6, <1>n
  <2>. QED
    BY <1>3, <2>1, <2>2 DEF Leaves, LeavesUsers, LeavesLinks, LeavesSpaces, orgVars
<1>9. /\ RequestsFit' /\ RequestsApart'
      /\ \A s \in Slots : Resending(s)' \subseteq Resending(s) \ {w}
      /\ \A s \in Slots : \A v \in Threads \ {w} : ComingIn(v, s) => ComingIn(v, s)'
      /\ Busy' # {} => begun' > 0
  BY <1>1, <1>3, <1>7, <1>8, StepKeeps
<1>10. TokensCounted'
  <2>. SUFFICES ASSUME NEW s \in Slots, invitation'[s] # NoInvitation
       PROVE  invitation'[s].token + Cardinality(Resending(s)') <= begun'
    BY <1>9 DEF TokensCounted
  <2>0. begun' = begun
    BY <1>3
  <2>1. /\ Cardinality(Resending(s)') <= Cardinality(Resending(s))
        /\ Cardinality(Resending(s)') \in Nat /\ Cardinality(Resending(s)) \in Nat
    BY <1>9, ResendingCount
  <2>2. invitation[s] # NoInvitation
    BY <1>2, <1>6
  <2>3. /\ invitation[s].token \in Nat /\ begun \in Nat
        /\ invitation[s].token + Cardinality(Resending(s)) <= begun
    BY <2>2, TokenFacts
  <2>4. CASE s = R.slot /\ R.kind = "resend"
    <3>1. w \in Resending(s)
      BY <1>1, <1>2, <2>4 DEF Resending
    <3>2. Cardinality(Resending(s)') + 1 <= Cardinality(Resending(s))
      BY <1>9, <3>1, ResendingCount
    <3>3. invitation'[s].token = invitation[s].token + 1
      BY <1>5, <1>6, <2>4
    <3>. QED
      BY <2>0, <2>1, <2>3, <3>2, <3>3
  <2>5. CASE ~(s = R.slot /\ R.kind = "resend")
    <3>1. invitation'[s].token = invitation[s].token
      BY <1>1, <1>5, <1>6, <2>5
    <3>. QED
      BY <2>0, <2>1, <2>3, <3>1
  <2>. QED
    BY <2>4, <2>5
<1>11. OneComesIn'
  <2>1. \A s \in Slots : \A v \in Threads : ComingIn(v, s) => ComingIn(v, s)'
    BY <1>1, <1>2, <1>9 DEF ComingIn
  <2>2. \A s \in Slots : invitation[s] # NoInvitation =>
          invitation'[s] # NoInvitation /\ (invitation[s].done => invitation'[s].done)
    BY <1>5, <1>6, <1>n
  <2>. QED
    BY <1>3, <2>1, <2>2, EntrantsStay
<1>12. OneOwner'
  BY <1>3, OwnerStays DEF orgVars
<1>13. NobodyIsLeft'
  BY <1>3 DEF orgVars, MemberInv, NobodyIsLeft
<1>14. SomewhereToWork'
  BY <1>3, SomewhereStays DEF Active
<1>. QED
  BY <1>7, <1>9, <1>10, <1>11, <1>12, <1>13, <1>14 DEF MemberInv

LEMMA MarkAcceptedKeeps ==
  ASSUME MemberInv, NEW w \in Threads, MarkAccepted(w)
  PROVE  MemberInv'
<1>1. PICK R \in Requests : request[w] = R /\ R.kind \in {"accept", "signup"} /\ Fits(R)
  BY AtStepIs DEF MarkAccepted
<1>2. /\ R \in Accepts /\ R.slot \in Slots /\ R \notin Reissues
      /\ invitation[R.slot] # NoInvitation /\ invitation[R.slot] \in Good
  <2>1. R \in Accepts /\ R \notin Reissues
    BY <1>1, KindOf
  <2>2. R.slot \in Slots /\ AcceptFits(R)
    BY <1>1, <2>1 DEF Accepts, Fits
  <2>. QED
    BY <2>1, <2>2 DEF AcceptFits, MemberInv, MemberShape
<1>3. /\ invitation' = [invitation EXCEPT ![R.slot].done = TRUE]
      /\ home' \subseteq home
      /\ Proceeds(w, Idle, {})
      /\ UNCHANGED <<orgVars, accounts, session, entrants, begun, disturbed, role, space>>
  BY <1>1 DEF MarkAccepted
<1>4. invitation \in [Slots -> Good \cup {NoInvitation}]
  BY DEF MemberInv, MemberShape
<1>5. PICK i \in Good :
        /\ invitation' = [invitation EXCEPT ![R.slot] = i]
        /\ i.done /\ i.token = invitation[R.slot].token
  <2>. DEFINE i == [invitation[R.slot] EXCEPT !.done = TRUE]
  <2>1. i \in Good /\ i.done = TRUE /\ i.token = invitation[R.slot].token
    BY <1>2 DEF Good
  <2>2. invitation' = [invitation EXCEPT ![R.slot] = i]
    BY <1>2, <1>3, <1>4
  <2>. HIDE DEF i
  <2>. QED
    BY <2>1, <2>2
<1>6. /\ invitation' \in [Slots -> Good \cup {NoInvitation}]
      /\ \A s \in Slots : invitation'[s] = IF s = R.slot THEN i ELSE invitation[s]
  BY <1>2, <1>4, <1>5
<1>n. i # NoInvitation
  BY GoodIsOne
<1>7. MemberShape'
  <2>1. request' \in [Threads -> Requests \cup {Idle}]
    BY <1>3, ProceedsTo DEF MemberInv, GoesOn
  <2>. QED
    BY <1>3, <1>6, <2>1 DEF MemberInv, MemberShape, orgVars
<1>8. Leaves(R.about, {})
  <2>1. Active' = Active
    BY <1>3 DEF Active
  <2>2. \A s \in Slots : invitation[s] # NoInvitation => invitation'[s] # NoInvitation
    BY <1>6, <1>n
  <2>. QED
    BY <1>3, <2>1, <2>2 DEF Leaves, LeavesUsers, LeavesLinks, LeavesSpaces, orgVars
<1>9. /\ RequestsFit' /\ RequestsApart'
      /\ \A s \in Slots : Resending(s)' \subseteq Resending(s) \ {w}
      /\ \A s \in Slots : \A v \in Threads \ {w} : ComingIn(v, s) => ComingIn(v, s)'
      /\ Busy' # {} => begun' > 0
  BY <1>1, <1>3, <1>7, <1>8, StepKeeps
<1>10. TokensCounted'
  <2>1. \A s \in Slots : Resending(s)' \subseteq Resending(s)
    BY <1>9
  <2>2. \A s \in Slots : invitation'[s] # NoInvitation =>
          invitation[s] # NoInvitation /\ invitation'[s].token = invitation[s].token
    BY <1>2, <1>5, <1>6
  <2>3. begun' = begun
    BY <1>3
  <2>. QED
    BY <1>9, <2>1, <2>2, <2>3, TokensStay
<1>11. OneComesIn'
  <2>. SUFFICES ASSUME NEW s \in Slots, s \notin disturbed', entrants'[s] # {}
       PROVE  /\ \E u \in Users : entrants'[s] = {u}
              /\ invitation'[s] # NoInvitation
              /\ invitation'[s].done \/ \E v \in Threads : ComingIn(v, s)'
    BY DEF OneComesIn
  <2>1. /\ \E u \in Users : entrants[s] = {u}
        /\ invitation[s] # NoInvitation
        /\ invitation[s].done \/ \E v \in Threads : ComingIn(v, s)
    BY <1>3 DEF MemberInv, OneComesIn
  <2>2. CASE s = R.slot
    BY <1>3, <1>5, <1>6, <1>n, <2>1, <2>2
  <2>3. CASE s # R.slot
    <3>1. ~ComingIn(w, s)
      BY <1>1, <2>3 DEF ComingIn
    <3>. QED
      BY <1>3, <1>6, <1>9, <2>1, <2>3, <3>1
  <2>. QED
    BY <2>2, <2>3
<1>12. OneOwner'
  BY <1>3, OwnerStays DEF orgVars
<1>13. NobodyIsLeft'
  BY <1>3 DEF orgVars, MemberInv, NobodyIsLeft
<1>14. SomewhereToWork'
  BY <1>3, SomewhereStays DEF Active
<1>. QED
  BY <1>7, <1>9, <1>10, <1>11, <1>12, <1>13, <1>14 DEF MemberInv

LEMMA JoinOrgKeeps ==
  ASSUME MemberInv, NEW w \in Threads, JoinOrg(w)
  PROVE  MemberInv'
<1>1. PICK R \in Requests : request[w] = R /\ R.kind \in {"accept", "signup"} /\ R.step = "join" /\ Fits(R)
  BY AtStepIs DEF JoinOrg
<1>2. /\ R \in Accepts /\ R.by \in Users /\ R.slot \in Slots /\ R.seen \in Good /\ AcceptFits(R)
      /\ R \notin Reissues
  <2>1. R \in Accepts /\ R \notin Reissues
    BY <1>1, KindOf
  <2>. QED
    BY <1>1, <2>1 DEF Accepts, Fits
<1>3. /\ R.seen.org \in OrgRoles /\ R.seen.org # 0 /\ R.seen.org # Owner
      /\ R.seen.by \in Users /\ (R.seen.org = Admin => R.seen.by = Founder)
  BY <1>2 DEF Good, OrgRoles
<1>4. PICK comes \in BOOLEAN : comes <=> R.by \in accounts /\ org[R.by] = 0
  OBVIOUS
<1>5. PICK next : next = IF R.by \in accounts THEN [R EXCEPT !.step = "spaces"] ELSE Idle
  OBVIOUS
<1>6. /\ org' = IF comes THEN [org EXCEPT ![R.by] = R.seen.org] ELSE org
      /\ madeBy' = IF comes THEN [madeBy EXCEPT ![R.by] = R.seen.by] ELSE madeBy
      /\ entrants' = IF comes THEN [entrants EXCEPT ![R.slot] = @ \cup {R.by}] ELSE entrants
      /\ Proceeds(w, next, {})
      /\ UNCHANGED <<userVars, invitation, session, begun, disturbed, role, space>>
  BY <1>1, <1>4, <1>5 DEF JoinOrg, GoesTo
<1>7. next # Idle =>
        /\ next \in Accepts /\ next.by = R.by /\ next.slot = R.slot /\ next.about = R.about
        /\ next.step = "spaces" /\ next.kind = R.kind
  BY <1>2, <1>5 DEF Accepts
<1>8. next \in Requests \cup {Idle} /\ (next # Idle => next \in Requests /\ next \notin Reissues)
  <2>1. next # Idle => next \in Requests
    BY <1>7 DEF Requests
  <2>. QED
    BY <1>1, <1>7, <2>1, KindOf
<1>9. /\ org' \in [Users -> OrgRoles \cup {0}] /\ madeBy' \in [Users -> Users]
      /\ entrants' \in [Slots -> SUBSET Users]
      /\ \A u \in Users : \/ org'[u] = org[u] /\ madeBy'[u] = madeBy[u]
                          \/ comes /\ u = R.by
      /\ comes => org'[R.by] = R.seen.org /\ madeBy'[R.by] = R.seen.by
      /\ ~comes => org' = org /\ madeBy' = madeBy /\ entrants' = entrants
      /\ \A s \in Slots : s # R.slot => entrants'[s] = entrants[s]
      /\ comes => entrants'[R.slot] = entrants[R.slot] \cup {R.by}
  <2>1. /\ org \in [Users -> OrgRoles \cup {0}] /\ madeBy \in [Users -> Users]
        /\ entrants \in [Slots -> SUBSET Users]
    BY DEF MemberInv, MemberShape
  <2>2. CASE comes
    BY <1>2, <1>3, <1>6, <2>1, <2>2
  <2>3. CASE ~comes
    BY <1>6, <2>1, <2>3
  <2>. QED
    BY <2>2, <2>3
<1>10. MemberShape'
  <2>1. request' \in [Threads -> Requests \cup {Idle}]
    BY <1>6, <1>8, ProceedsTo DEF MemberInv, GoesOn
  <2>. QED
    BY <1>6, <1>9, <2>1 DEF MemberInv, MemberShape, userVars
<1>11. Leaves(R.about, {})
  <2>0. R.by \in R.about /\ R.slot \in R.about
    BY <1>2 DEF AcceptFits
  <2>1. LeavesUsers(R.about)
    BY <1>6, <1>9, <2>0 DEF LeavesUsers
  <2>2. LeavesLinks(R.about)
    BY <1>6, <1>9, <2>0 DEF LeavesLinks
  <2>3. LeavesSpaces(R.about, {})
    BY <1>6 DEF LeavesSpaces, Active
  <2>. QED
    BY <1>6, <2>1, <2>2, <2>3 DEF Leaves
<1>12. ASSUME next # Idle PROVE Fits(next)'
  <2>1. org'[R.by] # 0
    BY <1>3, <1>4, <1>5, <1>9, <1>12
  <2>2. AcceptFits(next)'
    BY <1>2, <1>6, <1>7, <1>12, <2>1 DEF AcceptFits
  <2>3. next \in Requests /\ next.kind \in {"accept", "signup"}
    BY <1>1, <1>7, <1>8, <1>12
  <2>. QED
    BY <2>2, <2>3, KindOf DEF Fits
<1>13. /\ RequestsFit' /\ RequestsApart'
       /\ \A s \in Slots : Resending(s)' \subseteq Resending(s) \ {w}
       /\ \A s \in Slots : \A v \in Threads \ {w} : ComingIn(v, s) => ComingIn(v, s)'
       /\ Busy' # {} => begun' > 0
  BY <1>1, <1>6, <1>7, <1>8, <1>10, <1>11, <1>12, StepKeeps
<1>14. TokensCounted'
  <2>1. \A s \in Slots : Resending(s)' \subseteq Resending(s)
    BY <1>13
  <2>2. invitation' = invitation /\ begun' = begun
    BY <1>6
  <2>. QED
    BY <1>13, <2>1, <2>2, TokensStay
<1>15. OneComesIn'
  <2>. SUFFICES ASSUME NEW s \in Slots, s \notin disturbed', entrants'[s] # {}
       PROVE  /\ \E u \in Users : entrants'[s] = {u}
              /\ invitation'[s] # NoInvitation
              /\ invitation'[s].done \/ \E v \in Threads : ComingIn(v, s)'
    BY DEF OneComesIn
  <2>1. s \notin disturbed /\ invitation' = invitation
    BY <1>6
  <2>2. CASE s = R.slot /\ comes
    <3>1. entrants[s] = {} /\ invitation[s] # NoInvitation
      BY <1>1, <1>2, <2>1, <2>2 DEF AcceptFits
    <3>2. entrants'[s] = {R.by}
      BY <1>9, <2>2, <3>1
    <3>3. next # Idle /\ request'[w] = next
      <4>1. request'[w] = next
        BY <1>6, <1>8, ProceedsTo DEF MemberInv, GoesOn
      <4>2. next = [R EXCEPT !.step = "spaces"]
        BY <1>4, <1>5, <2>2
      <4>3. next.step = "spaces"
        BY <1>2, <4>2 DEF Accepts
      <4>. QED
        BY <4>1, <4>3 DEF Idle
    <3>4. ComingIn(w, s)'
      BY <1>7, <2>2, <3>3 DEF ComingIn
    <3>. QED
      BY <1>2, <2>1, <3>1, <3>2, <3>4
  <2>3. CASE ~(s = R.slot /\ comes)
    <3>1. entrants'[s] = entrants[s]
      BY <1>9, <2>3
    <3>2. /\ \E u \in Users : entrants[s] = {u}
          /\ invitation[s] # NoInvitation
          /\ invitation[s].done \/ \E v \in Threads : ComingIn(v, s)
      BY <2>1, <3>1 DEF MemberInv, OneComesIn
    <3>3. ~ComingIn(w, s)
      BY <1>1 DEF ComingIn
    <3>. QED
      BY <1>13, <2>1, <3>1, <3>2, <3>3
  <2>. QED
    BY <2>2, <2>3
<1>16. OneOwner'
  <2>1. comes => R.by # Founder
    BY <1>4, FounderAlone DEF Owner
  <2>2. \A u \in Users : org'[u] = Owner <=> org[u] = Owner
    BY <1>3, <1>9, <2>1, FounderAlone
  <2>3. \A u \in Users : org'[u] = Admin => madeBy'[u] = Founder
    BY <1>3, <1>9 DEF MemberInv, OneOwner
  <2>. QED
    BY <2>2, <2>3 DEF MemberInv, OneOwner, Owners
<1>17. NobodyIsLeft'
  <2>1. role' = role /\ disturbed' = disturbed
    BY <1>6
  <2>2. \A u \in Users : org'[u] = 0 => org[u] = 0
    BY <1>3, <1>9
  <2>. QED
    BY <1>10, <2>1, <2>2, NobodyStays
<1>18. SomewhereToWork'
  BY <1>6, SomewhereStays DEF Active
<1>. QED
  BY <1>10, <1>13, <1>14, <1>15, <1>16, <1>17, <1>18 DEF MemberInv

LEMMA JoinSpacesKeeps ==
  ASSUME MemberInv, NEW w \in Threads, JoinSpaces(w)
  PROVE  MemberInv'
<1>1. PICK R \in Requests : request[w] = R /\ R.kind \in {"accept", "signup"} /\ R.step = "spaces" /\ Fits(R)
  BY AtStepIs DEF JoinSpaces
<1>2. /\ R \in Accepts /\ R.by \in Users /\ R.slot \in Slots /\ R.seen \in Good /\ AcceptFits(R)
      /\ R \notin Reissues
  <2>1. R \in Accepts /\ R \notin Reissues
    BY <1>1, KindOf
  <2>. QED
    BY <1>1, <2>1 DEF Accepts, Fits
<1>. DEFINE place == R.seen.place
<1>3. place \in Assignments
  BY <1>2 DEF Good
<1>4. PICK fails \in BOOLEAN :
        fails <=> R.by \notin accounts \/ \E x \in Workspaces : place[x] # 0 /\ space[x] = "gone"
  OBVIOUS
<1>5. PICK next : next = IF fails THEN Idle ELSE [R EXCEPT !.step = "mark"]
  OBVIOUS
<1>6. /\ role' = IF fails THEN role
                 ELSE [role EXCEPT ![R.by] = [x \in Workspaces |-> IF @[x] = 0 THEN place[x] ELSE @[x]]]
      /\ Proceeds(w, next, {})
      /\ disturbed' = IF fails THEN disturbed \cup R.about ELSE disturbed
      /\ UNCHANGED <<orgVars, linkVars, userVars, begun, space>>
  BY <1>1, <1>4, <1>5 DEF JoinSpaces, GoesTo, FailsIf
<1>7. next # Idle =>
        /\ next \in Accepts /\ next.by = R.by /\ next.slot = R.slot /\ next.about = R.about
        /\ next.step = "mark" /\ next.kind = R.kind
  BY <1>2, <1>5 DEF Accepts
<1>8. next \in Requests \cup {Idle} /\ (next # Idle => next \in Requests /\ next \notin Reissues)
  <2>1. next # Idle => next \in Requests
    BY <1>7 DEF Requests
  <2>. QED
    BY <1>1, <1>7, <2>1, KindOf
<1>9. /\ role' \in [Users -> Assignments]
      /\ \A u \in Users : u # R.by => role'[u] = role[u]
  <2>1. role \in [Users -> Assignments]
    BY DEF MemberInv, MemberShape
  <2>2. [x \in Workspaces |-> IF role[R.by][x] = 0 THEN place[x] ELSE role[R.by][x]] \in Assignments
    <3>1. role[R.by] \in Assignments
      BY <1>2, <2>1
    <3>. QED
      BY <1>3, <3>1 DEF Assignments
  <2>3. CASE fails
    BY <1>6, <2>1, <2>3
  <2>4. CASE ~fails
    BY <1>2, <1>6, <2>1, <2>2, <2>4
  <2>. QED
    BY <2>3, <2>4
<1>10. MemberShape'
  <2>1. request' \in [Threads -> Requests \cup {Idle}]
    BY <1>6, <1>8, ProceedsTo DEF MemberInv, GoesOn
  <2>. QED
    BY <1>6, <1>9, <2>1 DEF MemberInv, MemberShape, orgVars, linkVars, userVars
<1>d. disturbed \subseteq disturbed'
  BY <1>6
<1>11. Leaves(R.about, {})
  <2>1. \A u \in Users \ R.about : org'[u] = org[u] /\ role'[u] = role[u]
    BY <1>2, <1>6, <1>9 DEF AcceptFits, orgVars
  <2>. QED
    BY <1>6, <1>d, <2>1, LeavesIntro DEF linkVars
<1>12. ASSUME next # Idle PROVE Fits(next)'
  <2>1. AcceptFits(next)'
    BY <1>2, <1>6, <1>7, <1>12 DEF AcceptFits, linkVars
  <2>2. next \in Requests /\ next.kind \in {"accept", "signup"}
    BY <1>1, <1>7, <1>8, <1>12
  <2>. QED
    BY <2>1, <2>2, KindOf DEF Fits
<1>13. /\ RequestsFit' /\ RequestsApart'
       /\ \A s \in Slots : Resending(s)' \subseteq Resending(s) \ {w}
       /\ \A s \in Slots : \A v \in Threads \ {w} : ComingIn(v, s) => ComingIn(v, s)'
       /\ Busy' # {} => begun' > 0
  BY <1>1, <1>6, <1>7, <1>8, <1>10, <1>11, <1>12, StepKeeps
<1>14. TokensCounted'
  <2>1. \A s \in Slots : Resending(s)' \subseteq Resending(s)
    BY <1>13
  <2>2. invitation' = invitation /\ begun' = begun
    BY <1>6 DEF linkVars
  <2>. QED
    BY <1>13, <2>1, <2>2, TokensStay
<1>15. OneComesIn'
  <2>. SUFFICES ASSUME NEW s \in Slots, s \notin disturbed', entrants'[s] # {}
       PROVE  /\ \E u \in Users : entrants'[s] = {u}
              /\ invitation'[s] # NoInvitation
              /\ invitation'[s].done \/ \E v \in Threads : ComingIn(v, s)'
    BY DEF OneComesIn
  <2>1. s \notin disturbed /\ invitation' = invitation /\ entrants' = entrants
    BY <1>6, <1>d DEF linkVars
  <2>2. /\ \E u \in Users : entrants[s] = {u}
        /\ invitation[s] # NoInvitation
        /\ invitation[s].done \/ \E v \in Threads : ComingIn(v, s)
    BY <2>1 DEF MemberInv, OneComesIn
  <2>3. CASE s = R.slot
    <3>1. ~fails
      BY <1>2, <1>6, <2>3 DEF AcceptFits
    <3>2. next # Idle /\ request'[w] = next
      <4>1. request'[w] = next
        BY <1>6, <1>8, ProceedsTo DEF MemberInv, GoesOn
      <4>2. next.step = "mark"
        BY <1>2, <1>5, <3>1 DEF Accepts
      <4>. QED
        BY <4>1, <4>2 DEF Idle
    <3>3. ComingIn(w, s)'
      BY <1>7, <2>3, <3>2 DEF ComingIn
    <3>. QED
      BY <2>1, <2>2, <3>3
  <2>4. CASE s # R.slot
    <3>1. ~ComingIn(w, s)
      BY <1>1, <2>4 DEF ComingIn
    <3>. QED
      BY <1>13, <2>1, <2>2, <3>1
  <2>. QED
    BY <2>3, <2>4
<1>16. OneOwner'
  BY <1>6, OwnerStays DEF orgVars
<1>17. NobodyIsLeft'
  <2>1. org' = org
    BY <1>6 DEF orgVars
  <2>2. \A u \in Users : u \notin disturbed' /\ org'[u] = 0 => u # R.by
    BY <1>1, <1>2, <1>d, <2>1 DEF AcceptFits
  <2>3. \A u \in Users : u \notin disturbed' /\ org'[u] = 0 => role'[u] = role[u]
    BY <1>9, <2>2
  <2>. QED
    BY <1>10, <1>d, <2>1, <2>3, NobodyStays
<1>18. SomewhereToWork'
  BY <1>6, <1>d, SomewhereStays DEF Active
<1>. QED
  BY <1>10, <1>13, <1>14, <1>15, <1>16, <1>17, <1>18 DEF MemberInv

---------------------------------------------------------------------------------
(* The theorem. *)

LEMMA MemberInitHolds == MemberInit => MemberInv
<1>. SUFFICES ASSUME MemberInit PROVE MemberInv
  OBVIOUS
<1>1. PICK born \in SUBSET Workspaces, staff \in SUBSET (Others \ {NewUser}) :
        /\ born # {}
        /\ org = [u \in Users |-> IF u = Founder THEN Owner ELSE IF u \in staff THEN Admin ELSE 0]
        /\ role = [u \in Users |-> [x \in Workspaces |->
             IF x \notin born THEN 0 ELSE IF u = Founder THEN 6 ELSE IF u \in staff THEN 1 ELSE 0]]
        /\ space = [x \in Workspaces |-> IF x \in born THEN "active" ELSE "unborn"]
        /\ home = Others \ (staff \cup {NewUser})
  BY DEF MemberInit
<1>2. /\ invitation = [s \in Slots |-> NoInvitation] /\ accounts = Users \ {NewUser}
      /\ session = NoLink /\ request = [w \in Threads |-> Idle] /\ begun = 0
      /\ madeBy = [u \in Users |-> Founder] /\ entrants = [s \in Slots |-> {}] /\ disturbed = {}
  BY DEF MemberInit
<1>3. Founder \in Users /\ MaxAsked \in Nat
  BY MemberAssumption DEF Users
<1>4. MemberShape
  <2>1. org \in [Users -> OrgRoles \cup {0}]
    BY <1>1 DEF OrgRoles, Owner, Admin
  <2>2. \A u \in Users : [x \in Workspaces |->
          IF x \notin born THEN 0 ELSE IF u = Founder THEN 6 ELSE IF u \in staff THEN 1 ELSE 0] \in Assignments
    BY DEF Assignments
  <2>3. role \in [Users -> Assignments]
    BY <1>1, <2>2
  <2>4. home \subseteq accounts
    BY <1>1, <1>2 DEF Users
  <2>. QED
    BY <1>1, <1>2, <1>3, <2>1, <2>3, <2>4 DEF MemberShape
<1>5. OneOwner
  <2>1. \A u \in Users : org[u] = Owner <=> u = Founder
    BY <1>1 DEF Owner, Admin
  <2>. QED
    BY <1>2, <1>3, <2>1 DEF OneOwner, Owners
<1>6. NobodyIsLeft
  <2>. SUFFICES ASSUME NEW u \in Users, org[u] = 0 PROVE role[u] = Nowhere
    BY DEF NobodyIsLeft
  <2>1. u # Founder /\ u \notin staff
    BY <1>1 DEF Owner, Admin
  <2>2. role[u] = [x \in Workspaces |-> IF x \notin born THEN 0 ELSE 0]
    BY <1>1, <2>1
  <2>. QED
    BY <2>2 DEF Nowhere
<1>7. OneComesIn
  BY <1>2 DEF OneComesIn
<1>8. SomewhereToWork
  BY <1>1 DEF SomewhereToWork, Active
<1>9. RequestsFit /\ RequestsApart
  BY <1>2, KindOf DEF RequestsFit, RequestsApart
<1>10. TokensCounted
  BY <1>2 DEF TokensCounted, Busy
<1>. QED
  BY <1>4, <1>5, <1>6, <1>7, <1>8, <1>9, <1>10 DEF MemberInv

LEMMA MemberNextKeeps == MemberInv /\ [MemberNext]_memberVars => MemberInv'
<1>. SUFFICES ASSUME MemberInv, [MemberNext]_memberVars PROVE MemberInv'
  OBVIOUS
<1>1. CASE UNCHANGED memberVars
  <2>1. MemberShape'
    BY <1>1 DEF MemberInv, MemberShape, memberVars, orgVars, linkVars, userVars, workVars
  <2>. QED
    BY <1>1, <2>1, NobodyWorks DEF memberVars, orgVars, linkVars, userVars, workVars
<1>2. ASSUME NEW w \in Threads,
             \/ Invite(w) \/ CreateInvitation(w) \/ Reissue(w) \/ SaveReissue(w)
             \/ Accept(w) \/ SignUp(w) \/ JoinOrg(w) \/ JoinSpaces(w) \/ MarkAccepted(w)
      PROVE  MemberInv'
  BY <1>2, InviteKeeps, CreateInvitationKeeps, ReissueKeeps, SaveReissueKeeps, AcceptKeeps, SignUpKeeps,
     JoinOrgKeeps, JoinSpacesKeeps, MarkAcceptedKeeps
<1>3. ASSUME NEW w \in Threads,
             \/ RemoveMember(w) \/ LeaveSpaces(w) \/ LeaveOrg(w)
             \/ ChangeOrgRole(w) \/ SaveOrgRole(w)
             \/ Reassign(w) \/ DropSpaces(w) \/ SetSpaces(w)
             \/ DeleteAccount(w) \/ EraseUser(w)
             \/ CreateSpace(w) \/ SaveSpace(w) \/ CloseSpace(w) \/ SaveClosed(w)
      PROVE  MemberInv'
  BY <1>3, RemoveMemberKeeps, LeaveSpacesKeeps, LeaveOrgKeeps, ChangeOrgRoleKeeps, SaveOrgRoleKeeps,
     ReassignKeeps, DropSpacesKeeps, SetSpacesKeeps, DeleteAccountKeeps, EraseUserKeeps,
     CreateSpaceKeeps, SaveSpaceKeeps, CloseSpaceKeeps, SaveClosedKeeps
<1>4. ASSUME NEW s \in Slots, Expire(s) \/ ShowInvite(s) PROVE MemberInv'
  BY <1>4, ExpireKeeps, ShowInviteKeeps
<1>5. CASE UnarchiveSpace
  BY <1>5, UnarchiveSpaceKeeps
<1>. QED
  BY <1>1, <1>2, <1>3, <1>4, <1>5 DEF MemberNext

LEMMA MemberInvTypes == MemberInv => MemberTypeOK
<1>. SUFFICES ASSUME MemberInv PROVE MemberTypeOK
  OBVIOUS
<1>1. \A s \in Slots : invitation[s] = NoInvitation \/ IsInvitation(invitation[s])
  <2>. SUFFICES ASSUME NEW s \in Slots, invitation[s] # NoInvitation PROVE IsInvitation(invitation[s])
    OBVIOUS
  <2>1. invitation[s] \in Good
    BY TokenFacts
  <2>2. Cardinality(Resending(s)) \in Nat
    BY ResendingCount
  <2>3. invitation[s].token \in 1 .. MaxAsked + 1
    BY <2>2, TokenFacts
  <2>. QED
    BY <2>1, <2>3 DEF IsInvitation, Good
<1>2. \A w \in Threads : request[w] = Idle \/ request[w].kind \in Kinds
  BY KindOf DEF MemberInv, MemberShape
<1>. QED
  BY <1>1, <1>2 DEF MemberTypeOK, MemberInv, MemberShape

LEMMA MemberInvImplies == MemberInv => MembershipIsHonest
<1>. SUFFICES ASSUME MemberInv PROVE MembershipIsHonest
  OBVIOUS
<1>1. MemberTypeOK
  BY MemberInvTypes
<1>2. NobodyLingers
  BY DEF MemberInv, NobodyIsLeft, NobodyLingers, Undisturbed
<1>3. OneEntrant
  <2>. SUFFICES ASSUME NEW s \in Slots, s \notin disturbed PROVE Cardinality(entrants[s]) <= 1
    BY DEF OneEntrant
  <2>1. CASE entrants[s] = {}
    BY <2>1, FS_EmptySet
  <2>2. CASE entrants[s] # {}
    <3>1. PICK u \in Users : entrants[s] = {u}
      BY <2>2 DEF MemberInv, OneComesIn
    <3>2. Cardinality(entrants[s]) = 1
      BY <3>1, FS_Singleton
    <3>. QED
      BY <3>2
  <2>. QED
    BY <2>1, <2>2
<1>4. ChecksStillHold
  <2>. SUFFICES ASSUME NEW w \in Busy, request[w].about \cap disturbed = {}
       PROVE  /\ AtStep(w, "assign", "drop") =>
                   \A x \in Active : request[w].new[x] # request[w].seen[x] =>
                     /\ request[w].new[x] <= Level(request[w].by, x)
                     /\ role[request[w].of][x] <= Level(request[w].by, x)
              /\ AtStep(w, "orgRole", "save") => /\ org[request[w].by] >= org[request[w].of]
                                                 /\ MayMake(request[w].by, request[w].new)
    BY DEF ChecksStillHold
  <2>1. PICK R \in Requests : request[w] = R
    BY DEF Busy, MemberInv, MemberShape
  <2>2. Fits(R) /\ R.about \cap disturbed = {}
    BY <2>1 DEF Busy, MemberInv, RequestsFit
  <2>3. ASSUME R.kind = "assign", R.step = "drop", NEW x \in Active, R.new[x] # R.seen[x]
        PROVE  R.new[x] <= Level(R.by, x) /\ role[R.of][x] <= Level(R.by, x)
    <3>1. AssignFits(R)
      BY <2>2, <2>3, KindOf DEF Fits
    <3>. QED
      BY <2>2, <2>3, <3>1 DEF AssignFits, Active
  <2>4. ASSUME R.kind = "orgRole" PROVE org[R.by] >= org[R.of] /\ MayMake(R.by, R.new)
    <3>1. RoleChangeFits(R)
      BY <2>2, <2>4, KindOf DEF Fits
    <3>. QED
      BY <2>2, <3>1 DEF RoleChangeFits
  <2>. QED
    BY <2>1, <2>3, <2>4 DEF AtStep
<1>. QED
  BY <1>1, <1>2, <1>3, <1>4 DEF MembershipIsHonest, MemberInv

\* Whatever requests meet, and whatever links expire or are shown meanwhile: the
\* organization keeps the owner it began with and its admins are of his making
\* (MayMake, the sole owner's checks of remove_member, update_member_org_role and
\* delete_account); who is no member has no role in a workspace, an invitation
\* lets one in, and an active workspace is left, but for what two requests
\* disturbed; and what was checked of a change of roles is still so when it is
\* written, unless another request about the same persons came between.
THEOREM MembershipStaysHonest == MemberSpec => []MembershipIsHonest
<1>1. MemberInit => MemberInv
  BY MemberInitHolds
<1>2. MemberInv /\ [MemberNext]_memberVars => MemberInv'
  BY MemberNextKeeps
<1>3. MemberInv => MembershipIsHonest
  BY MemberInvImplies
<1>. QED
  BY <1>1, <1>2, <1>3, PTL DEF MemberSpec

===================================================================================

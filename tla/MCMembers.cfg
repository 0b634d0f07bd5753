\* Two workers over one post, one request against them, a worker that
\* dies, a write of the error handler that raises; a founder,
\* a member or stranger, a newcomer, two workspaces, three requests.
SPECIFICATION PeopleSpec
CONSTANTS
  Workers = {w1, w2}
  Children = {c1, c2}
  Posts = {p1}
  PostOf <- MCPostOf
  MaxRetries = 1
  Backoff <- MCBackoff
  BatchLimit = 1
  UserTargets = {"draft", "on_hold"}
  Faults = {"crash"}
  Horizon = 1
  MaxRequests = 1
  Founder = founder
  Others = {ann, newcomer}
  NewUser = newcomer
  Workspaces = {x1, x2}
  Threads = {v1, v2}
  Slots = {i1}
  Roles = {1, 6}
  MaxAsked = 3
SYMMETRY MembersSymmetry
INVARIANTS ClaimIsExclusive MembershipIsHonest
PROPERTIES KeepsFirstAttempt PublishedIsFinal HoldFreezesPost
\* The counted requests of the members run out.
CHECK_DEADLOCK FALSE

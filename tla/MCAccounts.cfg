\* One worker over one row, every fault, two requests; two workspaces with the
\* same page, one of them with a health check and a retry button;
\* two tabs and two dialogues.
SPECIFICATION AccountsSpec
CONSTANTS
  Workers = {w1}
  Children = {c1}
  Posts = {p1}
  PostOf <- MCPostOf
  MaxRetries = 2
  Backoff <- MCBackoff
  BatchLimit = 1
  UserTargets = {"draft", "approved", "scheduled", "publishing"}
  Faults = {"lost", "bookkeeping", "abort", "crash"}
  Horizon = 3
  MaxRequests = 2
  Workspaces = {s1, s2}
  Budget = 1
  Watched = {s1}
  MaxConnects = 2
  MaxBusy = 2
  h1 = h1
  h2 = h2
  Homes = {h1, h2}
  LinkHome = h1
  Tabs = {t1, t2}
  Dialogues <- MCDialogues
  LastPage = 2
  MaxFlows = 2
  Servers = {t1, t2}
  Home = {a1, a2}
  Away = {f1}
  Scopes <- MCScopes
  Roles = {"manager", "contributor", "gone"}
  EditorRole = "editor"
  FailLimit = 1
  MaxBatch = 2
  MaxVisits = 2
  MaxChanges = 1
SYMMETRY MCTabs
INVARIANTS TypeOK RetryBudget  ConnectionsAreHonest AgentStaysInside
\* The counted grants and dialogues run out.
CHECK_DEADLOCK FALSE

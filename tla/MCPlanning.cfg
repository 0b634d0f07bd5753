\* Three rows, one queue, three posting slots and an instant between them; a post
\* with two accounts and two requests that save it; two photos or videos, three attempts.
SPECIFICATION PlanningSpec
CONSTANTS
  Posts = {p1, p2, p3}
  Queues = {q1}
  Grid = {1, 2, 4}
  Horizon = 4
  Accounts = {acc1, acc2}
  Contents = {x, y}
  Savers = {e1, e2}
  MaxSaves = 2
  MaxBroken = 1
  Photos = 2
  Videos = {2}
  Attempts = 3
  Polls = 2
  Platforms = {"dated", "totals", "youtube"}
  LastSyncDay = 1
  RecentDays = 2
  Cadence = 1
  MaxReconnects = 1
SYMMETRY MCSymmetry
INVARIANTS PlanningTypeOK FirstGapIsFound AttemptsAreHonest 
PROPERTIES SlotsAreKept 
CHECK_DEADLOCK FALSE

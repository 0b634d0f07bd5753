\* Two workers and two comments; a post with two rows
\* in a two-stage workspace and a sweep that may die; two deliveries and overlapping sweeps;
\* one account; two owners and two members.
SPECIFICATION Spec
CONSTANTS
  Workers = {w1, w2}
  Rows = {row1, row2}
  Reconcilable = {row1}
  MaxRetries = 1
  Faults = {"crash", "unrecorded"}
  MaxCalls = 1
  MaxCrashes = 1
  Children = {c1, c2}
  TwoStage = TRUE
  MaxReminders = 1
  ChipTargets = {"pending_review"}
  MaxRequests = 3
  MaxSweepDeaths = 1
  Deliveries = {d1, d2}
  Notifiers = {n1}
  Sweeps = {s1, s2}
  MaxAttempts = 2
  RetryBatch = 1
  MaxDeaths = 1
  Checks = {h1}
  Engines = {e1}
  MaxGrants = 3
  MaxFailures = 1
  Owners = {o1, o2}
  Members = {u1, u2}
  Grace = 2
  LastDay = 4
  MaxOrgDeaths = 1
INVARIANTS BackgroundTypeOK CommentedOnce NoticesBounded 
PROPERTIES  SubmissionIsFollowedUp DeliverySettles TokensAreHonest DeletedAsAsked
CHECK_DEADLOCK FALSE

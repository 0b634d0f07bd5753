\* One worker, nobody interferes: the first failure is enough.
SPECIFICATION Spec
CONSTANTS
  Workers = {w1}
  Children = {c1}
  Posts = {p1}
  PostOf <- MCPostOf
  MaxRetries = 1
  Backoff <- MCBackoff
  BatchLimit = 1
  UserTargets = {}
  Faults = {}
  Horizon = 2
  MaxRequests = 0
PROPERTIES BackoffRespected

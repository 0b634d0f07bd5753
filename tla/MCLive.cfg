\* One worker that keeps running, two rows, one request; two messages, a reader
\* and a cycle that dies.
SPECIFICATION LiveSpec
CONSTANTS
  Workers = {w1}
  Children = {c1, c2}
  Posts = {p1}
  PostOf <- MCPostOf
  MaxRetries = 1
  Backoff <- MCBackoff
  BatchLimit = 2
  UserTargets = {"draft", "approved", "on_hold"}
  Faults = {"lost", "bookkeeping"}
  Horizon = 1
  MaxRequests = 1
  Messages = {m1, m2}
  Readers = {q1}
  Opened = {m1}
  MaxRewrites = 1
  MaxKills = 1
 
PROPERTIES DueRowSettles LateIsWarned

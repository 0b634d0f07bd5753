\* The worker dies between the comment and its record.
SPECIFICATION CommentSpec
CONSTANTS
  Workers = {w1}
  Rows = {r1}
  Reconcilable = {r1}
  MaxRetries = 1
  Faults = {"crash"}
  MaxCalls = 1
  MaxCrashes = 1
INVARIANTS NeverCommentsTwice
CHECK_DEADLOCK FALSE

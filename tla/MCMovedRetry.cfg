\* A row that waits for a retry is moved to a later time.
SPECIFICATION Spec
CONSTANTS
  Workers = {w1}
  Children = {c1}
  Posts = {p1}
  PostOf <- MCPostOf
  MaxRetries = 1
  Backoff <- MCBackoff
  BatchLimit = 1
  UserTargets = {}
  Faults = {}
  Horizon = 2
  MaxRequests = 1
PROPERTIES SelectedRowsAreDue

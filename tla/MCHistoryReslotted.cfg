\* A published row is put at the top of a queue.
SPECIFICATION Spec
CONSTANTS
  Posts = {p1}
  Queues = {q1}
  Grid = {1, 2}
  Horizon = 2
PROPERTIES HistoryIsNeverReslotted
CHECK_DEADLOCK FALSE

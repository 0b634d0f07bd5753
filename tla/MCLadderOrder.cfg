\* Three entries, two of them at the edge of the ladder's window.
SPECIFICATION Spec
CONSTANTS
  Posts = {p1, p2, p3, p4}
  Queues = {q1}
  Grid = {1, 2, 3, 4, 5, 6, 7}
  Horizon = 7
SYMMETRY MCSymmetry
PROPERTIES EntriesKeepOrder
CHECK_DEADLOCK FALSE

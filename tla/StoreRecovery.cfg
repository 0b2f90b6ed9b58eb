CONSTANTS
  Contents = {c1}
  Snapshots = {s1}
  Generations = {g1, g2, g3}
  First = g1
  Restores = {r1, r2}
  Restricts = TRUE
  MaxDecided = 3
  MaxFaults = 1
SPECIFICATION Spec
INVARIANTS ForgottenStaysForgotten SelectionIsWhole PurgedMeansGone
PROPERTIES Reopens
CHECK_DEADLOCK FALSE

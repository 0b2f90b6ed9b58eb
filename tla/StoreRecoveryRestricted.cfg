CONSTANTS
  Contents = {c1}
  Snapshots = {s1}
  Generations = {g1, g2}
  First = g1
  Restores = {r1}
  Restricts = TRUE
  MaxDecided = 2
  MaxFaults = 0
SPECIFICATION Spec
INVARIANT RestrictedStaysRestricted
CHECK_DEADLOCK FALSE

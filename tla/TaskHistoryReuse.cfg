SPECIFICATION Spec
CONSTANTS
  AttemptIds = {a1, a2}
  OutcomeIds = {o1, o2}
  Contracts = {c1, c2}
  Criteria = {"test", "review"}
  Required = {"test"}
  ModelAssisted = {"review"}
  ActionIds = {"send"}
  ReuseOutcomeIds = TRUE
  MaxRevision = 11
  MaxAttempts = 2
  MaxOutcomes = 2
CHECK_DEADLOCK FALSE
INVARIANT NeverWedged

SPECIFICATION MCSpec
CONSTANTS
  AttemptIds = {a1, a2}
  OutcomeIds = {o1, o2}
  Contracts = {c1, c2}
  Criteria = {"test", "review"}
  Required = {"test"}
  ModelAssisted = {"review"}
  ActionIds = {"send"}
  ReuseOutcomeIds = FALSE
  MaxRevision = 11
  MaxAttempts = 2
  MaxOutcomes = 2
  Senders = {p1, p2}
  Events <- MCEvents
  MaxBatch = 2
  Limit = 2
SYMMETRY Symmetric
CHECK_DEADLOCK FALSE
INVARIANTS NeverWedged CompletedIsEarned LedgerStands
PROPERTIES StoreAcceptsEveryStep ReaderMissesNothing

SPECIFICATION MCSpec
CONSTANTS
  TaskIds = {t1, t2}
  MaxAttempts = 3
  MaxEpoch = 3
  CommandIds = {"i1", "i2"}
  Keys = {"k1", "k2"}
  Expected = {0, 1}
  Consumers = {c1, c2}
  MaxEvents = 4
  Coordinators = {c1, c2}
  MaxRevision = 2
  MaxWorld = 2
SYMMETRY Symmetric
CONSTRAINT Bounded
CHECK_DEADLOCK FALSE
INVARIANTS StoppedMeansStopped WorkIsReauthorized ResultsAreWorkedFor OutboxKept AskedAndAnswered
PROPERTIES CancellationWaitsForClose CustodyKept DecisionsStand

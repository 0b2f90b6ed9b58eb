SPECIFICATION MCSpec
CONSTANTS
  TaskIds = {t1}
  MaxAttempts = 1
  MaxEpoch = 2
  MaxQueue = 1
  Operations = {"interrupt", "reconcile", "restart", "close"}
  Faults = FALSE
  Parts = {"harness"}
  Names = {t1}
  MaxVersions = 6
  MaxAttemptRows = 2
  MaxFences = 1
  MaxSnapshots = 4
  MaxInputs = 2
  MaxMessages = 1
  MaxAcks = 1
  Consumers = {c1}
CHECK_DEADLOCK FALSE
PROPERTIES CancellationCompletes LifecycleEnds

SPECIFICATION Spec
CONSTANTS
  TaskIds = {t1}
  MaxAttempts = 1
  MaxEpoch = 2
CHECK_DEADLOCK FALSE
INVARIANTS CustodyRecoverable

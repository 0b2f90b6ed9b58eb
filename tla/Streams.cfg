SPECIFICATION MCSpec
CONSTANTS
  Intents <- MCIntents
  MaxLog = 3
  MaxEvents = 4
  MaxRows = 2
  Bodies = {b1, b2}
  Snapshots = {s1}
  Scope = scope
CHECK_DEADLOCK FALSE
INVARIANTS SeesEveryEvent
PROPERTIES ControlRecordKept EveryGapIsClosed StreamCatchesUp ForgetCompletes

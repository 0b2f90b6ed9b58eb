SPECIFICATION MCSpec
CONSTANTS
  Observations = {o1}
  MaxVersion = 2
  Bodies = {b1, b2}
  Snapshots = {s1}
  Scope = scope
  MaxDecided = 1
  MaxStaged = 1
  MaxRests = 1
  MaxFaults = 1
  TwoTasks = {t1, t2}
  TheirAttempts = 1
  TheirOwners = 2
  TheirQueue = 1
  TheirOperations = {"interrupt"}
  TheirFaults = FALSE
  PageCommands = {k1, k2}
  PageReceipted = {k1}
  PageBodied = {k1, k2}
  Recoveries = {r1}
  PageTries = 2
  PageRevisions = 2
  PageFaults = 1
  VerifyCommands = {"verify"}
  Feedbacks = {f1, f2}
  Checked = {"artifact"}
  Judged = {"user"}
  Verdicts = {"pass"}
  Ttl = 1
  MaxTime = 2
  MaxWorld = 2
SYMMETRY Symmetry
CONSTRAINT Bounded
CHECK_DEADLOCK FALSE
INVARIANTS ReadableIsGrounded TwoTasksInCustody ShownIsTrue VerificationsStand
PROPERTIES FreshMeansUnchanged VerdictsAreCurrent

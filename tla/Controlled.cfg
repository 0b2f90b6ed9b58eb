SPECIFICATION MCSpec
CONSTANTS
  RequestIds = {r1, r2, r3}
  Sizes = {1}
  MaxQueued = 2
  MaxActions = 2
  MaxModelRequests = 2
  MaxToolCalls = 1
  MaxTokens = 1
  MaxOutput = 2
  BrokerIds = {b1, b2}
  MaxBroker = 1
CHECK_DEADLOCK FALSE
INVARIANTS BudgetsHold EffectsHappenOnce EvidenceIsPhysical
PROPERTIES DisposalCompletes WorkerCustodyKept CallsReturn

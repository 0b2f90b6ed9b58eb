SPECIFICATION FairSpec
CONSTANTS
  Intents <- MCIntents
  MaxLog = 2
CHECK_DEADLOCK FALSE
PROPERTIES LaggingHeadIsRecovered

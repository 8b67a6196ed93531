SPECIFICATION ClientFairSpec
CONSTANTS
  MaxAgentTurns = 1
  Tools = {"generate_design"}
  MaxTokens = 0
  MaxToolCalls = 0
  MaxStoreFailures = 0
  MaxResume = 3
PROPERTY SpinnerStops
CHECK_DEADLOCK FALSE

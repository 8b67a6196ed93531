SPECIFICATION ClientFairSpec
CONSTANTS
  MaxAgentTurns = 1
  Tools = {"generate_design"}
  MaxTokens = 2
  MaxToolCalls = 0
  MaxStoreFailures = 0
  MaxResume = 2
INVARIANTS ClientTypeOK NoTextSkipped
PROPERTIES CrashIsReported ReadersStop
\* A turn ends and its readers stop: so does the model.
CHECK_DEADLOCK FALSE

SPECIFICATION Spec
CONSTANTS
  MaxAgentTurns = 2
  Tools = {"create_simulator"}
  MaxTokens = 0
  MaxToolCalls = 1
  MaxStoreFailures = 0
INVARIANT FinishedTurnIsNotInterrupted
CHECK_DEADLOCK FALSE

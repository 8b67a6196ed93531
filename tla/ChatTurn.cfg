SPECIFICATION FairSpec
CONSTANTS
  MaxAgentTurns = 2
  Tools = {"record_plan", "generate_design"}
  MaxTokens = 2
  MaxToolCalls = 1
  MaxStoreFailures = 1
INVARIANTS TypeOK LogMatchesStream OnlyTextIsLost TurnEndsTerminal
PROPERTIES ImplementsEventStream TurnEnds
\* A turn ends, and so does the model of it.
CHECK_DEADLOCK FALSE

SPECIFICATION Spec
CONSTANTS
  MaxAgentTurns = 2
  Tools <- MCTools
  MaxTokens = 0
  MaxToolCalls = 2
  MaxStoreFailures = 0
INVARIANTS AuditMatchesStream ToolUsesAnswered ReportsMatchCommit
\* A turn ends, and so does the model of it.
CHECK_DEADLOCK FALSE

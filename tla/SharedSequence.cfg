SPECIFICATION ConversationSpec
CONSTANTS
  Turns = {t1, t2}
  MaxBlocks = 2
  MaxActive = 2
INVARIANT SequenceDeterminesOrder
CHECK_DEADLOCK FALSE

SPECIFICATION Spec
CONSTANTS
  Turns = {t1, t2, t3}
  MaxBlocks = 3
  MaxActive = 2
  Sims = {s1}
  ForceReveal = FALSE
SYMMETRY TurnSymmetry
INVARIANTS SimulatorsTypeOK CausalOrder CountNeverOvercounts SerialTurnsAreExact MessagesAreReplies RevealNeedsTwoRequests SecondRequestReveals
\* Every turn ends, and so does the conversation.
CHECK_DEADLOCK FALSE

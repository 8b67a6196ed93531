CONSTANTS
  Requests = {c1, c2, d}
  Dialog = d
  c1 = c1
  c2 = c2
  Ops <- MCOps
  MaxRows = 2
  MaxTime = 3
  Throttle = 1
  Idle = 3
  Absolute = 3
  Length = 4
  MaxResume = 2
  MaxSends = 2
  MaxReaders = 3
SPECIFICATION BrowserSpec
INVARIANTS BrowserTypeOK UsedSessionsLast SignedOutEverywhere WaitersHaveDialog AnswersAreTheirOwn
CHECK_DEADLOCK FALSE


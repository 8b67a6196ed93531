CONSTANTS
  Requests = {q1, q2, q3}
  Cells = {value, remark}
  Admins = {a, b}
  MaxBegun = 4
  MaxReplies = 5
SPECIFICATION RecordsSpec
SYMMETRY Interchangeable
INVARIANTS RecordsTypeOK SavedStays ViewsAreCounted RevokedStays MailedWereStored
CHECK_DEADLOCK FALSE

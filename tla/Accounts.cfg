CONSTANTS
  Emails = {a, b, c}
  FirstAdmins = {a, b}
  Roles = {chemist}
  Builtin = {}
  FirstRoles = {chemist}
  None = None
  Requests = {q1, q2, q3}
  MaxTokens = 1
  MaxBegun = 4
SPECIFICATION Spec
INVARIANTS AccountsTypeOK AdminsRemain TokenUsedOnce RegistrationIsFinal RoleInUseStays
SYMMETRY Symmetry
CHECK_DEADLOCK FALSE

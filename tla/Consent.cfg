SPECIFICATION Spec
CONSTANTS
  Attempt = {a1, a2}
  Login = {l1}
  Process = {p1, p2, p3}
  LoginLimit = 1
  None = None
INVARIANT TypeOK
INVARIANT ExchangedOnce
INVARIANT DisconnectRemoves
SYMMETRY AllSymmetry
CHECK_DEADLOCK FALSE

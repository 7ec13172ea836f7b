SPECIFICATION Spec
CONSTANTS
  Users = {u1}
  Requests = {r1, r2}
  Workers = {w1}
  Tenants = {t1}
  SessionCap = 1
  Operations = {"triage", "delete"}
  MaxFaults = 0
  None = None
INVARIANT NothingOutlives

SPECIFICATION LiveSpec
CONSTANTS
  Users = {u1}
  Requests = {r1, r2}
  Workers = {w1}
  Tenants = {t1}
  SessionCap = 2
  Operations = {"change", "triage", "consent", "delete"}
  MaxFaults = 2
  None = None
INVARIANT TypeOK
INVARIANT DeletedStaysDeleted
INVARIANT NoSessionBehindBarrier
INVARIANT NoEvidenceOutlives
PROPERTY DeletionCompletes

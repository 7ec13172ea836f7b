SPECIFICATION LiveSpec
CONSTANTS
  t1 = t1
  t2 = t2
  i1 = i1
  i2 = i2
  Workers = {w1}
  Incidents = {i1, i2}
  TenantOf <- TwoWorkspaces
  QueueLimit = 1
  TenantLimit = 1
  MaxAttempts = 3
  Lease = 1
  QueueWait = 1
  MaxRevision = 2
  None = None
INVARIANT QueueBounded
PROPERTY JobEnds

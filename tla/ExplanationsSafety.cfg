SPECIFICATION Spec
CONSTANTS
  t1 = t1
  t2 = t2
  i1 = i1
  i2 = i2
  Workers = {w1, w2}
  Incidents = {i1, i2}
  TenantOf <- OneWorkspace
  QueueLimit = 2
  TenantLimit = 1
  MaxAttempts = 2
  Lease = 1
  QueueWait = 1
  MaxRevision = 2
  None = None
INVARIANT TypeOK
INVARIANT QueueBounded
INVARIANT AnswersAreCurrent
INVARIANT AnsweredOnce
INVARIANT SucceededIsExplained
SYMMETRY WorkerSymmetry
PROPERTY KeepsGuidance

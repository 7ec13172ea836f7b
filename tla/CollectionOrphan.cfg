SPECIFICATION Spec
CONSTANTS
  Workers = {w1}
  Requests = {}
  Sources = {g}
  Gmail = {g}
  Messages = {m1}
  JobLimit = 2
  Lease = 2
  MaxFailures = 2
  RetryBase = 1
  MaxDelay = 3
  MaxStall = 1
  Timely = TRUE
  MaxCrashes = 1
  None = None
  Intervals = {1}
  Operations = {}
INVARIANT NoOrphanedJob

SPECIFICATION Spec
CONSTANTS
  Workers = {w1}
  Requests = {r1}
  Sources = {g}
  Gmail = {g}
  Messages = {m1}
  JobLimit = 2
  Lease = 2
  MaxFailures = 2
  RetryBase = 1
  MaxDelay = 3
  MaxStall = 1
  Timely = TRUE
  MaxCrashes = 0
  None = None
  Intervals = {1}
  Operations = {"post"}
INVARIANT FailedImportedNothing

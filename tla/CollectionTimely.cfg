SPECIFICATION LiveSpec
CONSTANTS
  Workers = {w1, w2}
  Requests = {r1}
  Sources = {g}
  Gmail = {g}
  Messages = {m1}
  JobLimit = 2
  Lease = 2
  MaxFailures = 3
  RetryBase = 1
  MaxDelay = 2
  MaxStall = 1
  Timely = TRUE
  MaxCrashes = 1
  None = None
  Intervals = {1}
  Operations = {"disconnect", "retry", "scan"}
INVARIANT TypeOK
INVARIANT OneCollector
INVARIANT ExhaustedIsPaused
PROPERTY JobsKeepLifecycle
PROPERTY DueIsServed

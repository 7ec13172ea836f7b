SPECIFICATION Spec
CONSTANTS
  Workers = {w1}
  Requests = {r1}
  Sources = {c, g}
  Gmail = {g}
  Messages = {m1}
  JobLimit = 2
  Lease = 1
  MaxFailures = 1
  RetryBase = 1
  MaxDelay = 1
  MaxStall = 0
  Timely = TRUE
  MaxCrashes = 0
  None = None
  Intervals = {1}
  Operations = {"configure", "disconnect", "reconnect", "retry", "queue", "post"}
INVARIANT ImportedIsAttributed
INVARIANT DisconnectedIsPaused
PROPERTY NoIngestWhileDisconnected

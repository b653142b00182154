CONSTANTS
  Uploads = {u1}
  Declarations = {d1}
  Images = {i1}
  Junk = {}
  Staging = staging
  Tokens = {t1, t2}
  Requests = {r1}
  Null = Null
  UploadWindow = 1
  PresignTTL = 1
  MaxTime = 2
  MaxFaults = 1
  Finalizers = {f1}
  Lease = 2
  RetryDelays = {1}
  Janitors = {n1}
  ExpiryBatch = 1
  CleanupBatch = 1
  ReservationLease = 1
  ProtectiveInterval = 1
  CleanupDelays = {1}
SPECIFICATION RunningClockSpec
PROPERTIES
  FinalizingTerminates
  PendingResolved
  CleanupConverges

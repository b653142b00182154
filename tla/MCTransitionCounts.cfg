CONSTANTS
  Uploads = {u1}
  Declarations = {d1}
  Images = {}
  Junk = {j1}
  Staging = staging
  Tokens = {t1, t2}
  Requests = {r1, r2}
  Null = Null
  UploadWindow = 1
  PresignTTL = 1
  MaxTime = 2
  MaxFaults = 1
  Finalizers = {}
  Lease = 1
  RetryDelays = {1}
  Janitors = {n1}
  ExpiryBatch = 2
  CleanupBatch = 1
  ReservationLease = 1
  ProtectiveInterval = 1
  CleanupDelays = {1}
SPECIFICATION CountingSpec
INVARIANTS
  CreationAndCompletionCountedOnce

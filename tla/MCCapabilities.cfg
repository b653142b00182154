CONSTANTS
  Uploads = {u1}
  Declarations = {d1, d2}
  Images = {i1}
  Junk = {}
  Staging = staging
  Tokens = {t1, t2}
  Requests = {r1, r2}
  Null = Null
  UploadWindow = 2
  PresignTTL = 1
  MaxTime = 2
  MaxFaults = 2
  Finalizers = {}
  Lease = 1
  RetryDelays = {1}
  Janitors = {n1}
  ExpiryBatch = 1
  CleanupBatch = 1
  ReservationLease = 1
  ProtectiveInterval = 1
  CleanupDelays = {1}
SPECIFICATION Spec
SYMMETRY Symmetry
INVARIANTS
  CapabilityCovered
  CapabilityNamesRow

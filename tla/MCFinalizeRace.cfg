CONSTANTS
  Uploads = {u1}
  Declarations = {d1}
  Images = {i1, i2}
  Junk = {}
  Staging = staging
  Tokens = {t1, t2, t3}
  Requests = {r1}
  Null = Null
  UploadWindow = 1
  PresignTTL = 1
  MaxTime = 2
  MaxFaults = 1
  Finalizers = {f1, f2}
  Lease = 1
  RetryDelays = {1}
  Janitors = {}
  ExpiryBatch = 1
  CleanupBatch = 1
  ReservationLease = 1
  ProtectiveInterval = 1
  CleanupDelays = {1}
SPECIFICATION Spec
SYMMETRY Symmetry
INVARIANTS
  TypeOK
  SchemaHolds
  NoOrphanedObject
PROPERTIES
  LiveClaimRespected

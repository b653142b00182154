CONSTANTS
  Handlers = {h1, h2}
  S3Timeout = 1
  DefaultLease = 3
  Leases = {0, 1, 2}
SPECIFICATION Spec
INVARIANTS
  PoolOutlivesWorkers
  CleanExitAnswersAll
PROPERTIES
  ShutdownCompletes

CONSTANTS
  MaxUploadSize = 2
  MaxAxis = 3
  MaxPixels = 6
  Slack = 1
SPECIFICATION Spec
INVARIANTS
  VerdictOnObject
  PublishedIntact
  RejectionsPresentable
CHECK_DEADLOCK FALSE

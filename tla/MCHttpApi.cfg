CONSTANTS
  MaxUploadSize = 2
  MaxMembers = 3
SPECIFICATION Spec
INVARIANTS
  InternalErrorOnlyFromSigning
  DeclarationsExact
PROPERTIES
  StatusTellsState

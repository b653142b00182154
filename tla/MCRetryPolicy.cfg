CONSTANTS
  MaxDelay = 60
  MaxShift = 6
  Width = 8
  ProtectiveDelay = 1440
  MaxStreak = 10
SPECIFICATION Spec
INVARIANTS
  RetryColumnsStorable
  BackoffBounded
  LostAnswerAmbiguous
PROPERTIES
  BackoffGrows

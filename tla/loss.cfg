SPECIFICATION Spec
CONSTANTS
  Width = 256
  Slots = 32
  Rings <- SomeRings
INVARIANT SearchesLastSeconds
INVARIANT CountsAreExact
PROPERTY Terminates
CHECK_DEADLOCK FALSE

\* A region of 24 bytes that doubles twice.
CONSTANTS
  Requests <- NodeAndStrings
  Regions <- Addresses
  InitialSize = 24
  MaxSize = 96
  WordSpace = 1024

SPECIFICATION Spec
INVARIANTS TypeOK BlocksApart OvershootBounded
CHECK_DEADLOCK FALSE

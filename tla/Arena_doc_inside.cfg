\* What arena.h says of a block.
CONSTANTS
  Requests <- NodeAndStrings
  Regions <- Addresses
  InitialSize = 24
  MaxSize = 96
  WordSpace = 1024

SPECIFICATION Spec
INVARIANT BlocksInside
CHECK_DEADLOCK FALSE

\* What the comment at the offset of an instruction says of a moving region.
CONSTANTS
  Sources <- ShortSources
  Regions <- Addresses
  ArenaSize = 4
  MaxArena = 32
  InitialCap = 1

SPECIFICATION Spec
INVARIANT KeptNamesLive
CHECK_DEADLOCK FALSE

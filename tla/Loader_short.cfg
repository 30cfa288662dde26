\* Every file of three lines, and some with an error in the middle.
CONSTANTS
  Sources <- ShortSources
  Regions <- Addresses
  ArenaSize = 4
  MaxArena = 32
  InitialCap = 1

SPECIFICATION Spec
INVARIANTS TypeOK CapacityCovers LinkedAsWritten ErrorsForbidExecution LoadsProgram
PROPERTY LoadEnds
CHECK_DEADLOCK FALSE

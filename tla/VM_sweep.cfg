\* Every program of at most two palette instructions behind the prologue.
CONSTANTS
  Programs <- ShortPrograms
  STACK_SIZE <- Stack
  LOCAL_SIZE <- Locals
  SIZE32 = 2
  SIZE64 = 3
  Base = 4
  AddressSpace = 64
  StackAddr = 50
  DataAddr <- Data
  DataImages <- Images
  FrameAddr <- Frames
  JunkLocals <- OneJunk

SPECIFICATION Spec
INVARIANTS TypeOK OperandsGuarded
CHECK_DEADLOCK FALSE

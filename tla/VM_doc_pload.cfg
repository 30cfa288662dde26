\* What instructions.txt says of pload.
CONSTANTS
  Programs <- CallPrograms
  STACK_SIZE <- CallStack
  LOCAL_SIZE <- Locals
  SIZE32 = 2
  SIZE64 = 3
  Base = 4
  AddressSpace = 64
  StackAddr = 50
  DataAddr <- Data
  DataImages <- Images
  FrameAddr <- FramesOfCalls
  JunkLocals <- OneJunk

SPECIFICATION Spec
PROPERTY PloadPushesOneAddress
CHECK_DEADLOCK FALSE

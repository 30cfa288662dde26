\* A caller, a procedure of up to three instructions, and recursion to the limit.
CONSTANTS
  Programs <- CallPrograms
  STACK_SIZE <- CallStack
  LOCAL_SIZE <- Locals
  SIZE32 = 2
  SIZE64 = 3
  Base = 4
  AddressSpace = 64
  StackAddr = 50
  DataAddr <- Data
  DataImages <- Images
  FrameAddr <- FramesOfCalls
  JunkLocals <- OneJunk

SPECIFICATION SpecCalls
INVARIANTS FrameChain ReturnsBehindCalls CallDepth CallerOperandsKept
PROPERTY ImplementsCalls
CHECK_DEADLOCK FALSE

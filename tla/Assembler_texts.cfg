\* Texts of four lines, from fopen to the return of main.
CONSTANTS
  Sources <- Texts
  Regions <- Addresses
  ArenaSize = 8
  MaxArena = 32
  InitialCap = 2
  STACK_SIZE = 8
  LOCAL_SIZE = 3
  SIZE32 = 2
  SIZE64 = 3
  Base = 4
  AddressSpace = 64
  StackAddr = 50
  DataAddr <- Declared
  FrameAddr <- Blocks
  JunkLocals <- OneJunk

SPECIFICATION Spec
INVARIANTS TypeOK HeldWhileUsed ExitCodeTells
PROPERTIES ImplementsSource EndsWithDownwardText
CHECK_DEADLOCK FALSE

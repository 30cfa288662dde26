\* The same files, for what a string literal says it is.
CONSTANTS
  Inputs <- AllInputs
  LEXER_BUF_SIZE = 3
  SBUF_SIZE = 5
  EOF = "EOF"
  NUL = "NUL"
  Alphas <- Letters
  Digits <- Figures
  HexDigits <- HexFigures
  Keywords <- Words
  Twins <- SignWords
  SectionNames <- SectionKinds
  Escapes <- EscapeMap

SPECIFICATION Spec
INVARIANT StringAsWritten
CHECK_DEADLOCK FALSE

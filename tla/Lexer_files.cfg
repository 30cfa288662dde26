\* Short files, pairs of lexemes and lines; a buffer of three, words of up to five.
CONSTANTS
  Inputs <- AllInputs
  LEXER_BUF_SIZE = 3
  SBUF_SIZE = 5
  EOF = "EOF"
  NUL = "NUL"
  Alphas <- Letters
  Digits <- Figures
  HexDigits <- HexFigures
  Keywords <- Words
  Twins <- SignWords
  SectionNames <- SectionKinds
  Escapes <- EscapeMap

SPECIFICATION Spec
INVARIANTS TypeOK Tiled TokensSpelled SpansPlaced OverrunsAreLongWords
PROPERTIES ImplementsStream LexEnds
CHECK_DEADLOCK FALSE

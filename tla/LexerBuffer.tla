---------------------------- MODULE LexerBuffer -----------------------------
(***************************************************************************)
(* The input side of lexer.c: lexer_init, lexer_bump, lexer_peak and the   *)
(* buffer of LEXER_BUF_SIZE bytes they read the file through.              *)
(*                                                                         *)
(* lexer_bump fills the buffer again when it takes its last byte, and both *)
(* find their byte by position modulo the size.  fread overwrites only     *)
(* what it reads, so bytes of an earlier chunk stay behind the end of a    *)
(* short one.  How many bytes there are to read is not learnt from the     *)
(* file: main passes the st_size of lstat, which for a symbolic link is    *)
(* not the length of the file that fopen has opened.                       *)
(***************************************************************************)
EXTENDS Integers, Sequences

CONSTANTS
  Inputs,           \* the files under study, with the length lstat gives
  LEXER_BUF_SIZE,   \* bytes of Lexer.buf
  EOF,              \* what lexer_bump and lexer_peak answer at the end; also
                    \* the file byte 0xFF, since char is signed
  NUL               \* the byte an untouched buffer holds

ASSUME BufferAssumption ==
  /\ LEXER_BUF_SIZE \in Nat \ {0}
  /\ \A input \in Inputs : input.len \in Nat /\ input.file \in Seq(STRING)

VARIABLES
  file,        \* the bytes of Lexer.file
  offset,      \* how many of them fread has delivered
  len,         \* Lexer.len
  remaining,   \* Lexer.remaining
  buf,         \* Lexer.buf
  pos,         \* Lexer.row, Lexer.col
  prev         \* Lexer.prev_row, Lexer.prev_col

bufferVars == <<file, offset, len, remaining, buf, pos, prev>>

BufIndex == 0 .. (LEXER_BUF_SIZE - 1)

\* fread(buf, 1, LEXER_BUF_SIZE, file), at file offset from.
Filled(old, from) ==
  [k \in BufIndex |-> IF from + k < Len(file) THEN file[from + k + 1] ELSE old[k]]

Lesser(a, b) == IF a < b THEN a ELSE b

OffsetAfter(from) == Lesser(from + LEXER_BUF_SIZE, Len(file))

\* lexer_init, on a Parser that parse_src has zeroed.
InitBuffer ==
  /\ \E input \in Inputs : file = input.file /\ len = input.len
  /\ remaining = len
  /\ buf = Filled([k \in BufIndex |-> NUL], 0)
  /\ offset = OffsetAfter(0)
  /\ pos = [row |-> 0, col |-> 0] /\ prev = pos

Taken == len - remaining

Idx == Taken % LEXER_BUF_SIZE

\* lexer_peak, and what lexer_bump returns.
Peek == IF remaining = 0 THEN EOF ELSE buf[Idx]

\* Variant: the buffer is filled again one byte early.
RefillsEarly == Idx + 2 = LEXER_BUF_SIZE

Refills == Idx + 1 = LEXER_BUF_SIZE

PosBehind(c) ==
  IF c = "\n" THEN [row |-> pos.row + 1, col |-> 0] ELSE [pos EXCEPT !.col = @ + 1]

\* lexer_bump.  At the end it changes nothing, prev included.
Bump ==
  IF remaining = 0 THEN UNCHANGED bufferVars
  ELSE /\ remaining' = remaining - 1
       /\ buf' = IF Refills THEN Filled(buf, offset) ELSE buf
       /\ offset' = IF Refills THEN OffsetAfter(offset) ELSE offset
       /\ prev' = pos
       /\ pos' = PosBehind(Peek)
       /\ UNCHANGED <<file, len>>

SpecBuffer == InitBuffer /\ [][Bump]_bufferVars
-----------------------------------------------------------------------------
(* Properties.                                                             *)

BufferTypeOK ==
  /\ remaining \in 0 .. len
  /\ offset \in 0 .. Len(file)
  /\ DOMAIN buf = BufIndex
  /\ pos \in [row : Nat, col : Nat] /\ prev \in [row : Nat, col : Nat]

\* The k-th character the lexer gets.  Behind the end of the file, where a
\* wrong length takes it, that is what an earlier chunk left at its place.
Delivered(k) ==
  LET same == {j \in 1 .. Lesser(k, Len(file)) : (k - j) % LEXER_BUF_SIZE = 0}
  IN  IF same = {} THEN NUL ELSE file[CHOOSE j \in same : \A i \in same : i <= j]

Text == [k \in 1 .. len |-> Delivered(k)]

Stream == INSTANCE CharStream WITH text <- Text, taken <- Taken, next <- Peek

\* Whatever the size of the buffer, and wherever its chunks end, lexer_bump
\* and lexer_peak deliver the characters of the file in order, each once,
\* and EOF from then on; no refill loses a byte or shows one of the chunk
\* before, as long as lstat's length is the file's.
ImplementsStream == Stream!Spec
=============================================================================

----------------------------- MODULE CharStream -----------------------------
(***************************************************************************)
(* What the recognisers of lexer.c take for granted of lexer_bump and      *)
(* lexer_peak: the characters of a text, one after the other, and then EOF *)
(* for as long as anyone asks.  No buffer, no file and no chunks.          *)
(***************************************************************************)
EXTENDS Naturals, Sequences

CONSTANT EOF

VARIABLES
  text,    \* the characters there are
  taken,   \* how many of them lexer_bump has returned
  next     \* what lexer_peak answers

At(k) == IF k < Len(text) THEN text[k + 1] ELSE EOF

Init == taken = 0 /\ next = At(0)

\* One character goes, the one behind it becomes the next.
Take ==
  /\ taken < Len(text)
  /\ taken' = taken + 1
  /\ next' = At(taken + 1)
  /\ UNCHANGED text

Spec == Init /\ [][Take]_<<text, taken, next>>
=============================================================================

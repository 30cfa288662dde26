----------------------------- MODULE SourceText -----------------------------
(***************************************************************************)
(* The places of a source text that its author reckons with: where it      *)
(* ends, where its mnemonics stand, and where the marks of a label are.    *)
(***************************************************************************)
EXTENDS Naturals, Sequences, FiniteSetsExt

\* What stands before the first token of a statement of the text section.
LineEnds == {"EOL", "EOF", "SECTION_TEXT", "SECTION_DATA"}

\* Where the text ends.  An end of file that does not begin a line only ends
\* one, and the lexer makes an end of file of a byte 255 too.
TextEnd(text) ==
  Min({j \in 1 .. Len(text) :
         text[j].tok = "EOF" /\ (j > 1 => text[j - 1].tok \in LineEnds)} \cup {Len(text) + 1})

\* A line that starts with ',', '[' or ']' has an instruction too, since
\* these signs are tokens of a mnemonic's kind; in a declaration they, and
\* the mnemonics of their kinds, are brackets.
Mnemonics(text) ==
  {j \in 1 .. (TextEnd(text) - 1) :
     text[j].tok = "OP" /\ (j > 1 => text[j - 1].tok \in LineEnds)}

\* The first mnemonic at place j or below; the end of the text if there is none.
FirstFrom(text, j) == Min({k \in Mnemonics(text) : k >= j} \cup {TextEnd(text)})

Marks(text, name) ==
  {j \in 1 .. (TextEnd(text) - 1) : text[j].tok = "LABEL" /\ text[j].data = name}
=============================================================================

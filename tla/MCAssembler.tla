---------------------------- MODULE MCAssembler -----------------------------
(***************************************************************************)
(* Texts and a small machine for Assembler: every text of three lines from *)
(* a palette of labels, jumps, calls, returns and operands, behind a push; *)
(* procedures with a call above them; texts with a data section; texts     *)
(* with an error; texts with an end of file inside.                        *)
(***************************************************************************)
EXTENDS Assembler

Tok(kind, payload) == [tok |-> kind, data |-> payload]
OpTok(kind, ty) == Tok("OP", [kind |-> kind, ty |-> ty])
Name(name) == Tok("IDENT", name)
Uint(v) == Tok("UINT", v)
Mark(kind) == Tok(kind, 0)
Eol == Mark("EOL")
Comma == OpTok("pderef", "8")
OpenBracket == OpTok("ceq", "C")
CloseBracket == OpTok("cge", "C")

LabelLine(name) == <<Tok("LABEL", name), Eol>>
To(kind, name) == <<OpTok(kind, "8"), Name(name), Eol>>
CallLine(name, argc) == <<OpTok("jumpproc", "8"), Name(name), Uint(argc), Eol>>
PushLine(v) == <<OpTok("push", "C"), Uint(v), Eol>>
RetLine == <<OpTok("retN", "8"), Eol>>

Lines ==
  {LabelLine("a"), LabelLine("b"), To("jump", "a"), To("jumpcmp", "b"), CallLine("a", 0),
   CallLine("b", 1), PushLine(1), PushLine(0), RetLine}

DataText == <<Mark("SECTION_DATA"), Eol, Name("x"), Mark("DB"), OpenBracket, Uint(2),
              CloseBracket, Mark("SECTION_TEXT"), Eol>>

DataLines == {<<OpTok("ppush", "64"), Name("x"), Eol>>, <<Comma, Eol>>,
              To("jumpcmp", "a"), LabelLine("a"), <<OpTok("pset", "8"), Eol>>, PushLine(1)}

BadLines == {<<OpTok("jump", "8"), Uint(1), Eol>>, <<Mark("ILLEGAL"), Eol>>, <<Mark("SECTION_DATA"), Eol>>}

\* Lines of a single bracket, which compare, and a bracket behind a mnemonic.
SignLines == {<<OpenBracket, Eol>>, <<CloseBracket, Eol>>, <<OpTok("pop", "8"), OpenBracket, Eol>>}

\* An end of file inside the text, at the start of a line or as the end of one.
EndedTexts ==
  {PushLine(1) \o CallLine("b", 0) \o a \o <<Mark("EOF")>> \o LabelLine("b") : a \in Lines} \cup
  {PushLine(1) \o <<OpTok("jumpcmp", "8"), Name("a"), Mark("EOF")>> \o a \o b :
     a \in Lines, b \in Lines}

Texts ==
  {PushLine(1) \o a \o b \o c : a \in Lines, b \in Lines, c \in Lines} \cup
  {PushLine(1) \o CallLine("b", n) \o a \o LabelLine("b") \o b \o RetLine :
     n \in {0, 1}, a \in Lines, b \in Lines} \cup
  {DataText \o a \o b \o c : a \in DataLines, b \in DataLines, c \in DataLines} \cup
  {a \o b \o c : a \in Lines, b \in BadLines, c \in Lines} \cup
  {PushLine(1) \o PushLine(1) \o a \o b \o c : a \in SignLines, b \in Lines, c \in SignLines} \cup
  EndedTexts

Addresses == {1000, 2000}
\* The place of the declaration in DataText.
Declared == {3, 4}
Blocks == {8, 12, 16}
OneJunk == {[k \in 0 .. 2 |-> 2]}
=============================================================================

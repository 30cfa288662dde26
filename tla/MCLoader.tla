------------------------------ MODULE MCLoader ------------------------------
(* Token sequences for Loader: every sequence of a few lines, good and bad. *)
EXTENDS Loader

OpTok(kind, ty) == Tok("OP", [kind |-> kind, ty |-> ty])
Name(name) == Tok("IDENT", name)
Uint(v) == Tok("UINT", v)
Mark(kind) == Tok(kind, 0)
Eol == Mark("EOL")
Comma == Tok("OP", CommaOp)
OpenBracket == Tok("OP", OpenBracketOp)
CloseBracket == Tok("OP", CloseBracketOp)

LabelLine(name) == <<Tok("LABEL", name), Eol>>
JumpLine(name) == <<OpTok("jump", "8"), Name(name), Eol>>
CallLine(name) == <<OpTok("jumpproc", "8"), Name(name), Uint(1), Eol>>
PushLine == <<OpTok("push", "I"), Uint(7), Eol>>
BlockLine(name) == <<Mark("SECTION_DATA"), Eol, Name(name), Mark("DB"), OpenBracket, Uint(2),
                     CloseBracket, Eol>>
ExternLine(name) == <<Mark("SECTION_DATA"), Name(name), Mark("EXTERN"), Eol>>
TextLine == <<Mark("SECTION_TEXT"), Eol>>

Lines ==
  {LabelLine("a"), LabelLine("b"), JumpLine("a"), CallLine("b"), PushLine,
   <<OpTok("pop", "8"), Eol>>, <<OpTok("ppush", "64"), Name("x"), Eol>>,
   <<OpTok("load", "8"), Uint(0), Eol>>, BlockLine("x") \o TextLine,
   ExternLine("x") \o TextLine, BlockLine("y")}

BadLines ==
  {<<OpTok("push", "I"), Tok("FLOAT", 0), Eol>>, <<OpTok("jump", "8"), Uint(1), Eol>>,
   <<OpTok("pop", "8"), OpTok("pop", "8"), Eol>>, <<Mark("ILLEGAL"), Eol>>,
   <<OpTok("jumpproc", "8"), Name("a"), Name("b"), Eol>>, <<Name("x"), Mark("DW"), Uint(1), Eol>>,
   <<Mark("SECTION_DATA"), Name("x"), Mark("DW"), Uint(1), Eol>>, <<OpTok("load", "8"), Eol>>}

\* Lines that start with a sign, good and bad; a sign at the end of a line, in
\* the data section, and in the place of a bracket.
SignLines ==
  {<<Comma, Eol>>, <<OpenBracket, Eol>>, <<CloseBracket, Eol>>, <<Comma, Comma, Eol>>,
   <<OpenBracket, Uint(1), CloseBracket, Eol>>, <<OpTok("pop", "8"), CloseBracket, Eol>>,
   <<Mark("SECTION_DATA"), Comma, Eol>> \o TextLine,
   <<Mark("SECTION_DATA"), Name("x"), Mark("DB"), OpenBracket, Uint(2), OpenBracket, Eol>> \o TextLine,
   <<Mark("SECTION_DATA"), Name("x"), Mark("DB"), Comma, Uint(2), CloseBracket, Eol>> \o TextLine}

\* The last line of a file may lack its newline.
LastLine == <<OpTok("jumpcmp", "8"), Name("a")>>

\* A byte 0xFF gives a T_EOF that more tokens follow, as the end of a
\* statement or at the start of one.
EndedSources ==
  {a \o <<OpTok("push", "I"), Uint(7), Mark("EOF")>> \o b : a \in Lines, b \in Lines} \cup
  {a \o <<Mark("EOF")>> \o PushLine : a \in Lines}

ShortSources ==
  {a \o b \o c : a \in Lines, b \in Lines, c \in Lines} \cup
  {a \o b \o LastLine : a \in Lines, b \in Lines} \cup
  {a \o b \o c : a \in Lines, b \in BadLines \cup SignLines, c \in Lines} \cup
  {a \o BlockLine("x") \o TextLine \o a : a \in SignLines} \cup
  EndedSources

Addresses == {1000, 2000}
=============================================================================

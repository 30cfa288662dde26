------------------------------- MODULE Parser -------------------------------
(***************************************************************************)
(* parser.c: one call of parser_next, as a function of the tokens that are *)
(* left and of parser->state.  Every parse_* function of the parser reads  *)
(* tokens until one is not what it expects, and takes that one with it; so *)
(* each is a list of what it accepts, token by token.                      *)
(*                                                                         *)
(* The build is the default one (no STRONG_LIT_TYPE, no WEAK_LIT_TYPE):    *)
(* integer literals become floats where a float is pushed, nothing else is *)
(* converted.                                                              *)
(***************************************************************************)
EXTENDS Bytecode, FiniteSetsExt

\* A token is its kind and its data: a name, a number, or the mnemonic, as
\* the kind and type of the instruction it stands for.  The kinds of the
\* mnemonics count on from that of T_EOL and go through the codes of ',',
\* '[' and ']': those signs are the tokens of pderef8, cceq and ccge.
Tok(kind, payload) == [tok |-> kind, data |-> payload]

CommaOp        == [kind |-> "pderef", ty |-> "8"]
OpenBracketOp  == [kind |-> "ceq", ty |-> "C"]
CloseBracketOp == [kind |-> "cge", ty |-> "C"]

Token(tokens, j) == IF j <= Len(tokens) THEN tokens[j] ELSE Tok("EOF", 0)

\* The lexer copies the text of these tokens into the arena.
StringTokens == {"IDENT", "LABEL", "SLIT"}

WellFormedToken(t) ==
  /\ t = Tok(t.tok, t.data)
  /\ t.tok = "OP" => t.data \in [kind : Kinds, ty : Types]
  /\ t.tok \in StringTokens => t.data \in STRING
  /\ t.tok \in {"INT", "UINT", "FLOAT"} => t.data \in Nat

EndOfStatement == {"EOL", "EOF"}

IndexKinds == {"copy", "store", "load", "pload", "ret", "unimplemented"}

LiteralTokens(op) ==
  IF op.kind = "ppush" THEN {"IDENT"}
  ELSE IF op.ty = "F" THEN {"INT", "UINT", "FLOAT"} ELSE {"INT", "UINT"}

\* What follows the mnemonic op.
Operands(op) ==
  CASE op.kind \in {"push", "ppush"}   -> <<LiteralTokens(op), EndOfStatement>>
    [] op.kind \in IndexKinds          -> <<{"UINT"}, EndOfStatement>>
    [] op.kind \in {"jump", "jumpcmp"} -> <<{"IDENT"}, EndOfStatement>>
    [] op.kind = "jumpproc"            -> <<{"IDENT"}, {"UINT"}, EndOfStatement>>
    [] OTHER                           -> <<EndOfStatement>>

DataKinds == {"DB", "DW", "DD"}

\* What a token is taken for behind the first one of its statement.
TakenFor(t) ==
  IF t.tok # "OP" THEN t.tok
  ELSE IF t.data = OpenBracketOp THEN "[" ELSE IF t.data = CloseBracketOp THEN "]" ELSE "OP"

\* parse_data: the reserving form ends with its bracket, not with the line.
DataOperands(next) ==
  IF next.tok = "EXTERN" THEN <<{"EXTERN"}, EndOfStatement>>
  ELSE <<DataKinds, {"["}, {"UINT"}, {"]"}>>

Sections == {"SECTION_TEXT", "SECTION_DATA"}

\* What stands before a statement of the text section.
LineEnds == EndOfStatement \cup Sections

StartsLine(tokens, j) == j > 1 => tokens[j - 1].tok \in LineEnds

\* The first token of a statement, at j or behind it.
StatementStart(tokens, j) ==
  CHOOSE k \in j .. (Len(tokens) + 1) :
    /\ Token(tokens, k).tok \notin Sections \cup {"EOL"}
    /\ \A i \in j .. (k - 1) : tokens[i].tok \in Sections \cup {"EOL"}

\* parser->state, after the section marks between j and the statement.
StateAt(tokens, j, state) ==
  LET marks == {k \in j .. (StatementStart(tokens, j) - 1) : tokens[k].tok \in Sections}
  IN  IF marks = {} THEN state ELSE tokens[Max(marks)].tok

\* Whether a statement may start here, and with what its tokens must go on.
\* A line of a single ',', '[' or ']' is a whole instruction.
Accepts(first, state) ==
  IF state = "SECTION_DATA" THEN first.tok = "IDENT"
  ELSE first.tok \in {"OP", "LABEL", "EOF"}

Expected(tokens, s, state) ==
  LET first == Token(tokens, s)
  IN  CASE first.tok = "OP"    -> Operands(first.data)
        [] first.tok = "LABEL" -> <<EndOfStatement>>
        [] first.tok = "IDENT" -> DataOperands(Token(tokens, s + 1))
        [] OTHER               -> <<>>

Mismatches(tokens, s, expected) ==
  {k \in 1 .. Len(expected) : TakenFor(Token(tokens, s + k)) \notin expected[k]}

\* Where the next call goes on: behind the last token this one has read.
\* Beyond the end lexer_next keeps answering T_EOF.
Behind(tokens, j) == Min({j, Len(tokens)}) + 1

(***************************************************************************)
(* parser_next.  outcome is "node", "error" (NULL is returned, with a      *)
(* message in the arena) or "panic" (declarations with initialisers are    *)
(* not implemented); start is the statement's first token.                 *)
(***************************************************************************)
ParserNext(tokens, j, state) ==
  LET s        == StatementStart(tokens, j)
      section  == StateAt(tokens, j, state)
      expected == Expected(tokens, s, section)
      wrong    == Mismatches(tokens, s, expected)
      Result(outcome, last) ==
        [outcome |-> outcome, start |-> s, next |-> Behind(tokens, last),
         state |-> section]
  IN  IF ~Accepts(Token(tokens, s), section) THEN Result("error", s)
      ELSE IF wrong = {} THEN Result("node", s + Len(expected))
      ELSE IF section = "SECTION_DATA" /\ Token(tokens, s + 1).tok \in DataKinds
              /\ Min(wrong) = 2
           THEN Result("panic", s + 2)
           ELSE Result("error", s + Min(wrong))
=============================================================================

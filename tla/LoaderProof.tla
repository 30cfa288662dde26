---------------------------- MODULE LoaderProof -----------------------------
(***************************************************************************)
(* What parse_src promises, for every text, every arena and wherever       *)
(* realloc puts it.                                                        *)
(***************************************************************************)
EXTENDS Loader, FiniteSetTheorems, SequenceTheorems, WellFoundedInduction, TLAPS

-----------------------------------------------------------------------------
(* Least and greatest elements.                                            *)

LEMMA LeastExists ==
  ASSUME NEW S \in SUBSET Nat, S # {}
  PROVE  \E x \in S : \A y \in S : x <= y
<1>1. PICK x \in S : \A y \in S : ~(<<y, x>> \in OpToRel(<, Nat))
  BY NatLessThanWellFounded, WFMin, Zenon
<1>2. ASSUME NEW y \in S
      PROVE  x <= y
  <2>1. ~(y < x)
    BY <1>1 DEF OpToRel
  <2> QED
    BY <2>1
<1> QED
  BY <1>2

LEMMA MinIsLeast ==
  ASSUME NEW S \in SUBSET Nat, S # {}
  PROVE  Min(S) \in S /\ \A y \in S : Min(S) <= y
BY LeastExists DEF Min

LEMMA MinIs ==
  ASSUME NEW S \in SUBSET Nat, NEW m \in S, \A y \in S : m <= y
  PROVE  Min(S) = m
<1>1. PICK x \in S : x = Min(S) /\ x <= m
  BY MinIsLeast
<1>2. m <= x
  OBVIOUS
<1> QED
  BY <1>1, <1>2

LEMMA MaxIsGreatest ==
  ASSUME NEW n \in Nat, NEW S \in SUBSET (1 .. n), S # {}
  PROVE  Max(S) \in S /\ \A y \in S : y <= Max(S)
<1> DEFINE T == {n - x : x \in S}
<1>1. T \in SUBSET Nat /\ T # {}
  <2>1. \A x \in S : x \in 1 .. n /\ n - x \in Nat
    OBVIOUS
  <2> QED
    BY <2>1
<1>2. PICK t \in T : \A y \in T : t <= y
  BY <1>1, LeastExists
<1>3. PICK x \in S : t = n - x
  BY <1>2
<1>4. \A y \in S : y <= x
  <2> SUFFICES ASSUME NEW y \in S
               PROVE  y <= x
    OBVIOUS
  <2>1. t <= n - y
    BY <1>2
  <2> QED
    BY <1>3, <2>1
<1>5. \E m \in S : \A y \in S : y <= m
  BY <1>4
<1> QED
  BY <1>5 DEF Max
-----------------------------------------------------------------------------
(* Counting: how many places of a set lie above place j.                   *)

Above(S, j) == {k \in 1 .. (j - 1) : k \in S}
Count(S, j) == Cardinality(Above(S, j))

LEMMA CountType ==
  ASSUME NEW S, NEW j \in Nat
  PROVE  IsFiniteSet(Above(S, j)) /\ Count(S, j) \in Nat
<1>1. IsFiniteSet(1 .. (j - 1))
  BY FS_Interval
<1>2. Above(S, j) \in SUBSET (1 .. (j - 1))
  BY DEF Above
<1>3. IsFiniteSet(Above(S, j))
  BY <1>1, <1>2, FS_Subset
<1> QED
  BY <1>3, FS_CardinalityType DEF Count

LEMMA CountStart ==
  ASSUME NEW S
  PROVE  Count(S, 1) = 0
<1>1. Above(S, 1) = {}
  BY DEF Above
<1> QED
  BY <1>1, FS_EmptySet DEF Count

LEMMA CountStep ==
  ASSUME NEW S, NEW j \in Nat \ {0}, j \in S
  PROVE  Count(S, j + 1) = Count(S, j) + 1
<1>1. Above(S, j + 1) = Above(S, j) \cup {j} /\ j \notin Above(S, j)
  BY DEF Above
<1>2. IsFiniteSet(Above(S, j))
  BY CountType
<1> QED
  BY <1>1, <1>2, FS_AddElement DEF Count

\* Places that are not in the set are not counted.
LEMMA CountSame ==
  ASSUME NEW S, NEW i \in Nat \ {0}, NEW j \in Nat, i <= j, \A k \in i .. (j - 1) : k \notin S
  PROVE  Count(S, j) = Count(S, i)
<1>1. Above(S, j) = Above(S, i)
  BY DEF Above
<1> QED
  BY <1>1 DEF Count

LEMMA CountGrows ==
  ASSUME NEW S, NEW i \in Nat, NEW j \in Nat, i <= j
  PROVE  Count(S, i) <= Count(S, j)
<1>1. IsFiniteSet(Above(S, j))
  BY CountType
<1>2. Above(S, i) \in SUBSET Above(S, j)
  BY DEF Above
<1> QED
  BY <1>1, <1>2, FS_Subset DEF Count

LEMMA CountStrict ==
  ASSUME NEW S, NEW i \in Nat \ {0}, NEW j \in Nat, i < j, i \in S
  PROVE  Count(S, i) + 1 <= Count(S, j)
<1>1. Count(S, i + 1) = Count(S, i) + 1
  BY CountStep
<1>2. Count(S, i + 1) <= Count(S, j)
  BY CountGrows
<1> QED
  BY <1>1, <1>2

\* Two places of the set with the same count are the same.
LEMMA CountInjective ==
  ASSUME NEW S, NEW i \in Nat \ {0}, NEW j \in Nat \ {0}, i \in S, j \in S,
         Count(S, i) = Count(S, j)
  PROVE  i = j
<1>1. Count(S, i) \in Nat
  BY CountType
<1>2. CASE i < j
  BY <1>1, <1>2, CountStrict
<1>3. CASE j < i
  BY <1>1, <1>3, CountStrict
<1> QED
  BY <1>2, <1>3
-----------------------------------------------------------------------------
(* The texts and one call of parser_next.                                  *)

Text(tokens) ==
  /\ tokens \in Seq({tokens[k] : k \in 1 .. Len(tokens)})
  /\ \A k \in 1 .. Len(tokens) : WellFormedToken(tokens[k])

LEMMA TextLen ==
  ASSUME NEW tokens, Text(tokens)
  PROVE  Len(tokens) \in Nat
BY DEF Text

Blank == Sections \cup {"EOL"}

\* A statement starts at the next token that is no section mark and no end
\* of line.
LEMMA StatementStarts ==
  ASSUME NEW tokens, Text(tokens), NEW j \in 1 .. (Len(tokens) + 1)
  PROVE  LET s == StatementStart(tokens, j)
         IN  /\ s \in j .. (Len(tokens) + 1)
             /\ Token(tokens, s).tok \notin Blank
             /\ \A i \in j .. (s - 1) : tokens[i].tok \in Blank
<1> DEFINE S == {k \in j .. (Len(tokens) + 1) : Token(tokens, k).tok \notin Blank}
<1>0. Len(tokens) \in Nat
  BY TextLen
<1>1. Len(tokens) + 1 \in S
  BY <1>0 DEF Token, Tok, Blank, Sections
<1>2. PICK k \in S : \A i \in S : k <= i
  <2>1. S \in SUBSET Nat /\ S # {}
    BY <1>0, <1>1
  <2> QED
    BY <2>1, LeastExists
<1>3. \A i \in j .. (k - 1) : tokens[i].tok \in Blank
  <2> SUFFICES ASSUME NEW i \in j .. (k - 1)
               PROVE  tokens[i].tok \in Blank
    OBVIOUS
  <2>1. i \in j .. (Len(tokens) + 1) /\ i \notin S /\ i <= Len(tokens)
    BY <1>0, <1>2
  <2> QED
    BY <2>1 DEF Token
<1> QED
  BY <1>2, <1>3 DEF StatementStart, Blank

LEMMA SectionKept ==
  ASSUME NEW tokens, Text(tokens), NEW j \in 1 .. (Len(tokens) + 1), NEW state \in Sections
  PROVE  StateAt(tokens, j, state) \in Sections
<1> DEFINE marks == {k \in j .. (StatementStart(tokens, j) - 1) : tokens[k].tok \in Sections}
<1>0. Len(tokens) \in Nat
  BY TextLen
<1>1. CASE marks = {}
  BY <1>1 DEF StateAt
<1>2. CASE marks # {}
  <2>1. StatementStart(tokens, j) \in j .. (Len(tokens) + 1)
    BY StatementStarts
  <2>2. marks \in SUBSET (1 .. Len(tokens))
    BY <1>0, <2>1
  <2>3. Max(marks) \in marks
    BY <1>0, <1>2, <2>2, MaxIsGreatest
  <2> QED
    BY <1>2, <2>3 DEF StateAt
<1> QED
  BY <1>1, <1>2

LEMMA BehindIs ==
  ASSUME NEW tokens, Text(tokens), NEW j \in Nat
  PROVE  Behind(tokens, j) = IF j <= Len(tokens) THEN j + 1 ELSE Len(tokens) + 1
<1>0. Len(tokens) \in Nat
  BY TextLen
<1>1. {j, Len(tokens)} \in SUBSET Nat /\ {j, Len(tokens)} # {}
  BY <1>0
<1>2. /\ Min({j, Len(tokens)}) \in {j, Len(tokens)}
      /\ Min({j, Len(tokens)}) <= j /\ Min({j, Len(tokens)}) <= Len(tokens)
  BY <1>1, MinIsLeast
<1> QED
  BY <1>0, <1>2 DEF Behind

\* What a call makes of its tokens, in terms of what was expected of them.
CallShape(tokens, j, call) ==
  LET s        == call.start
      expected == Expected(tokens, s, call.state)
      wrong    == Mismatches(tokens, s, expected)
  IN  /\ s = StatementStart(tokens, j)
      /\ \/ /\ call.outcome = "node"
            /\ Accepts(Token(tokens, s), call.state) /\ wrong = {}
            /\ call.next = Behind(tokens, s + Len(expected))
         \/ /\ call.outcome = "error"
            /\ ~Accepts(Token(tokens, s), call.state)
            /\ call.next = Behind(tokens, s)
         \/ /\ call.outcome = "error"
            /\ Accepts(Token(tokens, s), call.state) /\ wrong # {}
            /\ call.next = Behind(tokens, s + Min(wrong))
         \/ /\ call.outcome = "panic"
            /\ call.next = Behind(tokens, s + 2)

LEMMA CallHasShape ==
  ASSUME NEW tokens, NEW j, NEW state
  PROVE  CallShape(tokens, j, ParserNext(tokens, j, state))
<1> DEFINE s        == StatementStart(tokens, j)
           where    == StateAt(tokens, j, state)
           expected == Expected(tokens, s, where)
           wrong    == Mismatches(tokens, s, expected)
           data     == where = "SECTION_DATA" /\ Token(tokens, s + 1).tok \in DataKinds
                       /\ Min(wrong) = 2
           call     == ParserNext(tokens, j, state)
<1>1. /\ call.start = s /\ call.state = where
      /\ call.outcome = IF ~Accepts(Token(tokens, s), where) THEN "error"
                        ELSE IF wrong = {} THEN "node" ELSE IF data THEN "panic" ELSE "error"
      /\ call.next = IF ~Accepts(Token(tokens, s), where) THEN Behind(tokens, s)
                     ELSE IF wrong = {} THEN Behind(tokens, s + Len(expected))
                     ELSE IF data THEN Behind(tokens, s + 2)
                     ELSE Behind(tokens, s + Min(wrong))
  BY DEF ParserNext
<1> HIDE DEF s, where, expected, wrong, data, call
<1>2. /\ expected = Expected(tokens, call.start, call.state)
      /\ wrong = Mismatches(tokens, call.start, Expected(tokens, call.start, call.state))
  BY <1>1 DEF expected, wrong
<1>3. CallShape(tokens, j, call)
  BY <1>1, <1>2 DEF CallShape, s
<1> QED
  BY <1>3 DEF call

Brackets == {"[", "]"}

\* Only a mnemonic is taken for something else.
LEMMA TakenAsItIs ==
  ASSUME NEW t
  PROVE  /\ t.tok # "OP" => TakenFor(t) = t.tok
         /\ t.tok = "OP" => TakenFor(t) \in Brackets \cup {"OP"}
BY DEF TakenFor, Brackets

\* The operands of an instruction are what they are taken for.
LEMMA OperandsRead ==
  ASSUME NEW tokens, NEW s, NEW op, Mismatches(tokens, s, Operands(op)) = {}
  PROVE  \A k \in 1 .. Len(Operands(op)) : Token(tokens, s + k).tok \in Operands(op)[k]
<1>1. \A k \in 1 .. Len(Operands(op)) : TakenFor(Token(tokens, s + k)) \in Operands(op)[k]
  BY DEF Mismatches
<1>2. LiteralTokens(op) \in SUBSET {"IDENT", "INT", "UINT", "FLOAT"}
  BY DEF LiteralTokens
<1>3. \/ Operands(op) = <<LiteralTokens(op), EndOfStatement>>
      \/ Operands(op) = <<{"UINT"}, EndOfStatement>>
      \/ Operands(op) = <<{"IDENT"}, EndOfStatement>>
      \/ Operands(op) = <<{"IDENT"}, {"UINT"}, EndOfStatement>>
      \/ Operands(op) = <<EndOfStatement>>
  BY DEF Operands
<1> DEFINE e == Operands(op)
           lit == LiteralTokens(op)
           signs == Brackets \cup {"OP"}
<1>4. \A k \in 1 .. Len(e) : e[k] \cap signs = {}
  <2>1. lit \cap signs = {} /\ {"IDENT"} \cap signs = {} /\ {"UINT"} \cap signs = {}
        /\ EndOfStatement \cap signs = {}
    BY <1>2 DEF EndOfStatement, Brackets
  <2> HIDE DEF lit, signs
  <2>2. CASE e = <<lit, EndOfStatement>>
    BY <2>1, <2>2
  <2>3. CASE e = <<{"UINT"}, EndOfStatement>>
    BY <2>1, <2>3
  <2>4. CASE e = <<{"IDENT"}, EndOfStatement>>
    BY <2>1, <2>4
  <2>5. CASE e = <<{"IDENT"}, {"UINT"}, EndOfStatement>>
    BY <2>1, <2>5
  <2>6. CASE e = <<EndOfStatement>>
    BY <2>1, <2>6
  <2> QED
    BY <1>3, <2>2, <2>3, <2>4, <2>5, <2>6 DEF lit
<1>5. \A t : TakenFor(t) \notin signs => t.tok = TakenFor(t)
  BY TakenAsItIs DEF Brackets
<1>6. \A k \in 1 .. Len(e) : TakenFor(Token(tokens, s + k)) \in e[k]
  BY <1>1
<1> HIDE DEF e, signs
<1>7. \A k \in 1 .. Len(e) : Token(tokens, s + k).tok \in e[k]
  <2> SUFFICES ASSUME NEW k \in 1 .. Len(e)
               PROVE  Token(tokens, s + k).tok \in e[k]
    OBVIOUS
  <2>1. TakenFor(Token(tokens, s + k)) \in e[k] /\ e[k] \cap signs = {}
    BY <1>4, <1>6
  <2>2. Token(tokens, s + k).tok = TakenFor(Token(tokens, s + k))
    BY <1>5, <2>1
  <2> QED
    BY <2>1, <2>2
<1> QED
  BY <1>7 DEF e

\* What is expected behind the first token of a statement: how many tokens,
\* and which of them may carry a text.
LEMMA ExpectedTokens ==
  ASSUME NEW tokens, Text(tokens), NEW s \in Nat \ {0}, NEW state
  PROVE  LET expected == Expected(tokens, s, state)
             first    == Token(tokens, s).tok
         IN  /\ Len(expected) \in 0 .. 4
             /\ \A k \in 1 .. Len(expected) :
                  /\ expected[k] \cap {"OP", "LABEL", "SLIT", "ILLEGAL"} = {}
                  /\ expected[k] \cap Brackets # {} =>
                       k > 1 /\ expected[k - 1] \cap (LineEnds \cup Brackets) = {}
                  /\ "IDENT" \in expected[k] =>
                       /\ k = 1 /\ first = "OP" /\ Len(expected) >= 2
                       /\ expected[2] \cap (DataKinds \cup {"EXTERN"}) = {}
             /\ first = "OP" => expected = Operands(Token(tokens, s).data)
             /\ first = "LABEL" => expected = <<EndOfStatement>>
<1> DEFINE op == Token(tokens, s).data
           first == Token(tokens, s).tok
           next == Token(tokens, s + 1)
           expected == Expected(tokens, s, state)
<1>1. CASE first = "OP"
  <2>1. expected = Operands(op)
    BY <1>1 DEF Expected
  <2>2. LiteralTokens(op) \in SUBSET {"IDENT", "INT", "UINT", "FLOAT"}
    BY DEF LiteralTokens
  <2>3. \/ Operands(op) = <<LiteralTokens(op), EndOfStatement>>
        \/ Operands(op) = <<{"UINT"}, EndOfStatement>>
        \/ Operands(op) = <<{"IDENT"}, EndOfStatement>>
        \/ Operands(op) = <<{"IDENT"}, {"UINT"}, EndOfStatement>>
        \/ Operands(op) = <<EndOfStatement>>
    BY DEF Operands
  <2> DEFINE e == Operands(op)
  <2>4. /\ Len(e) \in 1 .. 3
        /\ \A k \in 1 .. Len(e) :
             e[k] \cap {"OP", "LABEL", "SLIT", "ILLEGAL"} = {} /\ e[k] \cap Brackets = {}
    BY <2>2, <2>3 DEF EndOfStatement, Brackets
  <2>5. \A k \in 1 .. Len(e) :
           "IDENT" \in e[k] => k = 1 /\ Len(e) >= 2 /\ e[2] \cap (DataKinds \cup {"EXTERN"}) = {}
    BY <2>2, <2>3, SMTT(30) DEF EndOfStatement, DataKinds
  <2> HIDE DEF e
  <2> QED
    BY <1>1, <2>1, <2>4, <2>5 DEF e
<1>2. CASE first = "LABEL"
  BY <1>2 DEF Expected, EndOfStatement, Brackets
<1>3. CASE first = "IDENT"
  <2>1. expected = DataOperands(next)
    BY <1>3 DEF Expected
  <2>2. \/ DataOperands(next) = <<{"EXTERN"}, EndOfStatement>>
        \/ DataOperands(next) = <<DataKinds, {"["}, {"UINT"}, {"]"}>>
    BY DEF DataOperands
  <2> USE <1>3, <2>1 DEF EndOfStatement, DataKinds, Brackets, LineEnds, Sections
  <2>3. CASE DataOperands(next) = <<{"EXTERN"}, EndOfStatement>>
    BY <2>3
  <2>4. CASE DataOperands(next) = <<DataKinds, {"["}, {"UINT"}, {"]"}>>
    BY <2>4
  <2> QED
    BY <2>2, <2>3, <2>4
<1>4. CASE first \notin {"OP", "LABEL", "IDENT"}
  BY <1>4 DEF Expected
<1> QED
  BY <1>1, <1>2, <1>3, <1>4

LEMMA CallInText ==
  ASSUME NEW tokens, Text(tokens), NEW j \in 1 .. (Len(tokens) + 1), NEW state \in Sections
  PROVE  LET call == ParserNext(tokens, j, state)
         IN  /\ call.outcome \in {"node", "error", "panic"} /\ call.state \in Sections
             /\ call.start \in j .. (Len(tokens) + 1)
             /\ call.next \in call.start .. (Len(tokens) + 1)
             /\ call.start <= Len(tokens) => call.start < call.next
             /\ Token(tokens, call.start).tok \notin Blank
             /\ \A i \in j .. (call.start - 1) : tokens[i].tok \in Blank
<1> DEFINE call     == ParserNext(tokens, j, state)
           s        == call.start
           expected == Expected(tokens, s, call.state)
           wrong    == Mismatches(tokens, s, expected)
<1>0. Len(tokens) \in Nat
  BY TextLen
<1>1. CallShape(tokens, j, call)
  BY CallHasShape
<1>2. call.state \in Sections
  <2>1. call.state = StateAt(tokens, j, state)
    BY DEF ParserNext
  <2> QED
    BY <2>1, SectionKept
<1> HIDE DEF call
<1>3. /\ s \in j .. (Len(tokens) + 1) /\ Token(tokens, s).tok \notin Blank
      /\ \A i \in j .. (s - 1) : tokens[i].tok \in Blank
  <2>1. s = StatementStart(tokens, j)
    BY <1>1 DEF CallShape
  <2> QED
    BY <2>1, StatementStarts
<1>4. Len(expected) \in Nat
  BY <1>0, <1>3, ExpectedTokens
<1>5. wrong # {} => Min(wrong) \in Nat
  <2>1. wrong \in SUBSET Nat
    BY <1>4 DEF Mismatches
  <2> QED
    BY <2>1, MinIsLeast
<1>6. \E n \in Nat : call.next = Behind(tokens, s + n)
  <2>1. s + 0 = s
    BY <1>0, <1>3
  <2> QED
    BY <1>1, <1>4, <1>5, <2>1 DEF CallShape
<1>7. PICK n \in Nat : call.next = Behind(tokens, s + n)
  BY <1>6
<1>8. s + n \in Nat /\ call.next = IF s + n <= Len(tokens) THEN s + n + 1 ELSE Len(tokens) + 1
  <2>1. s + n \in Nat
    BY <1>0, <1>3, <1>7
  <2> QED
    BY <1>7, <2>1, BehindIs
<1>9. call.outcome \in {"node", "error", "panic"}
  BY <1>1 DEF CallShape
<1>10. call.next \in s .. (Len(tokens) + 1) /\ (s <= Len(tokens) => s < call.next)
  BY <1>0, <1>3, <1>7, <1>8
<1> QED
  BY <1>2, <1>3, <1>9, <1>10 DEF call

Declares(tokens, i) ==
  tokens[i].tok = "IDENT" /\ Token(tokens, i + 1).tok \in DataKinds \cup {"EXTERN"}

\* A call that returns a node has read one statement: it starts with the only
\* mnemonic, label or declaration among the tokens, and all of them are the
\* expected ones.
LEMMA NodeCall ==
  ASSUME NEW tokens, Text(tokens), NEW j \in 1 .. (Len(tokens) + 1), NEW state \in Sections,
         ParserNext(tokens, j, state).outcome = "node"
  PROVE  LET call == ParserNext(tokens, j, state)
             first == Token(tokens, call.start).tok
         IN  /\ \A i \in j .. (call.next - 1) : i # call.start =>
                  /\ tokens[i].tok \notin {"LABEL", "SLIT", "ILLEGAL"}
                  /\ ~Declares(tokens, i)
                  /\ tokens[i].tok = "OP" =>
                       ~StartsLine(tokens, i) /\ TakenFor(tokens[i]) \in Brackets
             /\ first \in {"OP", "LABEL", "IDENT", "EOF"}
             /\ first = "IDENT" => Declares(tokens, call.start)
             /\ first = "OP" =>
                  /\ Mismatches(tokens, call.start, Operands(tokens[call.start].data)) = {}
                  /\ call.next = Behind(tokens, call.start
                                   + Len(Operands(tokens[call.start].data)))
<1> DEFINE call     == ParserNext(tokens, j, state)
           s        == call.start
           first    == Token(tokens, s).tok
           expected == Expected(tokens, s, call.state)
<1>0. Len(tokens) \in Nat
  BY TextLen
<1>1. /\ call.state \in Sections /\ s \in j .. (Len(tokens) + 1)
      /\ call.next \in s .. (Len(tokens) + 1)
      /\ \A i \in j .. (s - 1) : tokens[i].tok \in Blank
  BY CallInText
<1>2. /\ Accepts(Token(tokens, s), call.state) /\ Mismatches(tokens, s, expected) = {}
      /\ call.next = Behind(tokens, s + Len(expected))
  BY CallHasShape DEF CallShape
<1> HIDE DEF call
<1>3. /\ Len(expected) \in 0 .. 4
      /\ \A k \in 1 .. Len(expected) :
           /\ expected[k] \cap {"OP", "LABEL", "SLIT", "ILLEGAL"} = {}
           /\ expected[k] \cap Brackets # {} =>
                k > 1 /\ expected[k - 1] \cap (LineEnds \cup Brackets) = {}
           /\ "IDENT" \in expected[k] =>
                /\ k = 1 /\ first = "OP" /\ Len(expected) >= 2
                /\ expected[2] \cap (DataKinds \cup {"EXTERN"}) = {}
      /\ first = "OP" => expected = Operands(Token(tokens, s).data)
  BY <1>0, <1>1, ExpectedTokens
<1>4. first \in {"OP", "LABEL", "IDENT", "EOF"}
  BY <1>2 DEF Accepts
<1>5. \A k \in 1 .. Len(expected) : TakenFor(Token(tokens, s + k)) \in expected[k]
  BY <1>2 DEF Mismatches
<1>6. ASSUME NEW i \in j .. (call.next - 1), i # s
      PROVE  /\ tokens[i].tok \notin {"LABEL", "SLIT", "ILLEGAL"}
             /\ ~Declares(tokens, i)
             /\ tokens[i].tok = "OP" =>
                  ~StartsLine(tokens, i) /\ TakenFor(tokens[i]) \in Brackets
  <2>1. CASE i < s
    <3>1. tokens[i].tok \in Blank
      BY <1>0, <1>1, <1>6, <2>1
    <3> QED
      BY <3>1 DEF Blank, Sections, Declares
  <2>2. CASE i > s
    <3> DEFINE k == i - s
    <3>1. s \in Nat /\ i \in Nat /\ Len(expected) \in Nat /\ call.next \in Nat
      BY <1>0, <1>1, <1>3, <1>6
    <3>9. s + Len(expected) \in Nat
      BY <3>1
    <3>7. call.next = IF s + Len(expected) <= Len(tokens) THEN s + Len(expected) + 1
                      ELSE Len(tokens) + 1
      BY <1>2, <3>9, BehindIs
    <3>2. k \in 1 .. Len(expected) /\ i <= Len(tokens) /\ s + k = i
      BY <1>0, <1>6, <2>2, <3>1, <3>7, SMTT(30)
    <3> HIDE DEF k
    <3>3. TakenFor(tokens[i]) \in expected[k]
      BY <1>5, <3>2 DEF Token
    <3>4. CASE tokens[i].tok = "IDENT"
      <4>1. k = 1 /\ Len(expected) >= 2 /\ expected[2] \cap (DataKinds \cup {"EXTERN"}) = {}
        BY <1>3, <3>2, <3>3, <3>4, TakenAsItIs
      <4>2. s + 2 = i + 1 /\ 2 \in 1 .. Len(expected)
        BY <3>1, <3>2, <4>1
      <4>3. TakenFor(Token(tokens, i + 1)) \in expected[2]
        BY <1>5, <4>2
      <4> QED
        BY <1>3, <3>2, <3>3, <3>4, <4>1, <4>3, TakenAsItIs DEF Declares, DataKinds
    <3>5. CASE tokens[i].tok \notin {"IDENT", "OP"}
      BY <1>3, <3>2, <3>3, <3>5, TakenAsItIs DEF Declares
    <3>6. CASE tokens[i].tok = "OP"
      <4>1. TakenFor(tokens[i]) \in Brackets
        BY <1>3, <3>2, <3>3, <3>6, TakenAsItIs
      <4>2. k > 1 /\ expected[k - 1] \cap (LineEnds \cup Brackets) = {}
        BY <1>3, <3>2, <3>3, <4>1
      <4>3. k - 1 \in 1 .. Len(expected) /\ s + (k - 1) = i - 1 /\ i - 1 <= Len(tokens) /\ i > 1
        BY <1>0, <3>1, <3>2, <4>2, SMTT(30)
      <4>4. TakenFor(tokens[i - 1]) \in expected[k - 1]
        BY <1>5, <4>3 DEF Token
      <4>5. tokens[i - 1].tok \notin LineEnds
        BY <4>2, <4>4, TakenAsItIs DEF LineEnds, EndOfStatement, Sections
      <4> QED
        BY <3>6, <4>1, <4>3, <4>5 DEF StartsLine, Declares
    <3> QED
      BY <3>4, <3>5, <3>6
  <2> QED
    BY <1>0, <1>1, <1>6, <2>1, <2>2
<1>7. first = "IDENT" => Declares(tokens, s)
  <2> SUFFICES ASSUME first = "IDENT"
               PROVE  Declares(tokens, s)
    OBVIOUS
  <2>1. s <= Len(tokens) /\ tokens[s].tok = "IDENT"
    BY DEF Token, Tok
  <2>2. expected = DataOperands(Token(tokens, s + 1))
    BY DEF Expected
  <2>3. /\ 1 \in 1 .. Len(expected)
        /\ expected[1] = IF Token(tokens, s + 1).tok = "EXTERN" THEN {"EXTERN"} ELSE DataKinds
    BY <2>2 DEF DataOperands
  <2>4. TakenFor(Token(tokens, s + 1)) \in expected[1]
    BY <1>5, <2>3
  <2> QED
    BY <2>1, <2>3, <2>4, TakenAsItIs DEF Declares, DataKinds, Brackets
<1>8. first = "OP" => /\ Mismatches(tokens, s, Operands(tokens[s].data)) = {}
                      /\ call.next = Behind(tokens, s + Len(Operands(tokens[s].data)))
  <2> SUFFICES ASSUME first = "OP"
               PROVE  expected = Operands(tokens[s].data)
    BY <1>2
  <2>1. Token(tokens, s) = tokens[s]
    BY DEF Token, Tok
  <2> QED
    BY <1>3, <2>1
<1> QED
  BY <1>4, <1>6, <1>7, <1>8 DEF call

\* Behind its first token a call reads expected ones, but for the last.
LEMMA CallReads ==
  ASSUME NEW tokens, Text(tokens), NEW j \in 1 .. (Len(tokens) + 1), NEW state \in Sections,
         ParserNext(tokens, j, state).outcome # "panic"
  PROVE  LET call     == ParserNext(tokens, j, state)
             expected == Expected(tokens, call.start, call.state)
         IN  \E m \in 0 .. Len(expected) :
               /\ call.next = Behind(tokens, call.start + m)
               /\ \A k \in 1 .. (m - 1) : TakenFor(Token(tokens, call.start + k)) \in expected[k]
<1> DEFINE call     == ParserNext(tokens, j, state)
           s        == call.start
           expected == Expected(tokens, s, call.state)
           wrong    == Mismatches(tokens, s, expected)
<1>1. CallShape(tokens, j, call)
  BY CallHasShape
<1>2. call.start \in j .. (Len(tokens) + 1) /\ Len(tokens) \in Nat
  BY CallInText, TextLen
<1> HIDE DEF call
<1>3. Len(expected) \in 0 .. 4 /\ s + 0 = s
  BY <1>2, ExpectedTokens
<1>4. CASE call.next = Behind(tokens, s)
  <2>1. 0 \in 0 .. Len(expected) /\ call.next = Behind(tokens, s + 0)
    BY <1>3, <1>4
  <2>2. 1 .. (0 - 1) = {}
    OBVIOUS
  <2> QED
    BY <2>1, <2>2 DEF call
<1>5. CASE wrong = {} /\ call.next = Behind(tokens, s + Len(expected))
  <2>1. \A k \in 1 .. Len(expected) : TakenFor(Token(tokens, s + k)) \in expected[k]
    BY <1>5 DEF Mismatches
  <2>2. Len(expected) \in 0 .. Len(expected)
    BY <1>3
  <2>3. \A k \in 1 .. (Len(expected) - 1) : TakenFor(Token(tokens, s + k)) \in expected[k]
    BY <1>3, <2>1
  <2> QED
    BY <1>5, <2>2, <2>3 DEF call
<1>6. CASE wrong # {} /\ call.next = Behind(tokens, s + Min(wrong))
  <2>1. wrong \in SUBSET Nat /\ wrong \subseteq 1 .. Len(expected)
    BY <1>3 DEF Mismatches
  <2>2. Min(wrong) \in 1 .. Len(expected) /\ \A k \in wrong : Min(wrong) <= k
    BY <1>6, <2>1, MinIsLeast
  <2>3. \A k \in 1 .. (Min(wrong) - 1) : k \in 1 .. Len(expected) /\ k \notin wrong
    BY <1>3, <2>2
  <2>4. \A k \in 1 .. (Min(wrong) - 1) : TakenFor(Token(tokens, s + k)) \in expected[k]
    BY <2>3 DEF Mismatches
  <2>5. Min(wrong) \in 0 .. Len(expected)
    BY <1>3, <2>2
  <2> QED
    BY <1>6, <2>4, <2>5 DEF call
<1>7. call.outcome # "panic"
  BY DEF call
<1> QED
  BY <1>1, <1>4, <1>5, <1>6, <1>7 DEF CallShape
-----------------------------------------------------------------------------
(* What a call allocates.                                                  *)

TextRead == Text(src) /\ at \in 1 .. (Len(src) + 1) /\ section \in Sections

Call == ParserNext(src, at, section)

\* The place of the first text of a call that has one.
TextStart(call) == IF First(call).tok = "OP" THEN call.start + 1 ELSE call.start

\* A call copies a text at one place at most, and another one with the token
\* that ends it.
LEMMA FewTexts ==
  ASSUME TextRead, Call.outcome # "panic"
  PROVE  /\ TextPlaces(Call) \subseteq {TextStart(Call), Call.next - 1}
         /\ TextPlaces(Call) \subseteq 1 .. Len(src)
         /\ First(Call).tok = "OP" => Call.start \notin TextPlaces(Call)
<1> DEFINE s        == Call.start
           expected == Expected(src, s, Call.state)
<1>0. /\ Len(src) \in Nat /\ s \in at .. (Len(src) + 1) /\ Call.next \in s .. (Len(src) + 1)
      /\ s \in Nat \ {0}
  <2>1. Len(src) \in Nat /\ at \in 1 .. (Len(src) + 1)
    BY TextLen DEF TextRead
  <2>2. s \in at .. (Len(src) + 1) /\ Call.next \in s .. (Len(src) + 1)
    BY CallInText DEF TextRead, Call
  <2> QED
    BY <2>1, <2>2
<1>1. PICK m \in 0 .. Len(expected) :
        /\ Call.next = Behind(src, s + m)
        /\ \A k \in 1 .. (m - 1) : TakenFor(Token(src, s + k)) \in expected[k]
  BY CallReads DEF TextRead, Call
<1>2. /\ Len(expected) \in 0 .. 4
      /\ \A k \in 1 .. Len(expected) :
           /\ expected[k] \cap {"OP", "LABEL", "SLIT", "ILLEGAL"} = {}
           /\ expected[k] \cap Brackets # {} =>
                k > 1 /\ expected[k - 1] \cap (LineEnds \cup Brackets) = {}
           /\ "IDENT" \in expected[k] => k = 1 /\ Token(src, s).tok = "OP"
  BY <1>0, ExpectedTokens DEF TextRead
<1> HIDE DEF expected
<1>3. s + m \in Nat /\ m \in Nat /\ m <= Len(expected)
  BY <1>0, <1>1, <1>2
<1>4. Call.next = IF s + m <= Len(src) THEN s + m + 1 ELSE Len(src) + 1
  BY <1>1, <1>3, BehindIs DEF TextRead
<1>5. TextPlaces(Call) \subseteq 1 .. Len(src)
  BY <1>0 DEF TextPlaces
<1>6. ASSUME NEW i \in TextPlaces(Call)
      PROVE  /\ i \in {TextStart(Call), Call.next - 1}
             /\ First(Call).tok = "OP" => i # s
  <2>1. /\ i \in s .. (Call.next - 1) /\ i \in Nat /\ i <= Len(src)
        /\ Token(src, i) = src[i] /\ src[i].tok \in StringTokens
    BY <1>0, <1>6 DEF TextPlaces, Token
  <2>2. CASE i = s
    <3>1. First(Call).tok \in StringTokens
      BY <2>1, <2>2 DEF First
    <3> QED
      BY <2>2, <3>1 DEF TextStart, StringTokens
  <2>3. CASE i # s /\ i # Call.next - 1
    <3>5. s \in Nat /\ Call.next \in Nat /\ s < i /\ i < Call.next - 1
      BY <1>0, <2>1, <2>3
    <3>6. Call.next <= s + m + 1
      BY <1>0, <1>3, <1>4
    <3>7. PICK k \in Int : s + k = i
      <4>1. i - s \in Int /\ s + (i - s) = i
        BY <2>1, <3>5
      <4> QED
        BY <4>1
    <3>8. s + m >= Call.next - 1
      BY <1>3, <3>5, <3>6
    <3>1. k \in 1 .. (m - 1)
      BY <1>3, <2>1, <3>5, <3>7, <3>8
    <3>2. TakenFor(src[i]) \in expected[k] /\ k \in 1 .. Len(expected)
      BY <1>1, <1>2, <1>3, <2>1, <3>1, <3>7
    <3>9. src[i].tok \in expected[k]
      BY <2>1, <3>2, TakenAsItIs DEF StringTokens
    <3>3. src[i].tok = "IDENT"
      BY <1>2, <2>1, <3>2, <3>9 DEF StringTokens
    <3>4. k = 1 /\ Token(src, s).tok = "OP"
      BY <1>2, <3>2, <3>3, <3>9
    <3> QED
      BY <2>3, <3>1, <3>4, <3>7 DEF TextStart, First
  <2> QED
    BY <1>0, <2>2, <2>3 
<1> QED
  BY <1>5, <1>6

LEMMA CountOfTexts ==
  ASSUME TextRead, Call.outcome # "panic"
  PROVE  IsFiniteSet(TextPlaces(Call)) /\ Cardinality(TextPlaces(Call)) \in 0 .. 2
<1> DEFINE two == {TextStart(Call)} \cup {Call.next - 1}
<1>1. IsFiniteSet(two) /\ Cardinality(two) <= 2 /\ Cardinality(two) \in Nat
  <2>1. IsFiniteSet({TextStart(Call)}) /\ Cardinality({TextStart(Call)}) = 1
    BY FS_Singleton
  <2> QED
    BY <2>1, FS_AddElement
<1>2. TextPlaces(Call) \in SUBSET two
  BY FewTexts
<1> HIDE DEF two
<1>3. IsFiniteSet(TextPlaces(Call)) /\ Cardinality(TextPlaces(Call)) <= Cardinality(two)
  BY <1>1, <1>2, FS_Subset
<1>4. Cardinality(TextPlaces(Call)) \in Nat
  BY <1>3, FS_CardinalityType
<1> QED
  BY <1>1, <1>3, <1>4

\* The first text is the one that stands first.
LEMMA FirstPlace ==
  ASSUME TextRead, Call.outcome # "panic", NEW p \in TextPlaces(Call),
         \A i \in TextPlaces(Call) : p <= i
  PROVE  TextPlace(Call, 1) = p
<1> DEFINE T == TextPlaces(Call)
           UpTo(j) == {i \in T : i <= j}
<1>1. T \subseteq 1 .. Len(src) /\ Len(src) \in Nat
  BY FewTexts, TextLen DEF TextRead
<1>2. UpTo(p) = {p}
  BY <1>1
<1>3. Cardinality(UpTo(p)) = 1
  BY <1>2, FS_Singleton
<1>4. TextPlace(Call, 1) = CHOOSE j \in T : Cardinality(UpTo(j)) = 1
  BY DEF TextPlace
<1>5. PICK j \in T : j = TextPlace(Call, 1) /\ Cardinality(UpTo(j)) = 1
  <2> HIDE DEF T, UpTo
  <2>1. p \in T
    BY DEF T
  <2> QED
    BY <1>3, <1>4, <2>1
<1>6. IsFiniteSet(UpTo(j))
  <2>1. IsFiniteSet(T) /\ UpTo(j) \in SUBSET T
    BY CountOfTexts
  <2> QED
    BY <2>1, FS_Subset
<1>7. PICK x : UpTo(j) = {x}
  BY <1>5, <1>6, FS_Singleton
<1>8. p \in UpTo(j) /\ j \in UpTo(j)
  BY <1>1
<1> QED
  BY <1>5, <1>7, <1>8

LEMMA TextPlaceFound ==
  ASSUME TextRead, Call.outcome # "panic", NEW k \in 1 .. Cardinality(TextPlaces(Call))
  PROVE  TextPlace(Call, k) \in TextPlaces(Call)
<1> DEFINE T == TextPlaces(Call)
           UpTo(j) == {i \in T : i <= j}
<1>1. /\ T \subseteq 1 .. Len(src) /\ Len(src) \in Nat
      /\ IsFiniteSet(T) /\ Cardinality(T) \in 0 .. 2
  BY FewTexts, CountOfTexts, TextLen DEF TextRead
<1>2. T # {}
  BY <1>1, FS_EmptySet
<1>3. CASE k = 1
  <2>1. T \in SUBSET Nat
    BY <1>1
  <2>2. PICK p \in T : \A i \in T : p <= i
    BY <1>2, <2>1, LeastExists
  <2> QED
    BY <1>3, <2>2, FirstPlace
<1>4. CASE k # 1
  <2>1. k = Cardinality(T)
    BY <1>1, <1>4
  <2>2. PICK q \in T : \A i \in T : i <= q
    BY <1>1, <1>2, MaxIsGreatest
  <2>3. UpTo(q) = T
    BY <2>2
  <2>4. \E j \in T : Cardinality(UpTo(j)) = k
    BY <2>1, <2>2, <2>3
  <2>5. TextPlace(Call, k) = CHOOSE j \in T : Cardinality(UpTo(j)) = k
    BY DEF TextPlace
  <2> HIDE DEF T, UpTo
  <2>6. TextPlace(Call, k) \in T
    BY <2>4, <2>5
  <2> QED
    BY <2>6 DEF T
<1> QED
  BY <1>3, <1>4

LEMMA TextsAreStrings ==
  ASSUME TextRead, Call.outcome # "panic"
  PROVE  /\ Texts(Call) \in Seq([cell : {"string"}, text : STRING])
         /\ Len(Texts(Call)) = Cardinality(TextPlaces(Call))
         /\ Len(Texts(Call)) \in 0 .. 2
<1> DEFINE n == Cardinality(TextPlaces(Call))
           String(k) == [cell |-> "string", text |-> src[TextPlace(Call, k)].data]
<1>1. n \in 0 .. 2
  BY CountOfTexts
<1>2. ASSUME NEW k \in 1 .. n
      PROVE  String(k) \in [cell : {"string"}, text : STRING]
  <2>1. TextPlace(Call, k) \in TextPlaces(Call)
    BY TextPlaceFound
  <2>2. src[TextPlace(Call, k)].tok \in StringTokens /\ TextPlace(Call, k) \in 1 .. Len(src)
    BY <2>1, FewTexts DEF TextPlaces
  <2>3. src[TextPlace(Call, k)].data \in STRING
    BY <2>2 DEF TextRead, Text, WellFormedToken
  <2> QED
    BY <2>3
<1>3. Texts(Call) = [k \in 1 .. n |-> String(k)]
  BY DEF Texts
<1> HIDE DEF n, String
<1>4. Texts(Call) \in Seq([cell : {"string"}, text : STRING]) /\ Len(Texts(Call)) = n
  BY <1>1, <1>2, <1>3
<1> QED
  BY <1>1, <1>4 DEF n

\* The name of a statement is the first text of its call.
LEMMA FirstText ==
  ASSUME TextRead, Call.outcome # "panic", NEW p \in TextPlaces(Call), p = TextStart(Call)
  PROVE  /\ Len(Texts(Call)) >= 1
         /\ Texts(Call)[1] = [cell |-> "string", text |-> src[p].data]
<1>1. \A i \in TextPlaces(Call) : p <= i
  <2> SUFFICES ASSUME NEW i \in TextPlaces(Call)
               PROVE  p <= i
    OBVIOUS
  <2>1. i \in Call.start .. (Call.next - 1) /\ (First(Call).tok = "OP" => i # Call.start)
    BY FewTexts DEF TextPlaces
  <2>2. Call.start \in Nat /\ Call.next \in Nat
    <3>1. Call.start \in at .. (Len(src) + 1) /\ Call.next \in Call.start .. (Len(src) + 1)
      BY CallInText DEF TextRead, Call
    <3> QED
      BY <3>1, TextLen DEF TextRead
  <2> QED
    BY <2>1, <2>2 DEF TextStart
<1>2. TextPlace(Call, 1) = p
  BY <1>1, FirstPlace
<1>3. Cardinality(TextPlaces(Call)) # 0 /\ Cardinality(TextPlaces(Call)) \in 0 .. 2
  BY CountOfTexts, FS_EmptySet
<1>4. 1 \in 1 .. Cardinality(TextPlaces(Call))
  BY <1>3
<1>5. Len(Texts(Call)) >= 1
  BY <1>3, TextsAreStrings
<1> QED
  BY <1>2, <1>4, <1>5 DEF Texts
-----------------------------------------------------------------------------
(* Types.                                                                  *)

TypeInv == src \in Sources /\ TypeOK /\ CapacityCovers

LEMMA TextIsRead ==
  ASSUME TypeInv
  PROVE  TextRead
BY SourcesAssumption DEF TypeInv, TypeOK, TextRead, Text

\* A number among the tokens is one.
LEMMA NumberData ==
  ASSUME TextRead, NEW j \in Nat \ {0}, Token(src, j).tok \in {"INT", "UINT", "FLOAT"}
  PROVE  Token(src, j).data \in Nat
<1>1. j \in 1 .. Len(src) /\ Token(src, j) = src[j]
  BY TextLen DEF TextRead, Token, Tok
<1> QED
  BY <1>1 DEF TextRead, Text, WellFormedToken

NodeCell ==
  [cell : {"node"}, op : [kind : Kinds, ty : Types], offset : Int, name : Nat, n : Nat,
   lit : Nat]

LEMMA NodeType ==
  ASSUME TypeInv, Call.outcome # "panic", NEW base \in Regions
  PROVE  /\ Node(Call, base) \in Cell
         /\ NameAddr(base) = base + Len(arena) + 1 /\ NodeAddr(base) = base + Len(arena)
         /\ Call.outcome = "node" /\ First(Call).tok = "OP" =>
              /\ Node(Call, base) \in NodeCell
              /\ Node(Call, base).op = First(Call).data
              /\ Node(Call, base).op.kind \in JumpKinds \cup {"ppush"} =>
                   Node(Call, base).name = NameAddr(base)
<1> DEFINE s == Call.start
           op == First(Call).data
           node == Node(Call, base)
<1>0. /\ TextRead /\ Len(src) \in Nat /\ s \in Nat \ {0} /\ s <= Len(src) + 1
      /\ base \in Nat /\ Len(arena) \in Nat
  <2>1. TextRead
    BY TextIsRead
  <2>2. s \in at .. (Len(src) + 1)
    BY <2>1, CallInText DEF TextRead, Call
  <2> QED
    BY <2>1, <2>2, TextLen, ArenaAssumption, SMTT(30) DEF TextRead, TypeInv, TypeOK
<1>1. NodeAddr(base) \in Nat /\ NameAddr(base) \in Nat /\ NameAddr(base) = base + Len(arena) + 1
  BY <1>0 DEF NodeAddr, NameAddr
<1>2. CASE Call.outcome # "node" \/ First(Call).tok # "OP"
  BY <1>1, <1>2 DEF Node, Cell, NodeAddr
<1>3. CASE Call.outcome = "node" /\ First(Call).tok = "OP"
  <2>1. op \in [kind : Kinds, ty : Types] /\ Token(src, s) = src[s] /\ s <= Len(src)
    <3>1. s \in 1 .. Len(src) /\ Token(src, s) = src[s]
      BY <1>0, <1>3 DEF First, Token, Tok
    <3> QED
      BY <1>0, <1>3, <3>1 DEF First, TextRead, Text, WellFormedToken
  <2>2. \A k \in 1 .. Len(Operands(op)) : Token(src, s + k).tok \in Operands(op)[k]
    <3>1. Mismatches(src, s, Operands(src[s].data)) = {}
      BY <1>0, <1>3, NodeCall DEF TextRead, Call, First
    <3> QED
      BY <2>1, <3>1, OperandsRead DEF First
  <2>3. op.kind \in IndexKinds => Token(src, s + 1).data \in Nat
    <3> SUFFICES ASSUME op.kind \in IndexKinds
                 PROVE  Token(src, s + 1).data \in Nat
      OBVIOUS
    <3>1. Operands(op) = <<{"UINT"}, EndOfStatement>>
      BY DEF Operands, IndexKinds
    <3>2. Token(src, s + 1).tok = "UINT" /\ s + 1 \in Nat \ {0}
      BY <1>0, <2>2, <3>1
    <3> QED
      BY <1>0, <3>2, NumberData
  <2>4. op.kind = "jumpproc" => Token(src, s + 2).data \in Nat
    <3> SUFFICES ASSUME op.kind = "jumpproc"
                 PROVE  Token(src, s + 2).data \in Nat
      OBVIOUS
    <3>1. Operands(op) = <<{"IDENT"}, {"UINT"}, EndOfStatement>>
      BY DEF Operands, IndexKinds
    <3>2. Token(src, s + 2).tok = "UINT" /\ s + 2 \in Nat \ {0}
      BY <1>0, <2>2, <3>1
    <3> QED
      BY <1>0, <3>2, NumberData
  <2>5. op.kind = "push" => Token(src, s + 1).data \in Nat
    <3> SUFFICES ASSUME op.kind = "push"
                 PROVE  Token(src, s + 1).data \in Nat
      OBVIOUS
    <3> HIDE DEF op
    <3>1. Operands(op) = <<LiteralTokens(op), EndOfStatement>>
      BY DEF Operands, IndexKinds
    <3>2. Token(src, s + 1).tok \in LiteralTokens(op) /\ s + 1 \in Nat \ {0}
      BY <1>0, <2>2, <3>1
    <3>3. LiteralTokens(op) \subseteq {"INT", "UINT", "FLOAT"}
      BY DEF LiteralTokens
    <3> QED
      BY <1>0, <3>2, <3>3, NumberData
  <2>6. /\ node = [cell |-> "node", op |-> op, offset |-> 0, name |-> node.name, n |-> node.n,
                   lit |-> node.lit]
        /\ node.name = IF op.kind \in JumpKinds \cup {"ppush"} THEN NameAddr(base) ELSE 0
        /\ node.n = IF op.kind \in IndexKinds THEN Token(src, s + 1).data
                    ELSE IF op.kind = "jumpproc" THEN Token(src, s + 2).data ELSE 0
        /\ node.lit = IF op.kind = "push" THEN Token(src, s + 1).data ELSE 0
    BY <1>3 DEF Node
  <2> HIDE DEF node, op, s
  <2>7. node.name \in Nat /\ node.n \in Nat /\ node.lit \in Nat
    BY <1>1, <2>3, <2>4, <2>5, <2>6
  <2>8. node \in NodeCell /\ node.op = op
    BY <2>1, <2>6, <2>7 DEF NodeCell
  <2>9. node \in Cell
    BY <2>8 DEF Cell, NodeCell
  <2> QED
    BY <1>1, <1>3, <2>6, <2>8, <2>9 DEF node, op, s, NodeAddr
<1> QED
  BY <1>2, <1>3

\* A call allocates its node, its texts and its message one behind the other,
\* and one doubling of the region is enough for them.
LEMMA AllocateStep ==
  ASSUME TypeInv, Call.outcome # "panic", NEW base \in Regions, Allocate(Call, base)
  PROVE  /\ region' = base /\ region' \in Nat
         /\ arena' \in Seq(Cell) /\ Len(arena') <= size' /\ size' \in ArenaSize .. MaxArena
         /\ Len(arena') > Len(arena) + Len(Texts(Call))
         /\ \A i \in 1 .. Len(arena) : arena'[i] = arena[i]
         /\ arena'[Len(arena) + 1] = Node(Call, base)
         /\ \A k \in 1 .. Len(Texts(Call)) : arena'[Len(arena) + 1 + k] = Texts(Call)[k]
<1>0. /\ arena \in Seq(Cell) /\ Len(arena) \in Nat /\ size \in Nat /\ Len(arena) <= size
      /\ ArenaSize \in Nat /\ ArenaSize >= 4 /\ MaxArena \in Nat
      /\ size \in ArenaSize .. MaxArena /\ base \in Nat /\ TextRead
  BY ArenaAssumption, TextIsRead DEF TypeInv, TypeOK
<1> DEFINE node == <<Node(Call, base)>>
           texts == Texts(Call)
           messages == Messages(Call)
<1>1. node \in Seq(Cell) /\ Len(node) = 1 /\ node[1] = Node(Call, base)
  BY NodeType
<1>2. texts \in Seq(Cell) /\ Len(texts) \in 0 .. 2
  <2>1. texts \in Seq([cell : {"string"}, text : STRING]) /\ Len(texts) \in 0 .. 2
    BY <1>0, TextsAreStrings
  <2>2. [cell : {"string"}, text : STRING] \subseteq Cell
    BY DEF Cell
  <2> HIDE DEF texts
  <2> QED
    BY <2>1, <2>2, SeqMonotonic
<1>3. messages \in Seq(Cell) /\ Len(messages) \in 0 .. 1
  <2>1. [cell |-> "message"] \in Cell
    BY DEF Cell
  <2>2. messages = <<>> \/ messages = <<[cell |-> "message"]>>
    BY DEF Messages
  <2>3. <<>> \in Seq(Cell) /\ Len(<<>>) = 0
    OBVIOUS
  <2>4. <<[cell |-> "message"]>> \in Seq(Cell) /\ Len(<<[cell |-> "message"]>>) = 1
    BY <2>1
  <2> HIDE DEF messages
  <2>5. messages \in Seq(Cell) /\ (Len(messages) = 0 \/ Len(messages) = 1)
    BY <2>2, <2>3, <2>4, Zenon
  <2> QED
    BY <2>5
<1>4. arena' = arena \o (node \o texts \o messages) /\ region' = base
  BY DEF Allocate, Cells
<1>5. /\ Grows(Call) <=> Len(arena) + (1 + Len(texts) + Len(messages)) > size
      /\ Grows(Call) => 2 * size <= MaxArena
      /\ size' = IF Grows(Call) THEN 2 * size ELSE size
  BY DEF Allocate, Grows, CellCount
<1> HIDE DEF node, texts, messages
<1>6. /\ node \o texts \in Seq(Cell) /\ Len(node \o texts) = 1 + Len(texts)
      /\ \A i \in 1 .. (1 + Len(texts)) :
           (node \o texts)[i] = IF i <= 1 THEN node[i] ELSE texts[i - 1]
  BY <1>1, <1>2, ConcatProperties
<1> DEFINE cells == node \o texts \o messages
<1>7. /\ cells \in Seq(Cell) /\ Len(cells) = 1 + Len(texts) + Len(messages)
      /\ \A i \in 1 .. (1 + Len(texts)) : cells[i] = IF i <= 1 THEN node[i] ELSE texts[i - 1]
  <2>1. /\ cells \in Seq(Cell) /\ Len(cells) = 1 + Len(texts) + Len(messages)
        /\ \A i \in 1 .. (1 + Len(texts) + Len(messages)) :
             cells[i] = IF i <= 1 + Len(texts) THEN (node \o texts)[i]
                        ELSE messages[i - (1 + Len(texts))]
    BY <1>3, <1>6, ConcatProperties
  <2> HIDE DEF cells
  <2>2. ASSUME NEW i \in 1 .. (1 + Len(texts))
        PROVE  cells[i] = IF i <= 1 THEN node[i] ELSE texts[i - 1]
    <3>1. i \in 1 .. (1 + Len(texts) + Len(messages)) /\ i <= 1 + Len(texts)
      BY <1>2, <1>3
    <3> QED
      BY <1>6, <2>1, <3>1
  <2> QED
    BY <2>1, <2>2
<1>8. arena' = arena \o cells
  BY <1>4
<1> HIDE DEF cells
<1>9. /\ arena' \in Seq(Cell) /\ Len(arena') = Len(arena) + Len(cells)
      /\ \A i \in 1 .. (Len(arena) + Len(cells)) :
           arena'[i] = IF i <= Len(arena) THEN arena[i] ELSE cells[i - Len(arena)]
  BY <1>0, <1>7, <1>8, ConcatProperties
<1>10. \A i \in 1 .. Len(arena) : arena'[i] = arena[i]
  BY <1>0, <1>2, <1>3, <1>7, <1>9, SMTT(30)
<1>11. arena'[Len(arena) + 1] = Node(Call, base)
  <2>1. 1 \in 1 .. Len(cells) /\ cells[1] = node[1]
    BY <1>2, <1>3, <1>7
  <2>2. (Len(arena) + 1) - Len(arena) = 1 /\ Len(arena) + 1 \in 1 .. (Len(arena) + Len(cells))
    BY <1>0, <1>2, <1>3, <1>7
  <2> QED
    BY <1>0, <1>1, <1>9, <2>1, <2>2
<1>12. ASSUME NEW k \in 1 .. Len(texts)
       PROVE  arena'[Len(arena) + 1 + k] = texts[k]
  <2>1. /\ k + 1 \in 1 .. (1 + Len(texts)) /\ ~(k + 1 <= 1) /\ (k + 1) - 1 = k
        /\ Len(arena) + 1 + k \in 1 .. (Len(arena) + Len(cells))
        /\ ~(Len(arena) + 1 + k <= Len(arena)) /\ (Len(arena) + 1 + k) - Len(arena) = k + 1
    BY <1>0, <1>2, <1>3, <1>7
  <2>2. cells[k + 1] = texts[k]
    BY <1>7, <2>1
  <2> QED
    BY <1>9, <2>1, <2>2
<1>13. Len(arena') <= size' /\ size' \in ArenaSize .. MaxArena /\ Len(arena') > Len(arena) + Len(texts)
  <2>4. PICK t \in 0 .. 2 : Len(texts) = t
    BY <1>2, Zenon
  <2>5. PICK m \in 0 .. 1 : Len(messages) = m
    BY <1>3, Zenon
  <2>6. Len(arena') = Len(arena) + Len(cells) /\ Len(cells) = 1 + t + m
    BY <1>7, <1>9, <2>4, <2>5
  <2>1. /\ Len(arena') = Len(arena) + (1 + Len(texts) + Len(messages))
        /\ Len(arena') > Len(arena) + Len(texts) /\ Len(arena') <= size + 4
    BY <1>0, <2>4, <2>5, <2>6
  <2>2. CASE Grows(Call)
    BY <1>0, <1>5, <2>1, <2>2
  <2>3. CASE ~Grows(Call)
    BY <1>0, <1>5, <2>1, <2>3
  <2> QED
    BY <2>1, <2>2, <2>3
<1> QED
  BY <1>0, <1>4, <1>9, <1>10, <1>11, <1>12, <1>13 DEF texts
-----------------------------------------------------------------------------
(* The inductive invariant.                                                *)

\* Where the node of instruction k is in the arena: the second loop puts an
\* address in the place of the offset.
Off(k) == IF k <= resolved THEN instructions[k] - region ELSE instructions[k]

NodeAt(k) == arena[Off(k) + 1]

NodesApart ==
  /\ \A k \in 1 .. Len(instructions) :
       Off(k) \in 0 .. (Len(arena) - 1) /\ NodeAt(k) \in NodeCell
  /\ \A k, l \in 1 .. Len(instructions) : k < l => Off(k) < Off(l)

JumpsInside ==
  \A k \in 1 .. resolved :
    NodeAt(k).op.kind \in JumpKinds => k + NodeAt(k).offset \in 0 .. Len(instructions)

Order ==
  /\ phase \in {"parsing", "rejected"} => resolved = 0
  /\ phase \in {"resolving", "executing"} =>
       errcode = 0 /\ (at <= Len(src) => src[at - 1].tok = "EOF")
  /\ phase = "executing" => resolved = Len(instructions)

\* An address that was taken of a text in the arena, wherever the region was
\* at the time.
Names(addr, text) ==
  \E r \in Regions, i \in 1 .. Len(arena) :
    addr + 1 = r + i /\ arena[i] = [cell |-> "string", text |-> text]

OpMarks    == {j \in 1 .. Len(src) : IsOp(j)}
LabelMarks == {j \in 1 .. Len(src) : src[j].tok = "LABEL"}
DataMarks  == {j \in 1 .. Len(src) : Declares(src, j)}

\* The k-th entry is the k-th mark.
Tabled(table, marks) ==
  /\ Len(table) = Count(marks, at)
  /\ \A k \in 1 .. Len(table) :
       \E j \in marks : j < at /\ Count(marks, j) + 1 = k /\ Names(table[k].name, src[j].data)

InstructionsWritten ==
  /\ Len(instructions) = Count(OpMarks, at)
  /\ \A j \in OpMarks : j < at =>
       LET k == Count(OpMarks, j) + 1
       IN  /\ Mismatches(src, j, Operands(src[j].data)) = {}
           /\ NodeAt(k).op = src[j].data
           /\ src[j].data.kind \in JumpKinds \cup {"ppush"} =>
                Names(NodeAt(k).name, Token(src, j + 1).data)
           /\ k <= resolved => Linked(NodeAt(k), j)

LabelsWritten ==
  /\ Tabled(labels, LabelMarks)
  /\ \A j \in LabelMarks :
       j < at => labels[Count(LabelMarks, j) + 1].location = Count(OpMarks, j)

DeclarationsWritten ==
  /\ Tabled(declarations, DataMarks)
  /\ \A j \in DataMarks :
       j < at /\ ReservedAt(j) => declarations[Count(DataMarks, j) + 1].bytes = j

\* Where a token that was accepted may stand.
WellPlaced(j) ==
  /\ src[j].tok \notin {"ILLEGAL", "SLIT"}
  /\ src[j].tok = "OP" => IsOp(j) \/ TakenFor(src[j]) \in Brackets

\* As long as no error was found, the tables are what the tokens say.
Written ==
  errcode = 0 =>
    /\ \A j \in 1 .. (at - 1) : WellPlaced(j)
    /\ InstructionsWritten /\ LabelsWritten /\ DeclarationsWritten

IInv == TypeInv /\ NodesApart /\ JumpsInside /\ Order /\ Written
-----------------------------------------------------------------------------
(* The types and the capacities.                                           *)

LEMMA TypeFacts ==
  ASSUME TypeInv
  PROVE  /\ Len(src) \in Nat /\ at \in Nat \ {0} /\ region \in Nat /\ size \in Nat
         /\ arena \in Seq(Cell) /\ Len(arena) \in Nat /\ Len(arena) <= MaxArena
         /\ Len(instructions) \in Nat /\ Len(labels) \in Nat /\ Len(declarations) \in Nat
         /\ MaxArena \in Nat /\ resolved \in Nat /\ resolved <= Len(instructions)
         /\ instructions \in Seq(Nat)
         /\ labels \in Seq([name : Nat, location : Nat])
         /\ declarations \in Seq([name : Nat, bytes : Nat])
<1>1. Len(src) \in Nat
  BY TextIsRead, TextLen DEF TextRead
<1> QED
  BY <1>1, ArenaAssumption DEF TypeInv, TypeOK

LEMMA Advanced ==
  ASSUME TypeInv, Advance(Call)
  PROVE  /\ src' = src /\ resolved' = resolved /\ at' = Call.next
         /\ at' \in 1 .. (Len(src) + 1) /\ section' \in Sections
         /\ Call.start \in at .. (Len(src) + 1) /\ Call.start \in Nat
<1>1. TextRead
  BY TextIsRead
<1>2. /\ Call.state \in Sections /\ Call.start \in at .. (Len(src) + 1)
      /\ Call.next \in Call.start .. (Len(src) + 1)
  BY <1>1, CallInText DEF TextRead, Call
<1>3. src' = src /\ resolved' = resolved /\ at' = Call.next /\ section' = Call.state
  BY DEF Advance
<1> QED
  BY <1>2, <1>3, TypeFacts, SMTT(30)

LEMMA GrownCovers ==
  ASSUME caps \in [Arrays -> Nat \ {0}], NEW array \in Arrays, NEW len \in Nat,
         len <= caps[array]
  PROVE  /\ Grown(array, len) \in [Arrays -> Nat \ {0}]
         /\ len + 1 <= Grown(array, len)[array]
         /\ \A a \in Arrays \ {array} : Grown(array, len)[a] = caps[a]
<1>1. caps[array] \in Nat \ {0}
  OBVIOUS
<1>2. CASE len >= caps[array]
  <2>1. Grown(array, len) = [caps EXCEPT ![array] = 2 * caps[array]]
    BY <1>2 DEF Grown
  <2>2. 2 * caps[array] \in Nat \ {0} /\ len + 1 <= 2 * caps[array]
    BY <1>1, <1>2
  <2> QED
    BY <2>1, <2>2
<1>3. CASE ~(len >= caps[array])
  <2>1. Grown(array, len) = caps
    BY <1>3 DEF Grown
  <2> QED
    BY <1>1, <1>3, <2>1
<1> QED
  BY <1>2, <1>3

\* What a turn of the first loop that has read a node or an error does to
\* the arena and the tokens, whatever it does to the tables.
LEMMA ArenaTypes ==
  ASSUME TypeInv, Call.outcome # "panic", NEW base \in Regions, Allocate(Call, base),
         Advance(Call)
  PROVE  /\ src' \in Sources
         /\ at' \in 1 .. (Len(src') + 1) /\ section' \in Sections
         /\ region' \in Regions
         /\ arena' \in Seq(Cell) /\ Len(arena') <= size' /\ size' \in ArenaSize .. MaxArena
BY Advanced, AllocateStep DEF TypeInv

LEMMA AddInstructionTypes ==
  ASSUME TypeInv, AddInstruction(Call), phase = "parsing"
  PROVE  TypeInv'
<1>1. Call.outcome = "node" /\ Advance(Call)
  BY DEF AddInstruction
<1>2. PICK base \in Regions :
        Allocate(Call, base) /\ instructions' = Append(instructions, NodeAddr(base) - base)
  BY DEF AddInstruction
<1>3. NodeAddr(base) - base = Len(arena) /\ Len(arena) \in Nat
  BY TypeFacts, ArenaAssumption DEF NodeAddr
<1>4. /\ instructions' \in Seq(Nat) /\ Len(instructions') = Len(instructions) + 1
  BY <1>2, <1>3, AppendProperties DEF TypeInv, TypeOK
<1>5. /\ caps' \in [Arrays -> Nat \ {0}] /\ Len(instructions) + 1 <= caps'["instructions"]
      /\ caps'["labels"] = caps["labels"] /\ caps'["declarations"] = caps["declarations"]
  <2>1. caps' = Grown("instructions", Len(instructions))
    BY DEF AddInstruction
  <2>2. /\ caps \in [Arrays -> Nat \ {0}] /\ Len(instructions) \in Nat
        /\ Len(instructions) <= caps["instructions"]
    BY TypeFacts DEF TypeInv, TypeOK, CapacityCovers
  <2> QED
    BY <2>1, <2>2, GrownCovers DEF Arrays
<1>6. labels' = labels /\ declarations' = declarations /\ errcode' = errcode /\ phase' = phase
  BY DEF AddInstruction
<1>7. CapacityCovers'
  BY <1>4, <1>5, <1>6 DEF CapacityCovers, TypeInv
<1>8. \A k \in 1 .. Len(labels') : labels'[k].location <= Len(instructions')
  <2> SUFFICES ASSUME NEW k \in 1 .. Len(labels)
               PROVE  labels[k].location <= Len(instructions')
    BY <1>6
  <2>0. labels[k] \in [name : Nat, location : Nat]
    BY TypeFacts, ElementOfSeq
  <2>1. labels[k].location <= Len(instructions) /\ labels[k].location \in Nat
    BY <2>0 DEF TypeInv, TypeOK
  <2>2. Len(instructions) \in Nat /\ Len(instructions') = Len(instructions) + 1
    BY <1>4, TypeFacts
  <2> QED
    BY <2>1, <2>2
<1>9. resolved' \in 0 .. Len(instructions')
  <2>1. resolved' = resolved
    BY <1>1 DEF Advance
  <2>2. resolved \in Nat /\ resolved <= Len(instructions) /\ Len(instructions) \in Nat
    BY TypeFacts
  <2> QED
    BY <1>4, <2>1, <2>2
<1> QED
  BY <1>1, <1>2, <1>4, <1>5, <1>6, <1>7, <1>8, <1>9, ArenaTypes DEF TypeInv, TypeOK

LEMMA AddLabelTypes ==
  ASSUME TypeInv, AddLabel(Call), phase = "parsing"
  PROVE  TypeInv'
<1>1. Call.outcome = "node" /\ Advance(Call)
  BY DEF AddLabel
<1> DEFINE label(base) == [name |-> NameAddr(base), location |-> Len(instructions)]
<1>2. PICK base \in Regions : Allocate(Call, base) /\ labels' = Append(labels, label(base))
  BY DEF AddLabel
<1>3. label(base) \in [name : Nat, location : Nat] /\ label(base).location = Len(instructions)
  BY TypeFacts, ArenaAssumption DEF NodeAddr, NameAddr
<1> HIDE DEF label
<1>4. /\ labels' \in Seq([name : Nat, location : Nat]) /\ Len(labels') = Len(labels) + 1
      /\ \A k \in 1 .. Len(labels) : labels'[k] = labels[k]
      /\ labels'[Len(labels) + 1] = label(base)
  BY <1>2, <1>3, AppendProperties DEF TypeInv, TypeOK
<1>5. /\ caps' \in [Arrays -> Nat \ {0}] /\ Len(labels) + 1 <= caps'["labels"]
      /\ caps'["instructions"] = caps["instructions"]
      /\ caps'["declarations"] = caps["declarations"]
  <2>1. caps' = Grown("labels", Len(labels))
    BY DEF AddLabel
  <2>2. caps \in [Arrays -> Nat \ {0}] /\ Len(labels) \in Nat /\ Len(labels) <= caps["labels"]
    BY TypeFacts DEF TypeInv, TypeOK, CapacityCovers
  <2> QED
    BY <2>1, <2>2, GrownCovers DEF Arrays
<1>6. /\ instructions' = instructions /\ declarations' = declarations
      /\ errcode' = errcode /\ phase' = phase
  BY DEF AddLabel
<1>7. CapacityCovers'
  BY <1>4, <1>5, <1>6 DEF CapacityCovers, TypeInv
<1>8. \A k \in 1 .. Len(labels') : labels'[k].location <= Len(instructions')
  <2> SUFFICES ASSUME NEW k \in 1 .. Len(labels')
               PROVE  labels'[k].location <= Len(instructions)
    BY <1>6
  <2>1. CASE k \in 1 .. Len(labels)
    BY <1>4, <2>1 DEF TypeInv, TypeOK
  <2>2. CASE k = Len(labels) + 1
    BY <1>3, <1>4, <2>2, TypeFacts
  <2> QED
    BY <1>4, <2>1, <2>2, TypeFacts
<1>9. resolved' \in 0 .. Len(instructions')
  BY <1>1, <1>6, Advanced DEF TypeInv, TypeOK
<1> QED
  BY <1>1, <1>2, <1>4, <1>5, <1>6, <1>7, <1>8, <1>9, ArenaTypes DEF TypeInv, TypeOK

LEMMA AddDeclarationTypes ==
  ASSUME TypeInv, AddDeclaration(Call), phase = "parsing"
  PROVE  TypeInv'
<1>1. Call.outcome = "node" /\ Advance(Call)
  BY DEF AddDeclaration
<1> DEFINE declaration(base, bytes) == [name |-> NameAddr(base), bytes |-> bytes]
<1>2. PICK base \in Regions, bytes \in Bytes(Call) :
        Allocate(Call, base) /\ declarations' = Append(declarations, declaration(base, bytes))
  BY DEF AddDeclaration
<1>3. declaration(base, bytes) \in [name : Nat, bytes : Nat]
  <2>1. bytes \in Nat
    BY <1>1, Advanced, TypeFacts DEF Bytes
  <2> QED
    BY <2>1, TypeFacts, ArenaAssumption DEF NodeAddr, NameAddr
<1> HIDE DEF declaration
<1>4. /\ declarations' \in Seq([name : Nat, bytes : Nat])
      /\ Len(declarations') = Len(declarations) + 1
  BY <1>2, <1>3, AppendProperties DEF TypeInv, TypeOK
<1>5. /\ caps' \in [Arrays -> Nat \ {0}] /\ Len(declarations) + 1 <= caps'["declarations"]
      /\ caps'["instructions"] = caps["instructions"] /\ caps'["labels"] = caps["labels"]
  <2>1. caps' = Grown("declarations", Len(declarations))
    BY DEF AddDeclaration
  <2>2. /\ caps \in [Arrays -> Nat \ {0}] /\ Len(declarations) \in Nat
        /\ Len(declarations) <= caps["declarations"]
    BY TypeFacts DEF TypeInv, TypeOK, CapacityCovers
  <2> QED
    BY <2>1, <2>2, GrownCovers DEF Arrays
<1>6. instructions' = instructions /\ labels' = labels /\ errcode' = errcode /\ phase' = phase
  BY DEF AddDeclaration
<1>7. CapacityCovers'
  BY <1>4, <1>5, <1>6 DEF CapacityCovers, TypeInv
<1>8. resolved' \in 0 .. Len(instructions')
  BY <1>1, <1>6, Advanced DEF TypeInv, TypeOK
<1> QED
  BY <1>1, <1>2, <1>4, <1>5, <1>6, <1>7, <1>8, ArenaTypes DEF TypeInv, TypeOK

\* A turn that leaves the tables alone.
LEMMA OtherCallTypes ==
  ASSUME TypeInv, ReportError(Call) \/ EndOfFile(Call)
  PROVE  TypeInv'
<1>1. Call.outcome # "panic" /\ Advance(Call)
  BY DEF ReportError, EndOfFile
<1>2. PICK base \in Regions : Allocate(Call, base)
  BY DEF ReportError, EndOfFile
<1>3. /\ UNCHANGED tableVars /\ errcode' \in {0, -1}
      /\ phase' \in {"parsing", "resolving", "executing", "rejected", "panic", "abort", "assert",
                     "stale"}
  BY DEF ReportError, EndOfFile, Verdict, TypeInv, TypeOK
<1> QED
  BY <1>1, <1>2, <1>3, ArenaTypes, Advanced DEF tableVars, TypeInv, TypeOK, CapacityCovers

LEMMA StopTypes ==
  ASSUME TypeInv, NEW how \in {"executing", "panic", "abort", "assert", "stale"}, Stop(how)
  PROVE  TypeInv'
BY DEF Stop, parserVars, arenaVars, tableVars, TypeInv, TypeOK, CapacityCovers

LEMMA InstIsNode ==
  ASSUME TypeInv, NodesApart, resolved < Len(instructions)
  PROVE  /\ resolved + 1 \in 1 .. Len(instructions)
         /\ Off(resolved + 1) = instructions[resolved + 1]
         /\ Inst = NodeAt(resolved + 1) /\ Inst \in NodeCell
<1>1. /\ resolved + 1 \in 1 .. Len(instructions) /\ ~(resolved + 1 <= resolved)
      /\ region \in Nat /\ instructions[resolved + 1] \in Nat
  <2>1. resolved + 1 \in 1 .. Len(instructions) /\ ~(resolved + 1 <= resolved) /\ region \in Nat
    BY TypeFacts
  <2> QED
    BY <2>1, TypeFacts, ElementOfSeq
<1>2. Off(resolved + 1) = instructions[resolved + 1]
  BY <1>1 DEF Off
<1>3. InstAddr - region + 1 = instructions[resolved + 1] + 1
  BY <1>1 DEF InstAddr
<1>4. Inst = NodeAt(resolved + 1)
  BY <1>2, <1>3 DEF Inst, CellAt, NodeAt
<1> QED
  BY <1>1, <1>2, <1>4 DEF NodesApart

\* Patch replaces the offset by an address and one node by its like: every
\* instruction keeps its place, and every text its name.
LEMMA Patched ==
  ASSUME TypeInv, NodesApart, resolved < Len(instructions), NEW cell \in NodeCell, Patch(cell)
  PROVE  /\ TypeInv' /\ NodesApart'
         /\ resolved' = resolved + 1 /\ Len(instructions') = Len(instructions)
         /\ \A k \in 1 .. Len(instructions) :
              NodeAt(k)' = IF k = resolved + 1 THEN cell ELSE NodeAt(k)
         /\ \A addr, text : Names(addr, text) => Names(addr, text)'
<1> DEFINE place == resolved + 1
           index == instructions[place] + 1
<1>0. /\ place \in 1 .. Len(instructions) /\ Off(place) = instructions[place]
      /\ Len(instructions) \in Nat /\ resolved \in Nat /\ region \in Nat
      /\ instructions \in Seq(Nat) /\ arena \in Seq(Cell) /\ Len(arena) \in Nat
      /\ index \in 1 .. Len(arena) /\ instructions[place] \in Nat
  <2>1. Off(place) \in 0 .. (Len(arena) - 1)
    BY InstIsNode DEF NodesApart
  <2>2. place \in 1 .. Len(instructions) /\ Off(place) = instructions[place]
    BY InstIsNode
  <2>3. instructions[place] \in Nat
    BY <2>2, TypeFacts, ElementOfSeq
  <2> HIDE DEF place
  <2>4. instructions[place] + 1 \in 1 .. Len(arena)
    BY <2>1, <2>2, <2>3, TypeFacts, SMTT(30)
  <2> QED
    BY <2>2, <2>3, <2>4, TypeFacts
<1>1. /\ arena' = [arena EXCEPT ![index] = cell]
      /\ instructions' = [instructions EXCEPT ![place] = region + instructions[place]]
      /\ resolved' = place
      /\ UNCHANGED <<src, at, section, region, size, labels, declarations, caps, errcode, phase>>
  BY DEF Patch, InstAddr, parserVars
<1> HIDE DEF index, place
<1>2. /\ arena' \in Seq(Cell) /\ Len(arena') = Len(arena) /\ arena'[index] = cell
      /\ \A i \in 1 .. Len(arena) : i # index => arena'[i] = arena[i]
  <2>1. cell \in Cell
    BY DEF NodeCell, Cell
  <2> QED
    BY <1>0, <1>1, <2>1, ExceptSeq
<1>3. /\ instructions' \in Seq(Nat) /\ Len(instructions') = Len(instructions)
      /\ instructions'[place] = region + instructions[place]
      /\ \A k \in 1 .. Len(instructions) : k # place => instructions'[k] = instructions[k]
  <2>1. region + instructions[place] \in Nat
    BY <1>0
  <2> QED
    BY <1>0, <1>1, <2>1, ExceptSeq
<1>4. ASSUME NEW k \in 1 .. Len(instructions)
      PROVE  Off(k)' = Off(k)
  <2>1. CASE k = place
    BY <1>0, <1>1, <1>3, <2>1 DEF Off, place
  <2>2. CASE k # place
    <3>1. k <= resolved' <=> k <= resolved
      BY <1>0, <1>1, <2>2 DEF place
    <3> QED
      BY <1>1, <1>3, <2>2, <3>1 DEF Off
  <2> QED
    BY <2>1, <2>2
<1>5. ASSUME NEW k \in 1 .. Len(instructions)
      PROVE  NodeAt(k)' = IF k = resolved + 1 THEN cell ELSE NodeAt(k)
  <2>1. Off(k) \in 0 .. (Len(arena) - 1) /\ Off(place) \in 0 .. (Len(arena) - 1)
    BY <1>0 DEF NodesApart
  <2>2. NodeAt(k)' = arena'[Off(k) + 1]
    BY <1>4 DEF NodeAt
  <2>3. CASE k = place
    BY <1>0, <1>2, <2>2, <2>3 DEF place, index
  <2>4. CASE k # place
    <3>1. Off(k) < Off(place) \/ Off(place) < Off(k)
      BY <1>0, <2>4 DEF NodesApart
    <3>2. Off(k) + 1 # index /\ Off(k) + 1 \in 1 .. Len(arena)
      BY <1>0, <2>1, <3>1, SMTT(30) DEF index
    <3> QED
      BY <1>2, <2>2, <2>4, <3>2 DEF NodeAt, place
  <2> QED
    BY <2>3, <2>4
<1>6. NodesApart'
  <2>1. ASSUME NEW k \in 1 .. Len(instructions')
        PROVE  Off(k)' \in 0 .. (Len(arena') - 1) /\ NodeAt(k)' \in NodeCell
    <3>1. k \in 1 .. Len(instructions)
      BY <1>3
    <3>2. Off(k) \in 0 .. (Len(arena) - 1) /\ NodeAt(k) \in NodeCell
      BY <3>1 DEF NodesApart
    <3> QED
      BY <1>2, <1>4, <1>5, <3>1, <3>2
  <2>2. ASSUME NEW k \in 1 .. Len(instructions'), NEW l \in 1 .. Len(instructions'), k < l
        PROVE  Off(k)' < Off(l)'
    BY <1>3, <1>4, <2>2 DEF NodesApart
  <2> QED
    BY <2>1, <2>2 DEF NodesApart
<1>7. TypeInv'
  <2>1. resolved' \in 0 .. Len(instructions')
    BY <1>0, <1>1, <1>3 DEF place
  <2> QED
    BY <1>1, <1>2, <1>3, <2>1 DEF TypeInv, TypeOK, CapacityCovers
<1>8. ASSUME NEW addr, NEW text, Names(addr, text)
      PROVE  Names(addr, text)'
  <2>1. PICK r \in Regions, i \in 1 .. Len(arena) :
          addr + 1 = r + i /\ arena[i] = [cell |-> "string", text |-> text]
    BY <1>8 DEF Names
  <2>2. arena[index] \in NodeCell
    <3>1. NodeAt(place) \in NodeCell
      BY <1>0 DEF NodesApart
    <3> QED
      BY <1>0, <3>1 DEF NodeAt, index
  <2>3. i # index
    BY <2>1, <2>2 DEF NodeCell
  <2>4. i \in 1 .. Len(arena') /\ arena'[i] = [cell |-> "string", text |-> text]
    BY <1>2, <2>1, <2>3
  <2> QED
    BY <2>1, <2>4 DEF Names
<1> QED
  BY <1>1, <1>3, <1>5, <1>6, <1>7, <1>8 DEF place
-----------------------------------------------------------------------------
(* Names: what a search through a table finds.                             *)

\* An address outside the present region is not taken for one inside it, so
\* a pointer that may be followed points at the text it was taken of.
LEMMA LiveNames ==
  ASSUME TypeInv, NEW addr \in Nat, NEW text, Names(addr, text), Live(addr)
  PROVE  CellAt(addr) = [cell |-> "string", text |-> text]
<1>1. PICK r \in Regions, i \in 1 .. Len(arena) :
        addr + 1 = r + i /\ arena[i] = [cell |-> "string", text |-> text]
  BY DEF Names
<1>2. /\ r \in Nat /\ region \in Nat /\ region \in Regions /\ MaxArena \in Nat /\ i \in Nat
      /\ Len(arena) \in Nat /\ Len(arena) <= MaxArena
  BY <1>1, TypeFacts, ArenaAssumption DEF TypeInv, TypeOK
<1>3. addr - region \in 0 .. (Len(arena) - 1)
  BY DEF Live
<1>4. ~(r < region) /\ ~(region < r)
  <2>1. (r < region => r + MaxArena < region) /\ (region < r => region + MaxArena < r)
    BY <1>2, ArenaAssumption
  <2> QED
    BY <1>1, <1>2, <1>3, <2>1
<1>5. addr - region + 1 = i
  BY <1>1, <1>2, <1>4
<1> QED
  BY <1>1, <1>5 DEF CellAt

\* Every mark read so far has its entry.
LEMMA TableEntry ==
  ASSUME TypeInv, NEW table, NEW marks \in SUBSET (1 .. Len(src)), Tabled(table, marks),
         NEW i \in marks, i < at
  PROVE  /\ Count(marks, i) + 1 \in 1 .. Len(table)
         /\ Names(table[Count(marks, i) + 1].name, src[i].data)
<1>1. i \in Nat \ {0} /\ at \in Nat /\ Len(src) \in Nat
  BY TypeFacts
<1>2. Count(marks, i) \in Nat /\ Count(marks, at) \in Nat /\ Len(table) = Count(marks, at)
  BY <1>1, CountType DEF Tabled
<1>3. Count(marks, i) + 1 <= Count(marks, at)
  BY <1>1, CountStrict
<1>4. Count(marks, i) + 1 \in 1 .. Len(table)
  BY <1>2, <1>3
<1>5. PICK j \in marks :
        Count(marks, j) + 1 = Count(marks, i) + 1
        /\ Names(table[Count(marks, i) + 1].name, src[j].data)
  BY <1>4 DEF Tabled
<1>6. j \in Nat \ {0} /\ Count(marks, j) \in Nat
  BY <1>1, <1>5, CountType
<1>7. Count(marks, j) = Count(marks, i)
  BY <1>2, <1>5, <1>6
<1>8. i = j
  BY <1>1, <1>6, <1>7, CountInjective
<1> QED
  BY <1>4, <1>5, <1>8

\* The entry a search stops at is that of the first mark of the name.
LEMMA FirstHit ==
  ASSUME TypeInv, NodesApart, resolved < Len(instructions),
         NEW table, NEW marks \in SUBSET (1 .. Len(src)), Tabled(table, marks),
         \A k \in 1 .. Len(table) : table[k].name \in Nat,
         ~Dangling(table), NEW hit \in Hits(table), NEW text, Names(Inst.name, text)
  PROVE  \E j \in marks :
           /\ j < at /\ hit = Count(marks, j) + 1 /\ src[j].data = text
           /\ \A i \in marks : i < at /\ src[i].data = text => j <= i
<1>1. /\ hit \in 1 .. Len(table) /\ Named(table, hit)
      /\ \A i \in 1 .. (hit - 1) : ~Named(table, i)
  BY DEF Hits, Compared
<1>2. /\ Len(src) \in Nat /\ at \in Nat /\ Inst.name \in Nat
      /\ Len(table) = Count(marks, at) /\ Len(table) \in Nat
  <2>1. Inst \in NodeCell
    BY InstIsNode
  <2> QED
    BY <2>1, TypeFacts, CountType DEF Tabled, NodeCell
<1>3. CellAt(Inst.name).text = text /\ Live(Inst.name)
  <2>1. Live(Inst.name)
    BY <1>1 DEF Named
  <2> QED
    BY <1>2, <2>1, LiveNames
<1>4. PICK j \in marks : /\ j < at /\ Count(marks, j) + 1 = hit
                         /\ Names(table[hit].name, src[j].data)
  BY <1>1 DEF Tabled
<1>5. src[j].data = text
  <2>1. Live(table[hit].name) /\ CellAt(table[hit].name).text = CellAt(Inst.name).text
    BY <1>1 DEF Named
  <2>2. CellAt(table[hit].name) = [cell |-> "string", text |-> src[j].data]
    BY <1>1, <1>4, <2>1, LiveNames
  <2> QED
    BY <1>3, <2>1, <2>2
<1>6. ASSUME NEW i \in marks, i < at, src[i].data = text
      PROVE  j <= i
  <2> SUFFICES ASSUME i < j
               PROVE  FALSE
    BY <1>2
  <2> DEFINE k == Count(marks, i) + 1
  <2>1. k \in 1 .. Len(table) /\ Names(table[k].name, text)
    BY <1>6, TableEntry
  <2>2. k < hit
    <3>1. i \in Nat \ {0} /\ j \in Nat \ {0}
      BY <1>2
    <3>2. Count(marks, i) + 1 <= Count(marks, j) /\ Count(marks, i) \in Nat /\ Count(marks, j) \in Nat
      BY <3>1, CountStrict, CountType
    <3> QED
      BY <1>4, <3>2
  <2> HIDE DEF k
  <2>3. ~Named(table, k) /\ k \in Compared(table)
    <3>1. \A l \in 1 .. (k - 1) : l \in 1 .. (hit - 1)
      BY <1>1, <1>2, <2>1, <2>2
    <3>2. k \in 1 .. (hit - 1)
      BY <1>1, <1>2, <2>1, <2>2
    <3> QED
      BY <1>1, <2>1, <3>1, <3>2 DEF Compared
  <2>4. Live(table[k].name)
    <3>1. Len(table) > 0
      BY <1>2, <2>1
    <3> QED
      BY <2>3, <3>1 DEF Dangling
  <2>5. CellAt(table[k].name) = [cell |-> "string", text |-> text]
    BY <2>1, <2>4, LiveNames
  <2> QED
    BY <1>3, <2>3, <2>4, <2>5 DEF Named
<1> QED
  BY <1>4, <1>5, <1>6
-----------------------------------------------------------------------------
(* The second loop keeps the invariant.                                    *)

LEMMA MarkSets ==
  ASSUME TypeInv
  PROVE  /\ OpMarks \in SUBSET (1 .. Len(src)) /\ LabelMarks \in SUBSET (1 .. Len(src))
         /\ DataMarks \in SUBSET (1 .. Len(src))
         /\ \A j \in 1 .. (Len(src) + 1) : OpsBefore(j) = Count(OpMarks, j)
<1>1. ASSUME NEW j \in 1 .. (Len(src) + 1)
      PROVE  {k \in 1 .. (j - 1) : IsOp(k)} = Above(OpMarks, j)
  BY TypeFacts DEF Above, OpMarks
<1> QED
  BY <1>1 DEF OpMarks, LabelMarks, DataMarks, OpsBefore, Count

\* What is linked depends on the tokens only.
LEMMA LinkedStays ==
  ASSUME src' = src, at' = at, NEW node, NEW j
  PROVE  Linked(node, j)' <=> Linked(node, j)
<1>1. \A name : Labels(name)' = Labels(name) /\ Declarations(name)' = Declarations(name)
  BY DEF Labels, Declarations, Read
<1>2. \A i : OpsBefore(i)' = OpsBefore(i)
  BY DEF OpsBefore, IsOp, StartsLine
<1>3. \A name : LabelPlace(name)' = LabelPlace(name) /\ DeclaredAt(name)' = DeclaredAt(name)
  BY <1>1, <1>2 DEF LabelPlace, DeclaredAt
<1>4. \A i : ReservedAt(i)' = ReservedAt(i)
  BY DEF ReservedAt
<1> QED
  BY <1>1, <1>2, <1>3, <1>4 DEF Linked

\* The names of a jump and of the mark it is linked to agree.
LEMMA JumpLinked ==
  ASSUME IInv, errcode = 0, resolved < Len(instructions), ~Dangling(labels),
         NEW hit \in Hits(labels), NEW j \in OpMarks, j < at, Count(OpMarks, j) = resolved,
         Inst.op.kind \in JumpKinds
  PROVE  Linked([Inst EXCEPT !.offset = Distance(labels[hit].location)], j)
<1> DEFINE name == Token(src, j + 1).data
           cell == [Inst EXCEPT !.offset = Distance(labels[hit].location)]
<1>0. TypeInv /\ NodesApart /\ InstructionsWritten /\ LabelsWritten
  BY DEF IInv, Written
<1>1. /\ Inst = NodeAt(resolved + 1) /\ Inst \in NodeCell /\ j \in Nat \ {0}
      /\ j \in 1 .. Len(src) /\ Len(src) \in Nat /\ resolved \in Nat /\ at \in Nat
      /\ at <= Len(src) + 1
  BY <1>0, InstIsNode, TypeFacts, SMTT(30) DEF OpMarks, TypeInv, TypeOK
<1>2. Inst.op = src[j].data /\ Names(Inst.name, name)
  BY <1>0, <1>1 DEF InstructionsWritten
<1>3. \A k \in 1 .. Len(labels) : labels[k].name \in Nat /\ labels[k].location \in Nat
  <2> SUFFICES ASSUME NEW k \in 1 .. Len(labels)
               PROVE  labels[k].name \in Nat /\ labels[k].location \in Nat
    OBVIOUS
  <2>1. labels[k] \in [name : Nat, location : Nat]
    BY <1>0, TypeFacts, ElementOfSeq
  <2> QED
    BY <2>1
<1>4. PICK m \in LabelMarks :
        /\ m < at /\ hit = Count(LabelMarks, m) + 1 /\ src[m].data = name
        /\ \A i \in LabelMarks : i < at /\ src[i].data = name => m <= i
  <2>1. /\ LabelMarks \in SUBSET (1 .. Len(src)) /\ Tabled(labels, LabelMarks)
        /\ \A k \in 1 .. Len(labels) : labels[k].name \in Nat
    BY <1>0, <1>3, MarkSets DEF LabelsWritten
  <2> HIDE DEF name
  <2> QED
    BY <1>0, <1>2, <2>1, FirstHit
<1>5. Labels(name) = {i \in LabelMarks : i < at /\ src[i].data = name}
  <2>1. \A i \in 1 .. Len(src) :
          src[i] = Tok("LABEL", name) <=> src[i].tok = "LABEL" /\ src[i].data = name
    <3>1. \A i \in 1 .. Len(src) : src[i] = Tok(src[i].tok, src[i].data)
      BY <1>0, TextIsRead DEF TextRead, Text, WellFormedToken
    <3> QED
      BY <3>1 DEF Tok
  <2>2. \A i : i \in Read <=> i \in 1 .. Len(src) /\ i < at
    BY <1>1 DEF Read
  <2> HIDE DEF name
  <2> QED
    BY <2>1, <2>2 DEF Labels, LabelMarks
<1>6. LabelPlace(name) = Count(OpMarks, m) /\ Labels(name) # {}
  <2> DEFINE S == Labels(name)
  <2>1. m \in S /\ S \in SUBSET Nat /\ \A i \in S : m <= i
    BY <1>0, <1>4, <1>5, MarkSets
  <2> HIDE DEF S
  <2>2. Min(S) = m
    BY <2>1, MinIs
  <2>4. m \in 1 .. (Len(src) + 1)
    BY <1>0, <1>1, <1>4, MarkSets
  <2> QED
    BY <1>0, <2>1, <2>2, <2>4, MarkSets DEF LabelPlace, S
<1>7. labels[hit].location = Count(OpMarks, m) /\ labels[hit].location \in Nat
  <2>1. hit \in 1 .. Len(labels)
    BY DEF Hits, Compared
  <2> QED
    BY <1>0, <1>3, <1>4, <2>1 DEF LabelsWritten
<1>8. cell.op = Inst.op /\ cell.offset = labels[hit].location - resolved - 1
  BY <1>1 DEF NodeCell, Distance
<1>9. OpsBefore(j) + 1 + cell.offset = LabelPlace(name)
  <2>1. OpsBefore(j) = resolved
    BY <1>0, <1>1, MarkSets
  <2> QED
    BY <1>1, <1>6, <1>7, <1>8, <2>1
<1>10. ~(cell.op.kind = "ppush")
  BY <1>8 DEF JumpKinds
<1> QED
  BY <1>2, <1>6, <1>8, <1>9, <1>10 DEF Linked

\* And those of a ppush and of the block it gets the address of.
LEMMA PpushLinked ==
  ASSUME IInv, errcode = 0, resolved < Len(instructions), ~Dangling(declarations),
         NEW hit \in Hits(declarations), NEW j \in OpMarks, j < at,
         Count(OpMarks, j) = resolved, Inst.op.kind = "ppush"
  PROVE  Linked([Inst EXCEPT !.lit = declarations[hit].bytes], j)
<1> DEFINE name == Token(src, j + 1).data
           cell == [Inst EXCEPT !.lit = declarations[hit].bytes]
<1>0. TypeInv /\ NodesApart /\ InstructionsWritten /\ DeclarationsWritten
  BY DEF IInv, Written
<1>1. /\ Inst = NodeAt(resolved + 1) /\ Inst \in NodeCell /\ j \in Nat \ {0}
      /\ j \in 1 .. Len(src) /\ Len(src) \in Nat /\ resolved \in Nat /\ at \in Nat
      /\ at <= Len(src) + 1
  BY <1>0, InstIsNode, TypeFacts, SMTT(30) DEF OpMarks, TypeInv, TypeOK
<1>2. Inst.op = src[j].data /\ Names(Inst.name, name)
  BY <1>0, <1>1 DEF InstructionsWritten
<1>3. \A k \in 1 .. Len(declarations) : declarations[k].name \in Nat
  <2> SUFFICES ASSUME NEW k \in 1 .. Len(declarations)
               PROVE  declarations[k].name \in Nat
    OBVIOUS
  <2>1. declarations[k] \in [name : Nat, bytes : Nat]
    BY <1>0, TypeFacts, ElementOfSeq
  <2> QED
    BY <2>1
<1>4. PICK m \in DataMarks :
        /\ m < at /\ hit = Count(DataMarks, m) + 1 /\ src[m].data = name
        /\ \A i \in DataMarks : i < at /\ src[i].data = name => m <= i
  BY <1>0, <1>2, <1>3, MarkSets, FirstHit DEF DeclarationsWritten
<1>5. Declarations(name) = {i \in DataMarks : i < at /\ src[i].data = name}
  <2>1. \A i \in 1 .. Len(src) :
          src[i] = Tok("IDENT", name) <=> src[i].tok = "IDENT" /\ src[i].data = name
    <3>1. \A i \in 1 .. Len(src) : src[i] = Tok(src[i].tok, src[i].data)
      BY <1>0, TextIsRead DEF TextRead, Text, WellFormedToken
    <3> QED
      BY <3>1 DEF Tok
  <2>2. \A i : i \in Read <=> i \in 1 .. Len(src) /\ i < at
    BY <1>1 DEF Read
  <2> HIDE DEF name
  <2> QED
    BY <2>1, <2>2 DEF Declarations, DataMarks, Declares
<1>6. DeclaredAt(name) = m /\ Declarations(name) # {}
  <2> DEFINE S == Declarations(name)
  <2>1. m \in S /\ S \in SUBSET Nat /\ \A i \in S : m <= i
    BY <1>0, <1>4, <1>5, MarkSets
  <2> HIDE DEF S
  <2>2. Min(S) = m
    BY <2>1, MinIs
  <2> QED
    BY <2>1, <2>2 DEF DeclaredAt, S
<1>7. ReservedAt(m) => declarations[hit].bytes = m
  BY <1>0, <1>4 DEF DeclarationsWritten
<1>8. cell.op = Inst.op /\ cell.lit = declarations[hit].bytes
  BY <1>1 DEF NodeCell
<1>9. ~(cell.op.kind \in JumpKinds)
  BY <1>8 DEF JumpKinds
<1> QED
  BY <1>2, <1>6, <1>7, <1>8, <1>9 DEF Linked

LEMMA TabledStays ==
  ASSUME NEW table, NEW marks, src' = src, at' = at, Tabled(table, marks),
         \A addr, text : Names(addr, text) => Names(addr, text)'
  PROVE  Tabled(table, marks)'
<1>1. Len(table) = Count(marks, at')
  BY DEF Tabled
<1>2. ASSUME NEW k \in 1 .. Len(table)
      PROVE  \E j \in marks : j < at' /\ Count(marks, j) + 1 = k /\ Names(table[k].name, src[j].data)'
  <2>1. PICK j \in marks :
          j < at /\ Count(marks, j) + 1 = k /\ Names(table[k].name, src[j].data)
    BY DEF Tabled
  <2> QED
    BY <2>1
<1> QED
  BY <1>1, <1>2 DEF Tabled

LEMMA PatchKeeps ==
  ASSUME IInv, phase = "resolving", resolved < Len(instructions),
         NEW cell \in NodeCell, Patch(cell), cell.op = Inst.op, cell.name = Inst.name,
         cell.op.kind \in JumpKinds => resolved + 1 + cell.offset \in 0 .. Len(instructions),
         \A j \in OpMarks : j < at /\ Count(OpMarks, j) = resolved => Linked(cell, j)
  PROVE  IInv'
<1>0. TypeInv /\ NodesApart /\ JumpsInside /\ Order /\ Written
  BY DEF IInv
<1>1. /\ TypeInv' /\ NodesApart'
      /\ resolved' = resolved + 1 /\ Len(instructions') = Len(instructions)
      /\ \A k \in 1 .. Len(instructions) :
           NodeAt(k)' = IF k = resolved + 1 THEN cell ELSE NodeAt(k)
      /\ \A addr, text : Names(addr, text) => Names(addr, text)'
  BY <1>0, Patched
<1>2. UNCHANGED <<src, at, labels, declarations, errcode, phase>>
  BY DEF Patch, parserVars
<1>3. /\ Inst = NodeAt(resolved + 1) /\ resolved \in Nat /\ resolved + 1 \in 1 .. Len(instructions)
      /\ Len(src) \in Nat /\ at \in Nat /\ Len(instructions) \in Nat
  BY <1>0, InstIsNode, TypeFacts
<1>4. JumpsInside'
  <2> SUFFICES ASSUME NEW k \in 1 .. resolved', NodeAt(k)'.op.kind \in JumpKinds
               PROVE  k + NodeAt(k)'.offset \in 0 .. Len(instructions')
    BY DEF JumpsInside
  <2>1. CASE k = resolved + 1
    BY <1>1, <1>3, <2>1
  <2>2. CASE k # resolved + 1
    <3>1. k \in 1 .. resolved /\ k \in 1 .. Len(instructions)
      BY <1>1, <1>3, <2>2
    <3>2. NodeAt(k)' = NodeAt(k)
      BY <1>1, <2>2, <3>1
    <3> QED
      BY <1>0, <1>1, <3>1, <3>2 DEF JumpsInside
  <2> QED
    BY <2>1, <2>2
<1>5. Order'
  BY <1>0, <1>2 DEF Order
<1>6. Written'
  <2> SUFFICES ASSUME errcode = 0
               PROVE  /\ \A j \in 1 .. (at' - 1) : WellPlaced(j)'
                      /\ InstructionsWritten' /\ LabelsWritten' /\ DeclarationsWritten'
    BY <1>2 DEF Written
  <2>0. /\ \A j \in 1 .. (at - 1) : WellPlaced(j)
        /\ InstructionsWritten /\ LabelsWritten /\ DeclarationsWritten
    BY <1>0 DEF Written
  <2>1. OpMarks' = OpMarks /\ LabelMarks' = LabelMarks /\ DataMarks' = DataMarks
    BY <1>2 DEF OpMarks, LabelMarks, DataMarks, IsOp, StartsLine
  <2>2. ASSUME NEW j \in OpMarks, j < at, NEW k, k = Count(OpMarks, j) + 1
        PROVE  /\ Mismatches(src, j, Operands(src[j].data)) = {}
               /\ NodeAt(k)'.op = src[j].data
               /\ src[j].data.kind \in JumpKinds \cup {"ppush"} =>
                    Names(NodeAt(k).name, Token(src, j + 1).data)'
               /\ k <= resolved' => Linked(NodeAt(k), j)'
    <3>1. /\ Mismatches(src, j, Operands(src[j].data)) = {} /\ NodeAt(k).op = src[j].data
          /\ src[j].data.kind \in JumpKinds \cup {"ppush"} =>
               Names(NodeAt(k).name, Token(src, j + 1).data)
          /\ k <= resolved => Linked(NodeAt(k), j)
      BY <2>0, <2>2 DEF InstructionsWritten
    <3>2. k \in 1 .. Len(instructions) /\ k \in Nat /\ Count(OpMarks, j) = k - 1
      <4>1. j \in Nat \ {0}
        BY <1>0, MarkSets
      <4>2. Count(OpMarks, j) \in Nat /\ Count(OpMarks, at) \in Nat
        BY <1>3, <4>1, CountType
      <4>3. Count(OpMarks, j) + 1 <= Count(OpMarks, at)
        BY <1>3, <2>2, <4>1, CountStrict
      <4>4. Len(instructions) = Count(OpMarks, at)
        BY <2>0 DEF InstructionsWritten
      <4> QED
        BY <2>2, <4>2, <4>3, <4>4
    <3>3. CASE k = resolved + 1
      <4>1. NodeAt(k)' = cell /\ cell.op = NodeAt(k).op /\ cell.name = NodeAt(k).name
        BY <1>1, <1>3, <3>2, <3>3
      <4>2. Count(OpMarks, j) = resolved
        BY <1>3, <3>2, <3>3
      <4>3. Linked(cell, j)'
        BY <1>2, <2>2, <4>2, LinkedStays
      <4>4. src[j].data.kind \in JumpKinds \cup {"ppush"} =>
              Names(cell.name, Token(src, j + 1).data)'
        <5>1. Token(src, j + 1)' = Token(src, j + 1)
          BY <1>2
        <5> QED
          BY <1>1, <3>1, <4>1, <5>1
      <4> QED
        BY <1>2, <3>1, <4>1, <4>3, <4>4
    <3>4. CASE k # resolved + 1
      <4>1. NodeAt(k)' = NodeAt(k)
        BY <1>1, <3>2, <3>4
      <4>2. k <= resolved' => k <= resolved
        BY <1>1, <1>3, <3>2, <3>4
      <4>3. k <= resolved => Linked(NodeAt(k), j)'
        BY <1>2, <3>1, <4>1, LinkedStays
      <4>4. src[j].data.kind \in JumpKinds \cup {"ppush"} =>
              Names(NodeAt(k).name, Token(src, j + 1).data)'
        <5>1. Token(src, j + 1)' = Token(src, j + 1)
          BY <1>2
        <5> QED
          BY <1>1, <3>1, <4>1, <5>1
      <4> QED
        BY <1>2, <3>1, <4>1, <4>2, <4>3, <4>4
    <3> QED
      BY <3>3, <3>4
  <2>3. InstructionsWritten'
    <3>1. Len(instructions') = Count(OpMarks', at')
      BY <1>1, <1>2, <2>0, <2>1 DEF InstructionsWritten
    <3> QED
      BY <1>2, <2>1, <2>2, <3>1 DEF InstructionsWritten
  <2>4. LabelsWritten'
    <3>1. Tabled(labels, LabelMarks)'
      BY <1>1, <1>2, <2>0, <2>1, TabledStays DEF LabelsWritten
    <3> QED
      BY <1>2, <2>0, <2>1, <3>1 DEF LabelsWritten
  <2>5. DeclarationsWritten'
    <3>1. Tabled(declarations, DataMarks)'
      BY <1>1, <1>2, <2>0, <2>1, TabledStays DEF DeclarationsWritten
    <3>2. \A j : ReservedAt(j)' <=> ReservedAt(j)
      BY <1>2 DEF ReservedAt
    <3> QED
      BY <1>2, <2>0, <2>1, <3>1, <3>2 DEF DeclarationsWritten
  <2> QED
    BY <1>2, <2>0, <2>3, <2>4, <2>5 DEF WellPlaced, IsOp
<1> QED
  BY <1>1, <1>4, <1>5, <1>6 DEF IInv

\* A step that only says where parse_src is.
LEMMA PhaseOnly ==
  ASSUME IInv, UNCHANGED <<src, parserVars, arenaVars, tableVars, errcode, resolved>>
  PROVE  NodesApart' /\ JumpsInside' /\ Written'
<1>0. TypeInv /\ NodesApart /\ JumpsInside /\ Order /\ Written
  BY DEF IInv
<1>1. UNCHANGED <<src, at, section, region, arena, size, instructions, labels, declarations, caps,
                  errcode, resolved>>
  BY DEF parserVars, arenaVars, tableVars
<1>2. \A k : Off(k)' = Off(k) /\ NodeAt(k)' = NodeAt(k)
  BY <1>1 DEF Off, NodeAt
<1>3. NodesApart' /\ JumpsInside'
  BY <1>0, <1>1, <1>2 DEF NodesApart, JumpsInside
<1>4. Written'
  <2>1. OpMarks' = OpMarks /\ LabelMarks' = LabelMarks /\ DataMarks' = DataMarks
    BY <1>1 DEF OpMarks, LabelMarks, DataMarks, IsOp, StartsLine
  <2>2. \A addr, text : Names(addr, text)' <=> Names(addr, text)
    BY <1>1 DEF Names
  <2>3. \A j : (ReservedAt(j)' <=> ReservedAt(j)) /\ Token(src, j)' = Token(src, j)
    BY <1>1 DEF ReservedAt
  <2>4. \A node, j : Linked(node, j)' <=> Linked(node, j)
    BY <1>1, LinkedStays
  <2>5. InstructionsWritten => InstructionsWritten'
    BY <1>1, <1>2, <2>1, <2>2, <2>3, <2>4 DEF InstructionsWritten
  <2>6. LabelsWritten => LabelsWritten'
    BY <1>1, <2>1, <2>2 DEF LabelsWritten, Tabled
  <2>7. DeclarationsWritten => DeclarationsWritten'
    BY <1>1, <2>1, <2>2, <2>3 DEF DeclarationsWritten, Tabled
  <2> QED
    BY <1>0, <1>1, <2>5, <2>6, <2>7 DEF Written, WellPlaced, IsOp
<1> QED
  BY <1>3, <1>4

LEMMA StopKeeps ==
  ASSUME IInv, NEW how \in {"executing", "panic", "abort", "assert", "stale"}, Stop(how),
         how = "executing" => phase = "resolving" /\ resolved = Len(instructions)
  PROVE  IInv'
<1>1. TypeInv'
  BY StopTypes DEF IInv
<1>2. phase' = how /\ UNCHANGED <<src, parserVars, arenaVars, tableVars, errcode, resolved>>
  BY DEF Stop
<1>3. NodesApart' /\ JumpsInside' /\ Written'
  BY <1>2, PhaseOnly
<1>4. Order'
  BY <1>2 DEF IInv, Order, parserVars, tableVars
<1> QED
  BY <1>1, <1>3, <1>4 DEF IInv

LEMMA ResolveJumpKeeps ==
  ASSUME IInv, ResolveJump
  PROVE  IInv'
<1>0. TypeInv /\ NodesApart /\ errcode = 0
  BY DEF IInv, Order, ResolveJump, Resolving
<1>1. /\ phase = "resolving" /\ resolved < Len(instructions) /\ Inst.op.kind \in JumpKinds
      /\ ~Dangling(labels)
  BY DEF ResolveJump, Resolving
<1>2. PICK hit \in Hits(labels) :
        Patch([Inst EXCEPT !.offset = Distance(labels[hit].location)])
  BY DEF ResolveJump
<1> DEFINE location == labels[hit].location
           cell == [Inst EXCEPT !.offset = Distance(labels[hit].location)]
<1>3. location \in Nat /\ location <= Len(instructions)
  <2>1. hit \in 1 .. Len(labels)
    BY DEF Hits, Compared
  <2>2. labels[hit] \in [name : Nat, location : Nat]
    BY <1>0, <2>1, TypeFacts, ElementOfSeq
  <2> QED
    BY <1>0, <2>1, <2>2 DEF TypeInv, TypeOK
<1>4. Inst \in NodeCell /\ resolved \in Nat /\ Len(instructions) \in Nat
  BY <1>0, <1>1, InstIsNode, TypeFacts
<1>5. Distance(location) \in Int /\ resolved + 1 + Distance(location) = location
  BY <1>3, <1>4 DEF Distance
<1> HIDE DEF location
<1>6. /\ cell \in NodeCell /\ cell.op = Inst.op /\ cell.name = Inst.name
      /\ cell.offset = Distance(location)
  BY <1>4, <1>5 DEF NodeCell, location
<1>7. resolved + 1 + cell.offset \in 0 .. Len(instructions)
  BY <1>3, <1>4, <1>5, <1>6
<1>8. \A j \in OpMarks : j < at /\ Count(OpMarks, j) = resolved => Linked(cell, j)
  BY <1>0, <1>1, JumpLinked
<1> HIDE DEF cell
<1> QED
  BY <1>1, <1>2, <1>6, <1>7, <1>8, PatchKeeps DEF cell

LEMMA ResolvePpushKeeps ==
  ASSUME IInv, ResolvePpush
  PROVE  IInv'
<1>0. TypeInv /\ NodesApart /\ errcode = 0
  BY DEF IInv, Order, ResolvePpush, Resolving
<1>1. /\ phase = "resolving" /\ resolved < Len(instructions) /\ Inst.op.kind = "ppush"
      /\ ~Dangling(declarations)
  BY DEF ResolvePpush, Resolving
<1>2. PICK hit \in Hits(declarations) : Patch([Inst EXCEPT !.lit = declarations[hit].bytes])
  BY DEF ResolvePpush
<1> DEFINE bytes == declarations[hit].bytes
           cell == [Inst EXCEPT !.lit = declarations[hit].bytes]
<1>3. bytes \in Nat
  <2>1. hit \in 1 .. Len(declarations)
    BY DEF Hits, Compared
  <2>2. declarations[hit] \in [name : Nat, bytes : Nat]
    BY <1>0, <2>1, TypeFacts, ElementOfSeq
  <2> QED
    BY <2>2
<1>4. Inst \in NodeCell
  BY <1>0, <1>1, InstIsNode
<1>5. cell \in NodeCell /\ cell.op = Inst.op /\ cell.name = Inst.name
  BY <1>3, <1>4 DEF NodeCell
<1>6. ~(cell.op.kind \in JumpKinds)
  BY <1>1, <1>5 DEF JumpKinds
<1>7. \A j \in OpMarks : j < at /\ Count(OpMarks, j) = resolved => Linked(cell, j)
  BY <1>0, <1>1, PpushLinked
<1> HIDE DEF cell
<1> QED
  BY <1>1, <1>2, <1>5, <1>6, <1>7, PatchKeeps DEF cell

LEMMA ResolveNothingKeeps ==
  ASSUME IInv, ResolveNothing
  PROVE  IInv'
<1>0. TypeInv /\ NodesApart /\ errcode = 0 /\ InstructionsWritten
  BY DEF IInv, Order, ResolveNothing, Written
<1>1. /\ phase = "resolving" /\ resolved < Len(instructions) /\ Patch(Inst)
      /\ Inst.op.kind \notin JumpKinds \cup {"ppush"}
  BY DEF ResolveNothing
<1>2. Inst \in NodeCell /\ Inst = NodeAt(resolved + 1)
  BY <1>0, <1>1, InstIsNode
<1>3. ASSUME NEW j \in OpMarks, j < at, Count(OpMarks, j) = resolved
      PROVE  Linked(Inst, j)
  <2>1. Inst.op = src[j].data
    BY <1>0, <1>2, <1>3 DEF InstructionsWritten
  <2> QED
    BY <1>1, <2>1 DEF Linked
<1> QED
  BY <1>1, <1>2, <1>3, PatchKeeps

LEMMA LinkKeeps ==
  ASSUME IInv, Link
  PROVE  IInv'
<1>1. CASE ResolveJump
  BY <1>1, ResolveJumpKeeps
<1>2. CASE ResolvePpush
  BY <1>2, ResolvePpushKeeps
<1>3. CASE ResolveNothing
  BY <1>3, ResolveNothingKeeps
<1>4. CASE Undefined
  BY <1>4, StopKeeps DEF Undefined
<1>5. CASE NameMoved
  BY <1>5, StopKeeps DEF NameMoved
<1>6. CASE Execute
  BY <1>6, StopKeeps DEF Execute
<1> QED
  BY <1>1, <1>2, <1>3, <1>4, <1>5, <1>6 DEF Link
-----------------------------------------------------------------------------
(* Where the text ends.                                                    *)

\* An end of file where a statement would start.
EndsText(tokens, j) == tokens[j].tok = "EOF" /\ StartsLine(tokens, j)

\* Only the last token of a statement may end its line.
LEMMA LineTokens ==
  ASSUME NEW tokens, Text(tokens), NEW s \in Nat \ {0}, NEW state
  PROVE  LET expected == Expected(tokens, s, state)
             first    == Token(tokens, s).tok
         IN  /\ \A k \in 1 .. (Len(expected) - 1) :
                  expected[k] \cap LineEnds = {}
             /\ first \in {"OP", "LABEL"} =>
                  Len(expected) >= 1 /\ expected[Len(expected)] = EndOfStatement
<1> DEFINE op == Token(tokens, s).data
           lit == LiteralTokens(op)
           first == Token(tokens, s).tok
           next == Token(tokens, s + 1)
           expected == Expected(tokens, s, state)
           line == LineEnds
           Inner == \A k \in 1 .. (Len(expected) - 1) : expected[k] \cap line = {}
           Whole == Len(expected) >= 1 /\ expected[Len(expected)] = EndOfStatement
<1>1. /\ lit \cap line = {} /\ {"UINT"} \cap line = {} /\ {"IDENT"} \cap line = {}
      /\ {"EXTERN"} \cap line = {} /\ DataKinds \cap line = {}
      /\ {"["} \cap line = {}
  BY DEF LiteralTokens, LineEnds, EndOfStatement, Sections, DataKinds
<1>2. CASE first = "OP"
  <2>1. expected = Operands(op)
    BY <1>2 DEF Expected
  <2>2. \/ expected = <<lit, EndOfStatement>>
        \/ expected = <<{"UINT"}, EndOfStatement>>
        \/ expected = <<{"IDENT"}, EndOfStatement>>
        \/ expected = <<{"IDENT"}, {"UINT"}, EndOfStatement>>
        \/ expected = <<EndOfStatement>>
    BY <2>1 DEF Operands
  <2> HIDE DEF expected, line, lit
  <2>3. ASSUME expected = <<EndOfStatement>>
        PROVE  Inner /\ Whole
    <3>1. Len(expected) = 1 /\ expected[1] = EndOfStatement
      BY <2>3
    <3> QED
      BY <3>1
  <2>4. ASSUME NEW one, one \cap line = {}, expected = <<one, EndOfStatement>>
        PROVE  Inner /\ Whole
    <3>1. Len(expected) = 2 /\ expected[1] = one /\ expected[2] = EndOfStatement
      BY <2>4
    <3> QED
      BY <2>4, <3>1
  <2>5. ASSUME expected = <<{"IDENT"}, {"UINT"}, EndOfStatement>>
        PROVE  Inner /\ Whole
    <3>1. /\ Len(expected) = 3 /\ expected[1] = {"IDENT"} /\ expected[2] = {"UINT"}
          /\ expected[3] = EndOfStatement
      BY <2>5
    <3> QED
      BY <1>1, <3>1
  <2>6. Inner /\ Whole
    BY <1>1, <2>2, <2>3, <2>4, <2>5
  <2> QED
    BY <2>6 DEF expected, line
<1>3. CASE first = "LABEL"
  <2>1. expected = <<EndOfStatement>>
    BY <1>3 DEF Expected
  <2> QED
    BY <2>1
<1>4. CASE first = "IDENT"
  <2>1. \/ expected = <<{"EXTERN"}, EndOfStatement>>
        \/ expected = <<DataKinds, {"["}, {"UINT"}, {"]"}>>
    BY <1>4 DEF Expected, DataOperands
  <2> HIDE DEF expected, line
  <2>2. ASSUME expected = <<{"EXTERN"}, EndOfStatement>>
        PROVE  Inner
    <3>1. Len(expected) = 2 /\ expected[1] = {"EXTERN"}
      BY <2>2
    <3> QED
      BY <1>1, <3>1
  <2>3. ASSUME expected = <<DataKinds, {"["}, {"UINT"}, {"]"}>>
        PROVE  Inner
    <3>1. /\ Len(expected) = 4 /\ expected[1] = DataKinds /\ expected[2] = {"["}
          /\ expected[3] = {"UINT"}
      BY <2>3
    <3> QED
      BY <1>1, <3>1
  <2>4. Inner
    BY <2>1, <2>2, <2>3
  <2> QED
    BY <1>4, <2>4 DEF expected, line
<1>5. CASE first \notin {"OP", "LABEL", "IDENT"}
  BY <1>5 DEF Expected
<1> QED
  BY <1>2, <1>3, <1>4, <1>5

\* A statement takes no end of the text with it, and in the text section it
\* ends with its line; the call that finds the end of file has found the end
\* of the text, when it is called at the beginning of a line.
LEMMA LineRead ==
  ASSUME NEW tokens, Text(tokens), NEW j \in 1 .. (Len(tokens) + 1), NEW state \in Sections,
         ParserNext(tokens, j, state).outcome = "node"
  PROVE  LET call == ParserNext(tokens, j, state)
             first == Token(tokens, call.start).tok
         IN  /\ first # "EOF" =>
                  /\ \A i \in j .. (call.next - 1) : ~EndsText(tokens, i)
                  /\ \/ call.state = "SECTION_DATA" \/ call.next = Len(tokens) + 1
                     \/ StartsLine(tokens, call.next)
             /\ first = "EOF" =>
                  /\ \A i \in j .. (call.start - 1) : ~EndsText(tokens, i)
                  /\ call.next = Behind(tokens, call.start)
             /\ first \in {"EOF", "OP"} =>
                  /\ call.start = j => state = "SECTION_TEXT"
                  /\ call.start > j => StartsLine(tokens, call.start)
<1> DEFINE call     == ParserNext(tokens, j, state)
           s        == call.start
           first    == Token(tokens, s).tok
           expected == Expected(tokens, s, call.state)
           width    == Len(expected)
<1>0. Len(tokens) \in Nat /\ j \in Nat \ {0}
  BY TextLen
<1>1. /\ call.state \in Sections /\ s \in j .. (Len(tokens) + 1)
      /\ call.next \in s .. (Len(tokens) + 1)
      /\ \A i \in j .. (s - 1) : tokens[i].tok \in Blank
  BY CallInText
<1>2. /\ Accepts(Token(tokens, s), call.state) /\ Mismatches(tokens, s, expected) = {}
      /\ call.next = Behind(tokens, s + Len(expected))
      /\ s = StatementStart(tokens, j)
  BY CallHasShape DEF CallShape
<1>3. call.state = StateAt(tokens, j, state)
  BY DEF ParserNext
<1> HIDE DEF call
<1>4. s \in Nat \ {0} /\ width \in Nat
  <2>1. s \in Nat \ {0}
    BY <1>0, <1>1
  <2> QED
    BY <2>1, ExpectedTokens
<1>5. /\ \A k \in 1 .. (width - 1) : expected[k] \cap LineEnds = {}
      /\ first \in {"OP", "LABEL"} => width >= 1 /\ expected[width] = EndOfStatement
  BY <1>4, LineTokens
<1>6. \A k \in 1 .. width : TakenFor(Token(tokens, s + k)) \in expected[k]
  BY <1>2 DEF Mismatches
<1>7. s + width \in Nat
      /\ call.next = IF s + width <= Len(tokens) THEN s + width + 1 ELSE Len(tokens) + 1
  <2>1. s + width \in Nat
    BY <1>4
  <2> QED
    BY <1>2, <2>1, BehindIs
<1>8. ASSUME NEW i \in j .. (s - 1)
      PROVE  ~EndsText(tokens, i)
  BY <1>1, <1>8 DEF EndsText, Blank, Sections
<1>9. ASSUME first # "EOF", NEW i \in s .. (call.next - 1)
      PROVE  ~EndsText(tokens, i)
  <2> DEFINE k == i - s
  <2>1. /\ k \in 0 .. width /\ i <= Len(tokens) /\ s + k = i /\ i \in Nat \ {0}
    <3>1. PICK n \in Nat, w \in Nat, t \in Nat \ {0} : n = Len(tokens) /\ w = width /\ t = s
      BY <1>0, <1>4
    <3>2. call.next = IF t + w <= n THEN t + w + 1 ELSE n + 1
      BY <1>7, <3>1
    <3>3. i \in t .. (call.next - 1)
      BY <1>9, <3>1
    <3>4. i \in Nat \ {0} /\ i - t \in 0 .. w /\ i <= n /\ t + (i - t) = i
      BY <3>2, <3>3
    <3> QED
      BY <3>1, <3>4
  <2> HIDE DEF k
  <2>2. CASE k = 0
    <3>1. i = s
      BY <1>4, <2>1, <2>2
    <3> QED
      BY <1>9, <2>1, <3>1 DEF Token, EndsText
  <2>3. CASE k = 1
    <3>1. i > 1 /\ i - 1 = s /\ s <= Len(tokens)
      BY <1>4, <2>1, <2>3
    <3>2. tokens[s].tok \in {"OP", "LABEL", "IDENT"}
      BY <1>2, <1>9, <3>1 DEF Accepts, Token
    <3> QED
      BY <3>1, <3>2 DEF EndsText, StartsLine, LineEnds, EndOfStatement, Sections
  <2>4. CASE k > 1
    <3>1. /\ i > 1 /\ s + (k - 1) = i - 1 /\ i - 1 <= Len(tokens) /\ k - 1 \in 1 .. (width - 1)
          /\ k - 1 \in 1 .. width
      BY <1>0, <1>4, <2>1, <2>4
    <3>2. TakenFor(tokens[i - 1]) \in expected[k - 1]
      BY <1>6, <3>1 DEF Token
    <3>3. tokens[i - 1].tok \notin LineEnds
      BY <1>5, <3>1, <3>2, TakenAsItIs DEF LineEnds, EndOfStatement, Sections
    <3> QED
      BY <3>1, <3>3 DEF EndsText, StartsLine
  <2> QED
    BY <2>1, <2>2, <2>3, <2>4
<1>10. ASSUME first # "EOF"
       PROVE  \/ call.state = "SECTION_DATA" \/ call.next = Len(tokens) + 1
              \/ StartsLine(tokens, call.next)
  <2>1. CASE call.state # "SECTION_DATA" /\ s + width <= Len(tokens)
    <3>1. first \in {"OP", "LABEL"}
      BY <1>2, <1>10, <2>1 DEF Accepts
    <3>2. width \in 1 .. width /\ expected[width] = EndOfStatement
      BY <1>4, <1>5, <3>1
    <3>3. TakenFor(tokens[s + width]) \in EndOfStatement
      BY <1>6, <2>1, <3>2 DEF Token
    <3>4. call.next - 1 = s + width
      BY <1>7, <2>1
    <3>5. tokens[s + width].tok \in EndOfStatement
      BY <3>3, TakenAsItIs DEF EndOfStatement, Brackets
    <3> QED
      BY <3>4, <3>5 DEF StartsLine, LineEnds
  <2> QED
    BY <1>7, <2>1
<1>11. ASSUME first \in {"EOF", "OP"}
       PROVE  /\ first = "EOF" => call.next = Behind(tokens, s)
              /\ s = j => state = "SECTION_TEXT"
              /\ s > j => StartsLine(tokens, s)
  <2>1. first = "EOF" => expected = <<>>
    BY <1>11 DEF Expected
  <2>2. first = "EOF" => s + Len(expected) = s
    BY <1>4, <2>1
  <2>3. call.state = "SECTION_TEXT"
    BY <1>1, <1>2, <1>11 DEF Accepts, Sections
  <2>4. s = j => call.state = state
    <3> SUFFICES ASSUME s = j
                 PROVE  StateAt(tokens, j, state) = state
      BY <1>3
    <3>1. j .. (StatementStart(tokens, j) - 1) = {}
      BY <1>0, <1>2
    <3> QED
      BY <3>1 DEF StateAt
  <2>5. s > j => StartsLine(tokens, s)
    <3> SUFFICES ASSUME s > j
                 PROVE  tokens[s - 1].tok \in LineEnds
      BY DEF StartsLine
    <3>1. s - 1 \in j .. (s - 1)
      BY <1>0, <1>4
    <3> QED
      BY <1>1, <3>1 DEF Blank, LineEnds, EndOfStatement
  <2> QED
    BY <1>2, <2>2, <2>3, <2>4, <2>5
<1>12. ASSUME first # "EOF", NEW i \in j .. (call.next - 1)
       PROVE  ~EndsText(tokens, i)
  <2>1. i \in j .. (s - 1) \/ i \in s .. (call.next - 1)
    BY <1>0, <1>1, <1>4, <1>12
  <2> QED
    BY <1>8, <1>9, <1>12, <2>1
<1> QED
  BY <1>8, <1>10, <1>11, <1>12 DEF call

\* As long as no error was found: no end of the text lies behind at while it
\* is parsed, and the last token read is the first of them when it was accepted.
EndAhead ==
  errcode = 0 =>
    /\ phase = "parsing" =>
         /\ \A j \in 1 .. (at - 1) : ~EndsText(src, j)
         /\ section = "SECTION_DATA" \/ at = Len(src) + 1 \/ StartsLine(src, at)
    /\ phase \in {"resolving", "executing"} =>
         /\ \A j \in 1 .. (at - 2) : ~EndsText(src, j)
         /\ at <= Len(src) => at > 1 /\ EndsText(src, at - 1)

LEMMA EndAheadStarts ==
  ASSUME Init
  PROVE  EndAhead
<1>1. phase = "parsing" /\ at = 1 /\ 1 .. (at - 1) = {}
  BY DEF Init
<1>2. StartsLine(src, at)
  BY <1>1 DEF StartsLine
<1> QED
  BY <1>1, <1>2 DEF EndAhead

\* A statement of the text.
LEMMA StatementEndAhead ==
  ASSUME TypeInv, EndAhead, phase = "parsing", phase' = "parsing", errcode' = errcode,
         Call.outcome = "node", First(Call).tok # "EOF", Advance(Call)
  PROVE  EndAhead'
<1> SUFFICES ASSUME errcode = 0
             PROVE  /\ \A j \in 1 .. (at' - 1) : ~EndsText(src', j)
                    /\ section' = "SECTION_DATA" \/ at' = Len(src') + 1 \/ StartsLine(src', at')
  BY DEF EndAhead
<1>1. /\ TextRead /\ Len(src) \in Nat /\ at \in Nat \ {0} /\ src' = src /\ at' = Call.next
      /\ section' = Call.state /\ at' \in Nat
  BY TextIsRead, TypeFacts, Advanced DEF Advance
<1>2. \A j \in 1 .. (at - 1) : ~EndsText(src, j)
  BY DEF EndAhead
<1>3. /\ \A i \in at .. (at' - 1) : ~EndsText(src, i)
      /\ \/ Call.state = "SECTION_DATA" \/ at' = Len(src) + 1 \/ StartsLine(src, at')
  BY <1>1, LineRead DEF TextRead, Call, First
<1>4. \A j \in 1 .. (at' - 1) : j \in 1 .. (at - 1) \/ j \in at .. (at' - 1)
  BY <1>1
<1> QED
  BY <1>1, <1>2, <1>3, <1>4

\* The end of file that leaves the first loop.
LEMMA EndOfFileEnds ==
  ASSUME TypeInv, EndAhead, phase = "parsing", EndOfFile(Call)
  PROVE  EndAhead'
<1> DEFINE s == Call.start
<1>0. /\ Call.outcome = "node" /\ First(Call).tok = "EOF" /\ Advance(Call) /\ phase' = Verdict
      /\ errcode' = errcode
  BY DEF EndOfFile
<1>1. /\ TextRead /\ Len(src) \in Nat /\ at \in Nat \ {0} /\ src' = src /\ at' = Call.next
      /\ at' \in Nat /\ section \in Sections /\ s \in at .. (Len(src) + 1)
  BY <1>0, TextIsRead, TypeFacts, Advanced DEF TypeInv, TypeOK
<1> SUFFICES ASSUME errcode = 0
             PROVE  /\ \A j \in 1 .. (at' - 2) : ~EndsText(src, j)
                    /\ at' <= Len(src) => at' > 1 /\ EndsText(src, at' - 1)
  <2>1. phase' \in {"rejected", "resolving"}
    BY <1>0 DEF Verdict
  <2> QED
    BY <1>0, <1>1, <2>1 DEF EndAhead
<1>2. /\ \A j \in 1 .. (at - 1) : ~EndsText(src, j)
      /\ section = "SECTION_DATA" \/ at = Len(src) + 1 \/ StartsLine(src, at)
  BY DEF EndAhead
<1>3. Token(src, s).tok = "EOF"
  BY <1>0 DEF First
<1>4. /\ \A i \in at .. (s - 1) : ~EndsText(src, i)
      /\ at' = Behind(src, s)
      /\ s = at => section = "SECTION_TEXT"
      /\ s > at => StartsLine(src, s)
  BY <1>0, <1>1, <1>3, LineRead DEF TextRead, Call
<1> HIDE DEF s
<1>5. s \in Nat \ {0} /\ at' = IF s <= Len(src) THEN s + 1 ELSE Len(src) + 1
  <2>1. s \in Nat \ {0}
    BY <1>1
  <2> QED
    BY <1>1, <1>4, <2>1, BehindIs DEF TextRead
<1>6. \A j \in 1 .. (at' - 2) : j \in 1 .. (at - 1) \/ j \in at .. (s - 1)
  BY <1>1, <1>5
<1>7. ASSUME at' <= Len(src)
      PROVE  at' > 1 /\ EndsText(src, at' - 1)
  <2>1. s <= Len(src) /\ at' - 1 = s /\ at' > 1
    BY <1>1, <1>5, <1>7
  <2>2. CASE s = at
    <3>1. StartsLine(src, s)
      BY <1>1, <1>2, <1>4, <2>1, <2>2
    <3> QED
      BY <1>3, <2>1, <3>1 DEF EndsText, Token
  <2>3. CASE s > at
    BY <1>3, <1>4, <2>1, <2>3 DEF EndsText, Token
  <2> QED
    BY <1>1, <1>5, <2>2, <2>3
<1> QED
  BY <1>2, <1>4, <1>6, <1>7

LEMMA EndAheadKept ==
  ASSUME TypeInv, EndAhead, [Next]_vars
  PROVE  EndAhead'
<1>1. CASE UNCHANGED <<src, at, section, errcode, phase>>
  BY <1>1 DEF EndAhead
<1>2. ASSUME NEW how \in {"panic", "abort", "assert", "stale"}, Stop(how)
      PROVE  EndAhead'
  BY <1>2 DEF Stop, EndAhead
<1>3. CASE Parse
  <2>0. phase = "parsing"
    BY <1>3 DEF Parse
  <2>1. CASE AddInstruction(Call) \/ AddLabel(Call) \/ AddDeclaration(Call)
    <3>1. /\ Call.outcome = "node" /\ First(Call).tok \in {"OP", "LABEL", "IDENT"}
          /\ Advance(Call) /\ phase' = phase /\ errcode' = errcode
      BY <2>1 DEF AddInstruction, AddLabel, AddDeclaration
    <3> QED
      BY <2>0, <3>1, StatementEndAhead
  <2>2. CASE ReportError(Call)
    BY <2>2 DEF ReportError, EndAhead
  <2>3. CASE EndOfFile(Call)
    BY <2>0, <2>3, EndOfFileEnds
  <2>4. CASE NotImplemented(Call) \/ OutOfMemory(Call) \/ Refused(Call) \/ NodeMoved(Call)
    BY <1>2, <2>4 DEF NotImplemented, OutOfMemory, Refused, NodeMoved
  <2> QED
    BY <1>3, <2>1, <2>2, <2>3, <2>4 DEF Parse, Call
<1>4. CASE ResolveJump \/ ResolvePpush \/ ResolveNothing
  <2>1. \E cell : Patch(cell)
    BY <1>4 DEF ResolveJump, ResolvePpush, ResolveNothing
  <2>2. UNCHANGED <<src, at, section, errcode, phase>>
    BY <2>1 DEF Patch, parserVars
  <2> QED
    BY <1>1, <2>2
<1>5. CASE Undefined \/ NameMoved
  BY <1>2, <1>5 DEF Undefined, NameMoved
<1>6. CASE Execute
  <2>1. phase = "resolving" /\ phase' = "executing" /\ UNCHANGED <<src, at, section, errcode>>
    BY <1>6 DEF Execute, Stop, parserVars
  <2> QED
    BY <2>1 DEF EndAhead
<1>7. CASE UNCHANGED vars
  BY <1>1, <1>7 DEF vars, parserVars
<1> QED
  BY <1>3, <1>4, <1>5, <1>6, <1>7 DEF Next, Link
-----------------------------------------------------------------------------
(* The first loop keeps the invariant.                                     *)

\* What a call adds lies behind everything there was: nodes stay where their
\* offsets say, and texts where their names say.
LEMMA CallKeeps ==
  ASSUME IInv, phase = "parsing", Call.outcome # "panic", NEW base \in Regions,
         Allocate(Call, base), Advance(Call)
  PROVE  /\ resolved = 0 /\ resolved' = 0
         /\ \A k \in 1 .. Len(instructions) :
              /\ Off(k) = instructions[k] /\ instructions[k] \in 0 .. (Len(arena) - 1)
              /\ arena'[instructions[k] + 1] = NodeAt(k) /\ NodeAt(k) \in NodeCell
         /\ \A addr, text : Names(addr, text) => Names(addr, text)'
<1>0. TypeInv /\ NodesApart /\ resolved = 0 /\ resolved' = resolved
  BY Advanced DEF IInv, Order
<1>1. /\ Len(arena) \in Nat /\ Len(arena') \in Nat /\ Len(arena) <= Len(arena')
      /\ \A i \in 1 .. Len(arena) : arena'[i] = arena[i]
  <2>1. /\ arena' \in Seq(Cell) /\ Len(arena') > Len(arena) + Len(Texts(Call))
        /\ \A i \in 1 .. Len(arena) : arena'[i] = arena[i]
    BY <1>0, AllocateStep
  <2>2. Len(Texts(Call)) \in 0 .. 2
    BY <1>0, TextIsRead, TextsAreStrings
  <2>3. Len(arena') \in Nat /\ Len(arena) \in Nat
    BY <1>0, <2>1, TypeFacts
  <2>4. PICK t \in 0 .. 2 : Len(Texts(Call)) = t
    BY <2>2, Zenon
  <2> QED
    BY <2>1, <2>3, <2>4
<1>2. ASSUME NEW k \in 1 .. Len(instructions)
      PROVE  /\ Off(k) = instructions[k] /\ instructions[k] \in 0 .. (Len(arena) - 1)
             /\ arena'[instructions[k] + 1] = NodeAt(k) /\ NodeAt(k) \in NodeCell
  <2>1. ~(k <= resolved)
    BY <1>0
  <2>2. Off(k) = instructions[k]
    BY <2>1 DEF Off
  <2>3. instructions[k] \in 0 .. (Len(arena) - 1) /\ NodeAt(k) \in NodeCell
    BY <1>0, <2>2 DEF NodesApart
  <2>4. instructions[k] + 1 \in 1 .. Len(arena)
    BY <1>1, <2>3
  <2> QED
    BY <1>1, <2>2, <2>3, <2>4 DEF NodeAt
<1>3. ASSUME NEW addr, NEW text, Names(addr, text)
      PROVE  Names(addr, text)'
  <2>1. PICK r \in Regions, i \in 1 .. Len(arena) :
          addr + 1 = r + i /\ arena[i] = [cell |-> "string", text |-> text]
    BY <1>3 DEF Names
  <2>2. i \in 1 .. Len(arena') /\ arena'[i] = arena[i]
    BY <1>1, <2>1
  <2> QED
    BY <2>1, <2>2 DEF Names
<1> QED
  BY <1>0, <1>2, <1>3

LEMMA NodesKept ==
  ASSUME IInv, phase = "parsing", Call.outcome # "panic", NEW base \in Regions,
         Allocate(Call, base), Advance(Call), instructions' = instructions
  PROVE  /\ NodesApart' /\ JumpsInside'
         /\ \A k \in 1 .. Len(instructions) : NodeAt(k)' = NodeAt(k)
<1>0. /\ TypeInv /\ NodesApart /\ resolved' = 0 /\ Len(arena) \in Nat /\ Len(arena') \in Nat
      /\ Len(arena) <= Len(arena')
  <2>1. /\ arena' \in Seq(Cell) /\ Len(arena') > Len(arena) + Len(Texts(Call)) /\ TypeInv
    BY AllocateStep DEF IInv
  <2>2. PICK t \in 0 .. 2 : Len(Texts(Call)) = t
    BY TextIsRead, TextsAreStrings, Zenon DEF IInv
  <2> QED
    BY <2>1, <2>2, TypeFacts, CallKeeps DEF IInv
<1>1. ASSUME NEW k \in 1 .. Len(instructions)
      PROVE  /\ Off(k)' = instructions[k] /\ instructions[k] \in 0 .. (Len(arena') - 1)
             /\ Off(k) = instructions[k]
             /\ NodeAt(k)' = NodeAt(k) /\ NodeAt(k) \in NodeCell
  <2>1. /\ Off(k) = instructions[k] /\ instructions[k] \in 0 .. (Len(arena) - 1)
        /\ arena'[instructions[k] + 1] = NodeAt(k) /\ NodeAt(k) \in NodeCell
    BY CallKeeps
  <2>2. ~(k <= resolved')
    BY <1>0
  <2>3. Off(k)' = instructions[k]
    BY <2>2 DEF Off
  <2> QED
    BY <1>0, <2>1, <2>3 DEF NodeAt
<1>2. NodesApart'
  <2>1. ASSUME NEW k \in 1 .. Len(instructions), NEW l \in 1 .. Len(instructions), k < l
        PROVE  Off(k)' < Off(l)'
    BY <1>0, <1>1, <2>1 DEF NodesApart
  <2> QED
    BY <1>1, <2>1 DEF NodesApart
<1>3. JumpsInside'
  BY <1>0 DEF JumpsInside
<1> QED
  BY <1>1, <1>2, <1>3

\* The name of a statement is the text behind its node.
LEMMA NameRead ==
  ASSUME IInv, Call.outcome # "panic", NEW base \in Regions, Allocate(Call, base),
         TextStart(Call) \in TextPlaces(Call),
         NEW addr, addr = NameAddr(base), NEW text, text = src[TextStart(Call)].data
  PROVE  Names(addr, text)'
<1> DEFINE i == Len(arena) + 2
<1>0. TypeInv /\ TextRead /\ Len(arena) \in Nat /\ base \in Nat
  BY TextIsRead, TypeFacts, ArenaAssumption DEF IInv
<1>1. Len(Texts(Call)) >= 1 /\ Texts(Call)[1] = [cell |-> "string", text |-> text]
  BY <1>0, FirstText
<1>2. PICK t \in 0 .. 2 : Len(Texts(Call)) = t
  BY <1>0, TextsAreStrings, Zenon
<1>3. /\ Len(arena') > Len(arena) + t /\ Len(arena') \in Nat
      /\ \A k \in 1 .. t : arena'[Len(arena) + 1 + k] = Texts(Call)[k]
  BY <1>0, <1>2, AllocateStep
<1>4. 1 \in 1 .. t /\ Len(arena) + 1 + 1 = i /\ i \in 1 .. Len(arena')
  BY <1>0, <1>1, <1>2, <1>3
<1>5. arena'[i] = [cell |-> "string", text |-> text]
  BY <1>1, <1>3, <1>4
<1>6. addr + 1 = base + i
  BY <1>0 DEF NameAddr, NodeAddr
<1> HIDE DEF i
<1> QED
  BY <1>4, <1>5, <1>6 DEF Names

\* Where the marks of a statement are.
LEMMA CallMarks ==
  ASSUME TypeInv, Call.outcome = "node", Advance(Call)
  PROVE  LET s == Call.start
             first == First(Call).tok
         IN  /\ at <= at' /\ at' \in Nat /\ s \in Nat \ {0} /\ at <= s
             /\ \A i \in at .. (at' - 1) : i # s =>
                  /\ i \notin OpMarks \cup LabelMarks \cup DataMarks
                  /\ WellPlaced(i)
             /\ first \in {"OP", "LABEL", "IDENT", "EOF"}
             /\ first # "EOF" =>
                  s < at' /\ s \in 1 .. Len(src) /\ src[s] = First(Call)
             /\ s <= Len(src) => src[s] = First(Call)
             /\ s \in OpMarks => first = "OP"
             /\ s \in LabelMarks <=> first = "LABEL"
             /\ s \in DataMarks <=> first = "IDENT"
<1> DEFINE s == Call.start
           first == First(Call).tok
<1>0. TextRead /\ Len(src) \in Nat /\ at \in Nat \ {0} /\ at' = Call.next
  BY TextIsRead, TypeFacts, Advanced
<1>1. /\ s \in at .. (Len(src) + 1) /\ Call.next \in s .. (Len(src) + 1)
      /\ s <= Len(src) => s < Call.next
  BY <1>0, CallInText DEF TextRead, Call
<1>2. /\ \A i \in at .. (Call.next - 1) : i # s =>
           /\ src[i].tok \notin {"LABEL", "SLIT", "ILLEGAL"}
           /\ ~Declares(src, i)
           /\ src[i].tok = "OP" =>
                ~StartsLine(src, i) /\ TakenFor(src[i]) \in Brackets
      /\ first \in {"OP", "LABEL", "IDENT", "EOF"}
      /\ first = "IDENT" => Declares(src, s)
  BY <1>0, NodeCall DEF TextRead, Call, First
<1> HIDE DEF s
<1>3. s <= Len(src) => src[s] = First(Call)
  BY DEF First, Token, s
<1>4. first # "EOF" => s \in 1 .. Len(src)
  BY <1>0, <1>1 DEF First, Token, Tok, s
<1>5. s > Len(src) => first = "EOF"
  BY <1>0, <1>1, <1>4
<1>6. /\ s \in OpMarks => first = "OP"
      /\ s \in LabelMarks <=> first = "LABEL"
      /\ s \in DataMarks <=> first = "IDENT"
  BY <1>2, <1>3, <1>4, <1>5 DEF OpMarks, LabelMarks, DataMarks, IsOp, Declares
<1>7. \A i \in at .. (Call.next - 1) : i # s =>
        /\ i \notin OpMarks \cup LabelMarks \cup DataMarks
        /\ WellPlaced(i)
  BY <1>2 DEF OpMarks, LabelMarks, DataMarks, IsOp, WellPlaced
<1> QED
  BY <1>0, <1>1, <1>2, <1>3, <1>4, <1>6, <1>7 DEF s

\* As long as no error was found, a mnemonic that is accepted starts a line.
LEMMA OpStarts ==
  ASSUME TypeInv, EndAhead, errcode = 0, phase = "parsing", Call.outcome = "node",
         First(Call).tok = "OP"
  PROVE  Call.start \in OpMarks
<1> DEFINE s == Call.start
<1>0. TextRead /\ Len(src) \in Nat /\ at \in Nat \ {0}
  BY TextIsRead, TypeFacts
<1>1. s \in at .. (Len(src) + 1) /\ Token(src, s).tok = "OP"
  BY <1>0, CallInText DEF TextRead, Call, First
<1>2. s \in 1 .. Len(src) /\ src[s].tok = "OP"
  BY <1>0, <1>1 DEF Token, Tok
<1>3. /\ s = at => section = "SECTION_TEXT"
      /\ s > at => StartsLine(src, s)
  BY <1>0, <1>1, LineRead DEF TextRead, Call
<1> HIDE DEF s
<1>4. CASE s = at
  <2>1. section # "SECTION_DATA" /\ at # Len(src) + 1
    BY <1>0, <1>2, <1>3, <1>4
  <2>2. StartsLine(src, at)
    BY <2>1 DEF EndAhead
  <2> QED
    BY <1>2, <1>4, <2>2 DEF OpMarks, IsOp, s
<1>5. CASE s > at
  BY <1>2, <1>3, <1>5 DEF OpMarks, IsOp, s
<1> QED
  BY <1>0, <1>1, <1>4, <1>5 DEF s

\* A statement adds its first token to a set of marks, or nothing.
LEMMA CountAcross ==
  ASSUME NEW S, NEW i \in Nat \ {0}, NEW j \in Nat, NEW s \in Nat \ {0}, i <= s, i <= j,
         \A l \in i .. (j - 1) : l # s => l \notin S
  PROVE  /\ s \notin S => Count(S, j) = Count(S, i)
         /\ s \in S /\ s < j => Count(S, j) = Count(S, i) + 1 /\ Count(S, s) = Count(S, i)
         /\ \A l \in S : l \in Nat /\ l < j => l < i \/ l = s
<1>1. ASSUME s \notin S
      PROVE  Count(S, j) = Count(S, i)
  <2>1. \A l \in i .. (j - 1) : l \notin S
    BY <1>1
  <2> QED
    BY <2>1, CountSame
<1>2. ASSUME s \in S, s < j
      PROVE  Count(S, j) = Count(S, i) + 1 /\ Count(S, s) = Count(S, i)
  <2>1. \A l \in i .. (s - 1) : l \notin S
    BY <1>2
  <2>2. Count(S, s) = Count(S, i)
    BY <2>1, CountSame
  <2>3. Count(S, s + 1) = Count(S, s) + 1
    BY <1>2, CountStep
  <2>4. s + 1 \in Nat \ {0} /\ s + 1 <= j /\ \A l \in (s + 1) .. (j - 1) : l \notin S
    BY <1>2
  <2>5. Count(S, j) = Count(S, s + 1)
    BY <2>4, CountSame
  <2> QED
    BY <2>2, <2>3, <2>5
<1>3. \A l \in S : l \in Nat /\ l < j => l < i \/ l = s
  OBVIOUS
<1> QED
  BY <1>1, <1>2, <1>3

\* A table that the statement does not concern.
LEMMA TableKept ==
  ASSUME NEW table, NEW marks \in SUBSET (Nat \ {0}), Tabled(table, marks), src' = src,
         at \in Nat \ {0}, at' \in Nat, at <= at',
         NEW s \in Nat \ {0}, at <= s, s \notin marks,
         \A l \in at .. (at' - 1) : l # s => l \notin marks,
         \A addr, text : Names(addr, text) => Names(addr, text)'
  PROVE  Tabled(table, marks)'
<1>1. Len(table) = Count(marks, at')
  BY CountAcross DEF Tabled
<1>2. ASSUME NEW k \in 1 .. Len(table)
      PROVE  \E j \in marks : j < at' /\ Count(marks, j) + 1 = k /\ Names(table[k].name, src[j].data)'
  <2>1. PICK j \in marks :
          j < at /\ Count(marks, j) + 1 = k /\ Names(table[k].name, src[j].data)
    BY DEF Tabled
  <2>2. j < at'
    BY <2>1
  <2> QED
    BY <2>1, <2>2
<1> QED
  BY <1>1, <1>2 DEF Tabled

LEMMA MarkAdded ==
  ASSUME NEW marks \in SUBSET (Nat \ {0}), at \in Nat \ {0}, at' \in Nat,
         NEW s \in Nat \ {0}, at <= s, s < at', s \in marks,
         \A l \in at .. (at' - 1) : l # s => l \notin marks
  PROVE  /\ Count(marks, at') = Count(marks, at) + 1 /\ Count(marks, s) = Count(marks, at)
         /\ \A j \in marks : j < at' => j < at \/ j = s
<1>1. at <= at' /\ \A l \in marks : l \in Nat
  OBVIOUS
<1> QED
  BY <1>1, CountAcross, ZenonT(60)

\* The table gets the entry of the statement that starts at s.
Entered(old, new, marks, s) ==
  /\ marks \in SUBSET (Nat \ {0}) /\ Tabled(old, marks)
  /\ src' = src /\ at \in Nat \ {0} /\ at' \in Nat
  /\ s \in marks /\ at <= s /\ s < at'
  /\ \A l \in at .. (at' - 1) : l # s => l \notin marks
  /\ \A addr, text : Names(addr, text) => Names(addr, text)'
  /\ \E p \in Nat : /\ p = Len(old) + 1 /\ Len(new) = p /\ Names(new[p].name, src[s].data)'
  /\ Len(old) \in Nat /\ \A k \in 1 .. Len(old) : new[k] = old[k]

LEMMA TableGrows ==
  ASSUME NEW old, NEW new, NEW marks, NEW s, Entered(old, new, marks, s)
  PROVE  /\ Tabled(new, marks)'
         /\ Count(marks, s) + 1 = Len(old) + 1
         /\ \A j \in marks : j < at' => j < at \/ j = s
         /\ \A j \in marks : j < at => Count(marks, j) + 1 \in 1 .. Len(old)
<1>1. /\ marks \in SUBSET (Nat \ {0}) /\ Tabled(old, marks) /\ s \in Nat \ {0}
      /\ src' = src /\ at \in Nat \ {0} /\ at' \in Nat
      /\ s \in marks /\ at <= s /\ s < at'
      /\ \A l \in at .. (at' - 1) : l # s => l \notin marks
      /\ \A addr, text : Names(addr, text) => Names(addr, text)'
  BY DEF Entered
<1>2. PICK n \in Nat : n = Len(old)
  BY DEF Entered
<1>3. PICK p \in Nat : p = n + 1 /\ Len(new) = p /\ Names(new[p].name, src[s].data)'
  BY <1>2 DEF Entered
<1>4. \A k \in 1 .. n : new[k] = old[k]
  BY <1>2 DEF Entered
<1>5. /\ n = Count(marks, at) /\ Count(marks, at') = Count(marks, at) + 1
      /\ Count(marks, s) = Count(marks, at)
      /\ \A j \in marks : j < at' => j < at \/ j = s
  <2>1. n = Count(marks, at)
    BY <1>1, <1>2 DEF Tabled
  <2>2. Count(marks, at') = Count(marks, at) + 1 /\ Count(marks, s) = Count(marks, at)
    BY <1>1, MarkAdded
  <2>3. \A j \in marks : j < at' => j < at \/ j = s
    BY <1>1, MarkAdded
  <2> QED
    BY <2>1, <2>2, <2>3
<1>6. Len(new) = Count(marks, at')
  BY <1>5, <1>3
<1>7. ASSUME NEW k \in 1 .. Len(new)
      PROVE  \E j \in marks : j < at' /\ Count(marks, j) + 1 = k /\ Names(new[k].name, src[j].data)'
  <2>1. CASE k \in 1 .. n
    <3>1. PICK j \in marks :
            j < at /\ Count(marks, j) + 1 = k /\ Names(old[k].name, src[j].data)
      BY <1>1, <1>2, <2>1 DEF Tabled
    <3>2. new[k] = old[k]
      BY <1>4, <2>1
    <3>3. PICK m \in Nat : at' = m
      BY <1>1
    <3>4. j < at'
      BY <1>1, <3>1, <3>3
    <3>5. Names(new[k].name, src[j].data)'
      BY <1>1, <3>1, <3>2
    <3> QED
      BY <3>1, <3>4, <3>5
  <2>2. CASE k = p
    BY <1>5, <1>1, <1>3, <2>2
  <2> QED
    BY <1>3, <2>1, <2>2
<1>8. Tabled(new, marks)'
  BY <1>6, <1>7 DEF Tabled
<1>9. ASSUME NEW j \in marks, j < at
      PROVE  Count(marks, j) + 1 \in 1 .. n
  <2>1. Count(marks, j) \in Nat /\ Count(marks, j) + 1 <= Count(marks, at)
    BY <1>9, <1>1, CountStrict, CountType
  <2> QED
    BY <1>5, <2>1
<1> QED
  BY <1>5, <1>2, <1>3, <1>8, <1>9

\* The name operand of a jump, a call or a ppush is a text of the call.
LEMMA OperandText ==
  ASSUME TextRead, Call.outcome = "node", First(Call).tok = "OP",
         First(Call).data.kind \in JumpKinds \cup {"ppush"}
  PROVE  /\ TextStart(Call) = Call.start + 1 /\ Call.start + 1 \in TextPlaces(Call)
         /\ Token(src, Call.start + 1) = src[Call.start + 1]
<1> DEFINE s == Call.start
           op == First(Call).data
           operands == Operands(op)
<1>0. Len(src) \in Nat /\ s \in 1 .. Len(src) /\ src[s] = First(Call) /\ s \in Nat
  <2>1. s \in at .. (Len(src) + 1)
    BY CallInText DEF TextRead, Call
  <2> QED
    BY <2>1, TextLen DEF TextRead, First, Token, Tok
<1>1. Mismatches(src, s, operands) = {} /\ Call.next = Behind(src, s + Len(operands))
  BY <1>0, NodeCall DEF TextRead, Call, First
<1> HIDE DEF op
<1>2. Len(operands) \in 2 .. 3 /\ operands[1] = {"IDENT"}
  <2>1. op.kind \in JumpKinds \cup {"ppush"}
    BY DEF op
  <2>2. \/ operands = <<LiteralTokens(op), EndOfStatement>> /\ op.kind = "ppush"
        \/ operands = <<{"IDENT"}, EndOfStatement>>
        \/ operands = <<{"IDENT"}, {"UINT"}, EndOfStatement>>
    BY <2>1 DEF Operands, IndexKinds, JumpKinds
  <2>3. op.kind = "ppush" => LiteralTokens(op) = {"IDENT"}
    BY DEF LiteralTokens
  <2> HIDE DEF operands
  <2>4. CASE operands = <<LiteralTokens(op), EndOfStatement>> /\ op.kind = "ppush"
    BY <2>3, <2>4
  <2>5. CASE operands = <<{"IDENT"}, EndOfStatement>>
    BY <2>5
  <2>6. CASE operands = <<{"IDENT"}, {"UINT"}, EndOfStatement>>
    BY <2>6
  <2> QED
    BY <2>2, <2>4, <2>5, <2>6
<1> HIDE DEF operands
<1>3. PICK n \in 2 .. 3 : Len(operands) = n
  BY <1>2, Zenon
<1>4. Token(src, s + 1).tok = "IDENT"
  <2>1. 1 \in 1 .. Len(operands)
    BY <1>3
  <2>2. Token(src, s + 1).tok \in operands[1]
    BY <1>1, <2>1, OperandsRead DEF operands
  <2> QED
    BY <1>2, <2>2
<1>5. s + 1 <= Len(src) /\ Token(src, s + 1) = src[s + 1]
  BY <1>4 DEF Token, Tok
<1>6. s + 1 <= Call.next - 1
  <2>1. s + n \in Nat /\ Call.next = Behind(src, s + n)
    BY <1>0, <1>1, <1>3
  <2>2. Call.next = IF s + n <= Len(src) THEN s + n + 1 ELSE Len(src) + 1
    BY <2>1, BehindIs DEF TextRead
  <2> QED
    BY <1>0, <1>3, <1>5, <2>2
<1>7. Call.next \in Int
  <2>1. Call.next \in s .. (Len(src) + 1)
    BY CallInText DEF TextRead, Call
  <2> QED
    BY <1>0, <2>1
<1>8. s + 1 \in TextPlaces(Call)
  BY <1>0, <1>4, <1>5, <1>6, <1>7 DEF TextPlaces, StringTokens
<1> QED
  BY <1>5, <1>8 DEF TextStart

\* A label's or a declaration's own name is a text of its call.
LEMMA OwnText ==
  ASSUME TextRead, Call.outcome = "node", First(Call).tok \in {"LABEL", "IDENT"}
  PROVE  TextStart(Call) = Call.start /\ Call.start \in TextPlaces(Call)
<1>1. /\ Call.start \in at .. (Len(src) + 1) /\ Call.next \in Call.start .. (Len(src) + 1)
      /\ Call.start <= Len(src) => Call.start < Call.next
  BY CallInText DEF TextRead, Call
<1>2. Call.start <= Len(src) /\ src[Call.start] = First(Call)
  BY DEF First, Token, Tok
<1>3. Call.start \in Call.start .. (Call.next - 1)
  BY <1>1, <1>2, TextLen DEF TextRead
<1> QED
  BY <1>2, <1>3 DEF TextPlaces, StringTokens, TextStart

\* The end of the file, or a T_EOF before it, is what the last call reads.
LEMMA EndRead ==
  ASSUME TextRead, Call.outcome = "node", First(Call).tok = "EOF"
  PROVE  Call.next <= Len(src) => src[Call.next - 1].tok = "EOF"
<1> DEFINE s == Call.start
           call == Call
<1>0. Len(src) \in Nat /\ s \in Nat
  <2>1. s \in at .. (Len(src) + 1)
    BY CallInText DEF TextRead, Call
  <2> QED
    BY <2>1, TextLen DEF TextRead
<1>1. CallShape(src, at, call)
  BY CallHasShape DEF Call
<1> HIDE DEF call
<1>2. call.outcome = "node" /\ call.start = s /\ Token(src, s).tok = "EOF"
  BY DEF call, First
<1>3. call.next = Behind(src, s + Len(Expected(src, s, call.state)))
  BY <1>1, <1>2 DEF CallShape
<1>4. Expected(src, s, call.state) = <<>>
  BY <1>2 DEF Expected
<1>5. call.next = Behind(src, s)
  BY <1>0, <1>3, <1>4
<1>6. call.next = IF s <= Len(src) THEN s + 1 ELSE Len(src) + 1
  BY <1>0, <1>5, BehindIs DEF TextRead
<1> HIDE DEF s
<1>7. call.next <= Len(src) => src[call.next - 1].tok = "EOF"
  <2> SUFFICES ASSUME call.next <= Len(src)
               PROVE  src[call.next - 1].tok = "EOF"
    OBVIOUS
  <2>1. s <= Len(src) /\ call.next - 1 = s
    BY <1>0, <1>6
  <2> QED
    BY <1>2, <2>1 DEF Token
<1> QED
  BY <1>7 DEF call

\* What every turn that has read a node leaves as it was written.
LEMMA NodeTurn ==
  ASSUME IInv, phase = "parsing", Call.outcome = "node", NEW base \in Regions,
         Allocate(Call, base), Advance(Call)
  PROVE  /\ TypeInv /\ src' = src /\ at \in Nat \ {0} /\ at' \in Nat /\ at <= at'
         /\ Call.start \in Nat \ {0} /\ at <= Call.start /\ resolved' = 0
         /\ OpMarks' = OpMarks /\ LabelMarks' = LabelMarks /\ DataMarks' = DataMarks
         /\ OpMarks \in SUBSET (Nat \ {0}) /\ LabelMarks \in SUBSET (Nat \ {0})
         /\ DataMarks \in SUBSET (Nat \ {0})
         /\ \A marks \in {OpMarks, LabelMarks, DataMarks} : \A l \in at .. (at' - 1) :
              l # Call.start => l \notin marks
         /\ \A addr, text : Names(addr, text) => Names(addr, text)'
<1>0. TypeInv
  BY DEF IInv
<1>1. src' = src /\ at \in Nat \ {0} /\ Len(src) \in Nat
  BY <1>0, Advanced, TypeFacts
<1>2. OpMarks' = OpMarks /\ LabelMarks' = LabelMarks /\ DataMarks' = DataMarks
  BY <1>1 DEF OpMarks, LabelMarks, DataMarks, IsOp, StartsLine
<1>3. /\ OpMarks \in SUBSET (Nat \ {0}) /\ LabelMarks \in SUBSET (Nat \ {0})
      /\ DataMarks \in SUBSET (Nat \ {0})
  BY <1>0, <1>1, MarkSets
<1>4. /\ at <= at' /\ at' \in Nat /\ Call.start \in Nat \ {0} /\ at <= Call.start
      /\ \A l \in at .. (at' - 1) : l # Call.start =>
           l \notin OpMarks \cup LabelMarks \cup DataMarks
  BY <1>0, CallMarks
<1>5. resolved' = 0 /\ \A addr, text : Names(addr, text) => Names(addr, text)'
  BY CallKeeps
<1> QED
  BY <1>0, <1>1, <1>2, <1>3, <1>4, <1>5

LEMMA ReadBetween ==
  ASSUME at \in Nat, at' \in Nat, NEW j \in Nat, j < at'
  PROVE  j < at \/ j \in at .. (at' - 1)
<1>1. PICK n \in Nat : at' = n
  OBVIOUS
<1>2. j < at \/ j \in at .. (n - 1)
  BY <1>1
<1> QED
  BY <1>1, <1>2

LEMMA TokensAccepted ==
  ASSUME IInv, EndAhead, errcode = 0, phase = "parsing", Call.outcome = "node", Advance(Call)
  PROVE  \A j \in 1 .. (at' - 1) : WellPlaced(j)'
<1>0. TypeInv /\ Written /\ src' = src /\ at \in Nat
  BY Advanced, TypeFacts DEF IInv
<1> SUFFICES ASSUME NEW j \in 1 .. (at' - 1)
             PROVE  WellPlaced(j)
  BY <1>0 DEF WellPlaced, IsOp
<1>1. PICK n \in Nat : at' = n /\ n <= Len(src) + 1 /\ Len(src) \in Nat
  BY <1>0, Advanced, TypeFacts
<1>2. CASE j < at
  <2>1. j \in 1 .. (at - 1)
    BY <1>0, <1>1, <1>2
  <2> QED
    BY <1>0, <2>1 DEF Written
<1>3. CASE ~(j < at) /\ j # Call.start
  <2>1. j \in at .. (n - 1)
    BY <1>0, <1>1, <1>3
  <2> QED
    BY <1>0, <1>1, <1>3, <2>1, CallMarks
<1>4. CASE j = Call.start
  <2>1. j <= Len(src)
    BY <1>1
  <2>2. src[j] = First(Call) /\ First(Call).tok \in {"OP", "LABEL", "IDENT", "EOF"}
    BY <1>0, <1>4, <2>1, CallMarks
  <2>3. First(Call).tok = "OP" => IsOp(j)
    BY <1>0, <1>4, OpStarts DEF OpMarks
  <2> QED
    BY <2>2, <2>3 DEF WellPlaced
<1> QED
  BY <1>2, <1>3, <1>4

\* The instruction a mnemonic became.
LEMMA InstructionPlace ==
  ASSUME IInv, InstructionsWritten, NEW j \in OpMarks, j < at
  PROVE  Count(OpMarks, j) + 1 \in 1 .. Len(instructions)
<1>1. j \in Nat \ {0} /\ at \in Nat
  BY MarkSets, TypeFacts DEF IInv
<1>2. Count(OpMarks, j) \in Nat /\ Count(OpMarks, at) \in Nat
  BY <1>1, CountType
<1>3. Count(OpMarks, j) + 1 <= Count(OpMarks, at)
  BY <1>1, CountStrict
<1> QED
  BY <1>2, <1>3 DEF InstructionsWritten

LEMMA InstructionsKept ==
  ASSUME IInv, phase = "parsing", Call.outcome = "node", NEW base \in Regions,
         Allocate(Call, base), Advance(Call), InstructionsWritten,
         instructions' = instructions, First(Call).tok # "OP"
  PROVE  InstructionsWritten'
<1> DEFINE s == Call.start
<1>0. /\ TypeInv /\ src' = src /\ at \in Nat \ {0} /\ at' \in Nat /\ at <= at'
      /\ s \in Nat \ {0} /\ at <= s /\ resolved' = 0
      /\ OpMarks' = OpMarks /\ OpMarks \in SUBSET (Nat \ {0})
      /\ \A l \in at .. (at' - 1) : l # s => l \notin OpMarks
      /\ \A addr, text : Names(addr, text) => Names(addr, text)'
  BY NodeTurn
<1>1. s \notin OpMarks
  BY <1>0, CallMarks
<1>2. Count(OpMarks, at') = Count(OpMarks, at)
  BY <1>0, <1>1, CountAcross, ZenonT(60)
<1>3. ASSUME NEW j \in OpMarks, j < at', NEW k, k = Count(OpMarks, j) + 1
      PROVE  /\ Mismatches(src, j, Operands(src[j].data)) = {}
             /\ NodeAt(k)'.op = src[j].data
             /\ src[j].data.kind \in JumpKinds \cup {"ppush"} =>
                  Names(NodeAt(k).name, Token(src, j + 1).data)'
             /\ ~(k <= resolved')
  <2>1. j < at
    <3>1. j < at \/ j \in at .. (at' - 1)
      BY <1>0, <1>3, ReadBetween
    <3> QED
      BY <1>0, <1>1, <3>1
  <2>2. k \in 1 .. Len(instructions)
    BY <1>3, <2>1, InstructionPlace
  <2>3. NodeAt(k)' = NodeAt(k) /\ ~(k <= resolved')
    BY <1>0, <2>2, NodesKept
  <2>4. /\ Mismatches(src, j, Operands(src[j].data)) = {} /\ NodeAt(k).op = src[j].data
        /\ src[j].data.kind \in JumpKinds \cup {"ppush"} =>
             Names(NodeAt(k).name, Token(src, j + 1).data)
    BY <1>3, <2>1 DEF InstructionsWritten
  <2>5. Token(src, j + 1)' = Token(src, j + 1)
    BY <1>0
  <2> QED
    BY <1>0, <2>3, <2>4, <2>5
<1>4. Len(instructions') = Count(OpMarks', at')
  BY <1>0, <1>2 DEF InstructionsWritten
<1> QED
  BY <1>0, <1>3, <1>4 DEF InstructionsWritten

LEMMA LabelsKept ==
  ASSUME IInv, phase = "parsing", Call.outcome = "node", NEW base \in Regions,
         Allocate(Call, base), Advance(Call), LabelsWritten,
         labels' = labels, First(Call).tok # "LABEL"
  PROVE  LabelsWritten'
<1> DEFINE s == Call.start
<1>0. /\ TypeInv /\ src' = src /\ at \in Nat \ {0} /\ at' \in Nat /\ at <= at'
      /\ s \in Nat \ {0} /\ at <= s
      /\ OpMarks' = OpMarks /\ LabelMarks' = LabelMarks /\ LabelMarks \in SUBSET (Nat \ {0})
      /\ \A l \in at .. (at' - 1) : l # s => l \notin LabelMarks
      /\ \A addr, text : Names(addr, text) => Names(addr, text)'
  BY NodeTurn
<1>1. s \notin LabelMarks
  BY <1>0, CallMarks
<1>2. Tabled(labels, LabelMarks)'
  BY <1>0, <1>1, TableKept DEF LabelsWritten
<1>3. ASSUME NEW j \in LabelMarks, j < at'
      PROVE  labels[Count(LabelMarks, j) + 1].location = Count(OpMarks, j)
  <2>1. j < at \/ j \in at .. (at' - 1)
    BY <1>0, <1>3, ReadBetween
  <2>2. j < at
    BY <1>0, <1>1, <2>1
  <2> QED
    BY <2>2 DEF LabelsWritten
<1> QED
  BY <1>0, <1>2, <1>3 DEF LabelsWritten

LEMMA DeclarationsKept ==
  ASSUME IInv, phase = "parsing", Call.outcome = "node", NEW base \in Regions,
         Allocate(Call, base), Advance(Call), DeclarationsWritten,
         declarations' = declarations, First(Call).tok # "IDENT"
  PROVE  DeclarationsWritten'
<1> DEFINE s == Call.start
<1>0. /\ TypeInv /\ src' = src /\ at \in Nat \ {0} /\ at' \in Nat /\ at <= at'
      /\ s \in Nat \ {0} /\ at <= s
      /\ DataMarks' = DataMarks /\ DataMarks \in SUBSET (Nat \ {0})
      /\ \A l \in at .. (at' - 1) : l # s => l \notin DataMarks
      /\ \A addr, text : Names(addr, text) => Names(addr, text)'
  BY NodeTurn
<1>1. s \notin DataMarks
  BY <1>0, CallMarks
<1>2. Tabled(declarations, DataMarks)'
  BY <1>0, <1>1, TableKept DEF DeclarationsWritten
<1>3. ASSUME NEW j \in DataMarks, j < at', ReservedAt(j)'
      PROVE  declarations[Count(DataMarks, j) + 1].bytes = j
  <2>1. j < at \/ j \in at .. (at' - 1)
    BY <1>0, <1>3, ReadBetween
  <2>2. j < at /\ ReservedAt(j)
    BY <1>0, <1>1, <1>3, <2>1 DEF ReservedAt
  <2> QED
    BY <2>2 DEF DeclarationsWritten
<1> QED
  BY <1>0, <1>2, <1>3 DEF DeclarationsWritten

\* The new instruction, and what it was written as.
LEMMA InstructionAdded ==
  ASSUME IInv, phase = "parsing", Call.outcome = "node", NEW base \in Regions,
         Allocate(Call, base), Advance(Call), First(Call).tok = "OP",
         instructions' = Append(instructions, NodeAddr(base) - base)
  PROVE  /\ NodesApart' /\ JumpsInside'
         /\ InstructionsWritten /\ Call.start \in OpMarks => InstructionsWritten'
<1> DEFINE s == Call.start
           n == Len(instructions)
           node == Node(Call, base)
<1>0. /\ TypeInv /\ TextRead /\ src' = src /\ at \in Nat \ {0} /\ at' \in Nat /\ at <= at'
      /\ s \in Nat \ {0} /\ at <= s /\ resolved' = 0
      /\ OpMarks' = OpMarks /\ OpMarks \in SUBSET (Nat \ {0})
      /\ \A l \in at .. (at' - 1) : l # s => l \notin OpMarks
      /\ \A addr, text : Names(addr, text) => Names(addr, text)'
  BY NodeTurn, TextIsRead
<1>1. /\ s < at' /\ s \in 1 .. Len(src) /\ src[s] = First(Call)
      /\ Len(arena) \in Nat /\ n \in Nat /\ base \in Nat /\ instructions \in Seq(Nat)
  BY <1>0, CallMarks, TypeFacts, ArenaAssumption
<1>2. /\ NameAddr(base) = base + Len(arena) + 1 /\ NodeAddr(base) = base + Len(arena)
      /\ node \in NodeCell /\ node.op = src[s].data
      /\ node.op.kind \in JumpKinds \cup {"ppush"} => node.name = NameAddr(base)
  BY <1>0, <1>1, NodeType
<1>3. PICK p \in Nat : p = n + 1
  BY <1>1
<1> HIDE DEF node, n
<1>4. /\ Len(instructions') = p /\ instructions'[p] = Len(arena)
      /\ \A k \in 1 .. n : instructions'[k] = instructions[k]
  <2>1. NodeAddr(base) - base = Len(arena)
    BY <1>1, <1>2
  <2> QED
    BY <1>1, <1>3, <2>1, AppendProperties DEF n
<1>5. PICK m \in Nat : Len(arena') = m /\ Len(arena) < m /\ arena'[Len(arena) + 1] = node
  <2>1. /\ arena' \in Seq(Cell) /\ Len(arena') > Len(arena) + Len(Texts(Call))
        /\ arena'[Len(arena) + 1] = node
    BY <1>0, AllocateStep DEF node
  <2>2. PICK t \in 0 .. 2 : Len(Texts(Call)) = t
    BY <1>0, TextsAreStrings, Zenon
  <2>3. PICK m \in Nat : Len(arena') = m
    BY <2>1
  <2> QED
    BY <1>1, <2>1, <2>2, <2>3
<1>6. ASSUME NEW k \in 1 .. n
      PROVE  /\ Off(k)' = instructions[k] /\ Off(k) = instructions[k]
             /\ instructions[k] \in 0 .. (Len(arena) - 1)
             /\ NodeAt(k)' = NodeAt(k) /\ NodeAt(k) \in NodeCell
  <2>1. /\ Off(k) = instructions[k] /\ instructions[k] \in 0 .. (Len(arena) - 1)
        /\ arena'[instructions[k] + 1] = NodeAt(k) /\ NodeAt(k) \in NodeCell
    BY CallKeeps DEF n
  <2>2. ~(k <= resolved')
    BY <1>0
  <2>3. Off(k)' = instructions[k]
    BY <1>4, <2>2 DEF Off
  <2> QED
    BY <2>1, <2>3 DEF NodeAt
<1>7. Off(p)' = Len(arena) /\ NodeAt(p)' = node
  <2>1. ~(p <= resolved')
    BY <1>0, <1>1, <1>3
  <2>2. Off(p)' = Len(arena)
    BY <1>4, <2>1 DEF Off
  <2> QED
    BY <1>5, <2>2 DEF NodeAt
<1>8. NodesApart'
  <2>1. ASSUME NEW k \in 1 .. p
        PROVE  Off(k)' \in 0 .. (m - 1) /\ NodeAt(k)' \in NodeCell
    <3>1. CASE k = p
      <4>1. Len(arena) \in 0 .. (m - 1)
        BY <1>1, <1>5
      <4> QED
        BY <1>2, <1>7, <3>1, <4>1
    <3>2. CASE k # p
      <4>1. k \in 1 .. n
        BY <1>1, <1>3, <3>2
      <4>2. instructions[k] \in 0 .. (Len(arena) - 1)
        BY <1>6, <4>1
      <4>3. instructions[k] \in 0 .. (m - 1)
        BY <1>1, <1>5, <4>2
      <4> QED
        BY <1>6, <4>1, <4>3
    <3> QED
      BY <3>1, <3>2
  <2>2. ASSUME NEW k \in 1 .. p, NEW l \in 1 .. p, k < l
        PROVE  Off(k)' < Off(l)'
    <3>1. k \in 1 .. n
      BY <1>1, <1>3, <2>2
    <3>2. Off(k)' = instructions[k] /\ instructions[k] \in 0 .. (Len(arena) - 1)
      BY <1>6, <3>1
    <3>3. CASE l = p
      <4>1. instructions[k] < Len(arena)
        BY <1>1, <3>2
      <4> QED
        BY <1>7, <3>2, <3>3, <4>1
    <3>4. CASE l # p
      <4>1. l \in 1 .. n
        BY <1>1, <1>3, <3>4
      <4>2. Off(k) < Off(l)
        BY <2>2, <3>1, <4>1 DEF IInv, NodesApart, n
      <4> QED
        BY <1>6, <3>1, <4>1, <4>2
    <3> QED
      BY <3>3, <3>4
  <2> QED
    BY <1>4, <1>5, <2>1, <2>2 DEF NodesApart
<1>9. JumpsInside'
  BY <1>0 DEF JumpsInside
<1>10. ASSUME InstructionsWritten, s \in OpMarks
      PROVE  InstructionsWritten'
  <2>1. /\ n = Count(OpMarks, at) /\ Count(OpMarks, at') = p /\ Count(OpMarks, s) = n
        /\ \A j \in OpMarks : j < at' => j < at \/ j = s
    <3>1. n = Count(OpMarks, at)
      BY <1>10 DEF InstructionsWritten, n
    <3>2. Count(OpMarks, at') = Count(OpMarks, at) + 1 /\ Count(OpMarks, s) = Count(OpMarks, at)
      BY <1>0, <1>1, <1>10, MarkAdded
    <3>3. \A j \in OpMarks : j < at' => j < at \/ j = s
      BY <1>0, <1>1, <1>10, MarkAdded
    <3> QED
      BY <1>3, <3>1, <3>2, <3>3
  <2>2. ASSUME NEW j \in OpMarks, j < at', NEW k, k = Count(OpMarks, j) + 1
        PROVE  /\ Mismatches(src, j, Operands(src[j].data)) = {}
               /\ NodeAt(k)'.op = src[j].data
               /\ src[j].data.kind \in JumpKinds \cup {"ppush"} =>
                    Names(NodeAt(k).name, Token(src, j + 1).data)'
               /\ ~(k <= resolved')
    <3>0. Token(src, j + 1)' = Token(src, j + 1)
      BY <1>0
    <3>1. CASE j < at
      <4>1. k \in 1 .. n
        BY <1>10, <2>2, <3>1, InstructionPlace DEF n
      <4>2. /\ Mismatches(src, j, Operands(src[j].data)) = {} /\ NodeAt(k).op = src[j].data
            /\ src[j].data.kind \in JumpKinds \cup {"ppush"} =>
                 Names(NodeAt(k).name, Token(src, j + 1).data)
        BY <1>10, <2>2, <3>1 DEF InstructionsWritten
      <4>3. NodeAt(k)' = NodeAt(k) /\ ~(k <= resolved')
        BY <1>0, <1>6, <4>1
      <4> QED
        BY <1>0, <3>0, <4>2, <4>3
    <3>2. CASE j = s
      <4>0. k = p
        BY <1>3, <2>1, <2>2, <3>2
      <4>1. NodeAt(k)' = node /\ ~(k <= resolved')
        BY <1>0, <1>1, <1>3, <1>7, <4>0
      <4>2. Mismatches(src, s, Operands(src[s].data)) = {}
        BY <1>0, <1>1, NodeCall DEF TextRead, Call, First
      <4>3. ASSUME src[s].data.kind \in JumpKinds \cup {"ppush"}
            PROVE  Names(NodeAt(k).name, Token(src, j + 1).data)'
        <5>1. /\ TextStart(Call) = s + 1 /\ s + 1 \in TextPlaces(Call)
              /\ Token(src, s + 1) = src[s + 1]
          BY <1>0, <1>1, <4>3, OperandText
        <5>2. NodeAt(k)'.name = NameAddr(base)
          BY <1>2, <4>1, <4>3
        <5>3. PICK addr, text : addr = NameAddr(base) /\ text = src[s + 1].data
          OBVIOUS
        <5>4. Names(addr, text)'
          BY <5>1, <5>3, NameRead
        <5>5. NodeAt(k)'.name = addr /\ Token(src, j + 1)'.data = text
          BY <3>0, <3>2, <5>1, <5>2, <5>3
        <5> QED
          BY <5>4, <5>5
      <4> QED
        BY <1>2, <3>2, <4>1, <4>2, <4>3
    <3> QED
      BY <2>1, <2>2, <3>1, <3>2
  <2>3. Len(instructions') = Count(OpMarks', at')
    BY <1>0, <1>4, <2>1
  <2> QED
    BY <1>0, <2>2, <2>3 DEF InstructionsWritten
<1> QED
  BY <1>8, <1>9, <1>10

LEMMA AddInstructionKeeps ==
  ASSUME IInv, EndAhead, phase = "parsing", AddInstruction(Call)
  PROVE  IInv'
<1>1. PICK base \in Regions :
        Allocate(Call, base) /\ instructions' = Append(instructions, NodeAddr(base) - base)
  BY DEF AddInstruction
<1>2. /\ Call.outcome = "node" /\ First(Call).tok = "OP" /\ Advance(Call)
      /\ labels' = labels /\ declarations' = declarations /\ errcode' = errcode /\ phase' = phase
  BY DEF AddInstruction
<1>3. TypeInv'
  BY AddInstructionTypes DEF IInv
<1>4. /\ NodesApart' /\ JumpsInside'
      /\ InstructionsWritten /\ Call.start \in OpMarks => InstructionsWritten'
  BY <1>1, <1>2, InstructionAdded
<1>5. Order'
  BY <1>2, NodeTurn, <1>1 DEF Order
<1>6. Written'
  <2> SUFFICES ASSUME errcode = 0
               PROVE  /\ \A j \in 1 .. (at' - 1) : WellPlaced(j)'
                      /\ InstructionsWritten' /\ LabelsWritten' /\ DeclarationsWritten'
    BY <1>2 DEF Written
  <2>1. InstructionsWritten /\ LabelsWritten /\ DeclarationsWritten
    BY DEF IInv, Written
  <2> QED
    BY <1>1, <1>2, <1>4, <2>1, TokensAccepted, LabelsKept, DeclarationsKept, OpStarts DEF IInv
<1> QED
  BY <1>3, <1>4, <1>5, <1>6 DEF IInv

LEMMA AddLabelKeeps ==
  ASSUME IInv, EndAhead, phase = "parsing", AddLabel(Call)
  PROVE  IInv'
<1>0. PICK s : s = Call.start
  OBVIOUS
<1> DEFINE label(base) == [name |-> NameAddr(base), location |-> Len(instructions)]
<1>1. PICK base \in Regions : Allocate(Call, base) /\ labels' = Append(labels, label(base))
  BY DEF AddLabel
<1>2. /\ Call.outcome = "node" /\ First(Call).tok = "LABEL" /\ Advance(Call)
      /\ instructions' = instructions /\ declarations' = declarations
      /\ errcode' = errcode /\ phase' = phase
  BY DEF AddLabel
<1>3. TypeInv'
  BY AddLabelTypes DEF IInv
<1>4. /\ TypeInv /\ TextRead /\ src' = src /\ at \in Nat \ {0} /\ at' \in Nat /\ at <= at'
      /\ s \in Nat \ {0} /\ at <= s /\ resolved' = 0
      /\ OpMarks' = OpMarks /\ LabelMarks' = LabelMarks
      /\ OpMarks \in SUBSET (Nat \ {0}) /\ LabelMarks \in SUBSET (Nat \ {0})
      /\ \A l \in at .. (at' - 1) : l # s => l \notin OpMarks
      /\ \A l \in at .. (at' - 1) : l # s => l \notin LabelMarks
      /\ \A addr, text : Names(addr, text) => Names(addr, text)'
  BY <1>0, <1>1, <1>2, NodeTurn, TextIsRead
<1>5. s \in LabelMarks /\ s \notin OpMarks /\ s < at' /\ src[s] = First(Call)
  BY <1>0, <1>2, <1>4, CallMarks
<1>6. NodesApart' /\ JumpsInside'
  BY <1>1, <1>2, NodesKept
<1>7. Order'
  BY <1>2, <1>4 DEF Order
<1>8. Written'
  <2> SUFFICES ASSUME errcode = 0
               PROVE  /\ \A j \in 1 .. (at' - 1) : WellPlaced(j)'
                      /\ InstructionsWritten' /\ LabelsWritten' /\ DeclarationsWritten'
    BY <1>2 DEF Written
  <2>1. InstructionsWritten /\ LabelsWritten /\ DeclarationsWritten
    BY DEF IInv, Written
  <2>2. PICK n \in Nat, p \in Nat : n = Len(labels) /\ p = n + 1
    BY <1>4, TypeFacts
  <2>3. /\ Len(labels') = p /\ labels'[p] = label(base)
        /\ \A k \in 1 .. n : labels'[k] = labels[k]
    BY <1>1, <1>4, <2>2, TypeFacts, AppendProperties
  <2>4. PICK addr, text : addr = NameAddr(base) /\ text = src[s].data
    OBVIOUS
  <2>5. Names(addr, text)'
    <3>1. TextStart(Call) = s /\ s \in TextPlaces(Call)
      BY <1>0, <1>2, <1>4, OwnText
    <3> QED
      BY <1>1, <1>2, <2>4, <3>1, NameRead
  <2>6. labels'[p].name = addr /\ labels'[p].location = Len(instructions)
    BY <2>3, <2>4
  <2> HIDE DEF label
  <2>7. /\ Tabled(labels, LabelMarks)' /\ Count(LabelMarks, s) + 1 = p
        /\ \A j \in LabelMarks : j < at' => j < at \/ j = s
        /\ \A j \in LabelMarks : j < at => Count(LabelMarks, j) + 1 \in 1 .. n
    <3>1. Names(labels[p].name, src[s].data)'
      BY <1>4, <2>4, <2>5, <2>6
    <3>2. PICK old, new, marks : old = labels /\ new = labels' /\ marks = LabelMarks
      OBVIOUS
    <3>3. Tabled(old, marks) /\ marks \in SUBSET (Nat \ {0}) /\ s \in marks
      BY <1>4, <1>5, <2>1, <3>2 DEF LabelsWritten
    <3>4. p = Len(old) + 1 /\ Len(new) = p /\ Names(new[p].name, src[s].data)'
      BY <2>2, <2>3, <3>1, <3>2
    <3>5. Len(old) \in Nat /\ \A k \in 1 .. Len(old) : new[k] = old[k]
      BY <2>2, <2>3, <3>2
    <3>6. \A l \in at .. (at' - 1) : l # s => l \notin marks
      BY <1>4, <3>2
    <3>7. Entered(old, new, marks, s)
      BY <1>4, <1>5, <3>3, <3>4, <3>5, <3>6 DEF Entered
    <3>8. /\ Tabled(new, marks)' /\ Count(marks, s) + 1 = Len(old) + 1
          /\ \A j \in marks : j < at' => j < at \/ j = s
          /\ \A j \in marks : j < at => Count(marks, j) + 1 \in 1 .. Len(old)
      BY <3>7, TableGrows
    <3> QED
      BY <1>4, <2>2, <3>2, <3>8
  <2>8. ASSUME NEW j \in LabelMarks, j < at'
        PROVE  labels'[Count(LabelMarks, j) + 1].location = Count(OpMarks, j)
    <3>1. CASE j < at
      <4>1. Count(LabelMarks, j) + 1 \in 1 .. n
        BY <2>7, <3>1
      <4>2. labels'[Count(LabelMarks, j) + 1] = labels[Count(LabelMarks, j) + 1]
        BY <2>3, <4>1
      <4> QED
        BY <2>1, <3>1, <4>2 DEF LabelsWritten
    <3>2. CASE j = s
      <4>1. Count(OpMarks, s) = Count(OpMarks, at)
        <5>1. \A l \in at .. (s - 1) : l \in at .. (at' - 1)
          <6>1. PICK m \in Nat : at' = m
            BY <1>4
          <6>2. s < m
            BY <1>5, <6>1
          <6>3. \A l \in at .. (s - 1) : l \in at .. (m - 1)
            BY <1>4, <6>2
          <6> QED
            BY <6>1, <6>3
        <5>2. \A l \in at .. (s - 1) : l # s
          BY <1>4
        <5>3. \A l \in at .. (s - 1) : l \notin OpMarks
          BY <1>4, <5>1, <5>2
        <5> QED
          BY <1>4, <5>3, CountSame
      <4>2. Len(instructions) = Count(OpMarks, at)
        BY <2>1 DEF InstructionsWritten
      <4> QED
        BY <2>6, <2>7, <3>2, <4>1, <4>2
    <3> QED
      BY <2>7, <2>8, <3>1, <3>2
  <2>9. LabelsWritten'
    BY <1>4, <2>7, <2>8 DEF LabelsWritten
  <2> QED
    BY <1>1, <1>2, <2>1, <2>9, TokensAccepted, InstructionsKept, DeclarationsKept
<1> QED
  BY <1>3, <1>6, <1>7, <1>8 DEF IInv

LEMMA AddDeclarationKeeps ==
  ASSUME IInv, EndAhead, phase = "parsing", AddDeclaration(Call)
  PROVE  IInv'
<1>0. PICK s : s = Call.start
  OBVIOUS
<1> DEFINE declaration(base, bytes) == [name |-> NameAddr(base), bytes |-> bytes]
<1>1. PICK base \in Regions, bytes \in Bytes(Call) :
        Allocate(Call, base) /\ declarations' = Append(declarations, declaration(base, bytes))
  BY DEF AddDeclaration
<1>2. /\ Call.outcome = "node" /\ First(Call).tok = "IDENT" /\ Advance(Call)
      /\ instructions' = instructions /\ labels' = labels
      /\ errcode' = errcode /\ phase' = phase
  BY DEF AddDeclaration
<1>3. TypeInv'
  BY AddDeclarationTypes DEF IInv
<1>4. /\ TypeInv /\ TextRead /\ src' = src /\ at \in Nat \ {0} /\ at' \in Nat
      /\ s \in Nat \ {0} /\ at <= s /\ resolved' = 0
      /\ DataMarks' = DataMarks /\ DataMarks \in SUBSET (Nat \ {0})
      /\ \A l \in at .. (at' - 1) : l # s => l \notin DataMarks
      /\ \A addr, text : Names(addr, text) => Names(addr, text)'
  BY <1>0, <1>1, <1>2, NodeTurn, TextIsRead
<1>5. s \in DataMarks /\ s < at' /\ src[s] = First(Call)
  BY <1>0, <1>2, <1>4, CallMarks
<1>6. NodesApart' /\ JumpsInside'
  BY <1>1, <1>2, NodesKept
<1>7. Order'
  BY <1>2, <1>4 DEF Order
<1>8. Written'
  <2> SUFFICES ASSUME errcode = 0
               PROVE  /\ \A j \in 1 .. (at' - 1) : WellPlaced(j)'
                      /\ InstructionsWritten' /\ LabelsWritten' /\ DeclarationsWritten'
    BY <1>2 DEF Written
  <2>1. InstructionsWritten /\ LabelsWritten /\ DeclarationsWritten
    BY DEF IInv, Written
  <2>2. PICK n \in Nat, p \in Nat : n = Len(declarations) /\ p = n + 1
    BY <1>4, TypeFacts
  <2>3. /\ Len(declarations') = p /\ declarations'[p] = declaration(base, bytes)
        /\ \A k \in 1 .. n : declarations'[k] = declarations[k]
    BY <1>1, <1>4, <2>2, TypeFacts, AppendProperties
  <2>4. PICK addr, text : addr = NameAddr(base) /\ text = src[s].data
    OBVIOUS
  <2>5. Names(addr, text)'
    <3>1. TextStart(Call) = s /\ s \in TextPlaces(Call)
      BY <1>0, <1>2, <1>4, OwnText
    <3> QED
      BY <1>1, <1>2, <2>4, <3>1, NameRead
  <2>6. declarations'[p].name = addr /\ declarations'[p].bytes = bytes
    BY <2>3, <2>4
  <2>7. ReservedAt(s) => bytes = s
    BY <1>0 DEF Bytes, ReservedAt
  <2> HIDE DEF declaration
  <2>8. /\ Tabled(declarations, DataMarks)' /\ Count(DataMarks, s) + 1 = p
        /\ \A j \in DataMarks : j < at' => j < at \/ j = s
        /\ \A j \in DataMarks : j < at => Count(DataMarks, j) + 1 \in 1 .. n
    <3>1. Names(declarations[p].name, src[s].data)'
      BY <1>4, <2>4, <2>5, <2>6
    <3>2. PICK old, new, marks : old = declarations /\ new = declarations' /\ marks = DataMarks
      OBVIOUS
    <3>3. Tabled(old, marks) /\ marks \in SUBSET (Nat \ {0}) /\ s \in marks
      BY <1>4, <1>5, <2>1, <3>2 DEF DeclarationsWritten
    <3>4. p = Len(old) + 1 /\ Len(new) = p /\ Names(new[p].name, src[s].data)'
      BY <2>2, <2>3, <3>1, <3>2
    <3>5. Len(old) \in Nat /\ \A k \in 1 .. Len(old) : new[k] = old[k]
      BY <2>2, <2>3, <3>2
    <3>6. \A l \in at .. (at' - 1) : l # s => l \notin marks
      BY <1>4, <3>2
    <3>7. Entered(old, new, marks, s)
      BY <1>4, <1>5, <3>3, <3>4, <3>5, <3>6 DEF Entered
    <3>8. /\ Tabled(new, marks)' /\ Count(marks, s) + 1 = Len(old) + 1
          /\ \A j \in marks : j < at' => j < at \/ j = s
          /\ \A j \in marks : j < at => Count(marks, j) + 1 \in 1 .. Len(old)
      BY <3>7, TableGrows
    <3> QED
      BY <1>4, <2>2, <3>2, <3>8
  <2>9. ASSUME NEW j \in DataMarks, j < at', ReservedAt(j)'
        PROVE  declarations'[Count(DataMarks, j) + 1].bytes = j
    <3>0. ReservedAt(j)
      BY <1>4, <2>9 DEF ReservedAt
    <3>1. CASE j < at
      <4>1. Count(DataMarks, j) + 1 \in 1 .. n
        BY <2>8, <3>1
      <4>2. declarations'[Count(DataMarks, j) + 1] = declarations[Count(DataMarks, j) + 1]
        BY <2>3, <4>1
      <4> QED
        BY <2>1, <3>0, <3>1, <4>2 DEF DeclarationsWritten
    <3>2. CASE j = s
      BY <2>6, <2>7, <2>8, <3>0, <3>2
    <3> QED
      BY <2>8, <2>9, <3>1, <3>2
  <2>10. DeclarationsWritten'
    BY <1>4, <2>8, <2>9 DEF DeclarationsWritten
  <2> QED
    BY <1>1, <1>2, <2>1, <2>10, TokensAccepted, InstructionsKept, LabelsKept
<1> QED
  BY <1>3, <1>6, <1>7, <1>8 DEF IInv

\* Behind an error nothing is claimed any more: the second loop is not run.
LEMMA ReportErrorKeeps ==
  ASSUME IInv, phase = "parsing", ReportError(Call)
  PROVE  IInv'
<1>1. PICK base \in Regions : Allocate(Call, base)
  BY DEF ReportError
<1>2. /\ Call.outcome = "error" /\ Advance(Call) /\ errcode' = -1 /\ phase' = phase
      /\ instructions' = instructions
  BY DEF ReportError, tableVars
<1>3. TypeInv'
  BY OtherCallTypes DEF IInv
<1>4. NodesApart' /\ JumpsInside'
  BY <1>1, <1>2, NodesKept
<1>5. Order'
  BY <1>1, <1>2, CallKeeps DEF Order
<1>6. Written'
  BY <1>2 DEF Written
<1> QED
  BY <1>3, <1>4, <1>5, <1>6 DEF IInv

LEMMA EndOfFileKeeps ==
  ASSUME IInv, EndAhead, phase = "parsing", EndOfFile(Call)
  PROVE  IInv'
<1>1. PICK base \in Regions : Allocate(Call, base)
  BY DEF EndOfFile
<1>2. /\ Call.outcome = "node" /\ First(Call).tok = "EOF" /\ Advance(Call) /\ phase' = Verdict
      /\ instructions' = instructions /\ labels' = labels /\ declarations' = declarations
      /\ errcode' = errcode
  BY DEF EndOfFile, tableVars
<1>3. TypeInv'
  BY OtherCallTypes DEF IInv
<1>4. NodesApart' /\ JumpsInside'
  BY <1>1, <1>2, NodesKept
<1>5. Order'
  <2>1. phase' \in {"resolving", "rejected"} /\ (phase' = "resolving" => errcode' = 0)
    BY <1>2 DEF Verdict
  <2>2. at' <= Len(src') => src'[at' - 1].tok = "EOF"
    BY <1>2, Advanced, EndRead, TextIsRead DEF IInv
  <2>3. resolved' = 0
    BY <1>2 DEF IInv, Order, Advance
  <2> QED
    BY <2>1, <2>2, <2>3 DEF Order
<1>6. Written'
  <2> SUFFICES ASSUME errcode = 0
               PROVE  /\ \A j \in 1 .. (at' - 1) : WellPlaced(j)'
                      /\ InstructionsWritten' /\ LabelsWritten' /\ DeclarationsWritten'
    BY <1>2 DEF Written
  <2>1. InstructionsWritten /\ LabelsWritten /\ DeclarationsWritten
    BY DEF IInv, Written
  <2> QED
    BY <1>1, <1>2, <2>1, TokensAccepted, InstructionsKept, LabelsKept, DeclarationsKept
<1> QED
  BY <1>3, <1>4, <1>5, <1>6 DEF IInv

LEMMA ParseKeeps ==
  ASSUME IInv, EndAhead, Parse
  PROVE  IInv'
<1>0. phase = "parsing"
  BY DEF Parse
<1>1. CASE AddInstruction(Call)
  BY <1>0, <1>1, AddInstructionKeeps
<1>2. CASE AddLabel(Call)
  BY <1>0, <1>2, AddLabelKeeps
<1>3. CASE AddDeclaration(Call)
  BY <1>0, <1>3, AddDeclarationKeeps
<1>4. CASE ReportError(Call)
  BY <1>0, <1>4, ReportErrorKeeps
<1>5. CASE EndOfFile(Call)
  BY <1>0, <1>5, EndOfFileKeeps
<1>6. CASE NotImplemented(Call)
  BY <1>6, StopKeeps DEF NotImplemented
<1>7. CASE OutOfMemory(Call)
  BY <1>7, StopKeeps DEF OutOfMemory
<1>8. CASE Refused(Call)
  BY <1>8, StopKeeps DEF Refused
<1>9. CASE NodeMoved(Call)
  BY <1>9, StopKeeps DEF NodeMoved
<1> QED
  BY <1>1, <1>2, <1>3, <1>4, <1>5, <1>6, <1>7, <1>8, <1>9 DEF Parse, Call
-----------------------------------------------------------------------------
(* The theorems.                                                           *)

LEMMA InitHolds ==
  ASSUME Init
  PROVE  IInv
<1>1. Text(src) /\ Len(src) \in Nat
  <2>1. Text(src)
    BY SourcesAssumption DEF Init, Text
  <2> QED
    BY <2>1, TextLen
<1>2. /\ <<>> \in Seq(Cell) /\ <<>> \in Seq(Nat) /\ <<>> \in Seq([name : Nat, location : Nat])
      /\ <<>> \in Seq([name : Nat, bytes : Nat]) /\ Len(<<>>) = 0
  OBVIOUS
<1>3. TypeInv
  <2>1. /\ src \in Sources /\ at \in 1 .. (Len(src) + 1) /\ section \in Sections
        /\ region \in Regions /\ arena = <<>> /\ size = ArenaSize /\ errcode = 0
        /\ instructions = <<>> /\ labels = <<>> /\ declarations = <<>> /\ resolved = 0
        /\ phase = "parsing"
    BY <1>1 DEF Init, Sections
  <2>2. caps \in [Arrays -> Nat \ {0}] /\ \A a \in Arrays : caps[a] \in Nat
    BY ArenaAssumption DEF Init
  <2>3. ArenaSize \in ArenaSize .. MaxArena /\ 0 <= ArenaSize
    BY ArenaAssumption
  <2>4. TypeOK
    BY <1>2, <2>1, <2>2, <2>3 DEF TypeOK
  <2>5. CapacityCovers
    BY <1>2, <2>1, <2>2 DEF CapacityCovers, Arrays
  <2> QED
    BY <2>1, <2>4, <2>5 DEF TypeInv
<1>4. NodesApart /\ JumpsInside /\ Order
  BY DEF Init, NodesApart, JumpsInside, Order
<1>5. Written
  <2>1. \A marks : Count(marks, at) = 0
    BY CountStart DEF Init
  <2>2. \A j \in Nat \ {0} : ~(j < at)
    BY DEF Init
  <2>3. /\ OpMarks \in SUBSET (Nat \ {0}) /\ LabelMarks \in SUBSET (Nat \ {0})
        /\ DataMarks \in SUBSET (Nat \ {0})
    BY <1>3, <1>1, MarkSets
  <2>4. Tabled(labels, LabelMarks) /\ Tabled(declarations, DataMarks)
    BY <2>1 DEF Init, Tabled
  <2>5. InstructionsWritten
    BY <2>1, <2>2, <2>3 DEF Init, InstructionsWritten
  <2>6. LabelsWritten /\ DeclarationsWritten
    BY <2>2, <2>3, <2>4 DEF LabelsWritten, DeclarationsWritten
  <2>7. 1 .. (at - 1) = {}
    BY DEF Init
  <2> QED
    BY <2>5, <2>6, <2>7 DEF Written
<1> QED
  BY <1>3, <1>4, <1>5 DEF IInv

LEMMA StutterKeeps ==
  ASSUME IInv, UNCHANGED vars
  PROVE  IInv'
<1>1. UNCHANGED <<src, parserVars, arenaVars, tableVars, errcode, resolved, phase>>
  BY DEF vars
<1>2. NodesApart' /\ JumpsInside' /\ Written'
  BY <1>1, PhaseOnly
<1>3. TypeInv' /\ Order'
  BY <1>1 DEF parserVars, arenaVars, tableVars, IInv, TypeInv, TypeOK, CapacityCovers, Order
<1> QED
  BY <1>2, <1>3 DEF IInv

\* IInv and EndAhead together are an inductive invariant of parse_src.
THEOREM LoaderInvariant == Spec => [](IInv /\ EndAhead)
<1>1. Init => IInv /\ EndAhead
  BY InitHolds, EndAheadStarts
<1>2. IInv /\ EndAhead /\ [Next]_vars => IInv' /\ EndAhead'
  <2>1. IInv /\ EndAhead /\ [Next]_vars => IInv'
    BY ParseKeeps, LinkKeeps, StutterKeeps DEF Next
  <2>2. IInv /\ EndAhead /\ [Next]_vars => EndAhead'
    BY EndAheadKept DEF IInv
  <2> QED
    BY <2>1, <2>2
<1> QED
  BY <1>1, <1>2, PTL DEF Spec

\* Every table, cell and address of parse_src keeps its type, the arena is
\* never fuller than its region, and no label lies behind the instructions.
THEOREM LoaderTypes == Spec => []TypeOK
<1>1. IInv => TypeOK
  BY DEF IInv, TypeInv
<1> QED
  BY <1>1, LoaderInvariant, PTL

\* insert_label, insert_declaration and context_push_instruction never write
\* behind the end of their array.
THEOREM NoOverrun == Spec => []CapacityCovers
<1>1. IInv => CapacityCovers
  BY DEF IInv, TypeInv
<1> QED
  BY <1>1, LoaderInvariant, PTL

\* An error anywhere in the text keeps parse_src out of the second loop and
\* the program from being executed, and what is executed was read to its end.
THEOREM NothingFromErrors == Spec => []ErrorsForbidExecution
<1>1. ASSUME IInv, phase \in {"resolving", "executing"}
      PROVE  /\ \A j \in Read :
                  /\ src[j].tok \notin {"ILLEGAL", "SLIT"}
                  /\ IsOp(j) => Mismatches(src, j, Operands(src[j].data)) = {}
                  /\ src[j].tok = "OP" => IsOp(j) \/ TakenFor(src[j]) \in {"[", "]"}
             /\ at <= Len(src) => src[at - 1].tok = "EOF"
  <2>1. errcode = 0 /\ (at <= Len(src) => src[at - 1].tok = "EOF")
    BY <1>1 DEF IInv, Order
  <2>2. TypeInv /\ InstructionsWritten
        /\ \A j \in 1 .. (at - 1) : WellPlaced(j)
    BY <1>1, <2>1 DEF IInv, Written
  <2>3. ASSUME NEW j \in Read, IsOp(j)
        PROVE  Mismatches(src, j, Operands(src[j].data)) = {}
    <3>1. at \in Nat /\ at <= Len(src) + 1 /\ Len(src) \in Nat
      BY <2>2, TypeFacts DEF TypeInv, TypeOK
    <3>2. j \in OpMarks /\ j < at
      BY <2>3, <3>1 DEF OpMarks, Read
    <3> QED
      BY <2>2, <3>2 DEF InstructionsWritten
  <2> QED
    BY <2>1, <2>2, <2>3 DEF Read, WellPlaced, Brackets
<1>2. IInv => ErrorsForbidExecution
  BY <1>1 DEF ErrorsForbidExecution
<1> QED
  BY <1>2, LoaderInvariant, PTL

\* The address the second loop leaves in the place of an offset is that of
\* the same node.
LEMMA Addressed ==
  ASSUME TypeInv, NodesApart, resolved = Len(instructions), NEW k \in 1 .. Len(instructions)
  PROVE  /\ Live(instructions[k]) /\ CellAt(instructions[k]) = NodeAt(k)
         /\ NodeAt(k) \in NodeCell
<1>1. Off(k) = instructions[k] - region /\ instructions[k] \in Nat /\ region \in Nat
  <2>1. instructions[k] \in Nat
    BY TypeFacts, ElementOfSeq
  <2>2. k <= resolved
    BY TypeFacts
  <2> QED
    BY <2>1, <2>2, TypeFacts DEF Off
<1>2. Off(k) \in 0 .. (Len(arena) - 1) /\ NodeAt(k) \in NodeCell
  BY DEF NodesApart
<1> QED
  BY <1>1, <1>2 DEF Live, CellAt, NodeAt

\* What is executed is what was written: each mnemonic that starts a line,
\* and each ',', '[' and ']' that does, is one instruction, every jump and
\* call goes to the first label of its name, every ppush to the first block
\* of its name, wherever the region was moved meanwhile.
THEOREM ProgramAsWritten == Spec => []LinkedAsWritten
<1>1. ASSUME IInv, phase = "executing"
      PROVE  /\ Len(instructions) = OpsBefore(at)
             /\ \A j \in Read :
                  IsOp(j) => LET addr == instructions[OpsBefore(j) + 1]
                             IN  Live(addr) /\ Linked(CellAt(addr), j)
  <2>1. /\ TypeInv /\ NodesApart /\ resolved = Len(instructions) /\ InstructionsWritten
    BY <1>1 DEF IInv, Order, Written
  <2>2. /\ Len(src) \in Nat /\ at \in 1 .. (Len(src) + 1) /\ at \in Nat
        /\ \A j \in 1 .. (Len(src) + 1) : OpsBefore(j) = Count(OpMarks, j)
    BY <2>1, TypeFacts, MarkSets DEF TypeInv, TypeOK
  <2>3. ASSUME NEW j \in Read, IsOp(j), NEW addr, addr = instructions[OpsBefore(j) + 1]
        PROVE  Live(addr) /\ Linked(CellAt(addr), j)
    <3>1. j \in OpMarks /\ j < at /\ j \in 1 .. (Len(src) + 1)
      BY <2>2, <2>3 DEF OpMarks, Read
    <3>2. PICK k \in 1 .. Len(instructions) : k = Count(OpMarks, j) + 1
      BY <1>1, <2>1, <3>1, InstructionPlace
    <3>3. Linked(NodeAt(k), j)
      <4>1. k <= resolved
        BY <2>1, <3>2, TypeFacts
      <4> QED
        BY <2>1, <3>1, <3>2, <4>1 DEF InstructionsWritten
    <3>4. addr = instructions[k]
      BY <2>2, <2>3, <3>1, <3>2
    <3> QED
      BY <2>1, <3>3, <3>4, Addressed
  <2> QED
    BY <2>1, <2>2, <2>3 DEF InstructionsWritten
<1>2. IInv => LinkedAsWritten
  BY <1>1 DEF LinkedAsWritten
<1> QED
  BY <1>2, LoaderInvariant, PTL

LEMMA LoadedIsProgram ==
  ASSUME IInv, phase = "executing"
  PROVE  Loaded \in Seq(Instruction) /\ WellFormed(Loaded)
<1> DEFINE At(k) == CellAt(instructions[k])
           Whole(k) == [kind |-> At(k).op.kind, ty |-> At(k).op.ty, n |-> At(k).n,
                       offset |-> At(k).offset, val |-> At(k).lit]
<1>1. /\ TypeInv /\ NodesApart /\ resolved = Len(instructions) /\ JumpsInside
  BY DEF IInv, Order
<1>2. PICK n \in Nat : n = Len(instructions)
  BY <1>1, TypeFacts
<1>3. Loaded = [k \in 1 .. n |-> Whole(k)]
  BY <1>2 DEF Loaded
<1>4. ASSUME NEW k \in 1 .. n
      PROVE  /\ Whole(k) \in Instruction
             /\ Whole(k).kind \in JumpKinds => k + Whole(k).offset \in 0 .. n
  <2>1. At(k) = NodeAt(k) /\ At(k) \in NodeCell
    BY <1>1, <1>2, Addressed
  <2>2. Whole(k) \in Instruction
    BY <2>1 DEF NodeCell, Instruction
  <2>3. k \in 1 .. resolved
    BY <1>1, <1>2
  <2>4. NodeAt(k).op.kind \in JumpKinds => k + NodeAt(k).offset \in 0 .. n
    BY <1>1, <1>2, <2>3 DEF JumpsInside
  <2> QED
    BY <2>1, <2>2, <2>4
<1> HIDE DEF Whole
<1>5. /\ Loaded \in Seq(Instruction) /\ Len(Loaded) = n
      /\ \A k \in 1 .. n : Loaded[k] = Whole(k)
  BY <1>3, <1>4
<1>6. WellFormed(Loaded)
  BY <1>4, <1>5 DEF WellFormed
<1> QED
  BY <1>5, <1>6

\* begin_execution is handed a program: no jump of it leaves the array, which
\* is what the fetch loop relies on without a check.
THEOREM ProgramLoaded == Spec => []LoadsProgram
<1>1. IInv => LoadsProgram
  BY LoadedIsProgram DEF LoadsProgram
<1> QED
  BY <1>1, LoaderInvariant, PTL
-----------------------------------------------------------------------------
(* What the whole of main needs to know of a text that was accepted.      *)

\* What was accepted ends with the text: behind its end there is nothing, or
\* the end of file itself.
LEMMA AcceptedEnds ==
  ASSUME TypeInv, Order, EndAhead, phase = "executing"
  PROVE  /\ \A j \in 1 .. (at - 2) : ~EndsText(src, j)
         /\ at <= Len(src) => at > 1 /\ EndsText(src, at - 1)
BY DEF EndAhead, Order

\* Each instruction handed over is its mnemonic, and the offset of a transfer
\* leads from the instruction behind it to the first mark of its name.
LEMMA LoadedAsWritten ==
  ASSUME IInv, phase = "executing", NEW j \in OpMarks, j < at
  PROVE  LET k     == Count(OpMarks, j) + 1
             name  == Token(src, j + 1).data
             found == {i \in LabelMarks : i < at /\ src[i].data = name}
         IN  /\ k \in 1 .. Len(Loaded)
             /\ Loaded[k].kind = src[j].data.kind
             /\ src[j].data.kind \in JumpKinds =>
                  /\ j + 1 <= Len(src) /\ found # {}
                  /\ k + Loaded[k].offset = Count(OpMarks, Min(found))
<1> DEFINE k     == Count(OpMarks, j) + 1
           name  == Token(src, j + 1).data
           found == {i \in LabelMarks : i < at /\ src[i].data = name}
<1>1. /\ TypeInv /\ NodesApart /\ resolved = Len(instructions) /\ InstructionsWritten
  BY DEF IInv, Order, Written
<1>2. /\ Len(src) \in Nat /\ at \in 1 .. (Len(src) + 1) /\ at \in Nat /\ j \in 1 .. Len(src)
      /\ \A i \in 1 .. (Len(src) + 1) : OpsBefore(i) = Count(OpMarks, i)
  BY <1>1, TypeFacts, MarkSets DEF TypeInv, TypeOK
<1>3. k \in 1 .. Len(instructions)
  BY <1>1, InstructionPlace
<1>4. Linked(NodeAt(k), j) /\ Mismatches(src, j, Operands(src[j].data)) = {}
  <2>1. k <= resolved
    BY <1>1, <1>3, TypeFacts
  <2> QED
    BY <1>1, <2>1 DEF InstructionsWritten
<1>5. Len(Loaded) = Len(instructions)
  BY <1>1, TypeFacts DEF Loaded
<1> HIDE DEF k
<1>6. Loaded[k].kind = NodeAt(k).op.kind /\ Loaded[k].offset = NodeAt(k).offset
  <2>1. CellAt(instructions[k]) = NodeAt(k)
    BY <1>1, <1>3, Addressed
  <2> QED
    BY <1>3, <2>1 DEF Loaded
<1>7. Loaded[k].kind = src[j].data.kind
  BY <1>4, <1>6 DEF Linked
<1>8. ASSUME src[j].data.kind \in JumpKinds
      PROVE  /\ j + 1 <= Len(src) /\ found # {}
             /\ k + Loaded[k].offset = Count(OpMarks, Min(found))
  <2>1. Labels(name) # {} /\ OpsBefore(j) + 1 + NodeAt(k).offset = LabelPlace(name)
    BY <1>4, <1>8 DEF Linked
  <2>2. Labels(name) = found
    <3>1. \A i \in 1 .. Len(src) :
            src[i] = Tok("LABEL", name) <=> src[i].tok = "LABEL" /\ src[i].data = name
      <4>1. \A i \in 1 .. Len(src) : src[i] = Tok(src[i].tok, src[i].data)
        BY <1>1, TextIsRead DEF TextRead, Text, WellFormedToken
      <4> QED
        BY <4>1 DEF Tok
    <3>2. \A i : i \in Read <=> i \in 1 .. Len(src) /\ i < at
      BY <1>2 DEF Read
    <3> QED
      BY <3>1, <3>2 DEF Labels, LabelMarks
  <2>3. Min(found) \in 1 .. (Len(src) + 1)
    <3>1. found \in SUBSET Nat /\ found # {}
      BY <2>1, <2>2 DEF LabelMarks
    <3>2. Min(found) \in found
      BY <3>1, MinIsLeast
    <3> QED
      BY <1>2, <3>2 DEF LabelMarks
  <2>4. k + Loaded[k].offset = Count(OpMarks, Min(found))
    <3>1. OpsBefore(j) + 1 = k
      BY <1>2 DEF k
    <3>2. LabelPlace(name) = Count(OpMarks, Min(found))
      BY <1>2, <2>2, <2>3 DEF LabelPlace
    <3> QED
      BY <1>6, <2>1, <3>1, <3>2
  <2>5. j + 1 <= Len(src)
    <3>1. Operands(src[j].data)[1] = {"IDENT"} /\ 1 \in 1 .. Len(Operands(src[j].data))
      BY <1>8 DEF Operands, JumpKinds, IndexKinds
    <3>2. Token(src, j + 1).tok = "IDENT"
      BY <1>4, <3>1, OperandsRead
    <3> QED
      BY <1>2, <3>2 DEF Token, Tok
  <2> QED
    BY <2>1, <2>2, <2>4, <2>5
<1> QED
  BY <1>3, <1>5, <1>7, <1>8 DEF k

\* The text is never written.
LEMMA TextStays ==
  ASSUME Next
  PROVE  src' = src
<1>1. CASE Parse
  <2>1. PICK call : \/ AddInstruction(call) \/ AddLabel(call) \/ AddDeclaration(call)
                    \/ ReportError(call) \/ EndOfFile(call)
                    \/ NotImplemented(call) \/ OutOfMemory(call)
                    \/ Refused(call) \/ NodeMoved(call)
    BY <1>1 DEF Parse
  <2> QED
    BY <2>1 DEF AddInstruction, AddLabel, AddDeclaration, ReportError, EndOfFile, Advance,
                NotImplemented, OutOfMemory, Refused, NodeMoved, Stop
<1>2. CASE Link
  BY <1>2 DEF Link, ResolveJump, ResolvePpush, ResolveNothing, Undefined, NameMoved, Execute,
              Patch, Stop
<1> QED
  BY <1>1, <1>2 DEF Next
=============================================================================

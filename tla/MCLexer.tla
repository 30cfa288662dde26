------------------------------ MODULE MCLexer -------------------------------
(***************************************************************************)
(* Files for Lexer: every short sequence over an alphabet with a character *)
(* of each class, every pair of lexemes, whole and broken, and files whose *)
(* length lstat gets wrong.                                                *)
(***************************************************************************)
EXTENDS Lexer

Letters == {"a", "c", "d", "e", "f", "g", "n", "p", "q", "r", "t", "x", "X"}
Figures == {"0", "7", "8"}
HexFigures == Figures \cup {"a", "c", "d", "e", "f"}
SignWords == [c \in TwinSigns |->
                CASE c = "," -> <<"p", "d", "e", "r", "e", "f", "8">>
                  [] c = "[" -> <<"c", "c", "e", "q">>
                  [] OTHER   -> <<"c", "c", "g", "e">>]
Words == {<<"d", "d">>, <<".", "t", "t">>} \cup {SignWords[c] : c \in TwinSigns}
Data == <<"d", "a", "t", "a">>
SectionKinds == [w \in {Data, <<"t", "t">>} |->
                   IF w = Data THEN "SECTION_DATA" ELSE "SECTION_TEXT"]
EscapeMap == [c \in {"0", "n", "\\", "'"} |->
                CASE c = "0" -> "NUL" [] c = "n" -> "\n" [] OTHER -> c]

Strings(alphabet, n) == UNION {[1 .. k -> alphabet] : k \in 0 .. n}

Alphabet == {"a", "x", "0", ".", "-", ":", ";", "\"", "'", "\\", ",", " ", "\n", "EOF"}

ShortFiles == Strings(Alphabet, 3)

Lexemes ==
  {<<"d", "d">>, <<"c", "c", "e", "q">>, <<"d", "d", "a">>, <<"_", "7">>, <<"a", ":">>,
   <<"0">>, <<"7", "0">>,
   <<"0", "x">>, <<"0", "X", "a", "7">>, <<"0", "x", "a", "d", "d", "a">>, <<"0", "a">>,
   <<"7", ".", "7">>, <<"-">>, <<"-", "7">>, <<"-", ".", "0">>, <<".">> \o Data,
   <<".", "t", "t">>, <<".", "a">>, <<"\"", "\"">>, <<"\"", "a", "7", "\"">>,
   <<"\"", "\\", "n", "\\", "\\", "\"">>, <<"\"", "\\", "\"">>, <<"\"", "a">>,
   <<"'", "a", "'">>, <<"'", "\\", "'", "'">>, <<"'", "\\", "a">>, <<"'", "'">>,
   <<";", "a">>, <<";", "a", "\n">>, <<"\t">>, <<",">>, <<"[">>, <<"]">>, <<"\n">>, <<"?">>,
   <<"a", "d", "a", "t", "a">>, <<"EOF">>}

PairFiles == {a \o b : a \in Lexemes, b \in Lexemes}

Lines == {<<"d", "d", " ", "a", "\n">>, <<";", " ", "'", "\n">>, <<"\n">>, <<"7", ";", "\n">>}

LineFiles == {a \o b \o c : a \in Lines, b \in Lines, c \in Lines \cup {<<";", "a">>, <<"a">>}}

\* A symbolic link: its own length is that of the path it holds.
Links == {[file |-> f, len |-> n] : f \in {<<"a", " ", "7", "\n", "0">>, <<"d", "d">>}, n \in 0 .. 9}

AllInputs ==
  {[file |-> f, len |-> Len(f)] : f \in ShortFiles \cup PairFiles \cup LineFiles} \cup Links
=============================================================================

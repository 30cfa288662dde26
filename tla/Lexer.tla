------------------------------- MODULE Lexer --------------------------------
(***************************************************************************)
(* lexer_next of lexer.c and its recognisers, over the buffer of           *)
(* LexerBuffer.  A step is one turn of one of their loops; mode says in    *)
(* which of them the lexer is, "next" that lexer_next is at its label      *)
(* tailcall.                                                               *)
(*                                                                         *)
(* A token keeps its kind, the characters that strtol, atol, atof or the   *)
(* copy into the arena get (word), and its span; the word of a KEYWORD     *)
(* stands for its kind in the enumeration.  Its place in the file (from,   *)
(* to) is added for the properties.                                        *)
(***************************************************************************)
EXTENDS LexerBuffer, FiniteSetsExt

CONSTANTS
  SBUF_SIZE,            \* bytes of the local buf of a recogniser
  Alphas, Digits, HexDigits,   \* isalpha, isdigit, is_valid_digit
  Keywords,             \* the words of TOK_KW in tokens.h
  Twins,                \* the keywords with the kinds of ',', '[' and ']'
  SectionNames,         \* the words behind a dot, with the kind they give
  Escapes               \* the letters behind a backslash, with what they stand for

ASSUME SbufAssumption == SBUF_SIZE \in Nat \ {0, 1}

VARIABLES
  mode,     \* the loop lexer_next is in, or how it ended
  word,     \* the characters in buf, up to p, or in the string builder
  begun,    \* the taken characters, row and col where the token starts
  tokens    \* what the calls of lexer_next have returned

vars == <<bufferVars, mode, word, begun, tokens>>

IdentStart == Alphas \cup {"_"}
IdentChars == IdentStart \cup Digits       \* is_ident
NumChars   == Digits \cup {"."}            \* is_num_lit
Blanks     == {" ", "\t"}
BaseMarks  == {"x", "X"}                   \* is_valid_base

\* Three characters are tokens whose kind is their code, and so is that of a
\* mnemonic: tokens.h counts the mnemonics on from '\n', through these codes.
TwinSigns == {",", "[", "]"}

\* The characters that are a token of their own.
Singles == TwinSigns \cup {"\n"}

\* What the loop of a recogniser that fills buf goes on with.
More == [ident |-> IdentChars, section |-> IdentChars, number |-> NumChars,
         signed |-> NumChars, hex |-> HexDigits]

Collecting == DOMAIN More

\* The characters with which a recogniser begins, and what it has in buf then.
Openers ==
  [c \in {";", ".", "\"", "'", "-"} |->
     CASE c = ";" -> "comment" [] c = "." -> "section" [] c = "\"" -> "string"
       [] c = "'" -> "char"    [] OTHER   -> "signed"]

\* The characters that lexer.c compares with, letters and digits apart.
Signs == Blanks \cup Singles \cup DOMAIN Openers \cup {":", "\\"}

AllIn(s, chars) == \A k \in 1 .. Len(s) : s[k] \in chars

IdentShape(s) == s # <<>> /\ s[1] \in IdentStart /\ AllIn(s, IdentChars)

\* The classes of <ctype.h>, and the words behind TOK_KW and CMP_TOK: the
\* first also lists .data and .text.
ASSUME CharAssumption ==
  /\ Alphas \cap Digits = {}
  /\ IdentChars \cap Signs = {}
  /\ "0" \in Digits /\ BaseMarks \subseteq Alphas
  /\ HexDigits \subseteq (Alphas \cup Digits) \ BaseMarks
  /\ EOF \notin IdentChars \cup Signs \cup DOMAIN Escapes
  /\ "\"" \notin DOMAIN Escapes
  /\ \A w \in DOMAIN SectionNames :
       w \in Seq(IdentChars) /\ SectionNames[w] \in {"SECTION_DATA", "SECTION_TEXT"}
  /\ \A w \in Keywords :
       IdentShape(w) \/ w \in {<<".">> \o name : name \in DOMAIN SectionNames}
  /\ Keywords \subseteq Seq(STRING) /\ Twins \in [TwinSigns -> Keywords]

Init ==
  /\ InitBuffer
  /\ mode = "next" /\ word = <<>> /\ tokens = <<>>
  /\ begun = [taken |-> 0, pos |-> pos]
-----------------------------------------------------------------------------
(* lexer_next, up to its recognisers.                                      *)

Here == [taken |-> Taken, pos |-> pos]

\* Variant: the span ends where the lexer stands.
TokenUpToHere(origin, kind, chars) ==
  [kind |-> kind, word |-> chars, from |-> origin.taken, to |-> len - remaining',
   start |-> origin.pos, end |-> pos']

TokenOf(origin, kind, chars) ==
  [kind |-> kind, word |-> chars, from |-> origin.taken, to |-> len - remaining',
   start |-> origin.pos, end |-> prev']

\* The label exit: the token is returned, and the next call begins.  The
\* step has to say first what becomes of the buffer.
Emit(origin, kind, chars) ==
  /\ tokens' = Append(tokens, TokenOf(origin, kind, chars))
  /\ mode' = "next" /\ word' = <<>> /\ begun' = begun

\* At the end of the file every further call returns T_EOF again and changes
\* nothing.  A byte 0xFF gives T_EOF too, with the rest still to come.
EndOfFile ==
  /\ mode = "next" /\ Peek = EOF
  /\ Bump
  /\ tokens' = Append(tokens, TokenOf(Here, "EOF", <<>>))
  /\ mode' = IF remaining = 0 THEN "done" ELSE "next"
  /\ UNCHANGED <<word, begun>>

SkipBlank ==
  /\ mode = "next" /\ Peek \in Blanks
  /\ Bump
  /\ UNCHANGED <<mode, word, begun, tokens>>

SingleChar ==
  /\ mode = "next" /\ Peek \in Singles
  /\ Bump
  /\ \/ Peek = "\n" /\ Emit(Here, "EOL", <<>>)
     \/ Peek # "\n" /\ Emit(Here, "KEYWORD", Twins[Peek])

Stray ==
  /\ mode = "next"
  /\ Peek \notin {EOF} \cup Blanks \cup IdentChars \cup Singles \cup DOMAIN Openers
  /\ Bump
  /\ Emit(Here, "ILLEGAL", <<>>)

\* A recogniser begins; identifiers and numbers have their first character
\* in buf already.
Open ==
  /\ mode = "next" /\ Peek \in IdentChars \cup DOMAIN Openers
  /\ Bump
  /\ begun' = Here
  /\ mode' = IF Peek \in IdentStart THEN "ident"
             ELSE IF Peek \in Digits THEN "number" ELSE Openers[Peek]
  /\ word' = IF Peek \in IdentChars \cup {"-"} THEN <<Peek>> ELSE <<>>
  /\ UNCHANGED tokens
-----------------------------------------------------------------------------
(* Identifiers, section names and numbers.                                 *)

\* Variant: a buffer of SBUF_SIZE characters has room for one more.
RoomToTheBrim == Len(word) <= SBUF_SIZE

Room == Len(word) < SBUF_SIZE

Collect ==
  /\ mode \in Collecting /\ Room
  /\ Peek \in More[mode]
  /\ Bump
  /\ word' = Append(word, Peek)
  /\ UNCHANGED <<mode, begun, tokens>>

\* Nothing stops p at the end of buf: the next character, or the NUL behind
\* the last one (for hex digits the read of strtol), lies outside.
Overrun ==
  /\ mode \in Collecting /\ ~Room
  /\ mode' = "overrun"
  /\ UNCHANGED <<bufferVars, word, begun, tokens>>

\* c == '0' && isalpha(peak): a base other than 10 is announced.
Prefixed == mode = "number" /\ word = <<"0">> /\ Peek \in Alphas

\* Variant: p stays behind the zero.
BeginHexBehindZero ==
  /\ Prefixed /\ Peek \in BaseMarks
  /\ Bump
  /\ mode' = "hex" /\ word' = word
  /\ UNCHANGED <<begun, tokens>>

\* --p: the digits go over the zero.
BeginHex ==
  /\ Prefixed /\ Peek \in BaseMarks
  /\ Bump
  /\ mode' = "hex" /\ word' = <<>>
  /\ UNCHANGED <<begun, tokens>>

\* The letter is not consumed: it begins the next token.
BadBase ==
  /\ Prefixed /\ Peek \notin BaseMarks
  /\ UNCHANGED bufferVars
  /\ Emit(begun, "ILLEGAL", <<>>)

Finished(m) == mode = m /\ Room /\ Peek \notin More[m]

\* The words of TOK_KW come before the colon of a label.
FinishIdent ==
  /\ Finished("ident")
  /\ \/ /\ word \in Keywords
        /\ UNCHANGED bufferVars
        /\ Emit(begun, "KEYWORD", word)
     \/ /\ word \notin Keywords /\ Peek = ":"
        /\ Bump
        /\ Emit(begun, "LABEL", word)
     \/ /\ word \notin Keywords /\ Peek # ":"
        /\ UNCHANGED bufferVars
        /\ Emit(begun, "IDENT", word)

FinishSection ==
  /\ Finished("section")
  /\ UNCHANGED bufferVars
  /\ Emit(begun, IF word \in DOMAIN SectionNames THEN SectionNames[word] ELSE "ILLEGAL", <<>>)

\* Variant: the sign is forgotten by the time the kind is chosen.
NumberKindUnsigned == IF \E k \in 1 .. Len(word) : word[k] = "." THEN "FLOAT" ELSE "UINT"

\* is_float is set by any dot behind the first character.
NumberKind ==
  IF \E k \in 1 .. Len(word) : word[k] = "." THEN "FLOAT"
  ELSE IF mode = "signed" THEN "INT" ELSE "UINT"

FinishNumber ==
  /\ Finished("number") \/ Finished("signed")
  /\ ~Prefixed
  /\ UNCHANGED bufferVars
  /\ Emit(begun, NumberKind, word)

\* With no digit behind the x the zero is still in buf.
FinishHex ==
  /\ Finished("hex")
  /\ UNCHANGED bufferVars
  /\ Emit(begun, "UINT", IF word = <<>> THEN <<"0">> ELSE word)
-----------------------------------------------------------------------------
(* Comments, strings and characters.                                       *)

\* Variant: the newline goes with the comment.
CommentWithNewline ==
  /\ mode = "comment"
  /\ Bump
  /\ mode' = IF Peek = "\n" THEN "next" ELSE "comment"
  /\ UNCHANGED <<word, begun, tokens>>

\* Variant: the loop waits for a NUL.
CommentUpToNul ==
  /\ mode = "comment"
  /\ IF Peek = NUL
     THEN mode' = "next" /\ UNCHANGED bufferVars
     ELSE mode' = mode /\ Bump
  /\ UNCHANGED <<word, begun, tokens>>

\* The newline is left for lexer_next.  At the end of the file lexer_bump
\* does nothing and the loop goes round for ever.
Comment ==
  /\ mode = "comment"
  /\ IF Peek = "\n"
     THEN mode' = "next" /\ UNCHANGED bufferVars
     ELSE mode' = mode /\ Bump
  /\ UNCHANGED <<word, begun, tokens>>

\* The first character is pushed before the loop looks at it.
Pushed(c) == IF word = <<>> THEN <<c>> ELSE word

StringChar ==
  /\ mode = "string"
  /\ Bump
  /\ \/ Peek = "\"" /\ Emit(begun, "SLIT", Pushed(Peek))
     \/ Peek = EOF /\ Emit(begun, "ILLEGAL", <<>>)
     \/ /\ Peek \notin {"\"", EOF}
        /\ mode' = IF Peek = "\\" THEN "escaped" ELSE mode
        /\ word' = IF Peek = "\\" THEN Pushed(Peek) ELSE Append(Pushed(Peek), Peek)
        /\ UNCHANGED <<begun, tokens>>

CharStart ==
  /\ mode = "char"
  /\ Bump
  /\ mode' = IF Peek = "\\" THEN "char_escaped" ELSE "char_close"
  /\ word' = IF Peek = "\\" THEN <<>> ELSE <<Peek>>
  /\ UNCHANGED <<begun, tokens>>

\* A quotation mark is not among the characters that may follow a backslash.
Escape ==
  /\ mode \in {"escaped", "char_escaped"}
  /\ Bump
  /\ \/ /\ Peek \in DOMAIN Escapes
        /\ mode' = IF mode = "escaped" THEN "string" ELSE "char_close"
        /\ word' = Append(word, Escapes[Peek])
        /\ UNCHANGED <<begun, tokens>>
     \/ Peek \notin DOMAIN Escapes /\ Emit(begun, "ILLEGAL", <<>>)

CharClose ==
  /\ mode = "char_close"
  /\ Bump
  /\ \/ Peek = "'" /\ Emit(begun, "INT", word)
     \/ Peek # "'" /\ Emit(begun, "ILLEGAL", <<>>)
-----------------------------------------------------------------------------
Next == EndOfFile \/ SkipBlank \/ SingleChar \/ Stray \/ Open
        \/ Collect \/ Overrun \/ BeginHex \/ BadBase
        \/ FinishIdent \/ FinishSection \/ FinishNumber \/ FinishHex
        \/ Comment \/ StringChar \/ CharStart \/ Escape \/ CharClose

\* lexer_next waits for nothing: its loops go on as long as they change
\* something.
Spec == Init /\ [][Next]_vars /\ WF_vars(Next)
-----------------------------------------------------------------------------
(* Properties.                                                             *)

TypeOK ==
  /\ BufferTypeOK
  /\ mode \in Collecting \cup {"next", "comment", "string", "escaped", "char",
                               "char_escaped", "char_close", "done", "overrun"}
  /\ Len(word) <= SBUF_SIZE \/ mode \in {"string", "escaped"}
  /\ begun.taken \in 0 .. Taken

TokenText(t) == SubSeq(Text, t.from + 1, t.to)

\* Where the recognised part of the text ends, mid-token or between tokens.
Scanned == IF mode \in {"next", "comment", "done"} THEN Taken ELSE begun.taken

InToken(p) == \E k \in 1 .. Len(tokens) : p \in (tokens[k].from + 1) .. tokens[k].to

InComment(p) ==
  \E q \in 1 .. p : /\ Text[q] = ";" /\ ~InToken(q)
                    /\ \A r \in q .. p : Text[r] # "\n"

\* The tokens lie in the text one behind the other, and all that lies
\* between them is blanks and comments: the tail calls of lexer_next and the
\* recognisers that leave a character unread lose nothing and read nothing
\* twice, newlines behind comments included.
Tiled ==
  /\ \A j, k \in 1 .. Len(tokens) : j < k => tokens[j].to <= tokens[k].from
  /\ \A p \in 1 .. Scanned : InToken(p) \/ Text[p] \in Blanks \/ InComment(p)

(* The lexical grammar, lexeme by lexeme: s is the text of a token, next   *)
(* the character behind it.                                                *)

Behind(s, n) == SubSeq(s, n + 1, Len(s))
Front(s) == SubSeq(s, 1, Len(s) - 1)

DecimalShape(s) == s # <<>> /\ s[1] \in Digits /\ AllIn(s, NumChars)

SignedShape(s) == s # <<>> /\ s[1] = "-" /\ AllIn(Behind(s, 1), NumChars)

HexShape(s) ==
  Len(s) >= 2 /\ s[1] = "0" /\ s[2] \in BaseMarks /\ AllIn(Behind(s, 2), HexDigits)

HasDot(s) == \E k \in 1 .. Len(s) : s[k] = "."

\* The backslashes of body that begin an escape sequence.
Escaper(body) ==
  LET e[k \in 0 .. Len(body)] == k > 0 /\ body[k] = "\\" /\ ~e[k - 1]
  IN  {k \in 1 .. Len(body) : e[k]}

QuotedShape(s) ==
  LET body == SubSeq(s, 2, Len(s) - 1)
  IN  /\ Len(s) >= 2 /\ s[1] = "\"" /\ s[Len(s)] = "\""
      /\ \A k \in 1 .. Len(body) : body[k] \notin {"\"", EOF}
      /\ \A k \in Escaper(body) : k < Len(body) /\ body[k + 1] \in DOMAIN Escapes

CharShape(s) ==
  \/ Len(s) = 3 /\ s[1] = "'" /\ s[2] # "\\" /\ s[3] = "'"
  \/ Len(s) = 4 /\ s[1] = "'" /\ s[2] = "\\" /\ s[3] \in DOMAIN Escapes /\ s[4] = "'"

SignShape(s) == Len(s) = 1 /\ s[1] \in TwinSigns

\* A number ends where no digit or dot follows, and a lone zero in front of
\* a letter is not one.
NumberEnds(s, next) == next \notin NumChars /\ ~(s = <<"0">> /\ next \in Alphas)

Lexeme(kind, s, next) ==
  CASE kind = "KEYWORD" -> SignShape(s) \/ (s \in Keywords /\ next \notin IdentChars)
    [] kind = "IDENT" -> IdentShape(s) /\ s \notin Keywords /\ next \notin IdentChars \cup {":"}
    [] kind = "LABEL" -> Len(s) > 1 /\ s[Len(s)] = ":" /\ IdentShape(Front(s))
                         /\ Front(s) \notin Keywords
    [] kind = "UINT" -> \/ DecimalShape(s) /\ ~HasDot(s) /\ NumberEnds(s, next)
                        \/ HexShape(s) /\ next \notin HexDigits
    [] kind = "FLOAT" -> (DecimalShape(s) \/ SignedShape(s)) /\ HasDot(s) /\ NumberEnds(s, next)
    [] kind = "INT" -> \/ SignedShape(s) /\ ~HasDot(s) /\ next \notin NumChars
                       \/ CharShape(s)
    [] kind = "SLIT" -> QuotedShape(s)
    [] kind \in {"SECTION_DATA", "SECTION_TEXT"} ->
         /\ s # <<>> /\ s[1] = "." /\ next \notin IdentChars
         /\ Behind(s, 1) \in DOMAIN SectionNames /\ SectionNames[Behind(s, 1)] = kind
    [] kind = "EOF" -> s \in {<<>>, <<EOF>>}
    [] OTHER -> s = <<"\n">>

\* The characters strtol, atol, atof and the copy of a name get, and the
\* keyword a token is taken for.
Spelling(kind, s) ==
  CASE kind = "KEYWORD" -> IF SignShape(s) THEN Twins[s[1]] ELSE s
    [] kind \in {"IDENT", "FLOAT"} -> s
    [] kind = "LABEL" -> Front(s)
    [] kind = "UINT" -> IF ~HexShape(s) THEN s
                        ELSE IF Len(s) = 2 THEN <<"0">> ELSE Behind(s, 2)
    [] kind = "INT" -> IF SignedShape(s) THEN s
                       ELSE IF Len(s) = 3 THEN <<s[2]>> ELSE <<Escapes[s[3]]>>
    [] OTHER -> <<>>

TextKinds == {"KEYWORD", "IDENT", "LABEL", "UINT", "FLOAT", "INT", "SLIT",
              "SECTION_DATA", "SECTION_TEXT"}

CharBehind(p) == IF p < len THEN Text[p + 1] ELSE EOF

\* Every token is a longest lexeme of its kind and carries that lexeme's
\* spelling, whatever the recognisers left in their buffers before and
\* wherever the chunks of the file end; a token with the kind of a mnemonic
\* is its word, or the sign with that code; and T_ILLEGAL is returned only
\* where no lexeme begins.
TokensSpelled ==
  \A k \in 1 .. Len(tokens) :
    LET t == tokens[k]
    IN  IF t.kind = "ILLEGAL"
        THEN \A kind \in TextKinds, e \in (t.from + 1) .. len :
               ~Lexeme(kind, SubSeq(Text, t.from + 1, e), CharBehind(e))
        ELSE /\ Lexeme(t.kind, TokenText(t), CharBehind(t.to))
             /\ t.kind # "SLIT" => t.word = Spelling(t.kind, TokenText(t))

\* Row and column of the character behind the first p.
PlaceOf(p) ==
  LET newlines == {q \in 1 .. p : Text[q] = "\n"}
  IN  [row |-> Cardinality(newlines), col |-> p - Max(newlines \cup {0})]

\* The spans that messages report and span_join asserts to be in order: a
\* token starts at its first character and ends at its last, however many
\* blanks, comments and lines were skipped on the way and whether the
\* recogniser took a character back or not.  T_EOF ends where the last
\* character was.
SpansPlaced ==
  \A k \in 1 .. Len(tokens) :
    /\ tokens[k].start = PlaceOf(tokens[k].from)
    /\ tokens[k].end = PlaceOf(Max({tokens[k].to - 1, 0}))

\* The characters of a word that do not go into buf.
MarksOf(from) ==
  IF CharBehind(from) = "." THEN 1
  ELSE IF CharBehind(from) = "0" /\ CharBehind(from + 1) \in BaseMarks THEN 2 ELSE 0

\* What runs over the buffer of a recogniser is a single word of the file as
\* long as that buffer; no sequence of shorter ones ever does.
OverrunsAreLongWords ==
  mode = "overrun" => Taken - begun.taken - MarksOf(begun.taken) >= SBUF_SIZE

LastLine == {p \in 1 .. len : \A q \in p .. len : Text[q] # "\n"}

\* Every file is read to its end if there is no semicolon behind its last
\* newline; a comment there, in a file with no quotes to hide it in, is never
\* left again (lexer_consume_comment waits for a newline that lexer_peak
\* does not return at the end).
LexEnds ==
  /\ (\A p \in LastLine : Text[p] # ";") => <>(mode \in {"done", "overrun"})
  /\ /\ \E p \in LastLine : Text[p] = ";"
     /\ \A p \in 1 .. len : Text[p] \notin {"\"", "'"}
     => <>[](mode = "comment") \/ <>(mode = "overrun")

\* The text between quotes, with its escape sequences replaced.
Unquoted(s) ==
  LET body == SubSeq(s, 2, Len(s) - 1)
      kept == {k \in 1 .. Len(body) : k \notin Escaper(body)}
      nth(n) == CHOOSE k \in kept : Cardinality({j \in kept : j <= k}) = n
  IN  [n \in 1 .. Cardinality(kept) |->
         IF nth(n) - 1 \in Escaper(body) THEN Escapes[body[nth(n)]] ELSE body[nth(n)]]

\* tokens.h:28 calls T_SLIT a string literal, and examples/ffi.pissm:4 writes
\* msg db "Hello world!\n\0": the token's data is the text between the
\* quotes.  It is not, since lexer_consume_string_lit pushes the first
\* character once before its loop and once in it.
StringAsWritten ==
  \A k \in 1 .. Len(tokens) :
    tokens[k].kind = "SLIT" => tokens[k].word = Unquoted(TokenText(tokens[k]))
=============================================================================

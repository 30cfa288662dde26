----------------------------- MODULE LexerProof -----------------------------
(***************************************************************************)
(* What lexer.c reads and what it makes of it, for every file, every       *)
(* length main may pass and every size of its buffers: first the           *)
(* characters, then the tokens.                                            *)
(***************************************************************************)
EXTENDS Lexer, FiniteSetTheorems, SequenceTheorems, WellFoundedInduction, TLAPS

-----------------------------------------------------------------------------
(* Remainders.                                                             *)

LEMMA Division ==
  ASSUME NEW a \in Int, NEW b \in Nat \ {0}
  PROVE  /\ a \div b \in Int /\ a % b \in 0 .. (b - 1)
         /\ a = b * (a \div b) + (a % b)
OBVIOUS

\* A quotient and a remainder in range are the quotient and the remainder.
LEMMA Unique ==
  ASSUME NEW b \in Nat \ {0}, NEW p \in Int, NEW q \in Int,
         NEW r \in 0 .. (b - 1), NEW s \in 0 .. (b - 1), b * p + r = b * q + s
  PROVE  r = s
<1>1. CASE p = q
  BY <1>1
<1>2. CASE p < q
  <2>1. b * (q - p) >= b
    <3>1. PICK d \in Nat : d = q - p - 1
      BY <1>2
    <3>2. b * (q - p) = b * d + b
      BY <3>1
    <3>3. b * d >= 0
      OBVIOUS
    <3> QED
      BY <3>2, <3>3
  <2> QED
    BY <2>1
<1>3. CASE q < p
  <2>1. b * (p - q) >= b
    <3>1. PICK d \in Nat : d = p - q - 1
      BY <1>3
    <3>2. b * (p - q) = b * d + b
      BY <3>1
    <3>3. b * d >= 0
      OBVIOUS
    <3> QED
      BY <3>2, <3>3
  <2> QED
    BY <2>1
<1> QED
  BY <1>1, <1>2, <1>3

LEMMA Remainder ==
  ASSUME NEW b \in Nat \ {0}, NEW q \in Int, NEW r \in 0 .. (b - 1)
  PROVE  (b * q + r) % b = r
<1> DEFINE a == b * q + r
<1>1. a \in Int
  OBVIOUS
<1>2. a = b * (a \div b) + (a % b) /\ a \div b \in Int /\ a % b \in 0 .. (b - 1)
  BY <1>1, Division
<1>3. b * (a \div b) + (a % b) = b * q + r
  BY <1>2
<1> HIDE DEF a
<1>4. a % b = r
  BY <1>2, <1>3, Unique
<1> QED
  BY <1>4 DEF a

LEMMA SmallRemainder ==
  ASSUME NEW b \in Nat \ {0}, NEW r \in 0 .. (b - 1)
  PROVE  r % b = r
<1>1. r = b * 0 + r
  OBVIOUS
<1> QED
  BY <1>1, Remainder

\* A whole buffer further on the remainder is the same.
LEMMA ShiftedRemainder ==
  ASSUME NEW a \in Int, NEW b \in Nat \ {0}
  PROVE  (a + b) % b = a % b
<1>1. /\ a \div b \in Int /\ a % b \in 0 .. (b - 1)
      /\ a = b * (a \div b) + (a % b)
  BY Division
<1>2. PICK q \in Int, r \in 0 .. (b - 1) : a = b * q + r /\ r = a % b
  BY <1>1
<1>3. a + b = b * (q + 1) + r /\ q + 1 \in Int
  BY <1>2
<1>4. (b * (q + 1) + r) % b = r
  BY <1>3, Remainder
<1> QED
  BY <1>2, <1>3, <1>4

LEMMA NextRemainder ==
  ASSUME NEW a \in Int, NEW b \in Nat \ {0}
  PROVE  (a + 1) % b = IF (a % b) + 1 = b THEN 0 ELSE (a % b) + 1
<1>1. /\ a \div b \in Int /\ a % b \in 0 .. (b - 1)
      /\ a = b * (a \div b) + (a % b)
  BY Division
<1>2. PICK q \in Int, r \in 0 .. (b - 1) : a = b * q + r /\ r = a % b
  BY <1>1
<1>3. CASE r + 1 = b
  <2>1. a + 1 = b * (q + 1) + 0 /\ q + 1 \in Int /\ 0 \in 0 .. (b - 1)
    BY <1>2, <1>3
  <2>2. (b * (q + 1) + 0) % b = 0
    BY <2>1, Remainder
  <2> QED
    BY <1>2, <1>3, <2>1, <2>2
<1>4. CASE r + 1 # b
  <2>1. a + 1 = b * q + (r + 1) /\ r + 1 \in 0 .. (b - 1)
    BY <1>2, <1>4
  <2>2. (b * q + (r + 1)) % b = r + 1
    BY <2>1, Remainder
  <2> QED
    BY <1>2, <1>4, <2>1, <2>2
<1> QED
  BY <1>3, <1>4
-----------------------------------------------------------------------------
(* What lies where in the buffer.                                          *)

\* The places at or before k whose byte fread puts where that of k goes.
Places(k) == {j \in 1 .. Lesser(k, Len(file)) : (k - j) % LEXER_BUF_SIZE = 0}

\* The byte that is there after reads at these places.
Last(places) ==
  IF places = {} THEN NUL ELSE file[CHOOSE j \in places : \A i \in places : i <= j]

LEMMA DeliveredDef ==
  ASSUME NEW k
  PROVE  Delivered(k) = Last(Places(k))
BY DEF Delivered, Places, Last

\* Inside the file it is the byte of the file.
LEMMA DeliveredInside ==
  ASSUME file \in Seq(STRING), NEW k \in 1 .. Len(file)
  PROVE  Delivered(k) = file[k]
<1>1. Len(file) \in Nat /\ k \in Nat /\ Lesser(k, Len(file)) = k
  BY DEF Lesser
<1>2. (k - k) % LEXER_BUF_SIZE = 0
  <2>1. 0 % LEXER_BUF_SIZE = 0
    BY BufferAssumption, SmallRemainder
  <2> QED
    BY <1>1, <2>1
<1>3. k \in Places(k) /\ Places(k) \subseteq 1 .. k
  BY <1>1, <1>2 DEF Places
<1> DEFINE last == CHOOSE j \in Places(k) : \A i \in Places(k) : i <= j
<1>4. last \in Places(k) /\ \A i \in Places(k) : i <= last
  <2>1. \E j \in Places(k) : \A i \in Places(k) : i <= j
    BY <1>3
  <2> QED
    BY <2>1
<1>5. Delivered(k) = file[last]
  BY <1>3, DeliveredDef DEF Last
<1> HIDE DEF last
<1>6. last = k
  BY <1>3, <1>4
<1> QED
  BY <1>5, <1>6

\* In the first chunk, behind the end of a shorter file, nothing was read.
LEMMA DeliveredNothing ==
  ASSUME file \in Seq(STRING), NEW k \in 1 .. LEXER_BUF_SIZE, k > Len(file)
  PROVE  Delivered(k) = NUL
<1>1. Len(file) \in Nat /\ LEXER_BUF_SIZE \in Nat \ {0} /\ Lesser(k, Len(file)) = Len(file)
  BY BufferAssumption DEF Lesser
<1>2. ASSUME NEW j \in 1 .. Len(file)
      PROVE  (k - j) % LEXER_BUF_SIZE # 0
  <2>1. k - j \in 0 .. (LEXER_BUF_SIZE - 1) /\ k - j # 0
    BY <1>1
  <2> QED
    BY <1>1, <2>1, SmallRemainder
<1>3. Places(k) = {}
  BY <1>1, <1>2 DEF Places
<1> QED
  BY <1>3, DeliveredDef DEF Last

\* Behind the end of the file a slot keeps what it had a buffer earlier.
LEMMA DeliveredAgain ==
  ASSUME file \in Seq(STRING), NEW k \in Nat \ {0}, k + LEXER_BUF_SIZE > Len(file)
  PROVE  Delivered(k + LEXER_BUF_SIZE) = Delivered(k)
<1> DEFINE b == LEXER_BUF_SIZE
<1>1. Len(file) \in Nat /\ b \in Nat \ {0}
  BY BufferAssumption
<1> HIDE DEF b
<1>2. Lesser(k + b, Len(file)) = Len(file)
  BY <1>1 DEF Lesser, b
<1>3. ASSUME NEW j \in Int
      PROVE  ((k + b) - j) % b = (k - j) % b
  <2>1. k - j \in Int /\ (k - j) + b = (k + b) - j
    BY <1>1
  <2>2. ((k - j) + b) % b = (k - j) % b
    BY <1>1, <2>1, ShiftedRemainder
  <2> QED
    BY <2>1, <2>2
<1>4. ASSUME NEW j \in 1 .. Len(file), (k - j) % b = 0
      PROVE  j <= k
  <2> SUFFICES ASSUME j > k
               PROVE  FALSE
    BY <1>1
  <2>1. (k - j) + b \in 0 .. (b - 1) /\ (k - j) + b # 0
    BY <1>1 DEF b
  <2>2. ((k - j) + b) % b = (k - j) + b
    BY <1>1, <2>1, SmallRemainder
  <2>3. k - j \in Int /\ (k + b) - j = (k - j) + b
    BY <1>1
  <2>4. ((k - j) + b) % b = (k - j) % b
    BY <1>1, <2>3, ShiftedRemainder
  <2> QED
    BY <1>4, <2>1, <2>2, <2>4
<1>5. Places(k + b) = {j \in 1 .. Len(file) : (k - j) % b = 0}
  <2>1. Places(k + b) = {j \in 1 .. Len(file) : ((k + b) - j) % b = 0}
    BY <1>2 DEF Places, b
  <2>2. \A j \in 1 .. Len(file) : j \in Int
    BY <1>1
  <2> QED
    BY <1>3, <2>1, <2>2, Zenon
<1>6. Places(k) = {j \in 1 .. Len(file) : (k - j) % b = 0}
  <2>1. \A j : j \in 1 .. Lesser(k, Len(file)) <=> j \in 1 .. Len(file) /\ j <= k
    BY <1>1 DEF Lesser
  <2>2. Places(k) = {j \in 1 .. Lesser(k, Len(file)) : (k - j) % b = 0}
    BY DEF Places, b
  <2>3. \A j \in 1 .. Len(file) : (k - j) % b = 0 => j <= k
    BY <1>4
  <2> QED
    BY <2>1, <2>2, <2>3, Zenon
<1>7. Places(k + b) = Places(k)
  BY <1>5, <1>6
<1>8. Places(k + LEXER_BUF_SIZE) = Places(k)
  BY <1>7 DEF b
<1> QED
  BY <1>8, DeliveredDef
-----------------------------------------------------------------------------
(* The invariant of the buffer.                                            *)

\* Where in the file the chunk begins that the lexer is in.
Start == Taken - Idx

\* Every slot of the buffer holds what will be delivered from it while the
\* lexer is in this chunk, and fread has read up to the chunk's end.
BufInv ==
  /\ file \in Seq(STRING) /\ len \in Nat /\ remaining \in 0 .. len
  /\ offset = Lesser(Start + LEXER_BUF_SIZE, Len(file))
  /\ \A s \in BufIndex : buf[s] = Delivered(Start + s + 1)

LEMMA PlaceType ==
  ASSUME BufInv
  PROVE  /\ LEXER_BUF_SIZE \in Nat \ {0} /\ Len(file) \in Nat
         /\ Taken \in Nat /\ Idx \in BufIndex /\ Start \in Nat /\ Taken = Start + Idx
<1>1. LEXER_BUF_SIZE \in Nat \ {0} /\ Len(file) \in Nat /\ Taken \in Nat
  BY BufferAssumption DEF BufInv, Taken
<1>2. /\ Taken \div LEXER_BUF_SIZE \in Int /\ Taken % LEXER_BUF_SIZE \in 0 .. (LEXER_BUF_SIZE - 1)
      /\ Taken = LEXER_BUF_SIZE * (Taken \div LEXER_BUF_SIZE) + (Taken % LEXER_BUF_SIZE)
  BY <1>1, Division
<1>3. Idx \in BufIndex
  BY <1>2 DEF Idx, BufIndex
<1>4. Idx <= Taken
  <2> DEFINE q == Taken \div LEXER_BUF_SIZE
  <2>1. q >= 0
    <3> SUFFICES ASSUME q <= -1
                 PROVE  FALSE
      BY <1>2
    <3>1. LEXER_BUF_SIZE * q <= -LEXER_BUF_SIZE
      <4>1. PICK d \in Nat : d = -1 - q
        BY <1>2
      <4>2. LEXER_BUF_SIZE * d >= 0
        BY <1>1
      <4>3. LEXER_BUF_SIZE * q = -(LEXER_BUF_SIZE * d) - LEXER_BUF_SIZE
        BY <1>1, <1>2, <4>1
      <4> QED
        BY <1>1, <4>2, <4>3
    <3> QED
      BY <1>1, <1>2, <3>1
  <2>2. LEXER_BUF_SIZE * q >= 0
    BY <1>1, <1>2, <2>1
  <2> QED
    BY <1>1, <1>2, <2>2 DEF Idx
<1> QED
  BY <1>1, <1>3, <1>4 DEF Start, BufIndex

\* What lexer_peak answers is the character the stream has there.
LEMMA PeekDelivers ==
  ASSUME BufInv
  PROVE  Peek = Stream!At(Taken)
<1>1. Taken \in Nat /\ Idx \in BufIndex /\ Start \in Nat /\ Taken = Start + Idx
  BY PlaceType
<1>2. len \in Nat /\ remaining \in 0 .. len /\ Len(Text) = len
  BY DEF BufInv, Text
<1>3. CASE remaining = 0
  BY <1>2, <1>3 DEF Peek, Stream!At, Taken
<1>4. CASE remaining # 0
  <2>1. Taken < len /\ Taken + 1 \in 1 .. len
    BY <1>2, <1>4 DEF Taken
  <2>2. Peek = Delivered(Start + Idx + 1)
    BY <1>1, <1>4 DEF Peek, BufInv
  <2>3. Text[Taken + 1] = Delivered(Taken + 1)
    BY <2>1 DEF Text
  <2> QED
    BY <1>1, <1>2, <2>1, <2>2, <2>3 DEF Stream!At
<1> QED
  BY <1>3, <1>4

LEMMA InitialBuffer ==
  ASSUME InitBuffer
  PROVE  BufInv /\ Taken = 0
<1>1. /\ LEXER_BUF_SIZE \in Nat \ {0} /\ file \in Seq(STRING) /\ len \in Nat
      /\ remaining = len /\ Len(file) \in Nat
  BY BufferAssumption DEF InitBuffer
<1>2. Taken = 0 /\ Idx = 0 /\ Start = 0
  <2>1. Taken = 0
    BY <1>1 DEF Taken
  <2>2. 0 % LEXER_BUF_SIZE = 0
    BY <1>1, SmallRemainder
  <2> QED
    BY <2>1, <2>2 DEF Idx, Start
<1>3. offset = Lesser(Start + LEXER_BUF_SIZE, Len(file))
  BY <1>2 DEF InitBuffer, OffsetAfter
<1>4. ASSUME NEW s \in BufIndex
      PROVE  buf[s] = Delivered(Start + s + 1)
  <2>1. s \in Nat /\ s + 1 \in 1 .. LEXER_BUF_SIZE /\ Start + s + 1 = s + 1
    BY <1>1, <1>2 DEF BufIndex
  <2>2. buf[s] = IF s < Len(file) THEN file[s + 1] ELSE NUL
    BY <1>4, <2>1 DEF InitBuffer, Filled
  <2>3. CASE s < Len(file)
    <3>1. s + 1 \in 1 .. Len(file)
      BY <1>1, <2>1, <2>3
    <3> QED
      BY <1>1, <2>1, <2>2, <2>3, <3>1, DeliveredInside
  <2>4. CASE ~(s < Len(file))
    <3>1. s + 1 > Len(file)
      BY <1>1, <2>1, <2>4
    <3> QED
      BY <1>1, <2>1, <2>2, <2>4, <3>1, DeliveredNothing
  <2> QED
    BY <2>3, <2>4
<1> QED
  BY <1>1, <1>2, <1>3, <1>4 DEF BufInv

LEMMA BufferStill ==
  ASSUME BufInv, UNCHANGED bufferVars
  PROVE  BufInv'
<1>1. UNCHANGED <<file, len, remaining, offset, buf>>
  BY DEF bufferVars
<1>2. \A k : Delivered(k)' = Delivered(k)
  BY <1>1 DEF Delivered
<1>3. Start' = Start
  BY <1>1 DEF Start, Idx, Taken
<1> QED
  BY <1>1, <1>2, <1>3 DEF BufInv

\* A refill goes on where the last one stopped; what it does not overwrite
\* is what a length beyond the end of the file brings back.
LEMMA BumpKeepsInv ==
  ASSUME BufInv, Bump
  PROVE  BufInv'
<1> DEFINE b == LEXER_BUF_SIZE
<1>1. /\ b \in Nat \ {0} /\ Len(file) \in Nat /\ Taken \in Nat
      /\ Idx \in 0 .. (b - 1) /\ Start \in Nat /\ Taken = Start + Idx
      /\ file \in Seq(STRING) /\ len \in Nat /\ remaining \in 0 .. len
      /\ offset = Lesser(Start + b, Len(file))
  BY PlaceType DEF BufInv, BufIndex
<1>2. CASE remaining = 0
  BY <1>2, BufferStill DEF Bump
<1>3. CASE remaining # 0
  <2>1. /\ remaining' = remaining - 1 /\ file' = file /\ len' = len
        /\ buf' = IF Refills THEN Filled(buf, offset) ELSE buf
        /\ offset' = IF Refills THEN OffsetAfter(offset) ELSE offset
    BY <1>3 DEF Bump
  <2>2. remaining' \in 0 .. len' /\ Taken' = Taken + 1
    BY <1>1, <1>3, <2>1 DEF Taken
  <2>3. \A k : Delivered(k)' = Delivered(k)
    BY <2>1 DEF Delivered
  <2>4. Idx' = IF Idx + 1 = b THEN 0 ELSE Idx + 1
    <3>1. PICK t \in Int : t = Taken
      BY <1>1
    <3>2. (t + 1) % LEXER_BUF_SIZE
            = IF (t % LEXER_BUF_SIZE) + 1 = LEXER_BUF_SIZE THEN 0 ELSE (t % LEXER_BUF_SIZE) + 1
      BY <1>1, NextRemainder
    <3> QED
      BY <2>2, <3>1, <3>2 DEF Idx
  <2>5. CASE ~Refills
    <3>1. Idx' = Idx + 1 /\ Start' = Start
      BY <1>1, <2>2, <2>4, <2>5 DEF Refills, Start
    <3>2. buf' = buf /\ offset' = offset
      BY <2>1, <2>5
    <3> QED
      BY <1>1, <2>1, <2>2, <2>3, <3>1, <3>2 DEF BufInv
  <2>6. CASE Refills
    <3>1. Start' = Start + b
      <4>1. Idx + 1 = b /\ Idx' = 0
        BY <2>4, <2>6 DEF Refills
      <4>2. Start' = Taken' - Idx'
        BY DEF Start
      <4> QED
        BY <1>1, <2>2, <4>1, <4>2
    <3>2. offset' = Lesser(Start' + b, Len(file))
      BY <1>1, <2>1, <2>6, <3>1 DEF OffsetAfter, Lesser
    <3>3. ASSUME NEW s \in BufIndex
          PROVE  buf'[s] = Delivered(Start' + s + 1)
      <4>1. s \in 0 .. (b - 1) /\ Start + s + 1 \in Nat \ {0}
            /\ Start' + s + 1 = (Start + s + 1) + b
        BY <1>1, <3>1 DEF BufIndex
      <4>2. buf'[s] = IF offset + s < Len(file) THEN file[offset + s + 1] ELSE buf[s]
        BY <2>1, <2>6 DEF Filled
      <4>3. CASE (Start + s + 1) + b <= Len(file)
        <5>1. offset = Start + b
          BY <1>1, <4>1, <4>3 DEF Lesser
        <5>2. buf'[s] = file[offset + s + 1] /\ offset + s + 1 = (Start + s + 1) + b
          BY <1>1, <4>1, <4>2, <4>3, <5>1
        <5>3. (Start + s + 1) + b \in 1 .. Len(file)
          BY <1>1, <4>1, <4>3
        <5> QED
          BY <1>1, <4>1, <5>2, <5>3, DeliveredInside
      <4>4. CASE ~((Start + s + 1) + b <= Len(file))
        <5>1. ~(offset + s < Len(file))
          BY <1>1, <4>1, <4>4 DEF Lesser
        <5>2. buf'[s] = Delivered(Start + s + 1)
          BY <4>2, <5>1 DEF BufInv
        <5>3. (Start + s + 1) + LEXER_BUF_SIZE > Len(file)
          BY <1>1, <4>1, <4>4
        <5>4. Delivered((Start + s + 1) + LEXER_BUF_SIZE) = Delivered(Start + s + 1)
          BY <1>1, <4>1, <5>3, DeliveredAgain
        <5> QED
          BY <4>1, <5>2, <5>4
      <4> QED
        BY <4>3, <4>4
    <3> QED
      BY <1>1, <2>1, <2>2, <2>3, <3>2, <3>3 DEF BufInv
  <2> QED
    BY <2>5, <2>6
<1> QED
  BY <1>2, <1>3

LEMMA BufferStep == BufInv /\ [Bump]_bufferVars => BufInv'
<1> SUFFICES ASSUME BufInv, [Bump]_bufferVars
             PROVE  BufInv'
  OBVIOUS
<1>1. CASE Bump
  BY <1>1, BumpKeepsInv
<1>2. CASE UNCHANGED bufferVars
  BY <1>2, BufferStill
<1> QED
  BY <1>1, <1>2

LEMMA PeekInvariant == BufInv => Peek = Stream!At(Taken)
BY PeekDelivers
-----------------------------------------------------------------------------
(* The refinement.                                                         *)

\* A lexer_bump takes one character of the stream, or none at its end.
LEMMA BumpTakes ==
  ASSUME BufInv, Peek = Stream!At(Taken), (Peek = Stream!At(Taken))', [Bump]_bufferVars
  PROVE  [Stream!Take]_<<Text, Taken, Peek>>
<1>1. len \in Nat /\ remaining \in 0 .. len /\ Len(Text) = len
  BY DEF BufInv, Text
<1>2. CASE UNCHANGED bufferVars
  BY <1>2 DEF bufferVars, Text, Delivered, Taken, Peek, Idx
<1>3. CASE Bump /\ remaining = 0
  BY <1>2, <1>3 DEF Bump
<1>4. CASE Bump /\ remaining # 0
  <2>1. remaining' = remaining - 1 /\ UNCHANGED <<file, len>>
    BY <1>4 DEF Bump
  <2>2. Taken < Len(Text) /\ Taken' = Taken + 1
    BY <1>1, <1>4, <2>1 DEF Taken
  <2>3. Text' = Text
    BY <2>1 DEF Text, Delivered
  <2>4. Peek' = Stream!At(Taken + 1)
    BY <2>2, <2>3 DEF Stream!At
  <2> QED
    BY <2>2, <2>3, <2>4 DEF Stream!Take
<1> QED
  BY <1>2, <1>3, <1>4

LEMMA BufferInvariance == SpecBuffer => []BufInv
<1>1. InitBuffer => BufInv
  BY InitialBuffer
<1> QED
  BY <1>1, BufferStep, PTL DEF SpecBuffer

LEMMA BufferImplements == SpecBuffer => ImplementsStream
<1>1. InitBuffer => Stream!Init
  <2> SUFFICES ASSUME InitBuffer
               PROVE  Stream!Init
    OBVIOUS
  <2>1. BufInv /\ Taken = 0
    BY InitialBuffer
  <2> QED
    BY <2>1, PeekDelivers DEF Stream!Init
<1>2. BufInv => Peek = Stream!At(Taken)
  BY PeekInvariant
<1>3. /\ BufInv /\ Peek = Stream!At(Taken) /\ (Peek = Stream!At(Taken))' /\ [Bump]_bufferVars
      => [Stream!Take]_<<Text, Taken, Peek>>
  BY BumpTakes
<1> QED
  BY <1>1, <1>2, <1>3, BufferInvariance, PTL DEF SpecBuffer, ImplementsStream, Stream!Spec

\* Each turn of a recogniser calls lexer_bump once or not at all.
LEMMA TurnsBump == [Next]_vars => [Bump]_bufferVars
BY DEF Next, vars, EndOfFile, SkipBlank, SingleChar, Stray, Open, Collect, Overrun, BeginHex,
       BadBase, FinishIdent, FinishSection, FinishNumber, FinishHex, Comment, StringChar,
       CharStart, Escape, CharClose

\* lexer_next reads the characters of the file in order, whatever the size
\* of the buffer and wherever its chunks end, then EOF for ever; with a
\* length that is not the file's, the text is what Delivered says.
THEOREM ReadsTheFile == Spec => ImplementsStream
<1>1. Init => InitBuffer
  BY DEF Init
<1> QED
  BY <1>1, TurnsBump, BufferImplements, PTL DEF Spec, SpecBuffer

\* When lstat's length is the file's, the stream is the file.
THEOREM StreamIsTheFile ==
  ASSUME file \in Seq(STRING), len = Len(file)
  PROVE  Text = file
<1>1. \A k \in 1 .. len : Delivered(k) = file[k]
  BY DeliveredInside
<1>2. Text = [k \in 1 .. Len(file) |-> file[k]]
  BY <1>1 DEF Text
<1> QED
  BY <1>2
-----------------------------------------------------------------------------
(* The text, character by character.                                       *)

LEMMA LeastExists ==
  ASSUME NEW S \in SUBSET Nat, S # {}
  PROVE  \E x \in S : \A y \in S : x <= y
<1>1. PICK x \in S : \A y \in S : ~(<<y, x>> \in OpToRel(<, Nat))
  BY NatLessThanWellFounded, WFMin, Zenon
<1>2. ASSUME NEW y \in S
      PROVE  x <= y
  <2>1. ~(y < x)
    BY <1>1 DEF OpToRel
  <2> QED
    BY <2>1
<1> QED
  BY <1>2

LEMMA GreatestExists ==
  ASSUME NEW n \in Nat, NEW S \in SUBSET (0 .. n), S # {}
  PROVE  \E x \in S : \A y \in S : y <= x
<1> DEFINE T == {n - x : x \in S}
<1>1. T \in SUBSET Nat /\ T # {}
  <2>1. \A x \in S : x \in 0 .. n /\ n - x \in Nat
    OBVIOUS
  <2> QED
    BY <2>1
<1>2. PICK t \in T : \A y \in T : t <= y
  BY <1>1, LeastExists
<1>3. PICK x \in S : t = n - x
  BY <1>2
<1>4. ASSUME NEW y \in S
      PROVE  y <= x
  <2>1. t <= n - y
    BY <1>2
  <2> QED
    BY <1>3, <2>1
<1> QED
  BY <1>4

LEMMA MaxIsGreatest ==
  ASSUME NEW n \in Nat, NEW S \in SUBSET (0 .. n), S # {}
  PROVE  Max(S) \in S /\ \A y \in S : y <= Max(S)
<1>1. PICK x \in S : \A y \in S : x >= y
  BY GreatestExists
<1> QED
  BY <1>1 DEF Max

CharSet == STRING \cup {NUL, EOF, "0"} \cup {Escapes[c] : c \in DOMAIN Escapes}

LEMMA DeliveredType ==
  ASSUME file \in Seq(STRING), NEW k \in Nat
  PROVE  Delivered(k) \in CharSet
<1>1. Len(file) \in Nat /\ Lesser(k, Len(file)) \in Nat /\ Lesser(k, Len(file)) <= Len(file)
  BY DEF Lesser
<1>2. CASE Places(k) = {}
  BY <1>2, DeliveredDef DEF Last, CharSet
<1>3. CASE Places(k) # {}
  <2>1. Places(k) \in SUBSET (0 .. Lesser(k, Len(file)))
    BY <1>1 DEF Places
  <2>2. \E j \in Places(k) : \A i \in Places(k) : i <= j
    BY <1>1, <1>3, <2>1, GreatestExists
  <2>3. PICK j \in Places(k) : Delivered(k) = file[j]
    BY <1>3, <2>2, DeliveredDef DEF Last
  <2>4. j \in 1 .. Len(file)
    BY <1>1, <2>3 DEF Places
  <2> QED
    BY <2>3, <2>4 DEF CharSet
<1> QED
  BY <1>2, <1>3

LEMMA TextFacts ==
  ASSUME BufInv
  PROVE  /\ len \in Nat /\ Taken \in 0 .. len /\ remaining = len - Taken
         /\ Text \in Seq(CharSet) /\ Len(Text) = len
         /\ Peek = (IF Taken < len THEN Text[Taken + 1] ELSE EOF)
         /\ Peek \in CharSet
<1>1. len \in Nat /\ remaining \in 0 .. len /\ Len(Text) = len
  BY DEF BufInv, Text
<1>2. Taken \in 0 .. len /\ remaining = len - Taken
  BY <1>1 DEF Taken
<1>3. \A k \in 1 .. len : Delivered(k) \in CharSet
  BY <1>1, DeliveredType DEF BufInv
<1>4. Text \in Seq(CharSet)
  BY <1>1, <1>3 DEF Text
<1>5. Peek = IF Taken < len THEN Text[Taken + 1] ELSE EOF
  BY <1>1, PeekDelivers DEF Stream!At
<1>6. Peek \in CharSet
  BY <1>1, <1>2, <1>4, <1>5 DEF CharSet
<1> QED
  BY <1>1, <1>2, <1>4, <1>5, <1>6

\* What lexer_bump does to the text and the place in it.
LEMMA BumpMoves ==
  ASSUME BufInv, Bump
  PROVE  /\ BufInv' /\ Text' = Text /\ len' = len
         /\ Taken' = (IF Taken < len THEN Taken + 1 ELSE Taken)
         /\ len - remaining' = Taken'
<1>1. BufInv'
  BY BumpKeepsInv
<1>2. len \in Nat /\ Taken \in 0 .. len /\ remaining = len - Taken
  BY TextFacts
<1>3. file' = file /\ len' = len
  BY DEF Bump, bufferVars
<1>4. Text' = Text
  BY <1>3 DEF Text, Delivered
<1>5. remaining' = IF remaining = 0 THEN remaining ELSE remaining - 1
  BY DEF Bump, bufferVars
<1>6. Taken' = len - remaining' /\ len - remaining' = IF Taken < len THEN Taken + 1 ELSE Taken
  BY <1>2, <1>3, <1>5 DEF Taken
<1> QED
  BY <1>1, <1>3, <1>4, <1>6

LEMMA StillText ==
  ASSUME BufInv, UNCHANGED bufferVars
  PROVE  /\ BufInv' /\ Text' = Text /\ len' = len /\ Taken' = Taken
         /\ len - remaining' = Taken'
BY BufferStill DEF bufferVars, Text, Delivered, Taken

LEMMA SubText ==
  ASSUME BufInv, NEW from \in 0 .. len, NEW to \in from .. len
  PROVE  LET s == SubSeq(Text, from + 1, to)
         IN  /\ s \in Seq(CharSet) /\ Len(s) = to - from
             /\ \A i \in 1 .. (to - from) : s[i] = Text[from + i]
<1> DEFINE m == from + 1
           s == SubSeq(Text, m, to)
<1>1. len \in Nat /\ Text \in Seq(CharSet) /\ Len(Text) = len
  BY TextFacts
<1>2. m \in Int /\ to \in Int /\ \A i \in m .. to : Text[i] \in CharSet
  BY <1>1
<1>3. /\ s \in Seq(CharSet) /\ Len(s) = IF m <= to THEN to - m + 1 ELSE 0
      /\ \A i \in 1 .. (to - m + 1) : s[i] = Text[m + i - 1]
  BY <1>2, SubSeqProperties
<1>4. \A i \in 1 .. (to - from) : i \in 1 .. (to - m + 1) /\ m + i - 1 = from + i
  BY <1>1
<1> QED
  BY <1>1, <1>3, <1>4
-----------------------------------------------------------------------------
(* Rows and columns.                                                       *)

Place == [row : Nat, col : Nat]

Newlines(p) == {q \in 1 .. p : Text[q] = "\n"}

LEMMA NewlinesType ==
  ASSUME NEW p \in Nat
  PROVE  /\ IsFiniteSet(Newlines(p)) /\ Cardinality(Newlines(p)) \in Nat
         /\ Max(Newlines(p) \cup {0}) \in 0 .. p
         /\ \A q \in Newlines(p) : q <= Max(Newlines(p) \cup {0})
         /\ PlaceOf(p) = [row |-> Cardinality(Newlines(p)), col |-> p - Max(Newlines(p) \cup {0})]
<1>1. IsFiniteSet(1 .. p) /\ Newlines(p) \in SUBSET (1 .. p)
  BY FS_Interval DEF Newlines
<1>2. IsFiniteSet(Newlines(p)) /\ Cardinality(Newlines(p)) \in Nat
  BY <1>1, FS_Subset, FS_CardinalityType
<1>3. Newlines(p) \cup {0} \in SUBSET (0 .. p) /\ Newlines(p) \cup {0} # {}
  BY <1>1
<1>4. /\ Max(Newlines(p) \cup {0}) \in Newlines(p) \cup {0}
      /\ \A q \in Newlines(p) \cup {0} : q <= Max(Newlines(p) \cup {0})
  BY <1>3, MaxIsGreatest
<1>5. PlaceOf(p) = [row |-> Cardinality(Newlines(p)), col |-> p - Max(Newlines(p) \cup {0})]
  BY DEF PlaceOf, Newlines
<1> QED
  BY <1>2, <1>3, <1>4, <1>5

LEMMA PlaceOfType ==
  ASSUME NEW p \in Nat
  PROVE  PlaceOf(p) \in Place
<1>1. /\ Cardinality(Newlines(p)) \in Nat /\ Max(Newlines(p) \cup {0}) \in 0 .. p
      /\ PlaceOf(p) = [row |-> Cardinality(Newlines(p)), col |-> p - Max(Newlines(p) \cup {0})]
  BY NewlinesType
<1> QED
  BY <1>1 DEF Place

LEMMA FirstPlace == PlaceOf(0) = [row |-> 0, col |-> 0]
<1>1. Newlines(0) = {} /\ 0 \in Nat
  BY DEF Newlines
<1>2. Max({} \cup {0}) = 0
  BY DEF Max
<1>3. PlaceOf(0) = [row |-> Cardinality(Newlines(0)), col |-> 0 - Max(Newlines(0) \cup {0})]
  BY <1>1, NewlinesType
<1> QED
  BY <1>1, <1>2, <1>3, FS_EmptySet

\* What lexer_bump counts is where the next character is.
LEMMA PlaceBehind ==
  ASSUME NEW p \in Nat
  PROVE  PlaceOf(p + 1) = IF Text[p + 1] = "\n" THEN [row |-> PlaceOf(p).row + 1, col |-> 0]
                          ELSE [PlaceOf(p) EXCEPT !.col = @ + 1]
<1>0. PICK n \in Nat : n = p + 1
  OBVIOUS
<1> DEFINE Q == Newlines(p)
           R == Newlines(n)
           last(S) == Max(S \cup {0})
<1>1. /\ IsFiniteSet(Q) /\ Cardinality(Q) \in Nat /\ last(Q) \in 0 .. p
      /\ PlaceOf(p) = [row |-> Cardinality(Q), col |-> p - last(Q)]
  BY NewlinesType
<1>2. /\ last(R) \in 0 .. n /\ \A q \in R : q <= last(R)
      /\ PlaceOf(n) = [row |-> Cardinality(R), col |-> n - last(R)]
  BY NewlinesType
<1> HIDE DEF last
<1>3. CASE Text[n] = "\n"
  <2>1. R = Q \cup {n} /\ n \notin Q
    BY <1>0, <1>3 DEF Newlines
  <2>2. Cardinality(R) = Cardinality(Q) + 1
    BY <1>1, <2>1, FS_AddElement
  <2>3. last(R) = n
    BY <1>0, <1>2, <2>1
  <2>4. PlaceOf(n) = [row |-> Cardinality(Q) + 1, col |-> 0]
    BY <1>0, <1>2, <2>2, <2>3
  <2> QED
    BY <1>0, <1>1, <1>3, <2>4
<1>4. CASE Text[n] # "\n"
  <2>1. R = Q
    BY <1>0, <1>4 DEF Newlines
  <2>2. PlaceOf(n) = [row |-> Cardinality(Q), col |-> (p - last(Q)) + 1]
    BY <1>0, <1>1, <1>2, <2>1
  <2> QED
    BY <1>0, <1>1, <1>4, <2>2
<1> QED
  BY <1>3, <1>4
-----------------------------------------------------------------------------
(* The inductive invariant.                                                *)

KindSet == TextKinds \cup {"EOF", "ILLEGAL", "EOL"}

TokenSet == [kind : KindSet, word : Seq(CharSet), from : Nat, to : Nat,
             start : Place, end : Place]

Silent == {"next", "comment", "done"}

Quoting == {"string", "escaped", "char", "char_escaped", "char_close"}

TypeInv ==
  /\ DOMAIN buf = BufIndex
  /\ mode \in Silent \cup Collecting \cup Quoting \cup {"overrun"}
  /\ word \in Seq(CharSet)
  /\ begun \in [taken : Nat, pos : Place] /\ begun.taken <= Taken
  /\ tokens \in Seq(TokenSet)

\* What lexer_bump counts is where the lexer is.
SpanInv ==
  /\ pos = PlaceOf(Taken) /\ prev = PlaceOf(IF Taken = 0 THEN 0 ELSE Taken - 1)
  /\ begun.pos = PlaceOf(begun.taken)
  /\ SpansPlaced

\* The tokens end before the one that is being read begins.
TileInv ==
  /\ Tiled
  /\ \A k \in 1 .. Len(tokens) : tokens[k].from <= tokens[k].to /\ tokens[k].to <= Scanned
  /\ mode = "comment" => \A k \in 1 .. Len(tokens) : tokens[k].to <= begun.taken

\* The character read i-th of the present word.
Since(i) == Text[begun.taken + i]

Length == Taken - begun.taken

\* buf holds the characters read, but for the first n.
Holds(n) ==
  /\ Len(word) = Length - n
  /\ \A i \in 1 .. Len(word) : word[i] = Since(n + i)

\* What the recognisers that fill buf have in it.
Collected(m) ==
  \/ m = "ident"   /\ Holds(0) /\ Length >= 1 /\ word[1] \in IdentStart /\ AllIn(word, IdentChars)
  \/ m = "number"  /\ Holds(0) /\ Length >= 1 /\ word[1] \in Digits /\ AllIn(word, NumChars)
  \/ m = "signed"  /\ Holds(0) /\ Length >= 1 /\ word[1] = "-"
                   /\ \A i \in 2 .. Len(word) : word[i] \in NumChars
  \/ m = "section" /\ Holds(1) /\ Length >= 1 /\ Since(1) = "." /\ AllIn(word, IdentChars)
  \/ m = "hex"     /\ Holds(2) /\ Length >= 2 /\ Since(1) = "0" /\ Since(2) \in BaseMarks
                   /\ AllIn(word, HexDigits)

\* E is where the first n characters behind from have backslashes that begin an
\* escape sequence.
Escaping(E, from, n) ==
  /\ E \in SUBSET (1 .. n)
  /\ \A k \in 1 .. n : k \in E <=> Text[from + k] = "\\" /\ k - 1 \notin E

Complete(E, from, n) == \A k \in E : k < n => Text[from + k + 1] \in DOMAIN Escapes

\* Two characters that the provers read better by a name.
Semicolon == ";"
Quote == "\""

\* A string as far as it is read: n characters behind the opening quotation mark.
InString(n) ==
  /\ Since(1) = Quote
  /\ \A k \in 1 .. n : Since(k + 1) \notin {Quote, EOF}
  /\ \E E \in SUBSET (1 .. n) : /\ Escaping(E, begun.taken + 1, n) /\ Complete(E, begun.taken + 1, n)
                                /\ n \in E <=> mode = "escaped"

WordInv ==
  /\ mode \in {"next", "done", "comment", "char", "char_escaped"} => word = <<>>
  /\ mode = "comment" => /\ Length >= 1 /\ Since(1) = Semicolon
                         /\ \A k \in 1 .. Length : Since(k) # "\n"
  /\ mode \in Collecting => Collected(mode) /\ Len(word) <= SBUF_SIZE
  /\ mode = "overrun" => Len(word) = SBUF_SIZE /\ \E m \in Collecting : Collected(m)
  /\ mode \in {"string", "escaped"} => Length >= 1 /\ InString(Length - 1)
  /\ mode \in {"char", "char_escaped", "char_close"} => Length >= 1 /\ Since(1) = "'"
  /\ mode = "char" => Length = 1
  /\ mode = "char_escaped" => Length = 2 /\ Since(2) = "\\"
  /\ mode = "char_close" =>
       /\ Len(word) = 1
       /\ \/ Length = 1 /\ Taken = len
          \/ Length = 2 /\ Since(2) # "\\" /\ word[1] = Since(2)
          \/ Length = 3 /\ Since(2) = "\\" /\ Since(3) \in DOMAIN Escapes /\ word[1] = Escapes[Since(3)]

LInv == BufInv /\ TypeInv /\ SpanInv /\ TileInv /\ WordInv /\ TokensSpelled
-----------------------------------------------------------------------------
(* The shapes of a step.                                                   *)

\* What a step does to the place in the text.
Moves ==
  /\ BufInv' /\ DOMAIN buf' = BufIndex /\ Text' = Text /\ len' = len
  /\ Taken' \in {Taken, Taken + 1} /\ Taken' <= len /\ len - remaining' = Taken'
  /\ pos' = PlaceOf(Taken') /\ prev' = PlaceOf(IF Taken' = 0 THEN 0 ELSE Taken' - 1)
  /\ \A p : PlaceOf(p)' = PlaceOf(p)

LEMMA StepMoves ==
  ASSUME BufInv, TypeInv, SpanInv, [Bump]_bufferVars
  PROVE  Moves
<1>1. /\ len \in Nat /\ Taken \in 0 .. len /\ remaining = len - Taken
      /\ Peek = (IF Taken < len THEN Text[Taken + 1] ELSE EOF)
  BY TextFacts
<1>2. Text' = Text => \A p : PlaceOf(p)' = PlaceOf(p)
  BY DEF PlaceOf
<1>3. pos = PlaceOf(Taken) /\ prev = PlaceOf(IF Taken = 0 THEN 0 ELSE Taken - 1)
  BY DEF SpanInv
<1>4. CASE UNCHANGED bufferVars \/ (Bump /\ remaining = 0)
  <2>1. UNCHANGED bufferVars
    BY <1>4 DEF Bump
  <2>2. /\ BufInv' /\ Text' = Text /\ len' = len /\ Taken' = Taken
        /\ len - remaining' = Taken'
    BY <2>1, StillText
  <2>3. DOMAIN buf' = BufIndex /\ pos' = pos /\ prev' = prev
    BY <2>1 DEF bufferVars, TypeInv
  <2> QED
    BY <1>1, <1>2, <1>3, <2>2, <2>3 DEF Moves
<1>5. CASE Bump /\ remaining # 0
  <2>1. /\ BufInv' /\ Text' = Text /\ len' = len /\ len - remaining' = Taken'
        /\ Taken' = (IF Taken < len THEN Taken + 1 ELSE Taken)
    BY <1>5, BumpMoves
  <2>2. Taken' = Taken + 1 /\ Taken < len /\ Peek = Text[Taken + 1] /\ Taken \in Nat
    BY <1>1, <1>5, <2>1
  <2>3. DOMAIN buf' = BufIndex
    BY <1>5 DEF Bump, Filled, TypeInv
  <2>4. prev' = pos /\ pos' = PosBehind(Peek)
    BY <1>5 DEF Bump
  <2>5. PlaceOf(Taken + 1) = IF Peek = "\n" THEN [row |-> pos.row + 1, col |-> 0]
                             ELSE [pos EXCEPT !.col = @ + 1]
    BY <1>3, <2>2, PlaceBehind
  <2>6. pos' = PlaceOf(Taken') /\ prev' = PlaceOf(IF Taken' = 0 THEN 0 ELSE Taken' - 1)
    BY <1>3, <2>2, <2>4, <2>5 DEF PosBehind
  <2> QED
    BY <1>1, <1>2, <2>1, <2>2, <2>3, <2>6 DEF Moves
<1> QED
  BY <1>4, <1>5

\* A recogniser goes on, one begins, characters are skipped, or a token that
\* began at o is returned.
Goes == /\ mode \notin Silent /\ mode' \notin Silent
        /\ UNCHANGED <<begun, tokens>>

Opens == /\ mode = "next" /\ mode' \notin {"next", "done"} /\ Bump /\ Peek # EOF
         /\ mode' = "comment" => Peek = ";"
         /\ begun' = Here /\ UNCHANGED tokens

Skips == /\ mode \in {"next", "comment"} /\ mode' \in {"next", mode}
         /\ \/ UNCHANGED bufferVars
            \/ mode = "next" /\ Bump /\ Peek \in Blanks
            \/ mode = "comment" /\ Bump /\ Peek # "\n"
         /\ UNCHANGED <<begun, tokens>>

Returns(o, kind, w) ==
  /\ \/ o = Here /\ mode = "next"
     \/ o = begun /\ mode \notin Silent
  /\ kind \in KindSet /\ w \in Seq(CharSet)
  /\ mode' \in {"next", "done"} /\ begun' = begun
  /\ tokens' = Append(tokens, TokenOf(o, kind, w))

Turn == Goes \/ Opens \/ Skips \/ \E o, kind, w : Returns(o, kind, w)

LEMMA NextTurns ==
  ASSUME BufInv, TypeInv, WordInv, Next
  PROVE  Turn
<1> USE DEF TypeInv, KindSet, TextKinds
<1>0. Peek \in CharSet
  BY TextFacts
<1>1. CASE EndOfFile
  <2>1. Returns(Here, "EOF", <<>>)
    BY <1>1 DEF EndOfFile, Returns
  <2> QED
    BY <2>1 DEF Turn
<1>2. CASE SkipBlank
  BY <1>2 DEF SkipBlank, Turn, Skips
<1>3. CASE SingleChar
  <2>1. CASE Peek = "\n" /\ Emit(Here, "EOL", <<>>)
    <3>1. Returns(Here, "EOL", <<>>)
      BY <1>3, <2>1 DEF SingleChar, Emit, Returns
    <3> QED
      BY <3>1 DEF Turn
  <2>2. CASE Peek # "\n" /\ Emit(Here, "KEYWORD", Twins[Peek])
    <3>1. Twins[Peek] \in Seq(STRING)
      BY <1>3, <2>2, CharAssumption DEF SingleChar, Singles
    <3>2. Twins[Peek] \in Seq(CharSet)
      BY <3>1 DEF CharSet
    <3>3. Returns(Here, "KEYWORD", Twins[Peek])
      BY <1>3, <2>2, <3>2 DEF SingleChar, Emit, Returns
    <3> QED
      BY <3>3 DEF Turn
  <2> QED
    BY <1>3, <2>1, <2>2 DEF SingleChar
<1>4. CASE Stray
  <2>1. Returns(Here, "ILLEGAL", <<>>)
    BY <1>4 DEF Stray, Emit, Returns
  <2> QED
    BY <2>1 DEF Turn
<1>5. CASE Open
  <2>1. Peek # EOF
    BY <1>5, CharAssumption DEF Open, Signs
  <2>2. mode' \notin {"next", "done"} /\ (mode' = "comment" => Peek = ";")
    BY <1>5, CharAssumption DEF Open, Openers, IdentChars
  <2> QED
    BY <1>5, <2>1, <2>2 DEF Open, Turn, Opens
<1>6. CASE Collect \/ Overrun \/ BeginHex
  BY <1>6 DEF Collect, Overrun, BeginHex, Prefixed, Collecting, More, Turn, Goes, Silent
<1>7. CASE BadBase
  <2>1. Returns(begun, "ILLEGAL", <<>>)
    BY <1>7 DEF BadBase, Prefixed, Emit, Returns, Silent
  <2> QED
    BY <2>1 DEF Turn
<1>8. CASE FinishIdent
  <2>1. PICK kind \in {"KEYWORD", "LABEL", "IDENT"} : Emit(begun, kind, word)
    BY <1>8 DEF FinishIdent
  <2>2. Returns(begun, kind, word)
    BY <1>8, <2>1 DEF FinishIdent, Finished, Emit, Returns, Silent
  <2> QED
    BY <2>2 DEF Turn
<1>9. CASE FinishSection
  <2>1. PICK kind \in KindSet : Emit(begun, kind, <<>>)
    BY <1>9, CharAssumption DEF FinishSection
  <2>2. Returns(begun, kind, <<>>)
    BY <1>9, <2>1 DEF FinishSection, Finished, Emit, Returns, Silent
  <2> QED
    BY <2>2 DEF Turn
<1>10. CASE FinishNumber
  <2>1. Returns(begun, NumberKind, word)
    BY <1>10 DEF FinishNumber, Finished, Emit, Returns, Silent, NumberKind
  <2> QED
    BY <2>1 DEF Turn
<1>11. CASE FinishHex
  <2>1. (IF word = <<>> THEN <<"0">> ELSE word) \in Seq(CharSet)
    <3>1. "0" \in CharSet
      BY DEF CharSet
    <3> QED
      BY <3>1
  <2>2. Returns(begun, "UINT", IF word = <<>> THEN <<"0">> ELSE word)
    BY <1>11, <2>1 DEF FinishHex, Finished, Emit, Returns, Silent
  <2> QED
    BY <2>2 DEF Turn
<1>12. CASE Comment
  BY <1>12 DEF Comment, Turn, Skips
<1>13. CASE StringChar
  <2>1. CASE Emit(begun, "SLIT", Pushed(Peek))
    <3>1. Pushed(Peek) \in Seq(CharSet)
      BY <1>0 DEF Pushed
    <3>2. Returns(begun, "SLIT", Pushed(Peek))
      BY <1>13, <2>1, <3>1 DEF StringChar, Emit, Returns, Silent
    <3> QED
      BY <3>2 DEF Turn
  <2>2. CASE Emit(begun, "ILLEGAL", <<>>)
    <3>1. mode = "string"
      BY <1>13 DEF StringChar
    <3>2. Returns(begun, "ILLEGAL", <<>>)
      BY <2>2, <3>1 DEF Emit, Returns, Silent
    <3> QED
      BY <3>2 DEF Turn
  <2>3. CASE mode' \in {mode, "escaped"} /\ UNCHANGED <<begun, tokens>>
    BY <1>13, <2>3 DEF StringChar, Turn, Goes, Silent
  <2> QED
    BY <1>13, <2>1, <2>2, <2>3 DEF StringChar
<1>14. CASE CharStart
  BY <1>14 DEF CharStart, Turn, Goes, Silent
<1>15. CASE Escape
  <2>1. CASE Emit(begun, "ILLEGAL", <<>>)
    <3>1. Returns(begun, "ILLEGAL", <<>>)
      BY <1>15, <2>1 DEF Escape, Emit, Returns, Silent
    <3> QED
      BY <3>1 DEF Turn
  <2>2. CASE mode' \in {"string", "char_close"} /\ UNCHANGED <<begun, tokens>>
    BY <1>15, <2>2 DEF Escape, Turn, Goes, Silent
  <2> QED
    BY <1>15, <2>1, <2>2 DEF Escape
<1>16. CASE CharClose
  <2>1. mode = "char_close"
    BY <1>16 DEF CharClose
  <2>2. CASE Emit(begun, "INT", word)
    <3>1. Returns(begun, "INT", word)
      BY <2>1, <2>2 DEF Emit, Returns, Silent
    <3> QED
      BY <3>1 DEF Turn
  <2>3. CASE Emit(begun, "ILLEGAL", <<>>)
    <3>1. Returns(begun, "ILLEGAL", <<>>)
      BY <2>1, <2>3 DEF Emit, Returns, Silent
    <3> QED
      BY <3>1 DEF Turn
  <2> QED
    BY <1>16, <2>2, <2>3 DEF CharClose
<1> QED
  BY <1>1, <1>2, <1>3, <1>4, <1>5, <1>6, <1>7, <1>8, <1>9, <1>10, <1>11, <1>12, <1>13,
     <1>14, <1>15, <1>16 DEF Next
LEMMA BeforeLast ==
  ASSUME NEW n \in Nat
  PROVE  Max({n - 1, 0}) = IF n = 0 THEN 0 ELSE n - 1
<1> DEFINE m == IF n = 0 THEN 0 ELSE n - 1
<1>1. m \in {n - 1, 0} /\ \A y \in {n - 1, 0} : m >= y
  OBVIOUS
<1>2. \A x \in {n - 1, 0} : (\A y \in {n - 1, 0} : x >= y) => x = m
  OBVIOUS
<1> HIDE DEF m
<1>3. Max({n - 1, 0}) = m
  BY <1>1, <1>2 DEF Max
<1> QED
  BY <1>3 DEF m

\* The token that a step returns, and its place.
Made(t, kind, w, from) ==
  /\ from \in Nat /\ from <= Taken /\ Taken' \in Nat
  /\ t \in TokenSet /\ t.from = from /\ t.to = Taken' /\ t.kind = kind /\ t.word = w
  /\ t.start = PlaceOf(t.from) /\ t.end = PlaceOf(Max({t.to - 1, 0}))
  /\ tokens' \in Seq(TokenSet) /\ Len(tokens') = Len(tokens) + 1
  /\ \A k \in 1 .. Len(tokens) : tokens'[k] = tokens[k]
  /\ tokens'[Len(tokens) + 1] = t

LEMMA TokenMade ==
  ASSUME BufInv, TypeInv, SpanInv, Moves, NEW o, NEW kind, NEW w, Returns(o, kind, w)
  PROVE  Made(TokenOf(o, kind, w), kind, w, o.taken)
<1> DEFINE t == TokenOf(o, kind, w)
<1>1. len \in Nat /\ Taken \in Nat
  BY TextFacts
<1>2. o.taken \in Nat /\ o.taken <= Taken /\ o.pos = PlaceOf(o.taken)
  <2>1. CASE o = Here
    BY <1>1, <2>1 DEF Here, SpanInv
  <2>2. CASE o = begun
    BY <2>2 DEF TypeInv, SpanInv
  <2> QED
    BY <2>1, <2>2 DEF Returns
<1>3. Taken' \in Nat /\ len - remaining' = Taken'
  BY <1>1 DEF Moves
<1>4. t = [kind |-> kind, word |-> w, from |-> o.taken, to |-> Taken',
           start |-> o.pos, end |-> prev']
  BY <1>3 DEF TokenOf
<1>5. prev' = PlaceOf(Max({Taken' - 1, 0}))
  BY <1>3, BeforeLast DEF Moves
<1>6. o.pos \in Place /\ prev' \in Place
  <2>1. PICK n \in Nat : n = IF Taken' = 0 THEN 0 ELSE Taken' - 1
    <3>1. PICK m \in Nat : m = Taken'
      BY <1>3
    <3>2. (IF m = 0 THEN 0 ELSE m - 1) \in Nat
      OBVIOUS
    <3> QED
      BY <3>1, <3>2
  <2> QED
    BY <1>2, <2>1, PlaceOfType DEF Moves
<1>7. t \in TokenSet
  BY <1>2, <1>3, <1>4, <1>6 DEF TokenSet, Returns
<1>8. tokens \in Seq(TokenSet) /\ tokens' = Append(tokens, t)
  BY DEF TypeInv, Returns
<1> HIDE DEF t
<1>9. /\ tokens' \in Seq(TokenSet) /\ Len(tokens') = Len(tokens) + 1
      /\ \A k \in 1 .. Len(tokens) : tokens'[k] = tokens[k]
      /\ tokens'[Len(tokens) + 1] = t
  BY <1>7, <1>8, AppendProperties
<1> QED
  BY <1>2, <1>3, <1>4, <1>5, <1>9, <1>7 DEF t, Made

LEMMA SpanKeeps ==
  ASSUME BufInv, TypeInv, SpanInv, Moves, Turn
  PROVE  SpanInv'
<1>1. begun'.pos = PlaceOf(begun'.taken)
  <2>1. CASE begun' = begun
    BY <2>1 DEF SpanInv
  <2>2. CASE begun' = Here
    BY <2>2 DEF Here, SpanInv
  <2> QED
    BY <2>1, <2>2 DEF Turn, Goes, Opens, Skips, Returns
<1>2. (\A k \in 1 .. Len(tokens) : /\ tokens[k].start = PlaceOf(tokens[k].from)
                                   /\ tokens[k].end = PlaceOf(Max({tokens[k].to - 1, 0})))'
  <2>1. \A k \in 1 .. Len(tokens) : /\ tokens[k].start = PlaceOf(tokens[k].from)
                                    /\ tokens[k].end = PlaceOf(Max({tokens[k].to - 1, 0}))
    BY DEF SpanInv, SpansPlaced
  <2>2. \A p : PlaceOf(p)' = PlaceOf(p)
    BY DEF Moves
  <2>3. CASE tokens' = tokens
    BY <2>1, <2>2, <2>3
  <2>4. ASSUME NEW o, NEW kind, NEW w, Returns(o, kind, w)
        PROVE  \A k \in 1 .. Len(tokens') :
                 /\ tokens'[k].start = PlaceOf(tokens'[k].from)
                 /\ tokens'[k].end = PlaceOf(Max({tokens'[k].to - 1, 0}))
    <3> DEFINE t == TokenOf(o, kind, w)
    <3>0. Made(t, kind, w, o.taken)
      BY <2>4, TokenMade, Zenon
    <3> HIDE DEF t
    <3>1. /\ t.start = PlaceOf(t.from) /\ t.end = PlaceOf(Max({t.to - 1, 0}))
          /\ Len(tokens') = Len(tokens) + 1
          /\ \A k \in 1 .. Len(tokens) : tokens'[k] = tokens[k]
          /\ tokens'[Len(tokens) + 1] = t
      BY <3>0 DEF Made
    <3>2. Len(tokens) \in Nat
      BY DEF TypeInv
    <3> SUFFICES ASSUME NEW k \in 1 .. Len(tokens')
                 PROVE  /\ tokens'[k].start = PlaceOf(tokens'[k].from)
                        /\ tokens'[k].end = PlaceOf(Max({tokens'[k].to - 1, 0}))
      OBVIOUS
    <3>3. CASE k \in 1 .. Len(tokens)
      BY <2>1, <3>1, <3>3
    <3>4. CASE k = Len(tokens) + 1
      BY <3>1, <3>4
    <3> QED
      BY <3>1, <3>2, <3>3, <3>4
  <2> QED
    BY <2>2, <2>3, <2>4 DEF Turn, Goes, Opens, Skips
<1>3. /\ pos' = PlaceOf(Taken') /\ prev' = PlaceOf(IF Taken' = 0 THEN 0 ELSE Taken' - 1)
      /\ \A p : PlaceOf(p)' = PlaceOf(p)
  BY DEF Moves
<1> QED
  BY <1>1, <1>2, <1>3 DEF SpanInv, SpansPlaced
LEMMA Recognisers ==
  /\ Collecting = {"ident", "section", "number", "signed", "hex"}
  /\ More["ident"] = IdentChars /\ More["section"] = IdentChars
  /\ More["number"] = NumChars /\ More["signed"] = NumChars /\ More["hex"] = HexDigits
BY DEF Collecting, More

Modes == Silent \cup Collecting \cup Quoting \cup {"overrun"}

LEMMA WordTypes ==
  ASSUME BufInv, TypeInv, Next
  PROVE  mode' \in Modes /\ word' \in Seq(CharSet)
<1> USE DEF Modes, Silent, Quoting
<1>1. mode \in Modes /\ word \in Seq(CharSet) /\ Peek \in CharSet /\ <<>> \in Seq(CharSet)
  BY TextFacts DEF TypeInv
<1>2. \A w \in Seq(CharSet), c \in CharSet : Append(w, c) \in Seq(CharSet)
  BY AppendProperties
<1>3. CASE EndOfFile
  BY <1>1, <1>3 DEF EndOfFile
<1>4. CASE SkipBlank \/ SingleChar \/ Stray \/ BadBase \/ FinishIdent \/ FinishSection
           \/ FinishNumber \/ FinishHex \/ CharClose
  BY <1>1, <1>4 DEF SkipBlank, SingleChar, Stray, BadBase, FinishIdent, FinishSection,
                    FinishNumber, FinishHex, CharClose, Emit
<1>5. CASE Open
  <2>1. <<Peek>> \in Seq(CharSet)
    BY <1>1
  <2>2. mode' \in {"ident", "number", "comment", "section", "string", "char", "signed"}
    BY <1>5 DEF Open, Openers, IdentChars
  <2> QED
    BY <1>1, <1>5, <2>1, <2>2, Recognisers DEF Open
<1>6. CASE Collect \/ Overrun \/ BeginHex \/ Comment
  BY <1>1, <1>2, <1>6, Recognisers DEF Collect, Overrun, BeginHex, Comment
<1>7. CASE StringChar
  <2>1. Pushed(Peek) \in Seq(CharSet)
    BY <1>1 DEF Pushed
  <2> QED
    BY <1>1, <1>2, <1>7, <2>1 DEF StringChar, Emit
<1>8. CASE CharStart
  <2>1. <<Peek>> \in Seq(CharSet)
    BY <1>1
  <2> QED
    BY <1>1, <1>8, <2>1 DEF CharStart
<1>9. CASE Escape
  <2>1. Peek \in DOMAIN Escapes => Append(word, Escapes[Peek]) \in Seq(CharSet)
    BY <1>1, <1>2 DEF CharSet
  <2> QED
    BY <1>1, <1>9, <2>1 DEF Escape, Emit
<1> QED
  BY <1>3, <1>4, <1>5, <1>6, <1>7, <1>8, <1>9 DEF Next

LEMMA TypeKeeps ==
  ASSUME BufInv, TypeInv, SpanInv, Moves, Turn, Next
  PROVE  TypeInv'
<1>1. mode' \in Modes /\ word' \in Seq(CharSet)
  BY WordTypes
<1>2. begun' \in [taken : Nat, pos : Place] /\ begun'.taken <= Taken'
  <2>1. Taken \in Nat /\ Taken' \in {Taken, Taken + 1} /\ pos = PlaceOf(Taken)
    BY TextFacts DEF Moves, SpanInv
  <2>2. CASE begun' = begun
    BY <2>1, <2>2 DEF TypeInv
  <2>3. CASE begun' = Here
    BY <2>1, <2>3, PlaceOfType DEF Here
  <2> QED
    BY <2>2, <2>3 DEF Turn, Goes, Opens, Skips, Returns
<1>3. tokens' \in Seq(TokenSet)
  <2>1. CASE tokens' = tokens
    BY <2>1 DEF TypeInv
  <2>2. ASSUME NEW o, NEW kind, NEW w, Returns(o, kind, w)
        PROVE  tokens' \in Seq(TokenSet)
    BY <2>2, TokenMade DEF Made
  <2> QED
    BY <2>1, <2>2 DEF Turn, Goes, Opens, Skips
<1> QED
  BY <1>1, <1>2, <1>3 DEF TypeInv, Modes, Moves
-----------------------------------------------------------------------------
(* The tokens tile the text.                                               *)

Covered(p) == InToken(p) \/ Text[p] \in Blanks \/ InComment(p)

LEMMA TokenFields ==
  ASSUME TypeInv
  PROVE  /\ Len(tokens) \in Nat
         /\ \A k \in 1 .. Len(tokens) : tokens[k].from \in Nat /\ tokens[k].to \in Nat
<1>1. Len(tokens) \in Nat /\ \A k \in 1 .. Len(tokens) : tokens[k] \in TokenSet
  BY ElementOfSeq DEF TypeInv
<1> QED
  BY <1>1 DEF TokenSet

LEMMA ScannedType ==
  ASSUME BufInv, TypeInv
  PROVE  Scanned \in Nat /\ Scanned <= Taken /\ Taken \in Nat
BY TextFacts DEF TypeInv, Scanned

\* Without a token only what is newly scanned has to be covered.
LEMMA TileGrows ==
  ASSUME BufInv, TypeInv, TileInv, Moves, UNCHANGED tokens,
         Scanned' = Scanned \/ (Scanned' = Scanned + 1 /\ Covered(Scanned + 1)),
         mode' = "comment" => \A k \in 1 .. Len(tokens) : tokens[k].to <= begun'.taken
  PROVE  TileInv'
<1>1. Text' = Text /\ tokens' = tokens
  BY DEF Moves
<1>2. \A p : InToken(p)' <=> InToken(p)
  BY <1>1 DEF InToken
<1>3. \A p : InComment(p)' <=> InComment(p)
  BY <1>1, <1>2 DEF InComment
<1>4. Scanned \in Nat
  BY ScannedType
<1>5. \A p \in 1 .. Scanned : Covered(p)
  BY DEF TileInv, Tiled, Covered
<1>6. \A p \in 1 .. Scanned' : Covered(p)
  BY <1>4, <1>5
<1>7. \A p \in 1 .. Scanned' : InToken(p)' \/ Text[p] \in Blanks \/ InComment(p)'
  BY <1>2, <1>3, <1>6, Zenon DEF Covered
<1>8. \A k \in 1 .. Len(tokens) : tokens[k].from <= tokens[k].to /\ tokens[k].to <= Scanned'
  BY <1>4, TokenFields DEF TileInv
<1> QED
  BY <1>1, <1>7, <1>8 DEF TileInv, Tiled

\* A token covers its characters, and hides no comment in front of it.
LEMMA TileAdds ==
  ASSUME BufInv, TypeInv, TileInv, Moves, NEW t, NEW kind, NEW w, Made(t, kind, w, Scanned),
         Scanned' = Taken', mode' # "comment"
  PROVE  TileInv'
<1> DEFINE n == Len(tokens)
<1>1. /\ Scanned \in Nat /\ Scanned <= Taken /\ Taken \in Nat /\ Taken <= Taken' /\ Taken' \in Nat
      /\ Text' = Text /\ n \in Nat /\ Len(tokens') = n + 1
      /\ \A k \in 1 .. n : tokens'[k] = tokens[k]
      /\ tokens'[n + 1] = t /\ t.from = Scanned /\ t.to = Taken'
  BY ScannedType, TokenFields DEF Made, Moves
<1>2. \A k \in 1 .. n : /\ tokens[k].from \in Nat /\ tokens[k].to \in Nat
                        /\ tokens[k].from <= tokens[k].to /\ tokens[k].to <= Scanned
  BY TokenFields DEF TileInv
<1>3. \A j, k \in 1 .. n : j < k => tokens[j].to <= tokens[k].from
  BY DEF TileInv, Tiled
<1>4. \A p \in 1 .. Scanned : Covered(p)
  BY DEF TileInv, Tiled, Covered
<1> HIDE DEF n
<1>5. \A p : InToken(p)' <=> \E k \in 1 .. (n + 1) : p \in (tokens'[k].from + 1) .. tokens'[k].to
  BY <1>1 DEF InToken
<1>6. \A p : InToken(p) <=> \E k \in 1 .. n : p \in (tokens[k].from + 1) .. tokens[k].to
  BY DEF InToken, n
<1>7. \A p : InToken(p)' <=> InToken(p) \/ p \in (Scanned + 1) .. Taken'
  <2> SUFFICES ASSUME NEW p
               PROVE  InToken(p)' <=> InToken(p) \/ p \in (Scanned + 1) .. Taken'
    OBVIOUS
  <2>1. \A k \in 1 .. (n + 1) : k \in 1 .. n \/ k = n + 1
    BY <1>1
  <2>2. n + 1 \in 1 .. (n + 1) /\ \A k \in 1 .. n : k \in 1 .. (n + 1)
    BY <1>1
  <2> QED
    BY <1>1, <1>5, <1>6, <2>1, <2>2, Zenon
<1>8. \A j, k \in 1 .. (n + 1) : j < k => tokens'[j].to <= tokens'[k].from
  <2> SUFFICES ASSUME NEW j \in 1 .. (n + 1), NEW k \in 1 .. (n + 1), j < k
               PROVE  tokens'[j].to <= tokens'[k].from
    OBVIOUS
  <2>1. j \in 1 .. n /\ (k \in 1 .. n \/ k = n + 1)
    BY <1>1
  <2> QED
    BY <1>1, <1>2, <1>3, <2>1
<1>9. \A k \in 1 .. (n + 1) : tokens'[k].from <= tokens'[k].to /\ tokens'[k].to <= Taken'
  <2> SUFFICES ASSUME NEW k \in 1 .. (n + 1)
               PROVE  tokens'[k].from <= tokens'[k].to /\ tokens'[k].to <= Taken'
    OBVIOUS
  <2>1. k \in 1 .. n \/ k = n + 1
    BY <1>1
  <2> QED
    BY <1>1, <1>2, <2>1
<1>10. ASSUME NEW p \in 1 .. Taken'
       PROVE  InToken(p)' \/ Text[p] \in Blanks \/ InComment(p)'
  <2>1. CASE p \in 1 .. Scanned /\ InComment(p)
    <3>1. PICK q \in 1 .. p : /\ Text[q] = ";" /\ ~InToken(q)
                              /\ \A r \in q .. p : Text[r] # "\n"
      BY <2>1 DEF InComment
    <3>2. ~InToken(q)'
      <4>1. q \notin (Scanned + 1) .. Taken'
        BY <1>1, <2>1
      <4> QED
        BY <1>7, <3>1, <4>1, Zenon
    <3> QED
      BY <1>1, <3>1, <3>2 DEF InComment
  <2>2. CASE p \in 1 .. Scanned /\ ~InComment(p)
    BY <1>4, <1>7, <2>2 DEF Covered
  <2>3. CASE p \notin 1 .. Scanned
    BY <1>1, <1>7, <2>3
  <2> QED
    BY <2>1, <2>2, <2>3
<1> QED
  BY <1>1, <1>8, <1>9, <1>10 DEF TileInv, Tiled

LEMMA TileKeeps ==
  ASSUME BufInv, TypeInv, SpanInv, TileInv, WordInv, Moves, Turn
  PROVE  TileInv'
<1>1. /\ len \in Nat /\ Taken \in Nat /\ Taken <= len
      /\ Peek = (IF Taken < len THEN Text[Taken + 1] ELSE EOF)
      /\ Taken' \in {Taken, Taken + 1}
  BY TextFacts DEF Moves
<1>2. \A k \in 1 .. Len(tokens) : /\ tokens[k].from \in Nat /\ tokens[k].to \in Nat
                                  /\ tokens[k].to <= Scanned
  BY TokenFields DEF TileInv
<1>3. begun.taken \in Nat /\ begun.taken <= Taken
  BY DEF TypeInv
<1>4. Bump /\ Taken < len => Taken' = Taken + 1
  BY BumpMoves
<1>5. CASE Goes
  <2>1. Scanned' = Scanned
    BY <1>5 DEF Goes, Scanned, Silent
  <2> QED
    BY <1>5, <2>1, TileGrows DEF Goes, Silent
<1>6. CASE Opens
  <2>1. /\ Scanned = Taken /\ Taken < len /\ Taken' = Taken + 1 /\ Peek = Text[Taken + 1]
        /\ begun'.taken = Taken /\ tokens' = tokens
    BY <1>1, <1>4, <1>6 DEF Opens, Scanned, Here
  <2>2. CASE mode' = "comment"
    <3>1. Scanned' = Scanned + 1 /\ Text[Taken + 1] = ";"
      BY <1>6, <2>1, <2>2 DEF Opens, Scanned
    <3>2. ~InToken(Taken + 1)
      BY <1>1, <1>2, <2>1 DEF InToken
    <3>3. PICK p \in Nat : p = Taken + 1 /\ p \in 1 .. p
      BY <1>1
    <3>4. \A i \in p .. p : Text[i] # "\n"
      <4>1. \A i \in p .. p : i = p
        OBVIOUS
      <4>2. Text[p] # "\n"
        BY <3>1, <3>3
      <4> QED
        BY <4>1, <4>2
    <3>5. InComment(Taken + 1)
      BY <3>1, <3>2, <3>3, <3>4, Zenon DEF InComment
    <3> QED
      BY <1>2, <2>1, <3>1, <3>5, TileGrows DEF Covered
  <2>3. CASE mode' # "comment"
    <3>1. Scanned' = Scanned
      BY <1>6, <2>1, <2>3 DEF Opens, Scanned
    <3> QED
      BY <2>1, <2>3, <3>1, TileGrows
  <2> QED
    BY <2>2, <2>3
<1>7. CASE Skips
  <2>0. begun' = begun /\ tokens' = tokens
    BY <1>7 DEF Skips
  <2>1. Scanned = Taken /\ Scanned' = Taken'
    BY <1>7 DEF Skips, Scanned
  <2>2. mode' = "comment" => \A k \in 1 .. Len(tokens) : tokens[k].to <= begun'.taken
    BY <1>7 DEF Skips, TileInv
  <2>3. CASE Taken' = Taken
    BY <2>0, <2>1, <2>2, <2>3, TileGrows
  <2>4. CASE Taken' # Taken
    <3>1. Taken' = Taken + 1 /\ ~UNCHANGED bufferVars
      BY <1>1, <2>4, StillText
    <3>2. Taken < len /\ Peek = Text[Taken + 1]
      BY <1>1, <3>1 DEF Moves
    <3>3. CASE Peek \in Blanks
      BY <2>0, <2>1, <2>2, <3>1, <3>2, <3>3, TileGrows DEF Covered
    <3>4. CASE mode = "comment" /\ Peek # "\n"
      <4>0. PICK q \in Nat : q = begun.taken + 1
        BY <1>3
      <4>1. /\ Length >= 1 /\ Since(1) = Semicolon
            /\ \A k \in 1 .. Length : Since(k) # "\n"
        BY <3>4 DEF WordInv
      <4>2. q \in 1 .. (Taken + 1) /\ Text[q] = ";"
        <5>1. Text[q] = ";"
          BY <4>0, <4>1 DEF Since, Semicolon
        <5>2. q \in 1 .. (Taken + 1)
          BY <1>1, <1>3, <4>0
        <5> QED
          BY <5>1, <5>2
      <4>3. ~InToken(q)
        BY <1>2, <1>3, <3>4, <4>0 DEF InToken, TileInv
      <4>4. ASSUME NEW r \in q .. (Taken + 1)
            PROVE  Text[r] # "\n"
        <5>1. CASE r = Taken + 1
          BY <3>2, <3>4, <5>1
        <5>2. CASE r # Taken + 1
          <6>1. r - begun.taken \in 1 .. Length /\ begun.taken + (r - begun.taken) = r
            BY <1>1, <1>3, <4>0, <5>2 DEF Length
          <6> QED
            BY <4>1, <6>1 DEF Since
        <5> QED
          BY <5>1, <5>2
      <4>5. InComment(Taken + 1)
        BY <4>2, <4>3, <4>4 DEF InComment
      <4> QED
        BY <2>0, <2>1, <2>2, <3>1, <4>5, TileGrows DEF Covered
    <3> QED
      BY <1>7, <3>1, <3>3, <3>4 DEF Skips
  <2> QED
    BY <2>3, <2>4
<1>8. ASSUME NEW o, NEW kind, NEW w, Returns(o, kind, w)
      PROVE  TileInv'
  <2>1. Made(TokenOf(o, kind, w), kind, w, o.taken)
    BY <1>8, TokenMade
  <2>2. o.taken = Scanned
    BY <1>8 DEF Returns, Scanned, Silent, Here
  <2>3. Scanned' = Taken' /\ mode' # "comment"
    BY <1>8 DEF Returns, Scanned
  <2> QED
    BY <2>1, <2>2, <2>3, TileAdds
<1> QED
  BY <1>5, <1>6, <1>7, <1>8 DEF Turn
-----------------------------------------------------------------------------
(* What is in buf.                                                         *)

\* A lexer_bump that returns a character.
LEMMA CharTaken ==
  ASSUME BufInv, Bump, Peek # EOF
  PROVE  /\ Taken \in Nat /\ Taken < len /\ Taken' = Taken + 1 /\ Text[Taken + 1] = Peek
         /\ Text' = Text /\ len' = len
<1>1. /\ Taken \in 0 .. len /\ len \in Nat
      /\ Peek = (IF Taken < len THEN Text[Taken + 1] ELSE EOF)
  BY TextFacts
<1>2. Taken < len /\ Peek = Text[Taken + 1]
  BY <1>1
<1>3. /\ Text' = Text /\ len' = len
      /\ Taken' = (IF Taken < len THEN Taken + 1 ELSE Taken)
  BY BumpMoves
<1> QED
  BY <1>1, <1>2, <1>3

LEMMA SameWord ==
  ASSUME BufInv, TypeInv, begun' = begun, Text' = Text, Taken' \in {Taken, Taken + 1}
  PROVE  /\ Taken \in Nat /\ begun.taken \in Nat /\ Length \in Nat /\ Taken = begun.taken + Length
         /\ Length' = Length + (Taken' - Taken)
         /\ Len(word) \in Nat
         /\ \A i : Since(i)' = Since(i)
<1>1. Taken \in Nat /\ begun.taken \in Nat /\ begun.taken <= Taken /\ Len(word) \in Nat
  BY TextFacts DEF TypeInv
<1>2. Length' = Taken' - begun.taken
  BY DEF Length
<1>3. \A i : Since(i)' = Since(i)
  BY DEF Since
<1> QED
  BY <1>1, <1>2, <1>3 DEF Length

\* Nothing is kept of a word that is finished.
LEMMA WordEnds ==
  ASSUME mode' \in {"next", "done"}, word' = <<>>
  PROVE  WordInv'
BY Recognisers DEF WordInv

LEMMA HoldsMore ==
  ASSUME BufInv, TypeInv, Bump, Peek # EOF, begun' = begun, word' = Append(word, Peek),
         NEW n \in 0 .. 2, Holds(n), n <= Length
  PROVE  /\ Holds(n)' /\ Length' = Length + 1 /\ Len(word') = Len(word) + 1
         /\ \A i \in 1 .. Len(word) : word'[i] = word[i]
         /\ word'[Len(word) + 1] = Peek
<1>1. /\ Taken \in Nat /\ Taken < len /\ Taken' = Taken + 1 /\ Text[Taken + 1] = Peek
      /\ Text' = Text
  BY CharTaken
<1>2. /\ begun.taken \in Nat /\ Length \in Nat /\ Taken = begun.taken + Length
      /\ Length' = Length + 1 /\ Len(word) \in Nat /\ \A i : Since(i)' = Since(i)
  BY <1>1, SameWord
<1>3. /\ Len(word') = Len(word) + 1 /\ word'[Len(word) + 1] = Peek
      /\ \A i \in 1 .. Len(word) : word'[i] = word[i]
  BY TextFacts, AppendProperties DEF TypeInv
<1>4. Len(word) = Length - n /\ \A i \in 1 .. Len(word) : word[i] = Since(n + i)
  BY DEF Holds
<1>5. \A i \in 1 .. Len(word') : word'[i] = Since(n + i)
  <2> SUFFICES ASSUME NEW i \in 1 .. Len(word')
               PROVE  word'[i] = Since(n + i)
    OBVIOUS
  <2>1. CASE i \in 1 .. Len(word)
    BY <1>3, <1>4, <2>1
  <2>2. CASE i = Len(word) + 1
    <3>1. n + i = Length + 1
      BY <1>2, <1>4, <2>2
    <3>2. begun.taken + (n + i) = Taken + 1
      BY <1>1, <1>2, <3>1, SMTT(30)
    <3> QED
      BY <1>1, <1>3, <2>2, <3>2 DEF Since
  <2> QED
    BY <1>2, <1>3, <2>1, <2>2
<1>6. Len(word') = Length' - n
  BY <1>2, <1>3, <1>4
<1> QED
  BY <1>2, <1>3, <1>5, <1>6 DEF Holds

LEMMA AllInMore ==
  ASSUME TypeInv, NEW chars, AllIn(word, chars), Peek \in chars, Len(word') = Len(word) + 1,
         \A i \in 1 .. Len(word) : word'[i] = word[i], word'[Len(word) + 1] = Peek
  PROVE  AllIn(word', chars)
<1>1. Len(word) \in Nat
  BY DEF TypeInv
<1>2. ASSUME NEW i \in 1 .. Len(word')
      PROVE  word'[i] \in chars
  <2>1. i \in 1 .. Len(word) \/ i = Len(word) + 1
    BY <1>1
  <2> QED
    BY <2>1 DEF AllIn
<1> QED
  BY <1>2 DEF AllIn

\* No class of characters has the end of the file in it.
LEMMA ClassesAreCharacters ==
  /\ EOF \notin IdentChars /\ EOF \notin NumChars /\ EOF \notin HexDigits
  /\ EOF \notin BaseMarks /\ EOF \notin Blanks /\ EOF \notin DOMAIN Openers
  /\ EOF \notin Singles /\ EOF \notin DOMAIN Escapes /\ EOF \notin {"\"", "'", ":", "\\", "\n"}
<1>1. EOF \notin IdentChars /\ EOF \notin Signs /\ EOF \notin DOMAIN Escapes
  BY CharAssumption
<1>2. EOF \notin NumChars /\ EOF \notin HexDigits /\ EOF \notin BaseMarks
  BY <1>1, CharAssumption DEF NumChars, IdentChars, IdentStart, Signs, Openers
<1>3. /\ EOF \notin Blanks /\ EOF \notin DOMAIN Openers /\ EOF \notin Singles
      /\ EOF \notin {"\"", "'", ":", "\\", "\n"}
  BY <1>1 DEF Signs, Openers, Singles
<1> QED
  BY <1>1, <1>2, <1>3

LEMMA CollectKeeps ==
  ASSUME BufInv, TypeInv, WordInv, Collect
  PROVE  WordInv'
<1>1. /\ mode \in Collecting /\ Len(word) < SBUF_SIZE /\ Peek \in More[mode] /\ Bump
      /\ mode' = mode /\ word' = Append(word, Peek) /\ begun' = begun
      /\ Collected(mode)
  BY DEF Collect, Room, WordInv
<1>2. Peek # EOF
  BY <1>1, Recognisers, ClassesAreCharacters
<1>3. Len(word) \in Nat
  BY DEF TypeInv
<1>4. Text' = Text /\ \A i : Since(i)' = Since(i)
  <2>1. Text' = Text /\ Taken' = Taken + 1
    BY <1>1, <1>2, CharTaken
  <2> QED
    BY <1>1, <2>1, SameWord
<1>5. ASSUME NEW n \in 0 .. 2, Holds(n), n <= Length
      PROVE  /\ Holds(n)' /\ Length' = Length + 1 /\ Len(word') = Len(word) + 1
             /\ \A i \in 1 .. Len(word) : word'[i] = word[i]
             /\ word'[Len(word) + 1] = Peek
  BY <1>1, <1>2, <1>5, HoldsMore
<1>6. Length \in Nat
  BY TextFacts DEF TypeInv, Length
<1>7. Len(word') <= SBUF_SIZE
  <2>1. \E n \in 0 .. 2 : Holds(n) /\ n <= Length
    BY <1>1, <1>6 DEF Collected
  <2> QED
    BY <1>1, <1>3, <1>5, <2>1, SbufAssumption
<1>8. CASE mode = "ident" \/ mode = "number"
  <2> DEFINE first == IF mode = "ident" THEN IdentStart ELSE Digits
  <2>1. /\ Holds(0) /\ Length >= 1 /\ word[1] \in first /\ AllIn(word, More[mode])
        /\ Peek \in More[mode]
    BY <1>1, <1>8, Recognisers DEF Collected
  <2>2. Len(word) >= 1
    BY <1>6, <2>1 DEF Holds
  <2>3. Holds(0)' /\ Length' >= 1 /\ word'[1] \in first
    BY <1>3, <1>5, <1>6, <2>1, <2>2
  <2>4. AllIn(word', More[mode])
    BY <1>5, <1>6, <2>1, AllInMore
  <2> QED
    BY <1>1, <1>7, <1>8, <2>3, <2>4, Recognisers DEF WordInv, Collected
<1>9. CASE mode = "signed"
  <2>1. /\ Holds(0) /\ Length >= 1 /\ word[1] = "-"
        /\ \A i \in 2 .. Len(word) : word[i] \in NumChars
        /\ Peek \in NumChars
    BY <1>1, <1>9, Recognisers DEF Collected
  <2>2. Len(word) >= 1
    BY <1>6, <2>1 DEF Holds
  <2>3. Holds(0)' /\ Length' >= 1 /\ word'[1] = "-"
    BY <1>3, <1>5, <1>6, <2>1, <2>2
  <2>4. ASSUME NEW i \in 2 .. Len(word')
        PROVE  word'[i] \in NumChars
    <3>1. i \in 2 .. Len(word) \/ i = Len(word) + 1
      BY <1>3, <1>5, <1>6, <2>1
    <3> QED
      BY <1>3, <1>5, <1>6, <2>1, <3>1
  <2> QED
    BY <1>1, <1>7, <1>9, <2>3, <2>4, Recognisers DEF WordInv, Collected
<1>10. CASE mode = "section"
  <2>1. /\ Holds(1) /\ Length >= 1 /\ Since(1) = "." /\ AllIn(word, IdentChars)
        /\ Peek \in IdentChars
    BY <1>1, <1>10, Recognisers DEF Collected
  <2>2. Holds(1)' /\ Length' >= 1 /\ Since(1)' = "."
    BY <1>4, <1>5, <1>6, <2>1
  <2>3. AllIn(word', IdentChars)
    BY <1>5, <1>6, <2>1, AllInMore
  <2> QED
    BY <1>1, <1>7, <1>10, <2>2, <2>3, Recognisers DEF WordInv, Collected
<1>11. CASE mode = "hex"
  <2>1. /\ Holds(2) /\ Length >= 2 /\ Since(1) = "0" /\ Since(2) \in BaseMarks
        /\ AllIn(word, HexDigits) /\ Peek \in HexDigits
    BY <1>1, <1>11, Recognisers DEF Collected
  <2>2. Holds(2)' /\ Length' >= 2 /\ Since(1)' = "0" /\ Since(2)' \in BaseMarks
    BY <1>4, <1>5, <1>6, <2>1
  <2>3. AllIn(word', HexDigits)
    BY <1>5, <1>6, <2>1, AllInMore
  <2> QED
    BY <1>1, <1>7, <1>11, <2>2, <2>3, Recognisers DEF WordInv, Collected
<1> QED
  BY <1>1, <1>8, <1>9, <1>10, <1>11, Recognisers
LEMMA OpenerModes ==
  /\ DOMAIN Openers = {Semicolon, ".", Quote, "'", "-"}
  /\ Openers[Semicolon] = "comment" /\ Openers["."] = "section" /\ Openers[Quote] = "string"
  /\ Openers["'"] = "char" /\ Openers["-"] = "signed"
  /\ Semicolon \notin {".", Quote, "'", "-"} /\ Quote \notin {".", "'", "-"}
BY Zenon DEF Openers, Semicolon, Quote

LEMMA OpenKeeps ==
  ASSUME BufInv, TypeInv, WordInv, Open
  PROVE  WordInv'
<1>1. /\ Bump /\ begun' = Here /\ Peek \in IdentChars \cup DOMAIN Openers
      /\ mode' = (IF Peek \in IdentStart THEN "ident"
                  ELSE IF Peek \in Digits THEN "number" ELSE Openers[Peek])
      /\ word' = (IF Peek \in IdentChars \cup {"-"} THEN <<Peek>> ELSE <<>>)
  BY DEF Open
<1>2. Taken \in Nat /\ Taken' = Taken + 1 /\ Text[Taken + 1] = Peek /\ Text' = Text
  BY <1>1, CharTaken, ClassesAreCharacters
<1>3. Length' = 1 /\ Since(1)' = Peek
  BY <1>1, <1>2 DEF Length, Since, Here
<1>4. \A c \in DOMAIN Openers : c \notin IdentChars
  BY CharAssumption DEF Signs
<1>5. SBUF_SIZE >= 1 /\ SBUF_SIZE \in Nat
  BY SbufAssumption
<1>6. CASE Peek \in IdentChars
  <2> DEFINE first == IF mode' = "ident" THEN IdentStart ELSE Digits
  <2>1. word' = <<Peek>> /\ mode' \in {"ident", "number"} /\ Peek \in first
    BY <1>1, <1>6 DEF IdentChars
  <2>2. Len(word') = 1 /\ word'[1] = Peek /\ Holds(0)'
    BY <1>3, <2>1 DEF Holds
  <2>3. AllIn(word', More[mode'])
    BY <2>1, <2>2, Recognisers DEF AllIn, IdentChars, NumChars
  <2> QED
    BY <1>3, <1>5, <2>1, <2>2, <2>3, Recognisers DEF WordInv, Collected
<1>7. CASE Peek = "-"
  <2>1. word' = <<Peek>> /\ mode' = "signed"
    BY <1>1, <1>4, <1>7, OpenerModes DEF IdentChars
  <2>2. Len(word') = 1 /\ word'[1] = "-" /\ Holds(0)'
    BY <1>3, <1>7, <2>1 DEF Holds
  <2>3. Collected(mode)'
    BY <1>3, <2>1, <2>2 DEF Collected
  <2> QED
    BY <1>5, <2>1, <2>2, <2>3, Recognisers DEF WordInv
<1>8. CASE Peek \in {Semicolon, ".", Quote, "'"}
  <2>1. word' = <<>> /\ mode' = Openers[Peek] /\ Len(word') = 0
    BY <1>1, <1>4, <1>8, OpenerModes DEF IdentChars
  <2>2. CASE Peek = "."
    <3>1. mode' = "section" /\ Holds(1)'
      BY <1>3, <2>1, <2>2, OpenerModes DEF Holds
    <3>2. Collected(mode)'
      BY <1>3, <2>1, <2>2, <3>1 DEF Collected, AllIn
    <3> QED
      BY <1>5, <2>1, <3>1, <3>2, Recognisers DEF WordInv
  <2>3. CASE Peek = Semicolon
    <3>1. mode' = "comment"
      BY <2>1, <2>3, OpenerModes
    <3>2. \A k \in 1 .. Length' : Since(k)' # "\n"
      <4>1. Since(1)' # "\n"
        BY <1>3, <2>3 DEF Semicolon
      <4>2. \A k \in 1 .. Length' : k = 1
        BY <1>3
      <4> QED
        BY <4>1, <4>2
    <3> QED
      BY <1>3, <2>1, <2>3, <3>1, <3>2, Recognisers DEF WordInv
  <2>4. CASE Peek = Quote
    <3>1. mode' = "string"
      BY <2>1, <2>4, OpenerModes
    <3>2. InString(0)'
      <4>1. {} \in SUBSET (1 .. 0) /\ 0 \notin {} /\ \A k \in 1 .. 0 : FALSE
        OBVIOUS
      <4>2. Escaping({}, begun.taken + 1, 0)' /\ Complete({}, begun.taken + 1, 0)'
        BY <4>1 DEF Escaping, Complete
      <4>3. mode' # "escaped" /\ Since(1)' = Quote
        BY <1>3, <2>4, <3>1
      <4> QED
        BY <4>1, <4>2, <4>3, Zenon DEF InString
    <3>3. InString(Length - 1)'
      BY <1>3, <3>2
    <3> QED
      BY <1>3, <3>1, <3>3, Recognisers DEF WordInv
  <2>5. CASE Peek = "'"
    <3>1. mode' = "char"
      BY <2>1, <2>5, OpenerModes
    <3> QED
      BY <1>3, <2>1, <2>5, <3>1, Recognisers DEF WordInv
  <2> QED
    BY <1>8, <2>2, <2>3, <2>4, <2>5
<1> QED
  BY <1>1, <1>6, <1>7, <1>8, OpenerModes

LEMMA OverrunKeeps ==
  ASSUME BufInv, TypeInv, WordInv, Overrun
  PROVE  WordInv'
<1>1. /\ mode \in Collecting /\ ~(Len(word) < SBUF_SIZE) /\ mode' = "overrun"
      /\ UNCHANGED bufferVars /\ word' = word /\ begun' = begun
  BY DEF Overrun, Room
<1>2. Collected(mode) /\ Len(word) <= SBUF_SIZE /\ Len(word) \in Nat
  BY <1>1 DEF WordInv, TypeInv
<1>3. Text' = Text /\ Taken' = Taken
  BY <1>1, StillText
<1>4. \A m : Collected(m)' <=> Collected(m)
  BY <1>1, <1>3 DEF Collected, Holds, Length, Since
<1>5. Len(word) = SBUF_SIZE
  BY <1>1, <1>2, SbufAssumption
<1> QED
  BY <1>1, <1>2, <1>4, <1>5, Recognisers DEF WordInv

LEMMA BeginHexKeeps ==
  ASSUME BufInv, TypeInv, WordInv, BeginHex
  PROVE  WordInv'
<1>1. /\ mode = "number" /\ word = <<"0">> /\ Peek \in BaseMarks /\ Bump
      /\ mode' = "hex" /\ word' = <<>> /\ begun' = begun
  BY DEF BeginHex, Prefixed
<1>2. Taken' = Taken + 1 /\ Text[Taken + 1] = Peek /\ Text' = Text
  BY <1>1, CharTaken, ClassesAreCharacters
<1>3. /\ begun.taken \in Nat /\ Length \in Nat /\ Taken = begun.taken + Length
      /\ Length' = Length + 1 /\ \A i : Since(i)' = Since(i)
  <2>1. /\ begun.taken \in Nat /\ Length \in Nat /\ Taken = begun.taken + Length
        /\ Length' = Length + (Taken' - Taken) /\ \A i : Since(i)' = Since(i)
    BY <1>1, <1>2, SameWord
  <2> QED
    BY <1>2, <2>1
<1>4. Holds(0)
  BY <1>1, Recognisers DEF WordInv, Collected
<1>5. Length = 1 /\ Since(1) = "0"
  <2>1. Len(word) = 1 /\ word[1] = "0"
    BY <1>1
  <2> QED
    <3>1. Len(word) = Length - 0 /\ \A i \in 1 .. Len(word) : word[i] = Since(0 + i)
      BY <1>4 DEF Holds
    <3>2. Length = 1
      <4>1. \A n \in Nat : 1 = n - 0 => n = 1
        OBVIOUS
      <4>2. Length \in Nat /\ 1 = Length - 0
        BY <1>3, <2>1, <3>1
      <4> QED
        BY <4>1, <4>2
    <3>3. 1 \in 1 .. Len(word) /\ 0 + 1 = 1
      BY <2>1
    <3> QED
      BY <2>1, <3>1, <3>2, <3>3
<1>6. Since(2) = Peek
  BY <1>2, <1>3, <1>5 DEF Since
<1>7. Len(word') = 0 /\ Holds(2)'
  BY <1>1, <1>3, <1>5 DEF Holds
<1>8. Collected("hex")'
  BY <1>1, <1>3, <1>5, <1>6, <1>7 DEF Collected, AllIn
<1> QED
  BY <1>1, <1>7, <1>8, Recognisers, SbufAssumption DEF WordInv

LEMMA CommentKeeps ==
  ASSUME BufInv, TypeInv, WordInv, Comment
  PROVE  WordInv'
<1>1. mode = "comment" /\ word' = word /\ begun' = begun /\ word = <<>>
  BY DEF Comment, WordInv
<1>2. CASE Peek = "\n"
  BY <1>1, <1>2, WordEnds DEF Comment
<1>3. CASE Peek # "\n"
  <2>1. Bump /\ mode' = "comment"
    BY <1>1, <1>3 DEF Comment
  <2>2. /\ Text' = Text /\ Taken' = (IF Taken < len THEN Taken + 1 ELSE Taken)
        /\ Taken \in Nat /\ Peek = (IF Taken < len THEN Text[Taken + 1] ELSE EOF)
    BY <2>1, BumpMoves, TextFacts
  <2>3. /\ begun.taken \in Nat /\ Length \in Nat /\ Taken = begun.taken + Length
        /\ Length' = Length + (Taken' - Taken) /\ \A i : Since(i)' = Since(i)
    BY <1>1, <2>2, SameWord
  <2>4. /\ Length >= 1 /\ Since(1) = Semicolon
        /\ \A k \in 1 .. Length : Since(k) # "\n"
    BY <1>1 DEF WordInv
  <2>5. ASSUME NEW k \in 1 .. Length'
        PROVE  Since(k) # "\n"
    <3>1. CASE k \in 1 .. Length
      BY <2>4, <3>1
    <3>2. CASE k \notin 1 .. Length
      <4>1. Taken < len /\ k = Length + 1
        BY <2>2, <2>3, <3>2
      <4>2. begun.taken + k = Taken + 1
        BY <2>3, <4>1
      <4> QED
        BY <1>3, <2>2, <4>1, <4>2 DEF Since
    <3> QED
      BY <3>1, <3>2
  <2>6. Length' >= 1
    BY <2>2, <2>3, <2>4
  <2> QED
    BY <1>1, <2>1, <2>3, <2>4, <2>5, <2>6, Recognisers DEF WordInv
<1> QED
  BY <1>2, <1>3

\* A string goes on by a character that is no quotation mark.
LEMMA StringGrows ==
  ASSUME BufInv, TypeInv, Bump, Peek \notin {Quote, EOF}, begun' = begun,
         mode \in {"string", "escaped"}, Length >= 1, InString(Length - 1),
         IF mode = "string" THEN mode' = (IF Peek = "\\" THEN "escaped" ELSE "string")
         ELSE mode' = "string" /\ Peek \in DOMAIN Escapes
  PROVE  Length' >= 1 /\ InString(Length - 1)'
<1>1. Taken' = Taken + 1 /\ Text[Taken + 1] = Peek /\ Text' = Text
  BY CharTaken
<1>2. /\ begun.taken \in Nat /\ Length \in Nat /\ Taken = begun.taken + Length /\ Taken \in Nat
      /\ Length' = Length + (Taken' - Taken) /\ \A i : Since(i)' = Since(i)
  BY <1>1, SameWord
<1>3. PICK n \in Nat : n = Length - 1
  BY <1>2
<1>4. Length' - 1 = n + 1 /\ Length' >= 1
  BY <1>1, <1>2, <1>3
<1>5. begun.taken + (n + 2) = Taken + 1
  BY <1>2, <1>3
<1>6. Since(n + 2) = Peek
  BY <1>1, <1>5 DEF Since
<1> DEFINE from == begun.taken + 1
<1>7. from + (n + 1) = Taken + 1
  BY <1>2, <1>3
<1>8. Text[from + (n + 1)] = Peek
  BY <1>1, <1>7
<1>9. PICK E \in SUBSET (1 .. n) : /\ Escaping(E, from, n) /\ Complete(E, from, n)
                                   /\ n \in E <=> mode = "escaped"
  BY <1>3 DEF InString
<1>10. /\ \A k \in 1 .. n : k \in E <=> Text[from + k] = "\\" /\ k - 1 \notin E
       /\ \A k \in E : k < n => Text[from + k + 1] \in DOMAIN Escapes
  BY <1>9 DEF Escaping, Complete
<1>11. from \in Nat
  BY <1>2
<1> HIDE DEF from
<1>12. PICK F : /\ F \in SUBSET (1 .. (n + 1)) /\ 0 \notin F /\ 0 \notin E
                /\ n + 1 \in F <=> mode' = "escaped"
                /\ \A k \in 1 .. n : k \in F <=> k \in E
                /\ n \in F <=> mode = "escaped"
  <2> DEFINE F == IF mode' = "escaped" THEN E \cup {n + 1} ELSE E
  <2>1. /\ F \in SUBSET (1 .. (n + 1)) /\ 0 \notin F /\ 0 \notin E
        /\ n + 1 \in F <=> mode' = "escaped"
        /\ \A k \in 1 .. n : k \in F <=> k \in E
        /\ n \in F <=> mode = "escaped"
    BY <1>9
  <2> QED
    BY <2>1, Zenon
<1>13. Escaping(F, from, n + 1)
  <2> SUFFICES ASSUME NEW k \in 1 .. (n + 1)
               PROVE  k \in F <=> Text[from + k] = "\\" /\ k - 1 \notin F
    BY <1>12 DEF Escaping
  <2>1. CASE k \in 1 .. n
    <3>1. k - 1 \in F <=> k - 1 \in E
      <4>1. k - 1 \in 1 .. n \/ k - 1 = 0
        BY <2>1
      <4>2. 0 \notin F
        BY <1>12
      <4> QED
        BY <1>12, <4>1, <4>2
    <3> QED
      BY <1>10, <1>12, <2>1, <3>1
  <2>2. CASE k = n + 1
    <3>1. k - 1 = n /\ Text[from + k] = Peek
      BY <1>8, <2>2
    <3>2. n + 1 \in F <=> Peek = "\\" /\ mode # "escaped"
      BY <1>12
    <3> QED
      BY <1>12, <2>2, <3>1, <3>2
  <2> QED
    BY <2>1, <2>2
<1>14. Complete(F, from, n + 1)
  <2> SUFFICES ASSUME NEW k \in F, k < n + 1
               PROVE  Text[from + k + 1] \in DOMAIN Escapes
    BY DEF Complete
  <2>1. k \in 1 .. n /\ k \in E
    BY <1>12
  <2>2. CASE k < n
    BY <1>10, <2>1, <2>2
  <2>3. CASE k = n
    <3>1. from + k + 1 = from + (n + 1) /\ mode = "escaped"
      BY <1>11, <1>12, <2>3
    <3> QED
      BY <1>8, <3>1
  <2> QED
    BY <2>1, <2>2, <2>3
<1>15. \A k \in 1 .. (n + 1) : Since(k + 1) \notin {Quote, EOF}
  <2> SUFFICES ASSUME NEW k \in 1 .. (n + 1)
               PROVE  Since(k + 1) \notin {Quote, EOF}
    OBVIOUS
  <2>1. CASE k \in 1 .. n
    BY <1>3, <2>1 DEF InString
  <2>2. CASE k = n + 1
    BY <1>6, <2>2
  <2> QED
    BY <2>1, <2>2
<1>16. Since(1) = Quote
  BY DEF InString
<1>17. begun.taken' + 1 = from
  BY DEF from
<1>18. Escaping(F, begun.taken + 1, n + 1)' /\ Complete(F, begun.taken + 1, n + 1)'
  BY <1>1, <1>13, <1>14, <1>17 DEF Escaping, Complete
<1>19. Since(1)' = Quote /\ \A k \in 1 .. (n + 1) : Since(k + 1)' \notin {Quote, EOF}
  BY <1>2, <1>15, <1>16
<1>20. InString(n + 1)'
  BY <1>12, <1>18, <1>19, Zenon DEF InString
<1> QED
  BY <1>4, <1>20

LEMMA StringKeeps ==
  ASSUME BufInv, TypeInv, WordInv, StringChar
  PROVE  WordInv'
<1>1. mode = "string" /\ Bump
  BY DEF StringChar
<1>2. CASE mode' = "next" /\ word' = <<>>
  BY <1>2, WordEnds
<1>3. CASE /\ Peek \notin {Quote, EOF} /\ begun' = begun
           /\ mode' = (IF Peek = "\\" THEN "escaped" ELSE mode)
  <2>1. Length >= 1 /\ InString(Length - 1)
    BY <1>1 DEF WordInv
  <2>2. Length' >= 1 /\ InString(Length - 1)'
    BY <1>1, <1>3, <2>1, StringGrows
  <2>3. mode' \in {"string", "escaped"}
    BY <1>1, <1>3
  <2> QED
    BY <2>2, <2>3, Recognisers DEF WordInv
<1> QED
  BY <1>2, <1>3, Zenon DEF StringChar, Emit, Quote

LEMMA CharStartKeeps ==
  ASSUME BufInv, TypeInv, WordInv, CharStart
  PROVE  WordInv'
<1>1. /\ mode = "char" /\ Bump /\ begun' = begun
      /\ mode' = IF Peek = "\\" THEN "char_escaped" ELSE "char_close"
  BY DEF CharStart
<1>2. word' = IF Peek = "\\" THEN <<>> ELSE <<Peek>>
  BY DEF CharStart
<1>3. Length = 1 /\ Since(1) = "'"
  BY <1>1 DEF WordInv
<1>4. /\ Taken \in Nat /\ Text' = Text /\ len' = len /\ Taken <= len /\ len \in Nat
      /\ Taken' = (IF Taken < len THEN Taken + 1 ELSE Taken)
      /\ Peek = (IF Taken < len THEN Text[Taken + 1] ELSE EOF)
  BY <1>1, BumpMoves, TextFacts
<1>5. /\ begun.taken \in Nat /\ Taken = begun.taken + Length
      /\ Length' = Length + (Taken' - Taken) /\ \A i : Since(i)' = Since(i)
  BY <1>1, <1>4, SameWord
<1>6. Taken < len => Taken' = Taken + 1 /\ Length' = 2 /\ Since(2) = Peek
  <2> SUFFICES ASSUME Taken < len
               PROVE  Taken' = Taken + 1 /\ Length' = 2 /\ Since(2) = Peek
    OBVIOUS
  <2>1. Taken' = Taken + 1 /\ Peek = Text[Taken + 1]
    BY <1>4
  <2>2. Length' = Length + 1
    BY <1>4, <1>5, <2>1
  <2>3. Length' = 2
    BY <1>3, <2>2
  <2>4. Taken + 1 = begun.taken + 2
    BY <1>3, <1>5
  <2> QED
    BY <2>1, <2>3, <2>4 DEF Since
<1>7. Taken = len => Taken' = len' /\ Length' = 1 /\ Peek = EOF
  BY <1>3, <1>4, <1>5
<1>8. CASE Peek = "\\"
  <2>1. Taken < len
    BY <1>4, <1>7, <1>8, ClassesAreCharacters
  <2> QED
    BY <1>1, <1>2, <1>3, <1>5, <1>6, <1>8, <2>1, Recognisers DEF WordInv
<1>9. CASE Peek # "\\"
  <2>1. mode' = "char_close" /\ word' = <<Peek>>
    BY <1>1, <1>2, <1>9
  <2>2. Len(word') = 1 /\ word'[1] = Peek
    BY <2>1
  <2>3. /\ Length' >= 1 /\ Since(1)' = "'"
        /\ \/ Length' = 1 /\ Taken' = len'
           \/ Length' = 2 /\ Since(2)' # "\\" /\ word'[1] = Since(2)'
    BY <1>3, <1>4, <1>5, <1>6, <1>7, <1>9, <2>2, SMTT(30)
  <2> QED
    BY <2>1, <2>2, <2>3, Recognisers DEF WordInv
<1> QED
  BY <1>8, <1>9

LEMMA EscapeKeeps ==
  ASSUME BufInv, TypeInv, WordInv, Escape
  PROVE  WordInv'
<1>1. mode \in {"escaped", "char_escaped"} /\ Bump
  BY DEF Escape
<1>2. CASE Peek \notin DOMAIN Escapes
  BY <1>2, WordEnds DEF Escape, Emit
<1>3. CASE Peek \in DOMAIN Escapes
  <2>1. /\ begun' = begun /\ word' = Append(word, Escapes[Peek])
        /\ mode' = IF mode = "escaped" THEN "string" ELSE "char_close"
    BY <1>3 DEF Escape
  <2>2. Peek \notin {Quote, EOF}
    BY <1>3, CharAssumption, Zenon DEF Quote
  <2>3. CASE mode = "escaped"
    <3>1. Length >= 1 /\ InString(Length - 1)
      BY <2>3 DEF WordInv
    <3>2. Length' >= 1 /\ InString(Length - 1)'
      BY <1>1, <1>3, <2>1, <2>2, <2>3, <3>1, StringGrows
    <3> QED
      BY <2>1, <2>3, <3>2, Recognisers DEF WordInv
  <2>4. CASE mode = "char_escaped"
    <3>1. word = <<>> /\ Length = 2 /\ Since(1) = "'" /\ Since(2) = "\\"
      BY <2>4 DEF WordInv
    <3>2. Taken' = Taken + 1 /\ Text[Taken + 1] = Peek /\ Text' = Text
      BY <1>1, <2>2, CharTaken
    <3>3. /\ begun.taken \in Nat /\ Taken = begun.taken + Length
          /\ Length' = Length + (Taken' - Taken) /\ \A i : Since(i)' = Since(i)
      BY <2>1, <3>2, SameWord
    <3>4. Length' = 3 /\ Since(3) = Peek
      <4>1. Length' = Length + 1
        BY <3>2, <3>3, TextFacts
      <4>2. Length' = 3
        BY <3>1, <4>1
      <4>3. Taken + 1 = begun.taken + 3
        BY <3>1, <3>3
      <4> QED
        BY <3>2, <4>2, <4>3 DEF Since
    <3>5. mode' = "char_close" /\ Len(word') = 1 /\ word'[1] = Escapes[Peek]
      BY <2>1, <2>4, <3>1
    <3> QED
      BY <1>3, <3>1, <3>3, <3>4, <3>5, Recognisers DEF WordInv
  <2> QED
    BY <1>1, <2>3, <2>4
<1> QED
  BY <1>2, <1>3

LEMMA WordKeeps ==
  ASSUME BufInv, TypeInv, WordInv, Next
  PROVE  WordInv'
<1>1. CASE EndOfFile \/ SkipBlank
  <2>1. word' = <<>> /\ mode' \in {"next", "done"}
    BY <1>1 DEF EndOfFile, SkipBlank, WordInv
  <2> QED
    BY <2>1, WordEnds
<1>2. CASE SingleChar \/ Stray \/ BadBase \/ FinishIdent \/ FinishSection \/ FinishNumber
           \/ FinishHex \/ CharClose
  BY <1>2, WordEnds DEF SingleChar, Stray, BadBase, FinishIdent, FinishSection, FinishNumber,
                        FinishHex, CharClose, Emit
<1> QED
  BY <1>1, <1>2, OpenKeeps, CollectKeeps, OverrunKeeps, BeginHexKeeps, CommentKeeps, StringKeeps,
     CharStartKeeps, EscapeKeeps DEF Next
-----------------------------------------------------------------------------
(* The grammar, kind by kind.                                              *)

LEMMA LexemeKinds ==
  ASSUME NEW s, NEW next
  PROVE  /\ Lexeme("KEYWORD", s, next) <=>
              SignShape(s) \/ (s \in Keywords /\ next \notin IdentChars)
         /\ Lexeme("IDENT", s, next) <=>
              IdentShape(s) /\ s \notin Keywords /\ next \notin IdentChars \cup {":"}
         /\ Lexeme("LABEL", s, next) <=>
              Len(s) > 1 /\ s[Len(s)] = ":" /\ IdentShape(Front(s)) /\ Front(s) \notin Keywords
         /\ Lexeme("UINT", s, next) <=>
              \/ DecimalShape(s) /\ ~HasDot(s) /\ NumberEnds(s, next)
              \/ HexShape(s) /\ next \notin HexDigits
         /\ Lexeme("FLOAT", s, next) <=>
              (DecimalShape(s) \/ SignedShape(s)) /\ HasDot(s) /\ NumberEnds(s, next)
         /\ Lexeme("INT", s, next) <=>
              \/ SignedShape(s) /\ ~HasDot(s) /\ next \notin NumChars
              \/ CharShape(s)
         /\ Lexeme("SLIT", s, next) <=> QuotedShape(s)
         /\ Lexeme("EOF", s, next) <=> s \in {<<>>, <<EOF>>}
BY DEF Lexeme

LEMMA SectionKinds ==
  ASSUME NEW s, NEW next, NEW kind \in {"SECTION_DATA", "SECTION_TEXT"}
  PROVE  Lexeme(kind, s, next) <=>
           /\ s # <<>> /\ s[1] = "." /\ next \notin IdentChars
           /\ Behind(s, 1) \in DOMAIN SectionNames /\ SectionNames[Behind(s, 1)] = kind
BY DEF Lexeme

LEMMA LineEndKind ==
  ASSUME NEW s, NEW next
  PROVE  Lexeme("EOL", s, next) <=> s = <<"\n">>
BY DEF Lexeme

LEMMA Spellings ==
  ASSUME NEW s
  PROVE  /\ Spelling("KEYWORD", s) = IF SignShape(s) THEN Twins[s[1]] ELSE s
         /\ \A kind \in {"IDENT", "FLOAT"} : Spelling(kind, s) = s
         /\ Spelling("LABEL", s) = Front(s)
         /\ Spelling("UINT", s) = (IF ~HexShape(s) THEN s
                                   ELSE IF Len(s) = 2 THEN <<"0">> ELSE Behind(s, 2))
         /\ Spelling("INT", s) = (IF SignedShape(s) THEN s
                                  ELSE IF Len(s) = 3 THEN <<s[2]>> ELSE <<Escapes[s[3]]>>)
         /\ \A kind \in {"EOF", "EOL", "SECTION_DATA", "SECTION_TEXT"} :
              Spelling(kind, s) = <<>>
BY DEF Spelling

\* What a text begins with tells the lexemes it can be.
Begins(s, next) ==
  \/ s[1] \in IdentStart \cup TwinSigns
  \/ s[1] \in Digits /\ DecimalShape(s) /\ NumberEnds(s, next)
  \/ HexShape(s)
  \/ s[1] = "-"
  \/ CharShape(s)
  \/ QuotedShape(s)
  \/ s[1] = "." /\ next \notin IdentChars /\ Behind(s, 1) \in DOMAIN SectionNames

LEMMA BehindDot ==
  ASSUME NEW w \in Seq(IdentChars)
  PROVE  /\ (<<".">> \o w)[1] = "." /\ Behind(<<".">> \o w, 1) = w
<1> DEFINE s == <<".">> \o w
<1>1. /\ s \in Seq(IdentChars \cup {"."}) /\ Len(s) = Len(w) + 1 /\ s[1] = "."
      /\ \A i \in 1 .. Len(w) : s[i + 1] = w[i]
  <2>1. <<".">> \in Seq(IdentChars \cup {"."}) /\ w \in Seq(IdentChars \cup {"."})
    OBVIOUS
  <2> QED
    BY <2>1, ConcatProperties
<1> HIDE DEF s
<1>2. Len(w) \in Nat
  OBVIOUS
<1>3. \A i \in 2 .. Len(s) : s[i] \in IdentChars \cup {"."}
  BY <1>1, <1>2
<1>4. /\ SubSeq(s, 2, Len(s)) \in Seq(IdentChars \cup {"."})
      /\ Len(SubSeq(s, 2, Len(s))) = IF 2 <= Len(s) THEN Len(s) - 2 + 1 ELSE 0
      /\ \A i \in 1 .. (Len(s) - 2 + 1) : SubSeq(s, 2, Len(s))[i] = s[2 + i - 1]
  BY <1>1, <1>2, <1>3, SubSeqProperties
<1>5. Len(SubSeq(s, 2, Len(s))) = Len(w)
  BY <1>1, <1>2, <1>4
<1>6. \A i \in 1 .. Len(w) : SubSeq(s, 2, Len(s))[i] = w[i]
  <2> SUFFICES ASSUME NEW i \in 1 .. Len(w)
               PROVE  SubSeq(s, 2, Len(s))[i] = w[i]
    OBVIOUS
  <2>1. i \in 1 .. (Len(s) - 2 + 1) /\ 2 + i - 1 = i + 1
    BY <1>1, <1>2
  <2> QED
    BY <1>1, <1>4, <2>1
<1>7. SubSeq(s, 2, Len(s)) = w
  BY <1>4, <1>5, <1>6, SeqEqual
<1>8. 1 + 1 = 2
  OBVIOUS
<1> QED
  BY <1>1, <1>7, <1>8 DEF Behind, s

LEMMA LexemeBegins ==
  ASSUME NEW kind \in TextKinds, NEW s \in Seq(CharSet), NEW next, Lexeme(kind, s, next)
  PROVE  Begins(s, next)
<1>1. CASE kind = "KEYWORD"
  <2>1. SignShape(s) \/ (s \in Keywords /\ next \notin IdentChars)
    BY <1>1, LexemeKinds
  <2>0. CASE SignShape(s)
    BY <2>0 DEF SignShape, Begins
  <2>2. CASE IdentShape(s)
    BY <2>2 DEF IdentShape, Begins
  <2>3. CASE ~IdentShape(s) /\ ~SignShape(s)
    <3>1. PICK name \in DOMAIN SectionNames : s = <<".">> \o name
      BY <2>1, <2>3, CharAssumption
    <3>2. name \in Seq(IdentChars)
      BY CharAssumption
    <3> QED
      BY <2>1, <2>3, <3>1, <3>2, BehindDot DEF Begins
  <2> QED
    BY <2>0, <2>2, <2>3
<1>2. CASE kind = "IDENT"
  BY <1>2, LexemeKinds DEF IdentShape, Begins
<1>3. CASE kind = "LABEL"
  <2>1. Len(s) > 1 /\ IdentShape(Front(s))
    BY <1>3, LexemeKinds
  <2> QED
    BY <2>1 DEF IdentShape, Begins, Front
<1>4. CASE kind = "UINT" \/ kind = "FLOAT"
  BY <1>4, LexemeKinds DEF Begins, DecimalShape, SignedShape
<1>5. CASE kind = "INT"
  BY <1>5, LexemeKinds DEF Begins, SignedShape
<1>6. CASE kind = "SLIT"
  BY <1>6, LexemeKinds DEF Begins
<1>7. CASE kind \in {"SECTION_DATA", "SECTION_TEXT"}
  BY <1>7, SectionKinds DEF Begins
<1> QED
  BY <1>1, <1>2, <1>3, <1>4, <1>5, <1>6, <1>7 DEF TextKinds
-----------------------------------------------------------------------------
(* A token and its text.                                                   *)

Piece(from, to) == SubSeq(Text, from + 1, to)

LEMMA PieceFacts ==
  ASSUME BufInv, NEW from \in 0 .. len, NEW to \in from .. len
  PROVE  /\ Piece(from, to) \in Seq(CharSet) /\ Len(Piece(from, to)) = to - from
         /\ \A i \in 1 .. (to - from) : Piece(from, to)[i] = Text[from + i]
BY SubText DEF Piece

Rejected(from) ==
  \A kind \in TextKinds, e \in (from + 1) .. len : ~Lexeme(kind, Piece(from, e), CharBehind(e))

Accepted(from, to, kind, w) ==
  /\ Lexeme(kind, Piece(from, to), CharBehind(to))
  /\ kind # "SLIT" => w = Spelling(kind, Piece(from, to))

Spelled(t) ==
  IF t.kind = "ILLEGAL" THEN Rejected(t.from) ELSE Accepted(t.from, t.to, t.kind, t.word)

LEMMA SpelledDef == TokensSpelled <=> \A k \in 1 .. Len(tokens) : Spelled(tokens[k])
BY DEF TokensSpelled, Spelled, Rejected, Accepted, Piece, TokenText

\* What a step returns, if anything, is a token of the grammar.
Sound == tokens' = tokens \/ \E t : tokens' = Append(tokens, t) /\ Spelled(t)

LEMMA Accepts ==
  ASSUME NEW o, NEW kind, NEW w, tokens' = Append(tokens, TokenOf(o, kind, w)),
         len - remaining' = Taken', kind # "ILLEGAL", Accepted(o.taken, Taken', kind, w)
  PROVE  Sound
BY DEF Sound, Spelled, TokenOf

LEMMA Rejects ==
  ASSUME NEW o, NEW w, tokens' = Append(tokens, TokenOf(o, "ILLEGAL", w)), Rejected(o.taken)
  PROVE  Sound
BY DEF Sound, Spelled, TokenOf

LEMMA SpelledKeeps ==
  ASSUME BufInv, TypeInv, Moves, TokensSpelled, Sound
  PROVE  TokensSpelled'
<1>1. Text' = Text /\ len' = len
  BY DEF Moves
<1>2. \A k \in 1 .. Len(tokens) : Spelled(tokens[k])
  BY SpelledDef
<1>3. (\A k \in 1 .. Len(tokens') : Spelled(tokens'[k])) => TokensSpelled'
  BY <1>1 DEF TokensSpelled, Spelled, Rejected, Accepted, Piece, TokenText, CharBehind
<1>4. CASE tokens' = tokens
  BY <1>2, <1>3, <1>4
<1>5. ASSUME NEW t, tokens' = Append(tokens, t), Spelled(t)
      PROVE  TokensSpelled'
  <2>1. tokens \in Seq(TokenSet \cup {t})
    BY DEF TypeInv
  <2>2. /\ Len(tokens) \in Nat /\ Len(tokens') = Len(tokens) + 1
        /\ \A k \in 1 .. Len(tokens) : tokens'[k] = tokens[k]
        /\ tokens'[Len(tokens) + 1] = t
    BY <1>5, <2>1, AppendProperties
  <2>3. ASSUME NEW k \in 1 .. Len(tokens')
        PROVE  Spelled(tokens'[k])
    <3>1. k \in 1 .. Len(tokens) \/ k = Len(tokens) + 1
      BY <2>2
    <3> QED
      BY <1>2, <1>5, <2>2, <3>1
  <2> QED
    BY <1>3, <2>3
<1> QED
  BY <1>4, <1>5 DEF Sound

\* Where a word that began at begun is, and what it is, when the next character
\* is c: at the end of the file that is EOF.
LEMMA WordPlace ==
  ASSUME BufInv, TypeInv
  PROVE  /\ begun.taken \in Nat /\ Taken \in Nat /\ len \in Nat /\ Length \in Nat
         /\ Taken = begun.taken + Length /\ Taken <= len
         /\ begun.taken \in 0 .. len /\ Taken \in begun.taken .. len
         /\ Piece(begun.taken, Taken) \in Seq(CharSet) /\ Len(Piece(begun.taken, Taken)) = Length
         /\ \A i \in 1 .. Length : Piece(begun.taken, Taken)[i] = Since(i)
         /\ CharBehind(Taken) = Peek
<1>1. /\ len \in Nat /\ Taken \in Nat /\ Taken <= len
      /\ Peek = (IF Taken < len THEN Text[Taken + 1] ELSE EOF)
  BY TextFacts
<1>2. begun.taken \in Nat /\ begun.taken <= Taken
  BY DEF TypeInv
<1>3. /\ begun.taken \in 0 .. len /\ Taken \in begun.taken .. len
      /\ Length \in Nat /\ Taken = begun.taken + Length /\ Taken - begun.taken = Length
  BY <1>1, <1>2 DEF Length
<1>4. /\ Piece(begun.taken, Taken) \in Seq(CharSet) /\ Len(Piece(begun.taken, Taken)) = Length
      /\ \A i \in 1 .. Length : Piece(begun.taken, Taken)[i] = Text[begun.taken + i]
  BY <1>3, PieceFacts
<1> QED
  BY <1>1, <1>2, <1>3, <1>4 DEF Since, CharBehind

\* A word of which buf holds all but the first n characters.
LEMMA HeldWord ==
  ASSUME BufInv, TypeInv, NEW n \in 0 .. 2, Holds(n), n <= Length
  PROVE  Behind(Piece(begun.taken, Taken), n) = word
<1> DEFINE s == Piece(begun.taken, Taken)
           m == n + 1
<1>1. s \in Seq(CharSet) /\ Len(s) = Length /\ Length \in Nat /\ \A i \in 1 .. Length : s[i] = Since(i)
  BY WordPlace
<1> HIDE DEF s
<1>2. m \in Int /\ Length \in Int /\ \A i \in m .. Length : s[i] \in CharSet
  BY <1>1
<1>3. /\ SubSeq(s, m, Length) \in Seq(CharSet)
      /\ Len(SubSeq(s, m, Length)) = IF m <= Length THEN Length - m + 1 ELSE 0
      /\ \A i \in 1 .. (Length - m + 1) : SubSeq(s, m, Length)[i] = s[m + i - 1]
  BY <1>2, SubSeqProperties
<1>4. word \in Seq(CharSet) /\ Len(word) = Length - n /\ \A i \in 1 .. Len(word) : word[i] = Since(n + i)
  BY DEF Holds, TypeInv
<1>5. Len(SubSeq(s, m, Length)) = Len(word)
  BY <1>1, <1>3, <1>4
<1>6. ASSUME NEW i \in 1 .. Len(word)
      PROVE  SubSeq(s, m, Length)[i] = word[i]
  <2>1. i \in 1 .. (Length - m + 1) /\ m + i - 1 = n + i /\ n + i \in 1 .. Length
    BY <1>1, <1>4
  <2> QED
    BY <1>1, <1>3, <1>4, <2>1
<1>7. SubSeq(s, m, Length) = word
  BY <1>3, <1>4, <1>5, <1>6, SeqEqual
<1> QED
  BY <1>1, <1>7 DEF Behind, s

LEMMA HeldAll ==
  ASSUME BufInv, TypeInv, Holds(0)
  PROVE  Piece(begun.taken, Taken) = word
<1> DEFINE s == Piece(begun.taken, Taken)
<1>1. s \in Seq(CharSet) /\ Len(s) = Length /\ Length \in Nat /\ \A i \in 1 .. Length : s[i] = Since(i)
  BY WordPlace
<1> HIDE DEF s
<1>2. word \in Seq(CharSet) /\ Len(word) = Length - 0 /\ \A i \in 1 .. Len(word) : word[i] = Since(0 + i)
  BY DEF Holds, TypeInv
<1>3. Len(word) = Len(s)
  BY <1>1, <1>2
<1>4. \A i \in 1 .. Len(s) : s[i] = word[i]
  BY <1>1, <1>2, <1>3
<1>5. s = word
  BY <1>1, <1>2, <1>3, <1>4, SeqEqual
<1> QED
  BY <1>5 DEF s

LEMMA BehindFacts ==
  ASSUME NEW s \in Seq(CharSet), NEW n \in 0 .. Len(s)
  PROVE  /\ Behind(s, n) \in Seq(CharSet) /\ Len(Behind(s, n)) = Len(s) - n
         /\ \A i \in 1 .. (Len(s) - n) : Behind(s, n)[i] = s[n + i]
<1> DEFINE m == n + 1
           b == SubSeq(s, m, Len(s))
<1>1. Len(s) \in Nat /\ m \in Int /\ Len(s) \in Int /\ \A i \in m .. Len(s) : s[i] \in CharSet
  OBVIOUS
<1>2. /\ b \in Seq(CharSet) /\ Len(b) = IF m <= Len(s) THEN Len(s) - m + 1 ELSE 0
      /\ \A i \in 1 .. (Len(s) - m + 1) : b[i] = s[m + i - 1]
  BY <1>1, SubSeqProperties
<1> HIDE DEF b
<1>3. Len(b) = Len(s) - n
  BY <1>1, <1>2
<1>4. \A i \in 1 .. (Len(s) - n) : i \in 1 .. (Len(s) - m + 1) /\ m + i - 1 = n + i
  BY <1>1
<1> QED
  BY <1>2, <1>3, <1>4 DEF Behind, b

LEMMA OnePiece ==
  ASSUME BufInv, Taken < len
  PROVE  Piece(Taken, Taken + 1) = <<Peek>>
<1>1. /\ Taken \in Nat /\ len \in Nat /\ Peek = Text[Taken + 1] /\ Peek \in CharSet
  BY TextFacts
<1>2. PICK to \in Nat : to = Taken + 1
  BY <1>1
<1>3. Taken \in 0 .. len /\ to \in Taken .. len /\ to - Taken = 1 /\ 1 \in 1 .. 1
  BY <1>1, <1>2
<1>4. /\ Piece(Taken, to) \in Seq(CharSet) /\ Len(Piece(Taken, to)) = to - Taken
      /\ \A i \in 1 .. (to - Taken) : Piece(Taken, to)[i] = Text[Taken + i]
  BY <1>3, PieceFacts
<1>5. Len(Piece(Taken, to)) = 1 /\ Piece(Taken, to)[1] = Peek
  BY <1>1, <1>3, <1>4
<1>6. <<Peek>> \in Seq(CharSet) /\ Len(<<Peek>>) = 1 /\ <<Peek>>[1] = Peek
  BY <1>1
<1>7. \A i \in 1 .. 1 : i = 1
  OBVIOUS
<1>8. \A i \in 1 .. Len(Piece(Taken, to)) : Piece(Taken, to)[i] = <<Peek>>[i]
  BY <1>5, <1>6, <1>7
<1> QED
  BY <1>2, <1>4, <1>5, <1>6, <1>8, SeqEqual

LEMMA QuotedFirst ==
  ASSUME NEW s, QuotedShape(s)
  PROVE  s[1] = Quote /\ s[Len(s)] = Quote /\ Len(s) >= 2
BY Zenon DEF QuotedShape, Quote

LEMMA OpenersAreSigns ==
  /\ \A c \in DOMAIN Openers : c \notin IdentChars /\ c \notin Digits /\ c \notin IdentStart
  /\ {".", "-", "'", Quote} \subseteq DOMAIN Openers
  /\ Quote \notin {".", "-", "'"}
<1>1. \A c \in DOMAIN Openers : c \notin IdentChars
  BY CharAssumption DEF Signs
<1> QED
  BY <1>1, OpenerModes DEF IdentChars

LEMMA TwinsAreSigns ==
  /\ TwinSigns \cap IdentChars = {} /\ TwinSigns \cap DOMAIN Openers = {}
  /\ "\n" \notin TwinSigns
<1>1. TwinSigns \cap IdentChars = {}
  BY CharAssumption DEF Signs, Singles
<1> QED
  BY <1>1 DEF TwinSigns, Openers

\* The first character of a lexeme leaves few kinds to it.
LEMMA BeginsWith ==
  ASSUME NEW s, NEW next, Begins(s, next)
  PROVE  /\ s[1] \in IdentChars \cup TwinSigns \cup DOMAIN Openers
         /\ s[1] = "0" => HexShape(s) \/ (DecimalShape(s) /\ NumberEnds(s, next))
         /\ s[1] = "." => next \notin IdentChars /\ Behind(s, 1) \in DOMAIN SectionNames
         /\ s[1] = "'" => CharShape(s)
         /\ s[1] = Quote => QuotedShape(s)
<1>1. HexShape(s) => s[1] = "0"
  BY DEF HexShape
<1>2. CharShape(s) => s[1] = "'"
  BY DEF CharShape
<1>3. QuotedShape(s) => s[1] = Quote
  BY QuotedFirst
<1>4. "0" \in Digits /\ "0" \in IdentChars /\ "0" \notin IdentStart
  BY CharAssumption DEF IdentChars, IdentStart
<1>5. \/ s[1] \in IdentStart \cup TwinSigns
      \/ s[1] \in Digits /\ DecimalShape(s) /\ NumberEnds(s, next)
      \/ HexShape(s)
      \/ s[1] = "-"
      \/ CharShape(s)
      \/ QuotedShape(s)
      \/ s[1] = "." /\ next \notin IdentChars /\ Behind(s, 1) \in DOMAIN SectionNames
  BY DEF Begins
<1>6. IdentStart \subseteq IdentChars /\ Digits \subseteq IdentChars
  BY DEF IdentChars
<1>7. CASE s[1] \in IdentStart \cup TwinSigns
  <2>1. /\ "0" \notin IdentStart \cup TwinSigns /\ "." \notin IdentStart \cup TwinSigns
        /\ "'" \notin IdentStart \cup TwinSigns /\ Quote \notin IdentStart \cup TwinSigns
    BY <1>4, OpenersAreSigns, TwinsAreSigns
  <2> QED
    BY <1>6, <1>7, <2>1
<1>8. CASE s[1] \in Digits /\ DecimalShape(s) /\ NumberEnds(s, next)
  BY <1>6, <1>8, OpenersAreSigns
<1>9. CASE HexShape(s)
  BY <1>1, <1>4, <1>9, OpenersAreSigns
<1>10. CASE s[1] = "-"
  BY <1>10, OpenersAreSigns
<1>11. CASE CharShape(s)
  BY <1>2, <1>11, OpenersAreSigns
<1>12. CASE QuotedShape(s)
  BY <1>3, <1>4, <1>12, OpenersAreSigns
<1>13. CASE s[1] = "." /\ next \notin IdentChars /\ Behind(s, 1) \in DOMAIN SectionNames
  BY <1>13, OpenersAreSigns
<1> QED
  BY <1>5, <1>7, <1>8, <1>9, <1>10, <1>11, <1>12, <1>13
-----------------------------------------------------------------------------
(* What each recogniser returns.                                           *)

LEMMA EndSound ==
  ASSUME BufInv, EndOfFile
  PROVE  Sound
<1>1. /\ Peek = EOF /\ Bump /\ tokens' = Append(tokens, TokenOf(Here, "EOF", <<>>))
      /\ Here.taken = Taken
  BY DEF EndOfFile, Here
<1>2. /\ Taken \in 0 .. len /\ len \in Nat /\ len - remaining' = Taken'
      /\ Taken' = (IF Taken < len THEN Taken + 1 ELSE Taken)
  BY <1>1, BumpMoves, TextFacts
<1>3. Piece(Taken, Taken') \in {<<>>, <<EOF>>}
  <2>1. CASE Taken < len
    BY <1>1, <1>2, <2>1, OnePiece
  <2>2. CASE Taken = len
    <3>1. Taken \in Taken .. len /\ Taken - Taken = 0
      BY <1>2
    <3>2. Piece(Taken, Taken) \in Seq(CharSet) /\ Len(Piece(Taken, Taken)) = 0
      BY <1>2, <3>1, PieceFacts
    <3>3. Piece(Taken, Taken) = <<>>
      BY <3>2, EmptySeq
    <3> QED
      BY <1>2, <2>2, <3>3
  <2> QED
    BY <1>2, <2>1, <2>2
<1>4. Accepted(Taken, Taken', "EOF", <<>>)
  BY <1>3, LexemeKinds, Spellings DEF Accepted
<1> QED
  BY <1>1, <1>2, <1>4, Accepts

LEMMA SingleSound ==
  ASSUME BufInv, SingleChar
  PROVE  Sound
<1>1. Peek \in Singles /\ Bump /\ Here.taken = Taken
  BY DEF SingleChar, Here
<1>2. Peek # EOF
  BY <1>1, ClassesAreCharacters
<1>3. Taken < len /\ Taken' = Taken + 1 /\ len - remaining' = Taken'
  BY <1>1, <1>2, CharTaken, BumpMoves
<1>4. Piece(Taken, Taken') = <<Peek>> /\ Len(<<Peek>>) = 1 /\ <<Peek>>[1] = Peek
  BY <1>3, OnePiece
<1>5. CASE Peek = "\n" /\ Emit(Here, "EOL", <<>>)
  <2>1. Accepted(Taken, Taken', "EOL", <<>>)
    BY <1>4, <1>5, LineEndKind, Spellings DEF Accepted
  <2> QED
    BY <1>1, <1>3, <1>5, <2>1, Accepts DEF Emit
<1>6. CASE Peek # "\n" /\ Emit(Here, "KEYWORD", Twins[Peek])
  <2>1. SignShape(<<Peek>>)
    BY <1>1, <1>4, <1>6 DEF SignShape, Singles
  <2>2. Accepted(Taken, Taken', "KEYWORD", Twins[Peek])
    BY <1>4, <2>1, LexemeKinds, Spellings DEF Accepted
  <2> QED
    BY <1>1, <1>3, <1>6, <2>2, Accepts DEF Emit
<1> QED
  BY <1>5, <1>6 DEF SingleChar

\* A text is rejected if it begins no lexeme, whatever its end.
LEMMA RejectedIf ==
  ASSUME BufInv, NEW from \in Nat,
         \A e \in (from + 1) .. len : ~Begins(Piece(from, e), CharBehind(e))
  PROVE  Rejected(from)
<1> SUFFICES ASSUME NEW kind \in TextKinds, NEW e \in (from + 1) .. len,
                    Lexeme(kind, Piece(from, e), CharBehind(e))
             PROVE  FALSE
  BY DEF Rejected
<1>1. len \in Nat
  BY TextFacts
<1>2. from \in 0 .. len /\ e \in from .. len
  BY <1>1
<1>3. Piece(from, e) \in Seq(CharSet)
  BY <1>2, PieceFacts
<1> QED
  BY <1>3, LexemeBegins

\* The text from from up to e, as its characters.
LEMMA PieceBegins ==
  ASSUME BufInv, NEW from \in Nat, NEW e \in (from + 1) .. len
  PROVE  /\ len \in Nat /\ e \in Nat /\ from < len
         /\ Piece(from, e) \in Seq(CharSet) /\ Len(Piece(from, e)) = e - from
         /\ \A i \in 1 .. (e - from) : Piece(from, e)[i] = Text[from + i]
         /\ Piece(from, e)[1] = Text[from + 1]
         /\ e < len => CharBehind(e) = Text[e + 1]
<1>1. len \in Nat
  BY TextFacts
<1>2. from \in 0 .. len /\ e \in from .. len /\ 1 \in 1 .. (e - from) /\ e \in Nat /\ from < len
  BY <1>1
<1>3. /\ Piece(from, e) \in Seq(CharSet) /\ Len(Piece(from, e)) = e - from
      /\ \A i \in 1 .. (e - from) : Piece(from, e)[i] = Text[from + i]
  BY <1>2, PieceFacts
<1> QED
  BY <1>1, <1>2, <1>3 DEF CharBehind

LEMMA StraySound ==
  ASSUME BufInv, Stray
  PROVE  Sound
<1>1. /\ Peek \notin IdentChars \cup TwinSigns \cup DOMAIN Openers /\ Here.taken = Taken
      /\ tokens' = Append(tokens, TokenOf(Here, "ILLEGAL", <<>>))
  BY DEF Stray, Emit, Here, Singles
<1>2. Taken \in Nat /\ (Taken < len => Peek = Text[Taken + 1])
  BY TextFacts
<1>3. ASSUME NEW e \in (Taken + 1) .. len, Begins(Piece(Taken, e), CharBehind(e))
      PROVE  FALSE
  <2>1. Taken < len /\ Piece(Taken, e)[1] = Text[Taken + 1]
    BY <1>2, PieceBegins
  <2>2. Piece(Taken, e)[1] \in IdentChars \cup TwinSigns \cup DOMAIN Openers
    BY <1>3, BeginsWith
  <2> QED
    BY <1>1, <1>2, <2>1, <2>2
<1>4. Rejected(Taken)
  BY <1>2, <1>3, RejectedIf
<1> QED
  BY <1>1, <1>4, Rejects

LEMMA BadBaseSound ==
  ASSUME BufInv, TypeInv, WordInv, BadBase
  PROVE  Sound
<1>1. /\ mode = "number" /\ word = <<"0">> /\ Peek \in Alphas /\ Peek \notin BaseMarks
      /\ tokens' = Append(tokens, TokenOf(begun, "ILLEGAL", <<>>))
  BY DEF BadBase, Prefixed, Emit
<1>2. PICK from \in Nat : from = begun.taken
  BY DEF TypeInv
<1>3. Holds(0)
  BY <1>1, Recognisers DEF WordInv, Collected
<1>4. Taken \in Nat /\ Length \in Nat /\ Taken = begun.taken + Length /\ CharBehind(Taken) = Peek
  BY WordPlace
<1>5. Piece(from, Taken) = <<"0">> /\ Len(word) = 1 /\ word[1] = "0"
  BY <1>1, <1>2, <1>3, HeldAll
<1>6. Length = 1 /\ Since(1) = "0"
  <2>1. Len(word) = Length - 0 /\ \A i \in 1 .. Len(word) : word[i] = Since(0 + i)
    BY <1>3 DEF Holds
  <2>2. 1 = Length - 0
    BY <1>5, <2>1
  <2>3. Length = 1
    BY <1>4, <2>2
  <2>4. 1 \in 1 .. Len(word) /\ 0 + 1 = 1
    BY <1>5
  <2> QED
    BY <1>5, <2>1, <2>3, <2>4
<1>7. Taken = from + 1 /\ Text[from + 1] = "0"
  BY <1>2, <1>4, <1>6 DEF Since
<1>8. Peek # EOF /\ Peek \notin NumChars
  BY <1>1, ClassesAreCharacters, CharAssumption DEF IdentChars, IdentStart, NumChars, Signs, Openers
<1>9. Taken < len /\ Peek = Text[from + 2]
  <2>1. Taken < len /\ Peek = Text[Taken + 1]
    BY <1>8, TextFacts
  <2>2. Taken + 1 = from + 2
    BY <1>7
  <2> QED
    BY <2>1, <2>2
<1>10. ASSUME NEW e \in (from + 1) .. len, Begins(Piece(from, e), CharBehind(e))
       PROVE  FALSE
  <2> DEFINE s == Piece(from, e)
  <2>1. /\ Len(s) = e - from /\ e \in Nat /\ s[1] = "0"
        /\ \A i \in 1 .. (e - from) : s[i] = Text[from + i]
    BY <1>7, PieceBegins
  <2>2. HexShape(s) \/ (DecimalShape(s) /\ NumberEnds(s, CharBehind(e)))
    BY <1>10, <2>1, BeginsWith
  <2>3. CASE e = from + 1
    <3>1. s = <<"0">> /\ CharBehind(e) = Peek
      BY <1>4, <1>5, <1>7, <2>3
    <3>2. Len(s) = 1
      BY <3>1
    <3> QED
      BY <1>1, <2>2, <3>1, <3>2 DEF HexShape, NumberEnds
  <2>4. CASE e # from + 1
    <3>1. Len(s) >= 2 /\ 2 \in 1 .. (e - from) /\ 2 \in 1 .. Len(s)
      BY <2>1, <2>4
    <3>2. s[2] = Peek
      BY <1>9, <2>1, <3>1
    <3> QED
      BY <1>1, <1>8, <2>2, <3>1, <3>2 DEF HexShape, DecimalShape, AllIn
  <2> QED
    BY <2>3, <2>4
<1>11. Rejected(begun.taken)
  BY <1>2, <1>10, RejectedIf
<1> QED
  BY <1>1, <1>11, Rejects

LEMMA FrontFacts ==
  ASSUME NEW s \in Seq(CharSet), Len(s) >= 1
  PROVE  /\ Front(s) \in Seq(CharSet) /\ Len(Front(s)) = Len(s) - 1
         /\ \A i \in 1 .. (Len(s) - 1) : Front(s)[i] = s[i]
<1>0. PICK n \in Nat : n = Len(s) - 1
  OBVIOUS
<1> DEFINE b == SubSeq(s, 1, n)
<1>1. \A i \in 1 .. n : s[i] \in CharSet
  BY <1>0
<1>2. /\ b \in Seq(CharSet) /\ Len(b) = IF 1 <= n THEN n - 1 + 1 ELSE 0
      /\ \A i \in 1 .. (n - 1 + 1) : b[i] = s[1 + i - 1]
  BY <1>1, SubSeqProperties
<1> HIDE DEF b
<1>3. Len(b) = n
  <2>1. (IF 1 <= n THEN n - 1 + 1 ELSE 0) = n
    OBVIOUS
  <2> QED
    BY <1>2, <2>1
<1>4. \A i \in 1 .. n : i \in 1 .. (n - 1 + 1) /\ 1 + i - 1 = i
  OBVIOUS
<1> QED
  BY <1>0, <1>2, <1>3, <1>4 DEF Front, b

\* The text of a word and the character behind it.
LEMMA OneMore ==
  ASSUME BufInv, TypeInv, Bump, Peek # EOF
  PROVE  LET s == Piece(begun.taken, Taken')
         IN  /\ s \in Seq(CharSet) /\ Len(s) = Length + 1 /\ Length \in Nat
             /\ s[Length + 1] = Peek /\ Taken' = Taken + 1 /\ len - remaining' = Taken'
             /\ \A i \in 1 .. Length : s[i] = Since(i)
             /\ \A i \in 1 .. Length : s[i] = Piece(begun.taken, Taken)[i]
<1>1. /\ Taken \in Nat /\ Taken < len /\ Taken' = Taken + 1 /\ Text[Taken + 1] = Peek
      /\ len - remaining' = Taken' /\ len \in Nat
  BY CharTaken, BumpMoves, TextFacts
<1>2. PICK from \in Nat, n \in Nat : from = begun.taken /\ n = Length /\ Taken = from + n
  BY WordPlace
<1>3. PICK to \in Nat : to = Taken + 1
  BY <1>1
<1>4. from \in 0 .. len /\ to \in from .. len /\ to - from = n + 1
  BY <1>1, <1>2, <1>3
<1>5. /\ Piece(from, to) \in Seq(CharSet) /\ Len(Piece(from, to)) = to - from
      /\ \A i \in 1 .. (to - from) : Piece(from, to)[i] = Text[from + i]
  BY <1>4, PieceFacts
<1>6. \A i \in 1 .. n : i \in 1 .. (to - from) /\ Piece(from, to)[i] = Since(i)
  BY <1>2, <1>4, <1>5 DEF Since
<1>7. Piece(from, to)[n + 1] = Peek
  <2>1. n + 1 \in 1 .. (to - from) /\ from + (n + 1) = Taken + 1
    BY <1>2, <1>4
  <2> QED
    BY <1>1, <1>5, <2>1
<1>8. \A i \in 1 .. Length : Piece(begun.taken, Taken)[i] = Since(i)
  BY WordPlace
<1>9. Piece(begun.taken, Taken') = Piece(from, to)
  BY <1>1, <1>2, <1>3
<1>10. Len(Piece(from, to)) = n + 1
  BY <1>4, <1>5
<1>11. Taken' = Taken + 1 /\ len - remaining' = Taken'
  BY <1>1
<1> QED
  BY <1>2, <1>5, <1>6, <1>7, <1>8, <1>9, <1>10, <1>11

LEMMA IdentSound ==
  ASSUME BufInv, TypeInv, WordInv, FinishIdent
  PROVE  Sound
<1>1. mode = "ident" /\ Peek \notin IdentChars
  BY Recognisers DEF FinishIdent, Finished
<1>2. /\ Holds(0) /\ Length >= 1 /\ word[1] \in IdentStart /\ AllIn(word, IdentChars)
  BY <1>1, Recognisers DEF WordInv, Collected
<1>3. Length \in Nat /\ Len(word) = Length /\ word \in Seq(CharSet) /\ word # <<>>
  <2>1. Length \in Nat /\ Len(word) = Length - 0 /\ word \in Seq(CharSet)
    BY <1>2, WordPlace DEF Holds, TypeInv
  <2> QED
    BY <1>2, <2>1
<1>4. IdentShape(word)
  BY <1>2, <1>3 DEF IdentShape
<1>5. Piece(begun.taken, Taken) = word /\ CharBehind(Taken) = Peek
  BY <1>2, HeldAll, WordPlace
<1>6. CASE UNCHANGED bufferVars
  <2>1. Taken' = Taken /\ len - remaining' = Taken'
    BY <1>6, StillText
  <2>2. CASE word \in Keywords /\ Emit(begun, "KEYWORD", word)
    <3>0. ~SignShape(word)
      BY <1>2, TwinsAreSigns DEF SignShape, IdentChars
    <3>1. Accepted(begun.taken, Taken', "KEYWORD", word)
      BY <1>1, <1>5, <2>1, <2>2, <3>0, LexemeKinds, Spellings DEF Accepted
    <3> QED
      BY <2>1, <2>2, <3>1, Accepts DEF Emit
  <2>3. CASE word \notin Keywords /\ Peek # ":" /\ Emit(begun, "IDENT", word)
    <3>1. Accepted(begun.taken, Taken', "IDENT", word)
      BY <1>1, <1>4, <1>5, <2>1, <2>3, LexemeKinds, Spellings DEF Accepted
    <3> QED
      BY <2>1, <2>3, <3>1, Accepts DEF Emit
  <2>4. CASE word \notin Keywords /\ Peek = ":" /\ Bump
    <3>1. Taken' = Taken + 1 /\ Taken \in Nat
      BY <2>4, CharTaken, ClassesAreCharacters
    <3> QED
      BY <2>1, <3>1
  <2> QED
    BY <2>2, <2>3, <2>4 DEF FinishIdent
<1>7. CASE word \notin Keywords /\ Peek = ":" /\ Bump /\ Emit(begun, "LABEL", word)
  <2> DEFINE s == Piece(begun.taken, Taken')
  <2>1. /\ s \in Seq(CharSet) /\ Len(s) = Length + 1 /\ Length \in Nat /\ s[Length + 1] = Peek
        /\ len - remaining' = Taken'
        /\ \A i \in 1 .. Length : s[i] = Piece(begun.taken, Taken)[i]
    BY <1>7, OneMore, ClassesAreCharacters
  <2> HIDE DEF s
  <2>2. Len(s) > 1 /\ Len(s) >= 1 /\ Len(s) - 1 = Length
    BY <1>2, <2>1
  <2>3. Front(s) = word
    <3>1. /\ Front(s) \in Seq(CharSet) /\ Len(Front(s)) = Length
          /\ \A i \in 1 .. Length : Front(s)[i] = s[i]
      BY <2>1, <2>2, FrontFacts
    <3>2. \A i \in 1 .. Len(Front(s)) : Front(s)[i] = word[i]
      BY <1>5, <2>1, <3>1
    <3> QED
      BY <1>3, <3>1, <3>2, SeqEqual
  <2>4. s[Len(s)] = ":"
    BY <1>7, <2>1
  <2>5. Accepted(begun.taken, Taken', "LABEL", word)
    BY <1>4, <1>7, <2>2, <2>3, <2>4, LexemeKinds, Spellings DEF Accepted, s
  <2> QED
    BY <1>7, <2>1, <2>5, Accepts DEF Emit
<1> QED
  BY <1>6, <1>7 DEF FinishIdent

LEMMA SectionSound ==
  ASSUME BufInv, TypeInv, WordInv, FinishSection
  PROVE  Sound
<1>1. /\ mode = "section" /\ Peek \notin IdentChars /\ UNCHANGED bufferVars
      /\ tokens' = Append(tokens, TokenOf(begun, IF word \in DOMAIN SectionNames
                                                  THEN SectionNames[word] ELSE "ILLEGAL", <<>>))
  BY Recognisers DEF FinishSection, Finished, Emit
<1>2. Holds(1) /\ Length >= 1 /\ Since(1) = "." /\ AllIn(word, IdentChars)
  BY <1>1, Recognisers DEF WordInv, Collected
<1>3. PICK from \in Nat, n \in Nat : from = begun.taken /\ n = Length /\ Taken = from + n /\ n >= 1
  BY <1>2, WordPlace
<1>4. /\ CharBehind(Taken) = Peek /\ Behind(Piece(from, Taken), 1) = word
      /\ Taken' = Taken /\ len - remaining' = Taken'
  BY <1>1, <1>2, <1>3, WordPlace, HeldWord, StillText
<1>5. /\ Piece(from, Taken) \in Seq(CharSet) /\ Len(Piece(from, Taken)) = n
      /\ Piece(from, Taken)[1] = "."
  <2>1. 1 \in 1 .. n
    BY <1>3
  <2> QED
    BY <1>2, <1>3, <2>1, WordPlace
<1>6. Len(word) = n - 1 /\ \A i \in 1 .. Len(word) : word[i] = Text[from + (i + 1)]
  <2>1. Len(word) = Length - 1 /\ \A i \in 1 .. Len(word) : word[i] = Since(1 + i)
    BY <1>2 DEF Holds
  <2>2. Len(word) \in Nat /\ \A i \in 1 .. Len(word) : 1 + i = i + 1
    BY DEF TypeInv
  <2> QED
    BY <1>3, <2>1, <2>2 DEF Since
<1>7. CASE word \in DOMAIN SectionNames
  <2>1. PICK kind \in {"SECTION_DATA", "SECTION_TEXT"} : kind = SectionNames[word]
    BY <1>7, CharAssumption
  <2>2. Piece(from, Taken) # <<>>
    BY <1>3, <1>5
  <2>3. Accepted(from, Taken, kind, <<>>)
    BY <1>1, <1>4, <1>5, <1>7, <2>1, <2>2, SectionKinds, Spellings DEF Accepted
  <2> QED
    BY <1>1, <1>3, <1>4, <1>7, <2>1, <2>3, Accepts
<1>8. CASE word \notin DOMAIN SectionNames
  <2>1. ASSUME NEW e \in (from + 1) .. len, Begins(Piece(from, e), CharBehind(e))
        PROVE  FALSE
    <3> DEFINE s == Piece(from, e)
    <3>0. Text[from + 1] = "."
      BY <1>2, <1>3 DEF Since
    <3>1. /\ len \in Nat /\ e \in Nat /\ s \in Seq(CharSet) /\ Len(s) = e - from /\ s[1] = "."
          /\ \A i \in 1 .. (e - from) : s[i] = Text[from + i]
          /\ e < len => CharBehind(e) = Text[e + 1]
      BY <3>0, PieceBegins
    <3>2. CharBehind(e) \notin IdentChars /\ Behind(s, 1) \in DOMAIN SectionNames
      BY <2>1, <3>1, BeginsWith
    <3> HIDE DEF s
    <3>3. Behind(s, 1) \in Seq(IdentChars)
      BY <3>2, CharAssumption
    <3>4. CASE e = Taken
      BY <1>4, <1>8, <3>2, <3>4 DEF s
    <3>5. CASE e < Taken
      <4>1. PICK i \in Nat : i = e - from /\ i \in 1 .. Len(word) /\ from + (i + 1) = e + 1
        BY <1>3, <1>6, <3>1, <3>5, SMTT(30)
      <4>2. Taken <= len
        BY WordPlace
      <4>3. CharBehind(e) = word[i]
        <5>1. e < len
          BY <1>3, <3>1, <3>5, <4>2
        <5>2. word[i] = Text[e + 1]
          BY <1>6, <4>1
        <5> QED
          BY <3>1, <5>1, <5>2
      <4> QED
        BY <1>2, <3>2, <4>1, <4>3 DEF AllIn
    <3>6. CASE e > Taken
      <4>1. Taken < len /\ Text[Taken + 1] = Peek
        BY <1>3, <3>1, <3>6, TextFacts
      <4>2. 1 \in 0 .. Len(s) /\ n \in 1 .. (Len(s) - 1) /\ 1 + n \in 1 .. (e - from)
        <5>1. PICK d \in Nat : d = e - from /\ d > n
          BY <1>3, <3>1, <3>6
        <5>2. Len(s) = d
          BY <3>1, <5>1
        <5> QED
          BY <1>3, <5>1, <5>2, SMTT(30)
      <4>3. Len(Behind(s, 1)) = Len(s) - 1 /\ Behind(s, 1)[n] = s[1 + n]
        BY <3>1, <4>2, BehindFacts
      <4>4. from + (1 + n) = Taken + 1
        BY <1>3
      <4>5. Behind(s, 1)[n] = Peek
        BY <3>1, <4>1, <4>2, <4>3, <4>4
      <4>6. Behind(s, 1)[n] \in IdentChars
        BY <3>3, <4>2, <4>3, ElementOfSeq
      <4> QED
        BY <1>1, <4>5, <4>6
    <3> QED
      BY <1>3, <3>1, <3>4, <3>5, <3>6
  <2>2. Rejected(begun.taken)
    BY <1>3, <2>1, RejectedIf
  <2> QED
    BY <1>1, <1>8, <2>2, Rejects
<1> QED
  BY <1>7, <1>8

LEMMA MarksAreNoNumbers == BaseMarks \cap NumChars = {}
BY CharAssumption DEF NumChars, IdentChars, IdentStart, Signs, Openers

LEMMA NumberSound ==
  ASSUME BufInv, TypeInv, WordInv, FinishNumber
  PROVE  Sound
<1>1. /\ mode \in {"number", "signed"} /\ Peek \notin NumChars /\ ~Prefixed /\ UNCHANGED bufferVars
      /\ tokens' = Append(tokens, TokenOf(begun, NumberKind, word))
  BY Recognisers DEF FinishNumber, Finished, Emit
<1>2. Collected(mode)
  BY <1>1, Recognisers DEF WordInv
<1>3. Holds(0) /\ Length >= 1
  BY <1>1, <1>2 DEF Collected
<1>4. /\ Piece(begun.taken, Taken) = word /\ CharBehind(Taken) = Peek
      /\ Taken' = Taken /\ len - remaining' = Taken'
  BY <1>1, <1>3, HeldAll, WordPlace, StillText
<1>5. Length \in Nat /\ Len(word) = Length /\ word \in Seq(CharSet) /\ word # <<>>
  <2>1. Length \in Nat /\ Len(word) = Length - 0 /\ word \in Seq(CharSet)
    BY <1>3, WordPlace DEF Holds, TypeInv
  <2> QED
    BY <1>3, <2>1
<1>6. CASE mode = "number"
  <2>1. word[1] \in Digits /\ AllIn(word, NumChars)
    BY <1>2, <1>6 DEF Collected
  <2>2. DecimalShape(word)
    BY <1>5, <2>1 DEF DecimalShape
  <2>3. NumberEnds(word, Peek)
    BY <1>1, <1>6 DEF NumberEnds, Prefixed
  <2>4. ~HexShape(word)
    <3>1. Len(word) >= 2 => word[2] \in NumChars
      BY <1>5, <2>1 DEF AllIn
    <3> QED
      BY <3>1, MarksAreNoNumbers DEF HexShape
  <2>5. NumberKind = (IF HasDot(word) THEN "FLOAT" ELSE "UINT")
    BY <1>6 DEF NumberKind, HasDot
  <2>6. Accepted(begun.taken, Taken, NumberKind, word)
    <3>1. CASE HasDot(word)
      BY <1>4, <2>2, <2>3, <2>5, <3>1, LexemeKinds, Spellings DEF Accepted
    <3>2. CASE ~HasDot(word)
      BY <1>4, <2>2, <2>3, <2>4, <2>5, <3>2, LexemeKinds, Spellings DEF Accepted
    <3> QED
      BY <3>1, <3>2
  <2> QED
    BY <1>1, <1>4, <2>5, <2>6, Accepts
<1>7. CASE mode = "signed"
  <2>1. word[1] = "-" /\ \A i \in 2 .. Len(word) : word[i] \in NumChars
    BY <1>2, <1>7 DEF Collected
  <2>2. SignedShape(word)
    <3>1. 1 \in 0 .. Len(word)
      BY <1>3, <1>5
    <3>2. /\ Len(Behind(word, 1)) = Len(word) - 1
          /\ \A i \in 1 .. (Len(word) - 1) : Behind(word, 1)[i] = word[1 + i]
      BY <1>5, <3>1, BehindFacts
    <3>3. \A i \in 1 .. (Len(word) - 1) : 1 + i \in 2 .. Len(word)
      BY <1>5
    <3> QED
      BY <1>5, <2>1, <3>2, <3>3 DEF SignedShape, AllIn
  <2>3. NumberEnds(word, Peek)
    <3>1. word # <<"0">>
      BY <2>1
    <3> QED
      BY <1>1, <3>1 DEF NumberEnds
  <2>4. NumberKind = (IF HasDot(word) THEN "FLOAT" ELSE "INT")
    BY <1>7 DEF NumberKind, HasDot
  <2>5. Accepted(begun.taken, Taken, NumberKind, word)
    <3>1. CASE HasDot(word)
      BY <1>4, <2>2, <2>3, <2>4, <3>1, LexemeKinds, Spellings DEF Accepted
    <3>2. CASE ~HasDot(word)
      BY <1>1, <1>4, <2>2, <2>4, <3>2, LexemeKinds, Spellings DEF Accepted
    <3> QED
      BY <3>1, <3>2
  <2> QED
    BY <1>1, <1>4, <2>4, <2>5, Accepts
<1> QED
  BY <1>1, <1>6, <1>7

LEMMA HexSound ==
  ASSUME BufInv, TypeInv, WordInv, FinishHex
  PROVE  Sound
<1> DEFINE w == IF word = <<>> THEN <<"0">> ELSE word
<1>1. /\ mode = "hex" /\ Peek \notin HexDigits /\ UNCHANGED bufferVars
      /\ tokens' = Append(tokens, TokenOf(begun, "UINT", w))
  BY Recognisers DEF FinishHex, Finished, Emit
<1>2. /\ Holds(2) /\ Length >= 2 /\ Since(1) = "0" /\ Since(2) \in BaseMarks
      /\ AllIn(word, HexDigits)
  BY <1>1, Recognisers DEF WordInv, Collected
<1> DEFINE s == Piece(begun.taken, Taken)
<1>3. /\ Length \in Nat /\ Len(s) = Length /\ \A i \in 1 .. Length : s[i] = Since(i)
      /\ CharBehind(Taken) = Peek /\ Behind(s, 2) = word
      /\ Taken' = Taken /\ len - remaining' = Taken'
  BY <1>1, <1>2, WordPlace, HeldWord, StillText
<1>4. Len(word) = Length - 2 /\ word \in Seq(CharSet)
  BY <1>2 DEF Holds, TypeInv
<1> HIDE DEF s, w
<1>5. s[1] = "0" /\ s[2] \in BaseMarks
  <2>1. 1 \in 1 .. Length /\ 2 \in 1 .. Length
    BY <1>2, <1>3
  <2> QED
    BY <1>2, <1>3, <2>1
<1>6. HexShape(s)
  BY <1>2, <1>3, <1>5 DEF HexShape
<1>7. w = IF Len(s) = 2 THEN <<"0">> ELSE Behind(s, 2)
  <2>1. Length = 2 => word = <<>>
    BY <1>4, EmptySeq
  <2>2. word = <<>> => Length = 2
    <3>1. word = <<>> => Len(word) = 0
      OBVIOUS
    <3> QED
      BY <1>3, <1>4, <3>1
  <2> QED
    BY <1>3, <2>1, <2>2 DEF w
<1>8. Accepted(begun.taken, Taken, "UINT", w)
  BY <1>1, <1>3, <1>6, <1>7, LexemeKinds, Spellings DEF Accepted, s
<1> QED
  BY <1>1, <1>3, <1>8, Accepts

LEMMA CharCloseSound ==
  ASSUME BufInv, TypeInv, WordInv, CharClose
  PROVE  Sound
<1>1. mode = "char_close" /\ Bump
  BY DEF CharClose
<1>2. /\ Length >= 1 /\ Since(1) = "'" /\ Len(word) = 1
      /\ \/ Length = 1 /\ Taken = len
         \/ Length = 2 /\ Since(2) # "\\" /\ word[1] = Since(2)
         \/ Length = 3 /\ Since(2) = "\\" /\ Since(3) \in DOMAIN Escapes /\ word[1] = Escapes[Since(3)]
  BY <1>1 DEF WordInv
<1>3. PICK from \in Nat, n \in Nat : from = begun.taken /\ n = Length /\ Taken = from + n
  BY WordPlace
<1>4. len \in Nat /\ Peek = (IF Taken < len THEN Text[Taken + 1] ELSE EOF)
  BY TextFacts
<1>5. word = <<word[1]>>
  <2>1. word \in Seq(CharSet)
    BY DEF TypeInv
  <2>2. 1 \in 1 .. Len(word)
    BY <1>2
  <2>3. <<word[1]>> \in Seq(CharSet) /\ Len(<<word[1]>>) = 1 /\ <<word[1]>>[1] = word[1]
    BY <2>1, <2>2, ElementOfSeq
  <2>4. \A i \in 1 .. 1 : i = 1
    OBVIOUS
  <2> QED
    BY <1>2, <2>1, <2>3, <2>4, SeqEqual
<1>6. CASE Peek = "'" /\ Emit(begun, "INT", word)
  <2> DEFINE s == Piece(begun.taken, Taken')
  <2>1. /\ s \in Seq(CharSet) /\ Len(s) = Length + 1 /\ Length \in Nat /\ s[Length + 1] = "'"
        /\ len - remaining' = Taken' /\ \A i \in 1 .. Length : s[i] = Since(i)
    BY <1>1, <1>6, OneMore, ClassesAreCharacters
  <2>2. Length # 1 \/ Taken # len
    <3>1. EOF # "'"
      BY ClassesAreCharacters, Zenon
    <3> QED
      BY <1>4, <1>6, <3>1
  <2> HIDE DEF s
  <2>3. s[1] = "'" /\ 1 \in 1 .. Length
    BY <1>2, <2>1
  <2>4. CharShape(s) /\ word = IF Len(s) = 3 THEN <<s[2]>> ELSE <<Escapes[s[3]]>>
    <3>1. CASE Length = 2 /\ Since(2) # "\\" /\ word[1] = Since(2)
      <4>1. Len(s) = 3 /\ s[3] = "'" /\ s[2] = Since(2)
        BY <2>1, <3>1
      <4> QED
        BY <1>5, <2>3, <3>1, <4>1 DEF CharShape
    <3>2. CASE /\ Length = 3 /\ Since(2) = "\\" /\ Since(3) \in DOMAIN Escapes
               /\ word[1] = Escapes[Since(3)]
      <4>1. Len(s) = 4 /\ s[4] = "'" /\ s[2] = Since(2) /\ s[3] = Since(3)
        BY <2>1, <3>2
      <4> QED
        BY <1>5, <2>3, <3>2, <4>1 DEF CharShape
    <3> QED
      BY <1>2, <2>2, <3>1, <3>2
  <2>5. ~SignedShape(s)
    BY <2>3 DEF SignedShape
  <2>6. Accepted(begun.taken, Taken', "INT", word)
    BY <2>4, <2>5, LexemeKinds, Spellings DEF Accepted, s
  <2> QED
    BY <1>6, <2>1, <2>6, Accepts DEF Emit
<1>7. CASE Peek # "'" /\ Emit(begun, "ILLEGAL", <<>>)
  <2>1. ASSUME NEW e \in (from + 1) .. len, Begins(Piece(from, e), CharBehind(e))
        PROVE  FALSE
    <3> DEFINE s == Piece(from, e)
    <3>0. \A i : Since(i) = Text[from + i]
      BY <1>3 DEF Since
    <3>1. /\ e \in Nat /\ Len(s) = e - from /\ s[1] = "'"
          /\ \A i \in 1 .. (e - from) : s[i] = Text[from + i]
      BY <1>2, <3>0, PieceBegins
    <3>2. CharShape(s)
      BY <2>1, <3>1, BeginsWith
    <3> HIDE DEF s
    <3>3. \/ e = from + 3 /\ s[2] # "\\" /\ s[3] = "'"
          \/ e = from + 4 /\ s[2] = "\\" /\ s[4] = "'"
      BY <3>1, <3>2 DEF CharShape
    <3>4. s[2] = Since(2) /\ e >= from + 3
      <4>1. e >= from + 3 /\ 2 \in 1 .. (e - from)
        BY <3>1, <3>3
      <4> QED
        BY <3>0, <3>1, <4>1
    <3>5. CASE n = 2
      <4>1. e = from + 3 /\ s[3] = "'"
        BY <1>2, <1>3, <3>3, <3>4, <3>5
      <4>2. Taken + 1 = from + 3 /\ 3 \in 1 .. (e - from) /\ Taken < len
        <5>1. Taken = from + 2
          BY <1>3, <3>5
        <5>2. e <= len /\ len \in Nat
          BY TextFacts
        <5> QED
          BY <4>1, <5>1, <5>2
      <4> QED
        BY <1>4, <1>7, <3>1, <4>1, <4>2
    <3>6. CASE n = 3
      <4>1. e = from + 4 /\ s[4] = "'"
        BY <1>2, <1>3, <3>3, <3>4, <3>6
      <4>2. Taken + 1 = from + 4 /\ 4 \in 1 .. (e - from) /\ Taken < len
        <5>1. Taken = from + 3
          BY <1>3, <3>6
        <5>2. e <= len /\ len \in Nat
          BY TextFacts
        <5> QED
          BY <4>1, <5>1, <5>2
      <4> QED
        BY <1>4, <1>7, <3>1, <4>1, <4>2
    <3>7. CASE n = 1
      BY <1>2, <1>3, <1>4, <3>4, <3>7
    <3> QED
      BY <1>2, <1>3, <3>5, <3>6, <3>7
  <2>2. Rejected(begun.taken)
    BY <1>3, <2>1, RejectedIf
  <2> QED
    BY <1>7, <2>2, Rejects DEF Emit
<1> QED
  BY <1>6, <1>7 DEF CharClose
-----------------------------------------------------------------------------
(* Escape sequences.                                                       *)

\* E is where the first n characters of body have backslashes that begin an
\* escape sequence.
Marks(E, body, n) ==
  /\ E \in SUBSET (1 .. n)
  /\ \A k \in 1 .. n : k \in E <=> body[k] = "\\" /\ k - 1 \notin E

LEMMA MarksExist ==
  ASSUME NEW body, NEW m \in Nat
  PROVE  \E E : Marks(E, body, m)
<1> DEFINE bad == {n \in Nat : \A E : ~Marks(E, body, n)}
<1>1. CASE bad = {}
  BY <1>1
<1>2. CASE bad # {}
  <2>1. PICK n \in bad : \A i \in bad : n <= i
    <3>1. bad \in SUBSET Nat
      OBVIOUS
    <3> QED
      BY <1>2, <3>1, LeastExists
  <2>2. n \in Nat /\ \A E : ~Marks(E, body, n)
    OBVIOUS
  <2>3. n # 0
    <3>1. Marks({}, body, 0)
      BY DEF Marks
    <3> QED
      BY <2>2, <3>1
  <2>4. PICK p \in Nat : n = p + 1
    <3>1. n - 1 \in Nat /\ n = (n - 1) + 1
      BY <2>2, <2>3
    <3> QED
      BY <3>1
  <2>5. p \notin bad
    <3>1. ~(n <= p)
      BY <2>4
    <3> QED
      BY <2>1, <3>1
  <2>6. PICK E : Marks(E, body, p)
    BY <2>5
  <2>7. PICK F : /\ F \in SUBSET (1 .. n)
                 /\ n \in F <=> body[n] = "\\" /\ p \notin E
                 /\ \A k \in 0 .. p : k \in F <=> k \in E
    <3> DEFINE F == IF body[n] = "\\" /\ p \notin E THEN E \cup {n} ELSE E
    <3>1. E \in SUBSET (1 .. p) /\ n \notin 0 .. p
      BY <2>4, <2>6 DEF Marks
    <3>2. /\ F \in SUBSET (1 .. n)
          /\ n \in F <=> body[n] = "\\" /\ p \notin E
          /\ \A k \in 0 .. p : k \in F <=> k \in E
      BY <2>4, <3>1
    <3> QED
      BY <3>2, Zenon
  <2>8. ASSUME NEW k \in 1 .. n
        PROVE  k \in F <=> body[k] = "\\" /\ k - 1 \notin F
    <3>1. CASE k = n
      <4>1. k - 1 = p /\ p \in 0 .. p
        BY <2>4, <3>1
      <4> QED
        BY <2>7, <3>1, <4>1
    <3>2. CASE k # n
      <4>1. k \in 1 .. p /\ k \in 0 .. p /\ k - 1 \in 0 .. p
        BY <2>4, <3>2
      <4>2. k \in E <=> body[k] = "\\" /\ k - 1 \notin E
        BY <2>6, <4>1 DEF Marks
      <4> QED
        BY <2>7, <4>1, <4>2
    <3> QED
      BY <3>1, <3>2
  <2>9. Marks(F, body, n)
    BY <2>7, <2>8 DEF Marks
  <2> QED
    BY <2>2, <2>9
<1> QED
  BY <1>1, <1>2

LEMMA EscaperIs ==
  ASSUME NEW body, Len(body) \in Nat
  PROVE  Marks(Escaper(body), body, Len(body))
<1> DEFINE m == Len(body)
           R(g) == [k \in 0 .. m |-> k > 0 /\ body[k] = "\\" /\ ~g[k - 1]]
           e == CHOOSE g : g = R(g)
<1>1. Escaper(body) = {k \in 1 .. m : e[k]}
  BY DEF Escaper
<1>2. PICK E : Marks(E, body, m)
  BY MarksExist
<1>3. PICK f : f = [k \in 0 .. m |-> k \in E]
  OBVIOUS
<1>4. f = R(f)
  <2>1. ASSUME NEW k \in 0 .. m
        PROVE  (k \in E) = (k > 0 /\ body[k] = "\\" /\ ~f[k - 1])
    <3>1. CASE k = 0
      BY <1>2, <3>1 DEF Marks
    <3>2. CASE k # 0
      <4>1. k \in 1 .. m /\ k - 1 \in 0 .. m /\ k > 0
        BY <3>2
      <4>2. f[k - 1] = (k - 1 \in E)
        BY <1>3, <4>1
      <4>3. k \in E <=> body[k] = "\\" /\ k - 1 \notin E
        BY <1>2, <4>1 DEF Marks
      <4>4. ~f[k - 1] <=> k - 1 \notin E
        BY <4>2
      <4>5. k \in E <=> k > 0 /\ body[k] = "\\" /\ ~f[k - 1]
        BY <4>1, <4>3, <4>4
      <4> QED
        BY <4>5
    <3> QED
      BY <3>1, <3>2
  <2> QED
    BY <1>3, <2>1
<1>5. e = R(e)
  BY <1>4
<1> HIDE DEF e
<1>6. \A k \in 0 .. m : e[k] = (k > 0 /\ body[k] = "\\" /\ ~e[k - 1])
  BY <1>5
<1>7. ASSUME NEW k \in 1 .. m
      PROVE  k \in Escaper(body) <=> body[k] = "\\" /\ k - 1 \notin Escaper(body)
  <2>1. k \in 0 .. m /\ k > 0 /\ k - 1 \in 0 .. m
    OBVIOUS
  <2>2. k \in Escaper(body) <=> e[k]
    BY <1>1
  <2>3. e[k] <=> body[k] = "\\" /\ ~e[k - 1]
    BY <1>6, <2>1
  <2>4. k - 1 \in Escaper(body) <=> e[k - 1]
    <3>1. CASE k - 1 = 0
      <4>1. ~e[0]
        <5>1. 0 \in 0 .. m /\ ~(0 > 0)
          OBVIOUS
        <5>2. e[0] = (0 > 0 /\ body[0] = "\\" /\ ~e[0 - 1])
          BY <1>6, <5>1
        <5> QED
          BY <5>1, <5>2, Zenon
      <4>2. 0 \notin Escaper(body)
        BY <1>1
      <4> QED
        BY <3>1, <4>1, <4>2
    <3>2. CASE k - 1 # 0
      <4>1. k - 1 \in 1 .. m
        BY <2>1, <3>2
      <4> QED
        BY <1>1, <4>1
    <3> QED
      BY <3>1, <3>2
  <2> QED
    BY <2>2, <2>3, <2>4
<1>8. Escaper(body) \in SUBSET (1 .. m)
  BY <1>1
<1> QED
  BY <1>7, <1>8 DEF Marks

\* What comes behind does not matter to them.
LEMMA MarksAgree ==
  ASSUME NEW E, NEW F, NEW b, NEW c, NEW n \in Nat, NEW m \in Nat, n <= m,
         Marks(E, b, n), Marks(F, c, m), \A k \in 1 .. n : b[k] = c[k]
  PROVE  \A k \in 1 .. n : k \in E <=> k \in F
<1> DEFINE bad == {k \in 1 .. n : ~(k \in E <=> k \in F)}
<1>1. CASE bad = {}
  BY <1>1
<1>2. CASE bad # {}
  <2>1. PICK k \in bad : \A i \in bad : k <= i
    <3>1. bad \in SUBSET Nat
      OBVIOUS
    <3> QED
      BY <1>2, <3>1, LeastExists
  <2>2. k \in 1 .. n /\ k \in 1 .. m /\ ~(k \in E <=> k \in F)
    OBVIOUS
  <2>3. k - 1 \in E <=> k - 1 \in F
    <3>1. CASE k = 1
      BY <3>1 DEF Marks
    <3>2. CASE k # 1
      <4>1. k - 1 \in 1 .. n /\ ~(k <= k - 1)
        BY <2>2, <3>2
      <4>2. k - 1 \notin bad
        BY <2>1, <4>1
      <4> QED
        BY <4>1, <4>2
    <3> QED
      BY <3>1, <3>2
  <2>4. k \in E <=> b[k] = "\\" /\ k - 1 \notin E
    BY <2>2 DEF Marks
  <2>5. k \in F <=> c[k] = "\\" /\ k - 1 \notin F
    BY <2>2 DEF Marks
  <2> QED
    BY <2>2, <2>3, <2>4, <2>5
<1> QED
  BY <1>1, <1>2

Body(s) == SubSeq(s, 2, Len(s) - 1)

LEMMA BodyFacts ==
  ASSUME NEW s \in Seq(CharSet), NEW n \in Nat, Len(s) = n + 2
  PROVE  /\ Body(s) \in Seq(CharSet) /\ Len(Body(s)) = n
         /\ \A k \in 1 .. n : Body(s)[k] = s[k + 1]
<1>1. PICK m \in Nat : m = n + 1 /\ m = Len(s) - 1
  OBVIOUS
<1> DEFINE b == SubSeq(s, 2, m)
<1>2. \A i \in 2 .. m : s[i] \in CharSet
  BY <1>1
<1>3. /\ b \in Seq(CharSet) /\ Len(b) = IF 2 <= m THEN m - 2 + 1 ELSE 0
      /\ \A i \in 1 .. (m - 2 + 1) : b[i] = s[2 + i - 1]
  BY <1>2, SubSeqProperties
<1> HIDE DEF b
<1>4. Len(b) = n
  <2>1. (IF 2 <= m THEN m - 2 + 1 ELSE 0) = n
    BY <1>1
  <2> QED
    BY <1>3, <2>1
<1>5. \A k \in 1 .. n : k \in 1 .. (m - 2 + 1) /\ 2 + k - 1 = k + 1
  BY <1>1
<1> QED
  BY <1>1, <1>3, <1>4, <1>5 DEF Body, b

LEMMA QuotedDef ==
  ASSUME NEW s
  PROVE  QuotedShape(s) <=>
           /\ Len(s) >= 2 /\ s[1] = Quote /\ s[Len(s)] = Quote
           /\ \A k \in 1 .. Len(Body(s)) : Body(s)[k] \notin {Quote, EOF}
           /\ \A k \in Escaper(Body(s)) : k < Len(Body(s)) /\ Body(s)[k + 1] \in DOMAIN Escapes
BY Zenon DEF QuotedShape, Body, Quote

\* What the invariant knows of a string, for the text behind its quotation mark.
LEMMA StringRead ==
  ASSUME BufInv, TypeInv, NEW n \in Nat, Length = n + 1, InString(n),
         NEW b, NEW m \in Nat, Len(b) = m, n <= m, \A k \in 1 .. n : b[k] = Since(k + 1)
  PROVE  /\ Since(1) = Quote /\ \A k \in 1 .. n : Since(k + 1) \notin {Quote, EOF}
         /\ \A k \in Escaper(b) : k < n => b[k + 1] \in DOMAIN Escapes
         /\ \A k \in Escaper(b) : k \in 1 .. m
         /\ n \in Escaper(b) <=> mode = "escaped"
<1>1. Since(1) = Quote /\ \A k \in 1 .. n : Since(k + 1) \notin {Quote, EOF}
  BY DEF InString
<1>2. PICK E \in SUBSET (1 .. n) : /\ Escaping(E, begun.taken + 1, n)
                                   /\ Complete(E, begun.taken + 1, n)
                                   /\ n \in E <=> mode = "escaped"
  BY DEF InString
<1>3. begun.taken \in Nat
  BY DEF TypeInv
<1>4. \A k \in 1 .. n : Text[begun.taken + 1 + k] = b[k]
  <2> SUFFICES ASSUME NEW k \in 1 .. n
               PROVE  Text[begun.taken + 1 + k] = b[k]
    OBVIOUS
  <2>1. PICK from \in Nat : from = begun.taken
    BY <1>3
  <2>2. from + 1 + k = from + (k + 1)
    OBVIOUS
  <2> QED
    BY <2>1, <2>2 DEF Since
<1>5. Marks(E, b, n)
  BY <1>2, <1>4 DEF Marks, Escaping
<1>6. Marks(Escaper(b), b, m)
  BY EscaperIs
<1>7. \A k \in 1 .. n : k \in E <=> k \in Escaper(b)
  BY <1>5, <1>6, MarksAgree
<1>8. \A k \in Escaper(b) : k \in 1 .. m
  BY <1>6 DEF Marks
<1>9. ASSUME NEW k \in Escaper(b), k < n
      PROVE  b[k + 1] \in DOMAIN Escapes
  <2>1. k \in 1 .. n /\ k + 1 \in 1 .. n
    BY <1>8, <1>9
  <2>2. Text[begun.taken + 1 + k + 1] \in DOMAIN Escapes
    BY <1>2, <1>7, <1>9, <2>1 DEF Complete
  <2>3. begun.taken + 1 + k + 1 = begun.taken + 1 + (k + 1)
    BY <1>3, <2>1
  <2> QED
    BY <1>4, <2>1, <2>2, <2>3
<1>10. n \in Escaper(b) <=> mode = "escaped"
  <2>1. CASE n = 0
    BY <1>2, <1>8, <2>1
  <2>2. CASE n # 0
    <3>1. n \in 1 .. n
      BY <2>2
    <3> QED
      BY <1>2, <1>7, <3>1
  <2> QED
    BY <2>1, <2>2
<1> QED
  BY <1>1, <1>8, <1>9, <1>10

\* A string that has come to a character that ends it without a quotation mark
\* is no lexeme however it goes on.
LEMMA StringRejected ==
  ASSUME BufInv, TypeInv, WordInv, mode \in {"string", "escaped"},
         Peek = EOF \/ (mode = "escaped" /\ Peek \notin DOMAIN Escapes)
  PROVE  Rejected(begun.taken)
<1>1. Length >= 1 /\ InString(Length - 1)
  BY DEF WordInv
<1>2. PICK from \in Nat, n \in Nat :
        /\ from = begun.taken /\ Length = n + 1 /\ Length - 1 = n /\ Taken = from + (n + 1)
  <2>1. begun.taken \in Nat /\ Length \in Nat /\ Taken = begun.taken + Length
    BY WordPlace
  <2>2. PICK n \in Nat : n = Length - 1 /\ Length = n + 1
    BY <1>1, <2>1
  <2> QED
    BY <2>1, <2>2
<1>3. Since(1) = Quote /\ \A k \in 1 .. n : Since(k + 1) \notin {Quote, EOF}
  BY <1>1, <1>2 DEF InString
<1>4. EOF # Quote
  BY ClassesAreCharacters, Zenon DEF Quote
<1>5. \A i : Since(i) = Text[from + i]
  BY <1>2 DEF Since
<1>6. len \in Nat /\ Peek = (IF Taken < len THEN Text[Taken + 1] ELSE EOF)
  BY TextFacts
<1>7. ASSUME NEW e \in (from + 1) .. len, Begins(Piece(from, e), CharBehind(e))
      PROVE  FALSE
  <2> DEFINE s == Piece(from, e)
  <2>1. /\ e \in Nat /\ s \in Seq(CharSet) /\ Len(s) = e - from /\ s[1] = Text[from + 1]
        /\ \A i \in 1 .. (e - from) : s[i] = Text[from + i]
    BY PieceBegins
  <2>2. QuotedShape(s)
    BY <1>3, <1>5, <1>7, <2>1, BeginsWith
  <2> HIDE DEF s
  <2>3. /\ Len(s) >= 2 /\ s[Len(s)] = Quote
        /\ \A k \in 1 .. Len(Body(s)) : Body(s)[k] \notin {Quote, EOF}
        /\ \A k \in Escaper(Body(s)) : k < Len(Body(s)) /\ Body(s)[k + 1] \in DOMAIN Escapes
    BY <2>2, QuotedDef
  <2>4. PICK m \in Nat : e = from + (m + 2) /\ Len(s) = m + 2
    <3>1. PICK d \in Nat : d = Len(s) - 2 /\ Len(s) = d + 2
      BY <2>1, <2>3
    <3>2. e = from + (d + 2)
      BY <2>1, <3>1
    <3> QED
      BY <3>1, <3>2
  <2>5. \A i \in 1 .. (m + 2) : s[i] = Text[from + i]
    BY <2>1, <2>4
  <2>6. n <= m
    <3> SUFFICES ASSUME m < n
                 PROVE  FALSE
      OBVIOUS
    <3>1. m + 1 \in 1 .. n /\ (m + 1) + 1 = m + 2 /\ m + 2 \in 1 .. (m + 2)
      OBVIOUS
    <3>2. Since(m + 2) # Quote
      BY <1>3, <3>1
    <3>3. Since(m + 2) = Quote
      BY <1>5, <2>3, <2>4, <2>5, <3>1
    <3> QED
      BY <3>2, <3>3
  <2>7. Taken < len /\ Text[from + (n + 2)] = Peek
    <3>1. e <= len /\ Taken + 1 = from + (n + 2)
      BY <1>2
    <3>2. Taken < len
      BY <1>2, <1>6, <2>4, <2>6, <3>1, SMTT(30)
    <3> QED
      BY <1>6, <3>1, <3>2
  <2>8. s[n + 2] = Peek
    <3>1. n + 2 \in 1 .. (m + 2)
      BY <2>6
    <3> QED
      BY <2>5, <2>7, <3>1
  <2>9. Len(Body(s)) = m /\ \A k \in 1 .. m : Body(s)[k] = s[k + 1]
    BY <2>1, <2>4, BodyFacts
  <2>10. n < m => Body(s)[n + 1] = Peek
    <3>1. n < m => n + 1 \in 1 .. m /\ (n + 1) + 1 = n + 2
      OBVIOUS
    <3> QED
      BY <2>8, <2>9, <3>1
  <2>11. CASE Peek = EOF
    <3>1. CASE n = m
      BY <1>4, <2>3, <2>4, <2>8, <2>11, <3>1
    <3>2. CASE n < m
      <4>1. n + 1 \in 1 .. m
        BY <3>2
      <4> QED
        BY <2>3, <2>9, <2>10, <2>11, <3>2, <4>1
    <3> QED
      BY <2>6, <3>1, <3>2
  <2>12. CASE mode = "escaped" /\ Peek \notin DOMAIN Escapes
    <3>1. \A k \in 1 .. n : Body(s)[k] = Since(k + 1)
      <4> SUFFICES ASSUME NEW k \in 1 .. n
                   PROVE  Body(s)[k] = Since(k + 1)
        OBVIOUS
      <4>1. k \in 1 .. m /\ k + 1 \in 1 .. (m + 2)
        BY <2>6
      <4> QED
        BY <1>5, <2>5, <2>9, <4>1
    <3>2. n \in Escaper(Body(s))
      BY <1>1, <1>2, <2>6, <2>9, <2>12, <3>1, StringRead
    <3> QED
      BY <2>3, <2>9, <2>10, <2>12, <3>2
  <2> QED
    BY <2>11, <2>12
<1> QED
  BY <1>2, <1>7, RejectedIf

LEMMA StringSound ==
  ASSUME BufInv, TypeInv, WordInv, StringChar
  PROVE  Sound
<1>1. mode = "string" /\ Bump
  BY DEF StringChar
<1>2. CASE Peek = Quote /\ Emit(begun, "SLIT", Pushed(Peek))
  <2> DEFINE s == Piece(begun.taken, Taken')
  <2>1. Quote # EOF
    BY ClassesAreCharacters, Zenon DEF Quote
  <2>2. /\ s \in Seq(CharSet) /\ Len(s) = Length + 1 /\ Length \in Nat /\ s[Length + 1] = Quote
        /\ len - remaining' = Taken' /\ \A i \in 1 .. Length : s[i] = Since(i)
    BY <1>1, <1>2, <2>1, OneMore
  <2> HIDE DEF s
  <2>3. Length >= 1 /\ InString(Length - 1)
    BY <1>1 DEF WordInv
  <2>4. PICK n \in Nat : Length = n + 1 /\ n = Length - 1
    BY <2>2, <2>3
  <2>5. Len(s) = n + 2 /\ s[n + 2] = Quote
    <3>1. n + 1 + 1 = n + 2
      OBVIOUS
    <3> QED
      BY <2>2, <2>4, <3>1
  <2>6. Len(Body(s)) = n /\ \A k \in 1 .. n : Body(s)[k] = s[k + 1]
    BY <2>2, <2>5, BodyFacts
  <2>7. \A k \in 1 .. n : Body(s)[k] = Since(k + 1)
    <3>1. \A k \in 1 .. n : k + 1 \in 1 .. Length
      BY <2>4
    <3> QED
      BY <2>2, <2>6, <3>1
  <2>8. /\ Since(1) = Quote /\ \A k \in 1 .. n : Since(k + 1) \notin {Quote, EOF}
        /\ \A k \in Escaper(Body(s)) : k < n => Body(s)[k + 1] \in DOMAIN Escapes
        /\ \A k \in Escaper(Body(s)) : k \in 1 .. n
        /\ n \in Escaper(Body(s)) <=> mode = "escaped"
    BY <2>3, <2>4, <2>6, <2>7, StringRead, SMTT(30)
  <2>9. ASSUME NEW k \in Escaper(Body(s))
        PROVE  k < n /\ Body(s)[k + 1] \in DOMAIN Escapes
    <3>1. k \in 1 .. n /\ k # n
      BY <1>1, <2>8
    <3>2. k < n
      BY <3>1
    <3> QED
      BY <2>8, <3>2
  <2>10. s[1] = Quote
    <3>1. 1 \in 1 .. Length
      BY <2>4
    <3> QED
      BY <2>2, <2>8, <3>1
  <2>11. QuotedShape(s)
    <3>1. Len(s) >= 2 /\ s[Len(s)] = Quote
      BY <2>5
    <3>2. \A k \in 1 .. Len(Body(s)) : Body(s)[k] \notin {Quote, EOF}
      BY <2>6, <2>7, <2>8
    <3>3. \A k \in Escaper(Body(s)) : k < Len(Body(s)) /\ Body(s)[k + 1] \in DOMAIN Escapes
      BY <2>6, <2>9
    <3> QED
      BY <2>10, <3>1, <3>2, <3>3, QuotedDef
  <2>12. Accepted(begun.taken, Taken', "SLIT", Pushed(Peek))
    BY <2>11, LexemeKinds DEF Accepted, s
  <2> QED
    BY <1>2, <2>2, <2>12, Accepts DEF Emit
<1>3. CASE Peek = EOF /\ Emit(begun, "ILLEGAL", <<>>)
  <2>1. Rejected(begun.taken)
    BY <1>1, <1>3, StringRejected
  <2> QED
    BY <1>3, <2>1, Rejects DEF Emit
<1>4. CASE tokens' = tokens
  BY <1>4 DEF Sound
<1> QED
  BY <1>2, <1>3, <1>4, Zenon DEF StringChar, Quote

LEMMA EscapeSound ==
  ASSUME BufInv, TypeInv, WordInv, Escape
  PROVE  Sound
<1>1. mode \in {"escaped", "char_escaped"}
  BY DEF Escape
<1>2. CASE tokens' = tokens
  BY <1>2 DEF Sound
<1>3. CASE Peek \notin DOMAIN Escapes /\ Emit(begun, "ILLEGAL", <<>>)
  <2>1. CASE mode = "escaped"
    <3>1. Rejected(begun.taken)
      BY <1>3, <2>1, StringRejected
    <3> QED
      BY <1>3, <3>1, Rejects DEF Emit
  <2>2. CASE mode = "char_escaped"
    <3>1. Since(1) = "'" /\ Length = 2 /\ Since(2) = "\\"
      BY <2>2 DEF WordInv
    <3>2. PICK from \in Nat : from = begun.taken /\ Taken = from + 2
      BY <3>1, WordPlace
    <3>3. len \in Nat /\ Peek = (IF Taken < len THEN Text[Taken + 1] ELSE EOF)
      BY TextFacts
    <3>4. Text[from + 1] = "'" /\ Text[from + 2] = "\\"
      BY <3>1, <3>2 DEF Since
    <3>5. ASSUME NEW e \in (from + 1) .. len, Begins(Piece(from, e), CharBehind(e))
          PROVE  FALSE
      <4> DEFINE s == Piece(from, e)
      <4>1. /\ e \in Nat /\ Len(s) = e - from /\ s[1] = "'"
            /\ \A i \in 1 .. (e - from) : s[i] = Text[from + i]
        BY <3>4, PieceBegins
      <4>2. CharShape(s)
        BY <3>5, <4>1, BeginsWith
      <4> HIDE DEF s
      <4>3. (e - from = 3 /\ s[2] # "\\") \/ (e - from = 4 /\ s[3] \in DOMAIN Escapes)
        BY <4>1, <4>2 DEF CharShape
      <4>4. e >= from + 3 /\ 2 \in 1 .. (e - from) /\ 3 \in 1 .. (e - from)
        BY <4>1, <4>3
      <4>5. s[2] = "\\"
        BY <3>4, <4>1, <4>4
      <4>6. s[3] \in DOMAIN Escapes
        BY <4>3, <4>5
      <4>7. Taken < len /\ Taken + 1 = from + 3
        BY <3>2, <3>3, <4>4
      <4> QED
        BY <1>3, <3>3, <4>1, <4>4, <4>6, <4>7
    <3>6. Rejected(begun.taken)
      BY <3>2, <3>5, RejectedIf
    <3> QED
      BY <1>3, <3>6, Rejects DEF Emit
  <2> QED
    BY <1>1, <2>1, <2>2
<1> QED
  BY <1>2, <1>3 DEF Escape

LEMMA NextSound ==
  ASSUME BufInv, TypeInv, WordInv, Next
  PROVE  Sound
<1>1. CASE SkipBlank \/ Open \/ Collect \/ Overrun \/ BeginHex \/ Comment \/ CharStart
  <2>1. tokens' = tokens
    BY <1>1 DEF SkipBlank, Open, Collect, Overrun, BeginHex, Comment, CharStart
  <2> QED
    BY <2>1 DEF Sound
<1> QED
  BY <1>1, EndSound, SingleSound, StraySound, BadBaseSound, IdentSound, SectionSound, NumberSound,
     HexSound, StringSound, EscapeSound, CharCloseSound DEF Next
-----------------------------------------------------------------------------
(* The theorems.                                                           *)

LEMMA InitHolds == Init => LInv
<1> SUFFICES ASSUME Init
             PROVE  LInv
  OBVIOUS
<1>1. /\ BufInv /\ Taken = 0
  BY InitialBuffer DEF Init
<1>2. /\ mode = "next" /\ word = <<>> /\ tokens = <<>> /\ begun = [taken |-> 0, pos |-> pos]
      /\ pos = [row |-> 0, col |-> 0] /\ prev = pos /\ DOMAIN buf = BufIndex
  BY <1>1 DEF Init, InitBuffer, Filled
<1>3. TypeInv
  BY <1>1, <1>2 DEF TypeInv, Silent, Place
<1>4. SpanInv
  BY <1>1, <1>2, FirstPlace DEF SpanInv, SpansPlaced
<1>5. TileInv
  BY <1>1, <1>2 DEF TileInv, Tiled, Scanned
<1>6. WordInv
  BY <1>2, Recognisers DEF WordInv
<1>7. TokensSpelled
  BY <1>2 DEF TokensSpelled
<1> QED
  BY <1>1, <1>3, <1>4, <1>5, <1>6, <1>7 DEF LInv

LEMMA Stutters == LInv /\ UNCHANGED vars => LInv'
<1> SUFFICES ASSUME LInv, UNCHANGED vars
             PROVE  LInv'
  OBVIOUS
<1>1. /\ UNCHANGED bufferVars /\ mode' = mode /\ word' = word /\ begun' = begun /\ tokens' = tokens
  BY DEF vars
<1>2. BufInv' /\ Text' = Text /\ len' = len /\ Taken' = Taken
  BY <1>1, StillText DEF LInv
<1>3. TypeInv'
  BY <1>1, <1>2 DEF LInv, TypeInv, bufferVars
<1>4. SpanInv'
  <2>1. \A p : PlaceOf(p)' = PlaceOf(p)
    BY <1>2 DEF PlaceOf
  <2>2. SpanInv /\ pos' = pos /\ prev' = prev
    BY <1>1 DEF LInv, bufferVars
  <2> QED
    BY <1>1, <1>2, <2>1, <2>2 DEF SpanInv, SpansPlaced
<1>5. TileInv'
  <2>1. \A p : InToken(p)' <=> InToken(p)
    BY <1>1 DEF InToken
  <2>2. \A p : InComment(p)' <=> InComment(p)
    BY <1>2, <2>1 DEF InComment
  <2>3. Scanned' = Scanned
    BY <1>1, <1>2 DEF Scanned
  <2>4. Tiled'
    BY <1>1, <1>2, <2>1, <2>2, <2>3 DEF LInv, TileInv, Tiled
  <2> QED
    BY <1>1, <2>3, <2>4 DEF LInv, TileInv
<1>6. WordInv'
  BY <1>1, <1>2 DEF LInv, WordInv, Collected, Holds, Length, Since, InString, Escaping, Complete
<1>7. TokensSpelled'
  BY <1>1, <1>2 DEF LInv, TokensSpelled, TokenText, CharBehind
<1> QED
  BY <1>2, <1>3, <1>4, <1>5, <1>6, <1>7 DEF LInv

LEMMA Inductive == LInv /\ [Next]_vars => LInv'
<1> SUFFICES ASSUME LInv, Next
             PROVE  LInv'
  BY Stutters
<1>1. BufInv /\ TypeInv /\ SpanInv /\ TileInv /\ WordInv /\ TokensSpelled
  BY DEF LInv
<1>2. Moves
  BY <1>1, TurnsBump, StepMoves
<1>3. Turn
  BY <1>1, NextTurns
<1>4. TokensSpelled'
  BY <1>1, <1>2, NextSound, SpelledKeeps
<1> QED
  BY <1>1, <1>2, <1>3, <1>4, TypeKeeps, SpanKeeps, TileKeeps, WordKeeps DEF LInv, Moves

LEMMA Invariance == Spec => []LInv
BY InitHolds, Inductive, PTL DEF Spec

LEMMA TypesFollow == LInv => TypeOK
<1> SUFFICES ASSUME LInv
             PROVE  TypeOK
  OBVIOUS
<1>1. BufInv /\ TypeInv /\ SpanInv /\ WordInv
  BY DEF LInv
<1>2. remaining \in 0 .. len /\ Taken \in Nat /\ Len(file) \in Nat
  BY <1>1, TextFacts DEF BufInv
<1>3. offset \in 0 .. Len(file)
  <2>1. Idx \in Nat /\ Idx <= Taken
    <3>1. LEXER_BUF_SIZE \in Nat \ {0} /\ Taken \in Int
      BY <1>2, BufferAssumption
    <3>2. PICK d \in Int, i \in 0 .. (LEXER_BUF_SIZE - 1) :
            Taken = LEXER_BUF_SIZE * d + i /\ i = Taken % LEXER_BUF_SIZE
      BY <3>1, Division
    <3>3. d >= 0
      <4>1. CASE d < 0
        <5>1. LEXER_BUF_SIZE * d <= LEXER_BUF_SIZE * (0 - 1)
          BY <3>1, <4>1
        <5> QED
          BY <1>2, <3>1, <3>2, <5>1
      <4> QED
        BY <4>1
    <3>4. LEXER_BUF_SIZE * d >= 0
      BY <3>1, <3>3
    <3> QED
      BY <1>2, <3>1, <3>2, <3>4 DEF Idx
  <2>2. Start + LEXER_BUF_SIZE \in Nat
    BY <1>2, <2>1, BufferAssumption DEF Start
  <2> QED
    BY <1>1, <1>2, <2>2 DEF BufInv, Lesser
<1>4. pos \in Place /\ prev \in Place
  <2>1. (IF Taken = 0 THEN 0 ELSE Taken - 1) \in Nat
    BY <1>2
  <2> QED
    BY <1>1, <1>2, <2>1, PlaceOfType DEF SpanInv
<1>5. begun.taken \in 0 .. Taken
  BY <1>1, <1>2 DEF TypeInv
<1>6. Len(word) <= SBUF_SIZE \/ mode \in {"string", "escaped"}
  <2>1. CASE mode \in {"next", "done", "comment", "char", "char_escaped"}
    <3>1. Len(word) = 0
      BY <1>1, <2>1 DEF WordInv
    <3> QED
      BY <3>1, SbufAssumption
  <2>2. CASE mode \in Collecting \cup {"overrun", "char_close"}
    BY <1>1, <2>2, SbufAssumption DEF WordInv
  <2> QED
    BY <1>1, <2>1, <2>2 DEF TypeInv, Silent, Quoting
<1> QED
  BY <1>1, <1>2, <1>3, <1>4, <1>5, <1>6 DEF TypeOK, BufferTypeOK, TypeInv, Silent, Quoting, Place

\* A word that fills buf is as long in the file.
LEMMA OverrunFollows == LInv => OverrunsAreLongWords
<1> SUFFICES ASSUME LInv, mode = "overrun"
             PROVE  Length - MarksOf(begun.taken) >= SBUF_SIZE
  BY DEF OverrunsAreLongWords, Length
<1>1. /\ BufInv /\ TypeInv
      /\ Len(word) = SBUF_SIZE /\ SBUF_SIZE \in Nat /\ SBUF_SIZE >= 2
  BY SbufAssumption DEF LInv, WordInv
<1>2. PICK m \in Collecting : Collected(m)
  BY DEF LInv, WordInv
<1>3. /\ len \in Nat /\ Taken \in Nat /\ Taken <= len /\ begun.taken \in Nat
      /\ Length = Taken - begun.taken /\ Length \in Nat
  BY <1>1, TextFacts DEF TypeInv, Length
<1>4. Length >= 1 => CharBehind(begun.taken) = Since(1)
  BY <1>3 DEF CharBehind, Since
<1>5. Length >= 2 => CharBehind(begun.taken + 1) = Since(2)
  <2>1. begun.taken + 1 + 1 = begun.taken + 2
    BY <1>3
  <2> QED
    BY <1>3, <2>1 DEF CharBehind, Since
<1>6. MarksOf(begun.taken) \in {0, 1, 2}
  BY DEF MarksOf
<1>7. ASSUME Holds(0), SBUF_SIZE <= Length => MarksOf(begun.taken) = 0
      PROVE  Length - MarksOf(begun.taken) >= SBUF_SIZE
  <2>1. Length = SBUF_SIZE
    BY <1>1, <1>3, <1>7 DEF Holds
  <2> QED
    BY <1>1, <1>7, <2>1
<1>8. CASE m \in {"ident", "number", "signed"}
  <2>1. /\ Holds(0) /\ Length >= 1
        /\ word[1] \in IdentStart \cup Digits \cup {"-"}
        /\ m = "ident" => word[1] \in IdentStart
        /\ \A i \in 2 .. Len(word) : word[i] \in IdentChars \cup NumChars
        /\ m # "ident" => \A i \in 2 .. Len(word) : word[i] \in NumChars
    BY <1>2, <1>8 DEF Collected, AllIn
  <2>2. Length >= 2 /\ word[1] = Since(1) /\ word[2] = Since(2)
    <3>1. Len(word) = Length - 0 /\ \A i \in 1 .. Len(word) : word[i] = Since(0 + i)
      BY <2>1 DEF Holds
    <3>2. Length >= 2 /\ 1 \in 1 .. Len(word) /\ 2 \in 1 .. Len(word) /\ 0 + 1 = 1 /\ 0 + 2 = 2
      BY <1>1, <1>3, <3>1
    <3> QED
      BY <3>1, <3>2
  <2>3. word[1] # "."
    BY <2>1, CharAssumption DEF IdentChars, Signs, Openers
  <2>4. CASE m = "ident"
    <3>1. word[1] # "0"
      BY <2>1, <2>4, CharAssumption DEF IdentStart
    <3> QED
      BY <1>4, <1>7, <2>1, <2>2, <2>3, <3>1 DEF MarksOf
  <2>5. CASE m # "ident"
    <3>1. word[2] \notin BaseMarks
      <4>1. word[2] \in NumChars
        BY <1>1, <2>1, <2>5
      <4> QED
        BY <4>1, CharAssumption DEF NumChars, Signs, Openers, IdentChars, IdentStart
    <3> QED
      BY <1>4, <1>5, <1>7, <2>1, <2>2, <2>3, <3>1 DEF MarksOf
  <2> QED
    BY <2>4, <2>5
<1>9. CASE m = "section"
  <2>1. Holds(1) /\ Length >= 1 /\ Since(1) = "."
    BY <1>2, <1>9 DEF Collected
  <2>2. MarksOf(begun.taken) = 1
    BY <1>4, <2>1 DEF MarksOf
  <2>3. Len(word) = Length - 1
    BY <2>1 DEF Holds
  <2>4. Length = SBUF_SIZE + 1
    BY <1>1, <1>3, <2>3
  <2>5. ASSUME NEW k \in {1}
        PROVE  Length - k >= SBUF_SIZE
    BY <1>1, <2>4
  <2> QED
    BY <2>2, <2>5
<1>10. CASE m = "hex"
  <2>1. Holds(2)
    BY <1>2, <1>10 DEF Collected
  <2>2. Len(word) = Length - 2
    BY <2>1 DEF Holds
  <2>3. Length = SBUF_SIZE + 2
    BY <1>1, <1>3, <2>2
  <2>4. ASSUME NEW k \in {0, 1, 2}
        PROVE  Length - k >= SBUF_SIZE
    BY <1>1, <2>3
  <2> QED
    BY <1>6, <2>4
<1> QED
  BY <1>2, <1>8, <1>9, <1>10, Recognisers

\* The lexer's state is as declared at every step, for every size of its
\* buffers and every file.
THEOREM LexerTypes == Spec => []TypeOK
BY Invariance, TypesFollow, PTL

\* lexer_next: the row and column of every token are those of its first and
\* last character in the file.
THEOREM TokensPlaced == Spec => []SpansPlaced
<1>1. LInv => SpansPlaced
  BY DEF LInv, SpanInv
<1> QED
  BY <1>1, Invariance, PTL

\* lexer_next: tokens do not overlap, and only blanks and comments lie
\* between them.
THEOREM TokensTile == Spec => []Tiled
<1>1. LInv => Tiled
  BY DEF LInv, TileInv
<1> QED
  BY <1>1, Invariance, PTL

\* Nothing but a word of SBUF_SIZE characters runs over the buffer of a
\* recogniser.
THEOREM LongWordsOverrun == Spec => []OverrunsAreLongWords
BY Invariance, OverrunFollows, PTL

\* lexer_next: a token is a longest lexeme of its kind, with that lexeme's
\* spelling, and where it returns T_ILLEGAL no lexeme begins.
THEOREM TokensAreLexemes == Spec => []TokensSpelled
<1>1. LInv => TokensSpelled
  BY DEF LInv
<1> QED
  BY <1>1, Invariance, PTL
=============================================================================

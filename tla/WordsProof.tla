----------------------------- MODULE WordsProof -----------------------------
(***************************************************************************)
(* Facts about machine words that the proofs about the VM cite.            *)
(***************************************************************************)
EXTENDS Words, TLAPS

\* Place values are positive, so that dividing by one is defined.
LEMMA PlacePositive == \A k \in 1 .. 8 : Place[k] \in Nat \ {0}
<1> DEFINE b2 == Base * Base
           b4 == b2 * b2
<1>1. Base \in Nat \ {0}
  BY BaseAssumption
<1>2. \A x, y \in Nat \ {0} : x * y \in Nat \ {0}
  OBVIOUS
<1>3. b2 \in Nat \ {0}
  BY <1>1, <1>2
<1>4. b4 \in Nat \ {0}
  BY <1>2, <1>3
<1> HIDE DEF b2, b4
<1>5. /\ b2 * Base \in Nat \ {0} /\ b4 * Base \in Nat \ {0} /\ b4 * b2 \in Nat \ {0}
  BY <1>1, <1>2, <1>3, <1>4
<1>6. b4 * b2 * Base \in Nat \ {0}
  BY <1>1, <1>2, <1>5
<1>7. Place = <<1, Base, b2, b2 * Base, b4, b4 * Base, b4 * b2, b4 * b2 * Base>>
  BY DEF Place, b2, b4
<1> QED
  BY <1>1, <1>3, <1>4, <1>5, <1>6, <1>7

\* A conversion yields exactly the bytes of the width it converts to.
LEMMA WordBytesType ==
  ASSUME NEW v \in Int, NEW w \in 0 .. 8
  PROVE  WordBytes(v, w) \in [1 .. w -> Byte]
<1> SUFFICES ASSUME NEW k \in 1 .. w
             PROVE  (v \div Place[k]) % Base \in Byte
  BY DEF WordBytes
<1>1. Place[k] \in Nat \ {0}
  BY PlacePositive
<1>2. v \div Place[k] \in Int
  BY <1>1
<1> QED
  BY <1>2, BaseAssumption DEF Byte

\* A sequence of bytes has a value, at any length.
LEMMA ValueType ==
  ASSUME NEW word \in Seq(Byte)
  PROVE  Value(word) \in Nat
<1>1. ASSUME NEW k \in 1 .. 8
      PROVE  Digit(word, k) \in Nat
  <2>1. Place[k] \in Nat
    BY PlacePositive
  <2>2. k <= Len(word) => word[k] \in Nat
    BY BaseAssumption DEF Byte
  <2>3. \A x, y \in Nat : x * y \in Nat
    OBVIOUS
  <2> QED
    BY <2>1, <2>2, <2>3 DEF Digit
<1>2. /\ Digit(word, 1) \in Nat /\ Digit(word, 2) \in Nat
      /\ Digit(word, 3) \in Nat /\ Digit(word, 4) \in Nat
      /\ Digit(word, 5) \in Nat /\ Digit(word, 6) \in Nat
      /\ Digit(word, 7) \in Nat /\ Digit(word, 8) \in Nat
  BY <1>1
<1>3. \A a, b \in Nat : a + b \in Nat
  OBVIOUS
<1>4. Digit(word, 1) + Digit(word, 2) \in Nat
  BY <1>2, <1>3
<1>5. Digit(word, 1) + Digit(word, 2) + Digit(word, 3) \in Nat
  BY <1>2, <1>3, <1>4
<1>6. Digit(word, 1) + Digit(word, 2) + Digit(word, 3) + Digit(word, 4) \in Nat
  BY <1>2, <1>3, <1>5
<1> DEFINE low == Digit(word, 1) + Digit(word, 2) + Digit(word, 3) + Digit(word, 4)
<1>7. Value(word) = low + Digit(word, 5) + Digit(word, 6) + Digit(word, 7) + Digit(word, 8)
  BY Zenon DEF Value
<1> HIDE DEF low
<1>8. low \in Nat
  BY <1>6 DEF low
<1>9. low + Digit(word, 5) + Digit(word, 6) \in Nat
  BY <1>2, <1>3, <1>8
<1> QED
  BY <1>2, <1>3, <1>7, <1>9, SMTT(30)

\* So has its two's-complement reading, at any width the table covers.
LEMMA SignedType ==
  ASSUME NEW word \in Seq(Byte), Len(word) \in 1 .. 8
  PROVE  Signed(word) \in Int
<1>1. Place[Len(word)] \in Int
  <2>1. PICK k \in 1 .. 8 : k = Len(word)
    OBVIOUS
  <2>2. Place[k] \in Int
    BY PlacePositive, SMTT(30)
  <2> QED
    BY <2>1, <2>2
<1>2. Modulus(Len(word)) \in Int
  BY <1>1, BaseAssumption DEF Modulus
<1>3. Value(word) \in Int
  BY ValueType
<1> QED
  BY <1>2, <1>3 DEF Signed

\* Division and remainder of the program's integers are integers.
LEMMA QuotType ==
  ASSUME NEW a \in Int, NEW b \in Int, b # 0
  PROVE  Quot(a, b) \in Int /\ Rem(a, b) \in Int
<1>1. Abs(a) \in Nat /\ Abs(b) \in Nat \ {0}
  BY DEF Abs
<1>2. Abs(a) \div Abs(b) \in Int
  BY <1>1
<1>3. Quot(a, b) \in Int
  BY <1>2 DEF Quot
<1> QED
  BY <1>3 DEF Rem
=============================================================================

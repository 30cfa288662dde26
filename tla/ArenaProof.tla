----------------------------- MODULE ArenaProof -----------------------------
(***************************************************************************)
(* Proofs about Arena.  Blocks lie at aligned offsets and end at or below  *)
(* index; the next block begins at or behind index, so it shares no byte   *)
(* with an older one.  That it does not leave the region by Alignment      *)
(* bytes needs a case split: either the request fits behind the unaligned  *)
(* index (no growth), or the region has doubled and the difference that    *)
(* arena_alloc_aligned compares did not wrap.                              *)
(***************************************************************************)
EXTENDS Arena, TLAPS

\* Every block handed out ends at or below index, and starts aligned.
BlocksBehind ==
  \A b \in blocks : b.at % Alignment = 0 /\ b.at + b.len <= index

\* The conjunction the steps preserve.
Inv == TypeOK /\ BlocksBehind /\ BlocksApart
-----------------------------------------------------------------------------
(* Aligned rounds up to the next multiple of the alignment, and since      *)
(* malloc's addresses are aligned, offsets and addresses align together.   *)
LEMMA AlignedUp ==
  ASSUME ArenaAssumption, TypeOK, NEW base \in Regions
  PROVE  /\ Offset(base) = index % Alignment
         /\ Offset(base) \in 0 .. (Alignment - 1)
         /\ Aligned(base) \in Nat /\ Aligned(base) % Alignment = 0
         /\ index <= Aligned(base) /\ Aligned(base) < index + Alignment
<1>1. base \in Nat /\ base % 8 = 0 /\ index \in Nat
  BY DEF ArenaAssumption, TypeOK, Alignment
<1>2. Offset(base) = index % 8
  BY <1>1 DEF Offset, Alignment
<1>3. Aligned(base) = IF index % 8 > 0 THEN (index - (index % 8)) + 8 ELSE index
  BY <1>2 DEF Aligned, Alignment
<1> DEFINE r == index % 8
<1>4. /\ r \in 0 .. 7 /\ (index - r) % 8 = 0 /\ index - r \in Nat
  BY <1>1
<1>5. CASE r = 0
  BY <1>1, <1>2, <1>3, <1>5 DEF Alignment
<1>6. CASE r > 0
  <2>1. ((index - r) + 8) % 8 = 0
    BY <1>1, <1>4
  <2> HIDE DEF r
  <2> QED
    BY <1>1, <1>2, <1>3, <1>4, <1>6, <2>1 DEF Alignment, r
<1> QED
  BY <1>4, <1>5, <1>6

(* A granted request leaves the region by less than one alignment.         *)
LEMMA Fitted ==
  ASSUME ArenaAssumption, TypeOK, NEW n \in Requests, NEW base \in Regions,
         Asks(n), Remaining(base, n) >= n
  PROVE  Aligned(base) + n < SizeFor(n) + Alignment
<1>1. n \in Nat \ {0} /\ n + MaxSize + 16 < WordSpace /\ InitialSize >= 24
      /\ MaxSize \in Nat /\ WordSpace \in Nat /\ InitialSize \in Nat
  BY DEF ArenaAssumption, Alignment
<1>2. /\ index \in Nat /\ size \in Nat /\ size >= 24 /\ index <= size + 7
      /\ size <= MaxSize
  BY <1>1 DEF TypeOK, Alignment
<1>3. /\ Aligned(base) \in Nat /\ Aligned(base) <= index + 7
      /\ Offset(base) \in 0 .. 7
  BY <1>2, AlignedUp DEF Alignment
<1>4. CASE ~Grows(n)
  BY <1>1, <1>2, <1>3, <1>4 DEF Grows, SizeFor, Alignment
<1>5. CASE Grows(n)
  <2>1. SizeFor(n) = 2 * size
    BY <1>5 DEF SizeFor
  <2>2. Aligned(base) + Offset(base) <= 2 * size
    BY <1>2, <1>3
  <2>3. Remaining(base, n) = 2 * size - (Aligned(base) + Offset(base))
    BY <2>1, <2>2 DEF Remaining
  <2> QED
    BY <1>1, <1>2, <1>3, <2>1, <2>3 DEF Alignment
<1> QED
  BY <1>4, <1>5
-----------------------------------------------------------------------------
LEMMA Initially == ASSUME ArenaAssumption, Init PROVE Inv
BY DEF ArenaAssumption, Init, Inv, TypeOK, BlocksBehind, BlocksApart, Alignment

LEMMA SizeStays ==
  ASSUME ArenaAssumption, TypeOK, NEW n \in Requests, Asks(n)
  PROVE  SizeFor(n) \in InitialSize .. MaxSize /\ SizeFor(n) >= size
BY DEF ArenaAssumption, TypeOK, Asks, SizeFor, Alignment

LEMMA GrantKeeps ==
  ASSUME ArenaAssumption, Inv, NEW n \in Requests, Grant(n)
  PROVE  Inv'
<1> USE ArenaAssumption DEF Inv
<1>1. Asks(n) /\ size' = SizeFor(n) /\ status' = status
  BY DEF Grant
<1>2. PICK base \in RegionsFor(n) :
        /\ Remaining(base, n) >= n
        /\ region' = base
        /\ index' = Aligned(base) + n
        /\ blocks' = blocks \cup {[at |-> Aligned(base), len |-> n]}
  BY DEF Grant
<1>3. base \in Regions
  BY DEF RegionsFor, TypeOK
<1>4. /\ Aligned(base) \in Nat /\ Aligned(base) % Alignment = 0
      /\ index <= Aligned(base)
  BY <1>3, AlignedUp
<1>5. SizeFor(n) \in InitialSize .. MaxSize
  BY <1>1, SizeStays
<1>6. n \in Nat \ {0} /\ index \in Nat /\ base \in Nat /\ base % 8 = 0
  BY <1>3 DEF ArenaAssumption, TypeOK, Alignment
<1>7. index' < SizeFor(n) + Alignment
  BY <1>1, <1>2, <1>3, Fitted
<1>8. TypeOK'
  <2>1. index' \in 0 .. (size' + Alignment - 1)
    BY <1>1, <1>2, <1>4, <1>5, <1>6, <1>7 DEF ArenaAssumption, Alignment
  <2>2. blocks' \subseteq Block
    BY <1>2, <1>4, <1>6 DEF TypeOK, Block
  <2> QED
    BY <1>1, <1>2, <1>3, <1>5, <2>1, <2>2 DEF TypeOK
<1>9. BlocksBehind'
  <2> SUFFICES ASSUME NEW b \in blocks'
               PROVE  b.at % Alignment = 0 /\ b.at + b.len <= index'
    BY DEF BlocksBehind
  <2>1. CASE b \in blocks
    BY <1>2, <1>4, <1>6, <2>1 DEF BlocksBehind, TypeOK, Block
  <2>2. CASE b = [at |-> Aligned(base), len |-> n]
    BY <1>2, <1>4, <1>6, <2>2
  <2> QED
    BY <1>2, <2>1, <2>2
<1>10. BlocksApart'
  <2>1. ASSUME NEW b \in blocks'
        PROVE  (region' + b.at) % Alignment = 0
    <3>1. b.at % 8 = 0 /\ b.at \in Nat
      BY <1>8, <1>9, <2>1 DEF BlocksBehind, TypeOK, Block, Alignment
    <3> QED
      BY <1>2, <1>6, <3>1 DEF Alignment
  <2>2. ASSUME NEW a \in blocks', NEW b \in blocks', a # b
        PROVE  a.at + a.len <= b.at \/ b.at + b.len <= a.at
    <3> DEFINE new == [at |-> Aligned(base), len |-> n]
    <3>1. CASE a \in blocks /\ b \in blocks
      BY <2>2, <3>1 DEF BlocksApart
    <3>2. ASSUME NEW c \in blocks
          PROVE  c.at + c.len <= new.at
      BY <1>4, <1>6, <3>2 DEF BlocksBehind, TypeOK, Block
    <3>3. CASE a = new
      BY <1>2, <2>2, <3>2, <3>3
    <3>4. CASE b = new
      BY <1>2, <2>2, <3>2, <3>4
    <3> QED
      BY <1>2, <3>1, <3>3, <3>4
  <2> QED
    BY <2>1, <2>2 DEF BlocksApart
<1> QED
  BY <1>8, <1>9, <1>10

(* A refused request leaves index aligned: that may be behind the region,  *)
(* but not behind what the index may be at all.                            *)
LEMMA RefuseKeeps ==
  ASSUME ArenaAssumption, Inv, NEW n \in Requests, Refuse(n)
  PROVE  Inv'
<1> USE ArenaAssumption DEF Inv
<1>1. Asks(n) /\ size' = SizeFor(n) /\ status' = "assert" /\ blocks' = blocks
  BY DEF Refuse
<1>2. PICK base \in RegionsFor(n) :
        Remaining(base, n) < n /\ region' = base /\ index' = Aligned(base)
  BY DEF Refuse
<1>3. base \in Regions
  BY DEF RegionsFor, TypeOK
<1>4. /\ Aligned(base) \in Nat /\ index <= Aligned(base)
      /\ Aligned(base) < index + Alignment /\ Offset(base) \in 0 .. (Alignment - 1)
  BY <1>3, AlignedUp
<1>5. SizeFor(n) \in InitialSize .. MaxSize /\ SizeFor(n) >= size
  BY <1>1, SizeStays
<1>6. n \in Nat \ {0} /\ index \in Nat /\ base \in Nat /\ base % 8 = 0 /\ size \in Nat
      /\ size >= 24 /\ index <= size + 7
  BY <1>3 DEF ArenaAssumption, TypeOK, Alignment
<1>7. Aligned(base) <= SizeFor(n) + 7
  <2>1. CASE Grows(n)
    BY <1>4, <1>6, <2>1 DEF SizeFor, Alignment
  <2>2. CASE ~Grows(n)
    BY <1>4, <1>6, <2>2 DEF SizeFor, Grows, Alignment
  <2> QED
    BY <2>1, <2>2
<1>8. TypeOK'
  BY <1>1, <1>2, <1>3, <1>4, <1>5, <1>6, <1>7 DEF TypeOK, ArenaAssumption, Alignment
<1>9. BlocksBehind'
  BY <1>1, <1>2, <1>4, <1>6 DEF BlocksBehind, TypeOK, Block
<1>10. BlocksApart'
  <2>1. ASSUME NEW b \in blocks
        PROVE  (base + b.at) % 8 = 0
    BY <1>6, <2>1 DEF BlocksBehind, TypeOK, Block, Alignment
  <2> QED
    BY <1>1, <1>2, <2>1 DEF BlocksApart, Alignment
<1> QED
  BY <1>8, <1>9, <1>10

LEMMA StepKeeps ==
  ASSUME ArenaAssumption, Inv, [Next]_vars
  PROVE  Inv'
<1>1. ASSUME NEW n \in Requests, Grant(n) PROVE Inv'
  BY <1>1, GrantKeeps
<1>2. ASSUME NEW n \in Requests, Refuse(n) PROVE Inv'
  BY <1>2, RefuseKeeps
<1>3. ASSUME NEW n \in Requests, OutOfMemory(n) PROVE Inv'
  BY <1>3 DEF OutOfMemory, Inv, TypeOK, BlocksBehind, BlocksApart
<1>4. CASE UNCHANGED vars
  BY <1>4 DEF vars, Inv, TypeOK, BlocksBehind, BlocksApart
<1> QED
  BY <1>1, <1>2, <1>3, <1>4 DEF Next

THEOREM Invariance == Spec => []Inv
<1>1. Init => Inv
  BY ArenaAssumption, Initially
<1>2. Inv /\ [Next]_vars => Inv'
  BY ArenaAssumption, StepKeeps
<1> QED
  BY <1>1, <1>2, PTL DEF Spec
-----------------------------------------------------------------------------
(* The region stays between its first size and the limit, and index leaves *)
(* it by less than one alignment, also when a request is refused           *)
(* (_arena_xalloc).                                                        *)
THEOREM TypeCorrect == Spec => []TypeOK
<1>1. Inv => TypeOK
  BY DEF Inv
<1> QED
  BY <1>1, Invariance, PTL

(* No two allocations of the loader share a byte, and each is aligned,     *)
(* whatever was asked for and wherever the region moved                    *)
(* (arena_alloc_aligned, arena_expand).                                    *)
THEOREM Apart == Spec => []BlocksApart
<1>1. Inv => BlocksApart
  BY DEF Inv
<1> QED
  BY <1>1, Invariance, PTL

(* A block leaves the region by less than one alignment, for every region  *)
(* of 24 bytes or more: the wrapped difference in arena_alloc_aligned does *)
(* not grant anything larger.                                              *)
THEOREM Overshoot == Spec => []OvershootBounded
<1>1. Inv => OvershootBounded
  BY ArenaAssumption DEF Inv, TypeOK, BlocksBehind, OvershootBounded, Block, Alignment,
     ArenaAssumption
<1> QED
  BY <1>1, Invariance, PTL
=============================================================================

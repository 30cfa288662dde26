------------------------------- MODULE Words -------------------------------
(***************************************************************************)
(* The machine words of the assembler: what the C types unsigned long,    *)
(* int, char and the int8_t/int32_t/int64_t of ass.c are on the machine    *)
(* the program is built for.  A word is a sequence of bytes, lowest first  *)
(* (memcpy from the literal union in push_stack copies the low bytes, so   *)
(* the byte order shows), read as an unsigned or a two's-complement        *)
(* number; results wrap at the width.                                      *)
(***************************************************************************)
EXTENDS Integers, Sequences

CONSTANT Base       \* how many values a byte has: 256, or a few for TLC

ASSUME BaseAssumption == Base \in Nat /\ Base >= 2

Byte == 0 .. (Base - 1)

MaxWidth == 8       \* sizeof(unsigned long)

\* The weight of the k-th byte of a word.
Place ==
  LET b2 == Base * Base
      b4 == b2 * b2
  IN  <<1, Base, b2, b2 * Base, b4, b4 * Base, b4 * b2, b4 * b2 * Base>>

\* The w low bytes of v: conversion to a w-byte type, overflow included.
WordBytes(v, w) == [k \in 1 .. w |-> (v \div Place[k]) % Base]

Digit(word, k) == IF k <= Len(word) THEN word[k] * Place[k] ELSE 0

\* A word read as an unsigned number.
Value(word) ==
  Digit(word, 1) + Digit(word, 2) + Digit(word, 3) + Digit(word, 4) +
  Digit(word, 5) + Digit(word, 6) + Digit(word, 7) + Digit(word, 8)

Modulus(w) == Place[w] * Base

\* A word read as a two's-complement number.
Signed(word) ==
  IF 2 * Value(word) >= Modulus(Len(word))
  THEN Value(word) - Modulus(Len(word))
  ELSE Value(word)

LeastInt(w) == -(Modulus(w) \div 2)

Abs(a) == IF a < 0 THEN -a ELSE a

\* C's division truncates towards zero, TLA+'s rounds down.
Quot(a, b) ==
  IF (a < 0) = (b < 0) THEN Abs(a) \div Abs(b) ELSE -(Abs(a) \div Abs(b))

Rem(a, b) == a - b * Quot(a, b)
=============================================================================

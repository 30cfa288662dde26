-------------------------------- MODULE Arena -------------------------------
(***************************************************************************)
(* The arena in bytes: _arena_xalloc of ass.c over arena_alloc_aligned and *)
(* arena_expand of arena.h, as every node, name and message of the loader  *)
(* is allocated.  Blocks are known by their offsets, which survive a move  *)
(* of the region; the region itself is an address, since alignment is of   *)
(* addresses.                                                              *)
(***************************************************************************)
EXTENDS Integers, FiniteSets

CONSTANTS
  InitialSize,   \* bytes of the region (arena_create in main)
  MaxSize,       \* bytes beyond which realloc fails
  Requests,      \* the sizes asked for
  Regions,       \* the addresses malloc and realloc return
  WordSpace      \* size_t subtraction wraps at this

Alignment == 8   \* ARENA_DEFAULT_ALIGNMENT, sizeof(size_t)

ASSUME ArenaAssumption ==
  /\ InitialSize \in Nat /\ InitialSize >= 3 * Alignment   \* 32768 in main
  /\ MaxSize \in Nat /\ InitialSize <= MaxSize
  /\ Requests \subseteq Nat \ {0}
  /\ Regions \subseteq Nat /\ \A base \in Regions : base % Alignment = 0
  /\ WordSpace \in Nat
  /\ \A n \in Requests : n + MaxSize + 2 * Alignment < WordSpace

VARIABLES
  region,        \* Arena.region
  index,         \* Arena.index
  size,          \* Arena.size
  blocks,        \* what has been handed out
  status         \* "running", or how the process ended

vars == <<region, index, size, blocks, status>>

Init ==
  /\ region \in Regions
  /\ index = 0 /\ size = InitialSize
  /\ blocks = {}
  /\ status = "running"
-----------------------------------------------------------------------------
\* Variant: only an index beyond the region makes it grow.
GrowsBehind(n) == index > size

Grows(n) == index + n > size

SizeFor(n) == IF Grows(n) THEN 2 * size ELSE size

\* arena_expand may move the region.
RegionsFor(n) == IF Grows(n) THEN Regions ELSE {region}

\* How far the next free byte is behind an aligned address.
Offset(base) == (base + index) % Alignment

\* Variant: down to the aligned address below.
AlignedDown(base) == index - Offset(base)

Aligned(base) ==
  IF Offset(base) > 0 THEN index - Offset(base) + Alignment ELSE index

\* The unsigned difference arena_alloc_aligned compares with the request.
\* It takes the offset off a second time.
Remaining(base, n) ==
  LET used == Aligned(base) + Offset(base)
  IN  IF used <= SizeFor(n) THEN SizeFor(n) - used ELSE WordSpace + SizeFor(n) - used

Asks(n) == status = "running" /\ (Grows(n) => 2 * size <= MaxSize)

\* _arena_xalloc returns a block.
Grant(n) ==
  /\ Asks(n)
  /\ \E base \in RegionsFor(n) :
       /\ Remaining(base, n) >= n
       /\ region' = base
       /\ index' = Aligned(base) + n
       /\ blocks' = blocks \cup {[at |-> Aligned(base), len |-> n]}
  /\ size' = SizeFor(n)
  /\ UNCHANGED status

\* arena_alloc returns NULL, and assert(block) ends the program.
Refuse(n) ==
  /\ Asks(n)
  /\ \E base \in RegionsFor(n) :
       /\ Remaining(base, n) < n
       /\ region' = base
       /\ index' = Aligned(base)
  /\ size' = SizeFor(n)
  /\ status' = "assert"
  /\ UNCHANGED blocks

\* arena_expand fails.
OutOfMemory(n) ==
  /\ status = "running"
  /\ Grows(n) /\ 2 * size > MaxSize
  /\ status' = "abort"
  /\ UNCHANGED <<region, index, size, blocks>>

Next == \E n \in Requests : Grant(n) \/ Refuse(n) \/ OutOfMemory(n)

Spec == Init /\ [][Next]_vars
-----------------------------------------------------------------------------
(* Properties.                                                             *)

Block == [at : Nat, len : Nat \ {0}]

TypeOK ==
  /\ region \in Regions
  /\ index \in 0 .. (size + Alignment - 1) /\ size \in InitialSize .. MaxSize
  /\ blocks \subseteq Block
  /\ status \in {"running", "assert", "abort"}

\* No two allocations of the loader share a byte and each starts at an
\* aligned address, though the region moves and index is rounded up from
\* whatever the last string left.
BlocksApart ==
  /\ \A b \in blocks : (region + b.at) % Alignment = 0
  /\ \A a, b \in blocks : a # b => a.at + a.len <= b.at \/ b.at + b.len <= a.at

\* However full the region is, a block that leaves it does so by less than
\* one alignment: the wrapped difference lets no larger request through.
OvershootBounded ==
  \A b \in blocks : b.at + b.len < size + Alignment

\* arena.h:331 of arena_alloc: "Return a pointer to a portion of specified
\* size of the specified arena's region", and arena.h:348: "Pointer to arena
\* region segment on success, NULL on failure".
BlocksInside ==
  \A b \in blocks : b.at + b.len <= size
=============================================================================

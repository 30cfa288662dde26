------------------------------ MODULE VMProof -------------------------------
(***************************************************************************)
(* The invariants of the bytecode machine, for every program, every stack  *)
(* size and every width of the words.                                      *)
(***************************************************************************)
EXTENDS VM, WordsProof, TLAPS

\* The inductive invariant.  TypeOK alone is not inductive: a ret loads pc
\* from the return stack, at the slot its frame's rsp names.
Inv == TypeOK /\ FrameChain /\ ReturnsBehindCalls

-----------------------------------------------------------------------------
(* What the operators of the model return.                                 *)

LEMMA SizeType == \A ty : Size(ty) \in 1 .. 8
BY SizeAssumption DEF Size, MaxWidth

LEMMA SlotsType == RETURN_SLOTS \in Nat
BY SizeAssumption DEF RETURN_SLOTS, MaxWidth

LEMMA AddrType == \A a \in FrameAddr : a \in Nat
BY MemoryAssumption

LEMMA InstType ==
  ASSUME TypeOK, Fetch
  PROVE  /\ Inst \in Instruction
         /\ pc + 1 \in 1 .. Len(prog)
         /\ Inst.kind \in JumpKinds => pc + 1 + Inst.offset \in 0 .. Len(prog)
<1>1. /\ prog \in Seq(Instruction) /\ WellFormed(prog)
      /\ pc \in 0 .. Len(prog) /\ pc < Len(prog)
  BY DEF TypeOK, Fetch
<1>2. pc + 1 \in 1 .. Len(prog)
  BY <1>1
<1>3. prog[pc + 1] \in Instruction
  BY <1>1, <1>2
<1>4. prog[pc + 1].kind \in JumpKinds => pc + 1 + prog[pc + 1].offset \in 0 .. Len(prog)
  BY <1>1, <1>2 DEF WellFormed
<1> QED
  BY <1>2, <1>3, <1>4 DEF Inst

LEMMA TopType ==
  ASSUME TypeOK
  PROVE  /\ Len(frames) \in Nat \ {0}
         /\ Top \in Frame
         /\ Top.ptr \in StackIndex
<1>1. frames \in Seq(Frame) /\ Len(frames) >= 1
  BY DEF TypeOK
<1>2. Len(frames) \in Nat \ {0}
  BY <1>1
<1>3. frames[Len(frames)] \in Frame
  BY <1>1, <1>2
<1> QED
  BY <1>2, <1>3 DEF Top, Frame

\* Moving ptr inside the stack leaves a frame a frame.
LEMMA MovedFrame ==
  ASSUME NEW f \in Frame, NEW p \in StackIndex
  PROVE  /\ [f EXCEPT !.ptr = p] \in Frame
         /\ [f EXCEPT !.ptr = p].ptr = p
         /\ [f EXCEPT !.ptr = p].rsp = f.rsp
         /\ [f EXCEPT !.ptr = p].start = f.start
         /\ [f EXCEPT !.ptr = p].addr = f.addr
BY DEF Frame

\* The stack motions of an instruction are sizes.
LEMMA MotionType ==
  ASSUME NEW i \in Instruction
  PROVE  Pops(i) \in Nat /\ Peeks(i) \in Nat
<1>1. Size(i.ty) \in 1 .. 8 /\ SIZE64 \in 1 .. 8 /\ i.n \in Nat
  BY SizeType, SizeAssumption DEF Instruction, MaxWidth
<1> QED
  BY <1>1 DEF Pops, Peeks

LEMMA SliceType ==
  ASSUME TypeOK, NEW base \in Nat, NEW n \in Nat, base + n <= STACK_SIZE
  PROVE  Slice(base, n) \in Seq(Byte) /\ Len(Slice(base, n)) = n
<1>1. \A k \in 1 .. n : base + k - 1 \in StackIndex
  BY SizeAssumption DEF StackIndex
<1>2. \A k \in 1 .. n : stack[base + k - 1] \in Byte
  BY <1>1 DEF TypeOK
<1>3. Slice(base, n) \in [1 .. n -> Byte]
  BY <1>2 DEF Slice
<1> QED
  BY <1>3

LEMMA OverwriteType ==
  ASSUME TypeOK, NEW base \in Nat, NEW bytes \in Seq(Byte)
  PROVE  Overwrite(base, bytes) \in [StackIndex -> Byte]
<1>1. ASSUME NEW k \in StackIndex, k \in base .. (base + Len(bytes) - 1)
      PROVE  bytes[k - base + 1] \in Byte
  <2>1. k - base + 1 \in 1 .. Len(bytes)
    BY <1>1, SizeAssumption DEF StackIndex
  <2> QED
    BY <2>1
<1>2. \A k \in StackIndex : stack[k] \in Byte
  BY DEF TypeOK
<1> QED
  BY <1>1, <1>2 DEF Overwrite
-----------------------------------------------------------------------------
(* A step that keeps the number of frames and the pointers that link them  *)
(* to the return stack keeps the two call records in agreement.            *)

LEMMA SameLinks ==
  ASSUME Inv, frames' \in Seq(Frame), Len(frames') = Len(frames),
         \A d \in 1 .. Len(frames) :
           /\ frames'[d].rsp = frames[d].rsp
           /\ frames'[d].start = frames[d].start
           /\ frames'[d].addr = frames[d].addr,
         UNCHANGED <<prog, return_stack>>
  PROVE  FrameChain' /\ ReturnsBehindCalls'
<1>1. Len(frames) \in Nat
  BY DEF Inv, TypeOK
<1>2. FrameChain'
  BY <1>1 DEF Inv, FrameChain
<1>3. ReturnsBehindCalls'
  BY <1>1 DEF Inv, ReturnsBehindCalls
<1> QED
  BY <1>2, <1>3

\* Rewrite is the whole effect of a handler that only moves bytes.
LEMMA RewriteKeepsInv ==
  ASSUME Inv, Fetch, Pops(Inst) <= Top.ptr, NEW bytes \in Seq(Byte), Rewrite(bytes)
  PROVE  Inv'
<1> DEFINE base == Top.ptr - Pops(Inst)
<1>1. TypeOK /\ Inst \in Instruction /\ Pops(Inst) \in Nat
  BY InstType, MotionType DEF Inv
<1>2. base \in Nat /\ base + Len(bytes) \in StackIndex
  BY <1>1, TopType, SizeAssumption DEF Rewrite, Fits, StackIndex
<1>3. stack' \in [StackIndex -> Byte]
  BY <1>1, <1>2, OverwriteType DEF Rewrite
<1>4. /\ frames' = [frames EXCEPT ![Len(frames)].ptr = base + Len(bytes)]
      /\ UNCHANGED <<prog, return_stack, data, status>>
      /\ pc' = pc + 1
  BY DEF Rewrite, Continue
<1> HIDE DEF base
<1>5. /\ frames' \in Seq(Frame) /\ Len(frames') = Len(frames)
      /\ \A d \in 1 .. Len(frames) :
           /\ frames'[d].rsp = frames[d].rsp
           /\ frames'[d].start = frames[d].start
           /\ frames'[d].addr = frames[d].addr
  <2>1. frames \in [1 .. Len(frames) -> Frame] /\ Len(frames) \in Nat \ {0}
    BY <1>1 DEF TypeOK
  <2>2. [frames[Len(frames)] EXCEPT !.ptr = base + Len(bytes)] \in Frame
    BY <1>2, <2>1, MovedFrame
  <2>3. frames' = [frames EXCEPT ![Len(frames)] =
                     [frames[Len(frames)] EXCEPT !.ptr = base + Len(bytes)]]
    BY <1>4
  <2>4. frames' \in [1 .. Len(frames) -> Frame]
    BY <2>1, <2>2, <2>3
  <2>5. frames' \in Seq(Frame) /\ Len(frames') = Len(frames)
    BY <2>1, <2>4
  <2> QED
    BY <1>2, <2>1, <2>3, <2>5, MovedFrame
<1>6. pc' \in 0 .. Len(prog')
  BY <1>1, <1>4, InstType
<1>7. TypeOK'
  BY <1>1, <1>3, <1>4, <1>5, <1>6 DEF TypeOK, WellFormed
<1>8. FrameChain' /\ ReturnsBehindCalls'
  BY <1>4, <1>5, SameLinks
<1> QED
  BY <1>7, <1>8 DEF Inv
-----------------------------------------------------------------------------
(* The bytes the handlers push.                                            *)

LEMMA WordSeq ==
  ASSUME NEW v \in Int, NEW w \in 1 .. 8
  PROVE  WordBytes(v, w) \in Seq(Byte)
<1>1. w \in 0 .. 8
  OBVIOUS
<1>2. WordBytes(v, w) \in [1 .. w -> Byte]
  BY <1>1, WordBytesType
<1> QED
  BY <1>2

\* An operand the handler has made sure of is a word of its size.
LEMMA OperandType ==
  ASSUME TypeOK, NEW n \in 1 .. 8, NEW k \in 1 .. 2, k * n <= Top.ptr
  PROVE  Operand(k, n) \in Seq(Byte) /\ Len(Operand(k, n)) = n
<1>1. Top.ptr \in Nat /\ Top.ptr < STACK_SIZE
  BY TopType, SizeAssumption DEF StackIndex
<1>2. PICK depth \in Int : depth = k * n
  OBVIOUS
<1>3. n <= depth
  BY <1>2
<1>4. Top.ptr - depth \in Nat /\ (Top.ptr - depth) + n <= STACK_SIZE
  BY <1>1, <1>2, <1>3, SizeAssumption
<1>5. Operand(k, n) = Slice(Top.ptr - depth, n)
  BY <1>2 DEF Operand
<1> QED
  BY <1>4, <1>5, SliceType

LEMMA TopOperandType ==
  ASSUME TypeOK, NEW n \in 1 .. 8, n <= Top.ptr
  PROVE  Operand(1, n) \in Seq(Byte) /\ Len(Operand(1, n)) = n
<1>1. 1 \in 1 .. 2 /\ 1 * n = n
  OBVIOUS
<1> QED
  BY <1>1, OperandType

LEMMA OperandNumber ==
  ASSUME TypeOK, NEW ty \in Types, NEW k \in 1 .. 2, k * Size(ty) <= Top.ptr
  PROVE  Number(ty, Operand(k, Size(ty))) \in Int
<1>1. Size(ty) \in 1 .. 8
  BY SizeType
<1>2. Operand(k, Size(ty)) \in Seq(Byte) /\ Len(Operand(k, Size(ty))) \in 1 .. 8
  BY <1>1, OperandType
<1>3. Value(Operand(k, Size(ty))) \in Int /\ Signed(Operand(k, Size(ty))) \in Int
  BY <1>2, ValueType, SignedType
<1> QED
  BY <1>3 DEF Number

\* The operand of type and kind that a checked handler of two reads.
LEMMA TwoOperands ==
  ASSUME TypeOK, Ready(ArithKinds \cup CompareKinds \cup {"swap"})
  PROVE  2 * Size(Inst.ty) <= Top.ptr /\ 1 * Size(Inst.ty) <= Top.ptr
<1>1. Size(Inst.ty) \in 1 .. 8
  BY SizeType
<1>2. Pops(Inst) = 2 * Size(Inst.ty) \/ Peeks(Inst) = 2 * Size(Inst.ty)
  BY DEF Ready, Pops, Peeks, ArithKinds, CompareKinds
<1>3. 2 * Size(Inst.ty) <= Top.ptr
  BY <1>2 DEF Ready
<1>4. Top.ptr \in Nat
  BY TopType DEF StackIndex
<1> QED
  BY <1>1, <1>3, <1>4

LEMMA ArithBytes ==
  ASSUME TypeOK, Ready(ArithKinds), ~Traps, NEW word \in ArithResults
  PROVE  word \in Seq(Byte)
<1>1. Inst \in Instruction /\ Inst.ty \in Types /\ Size(Inst.ty) \in 1 .. 8
  BY InstType, SizeType DEF Ready, Instruction
<1>2. CASE Inst.ty = "F"
  BY <1>2, SizeAssumption DEF ArithResults, MaxWidth
<1>3. CASE Inst.ty # "F"
  <2>1. Lhs \in Int /\ Rhs \in Int
    BY <1>1, TwoOperands, OperandNumber DEF Lhs, Rhs, Ready
  <2>2. Inst.kind \in {"div", "mod"} => Rhs # 0
    BY <1>3 DEF Traps
  <2>3. Inst.kind \in {"div", "mod"} => Quot(Lhs, Rhs) \in Int /\ Rem(Lhs, Rhs) \in Int
    BY <2>1, <2>2, QuotType
  <2>4. Inst.kind \in {"add", "sub", "mult", "div", "mod"}
    BY DEF Ready, ArithKinds
  <2>5. Combined \in Int
    BY <2>1, <2>3, <2>4 DEF Combined
  <2> QED
    BY <1>1, <1>3, <2>5, WordSeq DEF ArithResults
<1> QED
  BY <1>2, <1>3

LEMMA CompareBytes ==
  ASSUME NEW bool \in CompareResults
  PROVE  <<bool>> \in Seq(Byte)
<1>1. bool \in Byte
  BY BaseAssumption DEF CompareResults, Byte
<1> QED
  BY <1>1

LEMMA CopyBytes ==
  ASSUME TypeOK, Ready({"copy"})
  PROVE  [k \in 1 .. (Inst.n * Size(Inst.ty)) |->
            Operand(1, Size(Inst.ty))[((k - 1) % Size(Inst.ty)) + 1]] \in Seq(Byte)
<1> DEFINE size == Size(Inst.ty)
           word == Operand(1, size)
           total == Inst.n * size
<1>1. Inst \in Instruction /\ Inst.n \in Nat /\ size \in 1 .. 8
  BY InstType, SizeType DEF Ready, Instruction
<1>2. size <= Top.ptr
  BY <1>1 DEF Ready, Peeks, ArithKinds, CompareKinds
<1> HIDE DEF size
<1>3. word \in Seq(Byte) /\ Len(word) = size
  BY <1>1, <1>2, TopOperandType
<1>4. total \in Nat
  BY <1>1
<1> HIDE DEF word, total
<1>5. \A k \in 1 .. total : ((k - 1) % size) + 1 \in 1 .. size
  BY <1>1, <1>4
<1>6. \A k \in 1 .. total : word[((k - 1) % size) + 1] \in Byte
  BY <1>3, <1>5
<1>7. [k \in 1 .. total |-> word[((k - 1) % size) + 1]] \in [1 .. total -> Byte]
  BY <1>6
<1> QED
  BY <1>4, <1>7 DEF size, word, total

LEMMA LocalBytes ==
  ASSUME TypeOK, Fetch, InLocals
  PROVE  [k \in 1 .. Size(Inst.ty) |-> Top.locals[Inst.n + k - 1]] \in Seq(Byte)
<1>1. Inst \in Instruction /\ Inst.n \in Nat /\ Size(Inst.ty) \in 1 .. 8
  BY InstType, SizeType DEF Instruction
<1>2. Top.locals \in [LocalIndex -> Byte]
  BY TopType DEF Frame
<1>3. \A k \in 1 .. Size(Inst.ty) : Inst.n + k - 1 \in LocalIndex
  BY <1>1, SizeAssumption DEF InLocals, LocalIndex
<1>4. \A k \in 1 .. Size(Inst.ty) : Top.locals[Inst.n + k - 1] \in Byte
  BY <1>2, <1>3
<1> QED
  BY <1>1, <1>4

\* A mapped address holds a byte, of the data or of some live frame.
LEMMA LoadType ==
  ASSUME TypeOK, NEW a \in Nat, Mapped(a)
  PROVE  Load(a) \in Byte
<1>1. CASE a \in DataAddr
  BY <1>1 DEF TypeOK, Load
<1>2. CASE a \notin DataAddr
  <2> DEFINE d == CHOOSE d \in 1 .. Len(frames) : Owns(frames[d], a)
  <2>1. \E e \in 1 .. Len(frames) : Owns(frames[e], a)
    BY <1>2 DEF Mapped
  <2>2. d \in 1 .. Len(frames) /\ Owns(frames[d], a)
    BY <2>1
  <2>3. Load(a) = frames[d].locals[a - frames[d].addr]
    BY <1>2 DEF Load
  <2> HIDE DEF d
  <2>4. frames[d] \in Frame
    BY <2>2 DEF TypeOK
  <2>5. frames[d].addr \in Nat /\ frames[d].locals \in [LocalIndex -> Byte]
    BY <2>4, MemoryAssumption DEF Frame
  <2>6. a - frames[d].addr \in LocalIndex
    BY <2>2, <2>5, SizeAssumption DEF Owns, LocalRange, LocalIndex
  <2> QED
    BY <2>3, <2>5, <2>6
<1> QED
  BY <1>1, <1>2

LEMMA PointerType ==
  ASSUME TypeOK, Ready({"pderef", "pset"})
  PROVE  Pointer \in Nat
<1>1. SIZE64 \in 1 .. 8 /\ Size(Inst.ty) \in 1 .. 8
  BY SizeAssumption, SizeType DEF MaxWidth
<1>2. Pops(Inst) >= SIZE64
  BY <1>1 DEF Ready, Pops, ArithKinds
<1>3. SIZE64 <= Top.ptr
  BY <1>1, <1>2, InstType, MotionType, TopType, SizeAssumption DEF Ready, StackIndex
<1>4. Operand(1, SIZE64) \in Seq(Byte)
  BY <1>1, <1>3, TopOperandType
<1> QED
  BY <1>4, ValueType DEF Pointer

LEMMA PderefBytes ==
  ASSUME TypeOK, Ready({"pderef"}), Accessible(Pointer, Size(Inst.ty))
  PROVE  [k \in 1 .. Size(Inst.ty) |-> Load(Pointer + k - 1)] \in Seq(Byte)
<1>1. Pointer \in Nat /\ Size(Inst.ty) \in 1 .. 8
  BY PointerType, SizeType DEF Ready
<1>2. \A k \in 1 .. Size(Inst.ty) : Pointer + k - 1 \in Nat /\ Mapped(Pointer + k - 1)
  <2> SUFFICES ASSUME NEW k \in 1 .. Size(Inst.ty)
               PROVE  Pointer + k - 1 \in Nat /\ Mapped(Pointer + k - 1)
    OBVIOUS
  <2>1. k - 1 \in 0 .. (Size(Inst.ty) - 1) /\ Pointer + k - 1 = Pointer + (k - 1)
    BY <1>1
  <2> QED
    BY <1>1, <2>1 DEF Accessible
<1>3. \A k \in 1 .. Size(Inst.ty) : Load(Pointer + k - 1) \in Byte
  BY <1>2, LoadType
<1> QED
  BY <1>1, <1>3
-----------------------------------------------------------------------------
(* Every step keeps the invariant.                                         *)

LEMMA ReadyFacts ==
  ASSUME Inv, NEW kinds, Ready(kinds)
  PROVE  /\ TypeOK /\ Fetch /\ Inst \in Instruction /\ Inst.ty \in Types /\ Inst.kind \in kinds
         /\ Pops(Inst) \in Nat /\ Pops(Inst) <= Top.ptr /\ Peeks(Inst) <= Top.ptr
         /\ Top.ptr \in Nat /\ Top.ptr < STACK_SIZE
         /\ Size(Inst.ty) \in 1 .. 8
         /\ pc + 1 \in 1 .. Len(prog)
<1>1. TypeOK /\ Fetch /\ Inst.kind \in kinds /\ Pops(Inst) <= Top.ptr /\ Peeks(Inst) <= Top.ptr
  BY DEF Inv, Ready
<1>2. Inst \in Instruction /\ pc + 1 \in 1 .. Len(prog)
  BY <1>1, InstType
<1>3. Pops(Inst) \in Nat /\ Size(Inst.ty) \in 1 .. 8 /\ Inst.ty \in Types
  BY <1>2, MotionType, SizeType DEF Instruction
<1>4. Top.ptr \in Nat /\ Top.ptr < STACK_SIZE
  BY <1>1, TopType, SizeAssumption DEF StackIndex
<1> QED
  BY <1>1, <1>2, <1>3, <1>4

LEMMA StopKeepsInv ==
  ASSUME Inv, NEW how \in {"halted", "panic"} \cup Faults, Stop(how)
  PROVE  Inv'
BY DEF Stop, Inv, TypeOK, FrameChain, ReturnsBehindCalls, WellFormed

LEMMA AbortKeepsInv ==
  ASSUME Inv, Abort \/ Halt
  PROVE  Inv'
<1>1. \E how \in {"halted", "panic"} \cup Faults : Stop(how)
  BY DEF Abort, Halt, OperandFault, StackOverflow, Trap, LocalsFault, WildPointer,
         OutOfMemory, ReturnStackFault, ArgumentsFault, RetOverflow, NullFrame, Faults
<1> QED
  BY <1>1, StopKeepsInv

LEMMA EmptyStackKeepsInv ==
  ASSUME Inv, EmptyStack
  PROVE  Inv'
<1>1. pc + 1 \in 1 .. Len(prog)
  BY InstType DEF Inv, EmptyStack
<1>2. /\ pc' = pc + 1
      /\ UNCHANGED <<prog, stack, frames, return_stack, data, status>>
  BY DEF EmptyStack, Continue
<1>3. TypeOK'
  BY <1>1, <1>2 DEF Inv, TypeOK
<1>4. FrameChain'
  BY <1>2 DEF Inv, FrameChain
<1>5. ReturnsBehindCalls'
  BY <1>2 DEF Inv, ReturnsBehindCalls
<1> QED
  BY <1>3, <1>4, <1>5 DEF Inv

\* The handlers of Shuffle push bytes, with their operands found.
LEMMA ShuffleRewrites ==
  ASSUME Inv, Shuffle
  PROVE  \E bytes \in Seq(Byte) :
           Fetch /\ ~Starved /\ Pops(Inst) <= Top.ptr /\ Rewrite(bytes)
<1>0. TypeOK /\ SIZE64 \in 1 .. 8
  BY SizeAssumption DEF Inv, MaxWidth
<1>1. CASE Push
  <2>1. Inst.val \in Int /\ Size(Inst.ty) \in 1 .. 8
    BY <1>1, ReadyFacts DEF Push, Instruction
  <2>2. WordBytes(Inst.val, Size(Inst.ty)) \in Seq(Byte)
    BY <2>1, WordSeq
  <2> QED
    BY <1>1, <2>2 DEF Push, Ready
<1>2. CASE Ppush
  <2>1. Inst.val \in Int
    BY <1>2, ReadyFacts DEF Ppush, Instruction
  <2>2. WordBytes(Inst.val, SIZE64) \in Seq(Byte)
    BY <1>0, <2>1, WordSeq
  <2> QED
    BY <1>2, <2>2 DEF Ppush, Ready
<1>3. CASE Pload
  <2>1. Inst.n \in Int
    BY <1>3, ReadyFacts DEF Pload, Instruction
  <2>2. Top.addr + Inst.n \in Int
    <3>1. Top.addr \in FrameAddr
      BY <1>0, TopType DEF Frame
    <3>2. Top.addr \in Int
      BY <3>1, AddrType
    <3> QED
      BY <2>1, <3>2
  <2>3. WordBytes(Inst.n, SIZE64) \in Seq(Byte) /\ WordBytes(Top.addr + Inst.n, SIZE64) \in Seq(Byte)
    BY <1>0, <2>1, <2>2, WordSeq
  <2>4. WordBytes(Inst.n, SIZE64) \o WordBytes(Top.addr + Inst.n, SIZE64) \in Seq(Byte)
    BY <2>3
  <2> QED
    BY <1>3, <2>4 DEF Pload, Ready
<1>4. CASE Arith
  <2>1. Ready(ArithKinds) /\ ~Traps
    BY <1>4 DEF Arith
  <2>2. PICK word \in ArithResults : Rewrite(word)
    BY <1>4 DEF Arith
  <2>3. word \in Seq(Byte)
    BY <1>0, <2>1, ArithBytes
  <2> QED
    BY <2>1, <2>2, <2>3 DEF Ready
<1>5. CASE Compare
  <2>1. PICK bool \in CompareResults : Rewrite(<<bool>>)
    BY <1>5 DEF Compare
  <2>2. <<bool>> \in Seq(Byte)
    BY CompareBytes
  <2> QED
    BY <1>5, <2>1, <2>2 DEF Compare, Ready
<1>6. CASE PrintTop \/ Pop
  <2>1. <<>> \in Seq(Byte)
    OBVIOUS
  <2> QED
    BY <1>6, <2>1 DEF PrintTop, Pop, Ready
<1>7. CASE Swap
  <2>1. Ready({"swap"}) /\ Size(Inst.ty) \in 1 .. 8
    BY <1>7, ReadyFacts DEF Swap
  <2>2. 2 * Size(Inst.ty) <= Top.ptr /\ 1 * Size(Inst.ty) <= Top.ptr
    BY <1>0, <2>1, TwoOperands DEF Ready
  <2>3. Operand(1, Size(Inst.ty)) \in Seq(Byte) /\ Operand(2, Size(Inst.ty)) \in Seq(Byte)
    BY <1>0, <2>1, <2>2, OperandType
  <2>4. Operand(1, Size(Inst.ty)) \o Operand(2, Size(Inst.ty)) \in Seq(Byte)
    BY <2>3
  <2> QED
    BY <1>7, <2>4 DEF Swap, Ready
<1>8. CASE Dupe
  <2>1. Ready({"dupe"}) /\ Size(Inst.ty) \in 1 .. 8
    BY <1>8, ReadyFacts DEF Dupe
  <2>2. Size(Inst.ty) <= Top.ptr
    BY <2>1 DEF Ready, Peeks, ArithKinds, CompareKinds
  <2>3. Operand(1, Size(Inst.ty)) \in Seq(Byte)
    BY <1>0, <2>1, <2>2, TopOperandType
  <2> QED
    BY <1>8, <2>3 DEF Dupe, Ready
<1>9. CASE Copy
  <2> DEFINE bytes == [k \in 1 .. (Inst.n * Size(Inst.ty)) |->
                         Operand(1, Size(Inst.ty))[((k - 1) % Size(Inst.ty)) + 1]]
  <2>1. Ready({"copy"}) /\ Rewrite(bytes)
    BY <1>9 DEF Copy
  <2>2. bytes \in Seq(Byte)
    BY <1>0, <2>1, CopyBytes
  <2> QED
    BY <2>1, <2>2 DEF Ready
<1>10. CASE LoadLocal
  <2> DEFINE bytes == [k \in 1 .. Size(Inst.ty) |-> Top.locals[Inst.n + k - 1]]
  <2>1. Fetch /\ ~Starved /\ Pops(Inst) <= Top.ptr /\ InLocals /\ Rewrite(bytes)
    BY <1>10 DEF LoadLocal, Ready
  <2>2. bytes \in Seq(Byte)
    BY <1>0, <2>1, LocalBytes
  <2> QED
    BY <2>1, <2>2
<1>11. CASE Pderef
  <2> DEFINE bytes == [k \in 1 .. Size(Inst.ty) |-> Load(Pointer + k - 1)]
  <2>1. Ready({"pderef"}) /\ Accessible(Pointer, Size(Inst.ty)) /\ Rewrite(bytes)
    BY <1>11 DEF Pderef
  <2>2. bytes \in Seq(Byte)
    BY <1>0, <2>1, PderefBytes
  <2> QED
    BY <2>1, <2>2 DEF Ready
<1> QED
  BY <1>1, <1>2, <1>3, <1>4, <1>5, <1>6, <1>7, <1>8, <1>9, <1>10, <1>11 DEF Shuffle

LEMMA ShuffleKeepsInv ==
  ASSUME Inv, Shuffle
  PROVE  Inv'
BY ShuffleRewrites, RewriteKeepsInv

\* Dropping operands that are there leaves a frame a frame.
LEMMA DroppedFrame ==
  ASSUME NEW f \in Frame, NEW n \in Nat, n <= f.ptr
  PROVE  /\ Dropped(f, n) \in Frame
         /\ Dropped(f, n).rsp = f.rsp
         /\ Dropped(f, n).start = f.start
         /\ Dropped(f, n).addr = f.addr
<1>1. f.ptr - n \in StackIndex
  BY SizeAssumption DEF Frame, StackIndex
<1> QED
  BY <1>1, MovedFrame DEF Dropped

\* A write through a pointer leaves every frame it hits a frame.
LEMMA PokedFrame ==
  ASSUME NEW f \in Frame, NEW a \in Nat, NEW bytes \in Seq(Byte)
  PROVE  /\ PokeFrame(f, a, bytes) \in Frame
         /\ PokeFrame(f, a, bytes).ptr = f.ptr
         /\ PokeFrame(f, a, bytes).rsp = f.rsp
         /\ PokeFrame(f, a, bytes).start = f.start
         /\ PokeFrame(f, a, bytes).addr = f.addr
<1> DEFINE locals == [k \in LocalIndex |-> Written(f.locals[k], f.addr + k, a, bytes)]
<1>1. f.addr \in Nat /\ f.locals \in [LocalIndex -> Byte]
  BY MemoryAssumption DEF Frame
<1>2. ASSUME NEW k \in LocalIndex
      PROVE  Written(f.locals[k], f.addr + k, a, bytes) \in Byte
  <2>1. f.locals[k] \in Byte /\ f.addr + k \in Nat
    BY <1>1, SizeAssumption DEF LocalIndex
  <2>2. CASE f.addr + k \in a .. (a + Len(bytes) - 1)
    <3>1. PICK x \in Nat : x = f.addr + k
      BY <2>1
    <3>2. x - a + 1 \in 1 .. Len(bytes)
      BY <2>2, <3>1
    <3>3. bytes[x - a + 1] \in Byte
      BY <3>2
    <3> QED
      BY <2>2, <3>1, <3>3 DEF Written
  <2>3. CASE f.addr + k \notin a .. (a + Len(bytes) - 1)
    BY <2>1, <2>3 DEF Written
  <2> QED
    BY <2>2, <2>3
<1>3. locals \in [LocalIndex -> Byte]
  BY <1>2
<1>4. PokeFrame(f, a, bytes) = [f EXCEPT !.locals = locals]
  BY DEF PokeFrame
<1> HIDE DEF locals
<1> QED
  BY <1>3, <1>4 DEF Frame

LEMMA StoreKeepsInv ==
  ASSUME Inv, Store
  PROVE  Inv'
<1> DEFINE word == Operand(1, Size(Inst.ty))
           f == PokeFrame(Top, Top.addr + Inst.n, word)
           g == Dropped(f, Len(word))
<1>1. Ready({"store"})
  BY DEF Store
<1>2. /\ TypeOK /\ Inst.n \in Nat /\ Size(Inst.ty) \in 1 .. 8 /\ Size(Inst.ty) <= Top.ptr
      /\ Top.ptr \in Nat /\ Top.ptr < STACK_SIZE /\ pc + 1 \in 1 .. Len(prog)
  BY <1>1, ReadyFacts DEF Pops, Instruction, ArithKinds, CompareKinds
<1>3. word \in Seq(Byte) /\ Len(word) = Size(Inst.ty)
  BY <1>2, TopOperandType
<1>4. Top.addr + Inst.n \in Nat
  <2>1. Top.addr \in FrameAddr
    BY <1>2, TopType DEF Frame
  <2>2. Top.addr \in Nat
    BY <2>1, AddrType
  <2> QED
    BY <1>2, <2>2
<1>5. frames' = [frames EXCEPT ![Len(frames)] = g]
  BY DEF Store
<1>6. /\ pc' = pc + 1
      /\ UNCHANGED <<prog, stack, return_stack, data, status>>
  BY DEF Store, Continue
<1> HIDE DEF word
<1>7. /\ f \in Frame /\ f.ptr = Top.ptr /\ f.rsp = Top.rsp /\ f.start = Top.start
      /\ f.addr = Top.addr
  BY <1>2, <1>3, <1>4, TopType, PokedFrame
<1> HIDE DEF f
<1>8. Len(word) \in Nat /\ Len(word) <= f.ptr
  BY <1>2, <1>3, <1>7
<1>9. g \in Frame /\ g.rsp = Top.rsp /\ g.start = Top.start /\ g.addr = Top.addr
  BY <1>7, <1>8, DroppedFrame
<1> HIDE DEF g
<1>10. frames \in [1 .. Len(frames) -> Frame] /\ Len(frames) \in Nat \ {0}
  BY <1>2 DEF TypeOK
<1>11. frames' \in [1 .. Len(frames) -> Frame]
  BY <1>5, <1>9, <1>10
<1>12. frames' \in Seq(Frame) /\ Len(frames') = Len(frames)
  BY <1>10, <1>11
<1>13. FrameChain' /\ ReturnsBehindCalls'
  BY <1>5, <1>6, <1>9, <1>10, <1>12, SameLinks DEF Top
<1>14. TypeOK'
  BY <1>2, <1>6, <1>12 DEF TypeOK, WellFormed
<1> QED
  BY <1>13, <1>14 DEF Inv

LEMMA PsetKeepsInv ==
  ASSUME Inv, Pset
  PROVE  Inv'
<1> DEFINE bytes == Slice(Top.ptr - Pops(Inst), Size(Inst.ty))
           g(d) == PokeFrame(frames[d], Pointer, bytes)
           n(d) == IF d = Len(frames) THEN Pops(Inst) ELSE 0
<1>1. Ready({"pset"})
  BY DEF Pset
<1>2. /\ TypeOK /\ Size(Inst.ty) \in 1 .. 8 /\ Pops(Inst) \in Nat /\ Pops(Inst) <= Top.ptr
      /\ Top.ptr \in Nat /\ Top.ptr < STACK_SIZE /\ pc + 1 \in 1 .. Len(prog)
  BY <1>1, ReadyFacts
<1>12. Inst.kind = "pset"
  BY <1>1 DEF Ready
<1>13. Pops(Inst) = SIZE64 + Size(Inst.ty)
  BY <1>12 DEF Pops, ArithKinds
<1>14. Size(Inst.ty) <= Pops(Inst)
  BY <1>2, <1>13, SizeAssumption, SMTT(30) DEF MaxWidth
<1>3. Pointer \in Nat
  BY <1>1, <1>2, PointerType DEF Ready
<1>4. bytes \in Seq(Byte)
  <2>0. \A p, m, k, size \in Nat :
           m <= p /\ k <= m /\ p < size => p - m \in Nat /\ (p - m) + k <= size
    OBVIOUS
  <2>2. Size(Inst.ty) \in Nat /\ STACK_SIZE \in Nat
    BY <1>2, SizeAssumption
  <2>1. Top.ptr - Pops(Inst) \in Nat /\ (Top.ptr - Pops(Inst)) + Size(Inst.ty) <= STACK_SIZE
    BY <1>2, <1>14, <2>0, <2>2, Zenon
  <2> QED
    BY <1>2, <2>1, SliceType
<1>5. /\ data' = [a \in DataAddr |-> Written(data[a], a, Pointer, bytes)]
      /\ frames' = [d \in 1 .. Len(frames) |-> Dropped(g(d), n(d))]
      /\ pc' = pc + 1
      /\ UNCHANGED <<prog, stack, return_stack, status>>
  BY DEF Pset, Continue
<1> HIDE DEF bytes
<1>6. frames \in [1 .. Len(frames) -> Frame] /\ Len(frames) \in Nat \ {0}
  BY <1>2 DEF TypeOK
<1>7. ASSUME NEW d \in 1 .. Len(frames)
      PROVE  /\ frames'[d] \in Frame
             /\ frames'[d].rsp = frames[d].rsp
             /\ frames'[d].start = frames[d].start
             /\ frames'[d].addr = frames[d].addr
  <2>1. /\ g(d) \in Frame /\ g(d).ptr = frames[d].ptr /\ g(d).rsp = frames[d].rsp
        /\ g(d).start = frames[d].start /\ g(d).addr = frames[d].addr
    BY <1>3, <1>4, <1>6, <1>7, PokedFrame
  <2>2. n(d) \in Nat /\ n(d) <= frames[d].ptr
    <3>1. frames[d].ptr \in Nat
      BY <1>6, <1>7 DEF Frame, StackIndex
    <3> QED
      BY <1>2, <3>1 DEF Top
  <2>3. frames'[d] = Dropped(g(d), n(d))
    BY <1>5, <1>7
  <2> HIDE DEF g, n
  <2> QED
    BY <2>1, <2>2, <2>3, DroppedFrame
<1>8. frames' \in Seq(Frame) /\ Len(frames') = Len(frames)
  <2>1. frames' \in [1 .. Len(frames) -> Frame]
    BY <1>5, <1>7
  <2> QED
    BY <1>6, <2>1
<1>9. data' \in [DataAddr -> Byte]
  <2> SUFFICES ASSUME NEW a \in DataAddr
               PROVE  Written(data[a], a, Pointer, bytes) \in Byte
    BY <1>5
  <2>1. a \in Nat /\ data[a] \in Byte
    BY <1>2, MemoryAssumption DEF TypeOK
  <2>2. a \in Pointer .. (Pointer + Len(bytes) - 1) => a - Pointer + 1 \in 1 .. Len(bytes)
    BY <1>3, <1>4, <2>1
  <2> QED
    BY <1>4, <2>1, <2>2 DEF Written
<1>10. FrameChain' /\ ReturnsBehindCalls'
  BY <1>5, <1>7, <1>8, SameLinks
<1>11. TypeOK'
  BY <1>2, <1>5, <1>8, <1>9 DEF TypeOK, WellFormed
<1> QED
  BY <1>10, <1>11 DEF Inv

LEMMA JumpKeepsInv ==
  ASSUME Inv, Jump \/ Jumpcmp
  PROVE  Inv'
<1>1. pc + 1 \in 0 .. Len(prog) /\ pc + 1 + Inst.offset \in 0 .. Len(prog)
  BY InstType DEF Inv, Jump, Jumpcmp, Ready, JumpKinds
<1>2. /\ pc' \in {pc + 1, pc + 1 + Inst.offset}
      /\ UNCHANGED <<prog, stack, frames, return_stack, data, status>>
  BY DEF Jump, Jumpcmp
<1> QED
  BY <1>1, <1>2 DEF Inv, TypeOK, FrameChain, ReturnsBehindCalls, WellFormed

LEMMA JumpprocKeepsInv ==
  ASSUME Inv, Jumpproc
  PROVE  Inv'
<1> DEFINE depth == Len(frames)
           ptr == Top.ptr - Inst.n
           suspended == Dropped(Top, Inst.n)
<1>1. Ready({"jumpproc"}) /\ Top.rsp < RETURN_SLOTS
  BY DEF Jumpproc
<1>2. /\ TypeOK /\ Inst \in Instruction /\ Inst.kind = "jumpproc" /\ pc + 1 \in 1 .. Len(prog)
      /\ Inst.n \in Nat /\ Pops(Inst) <= Top.ptr /\ Top.ptr \in Nat /\ Top.ptr < STACK_SIZE
  BY <1>1, ReadyFacts DEF Instruction
<1>3. Inst.n <= Top.ptr
  BY <1>2 DEF Pops, ArithKinds
<1>4. pc + 1 + Inst.offset \in 0 .. Len(prog)
  BY <1>1, <1>2, InstType DEF Ready, JumpKinds
<1>5. ptr \in StackIndex
  BY <1>2, <1>3, SizeAssumption DEF StackIndex
<1>6. Top \in Frame /\ depth \in Nat \ {0} /\ frames \in [1 .. depth -> Frame] /\ Top = frames[depth]
  BY <1>2, TopType DEF TypeOK, Top
<1>7. /\ suspended \in Frame /\ suspended.rsp = Top.rsp
      /\ suspended.start = Top.start /\ suspended.addr = Top.addr
  BY <1>2, <1>3, <1>6, DroppedFrame
<1>8. Top.rsp = depth - 1 /\ Top.start = 0
  BY <1>6 DEF Inv, FrameChain
<1>9. PICK a \in FrameAddr \ LiveAddr, junk \in JunkLocals :
        frames' = Append([frames EXCEPT ![depth] = suspended],
                         [ptr |-> ptr, rsp |-> Top.rsp + 1, start |-> Top.start, addr |-> a,
                          locals |-> [k \in LocalIndex |->
                                        IF k < Inst.n THEN stack[ptr + k] ELSE junk[k]]])
  BY DEF Jumpproc, Callee
<1>10. /\ return_stack' = [return_stack EXCEPT ![Top.rsp] = pc + 1]
       /\ pc' = pc + 1 + Inst.offset
       /\ UNCHANGED <<prog, stack, data, status>>
  BY DEF Jumpproc, PushReturn
<1> DEFINE locals == [k \in LocalIndex |-> IF k < Inst.n THEN stack[ptr + k] ELSE junk[k]]
           callee == [ptr |-> ptr, rsp |-> Top.rsp + 1, start |-> Top.start, addr |-> a,
                      locals |-> locals]
<1>11. locals \in [LocalIndex -> Byte]
  <2> SUFFICES ASSUME NEW k \in LocalIndex
               PROVE  (IF k < Inst.n THEN stack[ptr + k] ELSE junk[k]) \in Byte
    OBVIOUS
  <2>1. junk[k] \in Byte
    BY MemoryAssumption
  <2>2. k \in Nat
    BY SizeAssumption DEF LocalIndex
  <2>3. k < Inst.n => ptr + k \in StackIndex
    BY <1>2, <1>3, <2>2, SizeAssumption DEF StackIndex
  <2> QED
    BY <1>2, <2>1, <2>3 DEF TypeOK
<1> HIDE DEF locals, suspended, ptr
<1>12. callee \in Frame
  <2>1. Top.rsp + 1 \in 0 .. RETURN_SLOTS
    BY <1>1, <1>6, <1>8, SlotsType
  <2> QED
    BY <1>5, <1>6, <1>11, <2>1 DEF Frame
<1>13. /\ frames' \in Seq(Frame) /\ Len(frames') = depth + 1
       /\ frames'[depth] = suspended /\ frames'[depth + 1] = callee
       /\ \A d \in 1 .. (depth - 1) : frames'[d] = frames[d]
  <2> DEFINE base == [frames EXCEPT ![depth] = suspended]
  <2>1. base \in Seq(Frame) /\ Len(base) = depth
    BY <1>6, <1>7
  <2>2. base[depth] = suspended /\ \A d \in 1 .. (depth - 1) : base[d] = frames[d]
    BY <1>6
  <2>3. frames' = Append(base, callee)
    BY <1>9 DEF locals, ptr, suspended
  <2> HIDE DEF base, callee, depth
  <2>4. frames' \in Seq(Frame) /\ Len(frames') = depth + 1
    BY <1>6, <1>12, <2>1, <2>3
  <2>5. frames'[depth + 1] = callee
    BY <1>6, <1>12, <2>1, <2>3
  <2>6. \A d \in 1 .. depth : frames'[d] = base[d]
    BY <1>6, <1>12, <2>1, <2>3
  <2>7. depth \in 1 .. depth /\ \A d \in 1 .. (depth - 1) : d \in 1 .. depth
    BY <1>6
  <2> QED
    BY <2>2, <2>4, <2>5, <2>6, <2>7
<1> HIDE DEF callee
<1>14. \A d \in 1 .. depth :
         /\ frames'[d].rsp = frames[d].rsp
         /\ frames'[d].start = frames[d].start
         /\ frames'[d].addr = frames[d].addr
  BY <1>6, <1>7, <1>13
<1>15. callee.rsp = depth /\ callee.start = 0 /\ callee.addr = a
  BY <1>6, <1>8 DEF callee
<1>16. FrameChain'
  <2> SUFFICES ASSUME NEW d \in 1 .. (depth + 1)
               PROVE  /\ frames'[d].rsp = d - 1
                      /\ frames'[d].start = 0
                      /\ \A e \in 1 .. (depth + 1) : frames'[d].addr = frames'[e].addr => d = e
    BY <1>13 DEF FrameChain
  <2>1. \A e \in 1 .. depth : frames'[e].addr # a
    BY <1>14 DEF LiveAddr
  <2>2. CASE d \in 1 .. depth
    BY <1>6, <1>13, <1>14, <1>15, <2>1, <2>2, SMTT(30) DEF Inv, FrameChain
  <2>3. CASE d = depth + 1
    BY <1>6, <1>13, <1>15, <2>1, <2>3
  <2> QED
    BY <1>6, <2>2, <2>3
<1>17. ReturnsBehindCalls'
  <2> SUFFICES ASSUME NEW d \in 2 .. (depth + 1)
               PROVE  /\ return_stack'[frames'[d].rsp - 1] \in 1 .. Len(prog)
                      /\ prog[return_stack'[frames'[d].rsp - 1]].kind = "jumpproc"
    BY <1>10, <1>13 DEF ReturnsBehindCalls
  <2>1. return_stack \in [0 .. (RETURN_SLOTS - 1) -> Nat] /\ Top.rsp \in 0 .. (RETURN_SLOTS - 1)
    BY <1>1, <1>2, <1>6, <1>8, SlotsType DEF TypeOK
  <2>2. CASE d \in 2 .. depth
    <3>1. frames[d].rsp - 1 = d - 2 /\ frames'[d].rsp - 1 = d - 2
      BY <1>6, <1>14, <2>2 DEF Inv, FrameChain
    <3>2. return_stack'[d - 2] = return_stack[d - 2]
      BY <1>6, <1>8, <1>10, <2>1, <2>2
    <3> QED
      BY <2>2, <3>1, <3>2 DEF Inv, ReturnsBehindCalls
  <2>3. CASE d = depth + 1
    <3>1. frames'[d].rsp - 1 = Top.rsp
      BY <1>6, <1>8, <1>13, <1>15, <2>3
    <3>2. return_stack'[Top.rsp] = pc + 1
      BY <1>10, <2>1
    <3> QED
      BY <1>2, <3>1, <3>2 DEF Inst
  <2> QED
    BY <1>6, <2>2, <2>3
<1>18. TypeOK'
  <2>1. return_stack' \in [0 .. (RETURN_SLOTS - 1) -> Nat]
    <3>1. return_stack \in [0 .. (RETURN_SLOTS - 1) -> Nat] /\ pc + 1 \in Nat
      BY <1>2 DEF TypeOK
    <3> QED
      BY <1>10, <3>1
  <2> QED
    BY <1>2, <1>4, <1>6, <1>10, <1>13, <2>1 DEF TypeOK, WellFormed
<1> QED
  BY <1>16, <1>17, <1>18 DEF Inv

LEMMA RetKeepsInv ==
  ASSUME Inv, Ret
  PROVE  Inv'
<1> DEFINE depth == Len(frames)
           rest == SubSeq(frames, 1, depth - 1)
           result == Slice(Top.ptr - Pops(Inst), Pops(Inst))
           resumed == [Caller EXCEPT !.ptr = Caller.ptr + Len(result)]
<1>1. Ready(ReturnKinds) /\ depth > 1
  BY DEF Ret
<1>2. /\ TypeOK /\ Pops(Inst) \in Nat /\ Pops(Inst) <= Top.ptr
      /\ Top.ptr \in Nat /\ Top.ptr < STACK_SIZE
  BY <1>1, ReadyFacts
<1>3. depth \in Nat /\ depth - 1 \in 1 .. depth /\ frames \in Seq(Frame)
  BY <1>1, <1>2 DEF TypeOK
<1>4. result \in Seq(Byte)
  <2>1. STACK_SIZE \in Nat
    BY SizeAssumption
  <2>2. Top.ptr - Pops(Inst) \in Nat /\ (Top.ptr - Pops(Inst)) + Pops(Inst) <= STACK_SIZE
    BY <1>2, <2>1
  <2> QED
    BY <1>2, <2>2, SliceType
<1>5. Caller \in Frame /\ Caller = frames[depth - 1]
  BY <1>3 DEF Caller
<1>6. /\ Fits(Caller.ptr, Len(result))
      /\ stack' = Overwrite(Caller.ptr, result)
      /\ frames' = [rest EXCEPT ![depth - 1].ptr = @ + Len(result)]
      /\ pc' = return_stack[Top.rsp - 1]
      /\ UNCHANGED <<prog, return_stack, data, status>>
  BY DEF Ret, Pushed, ReturnAddress
<1> HIDE DEF result
<1>7. Caller.ptr \in Nat /\ Caller.ptr + Len(result) \in StackIndex
  <2>1. Caller.ptr \in Nat
    BY <1>5 DEF Frame, StackIndex
  <2> QED
    BY <1>4, <1>6, <2>1, SizeAssumption DEF Fits, StackIndex
<1>8. /\ resumed \in Frame /\ resumed.rsp = Caller.rsp
      /\ resumed.start = Caller.start /\ resumed.addr = Caller.addr
  BY <1>5, <1>7, MovedFrame
<1>9. /\ rest \in Seq(Frame) /\ Len(rest) = depth - 1
      /\ \A d \in 1 .. (depth - 1) : rest[d] = frames[d]
  <2> HIDE DEF depth
  <2>1. depth = Len(frames)
    BY DEF depth
  <2> QED
    BY <1>3, <2>1
<1> HIDE DEF rest
<1>10. frames' = [rest EXCEPT ![depth - 1] = resumed]
  <2>1. depth - 1 \in 1 .. Len(rest) /\ rest[depth - 1] = Caller
    BY <1>3, <1>5, <1>9
  <2> QED
    BY <1>6, <2>1
<1> HIDE DEF resumed
<1>11. /\ frames' \in Seq(Frame) /\ Len(frames') = depth - 1
       /\ \A d \in 1 .. (depth - 1) :
            /\ frames'[d].rsp = frames[d].rsp
            /\ frames'[d].start = frames[d].start
            /\ frames'[d].addr = frames[d].addr
  BY <1>3, <1>5, <1>8, <1>9, <1>10
<1>12. FrameChain'
  BY <1>3, <1>11, SMTT(30) DEF Inv, FrameChain
<1>13. ReturnsBehindCalls'
  <2> SUFFICES ASSUME NEW d \in 2 .. (depth - 1)
               PROVE  /\ return_stack[frames'[d].rsp - 1] \in 1 .. Len(prog)
                      /\ prog[return_stack[frames'[d].rsp - 1]].kind = "jumpproc"
    BY <1>6, <1>11 DEF ReturnsBehindCalls
  <2>1. d \in 2 .. depth /\ d \in 1 .. (depth - 1)
    BY <1>3
  <2>2. frames'[d].rsp = frames[d].rsp
    BY <1>11, <2>1
  <2> QED
    BY <2>1, <2>2 DEF Inv, ReturnsBehindCalls
<1>14. pc' \in 0 .. Len(prog')
  <2>1. depth \in 2 .. depth
    BY <1>1, <1>3
  <2>2. return_stack[frames[depth].rsp - 1] \in 1 .. Len(prog)
    BY <2>1 DEF Inv, ReturnsBehindCalls
  <2> QED
    BY <1>6, <2>2 DEF Top
<1>15. stack' \in [StackIndex -> Byte]
  BY <1>2, <1>4, <1>6, <1>7, OverwriteType
<1>16. TypeOK'
  BY <1>1, <1>2, <1>3, <1>6, <1>11, <1>14, <1>15 DEF TypeOK, WellFormed
<1> QED
  BY <1>12, <1>13, <1>16 DEF Inv

LEMMA InitInv == Init => Inv
<1> SUFFICES ASSUME Init
             PROVE  Inv
  OBVIOUS
<1>1. /\ prog \in Seq(Instruction) /\ WellFormed(prog)
      /\ pc = 0 /\ status = "running" /\ data \in [DataAddr -> Byte]
  BY ProgramAssumption, MemoryAssumption DEF Init
<1>2. 0 \in Byte /\ 0 \in StackIndex /\ 0 \in 0 .. RETURN_SLOTS
  BY BaseAssumption, SizeAssumption, SlotsType DEF Byte, StackIndex
<1>3. stack \in [StackIndex -> Byte] /\ return_stack \in [0 .. (RETURN_SLOTS - 1) -> Nat]
  BY <1>2 DEF Init
<1>4. PICK a \in FrameAddr, junk \in JunkLocals :
        frames = << [ptr |-> 0, rsp |-> 0, start |-> 0, locals |-> junk, addr |-> a] >>
  BY DEF Init
<1>5. junk \in [LocalIndex -> Byte]
  BY MemoryAssumption
<1>6. [ptr |-> 0, rsp |-> 0, start |-> 0, locals |-> junk, addr |-> a] \in Frame
  BY <1>2, <1>5 DEF Frame
<1>7. /\ frames \in Seq(Frame) /\ Len(frames) = 1
      /\ frames[1].rsp = 0 /\ frames[1].start = 0
  BY <1>4, <1>6
<1>8. TypeOK
  BY <1>1, <1>3, <1>7 DEF TypeOK
<1>9. FrameChain /\ ReturnsBehindCalls
  BY <1>7 DEF FrameChain, ReturnsBehindCalls
<1> QED
  BY <1>8, <1>9 DEF Inv

LEMMA NextKeepsInv == Inv /\ [Next]_vars => Inv'
<1> SUFFICES ASSUME Inv, [Next]_vars
             PROVE  Inv'
  OBVIOUS
<1>1. CASE EmptyStack
  BY <1>1, EmptyStackKeepsInv
<1>2. CASE Shuffle
  BY <1>2, ShuffleKeepsInv
<1>3. CASE Store
  BY <1>3, StoreKeepsInv
<1>4. CASE Pset
  BY <1>4, PsetKeepsInv
<1>5. CASE Jump \/ Jumpcmp
  BY <1>5, JumpKeepsInv
<1>6. CASE Jumpproc
  BY <1>6, JumpprocKeepsInv
<1>7. CASE Ret
  BY <1>7, RetKeepsInv
<1>8. CASE Abort \/ Halt
  BY <1>8, AbortKeepsInv
<1>9. CASE UNCHANGED vars
  BY <1>9 DEF vars, Inv, TypeOK, FrameChain, ReturnsBehindCalls, WellFormed
<1> QED
  BY <1>1, <1>2, <1>3, <1>4, <1>5, <1>6, <1>7, <1>8, <1>9 DEF Next, Transfer

-----------------------------------------------------------------------------
(* The theorems.                                                           *)

\* The invariant holds in every reachable state of the machine.
THEOREM Invariance == Spec => []Inv
BY InitInv, NextKeepsInv, PTL DEF Spec

\* Whatever the program, ptr never leaves the stack, rsp never leaves the
\* return stack, pc never leaves the program, until a fault status says so.
THEOREM TypeCorrect == Spec => []TypeOK
<1>1. Inv => TypeOK
  BY DEF Inv
<1> QED
  BY <1>1, Invariance, PTL

\* The frame list and the return stack of ass.c agree in every state.
THEOREM FramesLinked == Spec => []FrameChain
<1>1. Inv => FrameChain
  BY DEF Inv
<1> QED
  BY <1>1, Invariance, PTL

\* What a ret loads into pc is always the place behind a jumpproc.
THEOREM ReturnsAreSound == Spec => []ReturnsBehindCalls
<1>1. Inv => ReturnsBehindCalls
  BY DEF Inv
<1> QED
  BY <1>1, Invariance, PTL

-----------------------------------------------------------------------------
(* STACK_CHECK.                                                            *)

\* A check that passes has found its bytes, unless its subtraction wrapped.
LEMMA CheckSound ==
  ASSUME Inv, NEW n \in Nat, n <= StackAddr + Top.ptr, ~IsEmptyStack(n)
  PROVE  n <= Top.ptr
<1>1. Top.ptr \in Nat /\ Top.ptr < STACK_SIZE
  BY TopType, SizeAssumption DEF Inv, StackIndex
<1>2. Top.start = 0
  BY TopType DEF Inv, FrameChain, Top
<1>3. StackAddr \in Nat /\ AddressSpace \in Nat /\ STACK_SIZE \in Nat
      /\ StackAddr + STACK_SIZE < AddressSpace
  BY MemoryAssumption, SizeAssumption
<1>4. PICK x \in Nat : x = StackAddr + Top.ptr - n
  BY <1>1, <1>3
<1>5. x < AddressSpace
  BY <1>1, <1>3, <1>4
<1>6. x % AddressSpace = x
  BY <1>3, <1>5
<1>7. ~(x < StackAddr)
  BY <1>2, <1>3, <1>4, <1>6 DEF IsEmptyStack
<1> QED
  BY <1>1, <1>3, <1>4, <1>7

\* What a check asks for covers what its handler pops and peeks at.
LEMMA NeedCovers ==
  ASSUME NEW i \in Instruction, i.kind \in CheckedKinds
  PROVE  /\ Need(i) \in Nat /\ Pops(i) <= Need(i) /\ Peeks(i) <= Need(i)
         /\ i.kind # "ret" => Need(i) <= 2 * MaxWidth
<1>1. Size(i.ty) \in 1 .. 8 /\ SIZE64 \in 1 .. 8 /\ i.n \in Nat
  BY SizeType, SizeAssumption DEF Instruction, MaxWidth
<1>2. i.kind \in Kinds
  BY DEF Instruction
<1>3. CASE i.kind \in ArithKinds \cup CompareKinds \cup {"swap"}
  BY <1>1, <1>3 DEF Need, Pops, Peeks, ArithKinds, CompareKinds, MaxWidth
<1>4. CASE i.kind \in {"print", "pop", "dupe", "copy", "store", "retN"}
  BY <1>1, <1>4 DEF Need, Pops, Peeks, ArithKinds, CompareKinds, MaxWidth
<1>5. CASE i.kind \in {"ciprint", "jumpcmp", "pderef", "pset", "ret"}
  BY <1>1, <1>5 DEF Need, Pops, Peeks, ArithKinds, CompareKinds, MaxWidth
<1> QED
  BY <1>2, <1>3, <1>4, <1>5 DEF CheckedKinds, Kinds, JumpKinds, ReturnKinds

\* A handler without a check touches no operand, jumpproc excepted.
LEMMA UncheckedTouchNothing ==
  ASSUME NEW i \in Instruction, i.kind \notin CheckedKinds, i.kind # "jumpproc"
  PROVE  Pops(i) = 0 /\ Peeks(i) = 0
<1>1. i.kind \in {"push", "ppush", "pload", "load", "jump", "unimplemented"}
  BY DEF Instruction, CheckedKinds
<1> QED
  BY <1>1 DEF Pops, Peeks, ArithKinds, CompareKinds

LEMMA GuardStep ==
  ASSUME Inv, OperandFault
  PROVE  Inst.kind = "jumpproc" \/ (Inst.kind = "ret" /\ Inst.n > StackAddr + Top.ptr)
<1> SUFFICES ASSUME Inst.kind # "jumpproc",
                    ~(Inst.kind = "ret" /\ Inst.n > StackAddr + Top.ptr)
             PROVE  FALSE
  OBVIOUS
<1>1. /\ Fetch /\ ~Starved /\ (Pops(Inst) > Top.ptr \/ Peeks(Inst) > Top.ptr)
  BY DEF OperandFault
<1>2. /\ Inst \in Instruction /\ Top.ptr \in Nat /\ StackAddr \in Nat
      /\ 2 * MaxWidth <= StackAddr /\ Pops(Inst) \in Nat /\ Peeks(Inst) \in Nat
  BY <1>1, InstType, TopType, MemoryAssumption, MotionType DEF Inv, StackIndex
<1>3. CASE Inst.kind \notin CheckedKinds
  BY <1>1, <1>2, <1>3, UncheckedTouchNothing
<1>4. CASE Inst.kind \in CheckedKinds
  <2>1. /\ Need(Inst) \in Nat /\ Pops(Inst) <= Need(Inst) /\ Peeks(Inst) <= Need(Inst)
        /\ Inst.kind # "ret" => Need(Inst) <= 2 * MaxWidth
    BY <1>2, <1>4, NeedCovers
  <2>2. Inst.kind = "ret" => Need(Inst) = Inst.n
    BY DEF Need, ArithKinds, CompareKinds
  <2>3. Inst.n \in Nat
    BY <1>2 DEF Instruction
  <2>4. Need(Inst) <= StackAddr + Top.ptr
    BY <1>2, <2>1, <2>2, <2>3 DEF MaxWidth
  <2>5. Need(Inst) <= Top.ptr
    BY <1>1, <1>4, <2>1, <2>4, CheckSound DEF Starved
  <2> QED
    BY <1>1, <1>2, <2>1, <2>5
<1> QED
  BY <1>3, <1>4

\* No handler but jumpproc reaches below the operand stack, and a ret does
\* only with a count that wraps the pointer subtraction of is_empty_stack.
THEOREM StackChecked == Spec => []OperandsGuarded
<1>1. Init => OperandsGuarded
  BY DEF Init, OperandsGuarded
<1>2. ASSUME Inv, OperandsGuarded, [Next]_vars
      PROVE  OperandsGuarded'
  <2>1. CASE OperandFault
    <3>1. UNCHANGED <<prog, pc, frames>>
      BY <2>1 DEF OperandFault, Stop
    <3>2. Inst' = Inst /\ Top' = Top
      BY <3>1 DEF Inst, Top
    <3> QED
      BY <1>2, <2>1, <3>2, GuardStep DEF OperandsGuarded
  <2>2. CASE Next /\ ~OperandFault
    <3>1. status' # "operand_stack"
      BY <2>2 DEF Next, EmptyStack, Shuffle, Store, Pset, Transfer, Abort, Halt, Continue,
                  Stop, Rewrite, Fetch, Ready, Push, Ppush, Pload, Arith, Compare, PrintTop,
                  Pop, Swap, Dupe, Copy, LoadLocal, Pderef, Jump, Jumpcmp, Jumpproc, Ret,
                  StackOverflow, Trap, LocalsFault, WildPointer, OutOfMemory,
                  ReturnStackFault, ArgumentsFault, RetOverflow, NullFrame
    <3> QED
      BY <3>1 DEF OperandsGuarded
  <2>3. CASE UNCHANGED vars
    BY <1>2, <2>3 DEF vars, OperandsGuarded, Inst, Top
  <2> QED
    BY <1>2, <2>1, <2>2, <2>3
<1> QED
  BY <1>1, <1>2, Invariance, PTL DEF Spec
=============================================================================

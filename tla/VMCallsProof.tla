---------------------------- MODULE VMCallsProof ----------------------------
(***************************************************************************)
(* What a caller can rely on while its callees run, for every program: the *)
(* operands below the lowest point they have popped to.                    *)
(***************************************************************************)
EXTENDS VMCalls, VMProof

Record == [image : [StackIndex -> Byte], low : Nat]

\* Each suspended frame has a record, and its low is at or below the ptr of
\* every frame above it, so that neither a push of the innermost frame nor
\* a result pushed by a ret further up can land under it.
LowBelowCallees ==
  /\ saved \in Seq(Record)
  /\ Len(saved) = Len(frames) - 1
  /\ \A d \in 1 .. Len(saved) : \A e \in (d + 1) .. Len(frames) :
       saved[d].low <= frames[e].ptr

SavedInv == LowBelowCallees /\ CallerOperandsKept

LEMMA LowPointType ==
  ASSUME Inv
  PROVE  /\ LowPoint \in Nat /\ LowPoint <= Top.ptr /\ Top.ptr \in Nat
         /\ ~Fetch => LowPoint = Top.ptr
         /\ \A kinds : Ready(kinds) => LowPoint = Top.ptr - Pops(Inst)
<1>1. Top.ptr \in Nat
  BY TopType DEF Inv, StackIndex
<1>2. Fetch => Pops(Inst) \in Nat
  BY InstType, MotionType DEF Inv
<1>3. \A kinds : Ready(kinds) => Fetch /\ ~Starved /\ Pops(Inst) <= Top.ptr
  BY DEF Ready
<1> QED
  BY <1>1, <1>2, <1>3 DEF LowPoint

\* The records of this step, none of them raised.
LEMMA LoweredType ==
  ASSUME Inv, SavedInv
  PROVE  /\ Lowered \in Seq(Record)
         /\ Len(Lowered) = Len(saved)
         /\ \A d \in 1 .. Len(saved) :
              /\ Lowered[d].image = saved[d].image
              /\ Lowered[d].low = Lesser(saved[d].low, LowPoint)
<1>1. saved \in Seq(Record) /\ Len(saved) \in Nat
  BY DEF SavedInv, LowBelowCallees
<1>2. LowPoint \in Nat
  BY LowPointType
<1>3. ASSUME NEW d \in 1 .. Len(saved)
      PROVE  /\ [saved[d] EXCEPT !.low = Lesser(@, LowPoint)] \in Record
             /\ [saved[d] EXCEPT !.low = Lesser(@, LowPoint)].image = saved[d].image
             /\ [saved[d] EXCEPT !.low = Lesser(@, LowPoint)].low
                  = Lesser(saved[d].low, LowPoint)
  <2>1. saved[d] \in Record
    BY <1>1
  <2>2. Lesser(saved[d].low, LowPoint) \in Nat
    BY <1>2, <2>1 DEF Lesser, Record
  <2> QED
    BY <2>1, <2>2 DEF Record
<1>4. Lowered \in [1 .. Len(saved) -> Record]
  BY <1>3 DEF Lowered
<1>5. Lowered \in Seq(Record) /\ Len(Lowered) = Len(saved)
  BY <1>1, <1>4
<1> QED
  BY <1>3, <1>5 DEF Lowered

\* A step that makes no call keeps the promise, when every frame it leaves
\* ends up at or above the low point or where it was, and no byte is
\* written below the lows of the records that remain.
LEMMA NoCallStep ==
  ASSUME Inv, SavedInv, Remember, NEW n \in Nat \ {0}, n <= Len(frames), Len(frames') = n,
         \A e \in 2 .. n : frames'[e].ptr \in Nat
                            /\ (LowPoint <= frames'[e].ptr \/ frames[e].ptr <= frames'[e].ptr),
         \A d \in 1 .. (n - 1) : \A b \in 0 .. (Lesser(saved[d].low, LowPoint) - 1) :
           stack'[b] = stack[b]
  PROVE  SavedInv'
<1>1. /\ saved \in Seq(Record) /\ Len(saved) = Len(frames) - 1 /\ Len(frames) \in Nat
      /\ LowPoint \in Nat /\ frames \in Seq(Frame)
  BY LowPointType DEF SavedInv, LowBelowCallees, Inv, TypeOK
<1>2. saved' = SubSeq(Lowered, 1, n - 1)
  BY <1>1 DEF Remember
<1>3. /\ saved' \in Seq(Record) /\ Len(saved') = n - 1
      /\ \A d \in 1 .. (n - 1) : saved'[d] = Lowered[d]
  <2>1. Lowered \in Seq(Record) /\ Len(Lowered) = Len(saved)
    BY LoweredType
  <2>2. n - 1 \in 0 .. Len(Lowered)
    BY <1>1, <2>1
  <2> QED
    BY <1>2, <2>1, <2>2
<1>4. \A d \in 1 .. (n - 1) :
        /\ d \in 1 .. Len(saved) /\ saved[d].low \in Nat
        /\ saved'[d].image = saved[d].image
        /\ saved'[d].low = Lesser(saved[d].low, LowPoint)
  <2> SUFFICES ASSUME NEW d \in 1 .. (n - 1)
               PROVE  /\ d \in 1 .. Len(saved) /\ saved[d].low \in Nat
                      /\ saved'[d].image = saved[d].image
                      /\ saved'[d].low = Lesser(saved[d].low, LowPoint)
    OBVIOUS
  <2>1. d \in 1 .. Len(saved)
    BY <1>1
  <2>2. saved[d] \in Record
    BY <1>1, <2>1
  <2>3. saved[d].low \in Nat
    BY <2>2 DEF Record
  <2>4. saved'[d] = Lowered[d]
    BY <1>3
  <2> QED
    BY <2>1, <2>3, <2>4, LoweredType
<1>5. LowBelowCallees'
  <2> SUFFICES ASSUME NEW d \in 1 .. (n - 1), NEW e \in (d + 1) .. n
               PROVE  saved'[d].low <= frames'[e].ptr
    BY <1>3 DEF LowBelowCallees
  <2>1. e \in 2 .. n /\ e \in (d + 1) .. Len(frames)
    BY <1>1
  <2>2. saved[d].low <= frames[e].ptr
    BY <1>4, <2>1 DEF SavedInv, LowBelowCallees
  <2>3. frames[e].ptr \in Nat
    <3>1. e \in 1 .. Len(frames)
      BY <1>1
    <3>2. frames[e] \in Frame
      BY <1>1, <3>1
    <3> QED
      BY <3>2 DEF Frame, StackIndex
  <2>4. /\ saved[d].low \in Nat /\ saved'[d].low = Lesser(saved[d].low, LowPoint)
        /\ frames'[e].ptr \in Nat
        /\ LowPoint <= frames'[e].ptr \/ frames[e].ptr <= frames'[e].ptr
    BY <1>4, <2>1
  <2> QED
    BY <1>1, <2>2, <2>3, <2>4, SMTT(30) DEF Lesser
<1>6. CallerOperandsKept'
  <2> SUFFICES ASSUME NEW d \in 1 .. (n - 1), NEW b \in 0 .. (saved'[d].low - 1)
               PROVE  stack'[b] = saved'[d].image[b]
    BY <1>3 DEF CallerOperandsKept
  <2>1. b \in 0 .. (Lesser(saved[d].low, LowPoint) - 1)
    BY <1>4
  <2>2. b \in 0 .. (saved[d].low - 1)
    <3>1. saved[d].low \in Nat /\ LowPoint \in Nat
      BY <1>1, <1>4
    <3> QED
      BY <2>1, <3>1 DEF Lesser
  <2>3. stack[b] = saved[d].image[b]
    BY <1>4, <2>2 DEF SavedInv, CallerOperandsKept
  <2> QED
    BY <1>4, <2>1, <2>3
<1> QED
  BY <1>5, <1>6 DEF SavedInv

\* A step that leaves memory and every frame alone.
LEMMA IdleStep ==
  ASSUME Inv, SavedInv, Remember, UNCHANGED <<stack, frames>>
  PROVE  SavedInv'
<1> DEFINE n == Len(frames)
<1>1. n \in Nat \ {0} /\ frames \in Seq(Frame)
  BY TopType DEF Inv, TypeOK
<1>2. \A e \in 2 .. n : frames[e].ptr \in Nat /\ frames[e].ptr <= frames[e].ptr
  <2> SUFFICES ASSUME NEW e \in 2 .. n
               PROVE  frames[e].ptr \in Nat /\ frames[e].ptr <= frames[e].ptr
    OBVIOUS
  <2>1. frames[e] \in Frame
    BY <1>1
  <2>2. frames[e].ptr \in Nat
    BY <2>1 DEF Frame, StackIndex
  <2> QED
    BY <2>2
<1>3. n <= Len(frames) /\ Len(frames') = n
  BY <1>1
<1> HIDE DEF n
<1> QED
  BY <1>1, <1>2, <1>3, NoCallStep

\* Bytes written from an index on leave what is below it.
LEMMA OverwriteAbove ==
  ASSUME NEW base \in Nat, NEW bytes \in Seq(Byte), NEW b \in Nat, b < base,
         stack' = Overwrite(base, bytes), base <= STACK_SIZE
  PROVE  stack'[b] = stack[b]
<1>1. b \in StackIndex /\ b \notin base .. (base + Len(bytes) - 1)
  BY SizeAssumption DEF StackIndex
<1> QED
  BY <1>1 DEF Overwrite

\* A record that is below the low point, or was, is below both.
LEMMA LesserBelow ==
  ASSUME NEW low \in Nat, NEW point \in Nat, NEW b \in 0 .. (Lesser(low, point) - 1)
  PROVE  b \in Nat /\ b < low /\ b < point
BY DEF Lesser

\* A handler that only moves bytes writes from the low point on.
LEMMA RewriteStep ==
  ASSUME Inv, SavedInv, Remember, Fetch, ~Starved, Pops(Inst) <= Top.ptr,
         NEW bytes \in Seq(Byte), Rewrite(bytes)
  PROVE  SavedInv'
<1> DEFINE n == Len(frames)
           base == Top.ptr - Pops(Inst)
<1>1. /\ n \in Nat \ {0} /\ frames \in Seq(Frame) /\ LowPoint = base /\ base \in Nat
      /\ base <= Top.ptr /\ Top.ptr \in Nat /\ Top.ptr < STACK_SIZE /\ STACK_SIZE \in Nat
  <2>1. n \in Nat \ {0} /\ frames \in Seq(Frame) /\ Top.ptr \in StackIndex
    BY TopType DEF Inv, TypeOK
  <2>2. Pops(Inst) \in Nat
    BY InstType, MotionType DEF Inv
  <2> QED
    BY <2>1, <2>2, SizeAssumption DEF LowPoint, StackIndex
<1>2. /\ frames' = [frames EXCEPT ![n].ptr = base + Len(bytes)]
      /\ stack' = Overwrite(base, bytes)
  BY DEF Rewrite
<1> HIDE DEF n, base
<1>3. Len(frames') = n /\ n <= Len(frames)
  BY <1>1, <1>2 DEF n
<1>4. \A e \in 2 .. n : frames'[e].ptr \in Nat
                        /\ (LowPoint <= frames'[e].ptr \/ frames[e].ptr <= frames'[e].ptr)
  <2> SUFFICES ASSUME NEW e \in 2 .. n
               PROVE  frames'[e].ptr \in Nat
                      /\ (LowPoint <= frames'[e].ptr \/ frames[e].ptr <= frames'[e].ptr)
    OBVIOUS
  <2>1. frames[e] \in Frame /\ e \in 1 .. Len(frames)
    BY <1>1 DEF n
  <2>2. frames[e].ptr \in Nat
    BY <2>1 DEF Frame, StackIndex
  <2>3. CASE e = n
    <3>1. frames'[e].ptr = base + Len(bytes)
      BY <1>2, <2>1, <2>3 DEF Frame
    <3> QED
      BY <1>1, <3>1
  <2>4. CASE e # n
    BY <1>2, <2>1, <2>2, <2>4
  <2> QED
    BY <2>3, <2>4
<1>5. \A d \in 1 .. (n - 1) : \A b \in 0 .. (Lesser(saved[d].low, LowPoint) - 1) :
        stack'[b] = stack[b]
  <2> SUFFICES ASSUME NEW d \in 1 .. (n - 1),
                      NEW b \in 0 .. (Lesser(saved[d].low, LowPoint) - 1)
               PROVE  stack'[b] = stack[b]
    OBVIOUS
  <2>1. saved[d] \in Record
    BY <1>1 DEF n, SavedInv, LowBelowCallees
  <2>2. b \in Nat /\ b < base
    BY <1>1, <2>1, LesserBelow DEF Record
  <2> QED
    BY <1>1, <1>2, <2>2, OverwriteAbove
<1> QED
  BY <1>1, <1>3, <1>4, <1>5, NoCallStep

\* store and pset write no operand and take only their own off the stack.
LEMMA PopOnlyStep ==
  ASSUME Inv, SavedInv, Remember, NEW kinds, Ready(kinds), stack' = stack,
         Len(frames') = Len(frames),
         \A e \in 1 .. (Len(frames) - 1) : frames'[e].ptr = frames[e].ptr,
         frames'[Len(frames)].ptr = Top.ptr - Pops(Inst)
  PROVE  SavedInv'
<1> DEFINE n == Len(frames)
<1>1. n \in Nat \ {0} /\ frames \in Seq(Frame) /\ n <= Len(frames)
  BY TopType DEF Inv, TypeOK
<1>2. LowPoint \in Nat /\ LowPoint = Top.ptr - Pops(Inst)
  BY LowPointType
<1>3. \A e \in 2 .. n : frames'[e].ptr \in Nat
                        /\ (LowPoint <= frames'[e].ptr \/ frames[e].ptr <= frames'[e].ptr)
  <2> SUFFICES ASSUME NEW e \in 2 .. n
               PROVE  frames'[e].ptr \in Nat
                      /\ (LowPoint <= frames'[e].ptr \/ frames[e].ptr <= frames'[e].ptr)
    OBVIOUS
  <2>1. CASE e = n
    BY <1>2, <2>1
  <2>2. CASE e # n
    <3>1. e \in 1 .. (n - 1) /\ frames[e] \in Frame
      BY <1>1, <2>2
    <3>2. frames[e].ptr \in Nat
      BY <3>1 DEF Frame, StackIndex
    <3> QED
      BY <3>1, <3>2
  <2> QED
    BY <2>1, <2>2
<1>4. Len(frames') = n
  OBVIOUS
<1> HIDE DEF n
<1> QED
  BY <1>1, <1>3, <1>4, NoCallStep

LEMMA StoreStep ==
  ASSUME Inv, SavedInv, Remember, Store
  PROVE  SavedInv'
<1> DEFINE word == Operand(1, Size(Inst.ty))
           f == PokeFrame(Top, Top.addr + Inst.n, word)
<1>1. Ready({"store"}) /\ stack' = stack
  BY DEF Store
<1>2. /\ TypeOK /\ Inst.n \in Nat /\ Size(Inst.ty) \in 1 .. 8 /\ Size(Inst.ty) <= Top.ptr
      /\ Pops(Inst) = Size(Inst.ty) /\ Top \in Frame
  BY <1>1, ReadyFacts, TopType DEF Pops, Instruction, ArithKinds, CompareKinds
<1>3. word \in Seq(Byte) /\ Len(word) = Pops(Inst)
  BY <1>2, TopOperandType
<1>4. frames' = [frames EXCEPT ![Len(frames)] = Dropped(f, Len(word))]
  BY DEF Store
<1> HIDE DEF word
<1>5. f \in Frame /\ f.ptr = Top.ptr
  <2>1. Top.addr \in Nat
    BY <1>2, AddrType DEF Frame
  <2>2. Top.addr + Inst.n \in Nat
    BY <1>2, <2>1
  <2> QED
    BY <1>2, <1>3, <2>2, PokedFrame
<1> HIDE DEF f
<1>6. Dropped(f, Len(word)).ptr = Top.ptr - Pops(Inst)
  BY <1>3, <1>5 DEF Dropped, Frame
<1>7. frames \in Seq(Frame) /\ Len(frames) \in Nat \ {0}
  BY <1>2, TopType DEF TypeOK
<1>8. /\ Len(frames') = Len(frames)
      /\ \A e \in 1 .. (Len(frames) - 1) : frames'[e].ptr = frames[e].ptr
      /\ frames'[Len(frames)].ptr = Top.ptr - Pops(Inst)
  BY <1>4, <1>6, <1>7
<1> QED
  BY <1>1, <1>8, PopOnlyStep

LEMMA PsetStep ==
  ASSUME Inv, SavedInv, Remember, Pset
  PROVE  SavedInv'
<1> DEFINE bytes == Slice(Top.ptr - Pops(Inst), Size(Inst.ty))
           n(d) == IF d = Len(frames) THEN Pops(Inst) ELSE 0
<1>1. Ready({"pset"}) /\ stack' = stack
  BY DEF Pset
<1>2. Pops(Inst) \in Nat /\ frames \in Seq(Frame) /\ Len(frames) \in Nat \ {0}
  BY <1>1, ReadyFacts, TopType DEF Inv, TypeOK
<1>3. frames' = [d \in 1 .. Len(frames) |-> Dropped(PokeFrame(frames[d], Pointer, bytes), n(d))]
  BY DEF Pset
<1> HIDE DEF bytes
<1>4. ASSUME NEW d \in 1 .. Len(frames)
      PROVE  frames'[d].ptr = frames[d].ptr - n(d)
  <2>1. frames[d] \in Frame
    BY <1>2
  <2> QED
    BY <1>3, <2>1 DEF Dropped, PokeFrame, Frame
<1>5. Len(frames') = Len(frames)
  BY <1>2, <1>3
<1>6. \A e \in 1 .. (Len(frames) - 1) : frames'[e].ptr = frames[e].ptr
  <2> SUFFICES ASSUME NEW e \in 1 .. (Len(frames) - 1)
               PROVE  frames'[e].ptr = frames[e].ptr
    OBVIOUS
  <2>1. e \in 1 .. Len(frames) /\ frames[e] \in Frame /\ n(e) = 0
    BY <1>2
  <2>2. frames[e].ptr \in Nat
    BY <2>1 DEF Frame, StackIndex
  <2> QED
    BY <1>4, <2>1, <2>2
<1>7. frames'[Len(frames)].ptr = Top.ptr - Pops(Inst)
  BY <1>2, <1>4 DEF Top
<1> QED
  BY <1>1, <1>5, <1>6, <1>7, PopOnlyStep

\* The result of a ret lands at the caller's ptr, at or above the low of
\* every record that is left.
LEMMA RetStep ==
  ASSUME Inv, SavedInv, Remember, Ret
  PROVE  SavedInv'
<1> DEFINE n == Len(frames) - 1
           result == Slice(Top.ptr - Pops(Inst), Pops(Inst))
           rest == SubSeq(frames, 1, n)
<1>1. Ready(ReturnKinds) /\ Len(frames) > 1
  BY DEF Ret
<1>2. /\ TypeOK /\ frames \in Seq(Frame) /\ n \in Nat \ {0} /\ n <= Len(frames)
      /\ Pops(Inst) \in Nat /\ Pops(Inst) <= Top.ptr
      /\ Top.ptr \in Nat /\ Top.ptr < STACK_SIZE /\ STACK_SIZE \in Nat
  <2>1. TypeOK /\ Pops(Inst) \in Nat /\ Pops(Inst) <= Top.ptr
        /\ Top.ptr \in Nat /\ Top.ptr < STACK_SIZE
    BY <1>1, ReadyFacts
  <2>2. frames \in Seq(Frame)
    BY <2>1 DEF TypeOK
  <2>4. PICK depth \in Nat : depth = Len(frames)
    BY <2>2
  <2>5. depth - 1 \in Nat \ {0} /\ depth - 1 <= depth
    BY <1>1, <2>4
  <2>3. n \in Nat \ {0} /\ n <= Len(frames)
    BY <2>4, <2>5
  <2> QED
    BY <2>1, <2>2, <2>3, SizeAssumption
<1>3. result \in Seq(Byte)
  <2>1. Top.ptr - Pops(Inst) \in Nat /\ (Top.ptr - Pops(Inst)) + Pops(Inst) <= STACK_SIZE
    BY <1>2
  <2> QED
    BY <1>2, <2>1, SliceType
<1>4. /\ stack' = Overwrite(Caller.ptr, result)
      /\ frames' = [rest EXCEPT ![n].ptr = @ + Len(result)]
  BY DEF Ret, Pushed
<1> HIDE DEF result
<1>5. Caller = frames[n] /\ Caller \in Frame
  <2>1. Caller = frames[n]
    BY DEF Caller
  <2> HIDE DEF n
  <2>2. n \in 1 .. Len(frames)
    BY <1>2
  <2> QED
    BY <1>2, <2>1, <2>2
<1>6. Caller.ptr \in Nat /\ Caller.ptr <= STACK_SIZE
  BY <1>2, <1>5, SMTT(30) DEF Frame, StackIndex
<1>7. /\ rest \in Seq(Frame) /\ Len(rest) = n
      /\ \A d \in 1 .. n : rest[d] = frames[d]
  <2> HIDE DEF n
  <2> QED
    BY <1>2
<1> HIDE DEF rest, n
<1>8. Len(frames') = n
  BY <1>4, <1>7
<1>9. \A e \in 2 .. n : frames'[e].ptr \in Nat /\ frames[e].ptr <= frames'[e].ptr
  <2> SUFFICES ASSUME NEW e \in 2 .. n
               PROVE  frames'[e].ptr \in Nat /\ frames[e].ptr <= frames'[e].ptr
    OBVIOUS
  <2>1. e \in 1 .. n /\ rest[e] = frames[e] /\ frames[e] \in Frame
    BY <1>2, <1>7
  <2>2. frames[e].ptr \in Nat
    BY <2>1 DEF Frame, StackIndex
  <2>3. frames'[e].ptr = IF e = n THEN frames[e].ptr + Len(result) ELSE frames[e].ptr
    BY <1>4, <1>7, <2>1 DEF Frame
  <2>4. Len(result) \in Nat
    BY <1>3
  <2> QED
    BY <2>2, <2>3, <2>4
<1>10. \A d \in 1 .. (n - 1) : \A b \in 0 .. (Lesser(saved[d].low, LowPoint) - 1) :
         stack'[b] = stack[b]
  <2> SUFFICES ASSUME NEW d \in 1 .. (n - 1),
                      NEW b \in 0 .. (Lesser(saved[d].low, LowPoint) - 1)
               PROVE  stack'[b] = stack[b]
    OBVIOUS
  <2>1. d \in 1 .. Len(saved) /\ n \in (d + 1) .. Len(frames) /\ saved[d] \in Record
    BY <1>2 DEF n, SavedInv, LowBelowCallees
  <2>2. saved[d].low <= frames[n].ptr /\ saved[d].low \in Nat
    BY <2>1 DEF SavedInv, LowBelowCallees, Record
  <2>3. b \in Nat /\ b < saved[d].low
    BY <2>2, LowPointType, LesserBelow
  <2>4. b < Caller.ptr
    BY <1>5, <1>6, <2>2, <2>3
  <2> QED
    BY <1>3, <1>4, <1>6, <2>3, <2>4, OverwriteAbove
<1> QED
  BY <1>2, <1>8, <1>9, <1>10, NoCallStep

\* A call records the stack as it is, up to the point where caller and
\* callee both start.
LEMMA CallStep ==
  ASSUME Inv, SavedInv, Remember, Jumpproc
  PROVE  SavedInv'
<1> DEFINE n == Len(frames)
           m == Len(saved)
           record == [image |-> stack, low |-> LowPoint]
<1>1. Ready({"jumpproc"}) /\ stack' = stack
  BY DEF Jumpproc
<1>2. /\ TypeOK /\ frames \in Seq(Frame) /\ n \in Nat \ {0} /\ Top = frames[n]
      /\ Inst.n \in Nat /\ Pops(Inst) = Inst.n /\ Top \in Frame
      /\ LowPoint \in Nat /\ LowPoint = Top.ptr - Pops(Inst)
      /\ Inst.n <= Top.ptr
  <2>1. TypeOK /\ Inst \in Instruction /\ Inst.kind = "jumpproc"
    BY <1>1, ReadyFacts DEF Ready
  <2>2. frames \in Seq(Frame) /\ n \in Nat \ {0} /\ Top \in Frame
    BY <2>1, TopType DEF TypeOK
  <2>3. Inst.n \in Nat /\ Pops(Inst) = Inst.n
    BY <2>1 DEF Pops, Instruction, ArithKinds
  <2>4. LowPoint \in Nat /\ LowPoint = Top.ptr - Pops(Inst)
    BY <1>1, LowPointType
  <2>5. Pops(Inst) <= Top.ptr
    BY <1>1 DEF Ready
  <2> QED
    BY <2>1, <2>2, <2>3, <2>4, <2>5 DEF Top
<1>3. PICK a \in FrameAddr, junk \in JunkLocals :
        frames' = Append([frames EXCEPT ![n] = Dropped(Top, Inst.n)], Callee(a, junk))
  BY DEF Jumpproc
<1>4. Callee(a, junk).ptr = LowPoint /\ Dropped(Top, Inst.n).ptr = LowPoint
  BY <1>2 DEF Callee, Dropped, Frame
<1>5. /\ Len(frames') = n + 1 /\ frames'[n].ptr = LowPoint /\ frames'[n + 1].ptr = LowPoint
      /\ \A e \in 1 .. (n - 1) : frames'[e] = frames[e]
  <2> DEFINE base == [frames EXCEPT ![n] = Dropped(Top, Inst.n)]
             callee == Callee(a, junk)
  <2>0. Dropped(Top, Inst.n) \in Frame
    BY <1>2, DroppedFrame
  <2>1. /\ base \in Seq(Frame) /\ Len(base) = n
        /\ base[n] = Dropped(Top, Inst.n)
        /\ \A e \in 1 .. (n - 1) : base[e] = frames[e]
    BY <1>2, <2>0
  <2>2. frames' = Append(base, callee)
    BY <1>3
  <2> HIDE DEF base, callee, n
  <2>3. /\ Len(frames') = n + 1 /\ frames'[n + 1] = callee
        /\ \A e \in 1 .. n : frames'[e] = base[e]
    BY <1>2, <2>1, <2>2
  <2> QED
    BY <1>2, <1>4, <2>1, <2>3 DEF callee
<1>6. m = n - 1 /\ saved \in Seq(Record)
  BY DEF SavedInv, LowBelowCallees
<1>7. saved' = Append(Lowered, record)
  BY <1>2, <1>5 DEF Remember
<1>8. record \in Record
  BY <1>2 DEF Record, TypeOK
<1> HIDE DEF n, record
<1>9. /\ saved' \in Seq(Record) /\ Len(saved') = n /\ saved'[n] = record
      /\ \A d \in 1 .. m : saved'[d] = Lowered[d]
  <2>1. Lowered \in Seq(Record) /\ Len(Lowered) = m
    BY LoweredType
  <2> HIDE DEF m
  <2> QED
    BY <1>2, <1>6, <1>7, <1>8, <2>1
<1>10. \A d \in 1 .. m :
         /\ saved[d].low \in Nat
         /\ saved'[d].image = saved[d].image
         /\ saved'[d].low = Lesser(saved[d].low, LowPoint)
  <2> SUFFICES ASSUME NEW d \in 1 .. m
               PROVE  /\ saved[d].low \in Nat
                      /\ saved'[d].image = saved[d].image
                      /\ saved'[d].low = Lesser(saved[d].low, LowPoint)
    OBVIOUS
  <2>1. saved[d] \in Record
    BY <1>6
  <2>2. saved[d].low \in Nat
    BY <2>1 DEF Record
  <2> QED
    BY <1>9, <2>2, LoweredType
<1>11. record.low = LowPoint /\ record.image = stack
  BY DEF record
<1>12. LowBelowCallees'
  <2> SUFFICES ASSUME NEW d \in 1 .. n, NEW e \in (d + 1) .. (n + 1)
               PROVE  saved'[d].low <= frames'[e].ptr
    BY <1>2, <1>5, <1>9 DEF LowBelowCallees
  <2>1. saved'[d].low \in Nat /\ saved'[d].low <= LowPoint
    <3>1. CASE d = n
      BY <1>2, <1>9, <1>11, <3>1
    <3>2. CASE d # n
      <4>1. d \in 1 .. m
        BY <1>2, <1>6, <3>2
      <4> QED
        BY <1>2, <1>10, <4>1 DEF Lesser
    <3> QED
      BY <3>1, <3>2
  <2>2. CASE e \in n .. (n + 1)
    BY <1>2, <1>5, <2>1, <2>2
  <2>3. CASE e \notin n .. (n + 1)
    <3>1. d \in 1 .. m /\ e \in (d + 1) .. n /\ e \in 1 .. (n - 1)
      BY <1>2, <1>6, <2>3
    <3>2. saved[d].low <= frames[e].ptr
      BY <3>1 DEF SavedInv, LowBelowCallees, n, m
    <3>3. frames[e] \in Frame
      BY <1>2, <3>1 DEF n
    <3>4. frames[e].ptr \in Nat
      BY <3>3 DEF Frame, StackIndex
    <3> QED
      BY <1>2, <1>5, <1>10, <3>1, <3>2, <3>4 DEF Lesser
  <2> QED
    BY <2>2, <2>3
<1>13. CallerOperandsKept'
  <2> SUFFICES ASSUME NEW d \in 1 .. n, NEW b \in 0 .. (saved'[d].low - 1)
               PROVE  stack[b] = saved'[d].image[b]
    BY <1>1, <1>9 DEF CallerOperandsKept
  <2>1. CASE d = n
    BY <1>9, <1>11, <2>1
  <2>2. CASE d # n
    <3>1. d \in 1 .. m
      BY <1>2, <1>6, <2>2
    <3>2. b \in 0 .. (saved[d].low - 1)
      BY <1>2, <1>10, <3>1 DEF Lesser
    <3> QED
      BY <1>10, <3>1, <3>2 DEF SavedInv, CallerOperandsKept
  <2> QED
    BY <2>1, <2>2
<1> QED
  BY <1>12, <1>13 DEF SavedInv
-----------------------------------------------------------------------------
(* The theorem.                                                            *)

LEMMA SavedStep == Inv /\ SavedInv /\ [NextCalls]_callVars => SavedInv'
<1> SUFFICES ASSUME Inv, SavedInv, [NextCalls]_callVars
             PROVE  SavedInv'
  OBVIOUS
<1>1. CASE UNCHANGED callVars
  BY <1>1 DEF callVars, vars, SavedInv, LowBelowCallees, CallerOperandsKept
<1>2. CASE NextCalls
  <2>0. Next /\ Remember
    BY <1>2 DEF NextCalls
  <2>1. CASE EmptyStack
    BY <2>0, <2>1, IdleStep DEF EmptyStack
  <2>2. CASE Shuffle
    BY <2>0, <2>2, ShuffleRewrites, RewriteStep
  <2>3. CASE Store
    BY <2>0, <2>3, StoreStep
  <2>4. CASE Pset
    BY <2>0, <2>4, PsetStep
  <2>5. CASE Jump \/ Jumpcmp
    BY <2>0, <2>5, IdleStep DEF Jump, Jumpcmp
  <2>6. CASE Jumpproc
    BY <2>0, <2>6, CallStep
  <2>7. CASE Ret
    BY <2>0, <2>7, RetStep
  <2>8. CASE Abort \/ Halt
    <3>1. UNCHANGED <<stack, frames>>
      BY <2>8 DEF Abort, Halt, OperandFault, StackOverflow, Trap, LocalsFault, WildPointer,
                  OutOfMemory, ReturnStackFault, ArgumentsFault, RetOverflow, NullFrame, Stop
    <3> QED
      BY <2>0, <3>1, IdleStep
  <2> QED
    BY <2>0, <2>1, <2>2, <2>3, <2>4, <2>5, <2>6, <2>7, <2>8 DEF Next, Transfer
<1> QED
  BY <1>1, <1>2

\* However calls nest and whatever the callees push, return or store, the
\* operands of every suspended caller are untouched below the lowest point
\* that ptr has been at since its call.
THEOREM OperandsKept == SpecCalls => []CallerOperandsKept
<1>1. InitCalls => Inv /\ SavedInv
  <2> SUFFICES ASSUME InitCalls
               PROVE  Inv /\ SavedInv
    OBVIOUS
  <2>1. Inv /\ saved = <<>> /\ Len(frames) = 1
    BY InitInv DEF InitCalls, Init
  <2> QED
    BY <2>1 DEF SavedInv, LowBelowCallees, CallerOperandsKept
<1>2. Inv /\ SavedInv /\ [NextCalls]_callVars => Inv' /\ SavedInv'
  <2>1. [NextCalls]_callVars => [Next]_vars
    BY DEF NextCalls, callVars
  <2> QED
    BY <2>1, NextKeepsInv, SavedStep
<1>3. Inv /\ SavedInv => CallerOperandsKept
  BY DEF SavedInv
<1> QED
  BY <1>1, <1>2, <1>3, PTL DEF SpecCalls
=============================================================================

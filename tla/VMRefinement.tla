---------------------------- MODULE VMRefinement ----------------------------
(***************************************************************************)
(* Calls and returns of the bytecode machine: how deep they go, and that   *)
(* the frame list and the return stack together implement CallMachine.     *)
(***************************************************************************)
EXTENDS VMProof

-----------------------------------------------------------------------------
(* The depth of calls.                                                     *)

\* The frames in the list are as many as the return slots in use, plus one.
LEMMA DepthOfList ==
  ASSUME Inv
  PROVE  /\ Len(frames) \in Nat \ {0}
         /\ Top.rsp = Len(frames) - 1
         /\ Len(frames) <= RETURN_SLOTS + 1
<1>1. Len(frames) \in Nat \ {0} /\ Top \in Frame /\ Top = frames[Len(frames)]
  BY TopType DEF Inv, Top
<1>2. Top.rsp = Len(frames) - 1
  BY <1>1 DEF Inv, FrameChain
<1>3. Top.rsp <= RETURN_SLOTS
  BY <1>1, SlotsType DEF Frame
<1> QED
  BY <1>1, <1>2, <1>3, SlotsType

LEMMA DepthInvariant == Inv => Len(frames) <= RETURN_SLOTS + 1
BY DepthOfList

\* Nested calls fill the return stack slot by slot; the call that finds no
\* slot left is the one from the deepest frame the stack allows.
THEOREM DepthBounded == Spec => []CallDepth
<1>1. Init => status = "running"
  BY DEF Init
<1>0. (Inv => Len(frames) <= RETURN_SLOTS + 1)'
  BY DepthInvariant, PTL
<1>2. ASSUME Inv, Inv', CallDepth, [Next]_vars
      PROVE  CallDepth'
  <2>1. Len(frames)' <= RETURN_SLOTS + 1
    BY <1>0, <1>2
  <2>2. CASE ReturnStackFault
    <3>1. Len(frames) \in Nat /\ Top.rsp = Len(frames) - 1 /\ Len(frames) <= RETURN_SLOTS + 1
      BY <1>2, DepthOfList
    <3>2. Top.rsp >= RETURN_SLOTS /\ frames' = frames
      BY <2>2 DEF ReturnStackFault, Stop
    <3> QED
      BY <2>1, <3>1, <3>2, SlotsType DEF CallDepth
  <2>3. CASE Next /\ ~ReturnStackFault
    <3>1. status' # "return_stack"
      BY <2>3 DEF Next, EmptyStack, Shuffle, Store, Pset, Transfer, Abort, Halt, Continue,
                  Stop, Rewrite, Fetch, Ready, Push, Ppush, Pload, Arith, Compare, PrintTop,
                  Pop, Swap, Dupe, Copy, LoadLocal, Pderef, Jump, Jumpcmp, Jumpproc, Ret,
                  OperandFault, StackOverflow, Trap, LocalsFault, WildPointer, OutOfMemory,
                  ArgumentsFault, RetOverflow, NullFrame
    <3> QED
      BY <2>1, <3>1 DEF CallDepth
  <2>4. CASE UNCHANGED vars
    BY <1>2, <2>4 DEF vars, CallDepth
  <2> QED
    BY <1>2, <2>2, <2>3, <2>4
<1>3. Inv /\ status = "running" => CallDepth
  BY DepthOfList DEF CallDepth
<1> QED
  BY <1>1, <1>2, <1>3, Invariance, InitInv, PTL DEF Spec
-----------------------------------------------------------------------------
(* The refinement: what each action does to the calls in progress.         *)

\* Suspended frame d resumes at return slot d - 1.
LEMMA RecordsType ==
  ASSUME Inv
  PROVE  /\ pc \in Nat /\ Top.ptr \in Nat /\ Len(frames) \in Nat \ {0}
         /\ \A d \in 1 .. (Len(frames) - 1) :
              /\ frames[d + 1].rsp - 1 = d - 1
              /\ return_stack[d - 1] \in Nat /\ frames[d].ptr \in Nat
         /\ CallsInProgress = [d \in 1 .. (Len(frames) - 1) |->
                                 [ret |-> return_stack[d - 1], height |-> frames[d].ptr]]
<1>1. /\ pc \in Nat /\ Top.ptr \in Nat /\ Len(frames) \in Nat \ {0}
      /\ frames \in Seq(Frame) /\ return_stack \in [0 .. (RETURN_SLOTS - 1) -> Nat]
  BY TopType DEF Inv, TypeOK, StackIndex
<1>2. Len(frames) <= RETURN_SLOTS + 1
  BY DepthOfList
<1>3. ASSUME NEW d \in 1 .. (Len(frames) - 1)
      PROVE  /\ frames[d + 1].rsp - 1 = d - 1
             /\ return_stack[d - 1] \in Nat /\ frames[d].ptr \in Nat
  <2>1. d \in 1 .. Len(frames) /\ d + 1 \in 1 .. Len(frames) /\ d - 1 \in 0 .. (RETURN_SLOTS - 1)
    BY <1>1, <1>2, SlotsType
  <2>2. frames[d + 1].rsp = d
    BY <2>1 DEF Inv, FrameChain
  <2>3. frames[d] \in Frame
    BY <1>1, <2>1
  <2>4. frames[d].ptr \in Nat
    BY <2>3 DEF Frame, StackIndex
  <2>5. frames[d + 1].rsp - 1 = d - 1
    BY <2>2
  <2>6. return_stack[d - 1] \in Nat
    BY <1>1, <2>1
  <2> QED
    BY <2>4, <2>5, <2>6
<1> QED
  BY <1>1, <1>3 DEF CallsInProgress

LEMMA RecordsInvariant ==
  Inv => /\ pc \in Nat /\ Top.ptr \in Nat /\ Len(frames) \in Nat \ {0}
         /\ CallsInProgress = [d \in 1 .. (Len(frames) - 1) |->
                                 [ret |-> return_stack[d - 1], height |-> frames[d].ptr]]
BY RecordsType

\* What a step of the machine has to keep for the calls in progress to be
\* the same behind it: the return stack, and the ptr of suspended frames.
LEMMA QuietStep ==
  ASSUME pc' \in Nat, Top'.ptr \in Nat, return_stack' = return_stack,
         Len(frames') = Len(frames),
         \A d \in 1 .. (Len(frames) - 1) : frames'[d].ptr = frames[d].ptr,
         CallsInProgress = [d \in 1 .. (Len(frames) - 1) |->
                              [ret |-> return_stack[d - 1], height |-> frames[d].ptr]],
         CallsInProgress' = [d \in 1 .. (Len(frames') - 1) |->
                               [ret |-> return_stack'[d - 1], height |-> frames'[d].ptr]]
  PROVE  Calls!Step
<1>1. CallsInProgress' = CallsInProgress
  OBVIOUS
<1> QED
  BY <1>1 DEF Calls!Step

\* Every handler but those of calls and returns leaves them alone.
LEMMA QuietActions ==
  ASSUME Inv, EmptyStack \/ Shuffle \/ Store \/ Pset \/ Jump \/ Jumpcmp \/ Abort \/ Halt
  PROVE  /\ return_stack' = return_stack
         /\ Len(frames') = Len(frames)
         /\ \A d \in 1 .. (Len(frames) - 1) : frames'[d].ptr = frames[d].ptr
<1>1. frames \in Seq(Frame) /\ Len(frames) \in Nat \ {0}
  BY TopType DEF Inv, TypeOK
<1>2. CASE frames' = frames /\ return_stack' = return_stack
  BY <1>2
<1>3. ASSUME NEW bytes, Rewrite(bytes)
      PROVE  /\ return_stack' = return_stack
             /\ Len(frames') = Len(frames)
             /\ \A d \in 1 .. (Len(frames) - 1) : frames'[d] = frames[d]
  BY <1>1, <1>3 DEF Rewrite
<1>4. CASE Shuffle
  <2>1. \E bytes : Rewrite(bytes)
    BY <1>4 DEF Shuffle, Push, Ppush, Pload, Arith, Compare, PrintTop, Pop, Swap, Dupe,
                Copy, LoadLocal, Pderef
  <2> QED
    BY <1>3, <2>1
<1>5. CASE Store
  <2>1. return_stack' = return_stack /\ \E f : frames' = [frames EXCEPT ![Len(frames)] = f]
    BY <1>5 DEF Store
  <2> QED
    BY <1>1, <2>1
<1>6. CASE Pset
  <2>1. PICK bytes : /\ frames' = [d \in 1 .. Len(frames) |->
                                     Dropped(PokeFrame(frames[d], Pointer, bytes),
                                             IF d = Len(frames) THEN Pops(Inst) ELSE 0)]
                     /\ return_stack' = return_stack
    BY <1>6 DEF Pset
  <2>2. Len(frames') = Len(frames)
    BY <1>1, <2>1
  <2>3. ASSUME NEW d \in 1 .. (Len(frames) - 1)
        PROVE  frames'[d].ptr = frames[d].ptr
    <3>1. d \in 1 .. Len(frames) /\ d # Len(frames)
      BY <1>1
    <3>0. frames[d] \in Frame
      BY <1>1, <3>1
    <3>2. frames[d].ptr \in Nat
      BY <3>0 DEF Frame, StackIndex
    <3>3. frames'[d] = Dropped(PokeFrame(frames[d], Pointer, bytes), 0)
      BY <2>1, <3>1
    <3> QED
      BY <3>0, <3>2, <3>3 DEF Dropped, PokeFrame, Frame
  <2> QED
    BY <2>1, <2>2, <2>3
<1>7. CASE EmptyStack \/ Jump \/ Jumpcmp \/ Abort \/ Halt
  <2>1. frames' = frames /\ return_stack' = return_stack
    BY <1>7 DEF EmptyStack, Jump, Jumpcmp, Abort, Halt, Stop, OperandFault, StackOverflow,
                Trap, LocalsFault, WildPointer, OutOfMemory, ReturnStackFault,
                ArgumentsFault, RetOverflow, NullFrame
  <2> QED
    BY <2>1
<1> QED
  BY <1>4, <1>5, <1>6, <1>7

\* jumpproc is Enter: one record more, made of the pc behind the call and of
\* what the arguments leave of the caller's operands.
LEMMA CallEnters ==
  ASSUME Inv, Inv', Jumpproc,
         CallsInProgress' = [d \in 1 .. (Len(frames') - 1) |->
                               [ret |-> return_stack'[d - 1], height |-> frames'[d].ptr]],
         pc' \in Nat
  PROVE  Calls!Enter
<1> DEFINE depth == Len(frames)
           left == Top.ptr - Inst.n
<1>1. Ready({"jumpproc"}) /\ Top.rsp < RETURN_SLOTS
  BY DEF Jumpproc
<1>2. /\ Inst.n \in Nat /\ Pops(Inst) <= Top.ptr /\ Top.ptr \in Nat /\ Inst.kind = "jumpproc"
  BY <1>1, ReadyFacts DEF Inv, Instruction, Ready
<1>3. Inst.n \in 0 .. Top.ptr /\ left \in Nat
  BY <1>2 DEF Pops, ArithKinds
<1>4. depth \in Nat \ {0} /\ Top.rsp = depth - 1 /\ frames \in Seq(Frame) /\ Top = frames[depth]
  BY DepthOfList DEF Inv, TypeOK, Top
<1>5. return_stack' = [return_stack EXCEPT ![depth - 1] = pc + 1]
  BY <1>4 DEF Jumpproc, PushReturn
<1>6. return_stack \in [0 .. (RETURN_SLOTS - 1) -> Nat] /\ depth - 1 \in 0 .. (RETURN_SLOTS - 1)
  BY <1>1, <1>4, SlotsType, SMTT(30) DEF Inv, TypeOK
<1>7. PICK callee : /\ frames' = Append([frames EXCEPT ![depth] = Dropped(Top, Inst.n)], callee)
                    /\ callee.ptr = left
  BY DEF Jumpproc, Callee
<1>8. /\ Len(frames') = depth + 1 /\ Top'.ptr = left
      /\ \A d \in 1 .. (depth - 1) : frames'[d] = frames[d]
      /\ frames'[depth].ptr = left
  <2>1. Dropped(Top, Inst.n).ptr = left
    <3>1. Top \in Frame
      BY <1>4
    <3> QED
      BY <3>1 DEF Dropped, Frame
  <2> HIDE DEF left
  <2>2. /\ Len(frames') = depth + 1 /\ frames'[depth + 1] = callee
        /\ frames'[depth] = Dropped(Top, Inst.n)
        /\ \A d \in 1 .. (depth - 1) : frames'[d] = frames[d]
    BY <1>4, <1>7
  <2> QED
    BY <1>7, <2>1, <2>2 DEF Top
<1>9. CallsInProgress = [d \in 1 .. (depth - 1) |->
                           [ret |-> return_stack[d - 1], height |-> frames[d].ptr]]
  BY RecordsType
<1>10. CallsInProgress' = Append(CallsInProgress, [ret |-> pc + 1, height |-> left])
  <2> HIDE DEF depth, left
  <2>1. CallsInProgress' = [d \in 1 .. depth |->
                              [ret |-> return_stack'[d - 1], height |-> frames'[d].ptr]]
    BY <1>4, <1>8
  <2>2. ASSUME NEW d \in 1 .. (depth - 1)
        PROVE  return_stack'[d - 1] = return_stack[d - 1] /\ frames'[d].ptr = frames[d].ptr
    BY <1>4, <1>5, <1>6, <1>8
  <2>3. return_stack'[depth - 1] = pc + 1 /\ frames'[depth].ptr = left
    BY <1>5, <1>6, <1>8
  <2> QED
    BY <1>4, <1>9, <2>1, <2>2, <2>3
<1> QED
  BY <1>3, <1>8, <1>10 DEF Calls!Enter

\* A ret is Leave: the last record goes, and its pc and height come back.
LEMMA RetLeaves ==
  ASSUME Inv, Inv', Ret,
         CallsInProgress' = [d \in 1 .. (Len(frames') - 1) |->
                               [ret |-> return_stack'[d - 1], height |-> frames'[d].ptr]]
  PROVE  Calls!Leave
<1> DEFINE depth == Len(frames)
           rest == SubSeq(frames, 1, depth - 1)
           result == Slice(Top.ptr - Pops(Inst), Pops(Inst))
<1>1. Ready(ReturnKinds) /\ depth > 1
  BY DEF Ret
<1>2. Pops(Inst) \in Nat /\ Pops(Inst) <= Top.ptr /\ Top.ptr \in Nat
  BY <1>1, ReadyFacts
<1>3. Len(result) = Pops(Inst)
  BY <1>2 DEF Slice
<1>4. depth \in Nat \ {0} /\ Top.rsp = depth - 1 /\ frames \in Seq(Frame)
  BY DepthOfList DEF Inv, TypeOK
<1>5. /\ frames' = [rest EXCEPT ![depth - 1].ptr = @ + Pops(Inst)]
      /\ pc' = return_stack[depth - 2]
      /\ return_stack' = return_stack
  <2> HIDE DEF rest
  <2>1. /\ frames' = [rest EXCEPT ![depth - 1].ptr = @ + Len(result)]
        /\ pc' = return_stack[Top.rsp - 1]
        /\ return_stack' = return_stack
    BY DEF Ret, ReturnAddress, rest
  <2> HIDE DEF depth, result
  <2>2. Top.rsp - 1 = depth - 2
    BY <1>4
  <2> QED
    BY <1>3, <2>1, <2>2, Zenon
<1> HIDE DEF result
<1>6. /\ rest \in Seq(Frame) /\ Len(rest) = depth - 1
      /\ \A d \in 1 .. (depth - 1) : rest[d] = frames[d]
  <2> HIDE DEF depth
  <2>1. depth = Len(frames)
    BY DEF depth
  <2> QED
    BY <1>1, <1>4, <2>1
<1> HIDE DEF rest
<1>7. /\ Len(frames') = depth - 1
      /\ \A d \in 1 .. (depth - 2) : frames'[d].ptr = frames[d].ptr
      /\ frames'[depth - 1].ptr = frames[depth - 1].ptr + Pops(Inst)
  <2> HIDE DEF depth
  <2>1. depth - 1 \in 1 .. Len(rest) /\ rest[depth - 1] = frames[depth - 1]
    BY <1>1, <1>4, <1>6
  <2>2. PICK f \in Frame : f = frames[depth - 1]
    BY <1>6, <2>1
  <2>3. [f EXCEPT !.ptr = @ + Pops(Inst)].ptr = f.ptr + Pops(Inst)
    BY DEF Frame
  <2>4. frames' = [rest EXCEPT ![depth - 1] = [f EXCEPT !.ptr = @ + Pops(Inst)]]
    BY <1>5, <2>1, <2>2
  <2>5. Len(frames') = depth - 1 /\ frames'[depth - 1] = [f EXCEPT !.ptr = @ + Pops(Inst)]
    BY <1>6, <2>1, <2>4
  <2>6. ASSUME NEW d \in 1 .. (depth - 2)
        PROVE  frames'[d].ptr = frames[d].ptr
    <3>1. d \in 1 .. (depth - 1) /\ d # depth - 1
      BY <1>4
    <3> QED
      BY <1>6, <2>4, <3>1
  <2> QED
    BY <2>2, <2>3, <2>5, <2>6
<1>8. CallsInProgress = [d \in 1 .. (depth - 1) |->
                           [ret |-> return_stack[d - 1], height |-> frames[d].ptr]]
  BY RecordsType
<1>9. CallsInProgress' = [d \in 1 .. (depth - 2) |->
                            [ret |-> return_stack[d - 1], height |-> frames[d].ptr]]
  <2> HIDE DEF depth
  <2> QED
    BY <1>4, <1>5, <1>7
<1>10. Top'.ptr = frames[depth - 1].ptr + Pops(Inst)
  BY <1>7 DEF Top
<1> HIDE DEF depth
<1>11. /\ Len(CallsInProgress) = depth - 1 /\ CallsInProgress # <<>>
       /\ CallsInProgress[depth - 1] = [ret |-> return_stack[depth - 2],
                                        height |-> frames[depth - 1].ptr]
  <2>1. depth - 1 \in 1 .. (depth - 1) /\ (depth - 1) - 1 = depth - 2
    BY <1>1, <1>4
  <2>2. Len(CallsInProgress) = depth - 1 /\ CallsInProgress # <<>>
    BY <1>8, <2>1
  <2> QED
    BY <1>8, <2>1, <2>2
<1>12. CallsInProgress' = SubSeq(CallsInProgress, 1, Len(CallsInProgress) - 1)
  BY <1>1, <1>4, <1>8, <1>9, <1>11
<1>13. /\ pc' = CallsInProgress[Len(CallsInProgress)].ret
       /\ Top'.ptr = CallsInProgress[Len(CallsInProgress)].height + Pops(Inst)
  BY <1>5, <1>10, <1>11
<1> QED
  BY <1>2, <1>11, <1>12, <1>13, SMTT(30) DEF Calls!Leave

LEMMA InitMaps == Init => Calls!Init
<1> SUFFICES ASSUME Init
             PROVE  Calls!Init
  OBVIOUS
<1>1. Len(frames) = 1 /\ frames[1].ptr = 0 /\ pc = 0
  BY DEF Init
<1>2. Top.ptr = 0
  BY <1>1 DEF Top
<1>3. CallsInProgress = <<>>
  BY <1>1 DEF CallsInProgress
<1> QED
  BY <1>1, <1>2, <1>3 DEF Calls!Init

LEMMA NextMaps ==
  ASSUME Inv, Inv', [Next]_vars,
         pc' \in Nat, Top'.ptr \in Nat,
         CallsInProgress' = [d \in 1 .. (Len(frames') - 1) |->
                               [ret |-> return_stack'[d - 1], height |-> frames'[d].ptr]]
  PROVE  [Calls!Next]_<<pc, Top.ptr, CallsInProgress>>
<1>1. CASE EmptyStack \/ Shuffle \/ Store \/ Pset \/ Jump \/ Jumpcmp \/ Abort \/ Halt
  <2>1. /\ return_stack' = return_stack
        /\ Len(frames') = Len(frames)
        /\ \A d \in 1 .. (Len(frames) - 1) : frames'[d].ptr = frames[d].ptr
    BY <1>1, QuietActions
  <2>2. CallsInProgress = [d \in 1 .. (Len(frames) - 1) |->
                             [ret |-> return_stack[d - 1], height |-> frames[d].ptr]]
    BY RecordsType
  <2>3. Calls!Step
    BY <2>1, <2>2, QuietStep
  <2> QED
    BY <2>3 DEF Calls!Next
<1>2. CASE Jumpproc
  BY <1>2, CallEnters DEF Calls!Next
<1>3. CASE Ret
  BY <1>3, RetLeaves DEF Calls!Next
<1>4. CASE UNCHANGED vars
  <2>1. pc' = pc /\ Top'.ptr = Top.ptr /\ CallsInProgress' = CallsInProgress
    BY <1>4 DEF vars, Top, CallsInProgress
  <2> QED
    BY <2>1
<1> QED
  BY <1>1, <1>2, <1>3, <1>4 DEF Next, Transfer

\* The frame list, the return stack and the ptrs of ass.c, for every
\* program and every size, behave as one last-in first-out record of calls.
THEOREM Refinement == Spec => ImplementsCalls
<1>1. Init => Calls!Init
  BY InitMaps
<1>2. (Inv => /\ pc \in Nat /\ Top.ptr \in Nat /\ Len(frames) \in Nat \ {0}
              /\ CallsInProgress = [d \in 1 .. (Len(frames) - 1) |->
                                      [ret |-> return_stack[d - 1],
                                       height |-> frames[d].ptr]])'
  BY RecordsInvariant, PTL
<1>3. Inv /\ Inv' /\ [Next]_vars => [Calls!Next]_<<pc, Top.ptr, CallsInProgress>>
  BY <1>2, NextMaps
<1>5. Inv /\ Inv' /\ [Next]_vars => [Calls!Next]_(Calls!cvars)
  BY <1>3 DEF Calls!cvars
<1> QED
  BY <1>1, <1>5, Invariance, PTL DEF Spec, ImplementsCalls, Calls!Spec
=============================================================================

--------------------------------- MODULE VM ---------------------------------
(***************************************************************************)
(* The bytecode machine of ass.c: Ctx, FramePointer, exec_instruction and  *)
(* begin_execution.  One step of Next is one turn of the fetch loop.       *)
(*                                                                         *)
(* Memory is what the code addresses: the operand stack (one byte array    *)
(* shared by every frame), the return stack (one array, into which every   *)
(* frame keeps a pointer of its own), the malloc'ed frames with their      *)
(* uninitialised locals, and the bytes of the declared data.  A step that  *)
(* leaves the object it may access ends the behaviour in a fault status:   *)
(* what the C program does next is undefined.  A read of an uninitialised  *)
(* byte inside the object is a choice.                                     *)
(***************************************************************************)
EXTENDS Words, Bytecode, FiniteSets

CONSTANTS
  Programs,       \* the resolved programs under study (output of parse_src)
  STACK_SIZE,     \* bytes of each of the two stacks
  LOCAL_SIZE,     \* bytes of locals in a frame
  SIZE32,         \* sizeof(int), sizeof(float), sizeof(int32_t)
  SIZE64,         \* sizeof(unsigned long), of int64_t and of a pointer
  AddressSpace,   \* pointers are computed modulo this
  StackAddr,      \* the address of Ctx.stack
  DataAddr,       \* the addresses of the declared bytes
  DataImages,     \* what the declared bytes may hold at the start
  FrameAddr,      \* the addresses malloc may give the locals of a frame
  JunkLocals      \* what freshly malloc'ed locals may hold

-----------------------------------------------------------------------------
(* Sizes and places.                                                       *)

Size(ty) ==
  IF ty \in {"C", "8"} THEN 1 ELSE IF ty \in {"I", "F", "32"} THEN SIZE32 ELSE SIZE64

RETURN_SLOTS == STACK_SIZE \div SIZE64

StackIndex == 0 .. (STACK_SIZE - 1)
LocalIndex == 0 .. (LOCAL_SIZE - 1)
LocalRange(addr) == addr .. (addr + LOCAL_SIZE - 1)

ASSUME SizeAssumption ==
  /\ STACK_SIZE \in Nat \ {0} /\ LOCAL_SIZE \in Nat \ {0}
  /\ SIZE32 \in 1 .. MaxWidth /\ SIZE64 \in 1 .. MaxWidth
  /\ SIZE32 <= SIZE64 /\ SIZE64 <= STACK_SIZE

ASSUME MemoryAssumption ==
  /\ StackAddr \in Nat /\ AddressSpace \in Nat
  /\ 2 * MaxWidth <= StackAddr /\ StackAddr + STACK_SIZE < AddressSpace
  /\ DataAddr \subseteq Nat /\ FrameAddr \subseteq Nat /\ FrameAddr # {}
  /\ \A a \in FrameAddr : LocalRange(a) \cap DataAddr = {}
  /\ \A a, b \in FrameAddr : a # b => LocalRange(a) \cap LocalRange(b) = {}
  /\ DataImages \subseteq [DataAddr -> Byte]
  /\ JunkLocals \subseteq [LocalIndex -> Byte] /\ JunkLocals # {}

ASSUME ProgramAssumption ==
  \A p \in Programs : p \in Seq(Instruction) /\ WellFormed(p)
-----------------------------------------------------------------------------
VARIABLES
  prog,           \* Ctx.instructions, written by parse_src only
  pc,             \* Ctx.pc
  stack,          \* Ctx.stack
  frames,         \* the list that starts at Ctx.frame_ptr, innermost last
  return_stack,   \* Ctx.return_stack, one element per size_t
  data,           \* the bytes behind the declarations
  status          \* "running", or how the process ended

vars == <<prog, pc, stack, frames, return_stack, data, status>>

Faults == {"operand_stack",   \* an operand lies outside Ctx.stack
           "return_stack",    \* a return address is written past its array
           "locals",          \* a local lies outside FramePointer.locals
           "wild_pointer",    \* a dereferenced address is nobody's
           "null_frame",      \* the frame list is empty after a ret
           "sigfpe"}          \* the division instruction traps

\* ptr and start are offsets into stack, rsp is an index into return_stack.
Frame == [ptr : StackIndex, rsp : 0 .. RETURN_SLOTS, start : StackIndex,
          locals : [LocalIndex -> Byte], addr : FrameAddr]

Inst == prog[pc + 1]
Top == frames[Len(frames)]

\* context_init: a first frame, zeroed stacks (Ctx context = {0} in main).
Init ==
  /\ prog \in Programs
  /\ pc = 0
  /\ stack = [k \in StackIndex |-> 0]
  /\ \E a \in FrameAddr, junk \in JunkLocals :
       frames = << [ptr |-> 0, rsp |-> 0, start |-> 0, locals |-> junk, addr |-> a] >>
  /\ return_stack = [k \in 0 .. (RETURN_SLOTS - 1) |-> 0]
  /\ data \in DataImages
  /\ status = "running"
-----------------------------------------------------------------------------
(* What an instruction asks of the operand stack.                          *)

\* The handlers that begin with a STACK_CHECK.
CheckedKinds ==
  Kinds \ {"push", "ppush", "pload", "load", "jump", "jumpproc", "unimplemented"}

\* Variant: swap checks for one operand only.
NeedOfOneForSwap(i) ==
  CASE i.kind \in ArithKinds \cup CompareKinds -> 2 * Size(i.ty)
    [] i.kind \in {"print", "pop", "dupe", "copy", "store", "retN", "swap"} -> Size(i.ty)
    [] i.kind \in {"ciprint", "jumpcmp"} -> 1
    [] i.kind = "pderef" -> SIZE64
    [] i.kind = "pset" -> SIZE64 + Size(i.ty)
    [] i.kind = "ret" -> i.n
    [] OTHER -> 0

\* The argument of that STACK_CHECK.
Need(i) ==
  CASE i.kind \in ArithKinds \cup CompareKinds \cup {"swap"} -> 2 * Size(i.ty)
    [] i.kind \in {"print", "pop", "dupe", "copy", "store", "retN"} -> Size(i.ty)
    [] i.kind \in {"ciprint", "jumpcmp"} -> 1
    [] i.kind = "pderef" -> SIZE64
    [] i.kind = "pset" -> SIZE64 + Size(i.ty)
    [] i.kind = "ret" -> i.n
    [] OTHER -> 0

\* How far the handler moves ptr down before it pushes anything.
Pops(i) ==
  CASE i.kind \in ArithKinds \cup {"swap"} -> 2 * Size(i.ty)
    [] i.kind \in {"pop", "store", "retN"} -> Size(i.ty)
    [] i.kind = "pderef" -> SIZE64
    [] i.kind = "pset" -> SIZE64 + Size(i.ty)
    [] i.kind \in {"ret", "jumpproc"} -> i.n
    [] OTHER -> 0

\* How far below ptr the handler reads without moving it.
Peeks(i) ==
  CASE i.kind \in CompareKinds -> 2 * Size(i.ty)
    [] i.kind \in {"print", "dupe", "copy"} -> Size(i.ty)
    [] i.kind \in {"ciprint", "jumpcmp"} -> 1
    [] OTHER -> 0

\* How many bytes the handler pushes, all its push_stack calls together.
Pushes(i) ==
  CASE i.kind \in ArithKinds \cup {"push", "pderef", "dupe", "load", "retN"} -> Size(i.ty)
    [] i.kind \in CompareKinds -> 1
    [] i.kind = "swap" -> 2 * Size(i.ty)
    [] i.kind = "copy" -> i.n * Size(i.ty)
    [] i.kind = "ret" -> i.n
    [] i.kind = "ppush" -> SIZE64
    [] i.kind = "pload" -> 2 * SIZE64
    [] OTHER -> 0

\* is_empty_stack: (ptr - n) < start, on addresses, which wrap.
IsEmptyStack(n) ==
  ((StackAddr + Top.ptr - n) % AddressSpace) < StackAddr + Top.start

Starved == Inst.kind \in CheckedKinds /\ IsEmptyStack(Need(Inst))

\* Variant: > in place of >= in push_stack.
FitsToTheBrim(height, n) == height + n <= STACK_SIZE

\* push_stack lets ptr reach STACK_SIZE - 1 at most.  The pushes of one
\* handler only move it up, so the last one decides.
Fits(height, n) == height + n < STACK_SIZE
-----------------------------------------------------------------------------
(* Reading and writing memory.                                             *)

Slice(base, n) == [k \in 1 .. n |-> stack[base + k - 1]]

\* The k-th operand of n bytes, counted from the top of the stack.
Operand(k, n) == Slice(Top.ptr - k * n, n)

\* The operand stack with bytes written from base up.
Overwrite(base, bytes) ==
  [k \in StackIndex |->
     IF k \in base .. (base + Len(bytes) - 1) THEN bytes[k - base + 1] ELSE stack[k]]

Owns(f, a) == a \in LocalRange(f.addr)

Mapped(a) == a \in DataAddr \/ \E d \in 1 .. Len(frames) : Owns(frames[d], a)

Accessible(a, n) == \A k \in 0 .. (n - 1) : Mapped(a + k)

Load(a) ==
  IF a \in DataAddr THEN data[a]
  ELSE LET d == CHOOSE d \in 1 .. Len(frames) : Owns(frames[d], a)
       IN  frames[d].locals[a - frames[d].addr]

Written(old, a, base, bytes) ==
  IF a \in base .. (base + Len(bytes) - 1) THEN bytes[a - base + 1] ELSE old

\* Locals of every frame after bytes are written to address a.
PokeFrame(f, a, bytes) ==
  [f EXCEPT !.locals = [k \in LocalIndex |-> Written(f.locals[k], f.addr + k, a, bytes)]]

\* pop_stack: ptr goes down, the bytes stay.
Dropped(f, n) == [f EXCEPT !.ptr = @ - n]

\* Addresses taken by the frames that are still allocated.
LiveAddr == {frames[d].addr : d \in 1 .. Len(frames)}

\* xmalloc finds no block for the frame of a call.
NoFrameLeft == Inst.kind = "jumpproc" /\ FrameAddr \subseteq LiveAddr
-----------------------------------------------------------------------------
(* One turn of the loop in begin_execution.                                *)

Fetch == status = "running" /\ pc < Len(prog)

\* The handler of one of these kinds passes its STACK_CHECK and finds its
\* operands inside the array.
Ready(kinds) ==
  /\ Fetch
  /\ Inst.kind \in kinds
  /\ ~Starved
  /\ Pops(Inst) <= Top.ptr /\ Peeks(Inst) <= Top.ptr

Stop(how) ==
  /\ status' = how
  /\ UNCHANGED <<prog, pc, stack, frames, return_stack, data>>

Continue == pc' = pc + 1 /\ UNCHANGED <<prog, status>>

\* The handler pops, pushes bytes and leaves everything else alone.
Rewrite(bytes) ==
  LET base == Top.ptr - Pops(Inst)
  IN  /\ Fits(base, Len(bytes))
      /\ stack' = Overwrite(base, bytes)
      /\ frames' = [frames EXCEPT ![Len(frames)].ptr = base + Len(bytes)]
      /\ Continue
      /\ UNCHANGED <<return_stack, data>>

\* STACK_CHECK fails: "Stack is empty" and on to the next instruction.
EmptyStack ==
  /\ Fetch
  /\ Starved
  /\ Continue
  /\ UNCHANGED <<stack, frames, return_stack, data>>

\* The operands lie below Ctx.stack and no check has noticed.
OperandFault ==
  /\ Fetch
  /\ ~Starved /\ ~NoFrameLeft
  /\ Pops(Inst) > Top.ptr \/ Peeks(Inst) > Top.ptr
  /\ Stop("operand_stack")

\* push_stack panics and aborts.  A ret pushes onto the caller's frame.
StackOverflow ==
  /\ Ready(Kinds \ ReturnKinds)
  /\ ~Fits(Top.ptr - Pops(Inst), Pushes(Inst))
  /\ Stop("panic")

Push ==
  /\ Ready({"push"})
  /\ Rewrite(WordBytes(Inst.val, Size(Inst.ty)))

Ppush ==
  /\ Ready({"ppush"})
  /\ Rewrite(WordBytes(Inst.val, SIZE64))

\* Two pushes: the operand word itself, then the address of the local.
Pload ==
  /\ Ready({"pload"})
  /\ Rewrite(WordBytes(Inst.n, SIZE64) \o WordBytes(Top.addr + Inst.n, SIZE64))
-----------------------------------------------------------------------------
(* Arithmetic and comparison.                                              *)

Number(ty, word) == IF ty = "UL" THEN Value(word) ELSE Signed(word)

Lhs == Number(Inst.ty, Operand(2, Size(Inst.ty)))
Rhs == Number(Inst.ty, Operand(1, Size(Inst.ty)))

\* x86 traps on a zero divisor, and on LeastInt / -1 where the type is not
\* promoted to a wider one first, as char is.
Traps ==
  /\ Inst.kind \in {"div", "mod"}
  /\ Inst.ty # "F"
  /\ \/ Rhs = 0
     \/ Inst.ty = "I" /\ Rhs = -1 /\ Lhs = LeastInt(SIZE32)

Combined ==
  CASE Inst.kind = "add"  -> Lhs + Rhs
    [] Inst.kind = "sub"  -> Lhs - Rhs
    [] Inst.kind = "mult" -> Lhs * Rhs
    [] Inst.kind = "div"  -> Quot(Lhs, Rhs)
    [] OTHER              -> Rem(Lhs, Rhs)

\* The value of a float operation is left open.
ArithResults ==
  IF Inst.ty = "F" THEN [1 .. SIZE32 -> Byte] ELSE {WordBytes(Combined, Size(Inst.ty))}

Arith ==
  /\ Ready(ArithKinds)
  /\ ~Traps
  /\ \E word \in ArithResults : Rewrite(word)

Trap ==
  /\ Ready(ArithKinds)
  /\ Traps
  /\ Stop("sigfpe")

Holds ==
  CASE Inst.kind = "ceq" -> Lhs = Rhs
    [] Inst.kind = "clt" -> Lhs < Rhs
    [] Inst.kind = "cle" -> Lhs <= Rhs
    [] Inst.kind = "cgt" -> Lhs > Rhs
    [] OTHER             -> Lhs >= Rhs

CompareResults == IF Inst.ty = "F" THEN {0, 1} ELSE {IF Holds THEN 1 ELSE 0}

\* The two operands stay, a one-byte bool goes on top of them.
Compare ==
  /\ Ready(CompareKinds)
  /\ \E bool \in CompareResults : Rewrite(<<bool>>)
-----------------------------------------------------------------------------
(* Stack shuffling, printing, locals and pointers.                         *)

\* What print shows is the operand it peeks at; output is not state here.
PrintTop ==
  /\ Ready({"print", "ciprint", "unimplemented"})
  /\ Rewrite(<<>>)

Pop ==
  /\ Ready({"pop"})
  /\ Rewrite(<<>>)

Swap ==
  /\ Ready({"swap"})
  /\ Rewrite(Operand(1, Size(Inst.ty)) \o Operand(2, Size(Inst.ty)))

Dupe ==
  /\ Ready({"dupe"})
  /\ Rewrite(Operand(1, Size(Inst.ty)))

\* The loop in I_COPY pushes the same top element n times.
Copy ==
  /\ Ready({"copy"})
  /\ LET size == Size(Inst.ty)
     IN  Rewrite([k \in 1 .. (Inst.n * size) |->
                    Operand(1, size)[((k - 1) % size) + 1]])

InLocals == Inst.n + Size(Inst.ty) <= LOCAL_SIZE

Store ==
  /\ Ready({"store"})
  /\ InLocals
  /\ LET word == Operand(1, Size(Inst.ty))
     IN  frames' = [frames EXCEPT ![Len(frames)] =
                      Dropped(PokeFrame(Top, Top.addr + Inst.n, word), Len(word))]
  /\ Continue
  /\ UNCHANGED <<stack, return_stack, data>>

LoadLocal ==
  /\ Ready({"load"})
  /\ InLocals
  /\ Rewrite([k \in 1 .. Size(Inst.ty) |-> Top.locals[Inst.n + k - 1]])

\* push_stack checks for overflow before it reads the slot.
LocalsFault ==
  /\ Ready({"store", "load"})
  /\ Fits(Top.ptr - Pops(Inst), Pushes(Inst))
  /\ ~InLocals
  /\ Stop("locals")

\* The address on top of the stack.
Pointer == Value(Operand(1, SIZE64))

Pderef ==
  /\ Ready({"pderef"})
  /\ Accessible(Pointer, Size(Inst.ty))
  /\ Rewrite([k \in 1 .. Size(Inst.ty) |-> Load(Pointer + k - 1)])

\* The value lies below the pointer.
Pset ==
  /\ Ready({"pset"})
  /\ Accessible(Pointer, Size(Inst.ty))
  /\ LET bytes == Slice(Top.ptr - Pops(Inst), Size(Inst.ty))
     IN  /\ data' = [a \in DataAddr |-> Written(data[a], a, Pointer, bytes)]
         /\ frames' = [d \in 1 .. Len(frames) |->
                         Dropped(PokeFrame(frames[d], Pointer, bytes),
                                 IF d = Len(frames) THEN Pops(Inst) ELSE 0)]
  /\ Continue
  /\ UNCHANGED <<stack, return_stack>>

WildPointer ==
  /\ Ready({"pderef", "pset"})
  /\ ~Accessible(Pointer, Size(Inst.ty))
  /\ Stop("wild_pointer")
-----------------------------------------------------------------------------
(* Control transfer.                                                       *)

Jump ==
  /\ Ready({"jump"})
  /\ pc' = pc + 1 + Inst.offset
  /\ UNCHANGED <<prog, stack, frames, return_stack, data, status>>

\* The byte that decides stays on the stack.
Jumpcmp ==
  /\ Ready({"jumpcmp"})
  /\ pc' = IF stack[Top.ptr - 1] # 0 THEN pc + 1 + Inst.offset ELSE pc + 1
  /\ UNCHANGED <<prog, stack, frames, return_stack, data, status>>

\* xmalloc aborts, before the handler has changed anything.
OutOfMemory ==
  /\ Fetch
  /\ NoFrameLeft
  /\ Stop("panic")

\* Variant: the callee keeps the return_stack_ptr of its caller.
CalleeKeepingRsp(a, junk) ==
  [ptr |-> Top.ptr - Inst.n, rsp |-> Top.rsp, start |-> Top.start, addr |-> a,
   locals |-> [k \in LocalIndex |->
                 IF k < Inst.n THEN stack[Top.ptr - Inst.n + k] ELSE junk[k]]]

\* Variant: every callee starts at the first return slot.
CalleeAtFirstSlot(a, junk) ==
  [ptr |-> Top.ptr - Inst.n, rsp |-> 1, start |-> Top.start, addr |-> a,
   locals |-> [k \in LocalIndex |->
                 IF k < Inst.n THEN stack[Top.ptr - Inst.n + k] ELSE junk[k]]]

\* The argc bytes on top become the first locals of a frame whose ptr is
\* below them.
Callee(a, junk) ==
  [ptr |-> Top.ptr - Inst.n, rsp |-> Top.rsp + 1, start |-> Top.start, addr |-> a,
   locals |-> [k \in LocalIndex |->
                 IF k < Inst.n THEN stack[Top.ptr - Inst.n + k] ELSE junk[k]]]

\* Variant: the index of the call itself is pushed.
PushItself == [return_stack EXCEPT ![Top.rsp] = pc]

\* The return address goes where the caller's rsp points.
PushReturn == [return_stack EXCEPT ![Top.rsp] = pc + 1]

Jumpproc ==
  /\ Ready({"jumpproc"})
  /\ Top.rsp < RETURN_SLOTS
  /\ Inst.n <= LOCAL_SIZE
  /\ \E a \in FrameAddr \ LiveAddr, junk \in JunkLocals :
       frames' = Append([frames EXCEPT ![Len(frames)] = Dropped(Top, Inst.n)],
                        Callee(a, junk))
  /\ return_stack' = PushReturn
  /\ pc' = pc + 1 + Inst.offset
  /\ UNCHANGED <<prog, stack, data, status>>

\* The return address lands on Ctx.frame_ptr.
ReturnStackFault ==
  /\ Ready({"jumpproc"})
  /\ ~NoFrameLeft
  /\ Top.rsp >= RETURN_SLOTS
  /\ Stop("return_stack")

\* The arguments do not fit in the locals they are copied to.
ArgumentsFault ==
  /\ Ready({"jumpproc"})
  /\ ~NoFrameLeft
  /\ Top.rsp < RETURN_SLOTS /\ Inst.n > LOCAL_SIZE
  /\ Stop("locals")

Caller == frames[Len(frames) - 1]

\* Variant: back to the call in place of behind it.
BackToTheCall == return_stack[Top.rsp - 1] - 1

ReturnAddress == return_stack[Top.rsp - 1]

\* Variant: the result is pushed at the bottom of the caller's stack.
PushedAtStart(result) == Overwrite(Caller.start, result)

Pushed(result) == Overwrite(Caller.ptr, result)

\* The result leaves the callee's stack and is pushed on the caller's.
Ret ==
  /\ Ready(ReturnKinds)
  /\ Len(frames) > 1
  /\ LET result == Slice(Top.ptr - Pops(Inst), Pops(Inst))
     IN  /\ Fits(Caller.ptr, Len(result))
         /\ stack' = Pushed(result)
         /\ frames' = [SubSeq(frames, 1, Len(frames) - 1) EXCEPT
                         ![Len(frames) - 1].ptr = @ + Len(result)]
  /\ pc' = ReturnAddress
  /\ UNCHANGED <<prog, return_stack, data, status>>

RetOverflow ==
  /\ Ready(ReturnKinds)
  /\ Len(frames) > 1
  /\ ~Fits(Caller.ptr, Pops(Inst))
  /\ Stop("panic")

\* The outermost frame has no caller: frame_ptr becomes NULL and the push
\* of the result dereferences it.
NullFrame ==
  /\ Ready(ReturnKinds)
  /\ Len(frames) = 1
  /\ Stop("null_frame")

\* begin_execution returns, main destroys the context.
Halt ==
  /\ status = "running" /\ pc >= Len(prog)
  /\ Stop("halted")
-----------------------------------------------------------------------------
Shuffle == Push \/ Ppush \/ Pload \/ Arith \/ Compare \/ PrintTop \/ Pop \/ Swap
           \/ Dupe \/ Copy \/ LoadLocal \/ Pderef

Transfer == Jump \/ Jumpcmp \/ Jumpproc \/ Ret

Abort == OperandFault \/ StackOverflow \/ Trap \/ LocalsFault \/ WildPointer
         \/ OutOfMemory \/ ReturnStackFault \/ ArgumentsFault \/ RetOverflow
         \/ NullFrame

Next == EmptyStack \/ Shuffle \/ Store \/ Pset \/ Transfer \/ Abort \/ Halt

Spec == Init /\ [][Next]_vars

\* The loop is sequential: as long as it can take a step it takes one.
FairSpec == Spec /\ WF_vars(Next)
-----------------------------------------------------------------------------
(* Properties.                                                             *)

\* Every pointer of the machine stays inside the array it was made for, and
\* every byte is a byte.
TypeOK ==
  /\ prog \in Seq(Instruction) /\ WellFormed(prog)
  /\ pc \in 0 .. Len(prog)
  /\ stack \in [StackIndex -> Byte]
  /\ frames \in Seq(Frame) /\ Len(frames) >= 1
  /\ return_stack \in [0 .. (RETURN_SLOTS - 1) -> Nat]
  /\ data \in [DataAddr -> Byte]
  /\ status \in {"running", "halted", "panic"} \cup Faults

\* The two call records of the machine agree: the frame list (prev) and the
\* return stack, into which every frame carries a copy of the pointer of
\* its caller (I_JUMPPROC, I_RET), are equally deep, and two live frames
\* never share a block.
FrameChain ==
  \A d \in 1 .. Len(frames) :
    /\ frames[d].rsp = d - 1
    /\ frames[d].start = 0
    /\ \A e \in 1 .. Len(frames) : frames[d].addr = frames[e].addr => d = e

\* What a ret of any frame would load into pc is the index behind a
\* jumpproc of the program, though return slots are never cleared and a
\* later call overwrites what an earlier one left.
ReturnsBehindCalls ==
  \A d \in 2 .. Len(frames) :
    LET back == return_stack[frames[d].rsp - 1]
    IN  back \in 1 .. Len(prog) /\ prog[back].kind = "jumpproc"

\* STACK_CHECK keeps every handler's operands inside Ctx.stack, with two
\* exceptions: jumpproc has no check, and the pointer subtraction of
\* is_empty_stack wraps for a ret with a count beyond the stack's address.
OperandsGuarded ==
  status = "operand_stack" =>
    \/ Inst.kind = "jumpproc"
    \/ Inst.kind = "ret" /\ Inst.n > StackAddr + Top.ptr

\* The return stack is what limits nested calls: one more frame than it has
\* slots, and the only push that would miss it is the one after that.
CallDepth ==
  /\ Len(frames) <= RETURN_SLOTS + 1
  /\ status = "return_stack" => Len(frames) = RETURN_SLOTS + 1

\* A call in progress is a suspended frame with the return slot its callee
\* points behind.
CallsInProgress ==
  [d \in 1 .. (Len(frames) - 1) |->
     [ret |-> return_stack[frames[d + 1].rsp - 1], height |-> frames[d].ptr]]

\* The abstract machine of calls and returns.
Calls == INSTANCE CallMachine WITH height <- Top.ptr, calls <- CallsInProgress

\* A ret resumes right behind the call that made its frame, on the operands
\* the caller had left, plus the result, and nothing else touches the
\* calls in progress: the two stacks of ass.c implement CallMachine.
ImplementsCalls == Calls!Spec

ForwardOnly ==
  \A i \in 1 .. Len(prog) : prog[i].kind \in JumpKinds => prog[i].offset >= 0

\* A program whose jumps and calls all go forward comes to an end, though
\* each ret takes pc back and begin_execution counts nothing.
ForwardTerminates == ForwardOnly => <>(status # "running")

\* instructions.txt:35 says pload "loads address of local to top of stack":
\* one address.  I_PLOAD pushes its own operand word first.
PloadPushesOneAddress ==
  [][Fetch /\ Inst.kind = "pload" /\ status' = "running"
       => frames'[Len(frames)].ptr = Top.ptr + SIZE64]_vars

\* instructions.txt:47 says jumpproc "enters procedure with new stackframe":
\* what the caller left below the arguments is not the procedure's to pop.
\* A handler with a STACK_CHECK reaches it, since the check asks for start,
\* which I_JUMPPROC copies from the caller.
ProcedureHasOwnStack ==
  [][Ready(CheckedKinds) /\ Len(frames) > 1
       => Top.ptr - Pops(Inst) >= Caller.ptr]_vars
=============================================================================

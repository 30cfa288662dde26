--------------------------- MODULE AssemblerProof ---------------------------
(***************************************************************************)
(* What main guarantees for every text and every size of its machine: it   *)
(* hands the loader's instructions to the machine, holds what each of the  *)
(* two uses, its exit code tells what happened, and what it executes is    *)
(* the text.                                                               *)
(*                                                                         *)
(* LoaderProof and VMRefinement are used as they stand, of the constants   *)
(* and variables that Assembler gives Loader and VM.                       *)
(***************************************************************************)
EXTENDS Assembler, TLAPS

LP == INSTANCE LoaderProof

VP == INSTANCE VMRefinement WITH prog <- Program, Programs <- {<<>>},
                                 DataImages <- {[a \in DataAddr |-> 0]}
-----------------------------------------------------------------------------
(* The definitions under LP and VP are those under L and V.                *)

LEMMA LoaderAssumptions == LP!ArenaAssumption /\ LP!SourcesAssumption
BY LoaderAssumption
   DEF L!WellFormedToken, L!Tok, L!StringTokens, L!Kinds, L!Types, L!ArithKinds,
       L!CompareKinds, L!JumpKinds, L!ReturnKinds, LP!WellFormedToken, LP!Tok,
       LP!StringTokens, LP!Kinds, LP!Types, LP!ArithKinds, LP!CompareKinds, LP!JumpKinds,
       LP!ReturnKinds

LEMMA SameParser ==
  \A tokens, j, state : L!ParserNext(tokens, j, state) = LP!ParserNext(tokens, j, state)
<1>1. /\ \A tokens, j : L!StatementStart(tokens, j) = LP!StatementStart(tokens, j)
      /\ \A tokens, j, state : L!StateAt(tokens, j, state) = LP!StateAt(tokens, j, state)
  BY Zenon DEF L!StatementStart, LP!StatementStart, L!StateAt, LP!StateAt,
               L!Token, LP!Token, L!Tok, LP!Tok, L!Sections, LP!Sections,
               L!Max, LP!Max
<1>2. \A first, state : L!Accepts(first, state) <=> LP!Accepts(first, state)
  BY Zenon DEF L!Accepts, LP!Accepts
<1>3. \A tokens, j : L!Token(tokens, j) = LP!Token(tokens, j)
  BY Zenon DEF L!Token, LP!Token, L!Tok, LP!Tok
<1>4. /\ \A op : L!Operands(op) = LP!Operands(op)
      /\ \A next : L!DataOperands(next) = LP!DataOperands(next)
      /\ \A t : L!TakenFor(t) = LP!TakenFor(t)
  BY Zenon DEF L!Operands, LP!Operands, L!LiteralTokens, LP!LiteralTokens,
               L!IndexKinds, LP!IndexKinds, L!EndOfStatement, LP!EndOfStatement,
               L!DataOperands, LP!DataOperands, L!DataKinds, LP!DataKinds,
               L!TakenFor, LP!TakenFor, L!OpenBracketOp, LP!OpenBracketOp,
               L!CloseBracketOp, LP!CloseBracketOp
<1>5. \A tokens, s, state : L!Expected(tokens, s, state) = LP!Expected(tokens, s, state)
  BY <1>3, <1>4 DEF L!Expected, LP!Expected, L!EndOfStatement, LP!EndOfStatement
<1>6. \A tokens, s, expected :
        L!Mismatches(tokens, s, expected) = LP!Mismatches(tokens, s, expected)
  BY <1>3, <1>4, Zenon DEF L!Mismatches, LP!Mismatches
<1>7. /\ \A tokens, j : L!Behind(tokens, j) = LP!Behind(tokens, j)
      /\ \A S : L!Min(S) = LP!Min(S)
      /\ L!DataKinds = LP!DataKinds
  BY Zenon DEF L!Behind, LP!Behind, L!Min, LP!Min, L!DataKinds, LP!DataKinds
<1> QED
  BY <1>1, <1>2, <1>3, <1>5, <1>6, <1>7 DEF L!ParserNext, LP!ParserNext

\* The turns of the two loops of parse_src.
LEMMA SameLoader == (L!Init <=> LP!Init) /\ (L!Next <=> LP!Next) /\ L!Loaded = LP!Loaded
<1> USE DEF L!AddDeclaration, LP!AddDeclaration,
           L!AddInstruction, LP!AddInstruction, L!AddLabel, LP!AddLabel,
           L!Advance, LP!Advance, L!Allocate, LP!Allocate, L!Arrays, LP!Arrays,
           L!Bytes, LP!Bytes, L!Cardinality, LP!Cardinality, L!CellAt, LP!CellAt,
           L!CellCount, LP!CellCount, L!Cells, LP!Cells, L!Compared, LP!Compared,
           L!Dangling, LP!Dangling, L!Distance, LP!Distance,
           L!EndOfFile, LP!EndOfFile, L!Execute, LP!Execute, L!First, LP!First,
           L!Grown, LP!Grown, L!Grows, LP!Grows, L!Hits, LP!Hits,
           L!IndexKinds, LP!IndexKinds, L!Init, LP!Init, L!Inst, LP!Inst,
           L!InstAddr, LP!InstAddr, L!JumpKinds, LP!JumpKinds, L!Link, LP!Link,
           L!Live, LP!Live, L!Loaded, LP!Loaded, L!Messages, LP!Messages,
           L!NameAddr, LP!NameAddr, L!NameMoved, LP!NameMoved, L!Named, LP!Named,
           L!Node, LP!Node, L!NodeAddr, LP!NodeAddr, L!NodeMoved, LP!NodeMoved,
           L!NotImplemented, LP!NotImplemented, L!OutOfMemory, LP!OutOfMemory,
           L!Patch, LP!Patch, L!Refused, LP!Refused, L!ReportError, LP!ReportError,
           L!ResolveJump, LP!ResolveJump, L!ResolveNothing, LP!ResolveNothing,
           L!ResolvePpush, LP!ResolvePpush, L!Resolving, LP!Resolving,
           L!Stop, LP!Stop, L!StringTokens, LP!StringTokens, L!Table, LP!Table,
           L!TextPlace, LP!TextPlace, L!TextPlaces, LP!TextPlaces,
           L!Texts, LP!Texts, L!Tok, LP!Tok, L!Token, LP!Token,
           L!Undefined, LP!Undefined, L!Verdict, LP!Verdict,
           L!arenaVars, LP!arenaVars, L!parserVars, LP!parserVars,
           L!tableVars, LP!tableVars
<1>1. L!Init <=> LP!Init
  BY Zenon
<1>2. ASSUME NEW call
      PROVE  /\ L!AddInstruction(call) <=> LP!AddInstruction(call)
             /\ L!AddLabel(call) <=> LP!AddLabel(call)
             /\ L!AddDeclaration(call) <=> LP!AddDeclaration(call)
  BY Zenon
<1>3. ASSUME NEW call
      PROVE  /\ L!ReportError(call) <=> LP!ReportError(call)
             /\ L!EndOfFile(call) <=> LP!EndOfFile(call)
             /\ L!NotImplemented(call) <=> LP!NotImplemented(call)
             /\ L!OutOfMemory(call) <=> LP!OutOfMemory(call)
             /\ L!Refused(call) <=> LP!Refused(call)
             /\ L!NodeMoved(call) <=> LP!NodeMoved(call)
  BY Zenon
<1>4. L!Link <=> LP!Link
  BY Zenon
<1>5. L!Loaded = LP!Loaded
  BY Zenon
<1> HIDE DEF L!AddInstruction, LP!AddInstruction, L!AddLabel, LP!AddLabel,
            L!AddDeclaration, LP!AddDeclaration, L!ReportError, LP!ReportError,
            L!EndOfFile, LP!EndOfFile, L!NotImplemented, LP!NotImplemented,
            L!OutOfMemory, LP!OutOfMemory, L!Refused, LP!Refused,
            L!NodeMoved, LP!NodeMoved, L!Link, LP!Link
<1>6. L!Parse <=> LP!Parse
  BY <1>2, <1>3, SameParser, Zenon DEF L!Parse, LP!Parse
<1> QED
  BY <1>1, <1>4, <1>5, <1>6, Zenon DEF L!Next, LP!Next

\* What the handlers are made of.
LEMMA SameTools ==
  /\ V!Fetch <=> VP!Fetch
  /\ V!Starved <=> VP!Starved
  /\ \A kinds : V!Ready(kinds) <=> VP!Ready(kinds)
  /\ \A how : V!Stop(how) <=> VP!Stop(how)
  /\ V!Continue <=> VP!Continue
  /\ \A bytes : V!Rewrite(bytes) <=> VP!Rewrite(bytes)
<1>1. V!Fetch <=> VP!Fetch
  BY Zenon DEF V!Fetch, VP!Fetch
<1>2. V!Starved <=> VP!Starved
  BY Zenon DEF V!ArithKinds, VP!ArithKinds, V!CheckedKinds, VP!CheckedKinds,
             V!CompareKinds, VP!CompareKinds, V!Inst, VP!Inst,
             V!IsEmptyStack, VP!IsEmptyStack, V!JumpKinds, VP!JumpKinds,
             V!Kinds, VP!Kinds, V!Need, VP!Need, V!ReturnKinds, VP!ReturnKinds,
             V!Size, VP!Size, V!Starved, VP!Starved, V!Top, VP!Top
<1>3. \A kinds : V!Ready(kinds) <=> VP!Ready(kinds)
  BY <1>1, <1>2, Zenon DEF V!Ready, VP!Ready, V!Inst, VP!Inst, V!Top, VP!Top, V!Pops, VP!Pops,
             V!Peeks, VP!Peeks, V!Size, VP!Size, V!ArithKinds, VP!ArithKinds,
             V!CompareKinds, VP!CompareKinds
<1>4. (\A how : V!Stop(how) <=> VP!Stop(how)) /\ (V!Continue <=> VP!Continue)
  BY Zenon DEF V!Stop, VP!Stop, V!Continue, VP!Continue
<1>5. \A bytes : V!Rewrite(bytes) <=> VP!Rewrite(bytes)
  BY Zenon DEF V!ArithKinds, VP!ArithKinds, V!Continue, VP!Continue, V!Fits, VP!Fits,
             V!Inst, VP!Inst, V!Overwrite, VP!Overwrite, V!Pops, VP!Pops,
             V!Rewrite, VP!Rewrite, V!Size, VP!Size, V!StackIndex, VP!StackIndex,
             V!Top, VP!Top
<1> QED
  BY <1>1, <1>2, <1>3, <1>4, <1>5

\* What they reckon with.
LEMMA SameReckoning ==
  /\ V!Inst = VP!Inst
  /\ V!Top = VP!Top
  /\ V!LocalIndex = VP!LocalIndex
  /\ V!RETURN_SLOTS = VP!RETURN_SLOTS
  /\ \A ty : V!Size(ty) = VP!Size(ty)
  /\ \A i : V!Pops(i) = VP!Pops(i) /\ V!Pushes(i) = VP!Pushes(i) /\ V!Peeks(i) = VP!Peeks(i)
  /\ \A height, n : V!Fits(height, n) <=> VP!Fits(height, n)
  /\ \A k, n : V!Operand(k, n) = VP!Operand(k, n)
  /\ \A k, n : V!Slice(k, n) = VP!Slice(k, n)
  /\ \A v, w : V!WordBytes(v, w) = VP!WordBytes(v, w)
  /\ \A word : V!Value(word) = VP!Value(word) /\ V!Signed(word) = VP!Signed(word)
<1>1. /\ V!Inst = VP!Inst /\ V!Top = VP!Top
      /\ V!LocalIndex = VP!LocalIndex /\ V!RETURN_SLOTS = VP!RETURN_SLOTS
  BY Zenon DEF V!Inst, VP!Inst, V!Top, VP!Top, V!LocalIndex, VP!LocalIndex,
             V!RETURN_SLOTS, VP!RETURN_SLOTS
<1>2. /\ \A ty : V!Size(ty) = VP!Size(ty)
      /\ \A height, n : V!Fits(height, n) <=> VP!Fits(height, n)
      /\ \A k, n : V!Slice(k, n) = VP!Slice(k, n)
      /\ \A k, n : V!Operand(k, n) = VP!Operand(k, n)
  BY Zenon DEF V!Size, VP!Size, V!Fits, VP!Fits, V!Slice, VP!Slice,
             V!Operand, VP!Operand, V!Top, VP!Top
<1>3. \A i : V!Pops(i) = VP!Pops(i) /\ V!Pushes(i) = VP!Pushes(i) /\ V!Peeks(i) = VP!Peeks(i)
  BY Zenon DEF V!ArithKinds, VP!ArithKinds, V!CompareKinds, VP!CompareKinds,
             V!Peeks, VP!Peeks, V!Pops, VP!Pops, V!Pushes, VP!Pushes,
             V!Size, VP!Size
<1>4. \A v, w : V!WordBytes(v, w) = VP!WordBytes(v, w)
  BY Zenon DEF V!WordBytes, VP!WordBytes, V!Place, VP!Place
<1>5. \A word : V!Value(word) = VP!Value(word) /\ V!Signed(word) = VP!Signed(word)
  BY Zenon DEF V!Value, VP!Value, V!Signed, VP!Signed, V!Digit, VP!Digit,
             V!Place, VP!Place, V!Modulus, VP!Modulus
<1> QED
  BY <1>1, <1>2, <1>3, <1>4, <1>5

\* What they read and write in memory.
LEMMA SameMemory ==
  /\ \A a, n : V!Accessible(a, n) <=> VP!Accessible(a, n)
  /\ \A a : V!Load(a) = VP!Load(a)
  /\ \A f, a, bytes : V!PokeFrame(f, a, bytes) = VP!PokeFrame(f, a, bytes)
  /\ \A f, n : V!Dropped(f, n) = VP!Dropped(f, n)
  /\ V!LiveAddr = VP!LiveAddr
  /\ V!NoFrameLeft <=> VP!NoFrameLeft
<1>1. \A a, n : V!Accessible(a, n) <=> VP!Accessible(a, n)
  BY Zenon DEF V!Accessible, VP!Accessible, V!LocalRange, VP!LocalRange,
             V!Mapped, VP!Mapped, V!Owns, VP!Owns
<1>2. \A a : V!Load(a) = VP!Load(a)
  BY Zenon DEF V!Load, VP!Load, V!LocalRange, VP!LocalRange, V!Owns, VP!Owns
<1>3. \A f, a, bytes : V!PokeFrame(f, a, bytes) = VP!PokeFrame(f, a, bytes)
  BY Zenon DEF V!PokeFrame, VP!PokeFrame, V!LocalIndex, VP!LocalIndex,
             V!Written, VP!Written
<1>4. \A f, n : V!Dropped(f, n) = VP!Dropped(f, n)
  BY Zenon DEF V!Dropped, VP!Dropped
<1>5. V!LiveAddr = VP!LiveAddr /\ (V!NoFrameLeft <=> VP!NoFrameLeft)
  BY Zenon DEF V!Inst, VP!Inst, V!LiveAddr, VP!LiveAddr,
             V!NoFrameLeft, VP!NoFrameLeft
<1> QED
  BY <1>1, <1>2, <1>3, <1>4, <1>5

LEMMA SameReadings ==
  /\ V!Lhs = VP!Lhs /\ V!Rhs = VP!Rhs
  /\ V!Pointer = VP!Pointer
  /\ V!InLocals <=> VP!InLocals
<1>1. V!Lhs = VP!Lhs /\ V!Rhs = VP!Rhs
  BY SameReckoning DEF V!Lhs, VP!Lhs, V!Rhs, VP!Rhs, V!Number, VP!Number
<1>2. V!Pointer = VP!Pointer /\ (V!InLocals <=> VP!InLocals)
  BY SameReckoning DEF V!Pointer, VP!Pointer, V!InLocals, VP!InLocals
<1> QED
  BY <1>1, <1>2

\* The handlers.
LEMMA SameShuffle == V!Shuffle <=> VP!Shuffle
<1> USE SameTools, SameReckoning
<1>1. (V!Push <=> VP!Push) /\ (V!Ppush <=> VP!Ppush) /\ (V!Pload <=> VP!Pload)
  BY DEF V!Push, VP!Push, V!Ppush, VP!Ppush, V!Pload, VP!Pload
<1>2. (V!PrintTop <=> VP!PrintTop) /\ (V!Pop <=> VP!Pop)
  BY DEF V!PrintTop, VP!PrintTop, V!Pop, VP!Pop
<1>3. (V!Swap <=> VP!Swap) /\ (V!Dupe <=> VP!Dupe)
  BY DEF V!Swap, VP!Swap, V!Dupe, VP!Dupe
<1>4. V!Copy <=> VP!Copy
  BY Zenon DEF V!ArithKinds, VP!ArithKinds, V!CheckedKinds, VP!CheckedKinds,
             V!CompareKinds, VP!CompareKinds, V!Continue, VP!Continue,
             V!Copy, VP!Copy, V!Fetch, VP!Fetch, V!Fits, VP!Fits, V!Inst, VP!Inst,
             V!IsEmptyStack, VP!IsEmptyStack, V!JumpKinds, VP!JumpKinds,
             V!Kinds, VP!Kinds, V!Need, VP!Need, V!Operand, VP!Operand,
             V!Overwrite, VP!Overwrite, V!Peeks, VP!Peeks, V!Pops, VP!Pops,
             V!Ready, VP!Ready, V!ReturnKinds, VP!ReturnKinds,
             V!Rewrite, VP!Rewrite, V!Size, VP!Size, V!Slice, VP!Slice,
             V!StackIndex, VP!StackIndex, V!Starved, VP!Starved, V!Top, VP!Top
<1>5. V!LoadLocal <=> VP!LoadLocal
  BY Zenon DEF V!ArithKinds, VP!ArithKinds, V!CheckedKinds, VP!CheckedKinds,
             V!CompareKinds, VP!CompareKinds, V!Continue, VP!Continue,
             V!Fetch, VP!Fetch, V!Fits, VP!Fits, V!InLocals, VP!InLocals,
             V!Inst, VP!Inst, V!IsEmptyStack, VP!IsEmptyStack,
             V!JumpKinds, VP!JumpKinds, V!Kinds, VP!Kinds,
             V!LoadLocal, VP!LoadLocal, V!Need, VP!Need, V!Overwrite, VP!Overwrite,
             V!Peeks, VP!Peeks, V!Pops, VP!Pops, V!Ready, VP!Ready,
             V!ReturnKinds, VP!ReturnKinds, V!Rewrite, VP!Rewrite, V!Size, VP!Size,
             V!StackIndex, VP!StackIndex, V!Starved, VP!Starved, V!Top, VP!Top
<1>6. V!Pderef <=> VP!Pderef
  BY SameMemory, SameReadings DEF V!Pderef, VP!Pderef
<1>7. V!Compare <=> VP!Compare
  BY ZenonT(60) DEF V!ArithKinds, VP!ArithKinds, V!CheckedKinds, VP!CheckedKinds,
             V!Compare, VP!Compare, V!CompareKinds, VP!CompareKinds,
             V!CompareResults, VP!CompareResults, V!Continue, VP!Continue,
             V!Digit, VP!Digit, V!Fetch, VP!Fetch, V!Fits, VP!Fits,
             V!Holds, VP!Holds, V!Inst, VP!Inst, V!IsEmptyStack, VP!IsEmptyStack,
             V!JumpKinds, VP!JumpKinds, V!Kinds, VP!Kinds, V!Lhs, VP!Lhs,
             V!Modulus, VP!Modulus, V!Need, VP!Need, V!Number, VP!Number,
             V!Operand, VP!Operand, V!Overwrite, VP!Overwrite, V!Peeks, VP!Peeks,
             V!Place, VP!Place, V!Pops, VP!Pops, V!Ready, VP!Ready,
             V!ReturnKinds, VP!ReturnKinds, V!Rewrite, VP!Rewrite, V!Rhs, VP!Rhs,
             V!Signed, VP!Signed, V!Size, VP!Size, V!Slice, VP!Slice,
             V!StackIndex, VP!StackIndex, V!Starved, VP!Starved, V!Top, VP!Top,
             V!Value, VP!Value
<1>8. V!Arith <=> VP!Arith
  <2>1. V!Traps <=> VP!Traps
    BY SameReadings DEF V!Traps, VP!Traps, V!LeastInt, VP!LeastInt, V!Modulus, VP!Modulus,
               V!Place, VP!Place
  <2>2. V!Combined = VP!Combined
    <3>1. \A a, b : V!Quot(a, b) = VP!Quot(a, b)
      BY Zenon DEF V!Quot, VP!Quot, V!Abs, VP!Abs
    <3> QED
      BY <3>1, SameReadings DEF V!Combined, VP!Combined, V!Rem, VP!Rem
  <2>3. V!ArithResults = VP!ArithResults
    BY <2>2, Zenon DEF V!ArithResults, VP!ArithResults, V!Byte, VP!Byte
  <2>4. V!ArithKinds = VP!ArithKinds
    BY Zenon DEF V!ArithKinds, VP!ArithKinds
  <2> QED
    BY <2>1, <2>3, <2>4, Zenon DEF V!Arith, VP!Arith
<1> QED
  BY <1>1, <1>2, <1>3, <1>4, <1>5, <1>6, <1>7, <1>8 DEF V!Shuffle, VP!Shuffle

LEMMA SameWrites == (V!Store <=> VP!Store) /\ (V!Pset <=> VP!Pset)
<1>1. V!Store <=> VP!Store
  BY Zenon DEF V!ArithKinds, VP!ArithKinds, V!CheckedKinds, VP!CheckedKinds,
             V!CompareKinds, VP!CompareKinds, V!Continue, VP!Continue,
             V!Dropped, VP!Dropped, V!Fetch, VP!Fetch, V!InLocals, VP!InLocals,
             V!Inst, VP!Inst, V!IsEmptyStack, VP!IsEmptyStack,
             V!JumpKinds, VP!JumpKinds, V!Kinds, VP!Kinds,
             V!LocalIndex, VP!LocalIndex, V!Need, VP!Need, V!Operand, VP!Operand,
             V!Peeks, VP!Peeks, V!PokeFrame, VP!PokeFrame, V!Pops, VP!Pops,
             V!Ready, VP!Ready, V!ReturnKinds, VP!ReturnKinds, V!Size, VP!Size,
             V!Slice, VP!Slice, V!Starved, VP!Starved, V!Store, VP!Store,
             V!Top, VP!Top, V!Written, VP!Written
<1>2. V!Pset <=> VP!Pset
  BY Zenon DEF V!Accessible, VP!Accessible, V!ArithKinds, VP!ArithKinds,
             V!CheckedKinds, VP!CheckedKinds, V!CompareKinds, VP!CompareKinds,
             V!Continue, VP!Continue, V!Digit, VP!Digit, V!Dropped, VP!Dropped,
             V!Fetch, VP!Fetch, V!Inst, VP!Inst, V!IsEmptyStack, VP!IsEmptyStack,
             V!JumpKinds, VP!JumpKinds, V!Kinds, VP!Kinds,
             V!LocalIndex, VP!LocalIndex, V!LocalRange, VP!LocalRange,
             V!Mapped, VP!Mapped, V!Need, VP!Need, V!Operand, VP!Operand,
             V!Owns, VP!Owns, V!Peeks, VP!Peeks, V!Place, VP!Place,
             V!Pointer, VP!Pointer, V!PokeFrame, VP!PokeFrame, V!Pops, VP!Pops,
             V!Pset, VP!Pset, V!Ready, VP!Ready, V!ReturnKinds, VP!ReturnKinds,
             V!Size, VP!Size, V!Slice, VP!Slice, V!Starved, VP!Starved,
             V!Top, VP!Top, V!Value, VP!Value, V!Written, VP!Written
<1> QED
  BY <1>1, <1>2

LEMMA SameTransfer == V!Transfer <=> VP!Transfer
<1>1. (V!Jump <=> VP!Jump) /\ (V!Jumpcmp <=> VP!Jumpcmp)
  BY SameTools, SameReckoning DEF V!Jump, VP!Jump, V!Jumpcmp, VP!Jumpcmp
<1>2. V!Jumpproc <=> VP!Jumpproc
  BY Zenon DEF V!ArithKinds, VP!ArithKinds, V!Callee, VP!Callee,
             V!CheckedKinds, VP!CheckedKinds, V!CompareKinds, VP!CompareKinds,
             V!Dropped, VP!Dropped, V!Fetch, VP!Fetch, V!Inst, VP!Inst,
             V!IsEmptyStack, VP!IsEmptyStack, V!JumpKinds, VP!JumpKinds,
             V!Jumpproc, VP!Jumpproc, V!Kinds, VP!Kinds, V!LiveAddr, VP!LiveAddr,
             V!LocalIndex, VP!LocalIndex, V!Need, VP!Need, V!Peeks, VP!Peeks,
             V!Pops, VP!Pops, V!PushReturn, VP!PushReturn,
             V!RETURN_SLOTS, VP!RETURN_SLOTS, V!Ready, VP!Ready,
             V!ReturnKinds, VP!ReturnKinds, V!Size, VP!Size, V!Starved, VP!Starved,
             V!Top, VP!Top
<1>3. V!Ret <=> VP!Ret
  BY Zenon DEF V!ArithKinds, VP!ArithKinds, V!Caller, VP!Caller,
             V!CheckedKinds, VP!CheckedKinds, V!CompareKinds, VP!CompareKinds,
             V!Fetch, VP!Fetch, V!Fits, VP!Fits, V!Inst, VP!Inst,
             V!IsEmptyStack, VP!IsEmptyStack, V!JumpKinds, VP!JumpKinds,
             V!Kinds, VP!Kinds, V!Need, VP!Need, V!Overwrite, VP!Overwrite,
             V!Peeks, VP!Peeks, V!Pops, VP!Pops, V!Pushed, VP!Pushed,
             V!Ready, VP!Ready, V!Ret, VP!Ret, V!ReturnAddress, VP!ReturnAddress,
             V!ReturnKinds, VP!ReturnKinds, V!Size, VP!Size, V!Slice, VP!Slice,
             V!StackIndex, VP!StackIndex, V!Starved, VP!Starved, V!Top, VP!Top
<1> QED
  BY <1>1, <1>2, <1>3 DEF V!Transfer, VP!Transfer

LEMMA SameAbort == V!Abort <=> VP!Abort
<1> USE SameTools, SameReckoning, SameReadings, SameMemory
<1>1. (V!OperandFault <=> VP!OperandFault) /\ (V!WildPointer <=> VP!WildPointer)
  BY DEF V!OperandFault, VP!OperandFault, V!WildPointer, VP!WildPointer
<1>2. V!StackOverflow <=> VP!StackOverflow
  BY Zenon DEF V!StackOverflow, VP!StackOverflow, V!ArithKinds, VP!ArithKinds,
             V!CompareKinds, VP!CompareKinds, V!JumpKinds, VP!JumpKinds,
             V!Kinds, VP!Kinds, V!ReturnKinds, VP!ReturnKinds
<1>3. V!Trap <=> VP!Trap
  BY ZenonT(60) DEF V!ArithKinds, VP!ArithKinds, V!CheckedKinds, VP!CheckedKinds,
             V!CompareKinds, VP!CompareKinds, V!Digit, VP!Digit, V!Fetch, VP!Fetch,
             V!Inst, VP!Inst, V!IsEmptyStack, VP!IsEmptyStack,
             V!JumpKinds, VP!JumpKinds, V!Kinds, VP!Kinds, V!LeastInt, VP!LeastInt,
             V!Lhs, VP!Lhs, V!Modulus, VP!Modulus, V!Need, VP!Need,
             V!Number, VP!Number, V!Operand, VP!Operand, V!Peeks, VP!Peeks,
             V!Place, VP!Place, V!Pops, VP!Pops, V!Ready, VP!Ready,
             V!ReturnKinds, VP!ReturnKinds, V!Rhs, VP!Rhs, V!Signed, VP!Signed,
             V!Size, VP!Size, V!Slice, VP!Slice, V!Starved, VP!Starved,
             V!Stop, VP!Stop, V!Top, VP!Top, V!Trap, VP!Trap, V!Traps, VP!Traps,
             V!Value, VP!Value
<1>4. V!LocalsFault <=> VP!LocalsFault
  BY DEF V!LocalsFault, VP!LocalsFault
<1>5. (V!OutOfMemory <=> VP!OutOfMemory) /\ (V!ReturnStackFault <=> VP!ReturnStackFault)
  BY DEF V!OutOfMemory, VP!OutOfMemory, V!ReturnStackFault, VP!ReturnStackFault
<1>6. V!ArgumentsFault <=> VP!ArgumentsFault
  BY DEF V!ArgumentsFault, VP!ArgumentsFault
<1>7. (V!RetOverflow <=> VP!RetOverflow) /\ (V!NullFrame <=> VP!NullFrame)
  BY DEF V!RetOverflow, VP!RetOverflow, V!NullFrame, VP!NullFrame, V!ReturnKinds,
         VP!ReturnKinds, V!Caller, VP!Caller
<1> QED
  BY <1>1, <1>2, <1>3, <1>4, <1>5, <1>6, <1>7 DEF V!Abort, VP!Abort

LEMMA SameMachine == (V!Init <=> VP!Init) /\ (V!Next <=> VP!Next) /\ (V!TypeOK <=> VP!TypeOK)
<1>1. V!Init <=> VP!Init
  BY Zenon DEF V!Init, VP!Init, V!RETURN_SLOTS, VP!RETURN_SLOTS,
             V!StackIndex, VP!StackIndex
<1>2. V!TypeOK <=> VP!TypeOK
  BY Zenon DEF V!ArithKinds, VP!ArithKinds, V!Byte, VP!Byte,
             V!CompareKinds, VP!CompareKinds, V!Faults, VP!Faults,
             V!Frame, VP!Frame, V!Instruction, VP!Instruction,
             V!JumpKinds, VP!JumpKinds, V!Kinds, VP!Kinds,
             V!LocalIndex, VP!LocalIndex, V!RETURN_SLOTS, VP!RETURN_SLOTS,
             V!ReturnKinds, VP!ReturnKinds, V!StackIndex, VP!StackIndex,
             V!TypeOK, VP!TypeOK, V!Types, VP!Types, V!WellFormed, VP!WellFormed
<1>3. (V!EmptyStack <=> VP!EmptyStack) /\ (V!Halt <=> VP!Halt)
  BY SameTools DEF V!EmptyStack, VP!EmptyStack, V!Halt, VP!Halt
<1>4. V!Next <=> VP!Next
  BY <1>3, SameShuffle, SameWrites, SameTransfer, SameAbort DEF V!Next, VP!Next
<1> QED
  BY <1>1, <1>2, <1>4
-----------------------------------------------------------------------------
(* The invariants of the two parts, as this module uses them.              *)

LEMMA MachineAssumptions ==
  /\ VP!BaseAssumption /\ VP!SizeAssumption /\ VP!MemoryAssumption /\ VP!ProgramAssumption
<1>1. VP!BaseAssumption /\ VP!SizeAssumption
  BY MachineAssumption
     DEF V!BaseAssumption, V!SizeAssumption, V!MaxWidth, VP!BaseAssumption,
         VP!SizeAssumption, VP!MaxWidth
<1>2. VP!MemoryAssumption
  BY MachineAssumption, Zenon
     DEF V!MemoryAssumption, VP!MemoryAssumption, V!MaxWidth, VP!MaxWidth, V!LocalRange,
         VP!LocalRange, V!LocalIndex, VP!LocalIndex, V!Byte, VP!Byte
<1>3. VP!ProgramAssumption
  BY DEF VP!ProgramAssumption, VP!WellFormed
<1> QED
  BY <1>1, <1>2, <1>3

LEMMA LoaderStarts ==
  ASSUME L!Init
  PROVE  LP!IInv /\ LP!EndAhead
BY SameLoader, LoaderAssumptions, LP!InitHolds, LP!EndAheadStarts

LEMMA LoaderGoesOn ==
  ASSUME LP!IInv, LP!EndAhead, L!Next \/ UNCHANGED loaderVars
  PROVE  LP!IInv' /\ LP!EndAhead'
<1>1. LP!Next \/ UNCHANGED LP!vars
  BY SameLoader DEF loaderVars, LP!vars, LP!parserVars, LP!arenaVars, LP!tableVars
<1>2. LP!IInv'
  BY <1>1, LoaderAssumptions, LP!ParseKeeps, LP!LinkKeeps, LP!StutterKeeps DEF LP!Next
<1>3. LP!EndAhead'
  BY <1>1, LoaderAssumptions, LP!EndAheadKept DEF LP!IInv
<1> QED
  BY <1>2, <1>3

LEMMA MachineStarts ==
  ASSUME V!Init
  PROVE  VP!Inv
BY SameMachine, MachineAssumptions, VP!InitInv

LEMMA MachineGoesOn ==
  ASSUME VP!Inv, V!Next \/ UNCHANGED <<Program, machineVars>>
  PROVE  VP!Inv'
<1>1. VP!Next \/ UNCHANGED VP!vars
  BY SameMachine DEF machineVars, VP!vars
<1> QED
  BY <1>1, MachineAssumptions, VP!NextKeepsInv
-----------------------------------------------------------------------------
(* The invariant of main.                                                  *)

\* The machine has not taken a step.
Fresh == status = "running" /\ pc = 0 /\ Len(frames) = 1

\* The block of the FILE is there as long as the file is open.
Holds(file, block, context) ==
  /\ held["file"] = file /\ held["arena"] = block /\ held["context"] = context
  /\ held["stream"] = IF file = "none" THEN "none" ELSE IF file = "open" THEN "live" ELSE "freed"

MainTypes ==
  /\ stage \in {"start", "opened", "loading", "executing", "finishing", "error_3",
                "arena_destroy", "error_2", "exited", "died"}
  /\ held \in [Resources -> {"none", "open", "closed", "live", "freed"}]
  /\ code \in {0, 1}

\* What main has taken and what the two parts have done when a statement of
\* main is the next one.
Route ==
  /\ stage = "start" => phase = "parsing" /\ Holds("none", "none", "none")
  /\ stage = "opened" => phase = "parsing" /\ Holds("open", "none", "none")
  /\ stage = "loading" => Holds("open", "live", "live")
  /\ stage = "executing" => phase = "executing" /\ Holds("closed", "live", "live")
  /\ stage = "finishing" =>
       phase = "executing" /\ status = "halted" /\ Holds("closed", "live", "freed")
  /\ stage = "error_3" => phase = "rejected" /\ Holds("open", "live", "live")
  /\ stage = "arena_destroy" => phase = "rejected" /\ Holds("open", "live", "freed")
  /\ stage = "error_2" => \/ phase = "parsing" /\ Holds("open", "none", "none")
                          \/ phase = "rejected" /\ Holds("open", "freed", "freed")
  /\ stage = "exited" =>
       /\ \A b \in HeapBlocks : held[b] # "live"
       /\ \/ /\ code = 0 /\ phase = "executing" /\ status = "halted"
             /\ held["file"] = "closed"
          \/ /\ code = 1 /\ phase \in {"parsing", "rejected"}
             /\ \/ held["file"] = "none" /\ held["stream"] = "none"
                \/ held["file"] = "open" /\ held["stream"] = "freed"
  /\ stage # "exited" => code = 0
  /\ phase # "executing" \/ held["file"] # "closed" => Fresh

AInv == LP!IInv /\ LP!EndAhead /\ VP!Inv /\ MainTypes /\ Route

Arrived == Program \in Seq(VP!Instruction) /\ VP!WellFormed(Program)

LEMMA ProgramArrives == LP!IInv => Arrived
<1> SUFFICES ASSUME LP!IInv
             PROVE  Arrived
  OBVIOUS
<1>1. CASE phase = "executing"
  <2>1. Program = LP!Loaded
    BY <1>1, SameLoader DEF Program
  <2>2. LP!Loaded \in Seq(LP!Instruction) /\ LP!WellFormed(LP!Loaded)
    BY <1>1, LoaderAssumptions, LP!LoadedIsProgram
  <2>3. LP!Instruction = VP!Instruction
    BY Zenon DEF LP!Instruction, VP!Instruction, LP!Kinds, VP!Kinds, LP!Types, VP!Types,
                 LP!ArithKinds, VP!ArithKinds, LP!CompareKinds, VP!CompareKinds,
                 LP!JumpKinds, VP!JumpKinds, LP!ReturnKinds, VP!ReturnKinds
  <2>4. VP!WellFormed(LP!Loaded)
    BY <2>2, Zenon DEF LP!WellFormed, VP!WellFormed, LP!JumpKinds, VP!JumpKinds
  <2> QED
    BY <2>1, <2>2, <2>3, <2>4 DEF Arrived
<1>2. CASE phase # "executing"
  BY <1>2 DEF Program, Arrived, VP!WellFormed
<1> QED
  BY <1>1, <1>2

\* As long as the machine is at its start, what it is about to execute may
\* change, from nothing to the loaded program, when parse_src returns.
LEMMA MachineIsGiven ==
  ASSUME VP!Inv, Fresh, UNCHANGED machineVars, LP!IInv'
  PROVE  VP!Inv'
<1>1. /\ pc' = 0 /\ status' = "running" /\ stack' = stack /\ frames' = frames
      /\ return_stack' = return_stack /\ data' = data /\ Len(frames') = 1
  BY DEF machineVars, Fresh
<1>2. Arrived'
  <2>1. (LP!IInv => Arrived)'
    BY ProgramArrives, PTL
  <2> QED
    BY <2>1
<1>3. PICK n \in Nat : n = Len(Program')
  BY <1>2 DEF Arrived
<1>4. 0 \in 0 .. Len(Program')
  BY <1>3
<1>5. VP!TypeOK'
  BY <1>1, <1>2, <1>4 DEF Arrived, VP!Inv, VP!TypeOK
<1>6. VP!FrameChain' /\ VP!ReturnsBehindCalls'
  BY <1>1 DEF VP!Inv, VP!FrameChain, VP!ReturnsBehindCalls
<1> QED
  BY <1>5, <1>6 DEF VP!Inv
-----------------------------------------------------------------------------
(* Every step keeps it.                                                    *)

\* A statement of main that calls neither parse_src nor begin_execution.
LEMMA MainKeeps ==
  ASSUME AInv, Main
  PROVE  AInv'
<1>1. UNCHANGED <<loaderVars, machineVars>>
  BY DEF Main, Refuse, Open, CannotStat, Create, CannotCreate, Reject, LoadDies, Close,
         CannotClose, RunDies, DestroyContext, DestroyArena, FreeFile, Do
<1>2. /\ phase' = phase /\ status' = status /\ (Fresh' <=> Fresh)
      /\ Program' = Program
  BY <1>1 DEF loaderVars, machineVars, Fresh, Program, L!Loaded, L!CellAt
<1>3. LP!IInv' /\ LP!EndAhead' /\ VP!Inv'
  BY <1>1, <1>2, LoaderGoesOn, MachineGoesOn DEF AInv
<1>4. MainTypes' /\ Route'
  <2>1. MainTypes /\ Route
    BY DEF AInv
  <2> USE <1>2, <2>1 DEF MainTypes, Route, Holds, Do, Set, Resources, HeapBlocks
  <2>2. CASE Refuse \/ Open \/ CannotStat \/ CannotCreate
    BY <2>2 DEF Refuse, Open, CannotStat, CannotCreate
  <2>3. CASE Create
    BY <2>3 DEF Create
  <2>4. CASE Reject \/ LoadDies \/ CannotClose \/ RunDies
    BY <2>4 DEF Reject, LoadDies, CannotClose, RunDies
  <2>5. CASE Close
    BY <2>5 DEF Close
  <2>6. CASE DestroyContext
    BY <2>6 DEF DestroyContext
  <2>7. CASE DestroyArena
    BY <2>7 DEF DestroyArena
  <2>8. CASE FreeFile
    BY <2>8 DEF FreeFile
  <2> QED
    BY <2>2, <2>3, <2>4, <2>5, <2>6, <2>7, <2>8 DEF Main
<1> QED
  BY <1>3, <1>4 DEF AInv

LEMMA LoadKeeps ==
  ASSUME AInv, Load
  PROVE  AInv'
<1>1. /\ stage = "loading" /\ L!Next /\ UNCHANGED machineVars
      /\ stage' = stage /\ held' = held /\ code' = code
  BY DEF Load, mainVars
<1>2. LP!IInv' /\ LP!EndAhead'
  BY <1>1, LoaderGoesOn DEF AInv
<1>3. Fresh /\ Fresh'
  BY <1>1 DEF AInv, Route, Holds, Fresh, machineVars
<1>4. VP!Inv'
  BY <1>1, <1>2, <1>3, MachineIsGiven DEF AInv
<1>5. MainTypes' /\ Route'
  BY <1>1, <1>3 DEF AInv, MainTypes, Route, Holds
<1> QED
  BY <1>2, <1>4, <1>5 DEF AInv

LEMMA RunKeeps ==
  ASSUME AInv, Run
  PROVE  AInv'
<1>1. /\ stage = "executing" /\ V!Next /\ UNCHANGED loaderVars
      /\ stage' = stage /\ held' = held /\ code' = code
  BY DEF Run, mainVars
<1>2. LP!IInv' /\ LP!EndAhead' /\ VP!Inv'
  BY <1>1, LoaderGoesOn, MachineGoesOn DEF AInv
<1>3. phase' = phase /\ phase = "executing"
  BY <1>1 DEF loaderVars, AInv, Route
<1>4. MainTypes' /\ Route'
  BY <1>1, <1>3 DEF AInv, MainTypes, Route, Holds
<1> QED
  BY <1>2, <1>4 DEF AInv

LEMMA StutterKeeps ==
  ASSUME AInv, UNCHANGED vars
  PROVE  AInv'
<1>1. /\ UNCHANGED <<loaderVars, machineVars>>
      /\ stage' = stage /\ held' = held /\ code' = code
  BY DEF vars, mainVars
<1>2. /\ phase' = phase /\ status' = status /\ (Fresh' <=> Fresh)
      /\ Program' = Program
  BY <1>1 DEF loaderVars, machineVars, Fresh, Program, L!Loaded, L!CellAt
<1>3. LP!IInv' /\ LP!EndAhead' /\ VP!Inv'
  BY <1>1, <1>2, LoaderGoesOn, MachineGoesOn DEF AInv
<1>4. MainTypes' /\ Route'
  BY <1>1, <1>2 DEF AInv, MainTypes, Route, Holds
<1> QED
  BY <1>3, <1>4 DEF AInv

LEMMA InitHolds ==
  ASSUME Init
  PROVE  AInv
<1>1. LP!IInv /\ LP!EndAhead /\ VP!Inv
  BY LoaderStarts, MachineStarts DEF Init
<1>2. phase = "parsing" /\ Fresh
  BY DEF Init, L!Init, V!Init, Fresh
<1>3. MainTypes /\ Route
  BY <1>2 DEF Init, MainTypes, Route, Holds, Resources, HeapBlocks
<1> QED
  BY <1>1, <1>3 DEF AInv
-----------------------------------------------------------------------------
(* Places: M stands for the mnemonics of a text, e for its end.            *)

LEMMA LeastOf ==
  ASSUME NEW S \in SUBSET Nat, S # {}
  PROVE  Min(S) \in S /\ \A y \in S : Min(S) <= y
<1>1. Min(S) = LP!Min(S)
  BY Zenon DEF Min, LP!Min
<1>2. LP!Min(S) \in S /\ \A y \in S : LP!Min(S) <= y
  BY LoaderAssumptions, LP!MinIsLeast
<1> QED
  BY <1>1, <1>2

LEMMA LeastIs ==
  ASSUME NEW S \in SUBSET Nat, NEW m \in S, \A y \in S : m <= y
  PROVE  Min(S) = m
<1>1. Min(S) = LP!Min(S)
  BY Zenon DEF Min, LP!Min
<1> QED
  BY <1>1, LoaderAssumptions, LP!MinIs

PlaceIn(M, e, i) == Min({j \in M : LP!Count(M, j) = i} \cup {e})

FirstIn(M, e, j) == Min({k \in M : k >= j} \cup {e})

\* The mnemonic with as many above it as j is j.
LEMMA PlaceFound ==
  ASSUME NEW e \in Nat \ {0}, NEW M \in SUBSET (1 .. (e - 1)), NEW j \in M
  PROVE  PlaceIn(M, e, LP!Count(M, j)) = j
<1> DEFINE S == {k \in M : LP!Count(M, k) = LP!Count(M, j)} \cup {e}
<1>1. \A k \in M : k \in Nat \ {0} /\ k <= e
  OBVIOUS
<1>2. \A k \in M : LP!Count(M, k) = LP!Count(M, j) => k = j
  BY <1>1, LoaderAssumptions, LP!CountInjective
<1>3. j \in S /\ \A y \in S : y = j \/ y = e
  BY <1>2
<1> HIDE DEF S
<1>4. S \in SUBSET Nat /\ \A y \in S : j <= y
  BY <1>1, <1>3
<1>5. Min(S) = j
  BY <1>3, <1>4, LeastIs
<1> QED
  BY <1>5 DEF PlaceIn, S

\* Behind the last mnemonic is the end.
LEMMA PlaceBehind ==
  ASSUME NEW e \in Nat \ {0}, NEW M \in SUBSET (1 .. (e - 1))
  PROVE  PlaceIn(M, e, LP!Count(M, e)) = e
<1> DEFINE S == {k \in M : LP!Count(M, k) = LP!Count(M, e)} \cup {e}
<1>1. \A k \in M : k \in Nat \ {0} /\ k < e
  OBVIOUS
<1>2. ASSUME NEW k \in M
      PROVE  LP!Count(M, k) # LP!Count(M, e)
  <2>1. LP!Count(M, k) \in Nat /\ LP!Count(M, k) + 1 <= LP!Count(M, e)
    BY <1>1, LoaderAssumptions, LP!CountStrict, LP!CountType
  <2> QED
    BY <2>1
<1>3. S = {e}
  BY <1>2
<1>4. Min(S) = e
  BY <1>3, LeastIs
<1> QED
  BY <1>4 DEF PlaceIn

\* The first mnemonic at j or below has as many above it as j has.
LEMMA FirstIsPlace ==
  ASSUME NEW e \in Nat \ {0}, NEW M \in SUBSET (1 .. (e - 1)), NEW j \in 1 .. e
  PROVE  FirstIn(M, e, j) = PlaceIn(M, e, LP!Count(M, j))
<1> DEFINE S == {k \in M : k >= j} \cup {e}
           f == Min(S)
<1>0. /\ j \in Nat \ {0} /\ j <= e /\ e \in S
      /\ \A k : k \in S <=> (k \in M /\ k >= j) \/ k = e
      /\ \A k \in M : k \in Nat
  OBVIOUS
<1> HIDE DEF S
<1>1. S \in SUBSET Nat /\ S # {}
  BY <1>0
<1>2. f \in S /\ \A y \in S : f <= y
  BY <1>1, LeastOf
<1> HIDE DEF f
<1>3. f \in Nat /\ j <= f /\ \A k \in j .. (f - 1) : k \notin M
  BY <1>0, <1>1, <1>2
<1>4. LP!Count(M, f) = LP!Count(M, j)
  BY <1>0, <1>3, LoaderAssumptions, LP!CountSame
<1>5. PlaceIn(M, e, LP!Count(M, f)) = f
  BY <1>0, <1>2, PlaceFound, PlaceBehind
<1> QED
  BY <1>4, <1>5 DEF FirstIn, f, S

\* Every index below the number of mnemonics is that of one of them.
LEMMA PlaceExists ==
  ASSUME NEW e \in Nat \ {0}, NEW M \in SUBSET (1 .. (e - 1)),
         NEW i \in Nat, i < LP!Count(M, e)
  PROVE  \E j \in M : LP!Count(M, j) = i
<1> DEFINE T == {y \in 1 .. e : LP!Count(M, y) > i}
<1>0. LP!Count(M, 1) = 0 /\ \A y \in Nat : LP!Count(M, y) \in Nat
  BY LoaderAssumptions, LP!CountStart, LP!CountType
<1>1. T \in SUBSET Nat /\ e \in T
  <2>1. LP!Count(M, e) \in Nat
    BY LoaderAssumptions, LP!CountType
  <2> QED
    BY <2>1
<1> HIDE DEF T
<1>2. PICK x \in T : \A y \in T : x <= y
  BY <1>1, LeastOf
<1>3. x \in 1 .. e /\ LP!Count(M, x) > i
  BY DEF T
<1>4. x # 1
  BY <1>0, <1>3
<1> DEFINE j == x - 1
<1>5. j \in Nat \ {0} /\ j \in 1 .. e /\ j + 1 = x /\ j < x
  BY <1>3, <1>4
<1>6. LP!Count(M, j) \in Nat /\ LP!Count(M, x) \in Nat
  BY <1>0, <1>3, <1>5
<1> HIDE DEF j
<1>7. LP!Count(M, j) <= i
  <2>1. j \notin T
    BY <1>1, <1>2, <1>5
  <2> QED
    BY <1>5, <1>6, <2>1 DEF T
<1>8. CASE j \in M
  <2>1. LP!Count(M, x) = LP!Count(M, j) + 1
    BY <1>5, <1>8, LoaderAssumptions, LP!CountStep
  <2> QED
    BY <1>3, <1>6, <1>7, <1>8, <2>1
<1>9. CASE j \notin M
  <2>1. /\ \A k \in j .. (x - 1) : k \notin M
        /\ x \in Nat /\ j <= x
    BY <1>3, <1>5, <1>9
  <2>2. LP!Count(M, x) = LP!Count(M, j)
    BY <1>5, <2>1, LoaderAssumptions, LP!CountSame
  <2> QED
    BY <1>3, <1>6, <1>7, <2>2
<1> QED
  BY <1>8, <1>9
-----------------------------------------------------------------------------
(* The accepted text and the loaded program.                               *)

Accepted == LP!IInv /\ LP!EndAhead /\ phase = "executing"

\* parse_src has read up to the end of the text, or to the end of file that
\* stands there.
LEMMA EndOfText ==
  ASSUME Accepted
  PROVE  /\ Len(src) \in Nat /\ at \in 1 .. (Len(src) + 1) /\ TextEnd(src) \in Nat \ {0}
         /\ TextEnd(src) <= at /\ TextEnd(src) <= Len(src) + 1
         /\ TextEnd(src) # at => TextEnd(src) = at - 1 /\ src[at - 1].tok = "EOF"
<1> DEFINE ends == {j \in 1 .. Len(src) :
                      src[j].tok = "EOF" /\ (j > 1 => src[j - 1].tok \in LineEnds)}
           S == ends \cup {Len(src) + 1}
<1>1. LP!TypeInv /\ LP!Order /\ LP!EndAhead /\ phase = "executing"
  BY DEF Accepted, LP!IInv
<1>2. Len(src) \in Nat /\ at \in 1 .. (Len(src) + 1)
  <2>1. Len(src) \in Nat
    BY <1>1, LoaderAssumptions, LP!TypeFacts
  <2> QED
    BY <1>1, <2>1 DEF LP!TypeInv, LP!TypeOK
<1>3. \A j \in 1 .. Len(src) : j \in ends <=> LP!EndsText(src, j)
  BY DEF LineEnds, LP!EndsText, LP!StartsLine, LP!LineEnds, LP!EndOfStatement, LP!Sections
<1>4. /\ \A j \in 1 .. (at - 2) : ~LP!EndsText(src, j)
      /\ at <= Len(src) => at > 1 /\ LP!EndsText(src, at - 1)
  BY <1>1, LoaderAssumptions, LP!AcceptedEnds
<1>5. ends \in SUBSET (1 .. Len(src))
  OBVIOUS
<1>6. TextEnd(src) = Min(S)
  BY DEF TextEnd
<1>7. \A j \in ends : j >= at - 1 /\ src[j].tok = "EOF"
  BY <1>2, <1>3, <1>4
<1>8. at <= Len(src) => at - 1 \in ends
  BY <1>2, <1>3, <1>4
<1> HIDE DEF ends
<1>9. CASE at - 1 \in ends
  <2>1. at - 1 \in S
    BY <1>9
  <2>2. S \in SUBSET Nat
    <3>1. \A y \in S : y \in Nat
      BY <1>2, <1>5
    <3> QED
      BY <3>1, Zenon
  <2>3. \A y \in S : at - 1 <= y
    BY <1>2, <1>7
  <2> HIDE DEF S
  <2>4. Min(S) = at - 1
    BY <2>1, <2>2, <2>3, LeastIs
  <2> QED
    BY <1>2, <1>5, <1>6, <1>7, <1>9, <2>4
<1>10. CASE at - 1 \notin ends
  <2>1. at = Len(src) + 1
    BY <1>2, <1>8, <1>10
  <2>2. ends = {}
    BY <1>2, <1>5, <1>7, <1>10, <2>1
  <2>3. Len(src) + 1 \in S /\ S \in SUBSET Nat /\ \A y \in S : Len(src) + 1 <= y
    BY <1>2, <2>2
  <2>4. Min(S) = Len(src) + 1
    BY <2>3, LeastIs
  <2> QED
    BY <1>2, <1>6, <2>1, <2>4
<1> QED
  BY <1>9, <1>10

\* The mnemonics and the marks of the text are those the parser has read.
LEMMA TextIsRead ==
  ASSUME Accepted
  PROVE  /\ Mnemonics(src) = {j \in LP!OpMarks : j < at}
         /\ Mnemonics(src) \in SUBSET (1 .. (TextEnd(src) - 1))
         /\ \A name : Marks(src, name) = {j \in LP!LabelMarks : j < at /\ src[j].data = name}
         /\ \A name : Marks(src, name) \in SUBSET (1 .. (TextEnd(src) - 1))
<1> DEFINE e == TextEnd(src)
<1>1. /\ Len(src) \in Nat /\ at \in 1 .. (Len(src) + 1) /\ e \in Nat \ {0}
      /\ e <= at /\ e <= Len(src) + 1 /\ (e # at => e = at - 1 /\ src[at - 1].tok = "EOF")
  BY EndOfText
<1> HIDE DEF e
<1>2. ASSUME NEW j, j \in 1 .. Len(src), j < at, src[j].tok # "EOF"
      PROVE  j \in 1 .. (e - 1)
  BY <1>1, <1>2
<1>3. \A j \in 1 .. (e - 1) : j \in 1 .. Len(src) /\ j < at
  BY <1>1
<1>4. Mnemonics(src) = {j \in 1 .. (e - 1) :
                        src[j].tok = "OP" /\ (j > 1 => src[j - 1].tok \in LineEnds)}
  BY DEF Mnemonics, e
<1>5. \A name : Marks(src, name) = {j \in 1 .. (e - 1) : src[j].tok = "LABEL" /\ src[j].data = name}
  BY DEF Marks, e
<1>6. Mnemonics(src) = {j \in LP!OpMarks : j < at}
  BY <1>2, <1>3, <1>4 DEF LP!OpMarks, LP!IsOp, LP!StartsLine, LP!LineEnds, LineEnds,
                          LP!EndOfStatement, LP!Sections
<1>7. \A name : Marks(src, name) = {j \in LP!LabelMarks : j < at /\ src[j].data = name}
  BY <1>2, <1>3, <1>5 DEF LP!LabelMarks
<1> QED
  BY <1>4, <1>5, <1>6, <1>7 DEF e

\* Counting the mnemonics of the text is counting those read.
LEMMA TextPlaces ==
  ASSUME Accepted
  PROVE  LET M == Mnemonics(src)
             e == TextEnd(src)
         IN  /\ \A i : PlaceOf(i) = PlaceIn(M, e, i)
             /\ \A j : FirstFrom(src, j) = FirstIn(M, e, j)
             /\ \A j \in 1 .. e : LP!Count(M, j) = LP!Count(LP!OpMarks, j)
             /\ Len(LP!Loaded) = LP!Count(M, e)
<1> DEFINE M == Mnemonics(src)
           e == TextEnd(src)
<1>1. /\ Len(src) \in Nat /\ at \in 1 .. (Len(src) + 1) /\ e \in Nat \ {0} /\ e <= at
      /\ M = {j \in LP!OpMarks : j < at} /\ M \in SUBSET (1 .. (e - 1))
      /\ LP!OpMarks \in SUBSET (1 .. Len(src))
  BY EndOfText, TextIsRead DEF LP!OpMarks
<1> HIDE DEF M, e
<1>2. \A j \in Nat : {k \in M : k < j} = LP!Above(M, j)
  BY <1>1 DEF LP!Above
<1>3. \A S : Cardinality(S) = LP!Cardinality(S)
  BY Zenon DEF Cardinality, LP!Cardinality
<1>4. \A j \in Nat : OpsAbove(j) = LP!Count(M, j)
  BY <1>2, <1>3 DEF OpsAbove, LP!Count, M
<1>5. ASSUME NEW i
      PROVE  PlaceOf(i) = PlaceIn(M, e, i)
  <2>1. {j \in M : OpsAbove(j) = i} = {j \in M : LP!Count(M, j) = i}
    BY <1>1, <1>4
  <2> QED
    BY <2>1 DEF PlaceOf, PlaceIn, M, e
<1>6. ASSUME NEW j
      PROVE  FirstFrom(src, j) = FirstIn(M, e, j)
  BY DEF FirstFrom, FirstIn, M, e
<1>7. ASSUME NEW j \in 1 .. e
      PROVE  LP!Count(M, j) = LP!Count(LP!OpMarks, j)
  <2>1. LP!Above(M, j) = LP!Above(LP!OpMarks, j)
    BY <1>1 DEF LP!Above
  <2> QED
    BY <2>1 DEF LP!Count
<1>8. Len(LP!Loaded) = LP!Count(M, e)
  <2>1. LP!Above(M, e) = LP!Above(LP!OpMarks, at)
    BY <1>1 DEF LP!Above
  <2>2. LP!TypeInv /\ Len(instructions) = LP!Count(LP!OpMarks, at)
    BY DEF Accepted, LP!IInv, LP!Order, LP!Written, LP!InstructionsWritten
  <2>3. Len(instructions) \in Nat
    BY <2>2, LoaderAssumptions, LP!TypeFacts
  <2>4. Len(LP!Loaded) = Len(instructions)
    BY <2>3 DEF LP!Loaded
  <2> QED
    BY <2>1, <2>2, <2>4 DEF LP!Count
<1> QED
  BY <1>5, <1>6, <1>7, <1>8 DEF M, e

\* The program executed is the text: it starts at the first mnemonic, each
\* instruction is followed by the one below, a transfer leads to the first
\* mnemonic below the first mark of its name, and behind the program the
\* text ends.
LEMMA ProgramIsText ==
  ASSUME Accepted
  PROVE  /\ PlaceOf(0) = FirstFrom(src, 1)
         /\ Len(Program) \in Nat /\ PlaceOf(Len(Program)) = TextEnd(src)
         /\ \A i \in 0 .. (Len(Program) - 1) :
              LET here == PlaceOf(i)
                  inst == Program[i + 1]
              IN  /\ here \in Mnemonics(src) /\ here < TextEnd(src)
                  /\ src[here].data.kind = inst.kind
                  /\ PlaceOf(i + 1) = FirstFrom(src, here + 1)
                  /\ inst.kind \in LP!JumpKinds =>
                       PlaceOf(i + 1 + inst.offset) =
                         FirstFrom(src, Min(Marks(src, src[here + 1].data)))
<1> DEFINE M == Mnemonics(src)
           e == TextEnd(src)
<1>1. /\ e \in Nat \ {0} /\ M \in SUBSET (1 .. (e - 1)) /\ M = {j \in LP!OpMarks : j < at}
      /\ \A i : PlaceOf(i) = PlaceIn(M, e, i)
      /\ \A j : FirstFrom(src, j) = FirstIn(M, e, j)
      /\ \A j \in 1 .. e : LP!Count(M, j) = LP!Count(LP!OpMarks, j)
      /\ Len(LP!Loaded) = LP!Count(M, e)
  BY EndOfText, TextIsRead, TextPlaces
<1>2. Program = LP!Loaded /\ LP!IInv /\ phase = "executing"
  BY SameLoader DEF Accepted, Program
<1> HIDE DEF M, e
<1>3. \A j \in 1 .. e : FirstFrom(src, j) = PlaceOf(LP!Count(M, j)) /\ LP!Count(M, j) \in Nat
  <2>1. \A j \in 1 .. e : FirstFrom(src, j) = PlaceOf(LP!Count(M, j))
    BY <1>1, FirstIsPlace
  <2>2. \A j \in Nat : LP!Count(M, j) \in Nat
    BY LoaderAssumptions, LP!CountType
  <2> QED
    BY <1>1, <2>1, <2>2
<1>4. PlaceOf(0) = FirstFrom(src, 1)
  <2>1. 1 \in 1 .. e
    BY <1>1
  <2>2. LP!Count(M, 1) = 0
    BY LoaderAssumptions, LP!CountStart
  <2> QED
    BY <1>3, <2>1, <2>2
<1>5. Len(Program) \in Nat /\ PlaceOf(Len(Program)) = e
  <2>1. e \in 1 .. e
    BY <1>1
  <2> QED
    BY <1>1, <1>2, <1>3, <2>1, PlaceBehind
<1>6. ASSUME NEW i \in 0 .. (Len(Program) - 1)
      PROVE  LET here == PlaceOf(i)
                 inst == Program[i + 1]
             IN  /\ here \in M /\ here < e
                 /\ src[here].data.kind = inst.kind
                 /\ PlaceOf(i + 1) = FirstFrom(src, here + 1)
                 /\ inst.kind \in LP!JumpKinds =>
                      PlaceOf(i + 1 + inst.offset) =
                        FirstFrom(src, Min(Marks(src, src[here + 1].data)))
  <2>1. i \in Nat /\ i < LP!Count(M, e)
    BY <1>1, <1>2, <1>5
  <2>2. PICK j \in M : LP!Count(M, j) = i
    BY <1>1, <2>1, PlaceExists
  <2>3. PlaceOf(i) = j
    BY <1>1, <2>2, PlaceFound
  <2>4. j \in Nat \ {0} /\ j < e /\ j \in 1 .. e /\ j + 1 \in 1 .. e /\ j < at /\ j \in LP!OpMarks
    BY <1>1
  <2>5. LP!Count(LP!OpMarks, j) = i
    BY <1>1, <2>2, <2>4
  <2> DEFINE found == {k \in LP!LabelMarks : k < at /\ src[k].data = LP!Token(src, j + 1).data}
  <2>6. /\ LP!Loaded[i + 1].kind = src[j].data.kind
        /\ src[j].data.kind \in LP!JumpKinds =>
             /\ j + 1 <= Len(src) /\ found # {}
             /\ i + 1 + LP!Loaded[i + 1].offset = LP!Count(LP!OpMarks, LP!Min(found))
    BY <1>2, <2>4, <2>5, LoaderAssumptions, LP!LoadedAsWritten
  <2>7. PlaceOf(i + 1) = FirstFrom(src, j + 1)
    <3>1. LP!Count(M, j + 1) = i + 1
      BY <2>2, <2>4, LoaderAssumptions, LP!CountStep
    <3> QED
      BY <1>3, <2>4, <3>1
  <2>8. ASSUME src[j].data.kind \in LP!JumpKinds
        PROVE  PlaceOf(i + 1 + LP!Loaded[i + 1].offset) =
                 FirstFrom(src, Min(Marks(src, src[j + 1].data)))
    <3> DEFINE marks == Marks(src, src[j + 1].data)
    <3>1. LP!Token(src, j + 1).data = src[j + 1].data
      BY <2>6, <2>8 DEF LP!Token
    <3>2. marks = found /\ marks \in SUBSET (1 .. (e - 1)) /\ marks # {}
      BY <2>6, <2>8, <3>1, TextIsRead DEF e
    <3> HIDE DEF marks, found
    <3>3. Min(marks) = LP!Min(found)
      BY <3>2, Zenon DEF Min, LP!Min
    <3>4. Min(marks) \in 1 .. e
      <4>1. marks \in SUBSET Nat
        BY <3>2
      <4>2. PICK m \in marks : m = Min(marks)
        BY <3>2, <4>1, LeastOf
      <4>3. m \in 1 .. (e - 1)
        BY <3>2
      <4> QED
        BY <1>1, <4>2, <4>3
    <3>5. LP!Count(M, Min(marks)) = i + 1 + LP!Loaded[i + 1].offset
      BY <1>1, <2>6, <2>8, <3>3, <3>4
    <3>6. FirstFrom(src, Min(marks)) = PlaceOf(LP!Count(M, Min(marks)))
      BY <1>3, <3>4
    <3> QED
      BY <3>5, <3>6 DEF marks
  <2> HIDE DEF found
  <2> QED
    BY <1>2, <2>2, <2>3, <2>4, <2>6, <2>7, <2>8
<1> QED
  BY <1>4, <1>5, <1>6 DEF M, e
-----------------------------------------------------------------------------
(* The theorems.                                                           *)

\* Every step of main, of parse_src and of begin_execution keeps AInv.
THEOREM AssemblerInvariant == Spec => []AInv
<1>1. Init => AInv
  BY InitHolds
<1>2. AInv /\ [Next]_vars => AInv'
  BY MainKeeps, LoadKeeps, RunKeeps, StutterKeeps DEF Next
<1> QED
  BY <1>1, <1>2, PTL DEF Spec

\* The machine is type correct on whatever the loader has given it: its
\* pointers stay inside their arrays and pc inside the loaded program, for
\* every text.
THEOREM AssemblerTypes == Spec => []TypeOK
<1>1. AInv => TypeOK
  BY SameMachine DEF AInv, VP!Inv, MainTypes, TypeOK
<1> QED
  BY <1>1, AssemblerInvariant, PTL

\* main holds the file, the arena and the context while they are used and
\* releases every block of them by whichever of its labels it returns; the
\* file itself is closed if main returns 0, and still open after every error
\* behind fopen.
THEOREM ResourcesHeld == Spec => []HeldWhileUsed
<1>1. AInv => HeldWhileUsed
  BY DEF AInv, MainTypes, Route, Holds, HeldWhileUsed, HeapBlocks
<1> QED
  BY <1>1, AssemblerInvariant, PTL

\* The exit code of main tells a text that was executed to its end from one
\* of which nothing was executed.
THEOREM ExitCodes == Spec => []ExitCodeTells
<1>1. AInv => ExitCodeTells
  <2> SUFFICES ASSUME AInv, stage = "exited"
               PROVE  IF code = 0
                      THEN errcode = 0 /\ status = "halted" /\ resolved = Len(instructions)
                      ELSE status = "running" /\ pc = 0 /\ Len(frames) = 1 /\ resolved = 0
    BY DEF ExitCodeTells
  <2>1. LP!Order
    BY DEF AInv, LP!IInv
  <2>2. CASE code = 0 /\ phase = "executing" /\ status = "halted"
    BY <2>1, <2>2 DEF LP!Order
  <2>3. CASE code = 1 /\ phase \in {"parsing", "rejected"}
    BY <2>1, <2>3 DEF LP!Order, AInv, Route, Fresh
  <2> QED
    BY <2>2, <2>3 DEF AInv, Route
<1> QED
  BY <1>1, AssemblerInvariant, PTL
-----------------------------------------------------------------------------
(* The execution as one of the text.                                       *)

Here == IF Started THEN PlaceOf(pc) ELSE 0

\* The definitions under Source are those of this module.
LEMMA SameText ==
  /\ Source!TextEnd(src) = TextEnd(src) /\ Source!Mnemonics(src) = Mnemonics(src)
  /\ \A j : Source!FirstFrom(src, j) = FirstFrom(src, j)
  /\ \A name : Source!Min(Source!Marks(src, name)) = Min(Marks(src, name))
<1>1. \A S : Source!Min(S) = Min(S)
  BY Zenon DEF Source!Min, Min
<1>2. Source!TextEnd(src) = TextEnd(src)
  BY <1>1, Zenon DEF Source!TextEnd, TextEnd, Source!LineEnds, LineEnds
<1>3. Source!Mnemonics(src) = Mnemonics(src)
  BY <1>2, Zenon DEF Source!Mnemonics, Mnemonics, Source!LineEnds, LineEnds
<1>4. \A j : Source!FirstFrom(src, j) = FirstFrom(src, j)
  BY <1>1, <1>2, <1>3, Zenon DEF Source!FirstFrom, FirstFrom
<1>5. \A name : Source!Min(Source!Marks(src, name)) = Min(Marks(src, name))
  BY <1>1, <1>2, Zenon DEF Source!Marks, Marks
<1> QED
  BY <1>2, <1>3, <1>4, <1>5

\* A place depends on the text only.
LEMMA PlacesStay ==
  ASSUME src' = src
  PROVE  /\ PlaceOf(pc)' = PlaceOf(pc')
         /\ \A d : PlaceOf(return_stack[d])' = PlaceOf(return_stack'[d])
         /\ \A d : PlaceOf(return_stack[frames[d].rsp - 1])' =
                     PlaceOf(return_stack'[frames'[d].rsp - 1])
BY DEF PlaceOf, OpsAbove, Mnemonics, TextEnd

\* Frame d + 1 resumes at return slot d - 1.
LEMMA Resumes ==
  VP!Inv => /\ Len(frames) \in Nat \ {0}
            /\ \A d \in 1 .. (Len(frames) - 1) : frames[d + 1].rsp - 1 = d - 1
BY MachineAssumptions, VP!RecordsType

LEMMA ReturnsAre ==
  ASSUME VP!Inv, VP!Inv', src' = src
  PROVE  /\ Len(frames) \in Nat \ {0} /\ Len(frames') \in Nat \ {0}
         /\ Returns = [d \in 1 .. (Len(frames) - 1) |-> PlaceOf(return_stack[d - 1])]
         /\ Returns' = [d \in 1 .. (Len(frames') - 1) |-> PlaceOf(return_stack'[d - 1])]
<1>1. /\ Len(frames) \in Nat \ {0}
      /\ \A d \in 1 .. (Len(frames) - 1) : frames[d + 1].rsp - 1 = d - 1
  BY Resumes
<1>2. /\ Len(frames') \in Nat \ {0}
      /\ \A d \in 1 .. (Len(frames') - 1) : frames'[d + 1].rsp - 1 = d - 1
  <2>1. (VP!Inv => /\ Len(frames) \in Nat \ {0}
                   /\ \A d \in 1 .. (Len(frames) - 1) : frames[d + 1].rsp - 1 = d - 1)'
    BY Resumes, PTL
  <2> QED
    BY <2>1
<1>3. Returns' = [d \in 1 .. (Len(frames') - 1) |-> PlaceOf(return_stack'[frames'[d + 1].rsp - 1])]
  BY PlacesStay DEF Returns
<1> QED
  BY <1>1, <1>2, <1>3 DEF Returns

\* A turn of the fetch loop, as seen from the text.
Turn == AInv /\ AInv' /\ Run

LEMMA TurnFacts ==
  ASSUME Turn
  PROVE  /\ Accepted /\ VP!Inv /\ VP!Inv' /\ VP!Next
         /\ src' = src /\ Started /\ Started' /\ Program' = Program
         /\ Here = PlaceOf(pc) /\ Here' = PlaceOf(pc')
         /\ pc \in 0 .. Len(Program) /\ Len(Program) \in Nat
<1>1. /\ stage = "executing" /\ V!Next /\ UNCHANGED <<loaderVars, mainVars>>
      /\ LP!IInv /\ LP!EndAhead /\ VP!Inv /\ VP!Inv' /\ Route
  BY DEF Turn, Run, AInv
<1>2. phase = "executing" /\ Started /\ Started' /\ src' = src
  BY <1>1 DEF Route, Holds, Started, loaderVars, mainVars
<1>3. Program' = Program
  BY <1>1 DEF loaderVars, Program, L!Loaded, L!CellAt
<1>4. Here = PlaceOf(pc) /\ Here' = PlaceOf(pc')
  BY <1>2, PlacesStay DEF Here
<1>5. pc \in 0 .. Len(Program)
  BY <1>1 DEF VP!Inv, VP!TypeOK
<1>6. Accepted
  BY <1>1, <1>2 DEF Accepted
<1>7. Len(Program) \in Nat
  BY <1>6, ProgramIsText
<1> QED
  BY <1>1, <1>2, <1>3, <1>4, <1>5, <1>6, <1>7, SameMachine

\* The instruction fetched is the mnemonic at Here.
LEMMA Fetched ==
  ASSUME Turn, VP!Fetch
  PROVE  /\ Here < TextEnd(src) /\ Here \in Mnemonics(src)
         /\ src[Here].data.kind = VP!Inst.kind
         /\ PlaceOf(pc + 1) = FirstFrom(src, Here + 1)
         /\ VP!Inst.kind \in LP!JumpKinds =>
              PlaceOf(pc + 1 + VP!Inst.offset) =
                FirstFrom(src, Min(Marks(src, src[Here + 1].data)))
         /\ StateOf = "running"
<1>1. Accepted /\ Started /\ Here = PlaceOf(pc) /\ pc \in 0 .. Len(Program) /\ Len(Program) \in Nat
  BY TurnFacts
<1>2. status = "running" /\ pc < Len(Program) /\ VP!Inst = Program[pc + 1]
  BY DEF VP!Fetch, VP!Inst
<1>3. pc \in 0 .. (Len(Program) - 1)
  BY <1>1, <1>2
<1>4. StateOf = "running"
  BY <1>1, <1>2 DEF StateOf
<1> QED
  BY <1>1, <1>2, <1>3, <1>4, ProgramIsText

\* A step that leaves the calls alone.
LEMMA CallsStay ==
  ASSUME Turn, return_stack' = return_stack, Len(frames') = Len(frames)
  PROVE  Returns' = Returns
<1>1. VP!Inv /\ VP!Inv' /\ src' = src
  BY TurnFacts
<1> QED
  BY <1>1, ReturnsAre

\* Everything but calls, jumps and returns goes on below.
LEMMA Falls ==
  ASSUME Turn, VP!Fetch, VP!Inst.kind \notin {"jump", "jumpproc"},
         pc' = pc + 1, status' = status, return_stack' = return_stack,
         Len(frames') = Len(frames)
  PROVE  Source!Fall(Source!Others)
<1>1. /\ src' = src /\ Started /\ Started' /\ Here' = PlaceOf(pc')
  BY TurnFacts
<1>2. /\ Here < TextEnd(src) /\ Here \in Mnemonics(src) /\ src[Here].data.kind = VP!Inst.kind
      /\ PlaceOf(pc + 1) = FirstFrom(src, Here + 1) /\ StateOf = "running"
  BY Fetched
<1>3. Returns' = Returns
  BY CallsStay
<1>4. StateOf' = StateOf
  BY <1>1 DEF StateOf
<1>5. src[Here].data.kind \in Source!Others
  BY <1>2, SameText DEF Source!Others
<1>6. Here' = Source!Below
  BY <1>1, <1>2, SameText DEF Source!Below, Here
<1> QED
  BY <1>1, <1>2, <1>3, <1>4, <1>5, <1>6, SameText DEF Source!Fall, Source!At, Here

\* A transfer that is taken, as far as the place goes.
LEMMA Transfers ==
  ASSUME Turn, VP!Fetch, VP!Inst.kind \in LP!JumpKinds,
         pc' = pc + 1 + VP!Inst.offset, status' = status
  PROVE  Source!At({VP!Inst.kind}) /\ Here' = Source!Target
<1>1. /\ src' = src /\ Started /\ Started' /\ Here' = PlaceOf(pc')
  BY TurnFacts
<1>2. /\ Here < TextEnd(src) /\ src[Here].data.kind = VP!Inst.kind /\ StateOf = "running"
      /\ PlaceOf(pc + 1 + VP!Inst.offset) = FirstFrom(src, Min(Marks(src, src[Here + 1].data)))
  BY Fetched
<1>3. StateOf' = StateOf
  BY <1>1 DEF StateOf
<1>4. Here' = Source!Target
  BY <1>1, <1>2, SameText DEF Source!Target, Here
<1> QED
  BY <1>1, <1>2, <1>3, <1>4, SameText DEF Source!At, Here

\* A handler that transfers nothing goes on with the mnemonic below.
LEMMA HandlersFall ==
  ASSUME Turn, VP!EmptyStack \/ VP!Shuffle \/ VP!Store \/ VP!Pset
  PROVE  Source!Fall(Source!Others)
<1>1. VP!Inv
  BY TurnFacts
<1>2. return_stack' = return_stack /\ Len(frames') = Len(frames)
  BY <1>1, MachineAssumptions, VP!QuietActions
<1>3. VP!Fetch /\ VP!Continue /\ VP!Inst.kind \notin {"jump", "jumpproc"}
  <2>1. CASE VP!EmptyStack
    BY <2>1 DEF VP!EmptyStack, VP!Starved, VP!CheckedKinds
  <2>2. CASE VP!Shuffle
    BY <2>2 DEF VP!Shuffle, VP!Push, VP!Ppush, VP!Pload, VP!Arith, VP!Compare, VP!PrintTop,
                VP!Pop, VP!Swap, VP!Dupe, VP!Copy, VP!LoadLocal, VP!Pderef, VP!Rewrite,
                VP!Ready, VP!ArithKinds, VP!CompareKinds
  <2>3. CASE VP!Store \/ VP!Pset
    BY <2>3 DEF VP!Store, VP!Pset, VP!Ready
  <2> QED
    BY <1>1, <2>1, <2>2, <2>3
<1> QED
  BY <1>2, <1>3, Falls DEF VP!Continue

LEMMA JumpsBranch ==
  ASSUME Turn, VP!Jump \/ VP!Jumpcmp
  PROVE  Source!Branch \/ Source!Fall(Source!Others)
<1>1. VP!Inv
  BY TurnFacts
<1>2. return_stack' = return_stack /\ Len(frames') = Len(frames)
  BY <1>1, MachineAssumptions, VP!QuietActions
<1>3. Returns' = Returns
  BY <1>2, CallsStay
<1>4. VP!Fetch /\ VP!Inst.kind \in {"jump", "jumpcmp"} /\ status' = status
  BY DEF VP!Jump, VP!Jumpcmp, VP!Ready
<1>5. CASE pc' = pc + 1 + VP!Inst.offset
  <2>1. Source!At({VP!Inst.kind}) /\ Here' = Source!Target
    BY <1>4, <1>5, Transfers DEF LP!JumpKinds
  <2>2. Source!Branch
    BY <1>3, <1>4, <2>1 DEF Source!Branch, Source!At, Here
  <2> QED
    BY <2>2
<1>6. CASE pc' = pc + 1 /\ VP!Inst.kind = "jumpcmp"
  BY <1>2, <1>4, <1>6, Falls
<1> QED
  BY <1>5, <1>6 DEF VP!Jump, VP!Jumpcmp, VP!Ready

LEMMA JumpprocCalls ==
  ASSUME Turn, VP!Jumpproc
  PROVE  Source!Call
<1> DEFINE depth == Len(frames)
<1>1. /\ VP!Inv /\ VP!Inv' /\ src' = src /\ VP!TypeOK
  BY TurnFacts DEF VP!Inv
<1>2. /\ VP!Fetch /\ VP!Inst.kind = "jumpproc" /\ VP!Top.rsp < VP!RETURN_SLOTS
      /\ pc' = pc + 1 + VP!Inst.offset /\ status' = status
      /\ return_stack' = [return_stack EXCEPT ![VP!Top.rsp] = pc + 1]
  BY DEF VP!Jumpproc, VP!Ready, VP!PushReturn
<1>3. depth \in Nat \ {0} /\ VP!Top.rsp = depth - 1 /\ VP!RETURN_SLOTS \in Nat
  BY <1>1, MachineAssumptions, VP!DepthOfList, VP!SlotsType
<1>4. Len(frames') = depth + 1
  <2>1. frames \in Seq(VP!Frame)
    BY <1>1 DEF VP!TypeOK
  <2>2. \E caller, callee : frames' = Append([frames EXCEPT ![depth] = caller], callee)
    BY DEF VP!Jumpproc
  <2> QED
    BY <1>3, <2>1, <2>2
<1>5. /\ return_stack'[depth - 1] = pc + 1
      /\ \A d \in 1 .. (depth - 1) : return_stack'[d - 1] = return_stack[d - 1]
  <2>1. return_stack \in [0 .. (VP!RETURN_SLOTS - 1) -> Nat]
    BY <1>1 DEF VP!TypeOK
  <2> QED
    BY <1>2, <1>3, <2>1
<1>6. /\ Returns = [d \in 1 .. (depth - 1) |-> PlaceOf(return_stack[d - 1])]
      /\ Returns' = [d \in 1 .. (Len(frames') - 1) |-> PlaceOf(return_stack'[d - 1])]
  BY <1>1, ReturnsAre
<1> HIDE DEF depth
<1>7. Returns' = Append(Returns, PlaceOf(pc + 1))
  <2>1. Returns' = [d \in 1 .. depth |-> PlaceOf(return_stack'[d - 1])]
    BY <1>3, <1>4, <1>6
  <2>2. \A d \in 1 .. (depth - 1) : PlaceOf(return_stack'[d - 1]) = PlaceOf(return_stack[d - 1])
    BY <1>5
  <2>3. PlaceOf(return_stack'[depth - 1]) = PlaceOf(pc + 1)
    BY <1>5
  <2> QED
    BY <1>3, <1>6, <2>1, <2>2, <2>3
<1>8. PlaceOf(pc + 1) = Source!Below
  <2>1. PlaceOf(pc + 1) = FirstFrom(src, Here + 1)
    BY <1>2, Fetched
  <2> QED
    BY <2>1, SameText DEF Source!Below, Here
<1>9. Source!At({"jumpproc"}) /\ Here' = Source!Target
  BY <1>2, Transfers DEF LP!JumpKinds
<1> QED
  BY <1>7, <1>8, <1>9 DEF Source!Call, Here

LEMMA RetReturns ==
  ASSUME Turn, VP!Ret
  PROVE  Source!Return
<1> DEFINE depth == Len(frames)
           back  == Returns[depth - 1]
<1>1. /\ VP!Inv /\ VP!Inv' /\ VP!TypeOK /\ src' = src /\ Started /\ Started' /\ Here' = PlaceOf(pc')
  BY TurnFacts DEF VP!Inv
<1>2. /\ VP!Fetch /\ VP!Inst.kind \in {"ret", "retN"} /\ depth > 1
      /\ pc' = return_stack[VP!Top.rsp - 1] /\ status' = status /\ return_stack' = return_stack
  BY DEF VP!Ret, VP!Ready, VP!ReturnKinds, VP!ReturnAddress
<1>3. depth \in Nat \ {0} /\ VP!Top.rsp = depth - 1
  BY <1>1, MachineAssumptions, VP!DepthOfList
<1>4. Len(frames') = depth - 1
  <2>1. frames \in Seq(VP!Frame)
    BY <1>1 DEF VP!TypeOK
  <2>2. \E f : frames' = [SubSeq(frames, 1, depth - 1) EXCEPT ![depth - 1] = f]
    BY DEF VP!Ret
  <2> QED
    BY <1>2, <1>3, <2>1, <2>2
<1>5. /\ Returns = [d \in 1 .. (depth - 1) |-> PlaceOf(return_stack[d - 1])]
      /\ Returns' = [d \in 1 .. (Len(frames') - 1) |-> PlaceOf(return_stack'[d - 1])]
  BY <1>1, ReturnsAre
<1>6. pc' = return_stack[depth - 2]
  <2>1. VP!Top.rsp - 1 = depth - 2
    BY <1>3
  <2> QED
    BY <1>2, <2>1, Zenon
<1> HIDE DEF depth
<1>7. Returns' = [d \in 1 .. (depth - 2) |-> PlaceOf(return_stack[d - 1])]
  BY <1>2, <1>3, <1>4, <1>5
<1>8. /\ Len(Returns) = depth - 1 /\ Returns # <<>> /\ Here' = back
      /\ Returns' = SubSeq(Returns, 1, Len(Returns) - 1)
  <2>1. depth - 1 \in 1 .. (depth - 1) /\ (depth - 1) - 1 = depth - 2
    BY <1>2, <1>3
  <2>2. Len(Returns) = depth - 1 /\ Returns # <<>>
    BY <1>5, <2>1
  <2>3. back = PlaceOf(return_stack[depth - 2])
    BY <1>5, <2>1
  <2>4. Returns' = SubSeq(Returns, 1, Len(Returns) - 1)
    BY <1>2, <1>3, <1>5, <1>7, <2>2
  <2> QED
    BY <1>1, <1>6, <2>2, <2>3, <2>4
<1>9. Source!At({"ret", "retN"})
  <2>1. Here < TextEnd(src) /\ src[Here].data.kind = VP!Inst.kind /\ StateOf = "running"
    BY <1>2, Fetched
  <2>2. StateOf' = StateOf
    BY <1>1, <1>2 DEF StateOf
  <2> QED
    BY <1>1, <1>2, <2>1, <2>2, SameText DEF Source!At, Here
<1> QED
  BY <1>8, <1>9 DEF Source!Return, Here

\* A fault or an abort, and the end of the fetch loop.
LEMMA StopsEnd ==
  ASSUME Turn, VP!Abort \/ VP!Halt
  PROVE  Source!Die \/ Source!Finish
<1>1. /\ Accepted /\ VP!Inv /\ src' = src /\ Started /\ Started' /\ Here = PlaceOf(pc)
      /\ Here' = PlaceOf(pc') /\ pc \in 0 .. Len(Program) /\ Len(Program) \in Nat
  BY TurnFacts
<1>2. return_stack' = return_stack /\ Len(frames') = Len(frames)
  BY <1>1, MachineAssumptions, VP!QuietActions
<1>3. Returns' = Returns
  BY <1>2, CallsStay
<1>4. CASE VP!Abort
  <2>1. status = "running" /\ pc' = pc /\ status' \notin {"running", "halted"}
    BY <1>4 DEF VP!Abort, VP!OperandFault, VP!StackOverflow, VP!Trap, VP!LocalsFault,
                VP!WildPointer, VP!OutOfMemory, VP!ReturnStackFault, VP!ArgumentsFault,
                VP!RetOverflow, VP!NullFrame, VP!Ready, VP!Fetch, VP!Stop
  <2>2. StateOf = "running" /\ StateOf' = "dead"
    BY <1>1, <2>1 DEF StateOf
  <2> QED
    BY <1>1, <1>3, <2>1, <2>2 DEF Source!Die, Here
<1>5. CASE VP!Halt
  <2>1. status = "running" /\ pc' = pc /\ status' = "halted" /\ pc >= Len(Program)
    BY <1>5 DEF VP!Halt, VP!Stop
  <2>2. StateOf = "running" /\ StateOf' = "done"
    BY <1>1, <2>1 DEF StateOf
  <2>3. pc = Len(Program)
    BY <1>1, <2>1
  <2>4. Here = TextEnd(src)
    BY <1>1, <2>3, ProgramIsText
  <2> QED
    BY <1>1, <1>3, <2>1, <2>2, <2>4, SameText DEF Source!Finish, Here
<1> QED
  BY <1>4, <1>5

LEMMA TurnMaps ==
  ASSUME Turn
  PROVE  Source!Next
<1>1. VP!Next
  BY TurnFacts
<1> QED
  BY <1>1, HandlersFall, JumpsBranch, JumpprocCalls, RetReturns, StopsEnd
     DEF VP!Next, VP!Transfer, Source!Next

\* Before the first turn the text has not begun.
LEMMA NotBegun ==
  ASSUME AInv, ~Started
  PROVE  Here = 0 /\ Returns = <<>> /\ StateOf \in {"loading", "dead"}
<1>1. Here = 0 /\ StateOf \in {"loading", "dead"}
  BY DEF Here, StateOf
<1>2. Fresh
  BY DEF AInv, Route, Started
<1>3. Returns = <<>>
  BY <1>2 DEF Fresh, Returns
<1> QED
  BY <1>1, <1>3

\* What main does itself, outside begin_execution.
LEMMA MainMaps ==
  ASSUME AInv, AInv', Main
  PROVE  [Source!Next]_(Source!svars)
<1>1. UNCHANGED <<loaderVars, machineVars>>
  BY DEF Main, Refuse, Open, CannotStat, Create, CannotCreate, Reject, LoadDies, Close,
         CannotClose, RunDies, DestroyContext, DestroyArena, FreeFile, Do
<1>2. /\ src' = src /\ pc' = pc /\ status' = status
      /\ frames' = frames /\ return_stack' = return_stack /\ Returns' = Returns
  <2>1. /\ src' = src /\ pc' = pc /\ status' = status
        /\ frames' = frames /\ return_stack' = return_stack
    BY <1>1 DEF loaderVars, machineVars
  <2>2. VP!Inv /\ VP!Inv'
    BY DEF AInv
  <2> QED
    BY <2>1, <2>2, ReturnsAre
<1>3. (Started' <=> Started) => Here' = Here
  BY <1>2, PlacesStay DEF Here
<1>4. ASSUME ~Started, ~Started', stage \in {"start", "opened", "loading"},
             stage' \notin {"start", "opened", "loading"}
      PROVE  Source!Die
  <2>1. StateOf = "loading" /\ StateOf' = "dead"
    BY <1>4 DEF StateOf
  <2> QED
    BY <1>2, <1>3, <1>4, <2>1 DEF Source!Die, Here
<1>5. ASSUME Started' <=> Started, StateOf' = StateOf
      PROVE  UNCHANGED Source!svars
  BY <1>2, <1>3, <1>5 DEF Source!svars, Here
<1>6. Route /\ MainTypes
  BY DEF AInv
<1>7. CASE Refuse \/ CannotStat \/ CannotCreate \/ Reject \/ LoadDies \/ CannotClose
  <2>1. /\ ~Started /\ held' = held /\ stage \in {"start", "opened", "loading"}
        /\ stage' \in {"exited", "error_2", "died", "error_3"}
    BY <1>6, <1>7 DEF Refuse, CannotStat, CannotCreate, Reject, LoadDies, CannotClose, Do,
                      Route, Holds, Started
  <2>2. ~Started'
    BY <2>1 DEF Started
  <2> QED
    BY <1>4, <2>1, <2>2 DEF Source!Next
<1>8. CASE Open \/ Create
  <2>1. /\ ~Started /\ ~Started' /\ stage \in {"start", "opened"}
        /\ stage' \in {"opened", "loading"}
    BY <1>6, <1>8 DEF Open, Create, Do, Set, Route, Holds, Started, MainTypes, Resources, HeapBlocks
  <2> QED
    BY <1>5, <2>1 DEF StateOf
<1>9. CASE Close
  <2>1. /\ stage = "loading" /\ phase = "executing" /\ ~Started /\ Started' /\ Fresh
    BY <1>6, <1>9 DEF Close, Do, Set, Route, Holds, Started, MainTypes, Resources, HeapBlocks
  <2>2. status = "running" /\ pc = 0
    BY <2>1 DEF Fresh
  <2>3. StateOf = "loading" /\ StateOf' = "running"
    BY <1>2, <2>1, <2>2 DEF StateOf
  <2>4. Here' = FirstFrom(src, 1)
    <3>1. Accepted
      BY <2>1 DEF AInv, Accepted
    <3>2. Here' = PlaceOf(pc')
      BY <1>2, <2>1, PlacesStay DEF Here
    <3>3. Here' = PlaceOf(0)
      BY <1>2, <2>2, <3>2
    <3> QED
      BY <3>1, <3>3, ProgramIsText
  <2>5. Source!Begin
    BY <1>2, <2>3, <2>4, SameText DEF Source!Begin, Here
  <2> QED
    BY <2>5 DEF Source!Next
<1>10. CASE RunDies \/ DestroyContext \/ DestroyArena \/ FreeFile
  <2>1. /\ stage \in {"executing", "finishing", "error_3", "arena_destroy", "error_2"}
        /\ stage' \in {"died", "finishing", "arena_destroy", "exited", "error_2"}
        /\ Started' <=> Started
    BY <1>6, <1>10 DEF RunDies, DestroyContext, DestroyArena, FreeFile, Do, Set, Route, Holds,
                       Started, MainTypes, Resources, HeapBlocks
  <2>2. StateOf' = StateOf
    BY <1>2, <2>1 DEF StateOf
  <2> QED
    BY <1>5, <2>1, <2>2
<1> QED
  BY <1>7, <1>8, <1>9, <1>10 DEF Main

\* parse_src is out of the text's sight.
LEMMA LoadMaps ==
  ASSUME AInv, AInv', Load
  PROVE  UNCHANGED Source!svars
<1>1. /\ stage = "loading" /\ LP!Next /\ UNCHANGED <<machineVars, mainVars>>
  BY SameLoader DEF Load
<1>2. ~Started /\ ~Started' /\ stage' = stage
  BY <1>1 DEF AInv, Route, Holds, Started, mainVars
<1>3. src' = src
  BY <1>1, LoaderAssumptions, LP!TextStays
<1>4. StateOf' = StateOf
  BY <1>2 DEF StateOf
<1>5. Here = 0 /\ Here' = 0
  BY <1>2 DEF Here
<1>6. Returns' = Returns
  <2>1. frames' = frames /\ return_stack' = return_stack /\ VP!Inv /\ VP!Inv'
    BY <1>1 DEF machineVars, AInv
  <2> QED
    BY <1>3, <2>1, ReturnsAre
<1> QED
  BY <1>3, <1>4, <1>5, <1>6 DEF Source!svars, Here

LEMMA TextStarts ==
  ASSUME Init
  PROVE  Source!Init
<1>1. stage = "start" /\ ~Started /\ Len(frames) = 1
  BY DEF Init, V!Init, Started, Resources, HeapBlocks
<1>2. Here = 0 /\ Returns = <<>> /\ StateOf = "loading"
  BY <1>1 DEF Here, Returns, StateOf
<1> QED
  BY <1>2 DEF Source!Init, Here

\* From the tokens of the text to the last return, through parser, tables,
\* offsets, frames and return stack: what main executes is the text, and
\* nothing of a text that was not accepted.
THEOREM TextExecuted == Spec => ImplementsSource
<1>1. Init => Source!Init
  BY TextStarts
<1>2. AInv /\ AInv' /\ [Next]_vars => [Source!Next]_(Source!svars)
  <2> SUFFICES ASSUME AInv, AInv', [Next]_vars
               PROVE  [Source!Next]_(Source!svars)
    OBVIOUS
  <2>1. CASE Run
    BY <2>1, TurnMaps DEF Turn
  <2>2. CASE Main
    BY <2>2, MainMaps
  <2>3. CASE Load
    BY <2>3, LoadMaps
  <2>4. CASE UNCHANGED vars
    BY <2>4 DEF vars, loaderVars, machineVars, mainVars, Source!svars, Returns, Started,
                StateOf, PlaceOf, OpsAbove, Mnemonics, TextEnd
  <2> QED
    BY <2>1, <2>2, <2>3, <2>4 DEF Next
<1> QED
  BY <1>1, <1>2, AssemblerInvariant, PTL DEF Spec, ImplementsSource, Source!Spec
=============================================================================

------------------------------ MODULE VMCalls -------------------------------
(***************************************************************************)
(* VM with a memory of the calls in progress: what the operand stack held  *)
(* when each was made, and how far down its callees have taken ptr since.  *)
(* All frames share one byte array and jumpproc hands the callee the       *)
(* caller's own start, so nothing but the callee's restraint separates     *)
(* the two; the history says what a caller can still rely on.              *)
(***************************************************************************)
EXTENDS VM

VARIABLE saved   \* one record for each suspended frame, in the same order

callVars == <<vars, saved>>

Lesser(a, b) == IF a < b THEN a ELSE b

\* The lowest ptr the handler of this step passes through.
LowPoint ==
  IF Fetch /\ ~Starved /\ Pops(Inst) <= Top.ptr THEN Top.ptr - Pops(Inst) ELSE Top.ptr

Lowered ==
  [d \in 1 .. Len(saved) |-> [saved[d] EXCEPT !.low = Lesser(@, LowPoint)]]

InitCalls == Init /\ saved = <<>>

\* A call adds a record, a return drops the last one.
Remember ==
  saved' = IF Len(frames') > Len(frames)
           THEN Append(Lowered, [image |-> stack, low |-> LowPoint])
           ELSE SubSeq(Lowered, 1, Len(frames') - 1)

NextCalls == Next /\ Remember

SpecCalls == InitCalls /\ [][NextCalls]_callVars

\* Below the lowest point its callees have popped to, every byte of a
\* suspended caller's operands is what it was at the call: pushes of a
\* callee, its results and the results of the calls it makes in turn
\* (push_stack in I_RET writes at the caller's ptr) never land there.
CallerOperandsKept ==
  \A d \in 1 .. Len(saved) : \A b \in 0 .. (saved[d].low - 1) :
    stack[b] = saved[d].image[b]
=============================================================================

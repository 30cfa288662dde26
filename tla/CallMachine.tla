---------------------------- MODULE CallMachine -----------------------------
(***************************************************************************)
(* What calls and returns of the bytecode machine promise, with no return  *)
(* stack, no frame list and no memory: an operand height, a program        *)
(* counter, and a last-in first-out record of the calls in progress.       *)
(***************************************************************************)
EXTENDS Naturals, Sequences

VARIABLES
  pc,       \* the next instruction
  height,   \* bytes on the operand stack
  calls     \* the calls in progress: where each returns to, and its height

cvars == <<pc, height, calls>>

Call == [ret : Nat, height : Nat]

Init == pc = 0 /\ height = 0 /\ calls = <<>>

\* Any instruction other than a call or a return.
Step ==
  /\ pc' \in Nat /\ height' \in Nat
  /\ UNCHANGED calls

\* The argc bytes on top leave the caller's operands for good.
Enter ==
  \E argc \in 0 .. height :
    /\ height' = height - argc
    /\ calls' = Append(calls, [ret |-> pc + 1, height |-> height - argc])
    /\ pc' \in Nat

\* Back behind the call, with n bytes of the callee's operands on top of
\* what the caller had left.
Leave ==
  \E n \in 0 .. height :
    /\ calls # <<>>
    /\ calls' = SubSeq(calls, 1, Len(calls) - 1)
    /\ pc' = calls[Len(calls)].ret
    /\ height' = calls[Len(calls)].height + n

Next == Step \/ Enter \/ Leave

Spec == Init /\ [][Next]_cvars
=============================================================================

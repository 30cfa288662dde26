--------------------------- MODULE SourceMachine ----------------------------
(***************************************************************************)
(* What a source text means to its author, as far as the order of          *)
(* execution goes: the mnemonics run from top to bottom, a jump goes on at *)
(* the first mnemonic below the first mark of its label, a call comes back *)
(* to the mnemonic below it.  No parser, no tables, no offsets, no return  *)
(* stack and no operands.                                                  *)
(***************************************************************************)
EXTENDS SourceText

VARIABLES
  src,     \* the tokens of the text
  here,    \* the mnemonic to execute next, as a place in src
  calls,   \* where the calls in progress come back to
  state    \* "loading", "running", "done", or "dead"

svars == <<src, here, calls, state>>

Init == here = 0 /\ calls = <<>> /\ state = "loading"

\* Execution starts at the top, in a text whose labels are all there.
Begin ==
  /\ state = "loading"
  /\ state' = "running" /\ here' = FirstFrom(src, 1)
  /\ UNCHANGED <<src, calls>>

At(kinds) ==
  /\ state = "running" /\ here < TextEnd(src)
  /\ src[here].data.kind \in kinds
  /\ UNCHANGED <<src, state>>

Below == FirstFrom(src, here + 1)

\* The name stands behind the mnemonic.
Target == FirstFrom(src, Min(Marks(src, src[here + 1].data)))

\* Everything but an unconditional transfer may go on below: a conditional
\* jump, and a return whose operands are missing.
Fall(kinds) == At(kinds) /\ here' = Below /\ UNCHANGED calls

Branch == At({"jump", "jumpcmp"}) /\ here' = Target /\ UNCHANGED calls

Call == At({"jumpproc"}) /\ here' = Target /\ calls' = Append(calls, Below)

Return ==
  /\ At({"ret", "retN"}) /\ calls # <<>>
  /\ here' = calls[Len(calls)]
  /\ calls' = SubSeq(calls, 1, Len(calls) - 1)

\* The end of the text ends the program.
Finish ==
  /\ state = "running" /\ here = TextEnd(src)
  /\ state' = "done" /\ UNCHANGED <<src, here, calls>>

\* A text that is not executed, or a fault.
Die ==
  /\ state \in {"loading", "running"}
  /\ state' = "dead" /\ UNCHANGED <<src, here, calls>>

Others == {src[j].data.kind : j \in Mnemonics(src)} \ {"jump", "jumpproc"}

Next == Begin \/ Fall(Others) \/ Branch \/ Call \/ Return \/ Finish \/ Die

Spec == Init /\ [][Next]_svars
=============================================================================

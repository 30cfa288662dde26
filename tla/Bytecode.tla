------------------------------ MODULE Bytecode ------------------------------
(***************************************************************************)
(* The instructions of ass.h, as parse_src hands them to begin_execution:  *)
(* the interface of Loader and VM.  kind and ty name the mnemonic, n is    *)
(* its index, count or argc, offset its resolved jump, val its literal (or *)
(* the address of the data named by ppush).                                *)
(***************************************************************************)
EXTENDS Integers, Sequences

ArithKinds   == {"add", "sub", "mult", "div", "mod"}
CompareKinds == {"ceq", "clt", "cle", "cgt", "cge"}
JumpKinds    == {"jump", "jumpcmp", "jumpproc"}
ReturnKinds  == {"retN", "ret"}     \* ret8/ret32/ret64, and ret with a count

\* "unimplemented": pderef(n) and pset(n) parse, and only print when executed.
Kinds == {"push", "print", "ciprint", "ppush", "pload", "pderef", "pset", "pop",
          "swap", "dupe", "copy", "store", "load", "unimplemented"}
         \cup ArithKinds \cup CompareKinds \cup JumpKinds \cup ReturnKinds

\* The type prefix or the size suffix of the mnemonic.
Types == {"UL", "I", "C", "F", "8", "32", "64"}

Instruction ==
  [kind : Kinds, ty : Types, n : Nat, offset : Int, val : Nat]

\* What begin_execution relies on, since it only compares pc with the
\* length: the fetched instruction at index i - 1 has left pc = i, and
\* pc + offset is the location of a label.
WellFormed(p) ==
  \A i \in 1 .. Len(p) : p[i].kind \in JumpKinds => i + p[i].offset \in 0 .. Len(p)
=============================================================================

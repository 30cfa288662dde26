----------------------------- MODULE MCVMCalls ------------------------------
(* The programs and sizes of MCVM, for the machine with a history of calls. *)
EXTENDS MCVM, VMCalls
=============================================================================

------------------------------ MODULE MCArena -------------------------------
(* Sizes for Arena: a node, strings of several lengths, one large request. *)
EXTENDS Arena

NodeAndStrings == {3, 8, 13, 40}
Addresses == {64, 136}
=============================================================================

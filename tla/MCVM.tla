-------------------------------- MODULE MCVM --------------------------------
(***************************************************************************)
(* Programs and memory for model checking VM: every short sequence over a  *)
(* palette that has each handler at least once, behind operands that let   *)
(* it get past its STACK_CHECK, and loops of calls.                        *)
(***************************************************************************)
EXTENDS VM, SequencesExt

I(kind, ty, n, offset, val) ==
  [kind |-> kind, ty |-> ty, n |-> n, offset |-> offset, val |-> val]

Op(kind, ty) == I(kind, ty, 0, 0, 0)
PushOf(ty, val) == I("push", ty, 0, 0, val)
Indexed(kind, ty, n) == I(kind, ty, n, 0, 0)
JumpBy(kind, offset) == I(kind, "8", 0, offset, 0)
CallBy(argc, offset) == I("jumpproc", "8", argc, offset, 0)
RetOf(ty) == Op("retN", ty)
RetCount(n) == I("ret", "8", n, 0, 0)
PpushOf(addr) == I("ppush", "64", 0, 0, addr)
PloadOf(n) == I("pload", "64", n, 0, 0)

(***************************************************************************)
(* The scaled machine: bytes have four values, int two bytes, unsigned     *)
(* long three; ten bytes of stack are three calls deep.                    *)
(***************************************************************************)
Locals == 3
Stack == 10
CallStack == 8
Frames == {8, 12, 16}
FramesOfCalls == {8, 12, 16, 20}
Data == {24, 25}
Images == {[a \in Data |-> IF a = 24 THEN 3 ELSE 1]}
Junk == {[k \in 0 .. 2 |-> 0], [k \in 0 .. 2 |-> k + 1]}
OneJunk == {[k \in 0 .. 2 |-> k + 1]}

Lands(p, i) == i + p[i].offset \in 0 .. Len(p)
Resolved(p) == \A i \in 1 .. Len(p) : p[i].kind \in JumpKinds => Lands(p, i)

Sequences(palette, n) == {p \in TupleOf(palette, n) : Resolved(p)}

Palette ==
  {PushOf("UL", 45), PushOf("I", 8), PushOf("I", 15), PushOf("C", 2), Op("add", "I"),
   Op("div", "I"), Op("mod", "C"), Op("sub", "UL"), Op("mult", "F"), Op("clt", "C"),
   Op("cge", "F"), Op("print", "UL"), Op("ciprint", "8"), Op("pop", "8"),
   Op("swap", "32"), Op("dupe", "64"), Indexed("copy", "8", 3), Indexed("store", "32", 1),
   Indexed("load", "64", 0), Indexed("load", "32", 2), PpushOf(24), PloadOf(1),
   Op("pderef", "8"), Op("pset", "8"), Op("unimplemented", "8"), RetOf("8"), RetOf("64"),
   RetCount(0), RetCount(62), CallBy(0, 0), CallBy(2, -2), JumpBy("jumpcmp", -2),
   JumpBy("jump", 1)}

\* Operands for the palette: a small stack with a nonzero top.
Prologue == <<PushOf("UL", 27), PushOf("C", 1)>>

(***************************************************************************)
(* Pointers: a value, the address of a local or of a declared byte, and a  *)
(* procedure that gets the address as its argument.                        *)
(***************************************************************************)
PointerPalette ==
  {Op("pderef", "8"), Op("pderef", "32"), Op("pset", "8"), Op("pset", "32"),
   Indexed("load", "32", 1), PpushOf(24), RetOf("64")}

PointerPrograms ==
  {<<PushOf("I", 9), p>> \o t : p \in {PpushOf(24), PpushOf(25), PloadOf(1)},
                                t \in TupleOf(PointerPalette, 2)} \cup
  {<<PushOf("I", 9), p, CallBy(3, 0), Indexed("load", "64", 0)>> \o t :
     p \in {PpushOf(24), PloadOf(1)}, t \in TupleOf(PointerPalette, 2)}

ShortPrograms ==
  {Prologue \o p : p \in Sequences(Palette, 2)} \cup PointerPrograms \cup
  {<<i>> : i \in {j \in Palette : j.offset = 0}}
-----------------------------------------------------------------------------
(* Calls: a caller with four operand bytes passes argc of them to a        *)
(* procedure that follows, and goes on behind it.                          *)

WithProcedure(argc, body) ==
  <<PushOf("UL", 27), PushOf("C", 2), CallBy(argc, 1), JumpBy("jump", Len(body))>> \o body

BodyPalette ==
  {PushOf("C", 3), Op("pop", "8"), Op("pop", "64"), Indexed("store", "8", 0),
   Indexed("load", "64", 0), PloadOf(1), Op("pset", "8"), RetOf("8"), RetOf("32"),
   RetCount(0), RetCount(6), CallBy(1, 0), CallBy(0, -1), CallBy(0, -2),
   JumpBy("jumpcmp", 1), JumpBy("jump", -1)}

Bodies == {b \in TupleOf(BodyPalette, 2) : TRUE} \cup
          {b \o <<RetOf("8")>> : b \in TupleOf(BodyPalette, 2)}

CallPrograms ==
  {p \in {WithProcedure(argc, body) : argc \in {0, 1, 4}, body \in Bodies} : Resolved(p)}
=============================================================================

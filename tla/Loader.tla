------------------------------- MODULE Loader -------------------------------
(***************************************************************************)
(* parse_src of ass.c: the nodes of parser_next become instructions,       *)
(* labels and declarations, and then every jump gets its offset and every  *)
(* ppush its address.                                                      *)
(*                                                                         *)
(* Nodes, names and messages live in one arena whose region may move when  *)
(* it grows (realloc).  Addresses are therefore numbers: the region's base *)
(* plus an index.  An allocation is one cell, whatever its size in bytes;  *)
(* Arena has the bytes.                                                    *)
(* Using an address outside the present region ends the behaviour in       *)
(* phase "stale": the program reads freed memory from there on.            *)
(***************************************************************************)
EXTENDS Parser, FiniteSets

CONSTANTS
  Sources,       \* the token sequences under study
  Regions,       \* the addresses malloc and realloc may give the region
  ArenaSize,     \* cells of the arena at the start (arena_create in main)
  MaxArena,      \* cells beyond which realloc fails
  InitialCap     \* elements of each of the three arrays at the start

ASSUME ArenaAssumption ==
  /\ ArenaSize \in Nat /\ ArenaSize >= 4     \* no call of parser_next needs more
  /\ MaxArena \in Nat /\ MaxArena >= ArenaSize
  /\ InitialCap \in Nat \ {0}
  /\ Regions \subseteq Nat
  /\ \A a, b \in Regions : a < b => a + MaxArena < b

\* What lexer_next makes of the spelling of a token; a number is the bits of
\* the literal.
ASSUME SourcesAssumption ==
  \A text \in Sources :
    /\ text \in Seq({text[j] : j \in 1 .. Len(text)})
    /\ \A j \in 1 .. Len(text) : WellFormedToken(text[j])

VARIABLES
  src,           \* the tokens the lexer will deliver
  at,            \* the next of them
  section,       \* Parser.state
  region,        \* Arena.region
  arena,         \* the cells in use; their number is Arena.index
  size,          \* Arena.size
  errcode,       \* the local of parse_src
  instructions,  \* Ctx.instructions: offsets into the region, then addresses
  labels,        \* Ctx.label_map: address of the name, location
  declarations,  \* Ctx.declaration_map: address of the name, bytes
  caps,          \* the capacities of those three arrays
  resolved,      \* how many instructions the second loop has handled
  phase          \* where parse_src is, or how it ended

parserVars == <<at, section>>
arenaVars  == <<region, arena, size>>
tableVars  == <<instructions, labels, declarations, caps>>
vars == <<src, parserVars, arenaVars, tableVars, errcode, resolved, phase>>

Arrays == {"instructions", "labels", "declarations"}

Init ==
  /\ src \in Sources
  /\ at = 1 /\ section = "SECTION_TEXT"
  /\ region \in Regions /\ arena = <<>> /\ size = ArenaSize
  /\ errcode = 0
  /\ instructions = <<>> /\ labels = <<>> /\ declarations = <<>>
  /\ caps = [a \in Arrays |-> InitialCap]
  /\ resolved = 0
  /\ phase = "parsing"
-----------------------------------------------------------------------------
(* The first loop of parse_src: one call of parser_next, as ParserNext     *)
(* describes it, and what becomes of its node.                             *)

\* The tokens read by the call whose texts the lexer copies into the arena.
TextPlaces(call) ==
  {j \in call.start .. (call.next - 1) : src[j].tok \in StringTokens}

\* The k-th of them.
TextPlace(call, k) ==
  CHOOSE j \in TextPlaces(call) : Cardinality({i \in TextPlaces(call) : i <= j}) = k

Texts(call) ==
  [k \in 1 .. Cardinality(TextPlaces(call)) |->
     [cell |-> "string", text |-> src[TextPlace(call, k)].data]]

Messages(call) == IF call.outcome = "error" THEN <<[cell |-> "message"]>> ELSE <<>>

\* parser_next allocates its node before it asks for the first token.
NodeAddr(base) == base + Len(arena)

\* The first text of the call: the statement's own name, or its operand.
NameAddr(base) == NodeAddr(base) + 1

First(call) == Token(src, call.start)

\* Numbers and literals are the data of the token they are parsed from.  A
\* node that is not an instruction, or not a whole one, is not read again.
Node(call, base) ==
  LET op == First(call).data
      operand(k) == Token(src, call.start + k).data
  IN  IF call.outcome # "node" \/ First(call).tok # "OP" THEN [cell |-> "other"]
      ELSE [cell |-> "node", op |-> op, offset |-> 0,
            name |-> IF op.kind \in JumpKinds \cup {"ppush"} THEN NameAddr(base) ELSE 0,
            n |-> IF op.kind \in IndexKinds THEN operand(1)
                  ELSE IF op.kind = "jumpproc" THEN operand(2) ELSE 0,
            lit |-> IF op.kind = "push" THEN operand(1) ELSE 0]

\* Everything a call allocates, in its order.
Cells(call, base) == <<Node(call, base)>> \o Texts(call) \o Messages(call)

CellCount(call) == 1 + Len(Texts(call)) + Len(Messages(call))

\* Variant: an allocation may end one cell behind the region.
GrowsLate(call) == Len(arena) + CellCount(call) > size + 1

Grows(call) == Len(arena) + CellCount(call) > size

\* The cells of a call go into the arena; _arena_xalloc doubles the region
\* when one does not fit, and realloc may move it.  When that happens behind
\* the first cell, the pointer parser_next has to its node must survive it.
Allocate(call, base) ==
  /\ Grows(call) => 2 * size <= MaxArena
  /\ ~Grows(call) \/ Len(arena) < size => base = region
  /\ region' = base
  /\ arena' = arena \o Cells(call, base)
  /\ size' = IF Grows(call) THEN 2 * size ELSE size

Advance(call) ==
  /\ at' = call.next
  /\ section' = call.state
  /\ UNCHANGED <<src, resolved>>

\* Variant: > in place of >=.
GrownLate(array, len) ==
  IF len > caps[array] THEN [caps EXCEPT ![array] = 2 * @] ELSE caps

\* insert_label, insert_declaration and context_push_instruction double
\* their array before they write behind its end.
Grown(array, len) ==
  IF len >= caps[array] THEN [caps EXCEPT ![array] = 2 * @] ELSE caps

AddInstruction(call) ==
  /\ call.outcome = "node" /\ First(call).tok = "OP"
  /\ \E base \in Regions :
       /\ Allocate(call, base)
       /\ instructions' = Append(instructions, NodeAddr(base) - base)
  /\ caps' = Grown("instructions", Len(instructions))
  /\ Advance(call)
  /\ UNCHANGED <<labels, declarations, errcode, phase>>

AddLabel(call) ==
  /\ call.outcome = "node" /\ First(call).tok = "LABEL"
  /\ \E base \in Regions :
       /\ Allocate(call, base)
       /\ labels' = Append(labels, [name |-> NameAddr(base), location |-> Len(instructions)])
  /\ caps' = Grown("labels", Len(labels))
  /\ Advance(call)
  /\ UNCHANGED <<instructions, declarations, errcode, phase>>

\* A reserved block is known by the token that declares it.  What an extern
\* leaves in bytes is whatever the arena held there.
Bytes(call) ==
  IF Token(src, call.start + 1).tok = "EXTERN" THEN {0, MaxArena} ELSE {call.start}

AddDeclaration(call) ==
  /\ call.outcome = "node" /\ First(call).tok = "IDENT"
  /\ \E base \in Regions, bytes \in Bytes(call) :
       /\ Allocate(call, base)
       /\ declarations' = Append(declarations, [name |-> NameAddr(base), bytes |-> bytes])
  /\ caps' = Grown("declarations", Len(declarations))
  /\ Advance(call)
  /\ UNCHANGED <<instructions, labels, errcode, phase>>

\* Variant: the error is only noted, and the offending token is read again.
RereadError(call) ==
  /\ call.outcome = "error"
  /\ errcode' = -1
  /\ UNCHANGED <<src, parserVars, resolved, arenaVars, tableVars, phase>>

\* The error is reported and parsing goes on behind it.
ReportError(call) ==
  /\ call.outcome = "error"
  /\ \E base \in Regions : Allocate(call, base)
  /\ errcode' = -1
  /\ Advance(call)
  /\ UNCHANGED <<tableVars, phase>>

\* Variant: parse_src only skips what does not parse.
Lenient == "resolving"

\* An error anywhere forbids the second loop.
Verdict == IF errcode # 0 THEN "rejected" ELSE "resolving"

\* N_EOF leaves the first loop.
EndOfFile(call) ==
  /\ call.outcome = "node" /\ First(call).tok = "EOF"
  /\ \E base \in Regions : Allocate(call, base)
  /\ phase' = Verdict
  /\ Advance(call)
  /\ UNCHANGED <<tableVars, errcode>>

Stop(how) ==
  /\ phase' = how
  /\ UNCHANGED <<src, parserVars, arenaVars, tableVars, errcode, resolved>>

\* Declarations with initialisers: panic("Unimplemented").
NotImplemented(call) ==
  /\ call.outcome = "panic"
  /\ Grows(call) => 2 * size <= MaxArena
  /\ Stop("panic")

\* arena_expand fails and _arena_xalloc aborts.
OutOfMemory(call) ==
  /\ Grows(call) /\ 2 * size > MaxArena
  /\ Stop("abort")

\* Near the end of the region arena_alloc may refuse what _arena_xalloc took
\* to fit (Refuse of Arena), and assert(block) ends the program.
Refused(call) ==
  /\ Len(arena) < size /\ Len(arena) + CellCount(call) >= size
  /\ Stop("assert")

\* The region moves while parser_next holds a pointer to its node.
NodeMoved(call) ==
  /\ Grows(call) /\ 2 * size <= MaxArena
  /\ Len(arena) < size
  /\ \E base \in Regions : base # region
  /\ Stop("stale")

\* A turn of the first loop of parse_src.
Parse ==
  /\ phase = "parsing"
  /\ \E call \in {ParserNext(src, at, section)} :
       \/ AddInstruction(call) \/ AddLabel(call) \/ AddDeclaration(call)
       \/ ReportError(call) \/ EndOfFile(call)
       \/ NotImplemented(call) \/ OutOfMemory(call)
       \/ Refused(call) \/ NodeMoved(call)
-----------------------------------------------------------------------------
(* The second loop of parse_src.                                           *)

Live(addr) == addr - region \in 0 .. (Len(arena) - 1)

CellAt(addr) == arena[addr - region + 1]

\* The address of the instruction the loop is at, and its node.
InstAddr == region + instructions[resolved + 1]
Inst == CellAt(InstAddr)

Resolving(kinds) ==
  /\ phase = "resolving" /\ resolved < Len(instructions)
  /\ Inst.op.kind \in kinds

\* label_location and resolve_load compare names, through the pointers kept.
Named(table, k) ==
  /\ Live(table[k].name) /\ Live(Inst.name)
  /\ CellAt(table[k].name).text = CellAt(Inst.name).text

\* The entries the search looks at: it stops at the first hit.
Compared(table) ==
  {k \in 1 .. Len(table) : \A j \in 1 .. (k - 1) : ~Named(table, j)}

\* Variant: the search goes on, and the last hit counts.
LastHits(table) ==
  {k \in 1 .. Len(table) :
     Named(table, k) /\ \A j \in (k + 1) .. Len(table) : ~Named(table, j)}

Hits(table) == {k \in Compared(table) : Named(table, k)}

\* strcmp gets a pointer into a region that is gone.
Dangling(table) ==
  /\ Len(table) > 0
  /\ ~Live(Inst.name) \/ \E k \in Compared(table) : ~Live(table[k].name)

Patch(cell) ==
  /\ arena' = [arena EXCEPT ![instructions[resolved + 1] + 1] = cell]
  /\ instructions' = [instructions EXCEPT ![resolved + 1] = InstAddr]
  /\ resolved' = resolved + 1
  /\ UNCHANGED <<src, parserVars, region, size, labels, declarations, caps, errcode, phase>>

\* Variant: from the jump itself, not from the instruction behind it.
DistanceFromJump(location) == location - resolved

Distance(location) == location - resolved - 1

ResolveJump ==
  /\ Resolving(JumpKinds)
  /\ ~Dangling(labels)
  /\ \E k \in Hits(labels) :
       Patch([Inst EXCEPT !.offset = Distance(labels[k].location)])

ResolvePpush ==
  /\ Resolving({"ppush"})
  /\ ~Dangling(declarations)
  /\ \E k \in Hits(declarations) : Patch([Inst EXCEPT !.lit = declarations[k].bytes])

ResolveNothing ==
  /\ phase = "resolving" /\ resolved < Len(instructions)
  /\ Inst.op.kind \notin JumpKinds \cup {"ppush"}
  /\ Patch(Inst)

Table == IF Inst.op.kind = "ppush" THEN declarations ELSE labels

\* "Jump location doesn't exist", "Data name does not exist".
Undefined ==
  /\ Resolving(JumpKinds \cup {"ppush"})
  /\ ~Dangling(Table) /\ Hits(Table) = {}
  /\ Stop("panic")

NameMoved ==
  /\ Resolving(JumpKinds \cup {"ppush"})
  /\ Dangling(Table)
  /\ Stop("stale")

\* parse_src returns 0 and main goes on to begin_execution.
Execute ==
  /\ phase = "resolving" /\ resolved = Len(instructions)
  /\ Stop("executing")
-----------------------------------------------------------------------------
\* A turn of the second loop, and what follows it.
Link == ResolveJump \/ ResolvePpush \/ ResolveNothing \/ Undefined \/ NameMoved \/ Execute

Next == Parse \/ Link

\* Nothing but the program's own loops decides when the next step is taken.
Spec == Init /\ [][Next]_vars /\ WF_vars(Next)
-----------------------------------------------------------------------------
(* Properties.                                                             *)

Cell ==
  [cell : {"message", "other"}] \cup [cell : {"string"}, text : STRING] \cup
  [cell : {"node"}, op : [kind : Kinds, ty : Types], offset : Int, name : Nat, n : Nat,
   lit : Nat]

TypeOK ==
  /\ at \in 1 .. (Len(src) + 1) /\ section \in Sections
  /\ region \in Regions
  /\ arena \in Seq(Cell) /\ Len(arena) <= size /\ size \in ArenaSize .. MaxArena
  /\ errcode \in {0, -1}
  /\ instructions \in Seq(Nat)
  /\ labels \in Seq([name : Nat, location : Nat])
  /\ declarations \in Seq([name : Nat, bytes : Nat])
  /\ caps \in [Arrays -> Nat \ {0}]
  /\ \A k \in 1 .. Len(labels) : labels[k].location <= Len(instructions)
  /\ resolved \in 0 .. Len(instructions)
  /\ phase \in {"parsing", "resolving", "executing", "rejected", "panic", "abort", "assert", "stale"}

\* The arrays never hold more than was allocated for them, so no insertion
\* writes behind the end of one (insert_label, insert_declaration,
\* context_push_instruction).
CapacityCovers ==
  /\ Len(instructions) <= caps["instructions"]
  /\ Len(labels) <= caps["labels"]
  /\ Len(declarations) <= caps["declarations"]

(* The program the tokens describe, with no parser and no tables.          *)

\* The tokens parse_src has read.
Read == 1 .. (at - 1)

\* A mnemonic, or a sign of the same kind, that starts a statement; those
\* inside of a declaration are its brackets.
IsOp(j) == src[j].tok = "OP" /\ StartsLine(src, j)
OpsBefore(j) == Cardinality({k \in 1 .. (j - 1) : IsOp(k)})

Labels(name) == {j \in Read : src[j] = Tok("LABEL", name)}

\* The position of a label is the number of mnemonics above its first mark.
LabelPlace(name) == OpsBefore(Min(Labels(name)))

Declarations(name) ==
  {j \in Read : src[j] = Tok("IDENT", name)
                /\ Token(src, j + 1).tok \in DataKinds \cup {"EXTERN"}}

\* The position of the first declaration of name.
DeclaredAt(name) == Min(Declarations(name))

ReservedAt(j) == Token(src, j + 1).tok # "EXTERN"

Linked(node, j) ==
  LET name == Token(src, j + 1).data
  IN  /\ node.op = src[j].data
      /\ node.op.kind \in JumpKinds =>
           Labels(name) # {} /\ OpsBefore(j) + 1 + node.offset = LabelPlace(name)
      /\ node.op.kind = "ppush" =>
           /\ Declarations(name) # {}
           /\ ReservedAt(DeclaredAt(name)) => node.lit = DeclaredAt(name)

\* What is executed is what was written: one instruction for each mnemonic
\* that starts a line, and for each sign with the kind of one, in order,
\* every jump and call landing on the first label of its name, every ppush
\* pointing at the first block of its name, however often the arena moved
\* under the table of instruction offsets.
LinkedAsWritten ==
  phase = "executing" =>
    /\ Len(instructions) = OpsBefore(at)
    /\ \A j \in Read :
         IsOp(j) => LET addr == instructions[OpsBefore(j) + 1]
                    IN  Live(addr) /\ Linked(CellAt(addr), j)

\* Nothing is executed that the parser complained of: parse_src goes on
\* behind an error, so the later nodes are good and the arrays are filled.
\* Only whole statements are accepted, each line's tokens are all used up, a
\* mnemonic or sign inside of a line is a bracket, and nothing is left
\* unread but what stands behind a T_EOF.
ErrorsForbidExecution ==
  phase \in {"resolving", "executing"} =>
    /\ \A j \in Read :
         /\ src[j].tok \notin {"ILLEGAL", "SLIT"}
         /\ IsOp(j) => Mismatches(src, j, Operands(src[j].data)) = {}
         /\ src[j].tok = "OP" => IsOp(j) \/ TakenFor(src[j]) \in {"[", "]"}
    /\ at <= Len(src) => src[at - 1].tok = "EOF"

\* The instructions as begin_execution finds them.
Loaded ==
  [k \in 1 .. Len(instructions) |->
     LET node == CellAt(instructions[k])
     IN  [kind |-> node.op.kind, ty |-> node.op.ty, n |-> node.n,
          offset |-> node.offset, val |-> node.lit]]

\* What is executed is a program in VM's sense (ProgramAssumption of VM):
\* whole instructions, and no jump leaves the array, which the fetch loop
\* of begin_execution does not check.
LoadsProgram ==
  phase = "executing" => Loaded \in Seq(Instruction) /\ WellFormed(Loaded)

LastSection ==
  LET marks == {j \in 1 .. Len(src) : src[j].tok \in Sections}
  IN  IF marks = {} THEN "SECTION_TEXT" ELSE src[Max(marks)].tok

\* parse_src comes to an end by itself when the file ends in the text
\* section.  When it ends in the data section, the end of file is one more
\* error for ever, until no memory is left for its messages.
LoadEnds ==
  /\ LastSection = "SECTION_TEXT" =>
       <>(phase \in {"executing", "rejected", "panic", "assert", "stale"})
  /\ LastSection = "SECTION_DATA" => <>(phase \in {"abort", "panic", "assert", "stale"})

\* "Get the offset since the region can reallocate" (ass.c:550): what
\* parse_src keeps of a node outlives a move of the region.  The names it
\* keeps in label_map and declaration_map are plain pointers into it.
KeptNamesLive ==
  phase \in {"parsing", "resolving"} =>
    /\ \A k \in 1 .. Len(labels) : Live(labels[k].name)
    /\ \A k \in 1 .. Len(declarations) : Live(declarations[k].name)
=============================================================================

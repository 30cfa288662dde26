----------------------------- MODULE Assembler ------------------------------
(***************************************************************************)
(* main of ass.c: opens the file, has parse_src load it (Loader), executes *)
(* what was loaded (VM), and releases what it took, by one of three error  *)
(* labels when something failed.                                           *)
(*                                                                         *)
(* The machine is given the loader's array of instructions itself, and the *)
(* blocks of the declarations: nothing is copied between the two.          *)
(***************************************************************************)
EXTENDS Integers, SourceText

CONSTANTS
  Sources, Regions, ArenaSize, MaxArena, InitialCap,          \* of Loader
  STACK_SIZE, LOCAL_SIZE, SIZE32, SIZE64, Base,               \* of VM
  AddressSpace, StackAddr, DataAddr, FrameAddr, JunkLocals

VARIABLES
  src, at, section, region, arena, size, errcode, instructions, labels,
  declarations, caps, resolved, phase,                        \* of Loader
  pc, stack, frames, return_stack, data, status,              \* of VM
  stage,     \* the statement of main that is next, or how main ended
  held,      \* what main has taken and what became of it
  code       \* what main returns

L == INSTANCE Loader

\* begin_execution reads the array only once parse_src has returned.
Program == IF phase = "executing" THEN L!Loaded ELSE <<>>

\* calloc has zeroed the declared bytes.
V == INSTANCE VM WITH prog <- Program, Programs <- {<<>>},
                      DataImages <- {[a \in DataAddr |-> 0]}

\* What Loader and VM assume of their constants.
ASSUME LoaderAssumption == L!ArenaAssumption /\ L!SourcesAssumption
ASSUME MachineAssumption == V!BaseAssumption /\ V!SizeAssumption /\ V!MemoryAssumption

loaderVars == <<src, at, section, region, arena, size, errcode, instructions, labels,
                declarations, caps, resolved, phase>>
machineVars == <<pc, stack, frames, return_stack, data, status>>
mainVars == <<stage, held, code>>
vars == <<loaderVars, machineVars, mainVars>>

\* What fopen gives is two things: a descriptor that fclose alone closes, with
\* an entry in the C library's list of streams, and the block of the FILE.
HeapBlocks == {"stream", "arena", "context"}
Resources == {"file"} \cup HeapBlocks

Init ==
  /\ L!Init /\ V!Init
  /\ stage = "start" /\ code = 0
  /\ held = [r \in Resources |-> "none"]
-----------------------------------------------------------------------------
(* main, call by call.                                                     *)

\* A call of main that touches neither parser nor machine.
Do(from, to) ==
  /\ stage = from /\ stage' = to
  /\ UNCHANGED <<loaderVars, machineVars>>

Set(resource, how) == held' = [held EXCEPT ![resource] = how]

\* No argument, or fopen fails: error_1.
Refuse ==
  /\ Do("start", "exited")
  /\ code' = 1
  /\ UNCHANGED held

Open ==
  /\ Do("start", "opened")
  /\ held' = [held EXCEPT !["file"] = "open", !["stream"] = "live"]
  /\ UNCHANGED code

\* lstat fails: error_2.
CannotStat == Do("opened", "error_2") /\ UNCHANGED <<held, code>>

\* arena_create, then context_init.
Create ==
  /\ Do("opened", "loading")
  /\ held' = [held EXCEPT !["arena"] = "live", !["context"] = "live"]
  /\ UNCHANGED code

\* arena_create returns NULL, which only the first allocation finds out;
\* or context_init has no memory and aborts.
CannotCreate == Do("opened", "died") /\ UNCHANGED <<held, code>>

\* parse_src.
Load ==
  /\ stage = "loading"
  /\ L!Next
  /\ UNCHANGED <<machineVars, mainVars>>

\* Variant: the label of the error path above.
RejectAtError2 ==
  /\ phase = "rejected"
  /\ Do("loading", "error_2")
  /\ UNCHANGED <<held, code>>

\* parse_src returns an error: error_3.
Reject ==
  /\ phase = "rejected"
  /\ Do("loading", "error_3")
  /\ UNCHANGED <<held, code>>

\* parse_src aborts, or reads memory that is gone.
LoadDies ==
  /\ phase \in {"panic", "abort", "assert", "stale"}
  /\ Do("loading", "died")
  /\ UNCHANGED <<held, code>>

\* parse_src returns 0; the file is closed before anything is executed.
Close ==
  /\ phase = "executing"
  /\ Do("loading", "executing")
  /\ held' = [held EXCEPT !["file"] = "closed", !["stream"] = "freed"]
  /\ UNCHANGED code

\* fclose fails: panic.
CannotClose ==
  /\ phase = "executing"
  /\ Do("loading", "died")
  /\ UNCHANGED <<held, code>>

\* begin_execution.
Run ==
  /\ stage = "executing"
  /\ UNCHANGED <<loaderVars, mainVars>>
  /\ V!Next

RunDies ==
  /\ status \notin {"running", "halted"}
  /\ Do("executing", "died")
  /\ UNCHANGED <<held, code>>

\* context_destroy: the frames that are left, the maps, the instructions.
DestroyContext ==
  /\ \/ status = "halted" /\ Do("executing", "finishing")
     \/ Do("error_3", "arena_destroy")
  /\ Set("context", "freed")
  /\ UNCHANGED code

DestroyArena ==
  /\ Do("finishing", "exited") \/ Do("arena_destroy", "error_2")
  /\ Set("arena", "freed")
  /\ UNCHANGED code

\* error_2 gives the FILE to free, not to fclose: its block is gone, and the
\* descriptor stays open.
FreeFile ==
  /\ Do("error_2", "exited")
  /\ Set("stream", "freed")
  /\ code' = 1

Main == Refuse \/ Open \/ CannotStat \/ Create \/ CannotCreate
        \/ Reject \/ LoadDies \/ Close \/ CannotClose \/ RunDies
        \/ DestroyContext \/ DestroyArena \/ FreeFile

Next == Main \/ Load \/ Run

\* One thread, which waits for nobody.
Spec == Init /\ [][Next]_vars /\ WF_vars(Next)
-----------------------------------------------------------------------------
(* Properties.                                                             *)

\* The machine is type correct on what the loader has given it.
TypeOK ==
  /\ V!TypeOK
  /\ stage \in {"start", "opened", "loading", "executing", "finishing", "error_3",
                "arena_destroy", "error_2", "exited", "died"}
  /\ held \in [Resources -> {"none", "open", "closed", "live", "freed"}]
  /\ code \in {0, 1}

\* The parser reads the file through its stream and fills arena and context;
\* the machine runs in the context on nodes that lie in the arena, when the
\* file is closed.  main returns with every block released, whichever of its
\* labels it goes through.  It is not so with the file: after every error
\* behind fopen it is still open when main returns.
HeldWhileUsed ==
  /\ stage = "loading" => held["file"] = "open" /\ \A b \in HeapBlocks : held[b] = "live"
  /\ stage = "executing" =>
       held["file"] = "closed" /\ held["arena"] = "live" /\ held["context"] = "live"
  /\ stage = "exited" =>
       /\ \A b \in HeapBlocks : held[b] # "live"
       /\ held["file"] = "closed" <=> code = 0
       /\ held["file"] = "open" <=> code = 1 /\ held["stream"] = "freed"

\* main returns 0 only after a text without errors was executed to its end,
\* and 1 only when nothing of it was executed: there is no partial run of a
\* bad text and no silent end of a good one.
ExitCodeTells ==
  stage = "exited" =>
    IF code = 0
    THEN errcode = 0 /\ status = "halted" /\ resolved = Len(instructions)
    ELSE status = "running" /\ pc = 0 /\ Len(frames) = 1 /\ resolved = 0

(* The execution as one of the text.                                       *)

Started == held["file"] = "closed"

OpsAbove(j) == Cardinality({k \in Mnemonics(src) : k < j})

\* The place in the text of the instruction with this index.
PlaceOf(index) == Min({j \in Mnemonics(src) : OpsAbove(j) = index} \cup {TextEnd(src)})

Returns ==
  [d \in 1 .. (Len(frames) - 1) |-> PlaceOf(return_stack[frames[d + 1].rsp - 1])]

StateOf ==
  IF ~Started THEN IF stage \in {"start", "opened", "loading"} THEN "loading" ELSE "dead"
  ELSE CASE status = "running" -> "running"
         [] status = "halted"  -> "done"
         [] OTHER              -> "dead"

Source == INSTANCE SourceMachine WITH
            here <- IF Started THEN PlaceOf(pc) ELSE 0,
            calls <- Returns, state <- StateOf

\* What runs is the text: through parser, tables, offsets and return stack,
\* every step of the machine goes where the text says, to the mnemonic
\* below, to the first mark of the named label or back behind the call, and
\* nothing of a text is executed before all of it was accepted.
ImplementsSource == Source!Spec

\* The name of the transfer at place j, if there is one.
NamesAt(j) ==
  IF /\ src[j].tok = "OP" /\ src[j].data.kind \in L!JumpKinds
     /\ L!Token(src, j + 1).tok = "IDENT"
  THEN {src[j + 1].data} ELSE {}

\* A text in which every jump and call goes to a label below it, and which
\* ends in the text section.
Downward ==
  /\ \A j \in 1 .. Len(src) :
       \A name \in NamesAt(j) : \A k \in Marks(src, name) : k > j
  /\ L!LastSection = "SECTION_TEXT"

\* The assembler ends with every such text, good or bad, and it is not the
\* lack of memory for nodes and messages that ends it: no loop of the
\* parser, the linker or the machine goes round without getting on.
EndsWithDownwardText ==
  Downward => <>(stage = "exited" \/ (stage = "died" /\ phase # "abort"))
=============================================================================

# TLA+ models and proofs for the PISS assembler

The program (`src/`, C) reads an assembly file, parses it into instructions,
resolves its labels and data names, and executes the result on a stack machine
of bytes. These modules model all of it: the lexer and its buffer, the parser's
statements, the loader, its arena, the machine, and `main` around them. TLC
checks them on small instances, and TLAPS proves the most important facts about
the machine, the loader, `main`, the arena and the lexer for every instance.

Commands, in this directory: `tlc -config VM_sweep.cfg MCVM` for a run (the
table below names module and file of each), `tlapm VMProof.tla` for the proofs
of a module.

## The system

| part | where | state it keeps | operations |
| --- | --- | --- | --- |
| bytecode machine | `ass.c:23-46, 138-471, 524-529`, `instructions.h` | operand stack, return stack, frame list with locals, `pc` | `exec_instruction` (one handler per mnemonic), `begin_execution` (fetch loop), `context_init`, `push_stack`, `pop_stack` |
| loader | `ass.c:77-136, 473-522, 531-603` | label map, declaration map, instruction array (each a growing array), `errcode` | `parse_src`: first loop over `parser_next`, second loop that patches jumps and `ppush` |
| parser | `parser.c`, `parser.h` | `state` (text or data section), the token it holds | `parser_next` and one `parse_*` function per operand form |
| lexer | `lexer.c`, `lexer.h`, `tokens.h` | a chunk of the file, a position, the remaining length | `lexer_next`, `lexer_bump`, `lexer_peak`, the token recognisers |
| arena | `arena.h`, `ass.c:48-65` | region, index, size | `arena_create`, `_arena_xalloc` over `arena_expand` and `arena_alloc_aligned` |
| main | `ass.c:605-645` | the file, the context, the arena | open, load, execute, destroy, and the error labels |

They interact by calls, in one thread, and share memory:

- `parse_src` pulls nodes from `parser_next`, which pulls tokens from
  `lexer_next`, which pulls bytes from the file. All three allocate in the one
  arena, whose region `realloc` may move at any allocation. Pointers into it are
  held by the label and declaration maps, by nodes, and by `parser_next` itself
  while it reads the rest of a statement; the instruction array holds offsets
  during the first loop and pointers after the second.
- `parse_src` hands the machine an array of instructions. The machine trusts
  it: `begin_execution` compares `pc` with the length and nothing else.
- In the machine every frame works on the same operand array. A call gives the
  callee a `FramePointer` of its own, but the caller's `start`; the return
  address goes to a second array, through a pointer copied from frame to frame.

What makes this hard: the moving region under kept pointers; two records of the
calls in progress (frame list and return stack) that only stay in step by
convention; one byte array for the operands of all calls; unsigned and pointer
arithmetic at the limits of stack and arena; an error path that goes on parsing;
loops (`parse_src`, the fetch loop) that end only if something else sees to it.
There is no concurrency, no persistence and no message passing.

What makes each part correct:

- machine: indices stay in their arrays; `STACK_CHECK` covers what a handler
  reads; a `ret` resumes behind the call that made its frame, on the operands
  that caller left; suspended operands survive what callees do above them.
- loader and parser: what is executed is what was written, or nothing is
  executed; the arrays are never overrun; the loops end.
- arena: blocks are aligned and disjoint, and inside the region up to a margin.
- lexer: the characters delivered are those of the file, in order, across
  chunks; the tokens cover the file, each a longest lexeme with its own spelling
  and span; every input ends in `T_EOF`.
- main: what a part works on is there while it works, every block is released on
  every path, and the exit code says which of the paths it was.

## Modules

| module | models | lines of source |
| --- | --- | --- |
| `Words` | words of bytes, two's complement, C division | the widths of the handlers, `ass.c:150-269` |
| `Bytecode` | instructions as the loader hands them to the machine | `instructions.h`, `parser.h:75-87` |
| `VM` | the bytecode machine | `ass.c:138-471, 524-529` |
| `CallMachine` | abstract: calls and returns as a last-in first-out record | what `jumpproc` and `ret` promise |
| `VMCalls` | `VM` with a history of what callers left on the stack | `jumpproc`, `ret` |
| `Parser` | one call of `parser_next` as a function | `parser.c` |
| `Loader` | `parse_src`, with the arena in cells; extends `Parser` | `ass.c:48-136, 473-603` |
| `CharStream` | abstract: the characters of a text, then the end | what `lexer_bump` and `lexer_peak` promise |
| `LexerBuffer` | the buffer the file is read through | `lexer.c:20-94`, `lexer.h` |
| `Lexer` | `lexer_next` and its recognisers; extends `LexerBuffer` | `lexer.c:96-427`, `tokens.h` |
| `SourceText` | abstract: the instructions, the marks and the end of a text | what a text promises its author |
| `SourceMachine` | abstract: the order of execution a text describes | what the assembler as a whole promises |
| `Assembler` | `main`, over instances of `Loader` and `VM` | `ass.c:605-645` |
| `Arena` | the arena in bytes | `ass.c:48-65`, `arena.h:484-581` |
| `MCVM`, `MCVMCalls`, `MCLoader`, `MCArena`, `MCLexer`, `MCAssembler` | the instances TLC checks | |
| `WordsProof`, `VMProof`, `VMRefinement`, `VMCallsProof`, `LoaderProof`, `AssemblerProof`, `ArenaProof`, `LexerProof` | theorems and proofs | |

The abstract modules (`CallMachine`, `CharStream`, `SourceText`, `SourceMachine`) and the
history of `VMCalls` translate no code: they say what the code is held to, and
have no place in the map of definitions to lines. Of `Words` only `Byte` is
declared in the source; the rest is what C does with its integer types.

`Loader` and `VM` share `Bytecode`: `Loader`'s property `LoadsProgram` is the
assumption `ProgramAssumption` of `VM`.

### VM

`prog`, `pc`, `stack`, `return_stack` and `frames` are the fields of `Ctx`;
`frames` is the list that starts at `frame_ptr`, innermost last, and a frame's
`rsp` stands for its `return_stack_ptr`. Pointers into an array are offsets; an
address a program can hold as data (`pload`, `ppush`, `pderef`, `pset`) is a
number in an address space in which the stack, the declared bytes and the
frames' locals have places. Each handler is an action, named for its mnemonic.
`Ready` is the common part: fetch, kind, `STACK_CHECK` passed. `EmptyStack` is
the failing check, which reports and goes on with the next instruction. Since the
pushes of one handler only move `ptr` up, one comparison (`Fits`) stands for
all its `push_stack` calls.

Statuses are the ends of a run: `halted` (the loop left), `panic` (an abort the
code makes), `sigfpe` (a division that traps), and `operand_stack`,
`return_stack`, `locals`, `wild_pointer`, `null_frame`: the handler leaves the
object it may access, and what the process does from there on is undefined. No
behaviour is modelled past such a point.

Abstractions. A byte has `Base` values; words are sequences of bytes, lowest
first. Results wrap. Floats keep their width but an operation on them may give
any word, a comparison any answer. Freshly allocated locals hold anything of
`JunkLocals`. What is printed is not state. A block freed by `ret` may be given
again to a later frame, so an address that outlives its frame may be nobody's or
another frame's.

### Parser and Loader

A file is a sequence of tokens (`src`), and `at` is the next one. `ParserNext`
gives, for one call, the outcome (node, error, or `panic` for declarations with
initialisers), where the next call goes on, and the section. That it is one list
of accepted tokens per statement is how `parser.c` works: each `parse_*`
function reads until a token is not what it expects, and consumes that one.
Spans and message texts are left out. A `T_EOF` may have tokens behind it, since the
lexer returns one for a byte 0xFF. `WellFormedToken` says which data a token of each
kind carries, which is what `lexer_next` makes of a spelling.

Token kinds are numbers in the code, and some coincide. `tokens.h:8-15` gives `,`, `[` and
`]` their character codes 44, 91 and 93, and the mnemonics count on from `T_EOL`, which is
10, through the same numbers: `T_PDEREF8`, `T_CCEQ` and `T_CCGE` are those three. So there
is one kind of token for all mnemonics (`OP`, with the mnemonic as data) and none for
the three signs: they are the tokens of `CommaOp`, `OpenBracketOp` and `CloseBracketOp`.
A line of a single comma is an instruction, and `TakenFor` says that in a declaration
`cceq` and `ccge` are brackets. The other kinds are apart from each other and are strings.
The build is the default one (no
`STRONG_LIT_TYPE`, no `WEAK_LIT_TYPE`).

In `Loader`, `Parse` is a turn of the first loop (`AddInstruction`, `AddLabel`,
`AddDeclaration`, `ReportError`, `EndOfFile` and the ways to die), `Link` a turn
of the second. Each action includes what its call allocates: the node first,
then the texts of its names, then a message. The region is a base address; a
growth may choose another one. From the moment a pointer into an old region is
used the phase is `stale`: the node pointer of `parser_next` (`NodeMoved`), or
a kept name handed to `strcmp` (`NameMoved`). An allocation is one cell;
`Refused` is the assertion that may fail near the end of the region, whose
arithmetic is in `Arena`.

### LexerBuffer and Lexer

A file is a sequence of characters, and `len` what `lstat` says of it: for a
symbolic link the length of the path it holds, so the two may differ.
`Bump` is `lexer_bump`: it takes the byte at `Taken % LEXER_BUF_SIZE` and, at the
last byte of the buffer, refills it; `fread` overwrites only what it reads.
`Delivered` states which byte comes k-th, with the file and the remainder alone.
The byte 0xFF is the model value `EOF`, since `char` is signed in this build.

`Lexer` has one step per turn of a loop of `lexer.c`. `mode` is the loop: `next`
for the label `tailcall` of `lexer_next`, a name for each recogniser
(`Open` enters it, `Finish...` leaves it), `comment`, `done` after `T_EOF`, and
`overrun` when the local `buf` of a recogniser (`SBUF_SIZE` bytes) is full and the
loop writes on. `word` is what is in that `buf`, or in the builder of a string
literal, which grows and has no limit. `tokens` is what `lexer_next` returned,
with its place in the file (`from`, `to`) added; the parser calls until `T_EOF`.
A token of kind `KEYWORD` has the word of `TOK_KW` it stands for; for a comma or a bracket
that is the mnemonic with its code (`Twins`), so the token does not tell the two apart.
What `strtol`, `atol` and `atof` make of a spelling is left out: the spelling they
get is what the properties compare. `CharAssumption` states what `<ctype.h>` and the
literals of `lexer.c` and `tokens.h` give: letters, digits and the signs `lexer.c`
compares with are apart, no class has `EOF` in it, a quotation mark is not
among the characters behind a backslash, and the words of `TOK_KW` are
identifiers or section names with their dot, the twins of the signs among them (`.data` and `.text` are in both lists, as
in `tokens.h`).

### Assembler

`Assembler` instantiates `Loader` (`L`) and `VM` (`V`) with the same variable
names: the machine's `prog` is what the loader has linked, as it lies in the
arena, from the moment `parse_src` has returned 0. `stage` is the statement of
`main` that is next; `Load` and `Run` are steps of `parse_src` and of
`begin_execution`, every other action is a call of `main` or a jump to
one of its labels `error_1` to `error_3`. `held` says of the file, the block of its
`FILE` (`stream`), the arena and the context whether they are taken or released. File
and block are two things because `error_2` hands the `FILE` to `free` (`ass.c:642`): that
releases the block, and the file stays open. A resource that is there although
the process died is the operating system's, so `died` promises nothing.

`SourceMachine` runs the tokens themselves: no node, table, offset or return
stack. `StateOf`, `PlaceOf` and `Returns` map the composition to it. The places it
goes by (`SourceText`) are those of the tokens. An end of file
ends the text only at the start of a line: behind an operand `is_end_of_statement`
takes it for the end of that line, and the lexer makes one of a byte 255 too. A
line that starts with a comma or a bracket has an instruction there as in the code.

### Arena

`Grant`, `Refuse` and `OutOfMemory` are the three ends of `_arena_xalloc`.
`Remaining` is the comparison as written, with the offset taken off a second
time and the unsigned difference wrapping at `WordSpace`. Blocks are known by
offsets, so that they survive a move.

## Runs

| run | instance | shows |
| --- | --- | --- |
| `vm_sweep` | all programs of two instructions from a palette of 33 with every handler, behind two pushes; single instructions; 245 pointer programs; 10 bytes of stack | `TypeOK`, `OperandsGuarded` |
| `vm_calls` | a caller with 4 operand bytes, a procedure of 2 or 3 instructions from a palette with pushes, pops, returns, nested calls, recursion; 8 bytes of stack: two return slots | `FrameChain`, `ReturnsBehindCalls`, `CallDepth`, `CallerOperandsKept`, `ImplementsCalls` |
| `vm_ends` | the same programs, with fairness | `ForwardTerminates` |
| `loader_short` | all files of three lines from 11, an unterminated last line, 8 kinds of bad line and 9 with a comma or bracket where a mnemonic stands, or the other way round, in the middle, and a `T_EOF` that more tokens follow; arena of 4 cells that may double to 32, arrays that start at one element, two places for the region | `TypeOK`, `CapacityCovers`, `LinkedAsWritten`, `ErrorsForbidExecution`, `LoadsProgram`, `LoadEnds` |
| `arena_blocks` | every order of requests of 3, 8, 13 and 40 bytes in a region of 24 that doubles twice, at two places | `TypeOK`, `BlocksApart`, `OvershootBounded` |
| `lexer_files` | every file of up to three characters over an alphabet of 14, every pair of 37 lexemes and broken lexemes, files of three lines, files with a wrong length; a buffer of 3, words of up to 5 | `TypeOK`, `Tiled`, `TokensSpelled`, `SpansPlaced`, `OverrunsAreLongWords`, `ImplementsStream`, `LexEnds` |
| `assembler_texts` | a push and every three lines from a palette of 9 (labels, jumps, calls, pushes, a return); procedures; texts with declared data; a bad line between two good ones; lines of a single comma or bracket; texts with an end of file inside, at the start of a line or as its end | `TypeOK`, `HeldWhileUsed`, `ExitCodeTells`, `ImplementsSource`, `EndsWithDownwardText` |
| `vm_doc_pload` | the programs of `vm_calls` | violates `PloadPushesOneAddress` |
| `vm_doc_frame` | the programs of `vm_calls` | violates `ProcedureHasOwnStack` |
| `loader_doc_names` | as `loader_short` | violates `KeptNamesLive` |
| `arena_doc_inside` | as `arena_blocks` | violates `BlocksInside` |
| `lexer_doc_string` | as `lexer_files` | violates `StringAsWritten` |

Why the bounds are enough. The machine is scaled, not cut: `Base` 4, an `int`
of two bytes, an `unsigned long` and a pointer of three, so that every width
relation of the code (1 < int < long <= stack) is kept, `LeastInt / -1` and
wrapping occur, and the stack and the return stack overflow within a few
steps. The handlers look at the top of the stack, their frame and the caller's
frame; two instructions behind a prologue put every handler behind every other.
Calls need depth: two return slots give three frames, the first call that has
no slot, and returns that reuse slots. Three lines are a jump before, behind and
onto its label, a duplicate label, a name used and declared in either order, and
an error with good lines on both sides. The arena starts so small
that its region moves in the second or third line of most files, and moves again
in the longest.

A buffer of three makes every lexeme of two characters or more straddle two
chunks in some file, at each of its characters, and files end before, at
and behind a refill; links bring lengths from nothing to twice the file.
The alphabet has a character of every class a recogniser tells apart, so that three
characters are every lexeme start before and behind every other; pairs of lexemes
add the longer ones, with full and overfull words. Three lines and a push are
enough for a jump over a call, recursion, a return without a call, a label at
the very end and one that is missing.

`CHECK_DEADLOCK FALSE` everywhere: every model ends, as the process does.

Properties, where the name does not say it:

- `OperandsGuarded`: the only steps that reach below the operand stack are a
  `jumpproc` (which has no check) and a `ret` whose count makes the pointer
  difference of `is_empty_stack` wrap.
- `FrameChain`, `ReturnsBehindCalls`: the frame list and the return stack agree,
  and every return slot in use holds the index behind a `jumpproc`, though slots
  are never cleared.
- `CallDepth`: how deep calls nest. It follows from `FrameChain` and the type of `rsp`,
  and is stated because it is what the author of a recursive procedure meets.
- `CallerOperandsKept`: below the lowest point that `ptr` has reached since a
  call, the bytes are what they were at that call, whatever callees pushed,
  returned or called.
- `ImplementsCalls`: `VM` implements `CallMachine`, under the mapping of a call
  in progress to a suspended frame's height and the slot behind its callee.
- `LinkedAsWritten`: compares what is executed with the tokens themselves, with
  no tables: the n-th mnemonic that starts a line, or sign with the kind of one,
  is the n-th instruction, every jump lands at its first label, every `ppush`
  has its first declaration.
- `ErrorsForbidExecution`: what is linked or executed was read to its end and
  consists of whole statements. A line of a single comma is one, for the code.
- `LoadEnds`: a file that ends in the text section is executed or rejected (or
  dies of a named cause). One that ends in the data section is not: `T_EOF` is an
  error there, for ever, until the arena can hold no more messages.
- `ImplementsStream`: the buffer implements `CharStream`, whatever its size. With a
  wrong length the stream is what `Delivered` says.
- `Tiled`, `TokensSpelled`, `SpansPlaced`: read the tokens back against the file,
  with a lexical grammar (`Lexeme`) that knows no recogniser: they follow
  each other, leave out blanks and comments only, each is a longest lexeme of its
  kind and carries its spelling (a mnemonic's kind: its word, or the sign with its
  code), `T_ILLEGAL` comes only where no lexeme begins,
  and rows and columns are those of its first and last character.
- `OverrunsAreLongWords`: the only way over the end of a recogniser's buffer is one
  word of the file as long as it.
- `LexEnds`: every file is read to its end, unless a comment stands on a last
  line without newline; such a file is not.
- `ImplementsSource`: lexer apart, the whole assembler implements `SourceMachine`:
  each step goes where the text says.
- `HeldWhileUsed`: `main` returns with every block released, by whichever label.
  The file is closed if it returns 0, and open still after an error behind `fopen`.
- `ExitCodeTells`: 0 is returned only after a good text was executed to its end,
  1 only when nothing of it was.
- `EndsWithDownwardText`: a text whose jumps and calls all go down, and which
  ends in the text section, comes to an end, good or bad, and not by using up
  the memory for nodes and messages.

### Fairness

One condition, in `VM!FairSpec`, `Loader!Spec`, `Lexer!Spec` and
`Assembler!Spec`: weak fairness of the whole
next-state relation. The program is a single thread that neither waits nor
yields, so as long as a step exists one is taken. Nothing is assumed about
which outcome a choice (an uninitialised byte, a float, the place of a moved
region) has.

## Findings

Five runs show the code doing something else than its documents or comments
say:

- `pload` leaves its operand word below the address (`ass.c:360`;
  `instructions.txt:35`).
- A procedure can take what its caller left below the arguments, through a
  handler with a `STACK_CHECK`, because the check compares with the `start` it
  got from the caller (`ass.c:408`; `instructions.txt:47`, "new stackframe").
  `ProcedureHasOwnStack` is about those handlers only; that `jumpproc` itself has
  no check (`ass.c:406`) is a finding of its own.
- Names in the two maps dangle once the arena has moved (`ass.c:502`), although
  the comment at `ass.c:550` gives the move as the reason to keep offsets. An
  AddressSanitizer build reports a heap use after free for a file with a label,
  2000 `pop8` and a jump.
- A block can end up to seven bytes behind the region (`arena.h:570`). An
  AddressSanitizer build reports the overflow for requests of 21 and 3 bytes in
  a region of 24.
- The first character of a string literal is in the token twice
  (`lexer.c:281`; `examples/ffi.pissm:4`). A test program prints `HHello`.

Further ones, without a run of their own, are in `PROJECT.json`: the endless
errors at the end of a data section, `ret` in the outermost frame, `pderef(n)`
and `pset(n)` documented but not implemented, `ret` with an index the document
does not have; a byte 0xFF taken for the end of the file (`lexer.c:376`), the comment
on a last line that is never left (`lexer.c:243`, a hang of the real program), words
of 256 characters that run over a recogniser's buffer (`lexer.c:96`), the length
taken of a link and not of the file (`ass.c:620`), a `FILE` given to `free`
and so never closed (`ass.c:642`), three mnemonics with the token kinds of `,`, `[` and
`]` (`tokens.h:8`), a `jumpproc` without a `STACK_CHECK` (`ass.c:406`), and a message that does not fit its 256 bytes (`parser.c:371`).

## Proofs

For every value of the constants that satisfies the assumptions:

| theorem | module | says |
| --- | --- | --- |
| `TypeCorrect` | `VMProof` | `TypeOK` |
| `FramesLinked` | `VMProof` | `FrameChain` |
| `ReturnsAreSound` | `VMProof` | `ReturnsBehindCalls` |
| `StackChecked` | `VMProof` | `OperandsGuarded` |
| `DepthBounded` | `VMRefinement` | `CallDepth` |
| `Refinement` | `VMRefinement` | `ImplementsCalls`: the machine implements `CallMachine` |
| `OperandsKept` | `VMCallsProof` | `CallerOperandsKept` |
| `LoaderInvariant` | `LoaderProof` | the loader's inductive invariant, `IInv` with `EndAhead` |
| `LoaderTypes` | `LoaderProof` | `TypeOK` of `Loader` |
| `NoOverrun` | `LoaderProof` | `CapacityCovers` |
| `NothingFromErrors` | `LoaderProof` | `ErrorsForbidExecution` |
| `ProgramAsWritten` | `LoaderProof` | `LinkedAsWritten` |
| `ProgramLoaded` | `LoaderProof` | `LoadsProgram`, the machine's `ProgramAssumption` |
| `AssemblerInvariant` | `AssemblerProof` | the two parts' invariants, and where `main` stands between them |
| `AssemblerTypes` | `AssemblerProof` | `TypeOK` of `Assembler`: the machine on what the loader made |
| `ResourcesHeld` | `AssemblerProof` | `HeldWhileUsed` |
| `ExitCodes` | `AssemblerProof` | `ExitCodeTells` |
| `TextExecuted` | `AssemblerProof` | `ImplementsSource` |
| `ReadsTheFile` | `LexerProof` | `ImplementsStream`: the lexer implements `CharStream` |
| `StreamIsTheFile` | `LexerProof` | that stream is the file, when its length is right |
| `LexerTypes` | `LexerProof` | `TypeOK` of `Lexer` |
| `TokensPlaced` | `LexerProof` | `SpansPlaced` |
| `TokensTile` | `LexerProof` | `Tiled` |
| `LongWordsOverrun` | `LexerProof` | `OverrunsAreLongWords` |
| `TokensAreLexemes` | `LexerProof` | `TokensSpelled`: the tokens are those of the grammar |
| `TypeCorrect` | `ArenaProof` | `TypeOK` of `Arena` |
| `Apart` | `ArenaProof` | `BlocksApart` |
| `Overshoot` | `ArenaProof` | `OvershootBounded` |

Assumptions, each evaluated by TLC in the runs: `BaseAssumption` (a byte has at
least two values), `SizeAssumption` (widths of 1 to 8 bytes, an `int` no wider
than a pointer, a stack of at least one pointer), `MemoryAssumption` (stack,
data and frame blocks do not overlap, addresses do not wrap inside the stack),
`ProgramAssumption` (jumps stay in the program, which is `LoadsProgram` of
`Loader`), `ArenaAssumption` of `Loader` (an arena that holds what one call of
`parser_next` needs, regions that do not overlap), `SourcesAssumption` (a file is
a finite sequence of tokens, each with the data of its kind), `ArenaAssumption` of
`Arena` (aligned regions of at least 24 bytes; requests that do not overflow
`size_t`), `BufferAssumption` of `LexerBuffer` (a buffer of at least one byte),
`SbufAssumption` (a recogniser's buffer of at least two) and `CharAssumption` (above)
of `Lexer`.
`Assembler` assumes of its constants what `Loader` and `VM` assume of theirs
(`LoaderAssumption`, `MachineAssumption`), except `ProgramAssumption`: that one is
proved there.

The machine. `TypeOK` alone is not inductive: a `ret` loads `pc` from the
return stack, at the slot its frame's `rsp` names, and writes its result at the
caller's `ptr`. The invariant is `Inv == TypeOK /\ FrameChain /\
ReturnsBehindCalls`: `FrameChain` says which slot that is (`rsp` is the depth),
and `ReturnsBehindCalls` that its content is an index of the program; a call
writes only the slot above those in use. Most handlers go through `Rewrite`, so
`RewriteKeepsInv` is the main lemma and a handler only has to show that what it
pushes is bytes (`WordBytesType`, `OperandType`, `LocalBytes`, `PderefBytes`).
`StackChecked` needs nothing of the history: `NeedCovers` compares the argument
of each `STACK_CHECK` with what the handler pops and peeks, and `CheckSound`
says when the comparison on wrapping addresses is the one meant. `Refinement`
maps every step: `QuietStep` for those that leave the calls alone, `CallEnters`,
`RetLeaves`. It needs `Inv` to know that a store into another frame's locals or
a reused slot cannot change a call in progress. `DepthOfList` (the innermost
`rsp` is the number of suspended frames) gives `DepthBounded`.

What a caller keeps (`VMCallsProof`). The property is not inductive: a push has to
land above what every record covers. `LowBelowCallees` says why it does: a record's
`low` is at or below the `ptr` of every frame above the suspended one, so neither
the innermost frame's pushes nor a result pushed onto a frame in between can
reach under it. `NoCallStep` is the step for everything but a call: a step that
writes nothing below the lows that remain, and leaves each frame's `ptr` at or
above the low point or where it was.

The loader (`LoaderProof`). `IInv` has five parts. `TypeInv` is the types with the
capacities. `NodesApart` says that every entry of the instruction array, offset
or, once resolved, address, leads to a node of its own: the second loop writes
into the arena through those entries, and without it a patched jump could be
another instruction's. `JumpsInside` is what that loop has established so far. `Order` ties
`phase` to `resolved`, `errcode` and the tokens read. `Written` is the reason for
the rest: as long as no error was found, the three tables are what the tokens in
front of `at` say, which is stated by counting. The k-th instruction is the k-th
mnemonic (`OpMarks`), the location of a label is the number of mnemonics above it,
and the name in an entry is the address a text once had (`Names`), wherever the
region was then. The last point is what makes the findings about kept names
and the theorem compatible: a lookup compares live names only, or the phase is
`stale`, and a live address determines its text because regions do not
overlap. From it the first table entry that compares equal is the first mark with that name
(`FirstHit`), so the linear search of the code finds what the text means
(`JumpLinked`, `PpushLinked`). Before that come the facts about one call:
what `ParserNext` reads (`CallInText`, `NodeCall`), that it leaves at most two
texts (`FewTexts`), where they are (`TextPlaceFound`), and what one turn adds to each count
(`CallMarks`, `CountAcross`). That no array is overrun and that a finished program is
well formed are then consequences. `NothingFromErrors` needs more than `IInv`, which does
not say where the parser stands: that each line of the text section begins at a
line's start, and that nothing but an end of file is left behind. `EndAhead` says it,
and the two together are the invariant of `LoaderInvariant`. A sign has the kind of a
mnemonic, so each fact about a token's place in its statement is one about what it is
taken for there (`TakenAsItIs`, `OperandsRead`).

`main` (`AssemblerProof`). `AInv` is the loader's `IInv` and `EndAhead`, the machine's
`Inv`, and `Route`: for each `stage`, what `main` holds and how far its two parts are. The
proofs of the parts are used as they stand, through instances of their modules
with the composition's variables (`LP`, `VP`); the `Same...` lemmas say that
the definitions met on those two ways are the same. The machine's `prog`
is here an expression that changes once, from the empty program to the loaded one,
in the step in which `phase` becomes `executing`. That step keeps `Inv` because the
machine is `Fresh` then (`MachineIsGiven`) and because `ProgramLoaded` gives the assumption
that `VMProof` makes (`ProgramArrives`); afterwards the loader does not move, so
the program does not change under the machine.

The text (`TextExecuted`). `EndAhead` says where the parser stands while no error was
found: no end of the text lies behind it, and in the text section it is at the start of a
line, so the end of file that leaves the first loop is the first end of the text (`AcceptedEnds`,
`EndOfText`). The rest is counting. The instruction with index i is the mnemonic with i others
above it: there is one (`PlaceExists`), and one only (`PlaceFound`); behind the last of them is
the end (`PlaceBehind`); and the first mnemonic at place j or below has the index that
counts those above j (`FirstIsPlace`). With it `LinkedAsWritten` (as `LoadedAsWritten`)
says of each instruction what the text says of its mnemonic (`ProgramIsText`): the next one is the
one below, and `pc + 1 + offset` is the first one below the first mark of the name. Then
each action of the machine is one of `SourceMachine` (`HandlersFall`, `JumpsBranch`,
`JumpprocCalls`, `RetReturns`, `StopsEnd`), the return slots being read through
`FrameChain`, and each statement of `main` is `Begin`, `Die` or no step (`MainMaps`).

The lexer's input (`LexerProof`). `BufInv` gives every slot of the buffer the byte
that will be delivered from it while the lexer is in this chunk, and `offset` the
end of the chunk. A refill either reads the byte (`DeliveredInside`) or keeps the old
one, and then that one is delivered again (`DeliveredAgain`): the places that share a
slot are the same. Positions modulo a size that is a constant need
`Remainder` and its consequences. Each turn of a recogniser calls `lexer_bump` once or
not at all (`TurnsBump`), which carries the result from the buffer to `lexer_next`.

The tokens (`LexerProof`). None of the four properties is inductive alone: between two
tokens they say nothing of what has been read of the next one. `LInv` adds that.
`SpanInv`: `row` and `col` are where the lexer is and `prev` where it was, which is
`PlaceBehind`, the effect of one character on the count of newlines. `TileInv`: the tokens
end before the word that is being read begins. `WordInv`: for each recogniser, the
text since `begun` against what is in its buffer, that is, `Holds(n)` (all but the first n
characters) with the class each of them is in, and for a string `InString`: no
quotation mark so far, and a set of the backslashes that begin an escape, which also
says whether the lexer is behind one. Steps are sorted by shape first (`Turn`: a
recogniser goes on, one begins, characters are skipped, a token is returned), so `SpanInv`
and `TileInv` need four cases and not eighteen; `WordInv` needs a lemma per action.
`TokensSpelled` then follows per returning action (`IdentSound` to `CharCloseSound`):
`WordInv` and the character that stopped the loop give the lexeme. For `T_ILLEGAL` every end
of the text has to be excluded (`Rejected`): `BeginsWith` narrows the kinds by the first
character, and a longer or shorter text would need a character that is not there. `Escaper`
of the grammar is a recursive function; that it exists, and agrees with the set of the
invariant wherever the text behind it ends, is shown by least counterexamples
(`MarksExist`, `MarksAgree`).

The arena. A block ends at or below `index` and the next one begins at or
behind it, rounded up, so blocks are apart. For the overshoot: without growth
the request fits behind the unaligned index, and aligning adds at most seven;
after a growth the region has twice its old size, the rounded index and the
offset stay below that (the old size being 24 at least), and the comparison does
not wrap.

Only model-checked: `ForwardTerminates`, `LoadEnds`, `LexEnds` and
`EndsWithDownwardText`, which are liveness and out of the prover's reach.
`CallMachine` and `CharStream` have no fairness, so the refinements are about
safety.

## Not modelled, and the plan

Not modelled: `ARENA_DEBUG` (not defined in the build), `arena_copy`,
`arena_clear` (no caller), the debug traces, the text of messages, the example
programs (inputs, not parts).

The values of literals, lengths in bytes of names and messages, and sizes of
declarations are data of the models, not state: `calloc` at `parser.c:306` and the
`sprintf` at `parser.c:371` are in the findings and hazards only. Four ends of the
machine (a trapping division, a local outside its frame, a wild pointer, a
return without a call) are modelled as ends and no property excludes them,
because the code has no check that would. `Lexer` and `Loader` meet in the token:
`Loader` is given sequences of tokens and `Lexer` is proved to return those
that the file spells; a composition character by character would only multiply
the two state spaces.

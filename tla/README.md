# A verification of ncc

ncc is an optimizing ANSI C compiler for Linux/x86_64, written in C, with its
own preprocessor and C library. This directory holds TLA+ models of its parts,
the TLC configurations that check them on small instances, and TLAPS proofs of
theorems that hold for every instance. Every definition is translated from the
source named for it in `PROJECT.json` ("map").

## The system

A compilation is a chain of processes. Each is sequential: there are no threads
and no signal handlers with state, so what is hard here is not concurrency but
long chains of in-place updates of shared, linked structures, in an order that
later steps silently depend on.

| part | sources | state it keeps | operations | how it is used |
|---|---|---|---|---|
| driver | `cc.c` | the goal, the list of temporary files, the linker's argument list | `morph`, `run` (fork, exec, wait), `temps_add`, `remove_temps`, `error` | starts `cpp`, `cc1`, `as`, `ld` and hands the output of one to the next through files |
| preprocessor: input | `cpp/input.c`, `cpp/vstring.c` | the stack of open files, the state of comments, the line being assembled | `input_push`/`input_pop`, `input_line`, `concat_line`, `erase_comments` | feeds lines to the main loop of `cpp/cpp.c` |
| preprocessor: directives | `cpp/directive.c`, `cpp/evaluate.c` | the stack of conditional states | `#if` ... `#endif`, `#include`, `#line`, `#define`, `#undef`, `#error` | may push a file on the input stack, or define a macro |
| preprocessor: macros | `cpp/macro.c`, `cpp/token.c` | the macro table, token lists | `macro_define`, `macro_undef`, `macro_replace` | called on each line kept and on `#if` expressions |
| compiler: front end | `cc1/lex.c`, `decl.c`, `stmt.c`, `expr.c`, `init.c`, `tree.c`, `type.c`, `symbol.c`, `fold.c`, `cast.c`, `con.c`, `string.c`, `field.c` | the token stream, the symbol table with its scopes, the types | recursive descent; builds the control flow graph of one function at a time | produces blocks and instructions |
| compiler: control flow graph | `cc1/block.c`, `cc1/blks.c`, `cc1/switch.c` | the all-blocks list; each block's lists of successors and predecessors | `block_new`, `block_add_successor`, `block_redirect_successors`, `block_switch_case`, `blocks_iter`, `blocks_sequence`, ... | the data structure every pass reads and rewrites |
| compiler: analyses | `cc1/live.c`, `dom.c`, `loop.c`, `webs.c`, `regs.c`, `set.h`, `bitset.c` | per block: live sets and ranges, dominators, loop bodies, reaching webs | iterative data flow over `blocks_iter()` | asked for by the optimizer and the register allocator |
| compiler: optimizer | `cc1/opt.c`, `prop.c`, `copy.c`, `dead.c`, `kill.c`, `slvn.c`, `load.c`, `testz.c`, `dealias.c`, `algebra.c` | per block: constant tables, copy maps, value numbers | one pass at a time, repeated until nothing changes | `opt_early()` before, `opt_late()` after code generation |
| compiler: back end | `cc1/gen.c`, `graph.c`, `regmaps.c`, `sched.c`, `amd64/` | the interference graph, the selection stack, colours, dependency DAGs | select instructions, allocate registers, peephole, schedule | emits assembly |
| library | `libc/` | the heap's buckets, the `FILE` buffers | `malloc`/`free`, stdio, conversions, sorting, time | linked into every program compiled |
| list macros | `common/` | none of their own | BSD-style queues, utilities | included by all of the above |

`regress/` holds expected assembler output; the repository has no unit tests of
the components.

## What makes each part correct, and what is hard about it

* **Driver.** Results are delivered, nothing half written survives, the user's
  files are not touched. Hard: any command may fail or be killed after writing
  part of its output; the cases of the switch in `main()` fall through, and the
  goal decides where.
* **Preprocessor, main loop.** A line is copied exactly when the conditional
  groups say so, and the output says of every line where it came from. Hard:
  lines are read ahead for macro calls, and the conditional stack, the input
  stack and the `need_sync` flag are changed in three files.
* **Preprocessor, macros and `#if`.** Replacement follows C89 and ends. Hard:
  the treatment of names that must not be replaced again.
* **Front end.** Every construct becomes blocks whose execution is what C says,
  and every expression has the type C gives it. Hard: trees are rewritten in
  place, by passes that each rely on the form the one before leaves; a switch,
  whose labels edit a block that was left long before.
* **Control flow graph.** Successors and predecessors mirror each other, the
  condition codes of a block are exclusive and exhaustive, clean-up keeps the
  behaviour. Hard: lists are edited while they are walked, and
  `block_find_predecessor()` runs off the list when they disagree.
* **Analyses.** Each returns the intended solution of its equations although it
  recomputes in place, in list order, and decides by comparing with the previous
  value (live ranges, LIVE IN/OUT) or only its size (dominators). Hard: one
  change not noticed ends the analysis early, and nothing downstream notices.
* **Optimizer.** No pass changes what the function does; dead store elimination
  removes all that is useless and nothing else; the passes end. Hard: it goes on
  deleting with ranges that are only approximately updated, and the passes call
  one another.
* **Register allocation.** Interfering registers get different colours; a spill
  is a last resort. Hard: half edges are removed and restored in an order that
  must mirror exactly; coalescing edits graph, list and code together.
* **Library.** `malloc()` hands out disjoint regions and keeps the data of the
  caller; a `FILE` delivers what was written; the conversions compute. Hard:
  partial writes, errors between two steps, mode changes, sequences of legal calls.

## Modules

`PROJECT.json` ("map") names the lines each definition translates. A small
helper whose lines lie within those of the operator it serves has no row of its
own there.

| module | models | state ↔ code | actions ↔ code |
|---|---|---|---|
| `Liveness` | what "live on entry" means, as paths | `in`, `done` | the sets grow; the analysis finishes |
| `Live` | `live_analyze_global()` under `blocks_iter()` | `in`, `out`, `def`, `use`: `b->live`; `cur`, `reiter`: the loop of `blocks_iter()` | `Visit`: one call of the callback; `EndPass`: the end of the list |
| `Dom` | `dom_analyze()` | `dom`: `b->dominators`; as above | `Visit`, `EndPass` |
| `Loop` (on `Dom`) | `loop_analyze()` | `blks`, `depth`: `b->loop`; `bstack`, `body`: the locals of `loop_blocks()` | `Analyze` (a step of `Dom`), `Edge`, `Flood`, `EndFlood`, `NextBlock`, `Depth` |
| `LiveRanges` | the three phases of `live_analyze()` on a block, `live_interf()`, and what a range means | `ranges`: the list of `struct range` as a set; `phase` | one action per instruction of `live_analyze_local()`, then the global and final phases |
| `Dead` (on `LiveRanges`) | `dead()`, `dead0()`, `live_kill_insn()` | `code`; `changes`, `changed`, `invalidated`: their flags; `wide`: the LIVE OUT that the list still speaks of | `Start`, `Skip`, `Kill`, `Rescan`, `Return` |
| `Testz` | the execution of straight code; `testz_early()`, `testz_middle()`, `testz_late()` | `setcc`: the SETcc table of `early0()`; `zReg`: `z_reg` | one action per instruction and outcome |
| `Graph` | `color()`, `graph_pick()` | `graph`, `adj`: the node list and half edges; `stack`: `node_stack`; `color` | `PickLow`, `PickSpill`, `EndPick`, `Pop`, `EndPop` |
| `Alloc` (on `Graph`) | `graph_alloc()` up to the colours: `interf0()`, `early0()`, `graph_merge()` and the sorted node list | `nodes.list`, `nodes.adj`: the node list and half edges; `code`: the copies; `todo`: the edges a loop has still to add; `changed` | `Build`, `TakeOver`, `Disown`: one edge of a loop; `Merge` or `Skip` at a copy, `Rename`, `Discard`; `Rebuild` (the next round), `Color`, the actions of `Graph` |
| `Block` | the cessors of `block.c`, the edits of `prune0()` and `coal0()`, what a graph should be | a record: list, successors, predecessors, bodies | operators, one per function |
| `Ir` (on `Block`) | the insns of `insn.h`, what they define and use, constant arithmetic, walks, the clean-up passes of `opt.c`; the run of a graph of blocks | operands and insns as records | operators |
| `Copies` (on `Ir`) | copy propagation, value numbering, redundant loads, constant propagation and folding | the tables of each pass | operators |
| `Opt` (on `Copies`) | `opt_early()`: the order of the passes and the passes they call in turn; `kill`, webs, delayed scheduling, loop-invariant code motion | `graph`: the blocks; `todo`: the passes still to come, innermost first; `changed`: the flag of `prop.c` | one action per pass |
| `Tree`, `Expr` | types, layout of structs and bit-fields, expression trees; the expression parser, folding and simplification | a tree is a record | operators, one per function |
| `Gen` (on `Expr`) | casts, bit-fields, sign and sums on trees (`tree_opt()`), insns of trees (`gen.c`), variables in memory (`dealias.c`), switches as compares (`switch.c`) | the function being made: graph, current block, temporaries | operators |
| `Compile` (on `Gen`) | the statement parser and `function_definition()` | `f`: the function, with its graph and the tokens left; `stage`: the pass that is next | `parse` a statement, `finish`, then one action per pass: `dealias`, `unreach`, `prune`, `nop`, `coal`, `switch_gen`, `opt_post` |
| `Reference` | what C says of a function: types, values, the execution of statements | | operators on the tokens |
| `Token` | `token.c`, `input_tokenize()`; where `lex0()` ends a token | a token: its kind and text | operators |
| `Macro` (on `Token`) | `macro.c`; C's own algorithm with hide sets | the table: a function from names | operators, one per function |
| `Preprocess` (on `Macro`) | `evaluate.c`; `loop()` over text: `replace()`, `parentheses()`, `output()`, `sync()` | `list`: the tokens, evaluated in place; `behind`: the line numbers of `sync()`; `last`: `last_class`; `out`: the output file | `Directive`, `Condition`, `ReadLine`, `Sync`, `Ahead`, `Replace`, `Output`, ... |
| `Cpp` | the main loop, input stack, directives | `input`, `state`: the two stacks; `list`: the tokens; `need_sync`, `line_no` | `GetLine`, `PopFile`, `Conditional`, `Include`, `Line`, `Text`, `Emit`, `Ahead`, `Args`, ... |
| `CppLex` (on `Cpp`) | the line markers as `lex()` reads them, the string literals that `strlit()` joins | `error_line_no`, `error_path`, `bol`; `lit`: `strlit()` is under way, for a token or for the path of a marker; the output of the one is the input of the other | one per kind of token; `Literal`, `Between`: the loop of `strlit()`; `EndLiteral`, `EndMarker`: what `lex()` does after it |
| `Driver` | `cc.c` | `temps`, `ld`: its lists; `disk`: the files | `Take`, `Stage`, `StageFails`, `Link`, `LinkFails`, `Done` |
| `Heap` | `malloc.c`, `brk()` | the buckets, the regions with their headers | operators, one per function |
| `Stdio` | `libc/stdio`: buffers, modes, positions | a `FILE` as a record, the file, the descriptors | operators, one per function |
| `Stream` | a stream that has no buffer, and loses what an error takes | the file and the place in it | the abstract specification |
| `Text` | strings, memory, sorting, numbers, options, calendar and time zones | memory as a sequence | operators, one per function |
| `Format` | `vfprintf()` and `vfscanf()` on strings, without the conversion of numbers with a point | a directive is a record | operators |
| `Libc` (on these) | a program that calls the library | `w`: heap, descriptors, streams; what the program holds and has seen | one per call of the program |

`LiveProofs`, `LoopProofs`, `DeadProofs`, `AllocProofs`, `BlockProofs`, `CppProofs`,
`DriverProofs` and `LibcProofs` hold the theorems. `AllocMC`, `CompileMC`, `CppMC`, `DeadMC`,
`LibcMC`, `OptMC`, `PreprocessMC` and `TestzMC` hold the values of constants for
the runs. Composition: `CppLex` joins preprocessor and lexer; `Dead` starts from
and returns to `LiveRanges`; `Loop` runs `Dom` first; `Alloc` hands the graph it
has coalesced to `Graph`; `Compile` and `Opt` work on the graphs of `Block` with the
insns of `Ir`, whose run of a graph tells what each pass must keep; `Libc` gives
`Stdio` its buffers from `Heap`, and `BuffersDoNotShow` says that it implements
`Stream`. The component modules also hold, before the definition they concern,
some operators whose comment begins with "Fault": plausible mistakes, used only
to see that the properties notice them.

What is abstracted everywhere: lists whose order is never observed are sets; in
`Live`, `LiveRanges`, `Dead` and `Graph` an instruction is what it does to
registers and condition codes; floating types are left out; memory allocation in
the compiler succeeds, as `safe_malloc()` ends the program otherwise.

## Runs

| run | instance | shows |
|---|---|---|
| `live` | every graph of 3 blocks, any successors, any DEF and USE of a register | the loop returns with exactly the live registers and implements `Liveness` |
| `loop` | every graph of 4 blocks as `unreach()` leaves it | dominators as paths define them; exact natural loops; inner loops are deeper; both analyses end |
| `dead` | every block of 4 instructions of 7 kinds, every LIVE OUT, 2 registers and the condition codes | exact ranges and interference; the ranges stay pessimistic while they are updated; `dead()` kills exactly what is useless and returns |
| `alloc` | every graph of 4 pseudo registers and a machine register, every two copies, 2 colours | the list is sorted after each edge that is added or removed; in every round of coalescing the graph is that of the merged registers, a simple graph stays simple; then proper colours (in `IInv`), unavoidable spills only |
| `cpp` | every input of 6 lines in 2 files | what is copied, and that every token is located where it was read, but for the path after divergence 23 |
| `macro` | every 2 of 10 definitions, every text of 4 of 7 pieces (a newline is one), every expression of up to 3 operators | replacement as C's algorithm does it; the written text read back; the values of conditions |
| `driver` | every command line of up to 3 files of 3 names, every goal, any failure | clean-up, delivery, link order, the user's files kept |
| `compile` | some 8500 functions: every operator on operands of every kind, casts of casts, assignments to every kind of object, every small graph of gotos, every small switch by both strategies, loops in loops, calls, structs, bit-fields, what C rejects | what is rejected; types; edge lists and condition codes after every step; the code does what C says after every pass |
| `testz` | every block of up to 4 of the instructions each pass is about, 2 registers of 2 bits | the effect of the block is kept at each step; the rounds end |
| `opt` | functions of five shapes (straight, an if, a loop, nested loops, a switch) with every choice of statements in their holes | the same calls, volatile accesses, result and memory after every pass; the calls of the passes end |
| `opt_copy` | one function of three statements | copy propagation uses a copy that no longer holds (optimizer 1 below) |
| `libc` | up to 5 calls, memory that ends anywhere, reads and writes short or failing, every mode and kind of buffer; small arguments of the other functions | disjoint regions whose data are kept; a buffer that cannot be told; prompts written before input is awaited, unless an error of stdout tells of a loss; conversions |

**Why these bounds.** The registers of the data flow equations do not interact,
so `live` needs one. Three blocks have loops, loops in loops, self loops and
blocks that end nowhere, four (`loop`) also two heads that share blocks,
several back edges to one head and irreducible loops; the theorems cover any
number. An instruction is told from others by its position relative to a def, a
use and the ends of the block, so four of them meet every case of `live.c`, and
`dead()` needs a chain of three to require a second scan; the theorems cover
any number. In `testz` two registers and four instructions allow a comparison,
its use, a copy and an instruction that disturbs either; with two bits there are
a zero, a positive and two negative values. Four nodes and two colours make
`alloc` both spill and simplify; two copies make the second depend on the first.
In `cpp` six lines hold a group with two alternatives inside an included file,
or a macro call over four lines; `SYNC_WINDOW` is reduced so that both ways of
`sync()` are taken within them. The definitions of `macro` hold every relation
between two macros (one in the other's list, a name in its own list, a call
begun by one and ended in the text), `#`, `##` at either end and an empty list;
four pieces begin a call on one line and end it on the third, or nest two calls.
Numbers are 4 bits wide so that operations overflow. In `driver` three files
include the same base name twice and a file that fails after two that did not.
In `compile` a byte has two bits and the types 2, 4, 6 and 8, so that every
conversion between sizes and signs occurs with values that do not fit; bit-fields
cross and fill units; `SWITCH_SMALL` (12 in the code) is 1 or 12, so that a small
switch is made by either strategy; a function
whose reference takes more than `Rounds` turns, or whose code goes through more
than `MaxBlocks` blocks, must do so in both, with calls that agree as far as
they were followed. In `opt` the holes of a shape are
filled with statements one of which can disturb another (a copy, its source
redefined, a store between two loads, a call), with three inputs that take
either branch; `MaxCalls` is several times what any of them needs, so that a run
that does not end would be seen. In `libc` a page holds one or two regions, a
buffer three characters and a file six, so that five calls fill, split and flush
each, and a flush may write only a part of what is pending; numbers of 5 bits overflow with two digits.

**Inputs are restricted to what the program can meet.** `Dom` starts from
graphs without unreachable blocks; `Testz` from code in which every use of the
condition codes follows its definition, as the generator emits it, and in
`middle` with ANDs whose result is not live out (divergence 1); its `late`
instructions leave out a shift by a register (divergence 5), and what a tied
definition could overwrite. `Cpp` carries out an `#include` in a skipped group
as the code does (divergence 2), and `CopiesActive` is about which lines are
copied, in whatever file they are.
`StaysSimple` is about graphs without edges to machine registers. `InputsKept`
is about command lines whose names differ in more than the extension
(divergence 11). `PreprocessMC!Acyclic` leaves out macros that are reached from
themselves through another one (divergence 15). `Readable` is not about names
left alone in their own expansion (divergence 18), `ExpandsAsC` compares texts
of literals on several lines by their words (divergence 19), and `EvaluatesAsC`
is about conditions all of whose parts have a value and no constant of which is
unsigned (`NoValue`, divergences 20 and 24). `Located` leaves the path open where
`strlit()` has joined a marker with a literal (divergence 23). The functions of `compile` leave out the forms of
"Front end" below, what C leaves undefined, and signed overflow; those of `opt`
what "Optimizer" below says except where the property holds all the same. The
programs of `Libc` obey the standard: no call on a closed stream, a positioning
between reading and writing, regions freed once.

**CHECK_DEADLOCK is off in all runs:** every model is of a call or process that
returns, and a state in which it has returned has no successor.

**Fairness.** `WF_vars(Next)` where a run checks that something ends, and only
there: the code is sequential, and a process that is not blocked takes its next
step. Nothing else is assumed fair; in particular no input ever has to occur.

## Proofs

Checked by TLAPS, for every value of the constants, from the named assumptions
of the modules only: there is at least one block (`Live`, `Dom`); the registers
of a block, and the nodes of the interference graph, are finitely many and a
colour is a machine register; a line has the fields of its kind; `a.out` is not
the name of an intermediate file. Of the library (`HeapAssumption`,
`StdioAssumption`, `LibcAssumption`): sizes are numbers and not 0, the smallest
region holds its header (`malloc.c:55` has 32 bytes, the header 8), there
are at least the two streams that are open at the start, and texts are of
characters.

* `LiveProofs`: `IInv` says that what is in the sets can be justified from the
  sets of the moment (`Justified`), that it is in every solution of the equations
  (`Least`), and that the blocks a pass has visited satisfy their equations as
  long as the pass changed nothing (`QuietPass`). `Solved` alone is not
  inductive: it speaks of the moment of return, and only `QuietPass` connects
  that with the visits before it. `Least` gives one half of `Exact` with the
  certificate `NotNeeded` turned into a solution that lacks the register, and
  `Solved` the other, with the blocks that lack it as the certificate.
  `Growing` follows from `Justified`. `LiveImplements` maps each step to one of
  `Liveness`, or to none: the registers some path reads are a solution of the
  equations (a path with a transparent block put before it is a path again, or
  holds a shorter one), so that `Least` keeps the sets within them; and a path
  cannot leave the blocks that lack the register at the end.
* `LoopProofs`, first part: `dom_analyze()` has the same shape, with sets that
  shrink (`Shrinking`). The code compares sizes only; `Shrinking` and finiteness
  make that an equality of sets, the lemma on which `QuietPass` rests. `Greatest`
  says that no dominator is ever lost: a block behind a fence around `a` keeps
  `a`. `Dominance` then speaks of paths: the blocks reached without `a` are the
  complement of a fence.
* `LoopProofs`, second part: a natural loop is the least set that holds its edge
  and is closed under predecessors up to the head. `Flooding` says that the set
  of the flood is inside it and that a block whose predecessors are not all in
  the set is still on the stack, so that with an empty stack both are equal.
  `LoopsNested` needs of dominance that it is a partial order in which the
  dominators of one block form a chain: of two heads whose loops share a block
  one dominates the other, and the whole loop of the dominated one is flooded
  with it.
* `DeadProofs`: `RangesIInv` says, for each place `live_analyze_local()` has got
  to, that the list holds the ranges of the code before it (`RangesOf`) and none
  else; the two later phases add what the branch reads and what is live out. For
  `dead()` the list is not exact any more once something is killed.
  `DeadIInv` therefore holds on to three things. `Covers`: every true range of
  the code as it is now lies in one of the list, which makes what is killed
  useless. `Tight`: until `invalidated`, a range of the list that has uses ends
  at a true use, which makes what is useless be found. `Remains`: the code is
  the first code with some instructions gone, and those are `Useless`: they write
  nothing that is live out or that an instruction outside of them reads. A set
  of useless instructions, and not one at a time, is what has to be spoken of,
  since an instruction may be read by others that are useless themselves.
* `AllocProofs`, first part, about `Graph`: `HalfEdges` says exactly which half edges exist: those between
  nodes in the graph, and those a node on the stack has kept, to nodes in the
  graph or pushed after it. With `Placed` it makes reconnecting in reverse order
  exact, so that a node sees all its coloured neighbours and `Proper` follows.
  `SpillsBlocked` is the same at the moment of the pop. `SpillsNeeded` has a
  spilled node `Justified` by a set of nodes that contains it and in which each
  has at least as many neighbours as it has colours (or is a machine register),
  and this is kept while nodes outside of the set leave the graph.
* `AllocProofs`, second part: `AInv` says what the graph is at every edge. `Interferes(x)` is
  computed from the interference of the round and the names the registers have
  now; `BuildOK`, `MergeOK` and `RemoveOK` give the edges while a loop of
  `interf0()`, `graph_merge()` or `graph_remove_node()` is under way as a
  difference from it, in terms of the edges the loop has still to see, and
  `EarlyOK` says that between merges there is none. `MergesOK` (registers that
  interfere never get one name, nor registers of different classes) is what
  makes the edges of the survivor mutual and keeps it from being its own
  neighbour. `InOrder` is kept because a list in order but for one node is in
  order once that node has moved past those it must pass (`MovedUp`,
  `MovedDown`). For `StaysSimple`, let a set of registers be one
  in which each has as many neighbours as colours after the merge. If the
  survivor is in it, each of its neighbours there had a high degree already,
  since renaming adds no neighbour, and the test of `early0()` has found fewer
  of those than there are colours. If it is not, the set was such a set before.
  This needs interference to be within a class (`MergesOK`), since the test
  compares all degrees with the number of colours of one register.
* `CppProofs`: `Paired` puts the stack of states beside that of the groups of the
  language; `CopiesActive` is a relation between each state and what it was
  derived from. `LinesRight` needs to know what the lexer will make of output
  that is written later: `Foreseen` follows the lexer over the output so far and
  says that from its end on it stands where `cpp` believes it to be, unless
  `need_sync` is set. In a path or a literal the lexer is ahead of that by what
  `strlit()` has counted (`Follows`).
* `BlockProofs`: the graph is not that of one run but any record of lists of
  cessors and counts of predecessors. `Linked`, `Rested`, `Closed` and `Decided`
  are the formulas of which `PredecessorsMatch` and `SuccessorsDecide` are made;
  `Whole` is all four, and a graph of the run `compile` is that from `unreach()`
  on. An edit of one block is described once (`Edited`: its new
  successors and control, predecessors that count them, nothing else), and each
  operation is shown to be one; edits compose, so that
  `block_redirect_successors()` with the coalescing at its end is one as well.
  Sorting is stated by ranks: a list arranged by an order whose down-sets have
  the sizes 1 to n has each member once. Merging cases is a loop, with
  `Passed(o, s, i)` as its invariant: what is put together so far sends each
  value where the first i cases do, and ends where the last of them ends. The
  loop over the list of blocks has `Turning`: the blocks seen so far lead to the
  new block for the old one. Both loops are recursive functions and the
  induction is that of `LibcProofs`, below. `BypassKeeps`, `TakeInKeeps` and
  `PreheaderKeeps` put the pieces together: whatever the operation does to the
  edges, each block leads where it led, for every outcome of a comparison and
  every controlling value, and a block that is freed is not led to. The
  exception of `TakeInKeeps`, a successor that is a switch, is divergence 13.
  These are theorems about operations; that the passes and the parser apply
  nothing else to a graph is what the runs `compile` and `opt` check.
* `LibcProofs`: `HeapOK` gives every region that was ever made a class, its bucket
  for good, so that regions of their classes' sizes are apart, each that is in a
  bucket is there once and in the bucket of its class, and the header of one in
  use says that class. `Disjoint` alone is not inductive: `free()` finds the
  bucket in the header and `malloc()` takes whatever the bucket has. `Sound` says
  of the streams that each FILE of the table is on an open descriptor of its own
  (`Places`) and that the memory in use is exactly that of the program, of the
  FILEs and of the buffers they have from the library, no two of them the same
  (`Owns`). The proof follows the code: a system call, and each call that only
  moves bytes, is `Quiet` (heap, table and what the descriptors are on stay); one
  that may flush another stream or get a buffer is `Kept`; `fopen()` and
  `fclose()` add and remove one FILE with all it owns, on every path, also when
  the descriptor, the FILE or the flush fails. Calls that go byte by byte are
  recursive functions over the length; what they keep is shown with an induction
  that needs no operator: a set of numbers that is not empty has a least one
  (`LeastNat`, from the well-foundedness of the subsets of finite sets), and so a
  set that holds 0 and with each number the next holds all up to a bound (`UpTo`).
* `DriverProofs`: `Tidy` and `Kept` say of the file in work, the list of
  temporary files and the linker's list where each file of the disk is
  accounted for at every stage; the cases of the switch fall through, and so the
  proof goes from stage to stage with what each leaves behind.

| theorem | property | holds for every |
|---|---|---|
| `LiveInvariant`, `LiveSolved`, `LiveExact`, `LiveGrowing`, `LiveImplements` | `IInv`, `Exact`, `ImplementsLiveness` but its fairness | flow graph, any registers |
| `DomInvariant`, `DomSolved`, `DomExact`, `DomDominance` | `Dominance` | flow graph whose blocks can be reached |
| `LoopInvariant`, `LoopsFound`, `LoopsNested` | `LoopIInv`, `LoopBodies`, `InnerIsDeeper` | the same |
| `RangesRight`, `InterfRight` | `RangesExact`, `InterfExact` | block of any length, any registers |
| `KilledAreUseless`, `StaleButUsable`, `UselessAreKilled` | `KillsOnlyUseless`, `Pessimistic`, `KillsAllUseless` | the same |
| `GraphInvariant`, `GraphProper`, `GraphHalfEdges`, `SpillsBlocked`, `SpillsNeeded` | `IInv`, `SpilledIsBlocked`, `NoNeedlessSpill` | interference graph, any classes, colours, costs |
| `AllocInvariant`, `AllocCoalesced`, `AllocStaysSimple`, `AllocGraph`, `AllocSpills` | `Coalesced`, `StaysSimple`, `IInv`, and both of spills | the same, any copies, any number of rounds |
| `CopiesRight`, `LinesRight` | `CopiesActive`, `Located` | sequence of lines, nesting of files, `SYNC_WINDOW` |
| `DriverInvariant`, `DriverCleans`, `DriverDelivers`, `DriverKeepsInputs` | `Cleaned`, `Delivered`, `InputsKept` | command line, goal, failure |
| `EditsKeepLinked`, `EditsKeepWays`, `CoalesceKeepsCases`, `WholeLeads` | the parts of `PredecessorsMatch` and `SuccessorsDecide`, for one edit | graph of blocks, cases and ranges in any order |
| `BypassKeeps`, `TakeInKeeps`, `PreheaderKeeps` | the same, for pruning, merging and preheaders | graph that is `Whole` |
| `LibcInvariant`, `LibcDisjoint`, `LibcOwned` | `Disjoint`, `Owned` | sizes of page, header, region and buffer, number of buckets and of streams, contents, outcome of the system calls |

Each invariant was checked by TLC before it was proved; `IInv` of `Live` and
`Graph` and `LoopIInv` are properties of runs.

**Only model-checked.** Termination (`LoopTerminates`, `Terminates`,
`EndsEventually`, `ComesToAnEnd`): liveness is beyond the prover. Of
`ImplementsLiveness`, the fairness (`LiveImplements` is the rest). What the text
of macros, an expression or a function computes (`ExpandsAsC`, `Readable`,
`EvaluatesAsC`, `ComputesAsC`, `TypedAsC`, `SameEffect`, `EffectKept`), with
`PredecessorsMatch` and `SuccessorsDecide` for whole functions: they are built
from recursive operators over trees and lists of tokens, in which the prover's
arithmetic is not available, and the induction would be over their structure.
For each edit of the graph the two are theorems (`BlockProofs`).
What a call of the library returns (`Computes`, `BuffersDoNotShow`, `Prompted`):
`LibInv` speaks of what a stream owns and not of its bytes.

## Divergences

One is shown by a run of its own, `opt_copy`. The others were found while
modelling, by reading and by model checking; the models contain the code's
behaviour, or leave the input out where it says so above.

1. `testz_middle()` turns an AND into a TEST although a later block reads its
   result: the ranges of `live_analyze_ccs()` know nothing of what is live out
   (`cc1/testz.c:197,218`).
2. `#include` and `#line` are carried out in skipped groups
   (`cpp/directive.c:269,283`).
3. `do_elif()` after a group that was true leaves the expression in the list,
   which is then reported as trailing garbage (`cpp/directive.c:155`).
4. `live_ccs()` asks for the conditions used by the instruction that sets the
   codes, not by the one that uses them (`cc1/live.c:415`); `testz_late()` can
   so remove a comparison that a SETG needs.
5. `amd64_insn_defs_z()` says that a shift by `%cl` sets Z; with a count of zero
   the processor leaves it (`cc1/amd64/insn.c:574`).
6. `live_kill_insn()` returns TRUE also where its comment says that the data are
   no longer exact (`cc1/live.c:384`); the data stay pessimistic, and `dead()`
   still finds everything (both are theorems).
7. `graph_pick()` looks at the one uncoloured node of lowest degree, whatever
   its class; with classes of 12 and 14 colours a float register may be spilled
   although it could have been simplified away (`cc1/graph.c:551`).
   `NoNeedlessSpill` is about the class with the fewest colours.
8. `early0()` counts degrees as if machine registers could be simplified away, so
   that a merge with one of them can make a spill necessary
   (`cc1/graph.c:444,477`). `later0()` never merges anything: it wants both ends
   coloured, and while nodes are picked only machine registers are.
9. The file name of `#line` is kept with its quotes and quoted again in the next
   marker, which `lex()` rejects (`cpp/directive.c:189`); `#pragma` is passed
   through and rejected too (`cpp/directive.c:262`, `cc1/lex.c:461`).
10. `type()` knows library files, `main()` has no case for them: `cc x.c libfoo.a`
    does not link the library and says nothing (`cc.c:379`).
11. Intermediate files have the name of the source, with another extension: a
    file of the user of that name is overwritten and removed (`cc.c:352`).
12. `block_switch_coalesce()` merges adjacent ranges in pairs only, so that of
    three two remain (`cc1/block.c:224`).
13. `block_dup_successors()` copies a switch without the ranges of its cases
    (`cc1/block.c:545`), which matters when `coal` merges two blocks.
14. `unreach0()` frees a block while others, not yet freed, still lead to it, and
    the predecessor list of the freed block is walked later (`cc1/opt.c:48`).
15. Two macros that expand to each other, or to calls of each other, are replaced
    for ever: a name is disabled only in its own replacement
    (`cpp/macro.c:513,527`).
16. `token_scan()` asks whether the point is a digit, not what follows it: `.5`
    becomes `. 5`, which `cc1` does not parse (`cpp/token.c:328`).
17. `token_separate()` knows nothing of the sign after an exponent: with
    `#define X 0x1e`, `X+5` is written `0x1e+5`, one malformed number
    (`cpp/token.c:204`).
18. A name left alone in its own expansion is of class OTHER and merges with what
    follows: with `#define f f` and `#define g(a) a`, `g(f)x` is written `fx`
    (`cpp/token.c:696`, `cpp/cpp.c:186`).
19. A newline among the arguments of a call leaves no space: `#` makes "ab" of
    `a` and `b` on two lines (`cpp/cpp.c:101`).
20. `evaluate()` computes both operands of `&&`, `||` and `?:`, so that
    `1 || 1/0` is an error (`cpp/evaluate.c:125,260`). A constant that no long
    holds is taken for a negative one (`cpp/token.c:128`).
21. `#` is an operator in the replacement list of any macro, not only of those
    with arguments (`cpp/token.c:640`); `#define n( ) 1` is a syntax error
    (`cpp/macro.c:193`); `g(1,)` is a call with one argument (`cpp/macro.c:373`).
22. `__DATE__` and `__TIME__` share a case: harmless, as the list of the first is
    not empty when the second is reached (`cpp/macro.c:132-146`).
23. `strlit()` goes on over newlines as long as a string literal follows
    (`cc1/lex.c:170-174`), also when it is called for the path of a line marker: a
    literal that begins the text after the marker is lost, and becomes part of
    the path that errors name. If anything but a newline comes after it, the
    marker is a "malformed directive" (`cc1/lex.c:461`).
24. `token_convert_number()` looks at a suffix `U` and does not step over it, so
    that every constant with one is a "malformed integer constant", and no
    constant is unsigned (`cpp/token.c:124-126`).

**Front end** (forms that the functions of `compile` leave out):

1. A comparison of constants is folded as one of ints: `0xFFFFFFFFFFFFFFFFUL > 1`
   is 0; floating constants are compared by their bits.
2. A compound assignment converts the right side to the type of the left before
   it operates: `unsigned char c; c /= 300`, `int x; x /= 2u`, `int i; i *= 0.5`
   (`cc1/expr.c:363`).
3. The value of `p->b = 0` or `p->b = -1` for a bit-field `b` is the whole word
   (`cc1/field.c:128-135`).
4. `c ? 0 : p` with a pointer `p` is rejected, and so are `p || v` with pointers
   of different types (`cc1/expr.c:309`), `1[a]` with an array `a`, and `sizeof x`
   without parentheses; `sizeof` of a bit-field is accepted.
5. A struct that is the value of an assignment or a conditional ends the compiler:
   `(c ? s : t).a`, `(s = t).a`, `s = t = u`, `s = c ? t : u`.
6. `(long) (unsigned) c` with a signed char `c` extends the sign (`cc1/cast.c`).
7. `g() < 0` with an unsigned function `g` drops the call (`cc1/sign.c`).
8. The control of `switch (x)` is not loaded when `x` lives in memory
   (`cc1/dealias.c:124`).
9. `c && ({ x(); 1; })` calls `x()` whatever `c` is.
10. `*v` of an array `v` is simplified to `v` itself, for which no instruction can
    be chosen.

**Optimizer** (1 is the run `opt_copy`; the functions of `opt` do not meet the
others):

1. `local()` enters a copy without invalidating what the copy overwrites
   (`cc1/copy.c:84-86`).
2. Value numbering makes a MOVE from the register an earlier instruction defined
   although it may have been redefined since (`cc1/slvn.c:201-206`), and keeps
   what an `asm` defines; of several matches it takes the newest, where the
   comment says the oldest.
3. `load.c:71` removes a volatile load after a store to the same address.
4. Loads and divisions are moved out of loops that may not execute them at all
   (`cc1/loop.c`).
5. `prop()` and `fold()` call one another for ever on
   `int f(int c, int x) { if (c) x = 0; while (x == 0); return x; }`.
6. In `prop.c` a floating zero counts as false by its bits: `-0.0` does not.
7. `unique_def()` looks for a use before the definition in a set that it never
   fills (`cc1/loop.c:217-229`): a definition may be moved out of a loop past a
   use of the value of the iteration before. As it is the only definition of its
   web, only a program that reads a variable it has not set can tell.

**Library:**

1. `free(NULL)` reads before address 0; `malloc()` of nearly `SIZE_MAX` wraps
   around; regions need not begin on page boundaries, although the comment says
   so (`libc/malloc.c:66`).
2. `fflush()` calls `write()` once (`fflush.c:93`), where `do_write()` loops
   "because posix permits partial writes to return" (`__flushbuf.c:36`): what a
   short write leaves is dropped, and `_IOERR` set, also for the flush of stdout
   before input is read. `Prompted` holds until then; `rewind()` clears the error of its own flush; `exit()`
   cannot report any.
3. `fflush()` does not clear `_IOWRITING` of an unbuffered `+` stream; `fseek()`
   from the current place and `fflush()` ignore a character pushed back on an
   unbuffered stream; `setvbuf(fp, buf, _IONBF, n)` with a buffer loses the
   place; `ftell()` of a stream that appends is wrong before it is flushed;
   `ungetc()` leaves `_IOEOF`, and on a fresh stream uses `_ptr` before it is
   set.
4. In `fopen()` `flags | _IOREAD` is always true; a descriptor of `FOPEN_MAX` or
   more is used as an index.
5. `sprintf()` returns a count that was not initialized; `%u`, `%x` and `%o` of
   an int extend its sign; `%#x` of 0 has a prefix, `%#o` with a precision one 0
   too many, and `%05.0d` of 0 prints zeros. The size `z` sets `c`, which is
   overwritten at once, and not `longflag`: `%zu` takes an int or a long as the
   conversion before did, and as chance has it if there is none (`vfprintf.c:154`).
6. `%i` of `017` is 17; `%d` of `-x` stores 0; a number of 128 characters leaves
   no room for its end (`vfscanf.c`); `sscanf("", ...)` returns 0.
7. `strtol()` reports a range error for `LONG_MIN`; `%w` and `%W` of
   `strftime()` are exchanged and `%x` is wrong from 2000 on; `nthday()` goes
   wrong for the last such day of some months (`ctime.c:125`); a year divisible
   by 4000 is no leap year. An absolute date in `TIMEZONE`, whose days are "from 1
   to n" (`ctime.c:43`), is taken for the day before it, since 1 is subtracted as
   from a day of the week (`ctime.c:112,183`). `gmtime()` leaves `tm_isdst` as
   `localtime()` set it, so that `%z` of a time in GMT names the local zone.

## Not modelled

Comments, continuation lines and options of the preprocessor; declarators,
declarations, initializers and scopes; old-style prototypes; floating types;
costs and spill code after the colours; instruction selection and the peephole
passes of the back end; the order in which blocks are output, and output itself.
These map one tree or instruction to another without state, where a model would
repeat the code, or are pure input and output; what is stateful among them
(scopes, spilling) is the first that could be added.

## Plan

What could be proved next, in this order:

1. `BuffersDoNotShow` as a refinement of `Stream`, from `LibInv` and one more
   conjunct: the bytes of a FILE, put at its place, are those of the file.
2. Of the clean-up passes, that the run of a graph (`Behaviour`) is kept, from
   `BypassKeeps` and `TakeInKeeps`; it needs the run of a graph as a relation
   between states instead of the recursive operators of `Ir`.

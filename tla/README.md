# TLA+ specifications of ucas-cplab

The repository is an optimising compiler for a small C-like language (CACT): a
front end, an SSA intermediate representation with analyses and
transformations, a register allocator, an RV64 back end, and virtual machines
for the intermediate representation (IR) and for RV64. It is sequential code.
What is hard in it is not concurrency but order: worklists whose elements change
lists while they wait, fixpoint iterations, copies that overwrite what later
copies read, facts about a function that one pass computes and a later one
relies on after it has changed the function, and word widths at their ends.

These modules state what the parts promise and check it on small inputs; for
those that are written loop by loop, and for the use-def graph, theorems say the
same for inputs of any size. Paths below are
relative to the repository; `B/` is `src/backend/`.

## Inventory

| Component | State it keeps | Operations | What makes it correct |
|---|---|---|---|
| Semantic analysis (`src/frontend/ast/analysis/`) | scope stack, function table, types of nodes | declarations, expressions, statements, functions, main | an accepted program breaks no rule when it runs |
| IR generation (`B/ir/gen/`) | the program under construction, loop stack | expressions, branches, statements, initialisers, functions | total on accepted programs; the IR means the source |
| IR data and use-def observers (`B/ir/block.cpp`, `func.cpp`, `program.cpp`, `analysis/usedef.*`) | blocks, instructions, def and use sites by address | insert, replace, erase, set exit, add and remove blocks, rename | never a site that does not exist, never one missing |
| Data-flow framework (`B/ir/analysis/dataflow/framework.hpp`) | in and out of every block, changed flag | solve | the right fixpoint, reached in finite time |
| Dominance (`dataflow/dominance.hpp`, `B/ir/analysis/dominance.hpp`, `cfg.hpp`) | dominator sets, tree, frontiers | solve, build tree, build frontiers | the sets, tree and frontiers that paths define |
| Liveness (`dataflow/liveness.hpp`, `utils.hpp`) | gen, kill, phi uses | init, solve | live exactly where some path still reads |
| SSA construction (`B/ir/transform/ssa/construct.hpp`) | phi worklist, version counters, version stacks | add phis, rename | every use reads what it read before; one definition per version |
| SSA optimisations (`B/ir/transform/optim/`) | the program; value tables, copy maps | fold, propagate, number, reduce, drop, simplify, inline | executions kept, SSA form kept, the fixpoint is reached |
| SSA destruction (`B/ir/transform/ssa/destruct.hpp`) | copies that wait or are ready, where each source is now | split critical edges, schedule copies, legalize | the copies of an edge do what its phis do at once |
| Allocation loop (`B/ir/lowering/regalloc/main.hpp`, `graph.hpp`, `spill.hpp`, `reg2mem.hpp`, `precolorize.hpp`) | the program, rewritten after each colouring | precolour, build the graph, colour, spill, replace | executions kept under the calling convention; the loop can end |
| Briggs allocator (`regalloc/colorize.hpp`, `graph.hpp`) | interference edges, moves, degrees, aliases; nine node lists, five move lists; the colours | initialize, simplify, coalesce, freeze, spill, assign_colors | values live together get different registers; every value is answered; it returns (it does not always, see below) |
| Calling convention (`B/ir/lowering/abi.hpp`, `precolorize.hpp`, `B/rv64/isel.hpp`) | registers and argument area at a call; frame slots | assign_call_regs, colorize_param, colorize_call, translate_call, compute_frame | caller and callee agree on every argument |
| Lowering, instruction selection, peepholes (`B/ir/lowering/`, `B/rv64/`) | frame layout, instruction lists | instruction by instruction | registers, memory and output as on the IR machine; immediates in range |
| IR and RV64 virtual machines (`B/ir/vm/`, `B/rv64/vm/`) | frames, memory, registers | execute | the reference meaning of the two languages |
| Parsers, emission, debugger, option handling, utilities | parse trees, text | | see "Not modelled" |

Passes work one after the other on one `Program`; they call the analyses, which
read it and return tables. ConstructSSA uses dominance frontiers, the dominator
tree and liveness; the allocator builds its graph from liveness, colours it,
spills and starts again; instruction selection uses the colours and the slots.
The use-def chains are the one component with callbacks: blocks tell them of
every change. The hazards, each with its line and the properties that guard it,
are in `PROJECT.json`.

## The modules

The compiler is modelled along its own path, in four compositions, each of which
executes what it produced and compares it with what went in. Besides them, the
algorithms with worklists have modules in which every turn of a loop is a step.

### From source to IR: `Frontend`

**`Semantic`** begins with the types of `type.hpp`, their order, union, sizes and
what can construct what, and is the analysis over AST records: scopes
(`pushScope`, `registerVariable`, `lookup_var`), the typing of expressions
under an upper bound, declarations with initialisers, and `StmtType`, the return
type of a statement with "always returns". **`IrGen`** is the generator:
blocks, temporaries, short circuits (`branch`), `if`, `while` with the loop
stack, assignments through rows of arrays, flat and nested initialisers. A null
`Block*` is block 0, and using it is an error that the state records.
**`CactMeaning`** is the meaning of the source, written from the language that
the analysis accepts and independent of the generator. **`Frontend`** takes the
items of a unit one at a time through analysis (`Analyse`), checks main
(`CheckMain`) and generates (`Generate`).

### From SSA to optimised SSA: `Optimizer`

**`UseDef`** has the program (functions, blocks, instructions with identities,
exits), every mutator of `block.cpp`, `func.cpp` and `program.cpp`, and the
observers they notify: `UseInfo`, `DefInfo` (one site a variable) and
`MultiDefInfo`. **`Observers`** makes these calls, one an action, on any program
and in any order, as a pass may: with a graph of single definitions as long as
the code is in SSA form, with `MultiDefInfo` on any code, and with a graph
built anew at any moment (`Observe`), which is what each pass does when it begins.
**`IRExec`** runs a program as `B/ir/vm/exec.cpp` does: frames,
phis read before they are written, calls, memory, input and output.
**`OptimPasses`** has each pass as an operator on the program and its "changed"
result. **`Optimizer`** is the loop of `compiler.cpp`: one action per pass, in
the driver's order, again until no pass reports a change; copy propagation is
taken apart into one step per replaced variable, in any order, because the code
iterates over a hash map.

### From SSA to coloured code: `BackEnd`

**`DestructSSA`** has SplitCriticalEdge, the copies of an edge and `legalize`.
**`RegAlloc`** has RegToMem, precolouring (registers as variables, arguments and
results of calls, return values, callee-saved registers), liveness over
precoloured code, `InterfereGraph::build`, spilling and register replacement.
**`BackEnd`** runs them in order. The colouring is not computed a second time:
`Colorings` are the assignments that `BriggsAllocator` may return, when it does, by what is
checked and proved of it (`ProperColoring`, `SafeMovesJoined`), and `Spill`
takes any one value. From precolouring on, calls destroy every register they may
destroy, and callee-saved registers hold a mark that has to be there at the end.

### From coloured IR to RV64: `Codegen`

**`Words`** has words of a chosen byte width. **`IRMachine`** is the meaning of
one IR instruction with its types, **`RV64Machine`** that of one RV64
instruction. **`Lowering`** has the address, proxy and array lowering, the
registers of calls, the widening of definitions and the last constant folding;
**`Isel`** the translations of `isel.hpp`, frame layout and prologue;
**`Codegen`** has the window rules and label elimination; it lowers,
selects, optimises until nothing changes, and steps the RV64 machine; the IR
machine has run on the same memory.

### Loops as steps

**`BriggsAllocator`** models `BriggsAllocator::colorize` with every
`InterfereGraph` operation it calls. One action is one turn of the loop:
`Simplify`, `Coalesce` (by case: ends already merged, constrained, mergeable,
scheduled for later, a move that has lost its entry), `Freeze`, `Spill`, then
`AssignColor` for the select stack and `Finish` for the coalesced values. The
lists are kept as in the code: `loc` and `mloc` say which list holds a node or a
move, `order` the order of the `push_back` calls for nodes. Of the lists of
moves the code reads one only, `moves.ready`, which is kept as the sequence of
its elements. `replace` in `merge()` may give a move an entry while it has one:
`move_locations` then points to the new list element, and the old one stays in
its list. Such an element is a *stray* (`Orphan`); `relocate()`, called for the
front of the list, takes out the element that `move_locations` points to
(`Unlink`), which is then another one, or throws. `degree` is a `size_t` and
wraps (`SizeMod`). An exception of `move_locations.at` is the phase "throw". The
spill heuristic is any choice from the list.
`TurnsAdvance` says when the loop ends and when it does not, as a property of
single steps. Without a stray, a turn coalesces a value for good, or is done with
a move, or takes a node out of the graph, or lets a ready move wait, or gives a
node up, each without undoing what comes before it in this list; what comes
after may be undone. With a stray, the next state has one too, and the loop goes
on or throws.

**`ScheduleCopy`** models `ReplacePhi::schedule_copy`: the split into ready
and waiting copies, the inner loop that takes the last ready copy, and the
temporary that breaks a cycle. **`ParallelAssign`** is the promise: what
`VirtualMachine::execute` does with the phis on an edge, all reads before all
writes, in one step. `AssignsInParallel` is the refinement.

**`DataFlow`** models `DataFlow::solve` with a trait's functions as operator
constants: sweeps in block order, in place, until a sweep changes nothing.
**`Dominance`** and **`Liveness`** instantiate it. `Dominance` goes on with
the constructors of `DominanceTree` and `DominanceFrontier`, including the
exception on the universe that unreachable blocks keep. **`FlowGraph`** has the
graph and the reference definitions of dominance, immediate dominance and
frontier, by closed sets of blocks: no equation of the code is in them. The
reference of `Liveness` is by paths through the single instructions.

**`Interference`** goes on where `Liveness` ends. `Build`, `BuildInst`, `NextBlock`
and `Reserve` are `InterfereGraph::build`, which reads every block from its end
and joins what an instruction writes to what is live behind it, and what is live
across a call to the registers that calls destroy. `Colorize` is any colouring of
that graph (what `ColoringIsProper` and `ColoringIsAnswered` say of
`BriggsAllocator`), `Home` is `replace` of
`RegisterReplacement`. Then the function runs twice in lock step, with variables and
with registers (`Enter`, `Execute`, `Jump`, `Return`): a call overwrites its
caller-saved registers and the return address, every instruction the registers
that instruction selection keeps for itself, with anything. `ReadsAgree` compares what
the two read.

**`ConstructSSA`** models `AddPhi` and `Rename`. The recursion of rename is
the stack `frames`, so that each call, its pushes and its pops are steps. When
it is done the function runs twice in lock step, as written and as renamed, and
every definition writes an arbitrary value; `UsesAgree` compares what they read.

**`CallRegs`** follows the arguments of one call: `MoveArg` for
`colorize_call`, `Call` for `translate_call`, which computes the registers again
from the proxies, and `Receive` for `compute_frame`, `colorize_param` and the
stores that spilling adds at the start of the callee.

The modules whose name begins with `MC` give bounded initial states to TLC
(`SmallPrograms` has the notation for programs); those that end in `Proofs` hold
the theorems. Definitions with a name like `fits_i12_off_by_one`, marked
"Mutant", are plausible errors kept beside the definition they corrupt; each
property is shown to notice one.

## What the runs check

| Run | Instance | Shows |
|---|---|---|
| `frontend` | families of units: loops and arms that leave, functions and returns, `&&` and `\|\|`, scopes, forms of main, all assignments and calls over a set of typed names, 17 initialisers for four shapes | accepted units break no rule when they run, are generated without error, and mean the source |
| `frontend_while` | loop bodies that always leave | expected violation, see below |
| `optimizer` | diamonds, known conditions, loops that swap, repeated expressions and loads, chains of empty blocks, calls | behaviour, SSA form and use-def sites after every pass; the loop of the driver ends |
| `use_def` | two functions and up to three blocks, a phi that names its own block, an instruction with one operand twice; every three calls | the graph is the one that would be built anew; the program stays well formed; replacements reach every occurrence |
| `backend` | swaps, a lost copy, half diamonds, values across calls, loops with calls, globals; three register files | behaviour after every pass, for every proper colouring and every single spill; what spilling introduces can be coloured |
| `codegen` | every operation with operands and constants on both sides of each boundary; branches with and without the peepholes; frames, initialisers, array constants, input and output | registers, memory and output of the two machines agree; immediates fit; frames do not overlap |
| `briggs` | 2 registers with their proxies; 3 values, all edge sets, up to 2 moves or the 3 among the values; 4 values, up to 4 edges, all moves but those of the registers and one | proper colouring, an answer for every value, edges kept by merges, no move lookup fails but that of a stray, safe moves joined; every turn brings the end nearer until there is a stray, which stays |
| `schedule_copy` | 4 variables, a constant, 4 temporaries, every set of copies | the copies implement the parallel assignment, and the loops end |
| `dominance` | all graphs of 4 blocks | dominators, tree and frontiers are exact, also with unreachable blocks; every step brings the end nearer |
| `interference` | all graphs of 3 blocks, one instruction a block, one phi; without phis, half diamonds and loops whose values cross calls, 4 registers | live sets are exact and never too large on the way; with every colouring the code with registers reads what the function with variables reads |
| `construct_ssa` | all graphs of 4 reachable blocks, up to 2 defining blocks, a use at either end of a block | the renamed function reads what the original reads; unique versions; balanced stacks; phis are joins |
| `call_regs` | all signatures of up to 10 integer or floating-point parameters, 8 registers a class, up to 1 spilled parameter where none is on the stack | every parameter has its argument's value |

### Bounds, and why they are enough to be interesting

- `BYTE`, the bits of a byte: 2 in `codegen`, so that an int32 has 8 bits and a
  register 16; 1 elsewhere, an int32 of 4 bits. Overflow, sign extension and
  the difference between the 32-bit and the 64-bit form of an instruction are
  all there. `ILEN = 5` bits of an immediate: 15, 16, -16 and -17 are the last
  that fit and the first that do not, and a frame of six words is already too
  far for an offset. `MemSize` and `StackInit` leave room for one frame, a
  global, an array constant and the literals.
- `Fuel` (instructions and calls of a run of the IR), `SrcFuel` (steps of the
  meaning of the source): larger than any execution of the instances, which
  terminate.
- `MaxRounds`, `MaxTurns` (of the driver's loop and of a pass that repeats
  itself): limits that `Converges` says are not reached. `Threshold` admits
  the callees of the instances to inlining.
- `MaxCalls = 3` in `use_def`: a call that could leave a site behind, a split or
  a new block that moves it, and the replacement that would miss it.
- `MaxSpills = 1`: one value is spilled freely, whatever the heuristic; after
  that the loop has to go on with what it introduced. The register files
  (`Abis`) have 3, 4 and 5 registers: none free across a call, one
  caller-saved more, one callee-saved more.
- Three ordinary values and two proxies give the allocator chains of merges,
  merges into a register, constrained moves, a node simplified twice and real
  spills. Strays need more: two merges that meet a partner merged before, then a
  third that renames a move to one whose entry was left behind. With four values
  that happens where nearly all moves exist: of the 2942 crowded graphs
  (`CrowdedInit`), 428 leave a stray with which the loop never ends and 10 one
  for which `relocate()` throws; the other 2504 are coloured. Compiled and run
  on the same graphs, `colorize.hpp` does the same. Exceptions need six nodes.
  Four copies give a 3-cycle with a tail, two swaps, and fan-out of one
  source. Four blocks give nested loops, irreducible loops, a diamond and
  unreachable cycles; three blocks with a phi give liveness around a loop and
  along one of two edges only. Three values and four registers, one that calls
  destroy, one that they write, one that is reserved and one that is free, give
  values that must be kept across a call and values that may share a register
  because one of them is dead. Ten parameters pass the limit of eight by two, so
  that slots have an order. Renaming and phi placement treat one variable
  independently of the others: `construct_ssa` takes one, and two values to
  tell definitions apart.

`CHECK_DEADLOCK` is off where a behaviour ends by reaching its last phase.

### Known disagreements

`frontend_while` shows one: the generator accepts what `gen` returns for the
body of a `while` without the test that the two arms of an `if` have
(`B/ir/gen/stmt.cpp:113`; lines 94 and 101 test, and `docs/ir.md:159` says that a
null block means that nothing follows). A loop whose body always returns,
breaks or continues is accepted by the analysis and uses a null block.

The other disagreements were met in the same way; they are left out of the
passing instances by the constant `Corner` of an MC module, and setting it to
the name in parentheses shows the counterexample.

- `Frontend`: nested braces mixed with scalars fill other places than the flat
  form, though `type.hpp:657` allows them (`mixed_init`); an array can be
  assigned to an array of the same type because an array is below a slice
  (`type.hpp:544`), and the generator then stores a value it does not have
  (`array_assign`); `break` and `continue` outside a loop are accepted and make
  `Func::currentLoop` throw "No loop context available" (`stray_break`).
- `Optimizer`: constant folding turns a phi into a move in front of other
  phis, and `B/ir/vm/exec.cpp:142` throws "Phi instruction must be at the
  beginning of a block" (`const_phi`); `SimplifyCFG` merges an empty entrance
  with a block that is the head of a loop (`dead_block.hpp:245`,
  `empty_entrance`); a self-copy in unreachable code makes copy propagation
  report a change for ever (`copy_propagation.hpp:24`, `dead_copy`).
- `Codegen`: a constant that does not fit an immediate, on the left of `>` or
  `<=`, is compared the wrong way round, against the comment at
  `isel.hpp:862` (`wide_const_left`); a scalar initialiser far from `sp` uses
  `t1`, which holds a value by then (`isel.hpp:1031`, `far_scalar`); a negated
  32-bit float is negated as a double after its register was widened, while
  `docs/reports/p3/sections/codegen-asm.typ:251` asks for sign injection of its
  own width (`negated_float`).
- `CallRegs`: a `Reference` type takes two entries in the result of
  `assign_call_regs`, which shifts the registers of all later parameters
  (add `"ref"` to `Types`); `compute_frame` recognises stack parameters by
  `reference`, which a spilled register parameter has as well, so that it
  shifts the real ones (`Overflow = TRUE`).
- `BriggsAllocator`: `docs/reports/p3/sections/codegen-ir.typ:518` calls the
  nodes of the simplify list safe to remove and those of the freeze list
  low-degree. `unfreeze` moves a node to the simplify list even from the
  select stack; a node that was never a spill candidate can then be spilled, and
  the degree of a neighbour of a node that is simplified twice wraps below
  zero. The colouring is still proper and complete (`briggs`).
- `BriggsAllocator`: `docs/reports/p3/sections/codegen-ir.typ:510` says that each
  node or move is on one of the worklists and on one only
  ("每个节点或者传送指令在且仅在一个工作列表中"). `colorize.hpp:173-179` puts a move
  on a list a second time when `replace` gives it an entry that it has already,
  and `colorize()` then never returns: it does not end, or
  `move_locations.at` in `relocate()` throws. An example with two registers,
  whose proxies are the values 2 and 6, and no edge but theirs: the moves 1-2,
  1-4, 2-3, 2-4, 2-5, 3-4 lead to an endless loop. In `briggs` such graphs are
  among the instances; `~Strayed` and `phase # "throw"`, as invariants of
  `MCBriggs`, give counterexamples.
- `Liveness`: `docs/dataflow.md:49` wants the global variables as the boundary
  of liveness; the code returns the empty set.

Read in the code and not reproduced by an instance: `emit_store_bytes` and the
constant stack arguments of `translate_call` (`isel.hpp:939`) use offsets that do
not pass through `resolve_addr`; rules 2 and 3 of the peephole pass drop the
compared register although a later block may read it; the phi that inlining
makes for a call without result is dereferenced by `schedule_copy`
(`destruct.hpp:154`) if no pass removes it before.

## Fairness

All the code modelled is sequential and waits for nothing. Weak fairness of the
whole next-state relation says only that a loop that can go on does. It is used
for the termination of `ScheduleCopy`, and no action has fairness of its own: among the
alternatives of `Next` (which element of an unordered set) nothing is promised.

The other loops are bounded by safety properties, which need no fairness.
`TurnsAdvance`, `SweepsAdvance` and `CopiesAdvance` are properties of single steps: every
step of `solve()`, of the constructors and of `schedule_copy()`, and every step of
`colorize()` before `moves.ready` has a stray, makes something finite smaller, in
a fixed order of what counts more; that the loops never get stuck before they
return is what TLC finds by looking for deadlocks. `Converges` and `SpillsSuffice` bound the
rounds of `Optimizer` and `BackEnd`.

## What is proved

The theorems hold for every value of the constants under the named assumptions
of the modules: a finite number of values, blocks and registers, at least one
register, no register pinned twice or passed twice, a positive modulus for
`size_t`. Every safety property of the modules under "Loops as steps" that a run
checks is also a theorem. Some theorems state what no run checks any more
because a stronger property of the same module implies it: `AllocatorTyped`,
`CopiesAreDelivered` and `ProgramsStayWellFormed`; or, for `LivenessAdvances` and
`SchedulingAdvances`, because a proof for every instance leaves a run nothing to add.

An induction theorem whose predicate is a parameter cannot be used here,
but the same induction over a *set* can: `LeastMember` comes from the well-founded
order of the naturals, and `InductionUpTo`, `GreatestMember` and the walks along
sequences follow from it. A `FoldLeft` is handled by exhibiting the function of
its partial results. These facts begin `FlowGraphProofs`; `BriggsProofs` and
`CallRegsProofs`, which know nothing of graphs of blocks, have the few they need.

- **Use-def graph** (`ObserversProofs`). The records are sets of addresses, and
  what the observers see of a program is put in the same form: its *places*, a site
  with its operands, and its *assignments*, a variable with an address. `Good`
  says that the program is one (`IsProgram`), that no address is in two
  positions (`OwnAddresses`), that there is one definition of a variable unless
  the graph knows all (`AssignedOnce`), and that the records are exactly the
  places and assignments (`Recorded`). `GraphExact` is not inductive without the
  other three: erasing the sites of one instruction is only right when no
  other shares its address, and erasing *the* definition of a variable only when
  it has no second. One lemma for each call says which places and assignments
  go and come, and another that the records follow. The hard ones are `split`,
  where what the observers are told in the middle is about a program that does
  not exist, and the replacements, which follow the records to change the
  program. Theorems: `ProgramsStayWellFormed`, `GraphStaysExact`,
  `ReplacementsAreComplete`.
- **Colouring** (`BriggsProofs`). `ColoringInv` says that aliases are
  idempotent and the coalesced list holds exactly the nodes with another
  representative (`Classes`), that the edges stay symmetric and irreflexive
  (`Edges`), that every original edge joins the representatives of its ends
  (`EdgesKept`), that colours exist only for nodes off the stack (`Progress`)
  and that adjacent representatives have different colours (`ProperRoots`).
  `ProperColoring` alone speaks about the end and is not inductive: a merge
  after which an edge were missing would break it many steps later. Moves
  and degrees do not occur in the argument: they decide what is merged and when,
  not whether the result is proper. Every step of the main loop but a merge only
  shuffles worklists (`Shuffle`); `MergeKeepsEdges` is the step that matters.
  Theorems: `ColoringIsProper`, `ColoringIsAnswered`, `CoalescingKeepsEdges`.
- **Moves** (`BriggsProofs`). `MovesTracked` asks that a move of a representative
  has an entry in `move_locations`. A merge looks up both directions, and the
  first loop of `merge()` skips a partner that the destination knows already,
  so that merged nodes stay in the move sets of others. `MovesInv` therefore
  says that entries exist in both directions and partners know each other unless
  one was merged away (`MoveSets`), and that an entry left behind stands for a
  move between the representatives of its ends (`Entries`). The loop itself is
  `Handed`: what holds after the partners up to k, turn by turn (`HandedTurn`).
  That the front of `moves.ready` has an entry unless it is a stray is
  `QueueInv`: a move has an element that is its entry there if and only if
  `move_locations` says so, and one only (`Queued`). Each `replace` and each
  `relocate` keeps this and takes no stray away (`Carried`, `QueueKept`).
  Theorems: `AllocatorTyped`, `MovesStayTracked`.
- **Safe copies** (`BriggsProofs`). The restores of callee-saved registers rely
  on `SafeMovesJoined`, whose hypothesis speaks about the graph as it was built
  and whose conclusion about the last step. Between them `Waiting` holds: the
  copy is on the ready list, so that nothing is frozen or spilled; the value is
  on no list from which it could be removed and is nobody's representative but
  its own; and whatever its neighbours were merged into interferes with the
  register, which is what the George test looks at when the turn of the copy
  comes. `AllocInv` is the conjunction of this with the invariants before it.
  Theorem: `SafeMovesAreJoined`.
- **The turns of `colorize()`** (`BriggsProofs`). That a run ends is a temporal
  property; that every step makes something finite smaller is not, and implies
  it, for a run without strays. The order of the parts of `Advances` is the point: unfreezing brings nodes back
  from the select stack, so the graph may grow when a move is done with, and
  a falling degree makes scheduled moves ready again, so the ready list may grow
  when a node leaves. A merge may do anything to the moves and the lists, since a
  coalesced value never returns. `NextAdvances` shows more than the theorem says:
  no step but the one after the return leaves all variables as they are. It needs
  `QueueInv`: without a stray every element of the list is the entry of a move
  that waits, so the turn of the front is done with it. `NextStrays` is the
  other half: the loop ends on an empty list, which a stray never leaves. That
  the loop never gets stuck is what TLC finds by looking for deadlocks in `briggs`.
  Theorem: `ColorizeAdvances`.
- **Parallel copies** (`ScheduleCopyProofs`). `CopyInv` adds to the checked
  properties that the worklist repeats nothing and destinations are unique
  (`Queued`), and where a pending source can be: in place, in a temporary, or
  in the destination of a copy of it that ran (`Tracked`). Only then is it clear
  that appending a copy overwrites nothing that is still needed. Theorems:
  `SourcesAreSaved`, `ReadyStaysSafe`, `CopiesAreDelivered`, and the refinement
  `ImplementsParallelAssign`. The loops end because a copy that leaves the
  worklist never comes back: each turn leaves fewer copies pending or, where a
  cycle is broken, as many with one less waiting (`SchedulingAdvances`).
- **Dominance** (`FlowGraphProofs`, `DominanceProofs`). `FlowGraphProofs` shows
  from the definition by paths alone that dominance is an order, that the
  dominators of a block form a chain, and that the immediate ones form a tree
  (`TreeInduction`). `FlowInv` says that no dominator is ever lost (`Refuted`)
  and that the blocks behind an unchanging sweep satisfy their equation
  (`Swept`). When solve returns every block does; the blocks whose set
  misses d are then closed along edges, so that every block on a path that
  avoids d is among them (`BalancedIsSound`). `TreeInv` goes on: among strict
  dominators the one with the largest set is the immediate one; the frontiers
  hold nothing wrong (`FrontierSound`), and what they miss is ahead of the
  runner or on an edge not begun (`NothingSkipped`). Theorems:
  `DominatorsNeverLost`, `SolveComputesDominance`, `TreeIsImmediate`,
  `FrontierIsExact`.
- **Termination of the analyses** (`DominanceProofs`, `InterferenceProofs`). A visit
  computes a block from sets of different age, so that it is not the monotone
  function of the textbook. `Shrinking` says of every block that what a visit
  would compute now is no more than what is there, and `Growing`, for liveness, no
  less; meet and transfer are monotone, so a visit of one block keeps this of all.
  Hence sets move one way only. A sweep that changes none of them is the last,
  and `Advances` puts this in order: the sets, then the flag that a new sweep
  resets, then the place in the sweep. The runner of DominanceFrontier goes up a
  tree that is known to have no cycle. Theorems: `DominanceAdvances`,
  `LivenessAdvances`.
- **Liveness** (`InterferenceProofs`). The mirror image, for a least solution:
  `NoLeak` is inductive with the meaning of gen and kill (`Analysed`), and the
  unchanging sweep gives the other half by walking a path to its use backwards,
  instruction by instruction. Theorems: `NothingLeaks`, `SolveComputesLiveness`.
- **From live sets to registers** (`InterferenceProofs`). `Live(b, i)` is what is read
  from instruction i on before it is written, with the end of the block given by
  the analysis. `GraphInv` says that `lives` is this set while `build()` goes up a
  block, and that every instruction behind it is joined to what is live behind
  that instruction (`Joined`). `RunInv` says that a variable that is live, and was
  assigned, is held by its register. `ReadsAgree` alone is not inductive, because a
  register may be taken away long before the variable is read. An instruction keeps
  `RunInv` since no live variable shares a register with what it writes or
  destroys (`HomeSurvives`); an edge keeps it since the analysis balances
  both its ends (`LiveAlongEdge`). The return address is why the two notions of
  live differ: `build()` knows that a call writes it, the analysis does not, so that
  it may be live at the start of a block for the analysis alone; the
  other direction is what the proof needs (`LiveAtStart`). Theorem:
  `ReplacementReadsTheSame`.
- **SSA construction** (`ConstructSSAProofs`). `PhiInv` is the worklist of AddPhi: a
  block that defines the variable waits or has the phis of its frontier.
  `RenameInv` is the recursion of rename: a set of blocks behind the walk, in
  which every read has the name that its immediate dominator ended with or the
  last definition before it (`Renamed`), and the height of the stacks at every
  call on the way (`Walk`). `RunInv` says that the two runs agree on the
  variables that are live. They meet in the step along an edge to a join
  without a phi: then no definition lies between the join and its immediate
  dominator, because the join would be in the frontier of its block, and the
  names at the ends of all blocks in between are those of the dominator.
  `JoinInv` adds that each phi has a cause, a definition in whose frontier it is.
  An edge from where this definition dominates ends with a version given below
  it (`EndsFromBelow`), an edge from elsewhere (`EntersFromOutside`) with none
  given there (`EndsFromAbove`), so the phi tells two versions apart.
  Theorems: `PhisAreJoins`, `AssignsOnce`, `StacksAreBalanced`,
  `RenamedReadsTheSame`.
- **Calls** (`CallRegsProofs`). `CallInv` says that the arguments moved so far
  are in their registers (`Moved`), which the next MOV must not overwrite, and
  that those without one are in the slots of their order (`Stacked`). It rests
  on `RegsDiffer`: `assign_call_regs` numbers the parameters of each class, so
  that no two of a class share a register. `PrimitiveCall`, the start of the
  theorem, admits every signature of primitive types of any length, and spilled
  register parameters where the callee has none on the stack; the other two
  cases are the disagreements listed above. Theorem: `ArgumentsAlwaysArrive`.

Together they form one argument for the middle of the compiler. The
specification of SSA construction starts from the dominator tree, frontiers and
live sets that paths define, which are what the analyses are proved to compute;
from the same live sets the allocator builds a graph, of which it is proved to
return nothing but a proper colouring, if it returns, and replacing variables by the registers of any
proper colouring is proved to change nothing that is read; the runs of `BackEnd`
add what a function has to find in its registers when it is called and leave in
them when it returns, for which safe copies must be joined; its copies on an edge are proved to be the parallel assignment.

## What only TLC checks

- Termination of `ScheduleCopy`: liveness is beyond the prover. So is what
  is left of it where `TurnsAdvance`, `SweepsAdvance` and `CopiesAdvance` are proved,
  that an infinite descent of finite sets does not exist and that no state is stuck
  (`ENABLED`).
- The compositions `Frontend`, `Optimizer`, `BackEnd` and `Codegen`. They execute
  whole programs with recursive operators on recursive data (syntax trees,
  nested types), which the prover cannot take; what they check is that
  executions agree, on families of programs chosen for it.

- That the passes of `Optimizer` and `BackEnd` keep the side of the bargain that
  `Observers` puts into the guards of its calls: they are checked with the
  programs of their runs (`UseDefExact`, `SsaForm`, `SitesExact`).

The prover knows nothing about `SelectSeq`, and misreads `@` inside a nested
`EXCEPT`; what is proved of `CallRegs`, `BriggsAllocator` and `UseDef` rests on
definitions without them.

## Assumptions and abstractions

- No exit targets the entrance, which is what `FlowGraph` says of `Targets`. The IR
  generator never makes such a jump; the algorithms themselves do not test for it.
- An iteration over an unordered container takes any order. In the order of
  `std::map` and `std::set` over values it is ascending.
- An address of the code (`Inst*`, `Value*`) is an identity of its own that
  survives moves in a list, as in `std::list`.
- In `Observers` a new instruction defines a variable that another defines only
  under `MultiDefInfo`: this is the SSA form that `SSAPassContext` is for. The
  labels of blocks and the addresses of instructions are never used twice;
  `addFunc` is left out, which nothing calls while a graph exists.
- In `Optimizer` and `BackEnd` a dominator tree, liveness and post-order are
  given by what `Dominance` and `Liveness` are checked to compute. Values are
  int32 and bool. A whole array is one allocation of scalar cells.
- In `IRMachine` and `RV64Machine` a float is an integer with a sign and a
  magnitude, and arithmetic saturates: comparisons, conversions, precision of
  loads, moves and sign injection are those of the code, rounding is not.
  Division by zero and INT_MIN / -1 are undefined on both machines and
  not among the inputs.
- In `Lowering` a variable is its register from the start, since `BackEnd` and
  `BriggsAllocator` answer for the choice.
- `Interference` allocates one function: others add edges to the same graph but
  never take one away. It has no phis at this point, since allocation is a
  `NonSSAPass`; the spills start again with another function, which is among the
  initial states. Two runs are compared as long as they compute something: from
  a variable that nothing assigned, an instruction computes nothing that counts,
  and an exit that reads one ends the comparison. Memory behind a reference is
  in what an instruction computes from its operands.
- In `CallRegs` the argument area has one slot for each argument, which is what
  `outgoing_arg_area` reserves; widths of stores are left out.

## Not modelled

Generated parsers and the walks over their trees (front end syntax, IR parser),
printing and emission, the debugger, the drivers' option handling and the
helpers in `src/utils` have no state worth a model. Of the RV64 machine,
FSQRT, FMV, JAL, JALR, LUI and AUIPC are left out, which the compiler never
emits; of the IR machine, views of nested arrays and the errors for types that
the analysis excludes. Calls between functions are executed by `IRExec` and
followed by `CallRegs`; `Codegen` calls library functions only, since a call
into another compiled function is `CALL` with the registers `CallRegs` checks.
Floating point programs pass through `Codegen` and `CallRegs`, not through
`Optimizer` and `Frontend`.

## Plan

The modelling is complete but for what the section before leaves out, and the
safety properties of the loops are proved. What would be worth stating next:

1. The split of a constant that `Isel` makes for an immediate, and sign
   extension after a 32-bit operation, for every width. `Words` would have to
   part with its bitwise operators first, which the prover does not accept.
2. A measure for the two phases of `ConstructSSA`, like those of the other loops:
   the blocks that have no phi instruction yet and those still to be renamed.
3. `DataFlow` refined by `Dominance` and `Liveness` has its argument about
   unchanging sweeps twice, in `DominanceProofs` and in `InterferenceProofs`; it
   belongs in one lemma about the framework.

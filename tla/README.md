# Verification of the x86-64 code generator and its register allocators

This directory holds TLA+ models of the compiler pipeline in `src/crates`: the
text format and the SSA intermediate representation it is read into, its
interpreter, the analyses, the two register allocators with the verifier they
share, the emitter of x86-64 code, and the process that runs the code.  TLC
checks the models on small instances; TLAPS proves the safety properties of the
parser, the analyses, the interpreter, the two allocators, the emitter with its phi
moves, and the runner client for all instances.

## 1. Inventory

The pipeline is `validate_function` -> `compute_live_intervals` -> an allocator
(which calls `verify_assignment` on its own result) -> `emit_function_i64`
(which validates, recomputes the intervals and verifies again).  The command
line then runs the interpreter and, in a child process, the generated code on
the same arguments and compares.

| component | state | operations | what makes it correct |
|---|---|---|---|
| IR (`ir/src/ir.rs`) | none, immutable functions | `try_block`, `successors`, `uses`, `term_uses` | the queries the others rest on |
| interpreter (`ir/src/interp.rs`) | current block, predecessor, values, step count | enter a block (all phis at once), execute, terminate | a validated function never fails but by the step limit; it always stops |
| parser (`ir/src/parser.rs`) | blocks, current block, label table, phis and terminators put aside | read a line, resolve a phi or a terminator | accepts the well-formed texts, refuses a text early only for good reason, and what was put aside ends up in its own place |
| analyses (`analysis/src`) | work sets of the fixpoints | predecessors, liveness, intervals, dominators, validation | the loops stop with exactly the live values and the dominators; intervals cover every path on which a value is still read; validation accepts only functions that define before they read |
| interference graph (`analysis/src/interference.rs`) | live set, nodes, edges | enter a block, walk an instruction | values that are live together are linked, and their intervals overlap |
| allocator contract (`alloc/src/lib.rs`) | none | `validate_for_codegen`, `verify_assignment` | what it accepts can be compiled: no two live values share a location |
| linear scan (`alloc_linear_scan`) | free and active vectors, map, slot counter | expire, take, spill | the verifier accepts the result; as few spills as possible; one owner per register |
| simulated annealing (`alloc_sim_anneal`) | current and best state, costs, generator | propose, accept or undo, repair | repair turns any state into one the verifier accepts, and spills no more than the greedy start |
| phi moves (`emitter.rs`) | pending moves, two scratch registers | free move, break a cycle | acts as a parallel copy |
| emitter (`emitter.rs`) | frame layout, locations | prologue, an instruction, a terminator with its edge | emitted code and interpreter agree; slots stay inside the frame |
| runner client (`cli/src/runner_client.rs`) | child, two pipes, two reader threads, clock | spawn, poll, kill, join | never blocks for ever, never loses output, leaves no child behind |
| runner (`runner/src/main.rs`) | limits, executable memory | limit, map, protect, call | contains faults of generated code |
| command line (`cli/src/main.rs`) | options | check, allocate, emit, run, compare | the examples pass with both allocators and every register budget |
| SIMD kernels, disassembly, viz | - | text or bytes out | - |

The code is sequential except for the runner client (a parent, a child, two
reader threads and a timeout).  What is hard to test is of another kind: which
value is in which register when, over loops, spills, cycles of moves and
boundary values.  The hazards, each at its line, are in `PROJECT.json`.

## 2. Modules

| module | models | notes |
|---|---|---|
| `Alloc` | `alloc/src/lib.rs`, `LiveInterval::overlaps` | pure operators; `verify_assignment` returns the set of answers the order of a hash map leaves open |
| `LinearScan` | `LinearScan::allocate` | one action per branch of the loop body; vectors are sets, ties are free choices |
| `LinearScanVec` | the same, with its vectors | stable sorts, LIFO free list; `Sets` is the refinement to `LinearScan` |
| `OperatorProofs` | - | lemmas about the operators of `Alloc` and `Analysis` and about finite sets that the other proof modules share |
| `LinearScanProofs` | - | invariants and theorems about `LinearScan` |
| `LinearScanVecProofs` | - | the refinement, and what it transfers from `LinearScan` |
| `ParallelMoves` | `emit_parallel_moves` and the helpers it calls | a step is an iteration of the emitter's loop together with the execution of what it emits |
| `ParallelMovesProofs` | - | invariant and theorems about `ParallelMoves` |
| `IR` | `ir/src/ir.rs` | instructions are records; i64 is a two's complement range of `2 * HalfRange` values |
| `Analysis` | `analysis/src/{liveness,intervals,dominators,validation}.rs` | operators on a function; a fixpoint loop is as many sweeps as there are blocks |
| `DominatorLoop`, `LivenessLoop` | the `while changed` loops of `compute_dominators` and `compute_liveness` | a step is the visit of a block or the end of a pass; compared with paths in the graph |
| `Interference` | `build_interference_graph` | a step is an instruction |
| `Analyses` | the calls of the analyses one after the other | composes the three modules above; each works on the sets its predecessor left |
| `ParserState` | the state of `parse` and the function it returns | with the meaning of a text and the properties; a line is what its tokens say |
| `Parser` | `ir/src/parser.rs` | a step reads a line or resolves an entry |
| `FrontEndProofs` | - | invariants and theorems about `Analyses` and `Parser` |
| `Examples` | `ir/src/examples.rs` | the four functions |
| `InterpState` | the state of `eval_i64_with_limit` | what `Interp` and `Codegen` share |
| `Interp` | `ir/src/interp.rs` | actions `EnterBlock`, `Execute`, `Terminate`, `StopAtLimit` |
| `Codegen` | `emit_function_i64` | composes `Interp` (as `Interpreter`) and `ParallelMoves` (as `Edge`) |
| `AllocInputs` | - | the inputs of the modules below and the assumptions on them |
| `FirstCome` | the promise of an allocator that never evicts | abstract: any register no earlier overlapping value holds, a slot only if there is none |
| `FirstComeProofs` | - | invariant and theorems about `FirstCome` |
| `SimAnneal` | `alloc_sim_anneal/src/lib.rs` | greedy start, search, repair, verification; `Visits` is the refinement to `FirstCome` |
| `SimAnnealProofs` | - | costs, the refinement, and what it transfers from `FirstCome` |
| `ExecutionProofs` | - | running a function: invariants and theorems about `Interp`, `Codegen` and `RunnerClient` |
| `RunnerState` | the state of `RunnerClient::run`, its child and their pipes | what `Runner` and `RunnerClient` share, with the properties |
| `Runner` | `runner/src/main.rs` | the child process, its pipes and its processor limit |
| `RunnerClient` | `cli/src/runner_client.rs` | composes `Runner` with the parent, the two reader threads and the clock |
| `Pipeline` | `playground run` of `cli/src/main.rs` | composes `LinearScanVec` and `FirstCome` with `Codegen` on `Examples` |
| `MC...` | - | instances for TLC |

How state corresponds to code:

* An interval list is a function from values to spans.  `compute_live_intervals`
  builds the vector from a map keyed by value, so none occurs twice.
* In `LinearScan` the values not yet in `map` are the rest of the vector
  `ordered`; `is_current` picks its first by the sort key.  The counter
  `stack_slots` is both fields `stack_slots` and `spills` of the result, as in
  the code.
* In `ParallelMoves`, `cell` is the machine after the instructions emitted so
  far (the code of an edge is straight-line), and `want` is what a parallel copy
  would leave.  `want` is a ghost: no action reads it.
* `Codegen` starts from *every* assignment over the instance's registers and
  slots, not from an allocator's.  `Emit` accepts those the emitter accepts, so
  the results hold for any allocator that passes the verifier.  After `Emit`
  the interpreter and the emitted code run in step: a step executes an IR
  instruction in `Interp` and its machine instructions on `cell`.  Between the
  terminator and the next block the moves of the edge are steps of their own.
* In `SimAnneal` the generator and the floating point temperature are free
  choices: any interval and choice may be tried, and a step that raises the cost
  may be accepted or rejected.  What holds of every such search holds of the one
  the seed produces.  Spill and conflict costs are constants of the model, 100
  and 1 000 000 in the code.
* In `RunnerClient` time is one event, the passing of the timeout.  A pipe holds
  `PipeCapacity` chunks, the results are more than that.  A case is what the code
  does when it is called: return, crash or loop.  `os_faults` says whether calls
  of the operating system may fail in the behaviour; every call of parent, child
  and readers that the code checks may then do so.
* In `Parser` labels keep their spelling, because two spellings of one number are
  two labels of one block; `text` is the input read so far, from which the
  properties say what `parse` should return.
* `Analyses` runs the loops of the code.  `Validate` makes the checks that come
  after `compute_dominators` with the sets that loop has left, and the graph and
  the intervals are those of the sets the liveness loop has left.  The modules
  that only need a result take it from `Analysis`, which makes one sweep per block
  instead of looping; `OnePassPerBlockIsEnough` says that this is the same.
* A place of a function is a pair of the index of a block and the index of an
  instruction, the terminator being the last; its position is the number of
  places before it, which is what the counter of `compute_live_intervals` counts.
* `Pipeline` runs one validation case per behaviour; the results agree when they
  do for each case.  Between the two results stands `RunnerClient`.
* The frame is addressed by index, arguments first.  Registers and frame hold
  `Garbage`, a number outside the integer range, until something is written.

Wrong variants of a definition (`..._leaky`, `..._always` and so on) stand before
it with a comment that says so.  No specification uses them; each is a plausible
mistake that makes a named property fail.

## 3. Runs

| run | states (about) | shows |
|---|---|---|
| `linear_scan` | 396 000 | all lists of 4 intervals over 4 positions, 2 registers, budgets 0 to 3: accepted by the verifier, minimal number of spills, terminates |
| `linear_scan_vec` | 240 000 | same inputs: the vectors refine the sets, and a register has one owner |
| `sim_anneal` | 198 000 | all sorted lists of up to 4 intervals over 3 positions, 2 registers, budgets 0 to 3, searches of 0 to 3 steps: running costs, a best state without conflicts, the verifier's answer, forced spills, refinement of `FirstCome` |
| `moves` | 96 000 | up to 2 moves over 4 registers and 2 slots, up to 4 with register sources: acts in parallel |
| `analyses` | 98 000 | the dominator loop on all graphs of four blocks; with the liveness loop and the graph on functions over eight shapes of control flow and on loops with two phis |
| `interp` | 116 000 | three-block functions, with every operand, phi input and branch target varied: valid ones, and ones that reach each error of the interpreter |
| `codegen` | 994 000 | loops with two phis and joins, all accepted assignments over 2 registers and 2 slots: live values and results agree; two values at slots around every limit, with 0 to 7 arguments: what is accepted lies in the frame |
| `parser` | 417 000 | all texts of up to 7 lines over 12 lines; refusals before the end are final |
| `runner_client` | 26 000 | specs at and past every limit, cases that return, crash or loop, faults of every call: `run` returns and its answer is complete |
| `pipeline` | 445 000 | the four examples, both allocators under all their names, 4 registers and budgets 0 to 5 |
| `dead_phi` | violation | a dead phi in front of a live one |
| `rotation` | violation | three phis rotating, one of them on the stack |

Why the bounds are enough.  Four intervals over four positions give every
relative order of starts and ends of a current interval, two owners and a late
arrival, with equal keys and touching ends; two registers are the fewest with a
choice of victim.  Three steps of a search can go uphill, come back and go
elsewhere; the scaled costs keep a conflict dearer than most greedy states, and
`BestIsConflictFree` states the condition under which it is.  A cycle needs two
moves, a cycle next to a chain or another cycle four.  Four blocks are enough for
nested loops, loops with two entries and blocks listed against the order they
run in.  A u32 that is twice an i32, and a frame limit below it, keep the order of
the three limits the emitter checks.  The step limit of `codegen` lets a loop take
its back edge twice and start a third iteration, enough for a value that survives
one iteration only by accident to be lost.  Seven lines are two blocks with a phi
before the block it names, and every error after them.  With pipes of one chunk
every write of a result can block.  `pipeline` uses four-bit integers, four of
the five registers (`FirstCome` tries every choice) and a frame limit that just
holds the largest example; loops run up to three times.

The families of the `codegen` run leave out two shapes, on purpose: a dead phi
in front of another phi and edges with three moves and a stack source.  They are
the inputs of the two findings below; everything else about phis (swaps, copies,
self-moves, loop-carried values, joins) is in the families.  `pipeline` shows that
the examples of the repository do not reach them with either allocator.

Deadlock is checked in `pipeline`, where only an exited command may stop: no edge's
moves are left waiting and no component refuses silently.  The other models are
computations that end; that they end in the right state is what the properties
say.

Fairness.  The sequential modules (`LinearScan`, `Interp`, `Analyses`, `Parser` and so on)
assume weak fairness of the whole next-state relation: a Rust function whose next
step is enabled takes it.  `RunnerClient` has processes: weak fairness of the
parent, of the child and of each reader thread is what the scheduler of the
operating system gives.  Two more things can end a wait: the timeout passes
(`ClockFairness`) and a looping child uses up its two seconds of processor time
(`CpuFairness`, which says nothing of a child blocked at a pipe).  The
specification assumes only that one of the two holds, so `ParentReturns` shows
that either mechanism is enough by itself: without the reader threads the second
alone would not be, without the kill the first would not be.  `ChildEnds` needs
`CpuFairness`, because a child that a failed `try_wait` or `kill` leaves behind is
never killed.  `Codegen` and `Pipeline` state no fairness.

## 4. Findings

1. *Cycle of three or more moves with a stack source* (`emitter.rs:167`).  After a
   cycle was broken the temporary holds a saved destination.  The next free move,
   if its source is on the stack, is loaded through the same temporary.  Run
   `rotation`: a whole loop, through validation and the verifier.
   `src/DESIGN.md:61` promises a parallel copy, `src/DESIGN.md:67` equal results.
2. *Dead phi* (`emitter.rs:240`, `intervals.rs:68`).  A phi without a use has the
   interval of its own position.  A phi after it may then have the same
   location, and if its input has it too, its move is dropped as a self-move
   while the dead phi's move still writes there.  Run `dead_phi`;
   `src/DESIGN.md:67` says the results must agree.

## 5. Proofs

The theorems hold for every value of the constants that satisfies the named
assumptions, where a run covers one small instance.  A theorem about a property
names the definition the run checks.

### Allocators

`LinearScanProofs` proves `[]TypeOK` and `[]VerifierAccepts`: for every finite set of
values, all intervals, every register set and every budget, `verify_assignment`
answers `Ok`.  Assumptions: the values are natural numbers and at most `U32Max` of
them (the counter `stack_slots` is a u32); positions are natural; the register set
passes `validate_for_codegen`, as the command line ensures before it allocates.
`VerifierAccepts` says nothing before the last step, so it is proved from `IInv`:

* `VisitedStartFirst`: processed intervals start no later than pending ones;
* `ActiveHoldsRegister`: active entries agree with the map, own different
  registers, and none of those is free;
* `ExpiredIsOver`: a value in a register that is no longer active ended before
  every pending interval starts, so its register can be given away;
* `NoConflict`: values in one location do not overlap (evictions change old
  entries, hence it is about the whole map and not about the new entry);
* `SlotsAreDense`: slots in use are exactly `0 .. stack_slots - 1`, one value each,
  from which the verifier's two counts follow by cardinality.

`[]SpillsAreMinimal` is an exchange argument.  `KeepsMost` says, of the values
visited so far: whatever set of them fits in the registers, at no position from
here on have more of its members ended than of the values kept.  It survives an
eviction because the evicted value is the one that ends last, and at the last
position all members have ended.  `RegistersAreConserved` (no register is lost
between the free and the active ones) says that the registers are full when
something is spilled.

`LinearScanVecProofs` proves `[]FreeListIsExact` and that every step with the vectors
is a step of `LinearScan` or a stutter.  The invariant `VInv` says that no register
is listed twice and that the list `ordered` is sorted; the lemmas are about the
stable sort by rank (it is a permutation in the order of the key) and about
`expire_old`, which keeps exactly the entries that end later.  By the
refinement, `VerifierAccepts` and `SpillsAreMinimal` hold of the vectors too.

`FirstComeProofs` proves of every allocator that visits the list in order and never
evicts: the verifier accepts its map, and the set of spilled values is a function of
intervals and budget.  The reason is `SpilledWhenFull`: a value is spilled only
where the earlier ones it overlaps hold every register, so the number of those in
registers, and not their choice, decides.
`SimAnnealProofs` shows that repair and the final loop are steps of `FirstCome`, from
whatever state the search has left, which gives `[]VerifierAccepts` and
`[]SpillsAreForced`.  `CostsMatch` (the incremental cost is the cost of the state) and
`BestIsConflictFree` are proved from `AInv`: the best cost never rises, and the greedy
start has no conflict.  Assumptions: the lists are sorted by start with natural
positions and fit u32; costs are natural numbers.

### Phi moves

`ParallelMovesProofs` proves `[]ActsInParallel` and `[]PendingReadsIntact` for any
number of registers, slots and moves if no source is a stack slot, or if there
are at most two moves (`RegistersOrPair`).  The condition is needed: the three
moves of `rotation` are a counterexample without it.  The invariant adds to the two
properties that destinations are distinct, that a location no pending move writes
is final, and that a saved destination never waits in the temporary while a stack
source is pending.  The key lemma is a counting argument: if every destination is a
source, the moves are a permutation, so breaking a cycle redirects exactly one
move.  Without the condition, `[]TypeOK` is proved, and that each iteration takes one
move from the vector: the loop ends after as many iterations as there are moves.

### Analyses

`FrontEndProofs` is about every function whose blocks pass the checks
`validate_function` makes before it computes dominators (`ProgramsAssumption`); what it
says of liveness, graph and intervals needs the later checks too, which `Analyses`
makes in `Validate`.  Three invariants, one per loop:

* `DInv`: no dominator of a block has been taken away, and a pass that has changed
  nothing so far leaves the blocks it visited with sets that satisfy their
  equations.  After a pass that changes nothing, the blocks without `d` in their set
  include the entry block (unless it is `d`) and are closed under the edges that
  avoid `d`, so every block on a path that avoids `d` is one of them: the sets are
  exact.
* `LInv`: no value is live where no path reads it, and the same about a pass.  At the
  end the blocks where a value is held live include those that read it and are
  closed against the direction of the edges, so every block from which a path reads
  it is one of them: the sets are exact.
* `WInv`: what is live in the walk is live before the instruction passed last, and
  nodes and edges are what the instructions passed have added.

`[]LiveTogetherInterfere` is where validation matters.  Suppose two values are live
together at some place and not linked.  The instruction before defines neither, or
the walk would have linked it with the other, so both are live before it too, and
in the same way at the start of the block and at the end of every predecessor.
Every block is reachable, so both are live at the entry block; but nothing is live
there, because every use is dominated by its definition.  `[]IntervalsCoverEdges` follows
from the same sets: a value live after an instruction is touched at or before it and
after it in the block, and positions are in the order of places.

`[]OnePassPerBlockIsEnough` compares the loops with the sweeps of `Analysis`.  Taken for
one candidate at a time a pass of `compute_dominators` removes it from one block more,
or it was the last that did, so after as many passes as there are blocks another one
changes nothing (`DominatorsAreFixed`); `compute_liveness` adds a value to one block more
in the same way (`LivenessIsFixed`).  Both the operators and the loops then hold the
largest map of dominators and the smallest sets of live values that nothing changes,
so they are equal, and the other modules may use `Analysis` without its loops.

### Parser

`FrontEndProofs` also proves `[]ReadsTheText`, `[]LabelsNameBlocks` and
`RefusalsAreFinal`, for every set of lines and labels, with any number of labels for
one block id.  `PInv` speaks of the
lines where the blocks start, a sequence `s` that no variable holds (`Read(s)`):

* `Starts` and `LinesFit`: the blocks cut the text without a gap, the first line of
  each is its label and only the last block may still wait for a terminator;
* `LabelsRead`: the table is about the labels read so far, each of one block line;
* `BlocksRead`: every instruction and terminator is as its line says, or it is a phi
  or a terminator whose line waits in a table under exactly this block and place;
* `PutAside`: and the tables hold nothing else, so resolving an entry repairs the
  place it was written at and no other.

When the tables are empty, what `BlocksRead` says is that the text was read.
`ReadsTheText` judges the lines read so far, so it says little of a refusal in the
middle of a text: a label that is missing then may still come.  `RefusalsAreFinal` closes
that gap.  parse stops early only at lines that do not begin well (`begins_well`), and
`WholeTextsBeginWell` shows of `begun` and `whole`, the parts of `begins_well` and
`well_formed` about the order of lines, that the first lines of every whole text have
begun: what parse refuses no further line can mend.  `LabelsNameBlocks` follows: two labels with one id would
be two blocks with one id, which `validate_function` refuses.

### Interpreter

`ExecutionProofs` proves `[]ValidatedNeverFails` for every program, input and step limit.
`RunInv` has two parts.  `OnAnEdge`: the block the interpreter is in was entered from
the entry or along an edge.  `Computed`: the values defined in the blocks that dominate
the current one have been computed, on an edge those of the blocks that dominate its
source, and within a block those before `index`.  Entering a block keeps it because a
dominator of the target is the target or dominates the source; a use is in
`Computed` because validation has found its definition there.

### Emitted code

`[]FrameHoldsEverySlot` holds for every frame limit, every width of the numbers involved
and every slot index: what `accepts` lets pass lies between the saved arguments and
the end of the frame.

`[](SafePhis => LiveValuesAgree)` and `[](SafePhis => ResultsAgree)` hold for every valid
function, every register set that passes `validate_for_codegen`, and every assignment
that the verifier and the emitter accept.  `SafePhis` consists of two conditions on
function and assignment, one for each finding:

* `phis_are_read`: every phi in front of another phi is read somewhere.  `dead_phi` shows
  a wrong result without it;
* `edges_are_safe`: each edge has at most two moves, or none that reads a slot.
  `rotation` shows a wrong result without it.

Outside these two shapes the emitted code cannot differ from the interpreter.  All
functions and assignments of the `codegen` run meet the conditions.

The inductive invariant is `SimInv`.  In a block, every value that is still read (at or
after the current instruction, or after the block) is in its location (`InBlock`).  On
an edge, a parallel copy of the moves would leave every live value in its location
and give each phi its input (`BetweenBlocks`), and the moves done so far agree with
that copy (`MInv` of `ParallelMovesProofs`, which is used as an instance).  What the
steps rest on:

* writing the result of an instruction spares the values that are still read
  afterwards, since their intervals contain its position or the next, so that the
  verifier has given them other locations;
* the values an edge carries have intervals up to the end of the block it leaves, and
  the phis of the target overlap whatever is live there;
* dropping self-moves does not change the copy, and distinct phis have distinct
  locations, which is where `phis_are_read` is needed;
* the scratch registers are allocated to nobody, so operands can be loaded into them.

### Runner client

`ExecutionProofs` proves `[]OkMeansComplete`, `[]NothingLeftBehind`,
`[]SpecFileOutlivesRead` and `[]HarmlessCodeIsAnswered` for every list of cases and
specification (`SpecsAssumption`), every pipe capacity, every interleaving of parent,
child, readers and clock, and every call that fails.  `RInv` has a part for what
each side can rely on: where the parent is tells whether there is a child, a file
and a result (`PhasesMatch`); a joined reader has read to the end (`ReadersMatch`); a
reaped child is over (`ReapedIsOver`); an end of a pipe is closed only by exit or by
a broken reader (`ClosedEnds`); and what the child has written is in the pipe or has
been read (`NothingLost`).

### How the proofs deal with recursion, and what is left to TLC

The recursive functions of the models (`reachable`, `expire_old`, the sums of costs)
are unfolded by induction on the set of numbers for which a statement holds, with
`SetInduction` of `OperatorProofs`; recursive operators do not occur in these modules.

Only model-checked:

* liveness: `Terminates`, `ParentReturns`, `ChildEnds` and the fairness part of the two
  refinements (fairness and `ENABLED` are beyond the prover);
* `ExamplesPass`: that the four examples satisfy `SafePhis` with the allocators' own
  assignments is a computation, which the prover cannot carry out.

## 6. Not modelled

* Instruction encoding, labels and flags (each `cmp` or `test` is next to its
  jump); the load and store counters; error texts; serialisation.
* The SIMD kernels and the `simd-bench` command that times them, the disassembler
  and viz: fixed instruction sequences and formatting, without a decision.
* The random generator and the temperature of the search (free choices), and the
  width of its cost: an i64 that would need about 10^13 conflicts to overflow.
* The tokens of a line in the parser.
* Which runner executable is found, and whether it is up to date; building it
  succeeds or fails.  Of the runner's resource limits only processor time has an
  effect in the model; address space and file limits show up as calls that fail.

## 7. What is left

Every safety property of the runs but `ExamplesPass` is a theorem.  Further work would
change the program first: with a third scratch location for stack sources, and moves
for every phi of a block considered together, both conditions of `SafePhis` could go,
and with them the premise of the two theorems about emitted code.

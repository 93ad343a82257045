# A verification project for SPIRV-Tools

SPIRV-Tools reads, writes, validates, optimizes, reduces, fuzzes, links, lints and compares modules
of SPIR-V, the intermediate language of graphics and compute shaders. This directory holds TLA+
models of those of its algorithms that keep state over many steps, TLC configurations that explore
them on small instances, and proofs that TLAPS checks for every value of the constants.

Paths below are relative to the root of the repository. `PROJECT.json` holds the same information
for tools: the lines each definition models, the runs, the mutations of the code that each property
catches, the findings, the hazards and the theorems.

1. [The system](#1-the-system) · 2. [Plan](#2-plan) · 3. [The modules](#3-the-modules) ·
4. [The runs](#4-the-runs) · 5. [Fairness](#5-fairness) · 6. [The proofs](#6-the-proofs) ·
7. [Findings](#7-findings) · 8. [What is not modelled](#8-what-is-not-modelled)

## 1. The system

The libraries are single-threaded, and persist nothing: there are no messages, crashes or restarts
to lose, and a `spv_context` or `IRContext` is used by one thread. What is hard is elsewhere:

- *several records of one fact.* The optimizer keeps the module and, beside it, def-use chains,
  decoration tables, the CFG, dominators, types, constants. Every edit must reach all that are
  valid. A pass is a long sequence of such edits, in an order that no test fixes.
- *fixpoints.* Constant propagation, dead code elimination, divergence analysis, dominators and the
  facts of the fuzzer all drain worklists whose entries the draining adds to. An update lost, or a
  value that goes back up, shows only on particular control flow.
- *positions kept while what they point into changes:* the reducer's opportunities, the shrinker's
  chunks, worklists of phis that are removed while they are completed.
- *answers that read like lookups but write:* `Find` compresses paths in a const method, and
  `GetReachingDef` memoizes.
- *budgets shared between loops,* and statuses that must say truly how a run ended.

### Components

**In-memory representation and IRContext** (`source/opt/ir_context.*`, `module`, `function`,
`basic_block`, `instruction`). State: the instructions in order; the mask `valid_analyses_` and the
analyses it covers. Operations: `KillInst`, `ForgetUses`, `AnalyzeUses`, `AnalyzeDefUse`,
`UpdateDefUse`, `ReplaceAllUsesWithPredicate`, `InvalidateAnalyses`, `BuildX` on demand. Every pass
calls these; after each pass `IsConsistent` may be asserted (`source/opt/pass.cpp:44`). Correct when
a valid analysis is what building it anew would give. Hard: an analysis is invalidated and rebuilt
between the two halves of an edit.

**Def-use manager** (`source/opt/def_use_manager.*`). State: `id_to_def_`, `id_to_users_` (ordered
by definition and user), `inst_to_used_ids_`. Operations: `AnalyzeInstDef`, `AnalyzeInstUse`,
`UpdateDefUse`, `ClearInst`, `EraseUseRecordsOfOperandIds`, lookups. Correct when it describes the
module, and when no record holds a pointer to an instruction that is gone. Hard: records are erased
under the definitions as they are at that moment, not as they were when the records were made.

**Decoration manager** (`source/opt/decoration_manager.*`). State: for each id the decorations made
directly, the group applications that name it, and, for a group, its applications. Operations:
`AddDecoration`, `RemoveDecoration`, `RemoveDecorationsFrom`, `CloneDecorations`. Correct when the
tables are those of the module and a removal or a clone changes the decorations of one id only,
which groups make hard.

**SSA propagation engine and conditional constant propagation** (`source/opt/propagator.*`,
`ccp_pass.*`). State: two work lists, the statuses of instructions, the executable edges, the
instructions retired; and the client's table of values. The engine calls the client back for each
instruction. Correct when the values only go down the lattice, the loop ends at a fixpoint, and the
rewritten function computes what the original did.

**SSA construction** (`source/opt/ssa_rewrite_pass.*`). State: a definition per block and variable,
phi candidates with their users, blocks sealed, candidates to complete. Mutually recursive
operations: `GetReachingDef`, `AddPhiOperands`, `TryRemoveTrivialPhi`, `FinalizePhiCandidate`.
Correct when each load is replaced by the value it read on every path.

**Control flow, dominators, loops** (`source/cfa.h`, `source/opt/cfg.*`, `dominator_*`,
`loop_descriptor.*`). State: the block graph and its traversal orders; the dominator tree. Used by
the validator and most passes. Correct when they meet the definitions by paths, unreachable blocks
included.

**Dead code elimination** (`aggressive_dead_code_elim_pass`, `dead_branch_elim_pass`, `vector_dce`,
`liveness`). State: the live instructions and a worklist. Correct when what is live is closed under
what it needs, structured control flow included.

**Other passes** (inlining, merge return, loop transformations, scalar replacement, copy
propagation; about sixty), and **folding rules, constants, types** (`fold*`, `const_folding_rules`,
`constants`, `type_manager`, `types`). The passes are each one rewriting of a program; the folding
rules are arithmetic identities; the type manager is a table of hash-consed types with forward
pointers, correct when equal types are one.

**Pass manager** (`source/opt/pass_manager.*`, `optimizer.cpp`). State: the list of passes. Runs
them in order, stops at a failure, asserts the analyses each pass says it preserves.

**Validator** (`source/val`). State: the section of the layout reached, the function and block being
defined, the ids declared forward, the CFG of each function with its constructs. One pass over the
instructions, then checks over the whole. Correct when it accepts exactly what the specification
allows; the order of the sections, the forward declarations and the structured control flow are its
stateful parts.

**Reducer** (`source/reduce`). State: the binary held, the granularity and the index of each pass.
Operations: rounds of passes, each trying a chunk of the opportunities its finder reports; a
validator and a user's interestingness test are called on each result. Correct when it only ever
holds a good binary, ends, keeps to the step limit, and stops at a binary that no single opportunity
improves.

**Fuzzer** (`source/fuzz`). *Transformations* with a precondition and an effect (about ninety),
*fuzzer passes* that propose them, *pass managers* with queues of recommended passes, the *fact
manager* with the synonyms and equations that are known to hold, over an *equivalence relation* with
path compression; the *replayer* that applies a recorded sequence; the *shrinker* that removes
chunks of it, and hands functions that were added to the reducer. Correct when facts are closed and
true, when a replay gives what was recorded, and when the shrinker returns a sequence that replays
to itself and whose result is interesting.

**Linter** (`source/lint`). State: a level of divergence for each id, with where it came from, and a
worklist; under it, the control dependences of each block, read off the post-dominator tree. Correct
when what is called uniform is the same in all invocations, and what is called divergent has a
reason. Hard: blocks and values feed each other through branches and loops.

**Linker** (`source/link`): ids shifted, imports matched to exports, linkage removed. **Diff**
(`source/diff`): heuristic matching with a longest common subsequence.

**Assembler, disassembler, binary parser** (`source/text*`, `binary.cpp`, `disassemble.cpp`,
`name_mapper.cpp`): one pass over the input, driven by tables. **Utilities** (`source/util`,
`enum_set.h`): intrusive lists, small vectors, sets of enumerants, number parsing. **Interfaces**
(`libspirv.cpp`, `tools/`, `source/wasm`, `utils/vscode`): options, files, a language server.

### How they interact

Everything is a call in one thread. `Optimizer` runs passes over an `IRContext`; passes edit the
module and tell the analyses; the SSA propagation engine calls back its client; `Reducer` and
`Shrinker` call back a user's test and the validator; `Fuzzer` applies transformations through an
`IRContext` and records facts; the shrinker calls the replayer and, through `AddedFunctionReducer`,
the reducer. The seams the models follow are: engine and client (CCP), module and analyses (DefUse,
DecorationManager), search and test (Reducer, Shrinker), shrinker and reducer (`Shrinker` takes of
the reducer what `Reducer` shows of it, an overshoot included), and the linter over control
dependence over dominators (`Divergence` runs on top of `Dominators`).

## 2. Plan

The order is by how much a fault would cost and how hard it would be to test.

| | Modules | Abstract specification | Theorems |
|---|---|---|---|
| done | `SSAPropagator`, `CCP`, `CCPExecution` | the execution of the original function | all safety properties |
| done | `Reducer` | `Reduction` | all safety properties, the refinement |
| done | `EquivalenceRelation` | `Partition` | all safety properties, the refinement |
| done | `DefUse` | the manager a fresh analysis builds | all properties |
| done | `DecorationManager` | the decorations the module means | all properties |
| done | `SSARewrite`, `SSAExecution` | the execution with variables in memory | *next:* types, `Settled` |
| done | `Shrinker` | | all safety properties |
| done | `ControlFlow`, `Dominators` | dominance by paths | all safety properties |
| done | `Divergence`, `DivergenceExecution` | control dependence by paths; the runs of two invocations | nothing is missed, nothing is too divergent, control dependences are those of paths |
| done | `DeadCode`, `DeadCodeExecution` | the execution of the original function | *next:* the worklist computes a closure, `LiveIsKept` |
| 1 | validity of the analyses of IRContext, pass manager | analysis = function of the module | an invalid analysis is never read |
| 2 | validator: layout, forward ids, functions, structured control flow over `Dominators` | the grammar of a module | sections never go back |
| 3 | synonym and equation facts over `EquivalenceRelation` | congruence closure | classes only grow |
| 4 | dead branch elimination over the constructs of `DeadCode` | the execution of the original function | |
| 5 | linker, pass recommendations, ids of the replayer | | |
| 6 | `EnumSet`, `SmallVector`, longest common subsequence, name mapper, number parsing | sets, sequences | bounds |

Every new module composes with those it calls: 1 with `DefUse` and `DecorationManager` (one module
under two managers), 2 with `Dominators`, 3 with `EquivalenceRelation`, 4 with `DeadCode`, 5 with
`Shrinker`. The runs are few, one for each question: where two properties can share a state space,
they do. Likewise the proofs: those that come next join the modules of proofs there are.

## 3. The modules

Definitions carry the name of the function they model. Those marked `Mutant` are not part of any
model: each is a definition changed as a plausible fault would change it, and shows which property
would notice.

### Constant propagation: `SSAPropagator`, `CCP`, `CCPExecution`, `CCPPrograms`

`SSAPropagator` is the engine. `blocks` and `uses` are its queues, `simulated`, `dns` (do not
simulate), `edges` (executable) and `status` its tables; `todo` is the rest of the block being
simulated, since `Simulate(BasicBlock*)` can add to both queues between two instructions.
`StartBlock`, `SimulateInBlock`, `FinishBlock`, `SimulateUse`, `Skip` and `Finish` are the steps of
`Run`; a step is one visit of one instruction with everything that follows from it: the status, the
edges, the users queued, the retirement. A program is a record of blocks and instructions, and what
visiting an instruction returns is passed in.

`CCP` gives it: `VisitPhi`, `VisitAssignment` and `VisitBranch` over a lattice of two truth values
(and a null constant, which the switch treats apart), with `values` for the client's table. A few
opcodes stand for those that may fold: a copy, a negation, two short-circuiting operations, a
selection, an extended instruction that folds (`min32`) and one that declines (`sin16`); and two for
those that do not. `CCPExecution` rewrites the function as `ReplaceValues` does and runs both
versions in lockstep on every input.

Integers of 64 bits have two words, and a word here has one bit, so they are 0 to 3; `wide` of a
program says which ids may hold one. Copies, phis and opaque instructions pass them on, and a switch
may read one. `SwitchTarget` compares first words only (`LowWord`), as `VisitBranch` does: its test
for wide selectors counts the words of an operand that is an id, and never leaves (section 7). The
model is of a build without assertions; with them `GetSingleWordOperand` stops at the first literal
of two words.

### SSA construction: `SSARewrite`, `SSAExecution`, `SSAPrograms`

`tables` holds `defs_at_block_`, `phi_candidates_` and `load_replacement_`; the recursive calls are
frames of `stack`, `ret` is what the last one returned. A step is a piece of a function between two
calls: so `OperandFound` appends to a candidate that the call may have changed, as the code does.
`FinalizePhiCandidates` and its queue follow. `GetReplacement` and `GetPhiArgument` are
`Replacement` and `PhiArgument`. `SSAExecution` keeps the memory of the original and the environment
of the rewritten function along one path, and compares at each load. `SSAPrograms` computes reverse
postorder as `cfg.cpp` does.

Abstracted: ids never run out, and no variable holds a pointer to another. The users of a phi are
updated in the order of the code.

### Reducer: `Reducer`, `Reduction`, `Subsequences`

`Run` and `RunPasses` with their local variables, and `TryApplyReduction` with `granularity_` and
`index_`. A binary is any value; finders, preconditions and effects are constants, so that the
theorems hold for every pass there is or will be. `Available` is evaluated again for each attempt,
as the finder is; `ApplyChunk` tries each opportunity of a chunk on the binary that those before it
have left, as `TryToApply` does. `Reduction` is the promise: hold a good binary, give it up only for
a good one, end with a status that is true.

`Subsequences` has the loops over a list that this and other modules share: `AtPositions` picks
members, `Concatenated` puts a list for each member, `RunOver` transforms a value by each member in
turn. They are recursive functions, which the prover can unfold.

The step limit is documented (`include/spirv-tools/libspirv.h:796`) as a maximum. The loop looks at
it after each step, but the round goes on: each later pass makes one more step. `OvershootIsBounded`
states what does hold.

### Equivalence relation: `EquivalenceRelation`, `Partition`

`parent`, `children` and `known` are the members of the class. A call is in progress at a time, and
one iteration of one loop is one step, so the states in the middle of a path compression, and of the
traversal of `GetEquivalenceClass`, are all seen. `Partition` is the abstract specification: a set
of disjoint classes, of which a call merges two or adds one; `Find` stutters.

### Shrinker: `Shrinker`

The three phases of `Run` with their variables. A binary is the sequence of transformations that
made it. `Replay` keeps those that apply; whether one applies depends on those applied before it.
With `validate_during_replay_` a replay fails at the first invalid module. The added-function
reducer is what it can return: a smaller function, if all later transformations still apply and the
result is interesting, after some number of attempts, a few of them past its limit.

Abstracted: overflow ids, which depend on all the transformations to be replayed and not only on
those before; an adapted sequence whose replay fails is taken as refused, where the code asserts
that it does not happen.

### Def-use manager: `DefUse`

The operations of the manager are functions of its state, as they are in the code; the actions are
those of `IRContext`, on the module and the manager at once. `editing` holds the instructions
between `ForgetUses`, or a definition whose uses come later, and `AnalyzeUses`. A call of
`ReplaceAllUsesWithPredicate` is a step for each use, because it collects the uses before it
rewrites. Addresses are reused: an instruction that is killed may be allocated again.

Abstracted: an instruction is its result id and the ids it uses; debug line instructions are left
out. Passes are taken not to kill an instruction while its uses are forgotten: `ClearInst` does
nothing then, and a dangling definition would stay.

### Decoration manager: `DecorationManager`

Annotations are `OpDecorate` and `OpGroupDecorate`, at addresses; `manager` maps an id to three
bags, for the code's vectors, which can hold an instruction twice. `RemoveDecorationsFrom` is
written in the order of the code: the id is taken out of groups that lose a decoration, the
decorations to be kept are cloned onto it, those that match are killed, applications of a dead group
are killed. A loop over instructions, each turn of which records or erases one, is one step
(`Together`). `Tracked` compares what an entry says, so that an empty entry, which the code leaves
behind, counts as none.

Abstracted: an application that names a target twice; `OpGroupMemberDecorate`, whose targets are not
recorded (see section 7).

### Dominators and divergence: `ControlFlow`, `Dominators`, `Divergence`, `DivergenceExecution`

`ControlFlow` is what they share: `CFA::DepthFirstTraversal` one turn of its loop at a time
(`TraversalStep`) and to its end (`PostOrder`), and reachability and dominance as statements about
paths, which the analyses are compared with.

`Dominators` is `CFA::CalculateDominators` for its two clients. `analysis` says which graph it gets:
the optimizer's function under one placeholder block, as it is or inverted, or the validator's
augmented graph (`TraversalRoots`, `AugmentedSuccessors`), from its first block or the pseudo exit.
`Walk` and `Traversed` are the traversal, `StartPass` and `Refine` one pass over the reverse
postorder, block by block, with `Intersect` for the two fingers; `Refined`, `ChildrenOf` and
`Numbered` build the tree whose numbering `Dominates` reads.

`Divergence` goes on where the post-dominator tree is done. `Frontier` makes the dependences of one
node of the tree, children first; `Tour` and `Follow` are the rest of `Setup`; `Visit` is one turn
of `RunOnce`: a block takes its level from its dependences, one after the other (`Take`), a value
from its operands, and whoever rises puts its dependents on `worklist`. `DivergenceExecution` runs
two invocations of a function that differ in their divergent loads only.

Abstracted: of the opcodes, a load by the storage class and decoration of its variable (uniform,
flat, other), a phi and an operation; the module has one function without parameters. A terminator
is an exit, a branch, or a branch on a condition or switch, whose targets may repeat.

### Dead code elimination: `DeadCode`, `DeadCodeExecution`

`AggressiveDCE` of a function, then the killing and the clean-up of `ProcessImpl`. Items are labels,
merge instructions, terminators and instructions; `order` is the structured order and `construct`
the header around each block, as `StructuredCFGAnalysis` computes it. `ProcessWorkList` takes one
item and adds its operands, what its block needs (`NeededAround`: label, terminator or merge label,
the loop it heads, the construct around it, and for a merge instruction the breaks and continues)
and, for a load, the stores to the variable. `KillInBlock` and `KillConstruct` are the two ways
`KillDeadInstructions` walks on: a dead construct becomes a branch to its merge block, where the
walk goes on. A block holds a sequence of terminators, so that a branch that was added and one that
was not removed both show. `CFGCleanup` takes the blocks that are left over, and trims phis.
`DeadCodeExecution` runs a function on every input, with variables in memory, and what is seen from
outside in order: stores to outputs, calls with what they are given, private variables after the
return of a function that is no entry point.

Abstracted: the opcodes that stand for others are a load, a store, an access chain, a call, a phi
and an operation. Where the original does not return within the fuel, nothing is asked of the
result.

## 4. The runs

Passing runs:

- **`ccp`** (`MCCCPExecution`, `MCCCPExecution.cfg`, 35,748 distinct states). Values move one way
  through the lattice; the propagation ends, at a fixpoint; the rewritten function, executed in
  lockstep with the original on every input, behaves the same. Checks `NoLostUpdate`,
  `ValuesAreSound`, `ExecutedWasSimulated`, `SameExecution`, `ValuesOnlyDescend`, `Terminates`.
- **`ssa`** (`MCSSA`, `MCSSA.cfg`, 36,143 distinct states). Over 626 functions of four or five
  blocks, with branches, loops, nested loops, double edges and unreachable predecessors, the
  construction ends, every phi is settled and every phi that is named exists, and on every path of
  the function each load is replaced by the value it read. Checks `Settled`, `LoadsReadTheSame`,
  `SSATerminates`.
- **`reducer`** (`MCReducer`, `MCReducer.cfg`, 14,676 distinct states). Every reduction ends, with a
  binary that is one-minimal when it is complete, and keeps the promise of `Reduction`: what it
  holds and returns is good. Checks `CompleteIsOneMinimal`, `OvershootIsBounded`, `Terminates`,
  `Implements`.
- **`equivalence`** (`MCEquivalenceRelation`, `MCEquivalenceRelation.cfg`, 61,956 distinct states).
  Over every sequence of calls on four values, the two records of the forest agree between any two
  loop iterations, every call returns, with the answer of the partition, and the forest refines the
  partition. Checks `ChildrenMirrorParents`, `OneRepresentative`, `AnswersAreRight`,
  `RepresentativesOnlyRetire`, `Implements`, `CallsReturn`.
- **`shrinker`** (`MCShrinker`, `MCShrinker.cfg`, 6,640 distinct states). Chunk removal over
  sequences whose transformations enable and disable one another, under monotonic and non-monotonic
  interestingness tests, with and without validation: the chunk arithmetic holds, what is returned
  replays to itself, is interesting and, below the step limit, one-minimal. Checks `ChunksExist`,
  `BestIsReproducible`, `BestIsOneMinimal`, `Terminates`.
- **`defuse`** (`MCDefUse`, `MCDefUse.cfg`, 112,642 distinct states). Any sequence of additions,
  kills, edits, replacements of uses and invalidations over three addresses and three ids: the
  manager kept in step is the one a fresh analysis builds, no record outlives its instruction, and a
  replacement reaches every use. Checks `Consistent`, `NothingDangles`, `NoUseIsMissed`.
- **`decoration`** (`MCDecorationManager`, `MCDecorationManager.cfg`, 2,630 distinct states). Any
  sequence of additions, kills, removals, clonings, kills of ids, invalidations and rebuilds over
  four annotations keeps the manager in step with the module, and in every module so reached a
  removal or a cloning changes the decorations of the id it is asked to change and of no other.
  Checks `Tracked`, `NoneNamesTheDead`, `RemovesJustThose`, `ClonesJustThose`.
- **`divergence`** (`MCDivergence`, `MCDivergence.cfg`, 190,126 distinct states). On every function
  of four blocks, on three larger ones and on shaders with nested branches and loops: the immediate
  dominators, and what the trees answer, are those of paths, for the optimizer and the validator,
  forwards and backwards; the estimates climb and the passes end; control dependences are those of
  paths; the levels end at a fixpoint that is not above what flows into them, and in functions
  without loops and switches what is uniform is the same for two invocations. Checks
  `DominatorsAreRight`, `ControlDependencesAreRight`, `NeverTooDivergent`, `NonUniformityFlows`,
  `UniformMeansUniform`, `EstimatesOnlyClimb`, `AnalysisEnds`.
- **`adce`** (`MCDeadCode`, `MCDeadCode.cfg`, 49,171 distinct states). For 2,302 functions of
  fourteen shapes, what is left is a valid function, has lost nothing that was marked live and,
  where the original returns, calls and writes the same in the same order. Checks `SameOutputs`,
  `StaysValid`, `LiveIsKept`.

Runs that are expected to fail, each for a finding of section 7:

- **`ccp_faults`** (`MCCCPExecution`, `MCCCPExecution_faults.cfg`). In one function, a phi that
  merges a constant with an instruction whose folding rule declines is replaced by the constant, and
  a switch on a 64-bit constant is taken to go to a case that has the constant's first word only.
  The trace passes both, and each alone would make the last comparison fail. Checks `SameExecution`.
- **`ssa_lost`** (`MCSSA`, `MCSSA_lost.cfg`). The removal of the phi of an inner loop overwrites a
  store made after that loop, and the phi of the outer loop then merges the value the variable had
  before it. Checks `LoadsReadTheSame`.
- **`defuse_addtype`** (`MCDefUse`, `MCDefUse_addtype.cfg`). A fuzzer transformation that analyzes
  the definition of a type `AddType` has already analyzed erases the records of what the type uses.
  Checks `UsersAreKnown`.

The modules also state their type invariants; those of `CCP`, `Reducer`, `EquivalenceRelation`,
`DefUse`, `Shrinker` and `DecorationManager` are parts of the invariants that are proved.

Why the bounds are enough:

- `ccp`: four skeletons filled in every way, 428 functions. A diamond whose merge feeds another
  selection has all the orders in which a phi can learn of its arguments; a loop with two phis that
  exchange values, and a conditional assignment, makes values descend twice through the back edge; a
  switch inside a loop on one block has an edge to a block of several phis, a case shared by two
  labels, and selectors of 32 bits, or of 64 bits and unknown; and a switch on a 64-bit value that
  may be known decides what a phi behind it says. Its literals here share no first word with a
  constant that it is not: one that does is in `ccp_faults`. With two truth values the lattice has
  its full height, which no wider type would raise.
- `ssa`: five graphs of four blocks (diamond, while, do-while, a double edge, a predecessor never
  scanned) and nested loops, most blocks with one of five contents; and a loop that swaps two
  variables. In nested loops, completing one candidate asks for others, completes them or removes
  them.
- `reducer`: four items, so that a granularity of 9 goes 4, 2, 1 and chunks hold several
  opportunities, some of which exclude each other; step limits from none to more than enough;
  validators and tests that are monotonic and some that are not.
- `equivalence`: four values are the least on which a path has two links to compress, and
  `GetEquivalenceClass` a grandchild to visit. Any sequence of calls of any length.
- `shrinker`: sequences up to five, with transformations that enable, disable, need validity or add
  functions of three sizes; limits 0, 1, 3, 5 and 30, the last beyond what any needs.
- `defuse`: three addresses, reused without end, and three ids. Operands `<<1, 1>>` or none;
  replacing uses makes every other pair, also of an instruction that uses itself.
- `decoration`: four annotations over two ids and a group, the least with a group of two decorations
  applied to two ids.

- `divergence`: with four blocks every shape of branch, cycle, unreachable block and endless loop
  occurs that involves two joins; blocks are named in the order in which branches name them, which
  loses no graph, only names. `Ladder` and `Tower`, of six and seven blocks, are irreducible and
  need a second pass; `Switch` names a target twice in a loop. The shaders have an if in an if, an
  if and else with work after it, a loop whose variable decides when it ends and one with an if on
  the value of the iteration before, with every choice of the kinds of their loads; two invocations
  are the least that can differ.
- `adce`: an if; an if and else and a switch with a phi; loops that a header, the body or an if
  leaves, with and without a merge of its own; a continue; a loop in a selection and a loop in a
  loop; selections of which no way merges; an endless loop; a block nobody reaches. Three blocks of
  each do any of up to eight things, as entry points and as other functions. `Fuel` is 30 blocks,
  more than any of the loops needs on values below three, other than those that never end.

Deadlock is checked where the system never stops (`equivalence`, `defuse`, `decoration`); the others
end.

## 5. Fairness

The code is sequential: a loop that is running goes on running. So the specification of a loop has
weak fairness of its whole next-state relation and no more: `Reducer` and `Shrinker` of `Next`,
`EquivalenceRelation` of the steps of a call that has begun (no call need ever be made), `CCP` and
`SSARewrite` of their own steps before the execution of the result, `Divergence` of `DivNext`, which
includes the steps of `Dominators`. `DefUse`, `DecorationManager` and `DeadCode` have no liveness
property and no fairness (a worklist to which nothing is added twice ends). The reducer's and the
shrinker's termination also rest on the finders and the interestingness test returning.

## 6. The proofs

`CCPProofs` (with the execution), `ReducerProofs`, `ShrinkerProofs`, `EquivalenceRelationProofs`,
`DefUseProofs`, `DecorationManagerProofs` and `DivergenceProofs`, for every value of the constants
that satisfies the named assumptions of the modules; `SubsequencesProofs` holds the lemmas on
sequences that several of them need.

**CCP** (`CCPInvariant`). For all programs that `ProgramsAssumption` describes. They are well formed
(`WellFormed`: every label and operand names something), in SSA form (`InSSAForm`: an operand is
defined on every way to its use), and `OperandsAreValues`: an operand is a value, a phi has an
argument for each predecessor, the entry block has no phi. A valid module is so, and passes are only
meant for valid ones; the lines of the validator are with the definitions. Descent is not inductive
alone: that a visit does not replace one constant by another needs to know why the constant was
recorded. `CCPInv` adds `ConstantsAreJustified` (the phi argument or the operands that it came from
still say the same, or have become varying), and that what varies is never visited again. Then each
of the three visits is shown to return a value below the one recorded, and that the change keeps
every justification. From it `CCPTypeCorrect`, `StatusesMatch` (the engine's statuses and the
client's values agree), `ValuesDescend` and `StatusesRise`, the last of which says that the
assertion of `SetStatus` never fails.

**The fixpoint of CCP** (`FixpointInvariant`, `NothingIsLost`). Between two visits, whatever was
simulated and is not waiting would get the same result again. Two things make that hard. An
instruction is retired (`dns`) as soon as it varies, or when all it depends on is retired, and is
then never queued again, so `FixpointInv` has to say that a retired instruction will always say what
it says. And a change of a value queues its users only in blocks already simulated
(`OnlyVisitedHaveStatus`, `EdgesAreFollowed`), so users elsewhere must not have been looked at yet:
`DominatorsComeFirst` says that no block is visited or queued before those that dominate it, which
with SSA form means that an operand had its value before its user was first visited. `UpToDate`
makes an exception, found when a first proof failed: a terminator visited before its selector was
known varies for good, with all its targets reached, although a visit now might name only one.

**The execution after CCP** (`ExecutionInvariant`, `KnownValuesAreRight`, `NothingElseRuns`,
`MeaningIsKept`). For every program, every input and executions of any length: a value the pass
knows is the one computed, only what was simulated runs, and the rewritten function goes where the
original does with the same values. `ExecInv` is inductive along the execution. At a fixpoint each
instruction of the block has the value that a visit would give it (`NothingIsLost`); its operands
have been computed, since their blocks dominate this one (`DominatorsAreComputed`), and what has
been computed is known to the pass (`ComputedAreKnown`). So folding was done on right constants. A
branch on a known selector goes along the edge that the visit put in `edges`, and a phi reads the
argument of an edge that is executable, which its meet has counted. Then nothing that is replaced
was anything else. The theorems assume `NoneDeclines`: no instruction is of the kind whose folding
rule declines (`sin16`); and `OneWordSwitches`: no switch is on a 64-bit value. Without the one or
the other the last is false: these are the two findings that `ccp_faults` shows. Functions may
compute with 64-bit values otherwise: `WideStaysWide`, a part of `ReachInv`, says that no id of a
narrower type gets such a constant, so that folding and branching see one word.

**Reducer** (`ReducerInvariant`). For all passes, finders, effects, tests and limits; a pass occurs
once in a list. To know at the end of a round that every opportunity has been refused alone, the
invariant carries how much has been refused so far (`RefusedSoFar`), with the granularity at one and
the index at zero on entry (`IndexIsReset`). `CompleteReductionsAreMinimal`, `OutputsAreGood`,
`StepsAreBounded` and the refinement `KeepsThePromise` follow.

**Shrinker** (`ShrinkerInvariant`). For all transformations, tests, limits and inputs, and whatever
applicability and validity depend on; of the reducer it is only assumed that it returns a
transformation, and that it overshoots by a fixed number. That the result replays to itself rests on
a lemma of `Replay`: replaying what a replay has kept keeps all of it. A chunk removed may take
others along that no longer apply, so the next index must be shown to lie inside what remains
(`RoundInv`), and that the size of chunks gets to zero only after a round of single removals that
were all refused (`BetweenRoundsInv`). `EveryChunkExists`, `ResultIsReproducible` and
`ResultIsOneMinimal` follow.

**Equivalence relation** (`EquivalenceInvariant`). For any set of values. That parents form a forest
is a statement about paths; it is made inductive by a certificate: there are a root and a depth for
each value, the depth falling along parents. Compression keeps the certificate, a link shifts the
depths of one tree. The call in progress is at a place in the class of its argument, and the
traversal has visited or holds on its stack what its class has. `ForestsAgree`,
`ClassesHaveOneRepresentative`, `CallsAnswerRight`, `RepresentativesRetire` and the refinement
`KeepsThePartition` follow.

**Def-use manager** (`DefUseInvariant`). For any addresses, ids, operands and predicates. The user
records are exactly those that the recorded uses make under the recorded definitions (an equality,
so that erasing under today's definitions erases all), the definitions are those of the live
instructions, the recorded uses those of the module except for an instruction being edited; and
while uses are replaced, every use that is left is pending. `ManagerIsConsistent`,
`NoRecordDangles`, `ReplacementIsComplete` and `DefUseTypeCorrect` follow.

**Decoration manager** (`DecorationInvariant`). For any ids, groups, decorations and addresses;
assumed is that targets and groups are different ids (`IdsAssumption`). `Tracked` and
`NoneNamesTheDead` are inductive together with the types: an instruction is in a vector exactly as
often as its annotation says (`Sound`), never twice, which is what makes erasing it once enough.
`RemovesJustThose` and `ClonesJustThose` say of each removal and cloning what the decorations of
every id are afterwards. The loops of these operations go over instructions, and each turn touches
only what is recorded of its own instruction, so what they do together is stated for each
instruction apart (`Together`, `TogetherCount`). `ManagerIsTracked`, `NoDeadNames`,
`RemovalIsExact`, `CloningIsExact` and `DecorationTypeCorrect` follow.

**Dominators** (`DominatorsInvariant`). For every function whose branches name blocks of it
(`DominatorsAssumption`), reducible or not, and each of the four analyses. `DomInv` says of a
traversal that it is a depth-first search: the stack is a way up the tree of the search, events are
in the order of entering and leaving, and what has been left has all its successors entered
(`SearchOK`); so in the end the postorder lists what is reached, and each node but the root has a
parent that comes later. Of a pass (`Refining`) it says that the estimate of a block is one of its
ancestors in the search, that whatever is on every path to the block is on every path to its
estimate, and that it is no higher than where the ways up from the estimates of its predecessors
join. `Intersect` finds that place, within the turns it is given (`Up`, the way up, is a closure).
An estimate computed again is then at least the one it replaces: `EstimatesClimb`. And when a pass
has changed nothing, every estimate is where those ways join, a set of nodes that no path avoids; so
the estimates are exact, and not only a fixpoint (`DominatorsFound`). The same lemmas on searches
say that the numbers of the dominator tree nest as its nodes do, so `DominatorTree::Dominates`
answers right. `DivergenceDominators` and its corollaries carry this over to the specification of
the divergence analysis, which the run checks.

**Control dependence** (`ControlDependencesFound`). `CdInv`: the dependences of each block done are
those of paths, and when all are done no block from which an exit is reached is missing. The step is
`FrontierRight`: those of a block are the branches into it and what its children in the tree depend
on, without those whose source it strictly post-dominates. `TreeOrder` reads off the search of the
tree that the children are done by then. Each dependence is listed once if no block names a target
twice, because no two children are on every way from one target (`FrontierOnce`).

**Divergence** (`DivergenceInvariant`). For every shader whose labels and ids are apart, whose loads
have no operand and of which just the blocks with several successors have a condition
(`DivergenceAssumption`), over every function whose branches name blocks of it
(`DominatorsAssumption`). `DivInv`, defined with the properties and checked by TLC on the functions
of the run before it was proved, has three parts. `NonUniformityIsFollowed`: where something that is
not uniform flows into something uniform, the latter waits in the worklist, or a terminator does
whose turn will put it there; so when the list is empty nothing is missed. That a turn keeps it
needs what `Visit` puts on the list to be all that reads what it has raised: an instruction tells
its users, but a block tells those whose dependences name it through `forward`, made beforehand from
`cd`. So `ForwardMirrorsReverse` says that one graph is the other turned around. `DivTypeOK` says
that traversals, the tree and the tables hold nodes of their graph. `NothingIsMissed` (of all flows
but from the blocks that phis name) and `DivergenceTypeCorrect` follow. The converse is
`LevelsAreJustified`: nothing rises but downstream of what raises it, along flows of any length,
where the table of unconditional branches is taken as it was computed. Its invariant, `LevelsOK`,
bounds every level by a closure of the flows. Two things make it inductive. The bound moves: what
has reconverged is known by its condition, which may rise later. So levels must not fall; and since
a value is computed anew from its operands at each visit, `LevelsOK` says that a value that is
partially uniform still has an operand that accounts for it. And a block outside the post-dominator
tree stays uniform, so nothing flows out of what has not been analyzed.

Only model-checked: every liveness property (fairness and `ENABLED` are out of the prover's reach);
`UniformMeansUniform`, and everything about SSA construction and dead code elimination. What these
say rests on folds over a whole function or execution, of which a proof needs induction over data;
and the removal of phis and the marking of dead code each need an invariant of their own that is not
found yet. Paths of any length are within reach where they are closures: `ClosureIsClosed` and
`ClosureIsLeast` say of `Closure` all that the proofs use. The existence of the functions by
recursion over naturals that the proofs need (`RunExists`) is proved for the sequences at hand, from
the least-number principle.

## 7. Findings

- **A load may be replaced by the wrong value** (`ssa_lost`, `source/opt/ssa_rewrite_pass.cpp:117`).
  `ReplacePhiUsersWith` writes the value that a removed phi copied into `defs_at_block_` for every
  block among the phi's users. A block that read the phi and then stored to the variable is still
  among them, and its store is overwritten. While blocks are scanned this cannot matter, but
  candidates are completed in a queue, and one further on may still ask that block. In
  `BreakAfterLoop`, block 6 follows the inner loop, whose phi is trivial, reads the variable, stores
  to it, and leaves the outer loop for block 8: the phi of block 8 gets the value before the store.
  The 626 other functions explored are rewritten correctly.
- **A switch on a 64-bit constant may be taken the wrong way** (`ccp_faults`,
  `source/opt/ccp_pass.cpp:243`). The comment at line 244 says that a selector wider than 32 bits
  makes the result varying, but the test looks at the size of operand 0, the id. The constant's
  first word (line 264) is compared with the first word of each literal (line 274). In
  `HalfSineWideSwitch` the switch on `y` has a case for a literal with the first word of its
  constant: the pass simulates that case alone and replaces the phi `u` behind the switch by the
  constant from there, while executions take the default. In a debug build `GetSingleWordOperand`
  asserts at the literal.
- **A phi may be replaced by one of its constants** (`ccp_faults`, `source/opt/ccp_pass.cpp:191`).
  `VisitAssignment` waits for operands without a value, and the import of an extended instruction
  set never has one. If folding then declines, as that of `Sin` does on a 16-bit constant, the
  instruction has no value to the end; a phi (`z`) ignores such arguments, and becomes the constant
  on its other edge. In a debug build the assertion `Unsettled value`
  (`source/opt/propagator.cpp:261`) stops before that.
- **The users of a type's members are forgotten** (`defuse_addtype`,
  `source/fuzz/transformation_add_type_struct.cpp:92`). `AddType` has analyzed the new type;
  analyzing its definition again clears what was recorded.

Remarks that no run shows:

- The shrinker can pass its step limit (`source/fuzz/shrinker.cpp:284`): the reducer of an added
  function overshoots its own limit (section 3), `attempt` passes `step_limit_`, and the assertion
  at line 292 fails; without assertions line 293 compares for equality and the result is reported as
  complete.
- `AddDecoration` reads the targets of an `OpGroupMemberDecorate` at the wrong offset and files the
  instruction under the member indices (`source/opt/decoration_manager.cpp:372`), where
  `source/opt/decoration_manager.h:167` promises the decorated ids.
- When the level of a block rises, `EnqueueSuccessors` (`source/lint/divergence_analysis.cpp:38`)
  enqueues the block's own phis but not those of other blocks that name it, and `VisitBlock` looks
  at the condition of a branch only if the level of its block does not count more (line 79). So the
  flows of `divergence_analysis.h:86` to 91 are not all followed, though line 119 calls
  `EnqueueSuccessors` complete. `NonUniformityFlows` leaves out the labels that phis name, and
  `UniformMeansUniform` loops, for that reason.
- The sources that `divergence_source_` and `divergence_dependence_source_` record may name each
  other in a circle, which `PrintDivergenceFlow` (`source/lint/lint_divergent_derivatives.cpp:94`)
  would follow for ever: in a loop whose variable starts from a flat load and steps by one, the
  header is explained by the phi, the phi by the label of the latch, and the latch by the header.
- The table of unconditional branches reads 0 for the target of a back edge, which
  `divergence_analysis.cpp:224` says has been visited; such a block then counts as reconverged.
- `GetBranchForNextHeader` is said to return the next enclosing header
  (`source/opt/aggressive_dead_code_elim_pass.h:205`); for a loop header directly in a selection it
  returns the header around that selection. The selection is kept all the same, by the label of the
  loop's merge block. Line 135 says that useless control structures are not deleted; they are.
- The roots of `CFA::TraversalRoots` are not always a minimal set, as `source/cfa.h:138` says.
- A comment in `ssa_rewrite_pass.h` (`TryRemoveTrivialPhi`) says that removing a phi tries to remove
  others that become trivial, which the code does not do: the result is redundant, not wrong.
- `UpdateDefUse` is documented to leave an analyzed instruction alone and analyzes its uses again.
- An entry whose lists have become empty stays in the decoration manager, which the consistency
  check of debug builds would take for a difference.

## 8. What is not modelled

The reasons are in the notes of `PROJECT.json`, component by component. In short: the rules of the
validator on single instructions and the folding rules are thousands of independent conditions
without behaviour over time; most passes are one rewriting each, of which a model would be longer
than the pass; the assembler, disassembler, command-line tools, WebAssembly and editor support
translate or pass on what they are given. Planned, and left for later modules: those of section 2.

------------------------------ MODULE DeadCode ------------------------------
(***************************************************************************)
(* Aggressive dead code elimination of one function                        *)
(* (opt/aggressive_dead_code_elim_pass.cpp) over its structured control    *)
(* flow (opt/cfg.cpp, opt/struct_cfg_analysis.cpp): everything is dead     *)
(* that no effect needs, whole constructs included, and what becomes       *)
(* unreachable is cleaned up (opt/mem_pass.cpp).                           *)
(***************************************************************************)
EXTENDS ControlFlow

CONSTANT
  Functions  \* functions in structured form: see FunctionOK

VARIABLES
  func,
  phase,      \* "init", "mark", "kill", "clean", "done"
  order,      \* structured_order: all of it, then what KillDeadInstructions has left
  construct,  \* bb_to_construct_: the header of the construct around every block
  live,       \* live_insts_
  worklist,
  liveVars,   \* live_local_vars_
  toKill,
  code        \* the function as it is changed

deadVars == <<func, phase, order, construct, live, worklist, liveVars, toKill, code>>

\* Blocks are numbered, other ids are above 100 (whatever nobody defines is a
\* constant, or a variable of the module); a header names the merge block and,
\* for a loop, the continue block.
FunctionOK(f) ==
  /\ DOMAIN f.body = DOMAIN f.succs
  /\ \A b \in DOMAIN f.succs : Len(f.succs[b]) > 1 => b \in DOMAIN f.cond
  /\ \A b \in DOMAIN f.merge : f.merge[b].merge \in DOMAIN f.succs
ASSUME DeadCodeAssumption == \A f \in Functions : FunctionOK(f)

Blocks == DOMAIN func.succs
BlockOrder == [b \in Blocks |-> b]  \* the order of the function, and of unique ids

Label(b) == <<"label", b>>
MergeInst(b) == <<"merge", b>>
Terminator(b) == <<"end", b>>
Inst(id) == <<"inst", id>>

Instructions == FlattenSeq(func.body)
InstructionOf(id) == CHOOSE I \in ToSet(Instructions) : I.id = id
Ids == {I.id : I \in ToSet(Instructions)}
BlockOf(item) == IF item[1] = "inst"
                 THEN CHOOSE b \in Blocks : \E I \in ToSet(func.body[b]) : I.id = item[2]
                 ELSE item[2]
IsHeader(b) == b \in DOMAIN func.merge
IsLoopHeader(b) == IsHeader(b) /\ func.merge[b].continue # 0

-----------------------------------------------------------------------------
\* The structured order and the constructs.

\* CFG::ComputeStructuredSuccessors
StructuredSuccessors(f) ==
  [b \in DOMAIN f.succs |->
     (IF b \notin DOMAIN f.merge THEN << >>
      ELSE SelectSeq(<<f.merge[b].merge, f.merge[b].continue>>, LAMBDA c : c # 0))
     \o f.succs[b]]

\* CFG::ComputeStructuredOrder
StructuredOrder(f) == Reverse(PostOrder(StructuredSuccessors(f), 1))

\* StructuredCFGAnalysis::AddBlocksInFunction, for one block: the innermost
\* construct is on top of the stack.
EnterBlock(f, s, b) ==
  LET open == IF b = Last(s.stack).merge THEN Front(s.stack) ELSE s.stack
  IN  [of |-> (b :> Last(open).header) @@ s.of,
       stack |-> IF b \notin DOMAIN f.merge THEN open
                 ELSE Append(open, [header |-> b, merge |-> f.merge[b].merge])]

Constructs(f) ==
  FoldLeft(LAMBDA s, b : EnterBlock(f, s, b),
           [of |-> << >>, stack |-> <<[header |-> 0, merge |-> 0]>>], StructuredOrder(f)).of

ContainingConstruct(b) == IF b \in DOMAIN construct THEN construct[b] ELSE 0

\* The headers around a block, and the block itself.
Around[b \in Blocks \cup {0}] ==
  IF b = 0 THEN {} ELSE {b} \cup Around[ContainingConstruct(b)]
BlockIsInConstruct(header, b) == header \in Around[b]

\* GetHeaderBlock
HeaderBlock(b) == IF b = 0 \/ IsLoopHeader(b) THEN b ELSE ContainingConstruct(b)

\* GetBranchForNextHeader: a loop header asks from the header around it.
NextHeader(b) == HeaderBlock(IF IsLoopHeader(b) THEN ContainingConstruct(b) ELSE b)

-----------------------------------------------------------------------------
\* Variables, and the pointers to them.

Base[id \in Int] ==
  IF id \in Ids /\ InstructionOf(id).op = "chain" THEN Base[InstructionOf(id).args[1]] ELSE id

HasCall == \E I \in ToSet(Instructions) : I.op = "call"

\* Mutant: whatever is called leaves the private variables alone.
LocalDespiteCalls(v) == v \in func.local \/ (v \in func.private /\ func.entry)

IsLocalVar(v) == v \in func.local \/ (v \in func.private /\ func.entry /\ ~HasCall)

Variables == func.local \cup func.private \cup func.output

\* GetLoadedVariables, of those that ProcessLoad is about.
LoadedVariables(item) ==
  IF item[1] # "inst" THEN {}
  ELSE LET I == InstructionOf(item[2])
           pointers == CASE I.op = "load" -> {I.args[1]}
                         [] I.op = "call" -> ToSet(I.args)
                         [] OTHER -> {}
       IN  {v \in {Base[id] : id \in pointers} : v \in Variables /\ IsLocalVar(v)}

\* AddStores, of the users of the pointers to the variables vars: a load or an
\* access chain is no store, and any user that is not known is taken for one.
StoresTo(vars) ==
  LET stores == SelectSeq(Instructions, LAMBDA I : CASE I.op = "store" -> Base[I.args[1]] \in vars
                                                     [] I.op = "call" -> \E a \in ToSet(I.args) : Base[a] \in vars
                                                     [] OTHER -> FALSE)
  IN  [k \in DOMAIN stores |-> Inst(stores[k].id)]

-----------------------------------------------------------------------------
\* What a live item needs.

\* AddOperandsToWorkList: the labels and the instructions that it names.
Operands(item) ==
  LET x == item[2]
      labels == CASE item[1] = "merge" -> SelectSeq(<<func.merge[x].merge, func.merge[x].continue>>,
                                                    LAMBDA b : b # 0)
                  [] item[1] = "end" -> func.succs[x]
                  [] item[1] = "inst" -> InstructionOf(x).from
                  [] OTHER -> << >>
      ids == CASE item[1] = "end" -> IF Len(func.succs[x]) > 1 THEN <<func.cond[x]>> ELSE << >>
               [] item[1] = "inst" -> InstructionOf(x).args
               [] OTHER -> << >>
      defined == SelectSeq(ids, LAMBDA id : id \in Ids)
  IN  [k \in DOMAIN labels |-> Label(labels[k])] \o [k \in DOMAIN defined |-> Inst(defined[k])]

Branches == SelectSeq(BlockOrder, LAMBDA b : func.succs[b] # << >>)
WithMerge(b) == IF IsHeader(b) THEN <<Terminator(b), MergeInst(b)>> ELSE <<Terminator(b)>>

\* The branches of a construct to its merge block, with their own merges.
Breaks(header) ==
  LET breaking == SelectSeq(Branches, LAMBDA b : /\ func.merge[header].merge \in ToSet(func.succs[b])
                                                 /\ BlockIsInConstruct(header, b))
  IN  FlattenSeq([k \in DOMAIN breaking |-> WithMerge(breaking[k])])

\* A branch with a condition continues unless it is a selection that merges there;
\* a plain branch does if it leaves a selection that does not merge there.
ContinuesTo(b, cont) ==
  LET header == HeaderBlock(b)
  IN  /\ cont \in ToSet(func.succs[b])
      /\ IF Len(func.succs[b]) > 1
         THEN ~(IsHeader(b) /\ ~IsLoopHeader(b) /\ func.merge[b].merge = cont)
         ELSE header # 0 /\ ~IsLoopHeader(header) /\ func.merge[header].merge # cont

Continues(header) ==
  LET cont == func.merge[header].continue
      continuing == SelectSeq(Branches, LAMBDA b : ContinuesTo(b, cont))
  IN  IF cont = 0 THEN << >>
      ELSE FlattenSeq([k \in DOMAIN continuing |->
             IF IsLoopHeader(continuing[k]) THEN <<Terminator(continuing[k])>>
             ELSE Reverse(WithMerge(continuing[k]))])

\* Mutant: the construct around the block is left alone.
BlockOnly(item) ==
  LET b == BlockOf(item)
  IN  <<Label(b), IF IsHeader(b) THEN Label(func.merge[b].merge) ELSE Terminator(b)>>
      \o (IF item[1] # "label" /\ IsLoopHeader(b) THEN <<Terminator(b), MergeInst(b)>> ELSE << >>)
      \o (IF item[1] = "merge" THEN Breaks(b) \o Continues(b) ELSE << >>)

\* MarkBlockAsLive
NeededAround(item) ==
  LET b == BlockOf(item)
      next == NextHeader(b)
  IN  <<Label(b), IF IsHeader(b) THEN Label(func.merge[b].merge) ELSE Terminator(b)>>
      \o (IF item[1] # "label" /\ IsLoopHeader(b) THEN <<Terminator(b), MergeInst(b)>> ELSE << >>)
      \o (IF next # 0 THEN <<Terminator(next), MergeInst(next)>> ELSE << >>)
      \o (IF item[1] = "merge" THEN Breaks(b) \o Continues(b) ELSE << >>)

\* InitializeWorkList: the first block, and what has an effect by itself.
HasEffect(I) == CASE I.op = "store" -> ~IsLocalVar(Base[I.args[1]])
                  [] I.op = "call" -> TRUE
                  [] OTHER -> FALSE

Roots ==
  LET effects(b) == LET kept == SelectSeq(func.body[b], HasEffect)
                    IN  [k \in DOMAIN kept |-> Inst(kept[k].id)]
      ends(b) == IF func.succs[b] = << >> /\ func.exit[b] = "return" THEN <<Terminator(b)>> ELSE << >>
  IN  NeededAround(Label(1)) \o FlattenSeq([k \in DOMAIN order |-> effects(order[k]) \o ends(order[k])])

-----------------------------------------------------------------------------
\* The function as instructions of blocks, with a sequence of terminators each:
\* more or less than one is a block that is not well formed.

OriginalEnd(f, b) ==
  [item |-> Terminator(b), to |-> f.succs[b],
   op |-> CASE Len(f.succs[b]) > 1 -> "choice" [] Len(f.succs[b]) = 1 -> "branch" [] OTHER -> f.exit[b]]

CodeOf(f) ==
  [body |-> f.body, merge |-> f.merge, ends |-> [b \in DOMAIN f.succs |-> <<OriginalEnd(f, b)>>]]

Added(b, op, to) == [item |-> <<"added", b>>, to |-> to, op |-> op]
EndOf(c, b) == IF c.ends[b] = << >> THEN Added(b, "none", << >>) ELSE Last(c.ends[b])
SuccessorsIn(c) == [b \in DOMAIN c.body |-> EndOf(c, b).to]

\* Everything but the labels.
ItemsOf(c, b) ==
  {Inst(I.id) : I \in ToSet(c.body[b])} \cup {e.item : e \in ToSet(c.ends[b])}
  \cup (IF b \in DOMAIN c.merge THEN {MergeInst(b)} ELSE {})

\* AddToWorklist, one item after the other.
Fresh(items) ==
  FoldLeft(LAMBDA s, i : IF i \in live \/ i \in ToSet(s) THEN s ELSE Append(s, i), << >>, items)
Add(items, pending) ==
  LET fresh == Fresh(items)
  IN  live' = live \cup ToSet(fresh) /\ worklist' = pending \o fresh

Init ==
  /\ func \in Functions
  /\ phase = "init"
  /\ order = StructuredOrder(func)
  /\ construct = Constructs(func)
  /\ live = {} /\ worklist = << >> /\ liveVars = {}
  /\ toKill = {}
  /\ code = CodeOf(func)

InitializeWorkList ==
  /\ phase = "init"
  /\ Add(Roots, << >>)
  /\ phase' = "mark"
  /\ UNCHANGED <<func, order, construct, liveVars, toKill, code>>

\* ProcessWorkList, one item; MarkLoadedVariablesAsLive processes a variable once.
ProcessWorkList ==
  /\ phase = "mark" /\ worklist # << >>
  /\ LET item == Head(worklist)
         loaded == LoadedVariables(item) \ liveVars
     IN  /\ Add(Operands(item) \o NeededAround(item) \o StoresTo(loaded), Tail(worklist))
         /\ liveVars' = liveVars \cup loaded
  /\ UNCHANGED <<func, phase, order, construct, toKill, code>>

Marked ==
  /\ phase = "mark" /\ worklist = << >>
  /\ phase' = "kill"
  /\ UNCHANGED <<func, order, construct, live, worklist, liveVars, toKill, code>>

DeadIn(b) == ItemsOf(code, b) \ live
From(s, b) == SubSeq(s, CHOOSE k \in DOMAIN s : s[k] = b, Len(s))

\* KillDeadInstructions at a block that keeps its construct, or has none.
KillInBlock ==
  /\ phase = "kill" /\ order # << >>
  /\ LET b == Head(order)
     IN  /\ MergeInst(b) \notin DeadIn(b)
         /\ toKill' = toKill \cup DeadIn(b)
         /\ code' = IF EndOf(code, b).item \in DeadIn(b)
                    THEN [code EXCEPT !.ends[b] = Append(@, Added(b, "unreachable", << >>))]
                    ELSE code
  /\ order' = Tail(order)
  /\ UNCHANGED <<func, phase, construct, live, worklist, liveVars>>

\* A dead construct is left by a branch to its merge block, where the walk goes
\* on; an unreachable merge block now returns.
KillConstruct ==
  /\ phase = "kill" /\ order # << >>
  /\ LET b == Head(order)
         m == func.merge[b].merge
         returns == EndOf(code, m).op = "unreachable"
         branched == [code EXCEPT !.ends[b] = Append(@, Added(b, "branch", <<m>>))]
     IN  /\ MergeInst(b) \in DeadIn(b)
         /\ toKill' = toKill \cup DeadIn(b)
         /\ order' = From(Tail(order), m)
         /\ IF returns
            THEN /\ code' = [branched EXCEPT !.ends[m] = Append(Front(@), [Last(@) EXCEPT !.op = "return"])]
                 /\ live' = live \cup {EndOf(code, m).item}
            ELSE code' = branched /\ UNCHANGED live
  /\ UNCHANGED <<func, phase, construct, worklist, liveVars>>

KillInstructions ==
  /\ phase = "kill" /\ order = << >>
  /\ code' = [body |-> [b \in DOMAIN code.body |->
                          SelectSeq(code.body[b], LAMBDA I : Inst(I.id) \notin toKill)],
              merge |-> [b \in {h \in DOMAIN code.merge : MergeInst(h) \notin toKill} |-> code.merge[b]],
              ends |-> [b \in DOMAIN code.ends |->
                          SelectSeq(code.ends[b], LAMBDA e : e.item \notin toKill)]]
  /\ phase' = "clean"
  /\ UNCHANGED <<func, order, construct, live, worklist, liveVars, toKill>>

\* What RemoveUnreachableBlocks keeps: merge and continue blocks count as reached.
Reachable ==
  Reached([b \in DOMAIN code.body |->
             SuccessorsIn(code)[b] \o
             (IF b \in DOMAIN code.merge
              THEN SelectSeq(<<code.merge[b].merge, code.merge[b].continue>>, LAMBDA c : c # 0)
              ELSE << >>)], {1}, {})

Undef == 99

\* Mutant: the phi keeps what came from the blocks that go.
PhiUntouched(I, kept) == I

\* RemovePhiOperands: an incoming block that goes takes its operand with it, and
\* an operand that goes is undefined.
PhiWithout(I, kept) ==
  LET places == SelectSeq([k \in DOMAIN I.from |-> k], LAMBDA k : I.from[k] \in kept)
      gone(id) == id \in Ids /\ BlockOf(Inst(id)) \notin kept
  IN  IF I.op # "phi" THEN I
      ELSE [I EXCEPT !.from = [k \in DOMAIN places |-> I.from[places[k]]],
                     !.args = [k \in DOMAIN places |->
                                 IF gone(I.args[places[k]]) THEN Undef ELSE I.args[places[k]]]]

\* MemPass::CFGCleanup
CFGCleanup ==
  /\ phase = "clean"
  /\ LET kept == Reachable
     IN  code' = [body |-> [b \in kept |-> [k \in DOMAIN code.body[b] |-> PhiWithout(code.body[b][k], kept)]],
                  merge |-> [b \in DOMAIN code.merge \cap kept |-> code.merge[b]],
                  ends |-> [b \in kept |-> code.ends[b]]]
  /\ phase' = "done"
  /\ UNCHANGED <<func, order, construct, live, worklist, liveVars, toKill>>

Next ==
  \/ InitializeWorkList
  \/ ProcessWorkList
  \/ Marked
  \/ KillInBlock
  \/ KillConstruct
  \/ KillInstructions
  \/ CFGCleanup

Spec == Init /\ [][Next]_deadVars

-----------------------------------------------------------------------------
\* What a valid function in structured form looks like.

ValidBlocks(c) ==
  \A b \in DOMAIN c.body : Len(c.ends[b]) = 1 /\ ToSet(EndOf(c, b).to) \subseteq DOMAIN c.body

\* A header dominates its merge and continue blocks, every cycle passes a loop
\* header, and a branch that splits the control flow opens a construct or leaves one.
ValidConstructs(c) ==
  LET next == SuccessorsIn(c)
      loops == {b \in DOMAIN c.merge : c.merge[b].continue # 0}
      exits == UNION {{c.merge[b].merge, c.merge[b].continue} : b \in DOMAIN c.merge}
      all == Reached(next, {1}, {})
  IN  /\ \A h \in DOMAIN c.merge : \A b \in {c.merge[h].merge, c.merge[h].continue} \ {0} :
           b \in DOMAIN c.body /\ (h \in all /\ b \in all => OnEveryPath(next, 1, h, b))
      /\ \A b \in all \ loops : b \notin Reached(next, ToSet(next[b]), loops)
      /\ \A b \in all \ DOMAIN c.merge :
           Cardinality(ToSet(next[b])) > 1 => ToSet(next[b]) \cap exits # {}

\* Whatever is used was computed before, on every path.
ValidUses(c) ==
  LET next == SuccessorsIn(c)
      all == Reached(next, {1}, {})
      defined(id, b) == id \notin Ids \/ \E d \in all :
                          (\E I \in ToSet(c.body[d]) : I.id = id) /\ (d = b \/ OnEveryPath(next, 1, d, b))
  IN  \A b \in all :
        /\ EndOf(c, b).op = "choice" => defined(func.cond[b], b)
        /\ \A k \in DOMAIN c.body[b] : LET I == c.body[b][k] IN
             IF I.op = "phi"
             THEN /\ ToSet(I.from) = {p \in DOMAIN c.body : b \in ToSet(next[p])}
                  /\ \A j \in DOMAIN I.args : I.from[j] \in all => defined(I.args[j], I.from[j])
             ELSE \A a \in ToSet(I.args) :
                    /\ defined(a, b)
                    /\ a \in {J.id : J \in ToSet(c.body[b])} => \E j \in 1 .. k - 1 : c.body[b][j].id = a

\* The function that is left is valid: blocks with one terminator, constructs
\* whose blocks are there, uses that are defined, phis that name just the
\* predecessors.  The walk over dead constructs and the clean-up only keep it so
\* if the marking took all of a construct or none.
StaysValid == phase \in {"init", "done"} => ValidBlocks(code) /\ ValidConstructs(code) /\ ValidUses(code)

\* Nothing that was marked is lost: no part of a construct that is branched
\* over, and no block that is then unreachable, holds a live instruction.
LiveIsKept ==
  phase = "done" =>
    \A item \in live : BlockOf(item) \in DOMAIN construct =>
      /\ BlockOf(item) \in DOMAIN code.body
      /\ item[1] # "label" => item \in ItemsOf(code, BlockOf(item))
=============================================================================

----------------------------- MODULE Divergence -----------------------------
(***************************************************************************)
(* The linter's divergence analysis (lint/divergence_analysis.cpp), a      *)
(* forward data-flow analysis (opt/dataflow.cpp) over the control          *)
(* dependences (opt/control_dependence.cpp) that are read off the          *)
(* post-dominator tree: which values and which blocks may differ between   *)
(* the invocations of a shader.                                            *)
(***************************************************************************)
EXTENDS Dominators

CONSTANT
  Programs  \* functions with the instructions of their blocks: see ProgramOK

VARIABLES
  prog,
  stage,    \* "dominance", "frontiers", "traverse", "follow", "run", "done"
  cd,       \* reverse_nodes_: the dependences of every block of the tree, in order
  forward,  \* forward_nodes_
  tour,     \* the traversal of the CFG under way
  follow,   \* follow_unconditional_branches_
  worklist,
  level,    \* divergence_
  source,   \* divergence_source_
  branch    \* divergence_dependence_source_

divOnly == <<stage, cd, forward, tour, follow, worklist, level, source, branch>>
divVars == <<domVars, prog, divOnly>>

Uniform == 0
PartiallyUniform == 1
Divergent == 2
PseudoEntryBlock == 0  \* kPseudoEntryBlock

Loading == {"uniform", "flat", "divergent"}

\* Labels are the blocks' numbers, other ids are above them, and the terminator
\* of block b, which has no id, is -b.  A constant is an id nobody defines; a
\* load reads a variable of the module.
\* A branch on a condition and a switch name several targets, or one several times.
ProgramOK(p) ==
  /\ DOMAIN p.body = DOMAIN p.succs
  /\ \A b \in DOMAIN p.body : /\ p.body[b] \in Seq([id : Int, op : STRING, args : Seq(Int)])
                              /\ \A I \in Elements(p.body[b]) :
                                   I.id > Len(p.succs) /\ (I.op \in Loading => I.args = << >>)
  /\ DOMAIN p.cond = {b \in DOMAIN p.succs : Len(p.succs[b]) > 1}
  /\ \A b \in DOMAIN p.cond : p.cond[b] \in Int /\ p.cond[b] > Len(p.succs)
ASSUME DivergenceAssumption == \A p \in Programs : ProgramOK(p) /\ p.succs \in Functions

Body(b) == prog.body[b]
Instructions == UNION {ToSet(Body(b)) : b \in Blocks}
InstructionOf(id) == CHOOSE I \in Instructions : I.id = id
Values == {I.id : I \in Instructions}
LevelOf(id) == IF id \in DOMAIN level THEN level[id] ELSE Uniform

-----------------------------------------------------------------------------
\* Control dependence, once the post-dominator tree is there.

StrictlyPostDominates(a, b) == a # b /\ Dominates(a, b)

DependencesOf(b) == IF b \in DOMAIN cd THEN cd[b] ELSE << >>

\* Mutant: a block never depends on its own branch.
FrontierOfOthers(b) ==
  LET local == [k \in DOMAIN preds[b] |-> [source |-> preds[b][k], target |-> b, via |-> b]]
      entry == IF b = 1 THEN <<[source |-> PseudoEntryBlock, target |-> b, via |-> b]>>
               ELSE << >>
      up == Concatenated([k \in DOMAIN children[b] |-> DependencesOf(children[b][k])])
      kept(deps) == AtPositions(deps, {k \in DOMAIN deps :
                      \/ deps[k].source = PseudoEntryBlock
                      \/ ~Dominates(b, deps[k].source)})
      inherited == kept(up)
  IN  kept(local) \o entry \o [k \in DOMAIN inherited |-> [inherited[k] EXCEPT !.target = b]]

\* ComputePostDominanceFrontierForNode, for a node whose children are done.
FrontierOf(b) ==
  LET local == [k \in DOMAIN preds[b] |-> [source |-> preds[b][k], target |-> b, via |-> b]]
      entry == IF b = 1 THEN <<[source |-> PseudoEntryBlock, target |-> b, via |-> b]>>
               ELSE << >>
      up == Concatenated([k \in DOMAIN children[b] |-> DependencesOf(children[b][k])])
      kept(deps) == AtPositions(deps, {k \in DOMAIN deps :
                      \/ deps[k].source = PseudoEntryBlock
                      \/ ~StrictlyPostDominates(b, deps[k].source)})
      inherited == kept(up)
  IN  kept(local) \o entry \o [k \in DOMAIN inherited |-> [inherited[k] EXCEPT !.target = b]]

\* ComputeForwardGraphFromReverse; the map is visited in an order of its own.
ForwardFrom(reverse, order) ==
  LET all == Concatenated([k \in DOMAIN order |-> reverse[order[k]]])
  IN  [b \in DOMAIN reverse \cup {d.source : d \in Elements(all)} |->
         AtPositions(all, {k \in DOMAIN all : all[k].source = b})]

HasBlock(b) == b \in DOMAIN forward
-----------------------------------------------------------------------------
CFGOrder == Posts(tour.events)
FollowFrom(b) == IF b \in DOMAIN follow THEN follow[b] ELSE 0

\* DataFlowAnalysis::Enqueue for each of items: nothing waits twice.
Enqueue(q, items) ==
  q \o AtPositions(items, {k \in DOMAIN items : /\ items[k] \notin Elements(q)
                                               /\ \A j \in 1 .. k - 1 : items[j] # items[k]})

\* ForwardDataFlowAnalysis::InitializeWorklist with the labels at the end.
ItemsOf(b) == [k \in DOMAIN Body(b) |-> Body(b)[k].id] \o <<-b, b>>
InitialWorklist ==
  Concatenated([k \in DOMAIN CFGOrder |-> ItemsOf(Reverse(CFGOrder)[k])])

\* The users of an id, in the order of the module.
UsersIn(b, id) ==
  LET users == AtPositions(Body(b), {k \in DOMAIN Body(b) : id \in Elements(Body(b)[k].args)})
  IN  [k \in DOMAIN users |-> users[k].id]
        \o (IF b \in DOMAIN prog.cond /\ prog.cond[b] = id THEN <<-b>> ELSE << >>)
UsersOf(id) == Concatenated([b \in Blocks |-> UsersIn(b, id)])

PhisOf(b) ==
  LET phis == AtPositions(Body(b), {k \in DOMAIN Body(b) : Body(b)[k].op = "phi"})
  IN  [k \in DOMAIN phis |-> phis[k].id]
DependentsOf(b) ==
  IF HasBlock(b) THEN [k \in DOMAIN forward[b] |-> forward[b][k].target] ELSE << >>

\* Mutant: what depends on a branch is not told of its condition.
SuccessorsWithoutControl(item) ==
  CASE item < 0 -> << >>
    [] item \in Blocks -> PhisOf(item) \o DependentsOf(item)
    [] OTHER -> UsersOf(item)

\* EnqueueSuccessors: a block's own phis, and the blocks that depend on it.
SuccessorsOf(item) ==
  CASE item < 0 -> DependentsOf(-item)
    [] item \in Blocks -> PhisOf(item) \o DependentsOf(item)
    [] OTHER -> UsersOf(item)
-----------------------------------------------------------------------------
DivInit ==
  /\ prog \in Programs /\ succs = prog.succs /\ analysis \in prog.analyses
  /\ DomInit
  /\ stage = "dominance" /\ worklist = << >>
  /\ cd = [b \in {PseudoEntryBlock} |-> << >>] /\ forward = << >>
  /\ tour = TraversalFrom(1) /\ follow = << >>
  /\ level = [id \in Blocks \cup Values |-> Uniform]
  /\ source = [id \in Blocks \cup Values |-> 0]
  /\ branch = [b \in Blocks |-> 0]

Dominance == DomNext /\ UNCHANGED <<prog, divOnly>>

\* DivergenceAnalysis::InitializeWorklist calls Setup; a function that never
\* exits would stop at the assertion of ComputePostDominanceFrontiers.
Setup ==
  /\ stage = "dominance" /\ phase = "done"
  /\ analysis = "post_dominators" /\ Len(postorder) > 1
  /\ stage' = "frontiers"
  /\ UNCHANGED <<domVars, prog, cd, forward, tour, follow, worklist, level, source, branch>>

\* The first node of the tree, in post-order, whose dependences are not known.
NextNode(node) ==
  LET posts == Posts(walk.events)
  IN  \E k \in DOMAIN posts : /\ posts[k] = node /\ node \notin DOMAIN cd
                              /\ \A j \in 1 .. k - 1 : posts[j] \in DOMAIN cd

\* One node after the other, up to the pseudo exit; then the
\* forward graph, from a map that is visited in an order of its own.
Frontier ==
  /\ stage = "frontiers"
  /\ \E node \in Elements(Posts(walk.events)) :
       /\ NextNode(node)
       /\ IF node # PseudoExit
          THEN /\ cd' = [b \in DOMAIN cd \cup {node} |-> IF b = node THEN FrontierOf(b) ELSE cd[b]]
               /\ UNCHANGED <<stage, forward>>
          ELSE /\ \E order \in {Order, Reverse(Order)} :
                    forward' = ForwardFrom(cd, AtPositions(order, {k \in Blocks : order[k] \in DOMAIN cd}))
               /\ stage' = "traverse" /\ UNCHANGED cd
  /\ UNCHANGED <<domVars, prog, tour, follow, worklist, level, source, branch>>

\* One turn of CFG::ComputePostOrderTraversal.
Tour ==
  /\ stage = "traverse"
  /\ IF tour.stack # << >> THEN tour' = TraversalStep(succs, tour) /\ UNCHANGED stage
     ELSE stage' = "follow" /\ UNCHANGED tour
  /\ UNCHANGED <<domVars, prog, cd, forward, follow, worklist, level, source, branch>>

\* The block at the end of the unconditional branches from the next block; a
\* target not visited yet, as that of a back edge, reads as 0.
Follow ==
  /\ stage = "follow"
  /\ LET done == Cardinality(DOMAIN follow)
         b == CFGOrder[done + 1]
     IN  IF done < Len(CFGOrder)
         THEN /\ follow' = (b :> IF Len(succs[b]) = 1 THEN FollowFrom(succs[b][1]) ELSE b) @@ follow
              /\ UNCHANGED <<stage, worklist>>
         ELSE stage' = "run" /\ worklist' = InitialWorklist /\ UNCHANGED follow
  /\ UNCHANGED <<domVars, prog, cd, forward, tour, level, source, branch>>

\* What a visit leaves of the level, the source and the branch of an item.
Findings == [level : {Uniform, PartiallyUniform, Divergent}, source : Int, branch : Int]
FoundOf(item) ==
  [level |-> LevelOf(item), source |-> source[item],
   branch |-> IF item \in Blocks THEN branch[item] ELSE 0]

\* Mutant: every partially uniform condition counts as reconverged.
TakePromoting(b, found, dep) ==
  LET own == IF dep.source = b THEN found.level ELSE LevelOf(dep.source)
      condition == LevelOf(prog.cond[dep.source])
      seen == IF condition = PartiallyUniform THEN Divergent ELSE condition
  IN  IF own > found.level THEN [found EXCEPT !.level = own, !.source = dep.source]
      ELSE IF dep.source # PseudoEntryBlock /\ seen > found.level
      THEN [level |-> seen, source |-> prog.cond[dep.source], branch |-> dep.source]
      ELSE found

\* VisitBlock, for one dependence of b.
Take(b, found, dep) ==
  LET own == IF dep.source = b THEN found.level ELSE LevelOf(dep.source)
      condition == LevelOf(prog.cond[dep.source])
      reconverged == FollowFrom(dep.via) # FollowFrom(b)
      seen == IF reconverged /\ condition = PartiallyUniform THEN Divergent ELSE condition
  IN  IF own > found.level THEN [found EXCEPT !.level = own, !.source = dep.source]
      ELSE IF dep.source # PseudoEntryBlock /\ seen > found.level
      THEN [level |-> seen, source |-> prog.cond[dep.source], branch |-> dep.source]
      ELSE found

VisitBlock(b) ==
  IF ~HasBlock(b) \/ LevelOf(b) = Divergent THEN FoundOf(b)
  ELSE RunOver([p \in Elements(DependencesOf(b)) \X Findings |-> Take(b, p[2], p[1])],
               FoundOf(b), DependencesOf(b))

\* Mutant: the labels of a phi do not count.
VisitWithoutLabels(I) ==
  LET Root(l) == [level |-> l, source |-> 0, branch |-> 0]
      Highest(found, a) ==
        IF LevelOf(a) > found.level /\ a \notin Blocks
        THEN [found EXCEPT !.level = LevelOf(a), !.source = a] ELSE found
  IN  IF LevelOf(I.id) = Divergent THEN FoundOf(I.id)
      ELSE CASE I.op = "uniform" -> [FoundOf(I.id) EXCEPT !.level = Uniform]
             [] I.op = "flat" -> Root(PartiallyUniform)
             [] I.op = "divergent" -> Root(Divergent)
             [] OTHER -> RunOver([p \in Elements(I.args) \X Findings |-> Highest(p[2], p[1])],
                                 [FoundOf(I.id) EXCEPT !.level = Uniform], I.args)

\* ComputeInstructionDivergence: a load by its variable, the rest by the
\* highest of its operands, the labels of a phi among them.
VisitInstruction(I) ==
  LET Root(l) == [level |-> l, source |-> 0, branch |-> 0]
      Highest(found, a) ==
        IF LevelOf(a) > found.level THEN [found EXCEPT !.level = LevelOf(a), !.source = a]
        ELSE found
  IN  IF LevelOf(I.id) = Divergent THEN FoundOf(I.id)
      ELSE CASE I.op = "uniform" -> [FoundOf(I.id) EXCEPT !.level = Uniform]
             [] I.op = "flat" -> Root(PartiallyUniform)
             [] I.op = "divergent" -> Root(Divergent)
             [] OTHER -> RunOver([p \in Elements(I.args) \X Findings |-> Highest(p[2], p[1])],
                                 [FoundOf(I.id) EXCEPT !.level = Uniform], I.args)

\* One turn of the loop of RunOnce.  A terminator has no level of its own.
Visit ==
  /\ stage = "run" /\ worklist # << >>
  /\ LET item == Head(worklist)
         found == IF item \in Blocks THEN VisitBlock(item)
                  ELSE VisitInstruction(InstructionOf(item))
     IN  IF item < 0
         THEN /\ worklist' = Enqueue(Tail(worklist), SuccessorsOf(item))
              /\ UNCHANGED <<level, source, branch>>
         ELSE /\ level' = [level EXCEPT ![item] = found.level]
              /\ source' = [source EXCEPT ![item] = found.source]
              /\ branch' = IF item \in Blocks THEN [branch EXCEPT ![item] = found.branch]
                           ELSE branch
              /\ worklist' = IF found.level > level[item]
                             THEN Enqueue(Tail(worklist), SuccessorsOf(item))
                             ELSE Tail(worklist)
  /\ UNCHANGED <<domVars, prog, stage, cd, forward, tour, follow>>

\* Run's second call of RunOnce finds an empty worklist.
Converged ==
  /\ stage = "run" /\ worklist = << >>
  /\ stage' = "done"
  /\ UNCHANGED <<domVars, prog, cd, forward, tour, follow, worklist, level, source, branch>>

DivNext == Dominance \/ Setup \/ Frontier \/ Tour \/ Follow \/ Visit \/ Converged
DivSpec == DivInit /\ [][DivNext]_divVars /\ WF_divVars(DivNext)
-----------------------------------------------------------------------------
\* The flows of divergence_analysis.h, lines 86 to 91: what the level of an
\* item rests on.
FlowsInto(id) ==
  IF id \in Blocks
  THEN LET sources == {d.source : d \in Elements(cd[id])} \ {PseudoEntryBlock}
       IN  sources \cup {prog.cond[b] : b \in sources \cap DOMAIN prog.cond}
  ELSE Elements(InstructionOf(id).args)

Analyzed == Values \cup (Blocks \cap DOMAIN cd)

\* The two properties of the dominators, while nobody has gone on from them:
\* immediate dominators are those of paths, and so are the tree's answers.
DominatorsAreRight ==
  stage = "dominance" => ImmediateDominatorsAreRight /\ QueriesAreRight

\* Control dependence is that of control_dependence.h, by paths to the exits
\* and through every branch it comes from; only the ends of conditional
\* branches and switches are depended on, as GetConditionID asserts; and each
\* dependence is listed once if no block names a target twice.
ControlDependencesAreRight ==
  stage \in {"run", "done"} =>
    LET exiting == Reached(preds, ToSet(Exits), {})
        avoiding == [a \in Blocks |-> Reached(preds, ToSet(Exits), {a})]
        PostDom(a, b) == b \in exiting /\ b \notin avoiding[a]
        Edges == {<<0, 1>>} \cup UNION {{b} \X ToSet(succs[b]) : b \in Blocks}
        Expected(b) ==
          {[source |-> e[1], target |-> b, via |-> e[2]] :
             e \in {f \in Edges : PostDom(b, f[2])
                                /\ (f[1] \in {PseudoEntryBlock, b} \/ ~PostDom(b, f[1]))}}
    IN  /\ DOMAIN cd = exiting \cup {PseudoEntryBlock}
        /\ \A b \in exiting :
             /\ ToSet(cd[b]) = Expected(b)
             /\ \A d \in ToSet(cd[b]) : d.source # PseudoEntryBlock => d.source \in DOMAIN prog.cond
        /\ (\A b \in Blocks : IsInjective(succs[b])) => \A b \in exiting : IsInjective(cd[b])

\* Nothing gets a level that its flows do not give it: what is not uniform is
\* reached from a load that is not, what is divergent from a divergent load or
\* from a block where invocations have reconverged.
NeverTooDivergent ==
  stage \in {"run", "done"} =>
    LET Into == [x \in Analyzed |-> FlowsInto(x)]
        Flows == [id \in Analyzed |-> {x \in Analyzed : id \in Into[x]}]
        Downstream(R) == Closure(Flows, R)
        Loaded(kind) == {id \in Values : InstructionOf(id).op = kind}
        reconverged == {b \in Blocks \cap Analyzed : \E d \in ToSet(cd[b]) :
                          /\ d.source # PseudoEntryBlock
                          /\ FollowFrom(d.via) # FollowFrom(b)
                          /\ LevelOf(prog.cond[d.source]) # Uniform}
    IN  /\ {x \in Analyzed : level[x] = Divergent}
             \subseteq Downstream(Loaded("divergent") \cup reconverged)
        /\ {x \in Analyzed : level[x] # Uniform}
             \subseteq Downstream(Loaded("divergent") \cup Loaded("flat"))

\* At the end nothing that is not uniform has a uniform item in its flow, but
\* for the labels that a phi names.
NonUniformityFlows ==
  stage = "done" =>
    \A x \in Analyzed : \A id \in FlowsInto(x) :
      LevelOf(id) # Uniform /\ (x \in Values => id \notin Blocks) => level[x] # Uniform

\* What the analysis stands on: the tables have their types.
Nodes == Blocks \cup {PseudoExit}
TraversalOK(s, nodes, root) ==
  /\ s \in [stack : Seq([node : nodes, child : Nat \ {0}]), seen : SUBSET nodes,
            events : Seq({"pre", "post"} \X nodes)]
  /\ IF s.stack = << >> THEN <<"post", root>> \in Elements(s.events) ELSE s.stack[1].node = root

TreeOK ==
  /\ phase \in {"traverse", "refine", "number", "done"}
  /\ graph.root = PseudoExit
  /\ phase = "traverse" => graph.ahead = InvertedSuccessors /\ TraversalOK(walk, Nodes, PseudoExit)
  /\ phase # "traverse" => /\ postorder \in Seq(Nodes)
                           /\ PseudoExit \in Elements(postorder)
  /\ phase \in {"number", "done"} =>
       /\ children \in [Elements(postorder) -> Seq(Elements(postorder))]
       /\ TraversalOK(walk, Elements(postorder), PseudoExit)

Dependences(targets) ==
  [source : Blocks \cup {PseudoEntryBlock}, target : targets, via : Int]
Items == Blocks \cup Values \cup {-b : b \in Blocks}

DivTypeOK ==
  /\ prog \in Programs /\ succs = prog.succs /\ preds = Predecessors(succs, Order)
  /\ stage \in {"dominance", "frontiers", "traverse", "follow", "run", "done"}
  /\ analysis = "post_dominators" => TreeOK
  /\ stage # "dominance" => analysis = "post_dominators" /\ phase = "done"
  /\ \A b \in DOMAIN cd : cd[b] \in Seq(Dependences({b}))
  /\ TraversalOK(tour, Blocks, 1)
  /\ level \in [Blocks \cup Values -> {Uniform, PartiallyUniform, Divergent}]
  /\ source \in [Blocks \cup Values -> Int]
  /\ branch \in [Blocks -> Int]
  /\ worklist \in Seq(Items)

\* Who depends on a block is found from it.
ForwardMirrorsReverse ==
  stage \in {"traverse", "follow", "run", "done"} =>
    /\ \A b \in DOMAIN forward : forward[b] \in Seq(Dependences(Blocks))
    /\ \A x \in Blocks \cap DOMAIN cd :
         /\ HasBlock(x)
         /\ \A d \in Elements(cd[x]) : HasBlock(d.source) /\ d \in Elements(forward[d.source])

\* Whatever may yet have to rise waits, or the terminator does that will tell it.
Waits(x, id) ==
  \/ x \in Elements(worklist)
  \/ x \in Blocks /\ \E d \in Elements(cd[x]) : /\ d.source \in DOMAIN prog.cond
                                               /\ prog.cond[d.source] = id
                                               /\ -d.source \in Elements(worklist)

NonUniformityIsFollowed ==
  /\ stage \notin {"run", "done"} => \A x \in Blocks \cup Values : level[x] = Uniform
  /\ stage = "done" => worklist = << >>
  /\ stage \in {"run", "done"} =>
       \A x \in Analyzed : \A id \in FlowsInto(x) :
         LevelOf(id) # Uniform /\ (x \in Values => id \notin Blocks) /\ level[x] = Uniform =>
           Waits(x, id)

\* The inductive invariant behind NonUniformityFlows.
DivInv == DivTypeOK /\ ForwardMirrorsReverse /\ NonUniformityIsFollowed

\* The analysis ends, dominators first and levels then, endless loops included.
AnalysisEnds ==
  <>(IF analysis = "post_dominators" /\ Exits # << >> THEN stage = "done" ELSE phase = "done")
=============================================================================

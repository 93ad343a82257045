----------------------------- MODULE Dominators -----------------------------
(***************************************************************************)
(* CFA::CalculateDominators (cfa.h), the dominance algorithm of Cooper,    *)
(* Harvey and Kennedy, and its two clients: the dominator trees of the     *)
(* optimizer (dominator_tree.cpp), which hang the function off one         *)
(* placeholder block, and the validator (validate_cfg.cpp), which augments *)
(* the graph so that unreachable blocks and endless loops are covered.     *)
(***************************************************************************)
EXTENDS ControlFlow

CONSTANTS
  Functions,  \* a function is the sequence of its blocks' successors; block 1 is its entry
  Analyses    \* which of the analyses below are run

ASSUME DominatorsAssumption ==
  /\ \A f \in Functions : f # << >> /\ f \in Seq(Seq(DOMAIN f))
  /\ Analyses \subseteq {"dominators", "post_dominators", "validator", "validator_post"}

VARIABLES
  succs,      \* the function
  preds,      \* label2preds_
  analysis,
  graph,      \* its graph: the root, the edges ahead and the edges back
  phase,      \* "traverse", "refine", "number", "done"
  walk,       \* the depth-first traversal under way, of the graph, then of the tree
  postorder,  \* the blocks reached, in postorder
  dominator,  \* block_detail::dominator by postorder index; Undefined when none yet
  at,         \* postorder index of the block the pass is at
  changed,
  children    \* DominatorTreeNode::children_

domVars ==
  <<succs, preds, analysis, graph, phase, walk, postorder, dominator, at, changed, children>>

Blocks == DOMAIN succs
PseudoEntry == 0
PseudoExit == Len(succs) + 1
Order == [b \in Blocks |-> b]
Exits == AtPositions(Order, {b \in Blocks : succs[b] = << >>})

-----------------------------------------------------------------------------
\* Mutant: blocks that are stranded in a loop get no root.
RootsWithoutStranded(blocks, next, back) ==
  AtPositions(blocks, {k \in DOMAIN blocks : back[blocks[k]] = << >>})

\* CFA::TraversalRoots: blocks without predecessors, then those still stranded.
TraversalRoots(blocks, next, back) ==
  LET sources == AtPositions(blocks, {k \in DOMAIN blocks : back[blocks[k]] = << >>})
      AddStranded(b, roots) ==
        IF b \in Reached(next, Elements(roots), {}) THEN roots ELSE Append(roots, b)
  IN  RunOver([p \in Elements(blocks) \X Seq(Elements(blocks)) |-> AddStranded(p[1], p[2])],
              sources, blocks)

Sources == TraversalRoots(Order, succs, preds)
Sinks == TraversalRoots(Reverse(Order), preds, succs)

\* CFA::ComputeAugmentedCFG.
AugmentedSuccessors ==
  [b \in Blocks \cup {PseudoEntry, PseudoExit} |->
     IF b = PseudoEntry THEN Sources
     ELSE IF b = PseudoExit THEN << >>
     ELSE IF b \in Elements(Sinks) THEN <<PseudoExit>> \o succs[b] ELSE succs[b]]
AugmentedPredecessors ==
  [b \in Blocks \cup {PseudoEntry, PseudoExit} |->
     IF b = PseudoEntry THEN << >>
     ELSE IF b = PseudoExit THEN Sinks
     ELSE IF b \in Elements(Sources) THEN <<PseudoEntry>> \o preds[b] ELSE preds[b]]

\* BasicBlockSuccessorHelper::CreateSuccessorMap, forward and inverted.
ForwardSuccessors ==
  [b \in Blocks \cup {PseudoEntry} |-> IF b = PseudoEntry THEN <<1>> ELSE succs[b]]
ForwardPredecessors ==
  [b \in Blocks \cup {PseudoEntry} |->
     IF b = PseudoEntry THEN << >> ELSE IF b = 1 THEN <<PseudoEntry>> \o preds[b] ELSE preds[b]]
InvertedSuccessors ==
  [b \in Blocks \cup {PseudoExit} |-> IF b = PseudoExit THEN Exits ELSE preds[b]]
InvertedPredecessors ==
  [b \in Blocks \cup {PseudoExit} |->
     IF b = PseudoExit THEN << >> ELSE IF succs[b] = << >> THEN <<PseudoExit>> ELSE succs[b]]

\* What each analysis passes to the traversal and to CalculateDominators: the
\* block to start from and the edges to follow, ahead and back.
GraphOf(a) ==
  CASE a = "dominators" ->
         [root |-> PseudoEntry, ahead |-> ForwardSuccessors, back |-> ForwardPredecessors]
    [] a = "post_dominators" ->
         [root |-> PseudoExit, ahead |-> InvertedSuccessors, back |-> InvertedPredecessors]
    [] a = "validator" ->
         [root |-> 1, ahead |-> AugmentedSuccessors, back |-> AugmentedPredecessors]
    [] a = "validator_post" ->
         [root |-> PseudoExit, ahead |-> AugmentedPredecessors, back |-> AugmentedSuccessors]

-----------------------------------------------------------------------------
Undefined == Len(postorder) + 1
IndexOf(b) == CHOOSE i \in DOMAIN postorder : postorder[i] = b

\* The two fingers climb to their common ancestor.
Climb(idoms, fingers) ==
  CASE fingers[1] < fingers[2] -> <<idoms[fingers[1]], fingers[2]>>
    [] fingers[2] < fingers[1] -> <<fingers[1], idoms[fingers[2]]>>
    [] OTHER -> fingers
Intersect(idoms, i, j) ==
  LET turns == 1 .. 2 * Len(postorder)
      indices == DOMAIN postorder
  IN  RunOver([p \in turns \X (indices \X indices) |-> Climb(idoms, p[2])],
              <<i, j>>, [n \in turns |-> n])[1]

\* Indices of the predecessors of b that are reached and have a dominator.
Processed(b) ==
  LET indices == [k \in DOMAIN graph.back[b] |->
                    IF graph.back[b][k] \in Elements(postorder) THEN IndexOf(graph.back[b][k]) ELSE 0]
  IN  AtPositions(indices, {k \in DOMAIN indices : indices[k] # 0 /\ dominator[indices[k]] # Undefined})

DomInit ==
  /\ succs \in Functions /\ preds = Predecessors(succs, Order)
  /\ analysis \in Analyses /\ graph = GraphOf(analysis)
  /\ phase = "traverse" /\ walk = TraversalFrom(graph.root)
  /\ postorder = << >> /\ dominator = << >>
  /\ at = 0 /\ changed = TRUE /\ children = << >>

\* One turn of the loop of DepthFirstTraversal.
Walk ==
  /\ walk.stack # << >>
  /\ walk' = TraversalStep(IF phase = "traverse" THEN graph.ahead ELSE children, walk)
  /\ UNCHANGED <<succs, preds, analysis, graph, phase, postorder, dominator, at, changed, children>>

\* CalculateDominators up to its loop: nothing is known but the root.
Traversed ==
  /\ phase = "traverse" /\ walk.stack = << >>
  /\ postorder' = Posts(walk.events)
  /\ dominator' = [i \in DOMAIN postorder' |->
                     IF i = Len(postorder') THEN i ELSE Len(postorder') + 1]
  /\ phase' = "refine"
  /\ UNCHANGED <<succs, preds, analysis, graph, walk, at, changed, children>>

\* Mutant: changed is not reset.
StartPassUnreset ==
  /\ phase = "refine" /\ at = 0 /\ changed
  /\ changed' = TRUE /\ at' = Len(postorder) - 1
  /\ UNCHANGED <<succs, preds, analysis, graph, phase, walk, postorder, dominator, children>>

\* The head of while (changed).
StartPass ==
  /\ phase = "refine" /\ at = 0 /\ changed
  /\ changed' = FALSE /\ at' = Len(postorder) - 1
  /\ UNCHANGED <<succs, preds, analysis, graph, phase, walk, postorder, dominator, children>>

\* Mutant: the last predecessor decides.
RefineByLast ==
  /\ phase = "refine" /\ at > 0
  /\ LET known == Processed(postorder[at])
     IN  IF known = << >> THEN UNCHANGED <<dominator, changed>>
         ELSE /\ dominator' = [dominator EXCEPT ![at] = Last(known)]
              /\ changed' = (changed \/ dominator[at] # Last(known))
  /\ at' = at - 1
  /\ UNCHANGED <<succs, preds, analysis, graph, phase, walk, postorder, children>>

\* One block of the pass, in reverse postorder after the root.
Refine ==
  /\ phase = "refine" /\ at > 0
  /\ LET known == Processed(postorder[at])
         idom == RunOver([p \in (DOMAIN postorder) \X (DOMAIN postorder) |-> Intersect(dominator, p[1], p[2])],
                         Head(known), Tail(known))
     IN  IF known = << >> THEN UNCHANGED <<dominator, changed>>
         ELSE /\ dominator' = [dominator EXCEPT ![at] = idom]
              /\ changed' = (changed \/ dominator[at] # idom)
  /\ at' = at - 1
  /\ UNCHANGED <<succs, preds, analysis, graph, phase, walk, postorder, children>>

\* DominatorTree::InitializeTree: children in the order of the sorted edges.
ChildrenOf(b) ==
  AtPositions(postorder, {i \in DOMAIN postorder : dominator[i] = IndexOf(b) /\ postorder[i] # b})

\* The validator keeps the edges; the optimizer builds its tree from them and
\* numbers it (DominatorTree::ResetDFNumbering).
Refined ==
  /\ phase = "refine" /\ at = 0 /\ ~changed
  /\ IF analysis \in {"dominators", "post_dominators"}
     THEN /\ phase' = "number" /\ walk' = TraversalFrom(graph.root)
          /\ children' = [b \in ToSet(postorder) |-> ChildrenOf(b)]
     ELSE phase' = "done" /\ UNCHANGED <<walk, children>>
  /\ UNCHANGED <<succs, preds, analysis, graph, postorder, dominator, at, changed>>

Numbered ==
  /\ phase = "number" /\ walk.stack = << >>
  /\ phase' = "done"
  /\ UNCHANGED <<succs, preds, analysis, graph, walk, postorder, dominator, at, changed, children>>

\* DominatorTree::Dominates, by the numbers alone.
Dominates(a, b) ==
  LET Num(kind, c) == CHOOSE k \in DOMAIN walk.events : walk.events[k] = <<kind, c>>
  IN  /\ {a, b} \subseteq ToSet(postorder)
      /\ \/ a = b
         \/ Num("pre", a) < Num("pre", b) /\ Num("post", a) > Num("post", b)

DomNext == Walk \/ Traversed \/ StartPass \/ Refine \/ Refined \/ Numbered
DomSpec == DomInit /\ [][DomNext]_domVars /\ WF_domVars(DomNext)
-----------------------------------------------------------------------------
\* An estimate never sinks back towards its block in a later visit, in either
\* direction of the graph: the passes come to an end.
EstimatesOnlyClimb ==
  [][\A i \in DOMAIN dominator :
       dominator[i] # Undefined => dominator'[i] \in dominator[i] .. Len(postorder)]_dominator

\* When the passes are over every block reached has the dominator that paths
\* give it, and with the validator's augmented graph every block is reached
\* against the edges.
ImmediateDominatorsAreRight ==
  phase = "done" =>
    /\ ToSet(postorder) = Reached(graph.ahead, {graph.root}, {})
    /\ analysis = "validator_post" => Blocks \subseteq ToSet(postorder)
    /\ LET Immediate == ImmediateDominator(graph.ahead, graph.root)
       IN  \A i \in 1 .. Len(postorder) - 1 :
             postorder[dominator[i]] = Immediate[postorder[i]]

\* The answer read off the numbers is dominance in the function itself: from
\* its entry, or towards its exits.
QueriesAreRight ==
  phase = "done" =>
    \A a, b \in Blocks :
      /\ analysis = "dominators" =>
           (Dominates(a, b) <=> OnEveryPath(succs, 1, a, b))
      /\ analysis = "post_dominators" =>
           (Dominates(a, b) <=> /\ b \in Reached(preds, ToSet(Exits), {})
                               /\ b \notin Reached(preds, ToSet(Exits), {a}))
=============================================================================

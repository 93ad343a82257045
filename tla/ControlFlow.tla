---------------------------- MODULE ControlFlow ----------------------------
(***************************************************************************)
(* Control-flow graphs, as cfa.h and cfg.cpp see them: every node has the  *)
(* sequence of its successors.  The traversal is the code's; reachability  *)
(* and dominance by paths are what the analyses are checked against.       *)
(***************************************************************************)
EXTENDS Integers, Sequences, FiniteSetsExt, SequencesExt, Subsequences

\* The set from and all that edges leads to: as many rounds as there are nodes
\* are enough.
Closure(edges, from) ==
  LET after[n \in 0 .. Cardinality(DOMAIN edges)] ==
        IF n = 0 THEN from
        ELSE LET R == after[n-1] IN R \cup UNION {edges[m] : m \in R \cap DOMAIN edges}
  IN  after[Cardinality(DOMAIN edges)]

\* The nodes reached from the set from without entering the set cut.
Reached(next, from, cut) ==
  Closure([m \in DOMAIN next |-> Elements(next[m]) \ cut], from \ cut)

\* Every path from root to b passes through a, and there is one.
OnEveryPath(next, root, a, b) ==
  /\ b \in Reached(next, {root}, {})
  /\ b \notin Reached(next, {root}, {a})

\* For the nodes reached from root, the last of the others on every path to them.
ImmediateDominator(next, root) ==
  LET all == Reached(next, {root}, {})
      missed == [a \in all |-> all \ Reached(next, {root}, {a})]
      above == [b \in all |-> {a \in all \ {b} : b \in missed[a]}]
  IN  [b \in all \ {root} |-> CHOOSE a \in above[b] : above[b] \subseteq above[a] \cup {a}]

\* CFA::DepthFirstTraversal: top of the work list, the child its iterator is at,
\* and the calls of preorder and postorder so far.
TraversalStep(next, s) ==
  LET top == Last(s.stack)
      child == next[top.node][top.child]
      moved == [s.stack EXCEPT ![Len(s.stack)].child = @ + 1]
  IN  IF s.stack = << >> THEN s
      ELSE IF top.child > Len(next[top.node])
      THEN [s EXCEPT !.stack = Front(@), !.events = Append(@, <<"post", top.node>>)]
      ELSE IF child \in s.seen THEN [s EXCEPT !.stack = moved]
      ELSE [stack |-> Append(moved, [node |-> child, child |-> 1]),
            seen |-> s.seen \cup {child},
            events |-> Append(s.events, <<"pre", child>>)]

TraversalFrom(root) ==
  [stack |-> <<[node |-> root, child |-> 1]>>, seen |-> {root}, events |-> << <<"pre", root>> >>]

Posts(events) ==
  LET posts == AtPositions(events, {k \in DOMAIN events : events[k][1] = "post"})
  IN  [k \in DOMAIN posts |-> posts[k][2]]

\* The whole traversal at once; CFG::ComputePostOrderTraversal visits in the same order.
PostOrder(next, root) ==
  LET steps == FoldSet(LAMBDA n, k : k + 1 + Len(next[n]), 0, DOMAIN next)
  IN  Posts(FoldLeft(LAMBDA s, k : TraversalStep(next, s), TraversalFrom(root),
                     [k \in 1 .. steps |-> k]).events)

\* CFG::AddEdges, block by block: the predecessors of every node of next.
Predecessors(next, order) ==
  [b \in DOMAIN next |->
     Concatenated([n \in DOMAIN order |->
       LET a == order[n]
       IN  AtPositions([k \in DOMAIN next[a] |-> a], {k \in DOMAIN next[a] : next[a][k] = b})])]
=============================================================================

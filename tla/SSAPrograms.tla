---------------------------- MODULE SSAPrograms ----------------------------
(* Functions for TLC: a few control-flow graphs, with loads and stores in    *)
(* their blocks.  Blocks are numbered in the order of the function.          *)
EXTENDS Integers, Sequences, FiniteSets, SequencesExt

\* Reverse postorder of the blocks reached from block 1, successors in order:
\* CFG::ComputePostOrderTraversal.
RECURSIVE Visit(_, _)
Visit(succs, s) ==
  LET b == Last(s.stack)
      fresh == SelectSeq(succs[b], LAMBDA c : c \notin s.seen \cup {b})
  IN  IF s.stack = << >> THEN s.post
      ELSE IF fresh # << >>
      THEN Visit(succs, [s EXCEPT !.stack = Append(@, Head(fresh)), !.seen = @ \cup {b}])
      ELSE Visit(succs, [s EXCEPT !.stack = Front(@), !.seen = @ \cup {b}, !.post = Append(@, b)])
ReversePostOrder(succs) == Reverse(Visit(succs, [stack |-> <<1>>, seen |-> {}, post |-> << >>]))

\* CFG::AddEdges, block by block.
PredsOf(succs, b) ==
  FoldLeft(LAMBDA ps, a : ps \o [k \in 1 .. Len(SelectSeq(succs[a], LAMBDA c : c = b)) |-> a],
           << >>, [a \in 1 .. Len(succs) |-> a])

Program(succs, code) ==
  LET blocks == 1 .. Len(succs)
  IN  [blocks |-> blocks, succs |-> [b \in blocks |-> ToSet(succs[b])],
       preds |-> [b \in blocks |-> PredsOf(succs, b)],
       order |-> ReversePostOrder(succs), code |-> code,
       vars |-> {I.var : I \in {J \in UNION {ToSet(code[b]) : b \in blocks} : J.op # "compute"}},
       next |-> 1000]

UndefId == 900
Load(x, b) == [op |-> "load", var |-> x, id |-> 100 * x + b]
Store(x, v) == [op |-> "store", var |-> x, val |-> v]
Compute(b) == [op |-> "compute", id |-> 300 + b]

\* What block b may do with variable 1; 400 + b is a constant.
Nothing(b) == << >>
Reads(b) == <<Load(1, b)>>
Writes(b) == <<Store(1, 400 + b)>>
ReadsThenWrites(b) == <<Load(1, b), Store(1, 400 + b)>>
Counts(b) == <<Load(1, b), Compute(b), Store(1, 300 + b)>>
Contents(b) == {Nothing(b), Reads(b), Writes(b), ReadsThenWrites(b), Counts(b)}

Diamond == << <<2, 3>>, <<4>>, <<4>>, << >> >>
While == << <<2>>, <<3, 4>>, <<2>>, << >> >>
DoWhile == << <<2>>, <<3>>, <<2, 4>>, << >> >>
SameTarget == << <<2, 2>>, <<3>>, <<2, 4>>, << >> >>
Unreached == << <<2>>, <<4>>, <<2>>, << >> >>
Nested == << <<2>>, <<3, 5>>, <<3, 4>>, <<2>>, << >> >>
Swap ==
  Program(While, << <<Store(1, 401), Store(2, 402)>>, <<Load(1, 2)>>,
                    <<Load(1, 3), Load(2, 3), Store(1, 203), Store(2, 103)>>,
                    <<Load(1, 4), Load(2, 4)>> >>)

Small ==
  {Program(g, <<c1, c2, c3, c4>>) :
     g \in {Diamond, While, DoWhile, SameTarget, Unreached}, c1 \in {Nothing(1), Writes(1)},
     c2 \in Contents(2), c3 \in Contents(3), c4 \in {Reads(4), ReadsThenWrites(4)}}

Loops ==
  {Program(Nested, << Writes(1), c2, c3, c4, Reads(5) >>) :
     c2 \in Contents(2), c3 \in Contents(3), c4 \in Contents(4)}

\* Block 6, entered when the inner loop 4, 5 ends, reads and then writes the
\* variable and leaves the outer loop, 2 to 7, or stays in it.
BreakAfterLoop ==
  Program(<< <<2>>, <<3, 8>>, <<4>>, <<5, 6>>, <<4>>, <<7, 8>>, <<2>>, << >> >>,
          << Writes(1), << >>, Writes(3), << >>, << >>, ReadsThenWrites(6), << >>, Reads(8) >>)
=============================================================================

----------------------------- MODULE MCDeadCode -----------------------------
(* Shapes of structured control flow with every choice of what some of their *)
(* blocks do, for entry points and for other functions.                      *)
EXTENDS DeadCodeExecution

\* The variables, and the inputs that conditions and stores take.
V == 101
Private == 102
Out == 103
X == 104
Y == 105

Instr(id, op, args) == [id |-> id, op |-> op, args |-> args, from |-> << >>]
Phi(id, args, from) == [id |-> id, op |-> "phi", args |-> args, from |-> from]

\* What a block does: the ids of its instructions follow from its number.
Stmt(kind, b) ==
  LET id(k) == 100 * (b + 1) + k
  IN  CASE kind = "nothing" -> << >>
        [] kind = "set" -> <<Instr(id(1), "alu", <<X>>), Instr(id(2), "store", <<V, id(1)>>)>>
        [] kind = "count" -> <<Instr(id(1), "load", <<V>>), Instr(id(2), "alu", <<id(1)>>),
                               Instr(id(3), "store", <<V, id(2)>>)>>
        [] kind = "show" -> <<Instr(id(1), "load", <<V>>), Instr(id(2), "store", <<Out, id(1)>>)>>
        [] kind = "chain" -> <<Instr(id(1), "chain", <<V>>), Instr(id(2), "store", <<id(1), Y>>)>>
        [] kind = "pass" -> <<Instr(id(1), "chain", <<V>>), Instr(id(2), "call", <<id(1)>>)>>
        [] kind = "keep" -> <<Instr(id(1), "store", <<Private, X>>)>>
        [] kind = "call" -> <<Instr(id(1), "call", << >>)>>

\* A function of a shape, whose blocks do what kinds says after what is fixed.
Function(shape, kinds, entry) ==
  [succs |-> shape.succs, merge |-> shape.merge, cond |-> shape.cond, exit |-> shape.exit,
   body |-> [b \in DOMAIN shape.succs |->
               (IF b = 1 THEN <<Instr(V, "var", << >>)>> ELSE << >>)
               \o (IF b \in DOMAIN shape.fixed THEN shape.fixed[b] ELSE << >>)
               \o (IF b \in DOMAIN kinds THEN Stmt(kinds[b], b) ELSE << >>)],
   local |-> {V}, private |-> {Private}, output |-> {Out}, inputs |-> {X, Y}, entry |-> entry]

Selection(m) == [merge |-> m, continue |-> 0]
Loop(m, c) == [merge |-> m, continue |-> c]
None == << >>
Start == 1 :> <<Instr(106, "store", <<V, Y>>)>>
Shape(succs, merge, cond, fixed, unreachable) ==
  [succs |-> succs, merge |-> merge, cond |-> cond, fixed |-> fixed,
   exit |-> [b \in DOMAIN succs |-> IF b \in unreachable THEN "unreachable" ELSE "return"]]

IfThen == Shape(<< <<2, 3>>, <<3>>, << >> >>, 1 :> Selection(3), 1 :> X, Start, {})

\* An if and else whose values meet in a phi that may be shown.
IfElse == Shape(<< <<2, 3>>, <<4>>, <<4>>, << >> >>, 1 :> Selection(4), 1 :> X,
                Start @@ (2 :> <<Instr(391, "alu", <<Y>>)>>)
                      @@ (4 :> <<Phi(591, <<391, X>>, <<2, 3>>), Instr(592, "store", <<V, 591>>)>>), {})

\* A loop that counts in a phi, left by its header.
Counting == Shape(<< <<2>>, <<3, 5>>, <<4>>, <<2>>, << >> >>, 2 :> Loop(5, 4), 2 :> 391,
                  Start @@ (2 :> <<Phi(391, <<X, 491>>, <<1, 4>>)>>)
                        @@ (3 :> <<Instr(491, "alu", <<391>>)>>), {})

\* A loop whose body ends it on what the variable holds, without a merge.
Breaking == Shape(<< <<2>>, <<3>>, <<4, 5>>, <<2>>, << >> >>, 2 :> Loop(5, 4), 3 :> 491,
                  Start @@ (3 :> <<Instr(491, "load", <<V>>)>>), {})

\* A loop with an if that continues and work after it, both left from the header.
Continuing == Shape(<< <<2>>, <<3, 7>>, <<4, 5>>, <<6>>, <<6>>, <<2>>, << >> >>,
                    (2 :> Loop(7, 6)) @@ (3 :> Selection(5)), (2 :> 391) @@ (3 :> X),
                    Start @@ (2 :> <<Phi(391, <<Y, 791>>, <<1, 6>>)>>)
                          @@ (6 :> <<Instr(791, "alu", <<391>>)>>), {})

\* The same with an if that merges in the continue block.
Latched == Shape(<< <<2>>, <<3, 6>>, <<4, 5>>, <<5>>, <<2>>, << >> >>,
                 (2 :> Loop(6, 5)) @@ (3 :> Selection(5)), (2 :> 391) @@ (3 :> X),
                 Start @@ (2 :> <<Phi(391, <<Y, 691>>, <<1, 5>>)>>)
                       @@ (5 :> <<Instr(691, "alu", <<391>>)>>), {})

\* A loop that is all there is of a selection.
Guarded == Shape(<< <<2, 6>>, <<3, 5>>, <<4>>, <<2>>, <<6>>, << >> >>,
                 (1 :> Selection(6)) @@ (2 :> Loop(5, 4)), (1 :> X) @@ (2 :> 391),
                 Start @@ (2 :> <<Phi(391, <<Y, 591>>, <<1, 4>>)>>)
                       @@ (4 :> <<Instr(591, "alu", <<391>>)>>), {})

\* A break out of an if with a merge of its own, in a loop with no other way out.
IfBreak == Shape(<< <<2>>, <<3>>, <<4, 5>>, <<7>>, <<6>>, <<2>>, << >> >>,
                 (2 :> Loop(7, 6)) @@ (3 :> Selection(5)), 3 :> 491,
                 Start @@ (3 :> <<Instr(491, "load", <<V>>)>>), {})

\* A loop in a loop.
NestedLoops == Shape(<< <<2>>, <<3, 8>>, <<4, 6>>, <<5>>, <<3>>, <<7>>, <<2>>, << >> >>,
                     (2 :> Loop(8, 7)) @@ (3 :> Loop(6, 5)), (2 :> 391) @@ (3 :> 491),
                     Start @@ (2 :> <<Phi(391, <<X, 891>>, <<1, 7>>)>>)
                           @@ (3 :> <<Phi(491, <<Y, 691>>, <<2, 5>>)>>)
                           @@ (5 :> <<Instr(691, "alu", <<491>>)>>)
                           @@ (7 :> <<Instr(891, "alu", <<391>>)>>), {})

\* Both ways return, or one does, and nothing is ever merged.
Returning == Shape(<< <<2, 3>>, << >>, << >>, << >> >>, 1 :> Selection(4), 1 :> X, Start, {4})

\* A loop that nothing leaves, on one of two ways.
Endless == Shape(<< <<2, 5>>, <<3>>, <<2>>, << >>, <<6>>, << >> >>,
                 (1 :> Selection(6)) @@ (2 :> Loop(4, 3)), 1 :> X, Start, {4})

\* A block that nothing reaches has a value for the phi after an if.
Stray == Shape(<< <<2, 3>>, <<3>>, << >>, <<3>> >>, 1 :> Selection(3), 1 :> X,
               Start @@ (4 :> <<Instr(591, "alu", <<Y>>)>>)
                     @@ (3 :> <<Phi(491, <<X, Y, 591>>, <<1, 2, 4>>), Instr(492, "store", <<V, 491>>)>>), {})

\* A loop that an if leaves at once, with nothing between the two.
HeaderBreaks == Shape(<< <<2>>, <<3>>, <<4, 6>>, <<5>>, <<2>>, << >> >>,
                      (2 :> Loop(6, 5)) @@ (3 :> Selection(4)), 3 :> 491,
                      Start @@ (3 :> <<Instr(491, "load", <<V>>)>>), {})

\* A switch of three cases, of which the first falls through to the second.
Switch == Shape(<< <<2, 3, 4>>, <<3>>, <<5>>, <<5>>, << >> >>, 1 :> Selection(5), 1 :> 291,
                1 :> <<Instr(106, "store", <<V, Y>>), Instr(291, "alu", <<X, Y>>)>>, {})

Some == {"nothing", "set", "show"}
More == Some \cup {"count", "chain", "pass", "keep", "call"}

All(shape, choices) ==
  {Function(shape, kinds, entry) : kinds \in choices, entry \in BOOLEAN}

Choose3(a, A, b, B, c, C) ==
  {(a :> x) @@ (b :> y) @@ (c :> z) : x \in A, y \in B, z \in C}

MCFunctions ==
  All(IfThen, Choose3(1, More, 2, More, 3, More))
  \cup All(IfElse, Choose3(2, Some, 3, More, 4, Some))
  \cup All(Counting, Choose3(3, More, 4, Some, 5, Some))
  \cup All(Counting, Choose3(2, More, 3, {"nothing", "count"}, 5, Some))
  \cup All(HeaderBreaks, Choose3(3, {"nothing", "set", "count"}, 4, {"nothing", "count", "show"}, 6, Some))
  \cup All(Switch, Choose3(2, Some, 3, {"nothing", "count", "chain"}, 5, Some))
  \cup All(Breaking, Choose3(3, {"nothing", "count"}, 4, More, 5, Some))
  \cup All(Continuing, Choose3(4, Some, 5, {"nothing", "show", "keep"}, 7, Some))
  \cup All(Latched, Choose3(4, Some, 5, Some, 6, {"nothing", "show", "call"}))
  \cup All(Guarded, Choose3(3, More, 5, Some, 6, Some))
  \cup All(IfBreak, Choose3(4, Some, 5, {"nothing", "show", "count"}, 7, {"nothing", "show", "pass"}))
  \cup All(NestedLoops, Choose3(4, {"nothing", "count", "show"}, 6, Some, 8, Some))
  \cup All(Returning, Choose3(1, Some, 2, Some, 3, More))
  \cup All(Endless, Choose3(3, Some, 5, More, 6, Some))
  \cup All(Stray, Choose3(2, Some, 3, Some, 4, Some))
=============================================================================

------------------------- MODULE DeadCodeExecution -------------------------
(***************************************************************************)
(* What dead code elimination promises: the function that is left does     *)
(* what the function did, on every input on which that ends.               *)
(***************************************************************************)
EXTENDS DeadCode

CONSTANT
  Fuel  \* the most blocks of a run

Inputs == [func.inputs -> 0 .. 1]
Lookup(env, id) == IF id \in DOMAIN env THEN env[id] ELSE Undef

\* A callee shows the private variables, and shows and changes what it is given.
Called(run, I) ==
  LET given == [k \in DOMAIN I.args |-> Base[I.args[k]]]
      seen == given \o SetToSeq(func.private)
  IN  [run EXCEPT !.out = @ \o [k \in DOMAIN seen |-> run.mem[seen[k]]],
                  !.mem = [v \in DOMAIN @ |-> IF v \in ToSet(given) THEN (@[v] + 2) % 3 ELSE @[v]]]

Assign(run, id, value) == [run EXCEPT !.env = (id :> value) @@ @]

\* Values are those below three; arithmetic with an undefined operand is undefined.
Executed(run, I) ==
  CASE I.op = "alu" -> LET vals == [k \in DOMAIN I.args |-> Lookup(run.env, I.args[k])]
                       IN  Assign(run, I.id, IF Undef \in ToSet(vals) THEN Undef
                                             ELSE FoldLeft(+, 1, vals) % 3)
    [] I.op = "phi" -> Assign(run, I.id, IF run.from \in ToSet(I.from)
                                         THEN Lookup(run.env, I.args[CHOOSE k \in DOMAIN I.from : I.from[k] = run.from])
                                         ELSE Undef)
    [] I.op = "load" -> Assign(run, I.id, run.mem[Base[I.args[1]]])
    [] I.op = "store" -> LET v == Base[I.args[1]]
                             value == Lookup(run.env, I.args[2])
                         IN  [run EXCEPT !.mem[v] = value,
                                         !.out = IF v \in func.output THEN Append(@, value) ELSE @]
    [] I.op = "call" -> Called(run, I)
    [] OTHER -> run

Left(run, b, c) ==
  LET end == EndOf(c, b)
      taken == Lookup(run.env, func.cond[b])
  IN  CASE end.op = "choice" -> [run EXCEPT !.from = b,
                                   !.at = IF taken = Undef THEN 0 ELSE end.to[1 + (taken % Len(end.to))],
                                   !.end = IF taken = Undef THEN "undefined" ELSE @]
        [] end.op = "branch" -> [run EXCEPT !.from = b, !.at = end.to[1]]
        [] OTHER -> [run EXCEPT !.at = 0, !.end = end.op]

\* The execution of one block, and of the function; what the private variables
\* hold in the end is seen by whoever called it.
Step(run, c) ==
  IF run.at = 0 THEN run
  ELSE Left(FoldLeft(Executed, run, c.body[run.at]), run.at, c)

Run(c, input) ==
  LET run == FoldLeft(LAMBDA r, n : Step(r, c),
                      [at |-> 1, from |-> 0, env |-> input, mem |-> [v \in Variables |-> Undef],
                       out |-> << >>, end |-> "running"],
                      [n \in 1 .. Fuel |-> n])
  IN  [out |-> run.out, end |-> run.end,
       private |-> IF func.entry THEN << >> ELSE [v \in func.private |-> run.mem[v]]]

\* Where the function returns, so does what is left of it, with the same
\* outputs in the same order and the same calls: no store, branch or loop that
\* was removed mattered, while aggressive_dead_code_elim_pass.h, line 135, says
\* that control structures are not removed.
SameOutputs ==
  phase = "done" =>
    \A input \in Inputs : LET before == Run(CodeOf(func), input)
                          IN  before.end = "return" => Run(code, input) = before
=============================================================================

------------------------ MODULE DivergenceExecution ------------------------
(***************************************************************************)
(* What the levels promise: two invocations of a shader run the same       *)
(* function on loads that agree where they are uniform.                    *)
(***************************************************************************)
EXTENDS Divergence

LoopFree == \A b \in Blocks : b \notin Reached(succs, ToSet(succs[b]), {})
SwitchFree == \A b \in Blocks : Len(succs[b]) <= 2
Loads == {I \in Instructions : I.op \in {"uniform", "flat", "divergent"}}
Inputs == [{I.id : I \in Loads} -> BOOLEAN]

\* An operand that nothing defines is a constant.
Operand(env, id) == IF id \in DOMAIN env THEN env[id] ELSE FALSE

\* A phi takes the operand that stands before the block that was left; any other
\* instruction says whether an odd number of its operands is true.
ResultOf(I, env, from, input) ==
  CASE I \in Loads -> input[I.id]
    [] I.op = "phi" -> Operand(env, I.args[(CHOOSE k \in DOMAIN I.args :
                                              k % 2 = 0 /\ I.args[k] = from) - 1])
    [] OTHER -> FoldLeft(LAMBDA odd, a : odd # Operand(env, a), FALSE, I.args)

\* One block of a run of a function without loops and switches, from its entry to
\* an exit.
Execute(run, b, input) ==
  IF run.at # b THEN run
  ELSE LET env == FoldLeft(LAMBDA e, I : (I.id :> ResultOf(I, e, run.from, input)) @@ e,
                           run.env, Body(b))
       IN  [env |-> env, blocks |-> run.blocks \cup {b}, from |-> b,
            at |-> CASE succs[b] = << >> -> 0
                     [] Len(succs[b]) = 1 -> succs[b][1]
                     [] OTHER -> IF Operand(env, prog.cond[b]) THEN succs[b][1] ELSE succs[b][2]]

RunOf(input) ==
  FoldLeft(LAMBDA run, b : Execute(run, b, input),
           [env |-> << >>, blocks |-> {}, from |-> 0, at |-> 1], Reverse(CFGOrder))

\* Of invocations that loaded the same uniform data, a uniform block is
\* executed by all or none, and a uniform value is the same wherever it is
\* computed (divergence_analysis.h, lines 33 to 41).
UniformMeansUniform ==
  stage = "done" /\ LoopFree /\ SwitchFree =>
    LET runs == {<<input, RunOf(input)>> : input \in Inputs}
        uniform == {I.id : I \in {J \in Loads : J.op = "uniform"}}
    IN  \A r, s \in runs : (\A id \in uniform : r[1][id] = s[1][id]) =>
          /\ \A b \in Blocks \cap Analyzed :
               level[b] = Uniform => (b \in r[2].blocks <=> b \in s[2].blocks)
          /\ \A id \in Values \cap DOMAIN r[2].env \cap DOMAIN s[2].env :
               level[id] = Uniform => r[2].env[id] = s[2].env[id]
=============================================================================

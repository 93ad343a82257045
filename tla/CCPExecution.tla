---------------------------- MODULE CCPExecution ----------------------------
(***************************************************************************)
(* What the pass is for: the function with its constants replaced behaves  *)
(* as the function before.  When the propagation is over, ReplaceValues    *)
(* rewrites the function and both versions are executed side by side, with *)
(* the same parameters and the same results of the opaque instructions.    *)
(* The execution is the meaning of SPIR-V, not code of the repository.     *)
(***************************************************************************)
EXTENDS CCP

VARIABLES out,     \* the function after ReplaceValues
          mode,    \* "propagate", "run", "stop"
          at,      \* the block being executed
          rest,    \* its instructions still to be executed
          env,     \* the values computed by prog; Unset before
          envOut,  \* the values computed by out
          taken    \* the edges the execution of prog has taken

execVars == <<out, mode, at, rest, env, envOut, taken>>
allVars == <<ccpVars, execVars>>

Unset == -1
Slots == Insts(prog) \cup prog.params

\* ReplaceValues: every use of an id with a constant value names the constant.
ReplaceValues ==
  LET constant(id) == values[id] \in Consts /\ values[id] # id
      inst(i) == [prog.inst[i] EXCEPT !.args =
                    [k \in DOMAIN @ |-> IF constant(@[k]) THEN values[@[k]] ELSE @[k]]]
  IN  [prog EXCEPT !.inst = [i \in Insts(prog) |-> inst(i)]]

\* The value of operand id in environment e.
Read(e, id) == IF id \in Consts THEN Meaning(id) ELSE e[id]

\* The values of the model, and those that a parameter or an opaque instruction
\* may give.
Data == {0, 1, 3}
Given(id) == IF id \in prog.wide THEN Data ELSE {0, 1}

\* The result of instruction i of program p in e; v is what an opaque one reads.
Compute(p, e, i, v) ==
  LET a(k) == Read(e, p.inst[i].args[k])
      op == p.inst[i].op
  IN  CASE op \in {"copy"} -> a(1)
        [] op = "not" -> IF a(1) = 1 THEN 0 ELSE 1
        [] op = "and" -> IF a(1) = 1 /\ a(2) = 1 THEN 1 ELSE 0
        [] op = "or" -> IF a(1) = 1 \/ a(2) = 1 THEN 1 ELSE 0
        [] op = "select" -> IF a(1) = 1 THEN a(2) ELSE a(3)
        [] op = "min32" -> IF a(2) = 1 /\ a(3) = 1 THEN 1 ELSE 0
        [] op = "sin16" -> a(2)
        [] op = "opaque" -> v

\* The label to which the terminator i of p goes in e: of a switch, that of the
\* first case with the value.
Target(p, e, i) ==
  LET I == p.inst[i]
      a == Read(e, I.args[1])
      hits == {k \in DOMAIN I.lits : I.lits[k] = a /\ \A j \in 1..(k-1) : I.lits[j] # a}
  IN  CASE I.op = "br" -> I.labels[1]
        [] I.op = "brcond" -> IF a = 1 THEN I.labels[1] ELSE I.labels[2]
        [] I.op = "switch" ->
             IF hits = {} THEN I.labels[1] ELSE I.labels[1 + (CHOOSE k \in hits : TRUE)]

\* The environment after the phis of block b, entered from block f, of p in e:
\* all of them read the old environment.
PhisApplied(p, e, f, b) ==
  [s \in Slots |->
     IF s \in Elements(p.phis[b])
     THEN Read(e, p.inst[s].args[CHOOSE k \in DOMAIN p.inst[s].labels :
                                   p.inst[s].labels[k] = f])
     ELSE e[s]]

ExecInit ==
  /\ CCPInit
  /\ out = prog
  /\ mode = "propagate"
  /\ at = prog.entry
  /\ rest = << >>
  /\ env = [s \in Slots |-> Unset]
  /\ envOut = env
  /\ taken = {}

\* PropagateConstants rewrites the function only if Run reported a change;
\* the parameters of the execution are then chosen.
ReplaceAndStart ==
  /\ pc = "done"
  /\ mode = "propagate"
  /\ mode' = "run"
  /\ out' = IF changed THEN ReplaceValues ELSE prog
  /\ rest' = prog.rest[prog.entry]
  /\ \E e \in [prog.params -> Data] :
       /\ \A p \in prog.params : e[p] \in Given(p)
       /\ env' = [s \in Slots |-> IF s \in prog.params THEN e[s] ELSE Unset]
  /\ envOut' = env'
  /\ UNCHANGED <<ccpVars, at, taken>>

ExecInst ==
  /\ mode = "run"
  /\ rest # << >>
  /\ LET i == Head(rest)
     IN  /\ ~IsBlockTerminator(prog, i)
         /\ IF HasResult(prog, i) /\ Op(i) # "label"
            THEN \E v \in IF Op(i) = "opaque" THEN Given(i) ELSE {0} :
                   /\ env' = [env EXCEPT ![i] = Compute(prog, env, i, v)]
                   /\ envOut' = [envOut EXCEPT ![i] = Compute(out, envOut, i, v)]
            ELSE UNCHANGED <<env, envOut>>
  /\ rest' = Tail(rest)
  /\ UNCHANGED <<ccpVars, out, mode, at, taken>>

ExecBranch ==
  /\ mode = "run"
  /\ rest # << >>
  /\ IsBranch(prog, Head(rest))
  /\ LET b == Target(prog, env, Head(rest))
     IN  /\ Target(out, envOut, Head(rest)) = b
         /\ at' = b
         /\ taken' = taken \cup {<<at, b>>}
         /\ rest' = prog.rest[b]
         /\ env' = PhisApplied(prog, env, at, b)
         /\ envOut' = PhisApplied(out, envOut, at, b)
  /\ UNCHANGED <<ccpVars, out, mode>>

ExecReturn ==
  /\ mode = "run"
  /\ rest # << >>
  /\ Op(Head(rest)) = "return"
  /\ mode' = "stop"
  /\ UNCHANGED <<ccpVars, out, at, rest, env, envOut, taken>>

ExecNext ==
  \/ CCPNext /\ UNCHANGED execVars
  \/ ReplaceAndStart
  \/ ExecInst
  \/ ExecBranch
  \/ ExecReturn

ExecSpec == ExecInit /\ [][ExecNext]_allVars /\ WF_allVars(CCPNext /\ UNCHANGED execVars)
-----------------------------------------------------------------------------
\* What the pass knows of a value is what every execution computes.
ValuesAreSound ==
  \A s \in Slots : env[s] # Unset /\ values[s] \in Consts => env[s] = Meaning(values[s])

\* An execution only takes edges the propagation found executable, so what
\* the pass never looked at never runs.
ExecutedWasSimulated ==
  mode # "propagate" => at \in simulated /\ taken \subseteq edges

\* The rewritten function computes what the original does and, wherever the
\* original can go, goes there too.
SameExecution ==
  mode # "propagate" =>
    /\ env = envOut
    /\ mode = "run" /\ IsBranch(prog, Head(rest)) =>
         Target(prog, env, Head(rest)) = Target(out, envOut, Head(rest))
-----------------------------------------------------------------------------
\* Every instruction of a block that was visited has a status, and those of the
\* block at hand up to the one that is next.
VisitedHaveStatus ==
  /\ \A b \in simulated : \A k \in DOMAIN Lines(prog, b) : status[Lines(prog, b)[k]] # "none"
  /\ pc = "block" /\ Head(blocks) \notin simulated =>
       LET all == Lines(prog, Head(blocks))
       IN  \A k \in 1 .. Len(all) - Len(todo) : status[all[k]] # "none"

\* What the propagation starts from stays.
GivenIsKept ==
  /\ <<"entry", prog.entry>> \in edges
  /\ \A c \in Consts : values[c] = c
  /\ \A p \in prog.params : values[p] = Varying

\* A 64-bit constant is the value of nothing that is narrower.
WideStaysWide == \A id \in Ids(prog) : values[id] = "wide" => id \in prog.wide

\* What the execution asks of the propagation, beyond its fixpoint.
ReachInv ==
  /\ pc = "done" => blocks = << >> /\ uses = << >>
  /\ VisitedHaveStatus
  /\ GivenIsKept
  /\ WideStaysWide

YieldsValue(i) == HasResult(prog, i) /\ Op(i) # "label"
IsComputed(i) == YieldsValue(i) => env[i] # Unset

\* The execution is at a line of its block, and has computed those before.
Position == Len(prog.rest[at]) - Len(rest)
LinesAreComputed ==
  /\ Position \in 0 .. Len(prog.rest[at]) - 1
  /\ rest \in Seq(Insts(prog))
  /\ \A k \in DOMAIN rest : rest[k] = prog.rest[at][Position + k]
  /\ \A i \in Elements(prog.phis[at]) : IsComputed(i)
  /\ \A k \in 1 .. Position : IsComputed(prog.rest[at][k])

\* A block not executed to its end is on no way to where the execution is.
DominatorsAreComputed ==
  \A a \in prog.blocks :
    (\E i \in Elements(Lines(prog, a)) : ~IsComputed(i)) =>
      \A S \in SUBSET prog.blocks : Avoids(prog, a, S) => at \in S \cup {a}

\* What was computed is known to the pass.
ComputedAreKnown == \A s \in Slots : env[s] # Unset => values[s] # Undef

\* The inductive invariant of the execution.
ExecInv ==
  /\ mode \in {"propagate", "run", "stop"}
  /\ mode = "propagate" => /\ at = prog.entry /\ taken = {}
                           /\ env = [s \in Slots |-> Unset]
  /\ mode # "propagate" =>
       /\ pc = "done"
       /\ out = IF changed THEN ReplaceValues ELSE prog
       /\ env \in [Slots -> Data \cup {Unset}] /\ \A p \in prog.params : env[p] # Unset
       /\ env = envOut
       /\ at \in simulated /\ taken \subseteq edges
       /\ LinesAreComputed
       /\ DominatorsAreComputed
       /\ ComputedAreKnown
       /\ ValuesAreSound
=============================================================================

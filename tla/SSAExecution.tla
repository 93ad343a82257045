---------------------------- MODULE SSAExecution ----------------------------
(***************************************************************************)
(* What SSA construction is for: when it is over, the function is executed *)
(* as it was, with its variables in memory, and beside it the function     *)
(* with its loads replaced and its phis, over the same path and the same   *)
(* computed values.  The execution is the meaning of SPIR-V, not code of   *)
(* the repository.                                                         *)
(***************************************************************************)
EXTENDS SSARewrite

VARIABLES
  at,      \* the block being executed; 0 before the execution
  code,    \* its instructions still to be executed
  memory,  \* the variables
  env,     \* the results of loads and computations
  phiEnv,  \* the phis
  read     \* what the last load read and what replaces it

execVars == <<at, code, memory, env, phiEnv, read>>

Unset == 0
Bits == {1, 2}
Computed == UNION {{I.id : I \in {J \in ToSet(prog.code[b]) : J.op = "compute"}} : b \in prog.blocks}
Entry == Head(prog.order)

\* The value of an id: a constant is its own.
OldValue(e, v) == IF v \in DOMAIN e THEN e[v] ELSE IF v = Undef THEN Unset ELSE v
NewValue(e, f, v) ==
  LET id == Replacement(v)
  IN  IF id \in DOMAIN f THEN f[id] ELSE OldValue(e, id)

\* The phis of block b, entered from block c, read the old values together.
PhisAt(b, c) ==
  LET k == CHOOSE j \in DOMAIN Preds(b) : Preds(b)[j] = c
  IN  [p \in DOMAIN phiEnv |-> IF tables.phis[p].bb = b
                               THEN NewValue(env, phiEnv, PhiArgument(Args(p)[k]))
                               ELSE phiEnv[p]]

ExecInit ==
  /\ SSAInit
  /\ at = 0 /\ code = << >> /\ memory = << >> /\ env = << >> /\ phiEnv = << >>
  /\ read = <<Unset, Unset>>

Start ==
  /\ pc = "done" /\ at = 0
  /\ at' = Entry /\ code' = prog.code[Entry]
  /\ memory' = [x \in prog.vars |-> Unset]
  /\ env' = [i \in LoadsOf(prog) \cup Computed |-> Unset]
  /\ phiEnv' = [p \in Generated |-> Unset]
  /\ UNCHANGED <<ssaVars, read>>

Step(op) == code # << >> /\ Head(code).op = op /\ code' = Tail(code) /\ UNCHANGED <<ssaVars, at, phiEnv>>

ExecCompute ==
  /\ Step("compute")
  /\ \E v \in Bits : env' = [env EXCEPT ![Head(code).id] = v]
  /\ UNCHANGED <<memory, read>>

ExecStore ==
  /\ Step("store")
  /\ memory' = [memory EXCEPT ![Head(code).var] = OldValue(env, Head(code).val)]
  /\ UNCHANGED <<env, read>>

ExecLoad ==
  /\ Step("load")
  /\ LET I == Head(code)
     IN  /\ env' = [env EXCEPT ![I.id] = memory[I.var]]
         /\ read' = <<memory[I.var], NewValue(env, phiEnv, I.id)>>
  /\ UNCHANGED memory

ExecBranch ==
  /\ at # 0 /\ code = << >>
  /\ \E b \in prog.succs[at] :
       at' = b /\ code' = prog.code[b] /\ phiEnv' = PhisAt(b, at)
  /\ UNCHANGED <<ssaVars, memory, env, read>>

ExecNext ==
  \/ SSANext /\ UNCHANGED execVars
  \/ Start \/ ExecCompute \/ ExecStore \/ ExecLoad \/ ExecBranch

ExecSpec == ExecInit /\ [][ExecNext]_<<ssaVars, execVars>> /\ WF_ssaVars(SSANext /\ UNCHANGED execVars)
-----------------------------------------------------------------------------
\* On every path, a load that reads a defined value is replaced by that value.
LoadsReadTheSame == read[1] # Unset => read[1] = read[2]
=============================================================================

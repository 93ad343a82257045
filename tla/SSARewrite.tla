------------------------------ MODULE SSARewrite ------------------------------
(***************************************************************************)
(* SSA construction (source/opt/ssa_rewrite_pass.cpp): loads of function   *)
(* variables are replaced by the values that reach them, with phi          *)
(* candidates where several do.  A candidate in a block one of whose       *)
(* predecessors is still to be scanned is completed at the end.  The       *)
(* recursive calls are frames of a stack; ids do not run out, and no       *)
(* variable holds a pointer.                                               *)
(***************************************************************************)
EXTENDS Integers, Sequences, FiniteSets, SequencesExt, Functions

CONSTANTS
  Programs,  \* [blocks : set of labels, preds : label -> sequence of labels,
             \*  succs : label -> set of labels, order : labels in reverse
             \*  postorder, code : label -> sequence of instructions, vars,
             \*  next : a free id]
  Undef      \* the OpUndef of the one type there is

ASSUME SSAAssumption == Undef \in Nat \ {0}

VARIABLES
  prog,        \* the function
  pc,          \* "scan", "finalize", "done"
  order,       \* the blocks still to be scanned, the current one first
  rest,        \* its instructions still to be scanned
  tables,      \* defs_at_block_, phi_candidates_, load_replacement_
  sealed,      \* sealed_blocks_
  incomplete,  \* incomplete_phis_
  generate,    \* phis_to_generate_
  stack,       \* calls, the innermost last
  ret          \* what the last call returned; 0 when none has

ssaVars == <<prog, pc, order, rest, tables, sealed, incomplete, generate, stack, ret>>

\* A call of GetReachingDef, of AddPhiOperands, of FinalizePhiCandidate.
Def(x, b) == [fn |-> "def", var |-> x, of |-> b]
Operands(p) == [fn |-> "operands", var |-> tables.phis[p].var, of |-> p]
Completion(p) == [fn |-> "completion", var |-> tables.phis[p].var, of |-> p]

LoadsOf(g) == UNION {{I.id : I \in {J \in ToSet(g.code[b]) : J.op = "load"}} : b \in g.blocks}
NoPhi == [var |-> 0, bb |-> 0, args |-> << >>, copyOf |-> 0, complete |-> FALSE, users |-> << >>]
-----------------------------------------------------------------------------
\* Operations on the tables t.

AddUser(t, v, user) ==
  IF v \in DOMAIN t.phis THEN [t EXCEPT !.phis[v].users = Append(@, user)] ELSE t

WriteVariable(t, x, b, v) == AddUser([t EXCEPT !.defs[b][x] = v], v, b)

\* One user of phi p becomes a user of v.
Reroute(t, p, v, user) ==
  LET instead(a) == IF a = p THEN v ELSE a
  IN  IF user \in DOMAIN t.phis
      THEN [t EXCEPT !.phis[user].args = [k \in DOMAIN @ |-> instead(@[k])]]
      ELSE IF user \in prog.blocks THEN WriteVariable(t, t.phis[p].var, user, v)
      ELSE [t EXCEPT !.loads = [l \in DOMAIN @ |-> instead(@[l])]]

ReplacePhiUsersWith(t, p, v) ==
  FoldLeft(LAMBDA s, user : Reroute(s, p, v, user), t, t.phis[p].users)

Merged(t, p) == ToSet(t.phis[p].args) \ {p}
Same(t, p) == IF Merged(t, p) = {} THEN 0 ELSE CHOOSE v \in Merged(t, p) : TRUE
Trivial(t, p) == Cardinality(Merged(t, p)) <= 1

\* TryRemoveTrivialPhi of a trivial phi.
RemoveTrivialPhi(t, p) ==
  ReplacePhiUsersWith([t EXCEPT !.phis[p].copyOf = Same(t, p)], p, Same(t, p))
-----------------------------------------------------------------------------
Top == Last(stack)
Calling(fn) == stack # << >> /\ Top.fn = fn /\ ret = 0
Returning(fn) == stack # << >> /\ Top.fn = fn /\ ret # 0
Call(frame) == stack' = Append(stack, frame) /\ ret' = 0
Return(v) == stack' = Front(stack) /\ ret' = v
Preds(b) == prog.preds[b]

SSAInit ==
  /\ prog \in Programs
  /\ pc = "scan"
  /\ order = prog.order
  /\ rest = prog.code[Head(prog.order)]
  /\ tables = [defs |-> [b \in prog.blocks |-> [x \in prog.vars |-> 0]],
               phis |-> << >>,
               loads |-> [l \in LoadsOf(prog) |-> 0]]
  /\ sealed = {} /\ incomplete = << >> /\ generate = << >> /\ stack = << >> /\ ret = 0

\* An instruction that is no load or store.
Skip ==
  /\ pc = "scan" /\ rest # << >> /\ Head(rest).op = "compute"
  /\ rest' = Tail(rest)
  /\ UNCHANGED <<prog, pc, order, tables, sealed, incomplete, generate, stack, ret>>

ProcessStore ==
  /\ pc = "scan" /\ rest # << >> /\ Head(rest).op = "store"
  /\ tables' = WriteVariable(tables, Head(rest).var, Head(order), Head(rest).val)
  /\ rest' = Tail(rest)
  /\ UNCHANGED <<prog, pc, order, sealed, incomplete, generate, stack, ret>>

ProcessLoad ==
  /\ pc = "scan" /\ rest # << >> /\ Head(rest).op = "load" /\ stack = << >> /\ ret = 0
  /\ Call(Def(Head(rest).var, Head(order)))
  /\ UNCHANGED <<prog, pc, order, rest, tables, sealed, incomplete, generate>>

LoadReplaced ==
  /\ pc = "scan" /\ stack = << >> /\ ret # 0
  /\ tables' = AddUser([tables EXCEPT !.loads[Head(rest).id] = ret], ret, Head(rest).id)
  /\ rest' = Tail(rest)
  /\ ret' = 0
  /\ UNCHANGED <<prog, pc, order, sealed, incomplete, generate, stack>>

SealBlock ==
  /\ pc = "scan" /\ rest = << >>
  /\ sealed' = sealed \cup {Head(order)}
  /\ order' = Tail(order)
  /\ IF order' = << >> THEN pc' = "finalize" /\ UNCHANGED rest
     ELSE pc' = pc /\ rest' = prog.code[Head(order')]
  /\ UNCHANGED <<prog, tables, incomplete, generate, stack, ret>>

\* GetReachingDef finds a definition in the block, asks the one predecessor,
\* makes a phi candidate, or finds that there is no definition.
Found ==
  /\ Calling("def")
  /\ tables.defs[Top.of][Top.var] # 0
  /\ Return(tables.defs[Top.of][Top.var])
  /\ UNCHANGED <<prog, pc, order, rest, tables, sealed, incomplete, generate>>

AskPredecessor ==
  /\ Calling("def")
  /\ tables.defs[Top.of][Top.var] = 0 /\ Len(Preds(Top.of)) = 1
  /\ Call(Def(Top.var, Preds(Top.of)[1]))
  /\ UNCHANGED <<prog, pc, order, rest, tables, sealed, incomplete, generate>>

CreatePhiCandidate ==
  /\ Calling("def")
  /\ tables.defs[Top.of][Top.var] = 0 /\ Len(Preds(Top.of)) > 1
  /\ LET p == prog.next + Cardinality(DOMAIN tables.phis)
         phi == [NoPhi EXCEPT !.var = Top.var, !.bb = Top.of]
     IN  /\ tables' = WriteVariable([tables EXCEPT !.phis = [q \in DOMAIN @ \cup {p} |->
                                                              IF q = p THEN phi ELSE @[q]]],
                                    Top.var, Top.of, p)
         /\ Call([fn |-> "operands", var |-> Top.var, of |-> p])
  /\ UNCHANGED <<prog, pc, order, rest, sealed, incomplete, generate>>

Undefined ==
  /\ Calling("def")
  /\ tables.defs[Top.of][Top.var] = 0 /\ Preds(Top.of) = << >>
  /\ tables' = WriteVariable(tables, Top.var, Top.of, Undef)
  /\ Return(Undef)
  /\ UNCHANGED <<prog, pc, order, rest, sealed, incomplete, generate>>

\* The answer is written down in every block asked.
Memoize ==
  /\ Returning("def")
  /\ tables' = WriteVariable(tables, Top.var, Top.of, ret)
  /\ Return(ret)
  /\ UNCHANGED <<prog, pc, order, rest, sealed, incomplete, generate>>

Args(p) == tables.phis[p].args
Arity(p) == Len(Preds(tables.phis[p].bb))

\* Mutant: blocks still to be scanned are asked too.
AskOperandUnsealed ==
  /\ Calling("operands") /\ Len(Args(Top.of)) < Arity(Top.of)
  /\ Call(Def(Top.var, Preds(tables.phis[Top.of].bb)[Len(Args(Top.of)) + 1]))
  /\ UNCHANGED <<prog, pc, order, rest, tables, sealed, incomplete, generate>>

\* The next operand of a new candidate: asked for, or 0 for a block not sealed.
AskOperand ==
  /\ Calling("operands") /\ Len(Args(Top.of)) < Arity(Top.of)
  /\ LET pred == Preds(tables.phis[Top.of].bb)[Len(Args(Top.of)) + 1]
     IN  IF pred \in sealed THEN Call(Def(Top.var, pred)) /\ UNCHANGED tables
         ELSE /\ tables' = [tables EXCEPT !.phis[Top.of].args = Append(@, 0)]
              /\ UNCHANGED <<stack, ret>>
  /\ UNCHANGED <<prog, pc, order, rest, sealed, incomplete, generate>>

OperandFound ==
  /\ Returning("operands")
  /\ LET t == [tables EXCEPT !.phis[Top.of].args = Append(@, ret)]
     IN  tables' = IF ret = Top.of THEN t ELSE AddUser(t, ret, Top.of)
  /\ ret' = 0
  /\ UNCHANGED <<prog, pc, order, rest, sealed, incomplete, generate, stack>>

\* A candidate with an operand still to come waits for the end of the scan.
Postpone ==
  /\ Calling("operands") /\ Len(Args(Top.of)) = Arity(Top.of)
  /\ 0 \in ToSet(Args(Top.of))
  /\ incomplete' = Append(incomplete, Top.of)
  /\ Return(Top.of)
  /\ UNCHANGED <<prog, pc, order, rest, tables, sealed, generate>>

\* One without is removed when it merges nothing, and generated otherwise.
Decide ==
  /\ Calling("operands") /\ Len(Args(Top.of)) = Arity(Top.of)
  /\ 0 \notin ToSet(Args(Top.of))
  /\ IF Trivial(tables, Top.of)
     THEN /\ tables' = RemoveTrivialPhi(tables, Top.of)
          /\ Return(Same(tables, Top.of))
          /\ UNCHANGED generate
     ELSE /\ tables' = [tables EXCEPT !.phis[Top.of].complete = TRUE]
          /\ generate' = Append(generate, Top.of)
          /\ Return(Top.of)
  /\ UNCHANGED <<prog, pc, order, rest, sealed, incomplete>>

\* Mutant: the candidate at the front is not popped.
StartCompletionUnpopped ==
  /\ pc = "finalize" /\ stack = << >> /\ incomplete # << >>
  /\ Call(Completion(Head(incomplete)))
  /\ UNCHANGED <<prog, pc, order, rest, tables, sealed, incomplete, generate>>

\* FinalizePhiCandidates takes the next candidate; its first operand still to
\* come is asked for, or undefined when the block was never scanned.
StartCompletion ==
  /\ pc = "finalize" /\ stack = << >> /\ incomplete # << >>
  /\ incomplete' = Tail(incomplete)
  /\ Call(Completion(Head(incomplete)))
  /\ UNCHANGED <<prog, pc, order, rest, tables, sealed, generate>>

Missing(p) == SelectInSeq(Args(p), LAMBDA a : a = 0)

AskMissing ==
  /\ Calling("completion") /\ Missing(Top.of) # 0
  /\ LET k == Missing(Top.of)
         pred == Preds(tables.phis[Top.of].bb)[k]
     IN  IF pred \in sealed THEN Call(Def(Top.var, pred)) /\ UNCHANGED tables
         ELSE /\ tables' = [tables EXCEPT !.phis[Top.of].args[k] = Undef]
              /\ UNCHANGED <<stack, ret>>
  /\ UNCHANGED <<prog, pc, order, rest, sealed, incomplete, generate>>

MissingFound ==
  /\ Returning("completion")
  /\ tables' = [tables EXCEPT !.phis[Top.of].args[Missing(Top.of)] = ret]
  /\ ret' = 0
  /\ UNCHANGED <<prog, pc, order, rest, sealed, incomplete, generate, stack>>

\* Mutant: the candidate stays marked incomplete.
CompleteUnmarked ==
  /\ Calling("completion") /\ Missing(Top.of) = 0
  /\ IF Trivial(tables, Top.of) THEN tables' = RemoveTrivialPhi(tables, Top.of) /\ UNCHANGED generate
     ELSE UNCHANGED tables /\ generate' = Append(generate, Top.of)
  /\ stack' = << >>
  /\ UNCHANGED <<prog, pc, order, rest, sealed, incomplete, ret>>

Complete ==
  /\ Calling("completion") /\ Missing(Top.of) = 0
  /\ LET t == [tables EXCEPT !.phis[Top.of].complete = TRUE]
     IN  IF Trivial(t, Top.of) THEN tables' = RemoveTrivialPhi(t, Top.of) /\ UNCHANGED generate
         ELSE tables' = t /\ generate' = Append(generate, Top.of)
  /\ stack' = << >>
  /\ UNCHANGED <<prog, pc, order, rest, sealed, incomplete, ret>>

Finalized ==
  /\ pc = "finalize" /\ stack = << >> /\ incomplete = << >>
  /\ pc' = "done"
  /\ UNCHANGED <<prog, order, rest, tables, sealed, incomplete, generate, stack, ret>>

SSANext ==
  \/ Skip \/ ProcessStore \/ ProcessLoad \/ LoadReplaced \/ SealBlock
  \/ Found \/ AskPredecessor \/ CreatePhiCandidate \/ Undefined \/ Memoize
  \/ AskOperand \/ OperandFound \/ Postpone \/ Decide
  \/ StartCompletion \/ AskMissing \/ MissingFound \/ Complete \/ Finalized

SSASpec == SSAInit /\ [][SSANext]_ssaVars /\ WF_ssaVars(SSANext)
-----------------------------------------------------------------------------
\* The loads that were scanned.
Replaced == {l \in DOMAIN tables.loads : tables.loads[l] # 0}

\* The value that replaces a load, or a stored load: GetReplacement.
Replacement(v) ==
  LET chase[n \in 0 .. Cardinality(DOMAIN tables.loads)] ==
        IF n = 0 THEN v
        ELSE IF chase[n - 1] \in Replaced THEN tables.loads[chase[n - 1]]
        ELSE chase[n - 1]
  IN  chase[Cardinality(DOMAIN tables.loads)]

IsReady(p) == tables.phis[p].complete /\ tables.phis[p].copyOf = 0

\* The operand a of a generated phi, through copies: GetPhiArgument.
PhiArgument(a) ==
  LET chase[n \in 0 .. Cardinality(DOMAIN tables.phis)] ==
        IF n = 0 THEN a
        ELSE IF chase[n - 1] \in DOMAIN tables.phis /\ ~IsReady(chase[n - 1])
             THEN tables.phis[chase[n - 1]].copyOf
        ELSE chase[n - 1]
  IN  chase[Cardinality(DOMAIN tables.phis)]
-----------------------------------------------------------------------------
Generated == ToSet(generate)

\* Types; a phi has at most an operand for each predecessor.
SSATypeOK ==
  /\ pc \in {"scan", "finalize", "done"}
  /\ sealed \subseteq prog.blocks
  /\ ToSet(incomplete) \cup Generated \subseteq DOMAIN tables.phis
  /\ tables.defs \in [prog.blocks -> [prog.vars -> Nat]]
  /\ tables.loads \in [LoadsOf(prog) -> Nat]
  /\ \A p \in DOMAIN tables.phis :
       /\ tables.phis[p].bb \in prog.blocks /\ tables.phis[p].var \in prog.vars
       /\ tables.phis[p].args \in Seq(Nat) /\ Len(Args(p)) <= Arity(p)
       /\ tables.phis[p].copyOf \in Nat

\* The assertions: a phi is no copy of nothing, none that was removed is
\* generated, nor twice, and at the end all have all their operands; and every
\* phi that the rewritten function then names is one that is generated.
Settled ==
  /\ \A p \in DOMAIN tables.phis :
       /\ p \in Generated => IsReady(p)
       /\ pc = "done" => /\ p \in Generated \/ tables.phis[p].copyOf # 0
                         /\ Len(Args(p)) = Arity(p) /\ 0 \notin ToSet(Args(p))
  /\ IsInjective(generate)
  /\ pc = "done" =>
       LET named == {PhiArgument(a) : a \in UNION {ToSet(Args(p)) : p \in Generated}}
           final == {Replacement(v) : v \in named \cup Replaced}
       IN  final \cap (DOMAIN tables.phis \cup Replaced \cup {0}) \subseteq Generated

\* The construction ends.  Calls go round loops, into blocks not sealed as well,
\* and completing a candidate may queue others: the comment of GetReachingDef, "Set
\* the value for |bb| to avoid an infinite recursion", and that no definition is
\* lost again, bound both.
SSATerminates == <>(pc = "done")
=============================================================================

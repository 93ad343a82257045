-------------------------------- MODULE CCP --------------------------------
(***************************************************************************)
(* Conditional constant propagation, source/opt/ccp_pass.cpp, on one       *)
(* function: the visit functions that drive the engine of SSAPropagator    *)
(* over the lattice                                                        *)
(*                                                                         *)
(*     Undef  (no entry in values_)                                        *)
(*       |                                                                 *)
(*     the constants                                                       *)
(*       |                                                                 *)
(*     Varying  (kVaryingSSAId)                                            *)
(*                                                                         *)
(* Values are the two truth values and, for 64-bit integers, numbers of    *)
(* two words, where a word holds one bit; "null" is the OpConstantNull of  *)
(* the type, a declaration other than "false" with the same meaning.       *)
(* Assertions are compiled out, as in a release build.                     *)
(***************************************************************************)
EXTENDS SSAPropagator

VARIABLE values      \* values_

ccpVars == <<propVars, values>>

Undef == "undef"
Varying == "varying"
Lattice == Consts \cup {Undef, Varying}

\* The module may declare a 64-bit constant with bits in both words.
ASSUME ConstsAssumption ==
  Consts \in {{"true", "false", "null"}, {"true", "false", "null", "wide"}}

\* The value a constant declaration stands for, and the first of its words.
Meaning(c) == CASE c = "true" -> 1 [] c = "wide" -> 3 [] OTHER -> 0
LowWord(v) == v % 2
Bool(b) == IF b THEN "true" ELSE "false"

Op(i) == prog.inst[i].op
Args(i) == prog.inst[i].args
Value(i, k) == values[Args(i)[k]]
ArgValues(i) == {Value(i, k) : k \in DOMAIN Args(i)}

Result(s, d, v) == [status |-> s, dest |-> d, value |-> v]
MarkVarying == Result("varying", << >>, Varying)
NotInteresting(i) == Result("notInteresting", << >>, values[i])
Assigned(v) == IF v = Varying THEN MarkVarying ELSE Result("interesting", << >>, v)

\* Mutants of VisitPhi: varying arguments are passed over; the last argument
\* wins.
PhiMeet(i, known) ==
  IF known = {} THEN NotInteresting(i)
  ELSE IF \E c \in known : c # Varying /\ known = {c}
  THEN Assigned(CHOOSE c \in known : TRUE) ELSE MarkVarying
VisitPhiPastVarying(i) ==
  PhiMeet(i, {Value(i, k) : k \in {j \in DOMAIN Args(i) : IsPhiArgExecutable(i, j)}}
               \ {Undef, Varying})
VisitPhiLastWins(i) ==
  LET known == {k \in DOMAIN Args(i) : IsPhiArgExecutable(i, k) /\ Value(i, k) # Undef}
  IN  PhiMeet(i, {Value(i, k) : k \in {j \in known : \A m \in known : m <= j}})

\* VisitPhi: the meet over the arguments whose edge is executable and whose
\* value is known.
VisitPhi(i) ==
  LET known == {Value(i, k) : k \in {j \in DOMAIN Args(i) : IsPhiArgExecutable(i, j)}}
                 \ {Undef}
  IN  IF known = {} THEN NotInteresting(i)
      ELSE IF \E c \in known : c # Varying /\ known = {c}
      THEN Assigned(CHOOSE c \in known : TRUE)
      ELSE MarkVarying

ComputeLatticeMeet(i, v) ==
  IF values[i] = Undef THEN v
  ELSE IF values[i] = v THEN v
  ELSE Varying

FoldableOps == {"and", "or", "not", "select", "min32", "sin16"}

\* Mutant: the operand that decides is the wrong one.
ShortCircuitSwapped(i) ==
  IF Op(i) = "and" /\ "true" \in ArgValues(i) THEN "true"
  ELSE IF Op(i) = "or" /\ "false" \in ArgValues(i) THEN "false"
  ELSE Undef

\* FoldBinaryBooleanOpToConstant: one known operand may decide.
ShortCircuit(i) ==
  IF Op(i) = "and" /\ "false" \in ArgValues(i) THEN "false"
  ELSE IF Op(i) = "or" /\ "true" \in ArgValues(i) THEN "true"
  ELSE Undef

\* FoldInstructionToConstant, for the opcodes of the model: operands that are
\* not constant are unknown to it.  min32 and sin16 are extended instructions;
\* their first operand is the import.  The rule for sin16 declines.
FoldToConstant(i) ==
  LET known(k) == Value(i, k) \in Consts
      true(k)  == Meaning(Value(i, k)) = 1
      n == Len(Args(i))
      all == \A k \in 1..n : known(k)
  IN  CASE Op(i) = "not" /\ all -> Bool(~true(1))
        [] Op(i) = "and" /\ all -> Bool(true(1) /\ true(2))
        [] Op(i) = "or" /\ all -> Bool(true(1) \/ true(2))
        [] Op(i) = "select" /\ all -> Bool(IF true(1) THEN true(2) ELSE true(3))
        [] Op(i) = "min32" /\ (\A k \in 2..n : known(k)) -> Bool(true(2) /\ true(3))
        [] Op(i) \in {"and", "or"} /\ ~all -> ShortCircuit(i)
        [] OTHER -> Undef

VisitAssignment(i) ==
  IF Op(i) = "copy"
  THEN CASE Value(i, 1) = Varying -> MarkVarying
         [] Value(i, 1) = Undef -> NotInteresting(i)
         [] OTHER -> Assigned(ComputeLatticeMeet(i, Value(i, 1)))
  ELSE IF Op(i) \notin FoldableOps THEN MarkVarying
  ELSE IF FoldToConstant(i) # Undef THEN Assigned(ComputeLatticeMeet(i, FoldToConstant(i)))
  ELSE IF Varying \in ArgValues(i) THEN MarkVarying
  ELSE IF Undef \in ArgValues(i) THEN NotInteresting(i)
  ELSE MarkVarying

\* Mutant: the null selector, which has no literal words, matches no case.
SwitchTargetNoNull(i, sel) ==
  LET lits == prog.inst[i].lits
      labels == prog.inst[i].labels
      same(k) == LowWord(lits[k]) = LowWord(Meaning(sel))
      case(k) == sel # "null" /\ same(k) /\ \A j \in 1..(k-1) : ~same(j)
  IN  IF \E k \in DOMAIN lits : case(k)
      THEN labels[1 + (CHOOSE k \in DOMAIN lits : case(k))] ELSE labels[1]

\* The label a switch goes to: that of the first case whose literal has the
\* first word of the selector's value, or the default, the first operand.  The
\* test for wide selectors ahead of it (ccp_pass.cpp:243) counts the words of
\* the operand, which is an id and has one, and never leaves; of a literal of
\* two words GetSingleWordOperand gives the first.
SwitchTarget(i, sel) ==
  LET lits == prog.inst[i].lits
      labels == prog.inst[i].labels
      same(k) == LowWord(lits[k]) = LowWord(Meaning(sel))
      case(k) == same(k) /\ \A j \in 1..(k-1) : ~same(j)
  IN  IF \E k \in DOMAIN lits : case(k)
      THEN labels[1 + (CHOOSE k \in DOMAIN lits : case(k))] ELSE labels[1]

\* A branch assigns no value: its result carries the destination it found.
VisitBranch(i) ==
  LET labels == prog.inst[i].labels
      sel == Value(i, 1)
      unknown == Result("varying", << >>, Undef)
      goto(label) == Result("interesting", <<label>>, Undef)
  IN  CASE Op(i) = "br" -> goto(labels[1])
        [] Op(i) \in {"brcond", "switch"} /\ sel \notin Consts -> unknown
        [] Op(i) = "brcond" /\ sel \in Consts ->
             goto(IF Meaning(sel) = 1 THEN labels[1] ELSE labels[2])
        [] Op(i) = "switch" /\ sel \in Consts -> goto(SwitchTarget(i, sel))

VisitInstruction(i) ==
  IF Op(i) = "phi" THEN VisitPhi(i)
  ELSE IF IsBranch(prog, i) THEN VisitBranch(i)
  ELSE IF HasResult(prog, i) THEN VisitAssignment(i)
  ELSE Result("varying", << >>, Undef)
-----------------------------------------------------------------------------
\* CCPPass::Initialize and the head of PropagateConstants.
CCPInit ==
  /\ Init
  /\ values = [id \in Ids(prog) |-> IF id \in Consts THEN id
                                    ELSE IF id \in prog.params THEN Varying
                                    ELSE Undef]

\* Record what the visit of i assigned.
Record(i) ==
  values' = IF ShouldSimulateAgain(i)
            THEN [values EXCEPT ![i] = VisitInstruction(i).value] ELSE values

SimulateBlockInst ==
  /\ SimulateInBlock(VisitInstruction(Head(todo)))
  /\ Record(Head(todo))

SimulateUser ==
  /\ SimulateUse(VisitInstruction(Head(uses)))
  /\ Record(Head(uses))

CCPNext ==
  \/ StartBlock /\ UNCHANGED values
  \/ SimulateBlockInst
  \/ FinishBlock /\ UNCHANGED values
  \/ SimulateUser
  \/ Finish /\ UNCHANGED values

CCPSpec == CCPInit /\ [][CCPNext]_ccpVars /\ WF_ccpVars(CCPNext)
-----------------------------------------------------------------------------
\* Types: the queues hold blocks and instructions of the function, edges end at
\* its blocks, and every id has a place in the lattice.
CCPTypeOK ==
  /\ prog \in Programs
  /\ blocks \in Seq(prog.blocks)
  /\ uses \in Seq(Insts(prog))
  /\ simulated \subseteq prog.blocks
  /\ dns \subseteq Insts(prog)
  /\ edges \subseteq (prog.blocks \cup {"entry"}) \X prog.blocks
  /\ status \in [Insts(prog) -> PropStatus \cup {"none"}]
  /\ todo \in Seq(Insts(prog))
  /\ changed \in BOOLEAN
  /\ pc \in {"pick", "block", "done"}
  /\ values \in [Ids(prog) -> Lattice]

\* The order of the lattice: a value may only move down to Varying.
Below(v, w) == v = w \/ v = Undef \/ w = Varying

\* No value is ever raised, forgotten or swapped for another constant: the
\* comment of ComputeLatticeMeet ("CCP does not allow lateral transitions"),
\* which VisitPhi, that overwrites its entry, relies on silently.
ValuesOnlyDescend ==
  [][\A id \in Ids(prog) : Below(values[id], values'[id])]_ccpVars

Rank(s) == CASE s = "none" -> 0 [] s = "notInteresting" -> 1
             [] s = "interesting" -> 2 [] s = "varying" -> 3

\* The assertion "Invalid lattice transition" of SetStatus.
StatusOnlyRises ==
  [][\A i \in Insts(prog) : Rank(status[i]) <= Rank(status'[i])]_ccpVars

\* What the engine recorded agrees with what the client recorded.
StatusMatchesValue ==
  \A i \in Insts(prog) : HasResult(prog, i) =>
    /\ status[i] \in {"none", "notInteresting"} <=> values[i] = Undef
    /\ status[i] = "varying" <=> values[i] = Varying

\* Queued blocks whose visit has not begun; instructions that will be looked at
\* again without any further change.
Pending == IF pc = "block" THEN Tail(blocks) ELSE blocks
Waiting(i) ==
  \/ i \in Elements(uses)
  \/ pc = "block" /\ i \in Elements(todo)
  \/ Op(i) = "phi" /\ prog.blockOf[i] \in Elements(Pending)

\* What is recorded of i is what a visit would say now.  A terminator whose
\* selector was unknown is final, with all its targets reached.
UpToDate(i) ==
  LET r == VisitInstruction(i)
      b == prog.blockOf[i]
      Reaches(labels) == \A l \in Elements(labels) \ {Exit} : <<b, l>> \in edges
  IN  IF IsBlockTerminator(prog, i) /\ status[i] = "varying"
      THEN Reaches(Successors(prog, b))
      ELSE /\ status[i] = r.status /\ Reaches(r.dest)
           /\ HasResult(prog, i) => values[i] = r.value

\* No update is lost: between two visits, an instruction that was simulated
\* and would now get another result is waiting in one of the two queues.
NoLostUpdate ==
  pc \in {"pick", "done"} =>
    \A i \in Insts(prog) : status[i] # "none" /\ ~Waiting(i) => UpToDate(i)

\* A constant is recorded for an instruction only on evidence that is still
\* there: the argument of a phi it was taken from, the operand of a copy, the
\* operands of a fold, unless they have become varying since.
Evidence(i, c) ==
  \/ /\ Op(i) = "phi"
     /\ \E k \in DOMAIN Args(i) : IsPhiArgExecutable(i, k) /\ Value(i, k) \in {c, Varying}
  \/ Op(i) = "copy" /\ Value(i, 1) # Undef
  \/ /\ Op(i) \in FoldableOps
     /\ FoldToConstant(i) # Undef \/ Varying \in ArgValues(i)

ConstantsAreJustified ==
  \A i \in Insts(prog) : values[i] \in Consts => Evidence(i, values[i])

VaryingIsFinal == \A i \in Insts(prog) : status[i] = "varying" => i \in dns

OnlyResultsHaveValues ==
  \A i \in Insts(prog) : ~HasResult(prog, i) => values[i] = Undef

\* The inductive invariant of the proofs.
CCPInv ==
  /\ CCPTypeOK
  /\ pc = "block" => blocks # << >>
  /\ StatusMatchesValue
  /\ ConstantsAreJustified
  /\ VaryingIsFinal
  /\ OnlyResultsHaveValues

\* An instruction that is retired says what it always will.
RetiredForGood ==
  \A i \in dns : /\ status[i] # "none" /\ UpToDate(i)
                 /\ status[i] = "varying" \/ ~HasOperandsToSimulate(i)

BeingVisited(b) == pc = "block" /\ b = Head(blocks)

\* What is visited is what is left of the block, in order.
TodoIsTheRest ==
  pc = "block" =>
    LET b == Head(blocks)
        all == IF b \in simulated THEN prog.phis[b] ELSE Lines(prog, b)
    IN  \E n \in 0 .. Len(all) : /\ Len(todo) = Len(all) - n
                                 /\ \A k \in DOMAIN todo : todo[k] = all[n + k]

OnlyVisitedHaveStatus ==
  /\ \A i \in Insts(prog) : status[i] # "none" =>
       prog.blockOf[i] \in simulated \/ BeingVisited(prog.blockOf[i])
  /\ \A i \in Elements(uses) : prog.blockOf[i] \in simulated

\* An edge is followed after its source was looked at, and its target is
\* looked at after that.
EdgesAreFollowed ==
  \A e \in edges : /\ e[1] \in simulated \cup {"entry"} \/ BeingVisited(e[1])
                  /\ \/ e[2] \in simulated \cup Elements(Pending)
                     \/ BeingVisited(e[2]) /\ e[1] # e[2]

\* No block is visited, or queued, before those that dominate it.
DominatorsComeFirst ==
  \A a \in prog.blocks \ simulated : \A S \in SUBSET prog.blocks : Avoids(prog, a, S) =>
    /\ simulated \subseteq S
    /\ ~BeingVisited(a) => Elements(blocks) \subseteq S \cup {a}

UpToDateOrWaiting == \A i \in Insts(prog) : status[i] # "none" /\ ~Waiting(i) => UpToDate(i)

\* The inductive invariant behind NoLostUpdate.
FixpointInv ==
  /\ RetiredForGood
  /\ TodoIsTheRest
  /\ OnlyVisitedHaveStatus
  /\ EdgesAreFollowed
  /\ DominatorsComeFirst
  /\ UpToDateOrWaiting

\* The propagation ends.
Terminates == <>(pc = "done")
=============================================================================

----------------------------- MODULE CCPProofs -----------------------------
(***************************************************************************)
(* The constant propagation, for every function and every control-flow     *)
(* graph: CCPInv is inductive, values only descend and the statuses only   *)
(* rise; and the work lists lose no update (FixpointInv is inductive       *)
(* relative to CCPInv, and NoLostUpdate follows).  The second half is that *)
(* the pass keeps the meaning of a function, along its execution.          *)
(***************************************************************************)
EXTENDS CCPExecution, SubsequencesProofs

\* The program explored is well formed.
LEMMA ProgIsWellFormed ==
  ASSUME prog \in Programs
  PROVE  WellFormed(prog)
BY ProgramsAssumption

\* The pieces of well-formedness the proofs use.
LEMMA ProgShape ==
  ASSUME CCPTypeOK
  PROVE  /\ \A b \in prog.blocks : prog.phis[b] \in Seq(Insts(prog))
         /\ \A b \in prog.blocks : prog.rest[b] \in Seq(Insts(prog)) /\ prog.rest[b] # << >>
         /\ \A i \in Insts(prog) : prog.blockOf[i] \in prog.blocks
         /\ \A i \in Insts(prog) : prog.inst[i] \in Instruction(prog)
         /\ prog.order \in Seq(Insts(prog))
         /\ Exit \notin prog.blocks
         /\ prog.entry \in prog.blocks
         /\ \A i \in Insts(prog) :
              /\ Op(i) = "copy" => Len(Args(i)) > 0
              /\ Op(i) \in {"br", "switch"} => Len(prog.inst[i].labels) > 0
              /\ Op(i) = "brcond" => Len(prog.inst[i].labels) = 2
              /\ Op(i) = "switch" =>
                   Len(prog.inst[i].labels) = Len(prog.inst[i].lits) + 1
BY ProgIsWellFormed DEF CCPTypeOK, WellFormed, Op, Args

\* The successors of a block are blocks of its function.
LEMMA SuccessorsType ==
  ASSUME CCPTypeOK, NEW b \in prog.blocks
  PROVE  Successors(prog, b) \in Seq(prog.blocks \cup {Exit})
<1>1. Terminator(prog, b) \in Insts(prog)
  BY ProgShape DEF Terminator
<1>2. prog.inst[Terminator(prog, b)].labels \in Seq(prog.blocks)
  BY <1>1, ProgShape DEF Instruction
<1>3. \A s \in Seq(prog.blocks) : s \in Seq(prog.blocks \cup {Exit})
  OBVIOUS
<1>4. <<Exit>> \in Seq(prog.blocks \cup {Exit})
  OBVIOUS
<1> QED BY <1>2, <1>3, <1>4 DEF Successors

\* AddControlEdges keeps the types of the work list and of the edges.
LEMMA AddControlEdgesType ==
  ASSUME CCPTypeOK, NEW b \in prog.blocks, NEW ts \in Seq(prog.blocks \cup {Exit}),
         NEW q \in Seq(prog.blocks), AddControlEdges(b, ts, q)
  PROVE  /\ edges' \subseteq (prog.blocks \cup {"entry"}) \X prog.blocks
         /\ edges \subseteq edges'
         /\ blocks' \in Seq(prog.blocks)
         /\ q # << >> => blocks' # << >>
<1> DEFINE new == {k \in DOMAIN ts :
                     /\ ts[k] # Exit
                     /\ <<b, ts[k]>> \notin edges
                     /\ \A j \in 1..(k-1) : ts[j] # ts[k]}
<1>1. /\ edges' = edges \cup {<<b, ts[k]>> : k \in new}
      /\ blocks' = q \o AtPositions(ts, new)
  BY DEF AddControlEdges
<1>2. \A k \in new : ts[k] \in prog.blocks
  OBVIOUS
<1>3. AtPositions(ts, new) \in Seq(prog.blocks)
  BY <1>2, AtPositionsType
<1>4. edges \subseteq (prog.blocks \cup {"entry"}) \X prog.blocks
  BY DEF CCPTypeOK
<1>5. {<<b, ts[k]>> : k \in new} \subseteq (prog.blocks \cup {"entry"}) \X prog.blocks
  <2>1. \A k \in new : <<b, ts[k]>> \in (prog.blocks \cup {"entry"}) \X prog.blocks
    BY <1>2
  <2> HIDE DEF new
  <2> QED BY <2>1
<1> HIDE DEF new
<1>6. /\ blocks' \in Seq(prog.blocks)
      /\ q # << >> => blocks' # << >>
  BY <1>1, <1>3
<1> QED BY <1>1, <1>4, <1>5, <1>6
-----------------------------------------------------------------------------
\* The operands of an instruction, and their values.
LEMMA ArgsType ==
  ASSUME CCPTypeOK, NEW i \in Insts(prog)
  PROVE  /\ Args(i) \in Seq(Ids(prog))
         /\ prog.inst[i].labels \in Seq(prog.blocks)
         /\ prog.inst[i].lits \in Seq(0 .. 3)
         /\ \A k \in DOMAIN Args(i) : Value(i, k) \in Lattice
         /\ values[i] \in Lattice
<1>1. /\ Args(i) \in Seq(Ids(prog))
      /\ prog.inst[i].labels \in Seq(prog.blocks)
      /\ prog.inst[i].lits \in Seq(0 .. 3)
  BY ProgShape DEF Instruction, Args
<1>2. \A k \in DOMAIN Args(i) : Args(i)[k] \in Ids(prog)
  BY <1>1
<1>3. i \in Ids(prog)
  BY DEF Ids
<1> QED BY <1>1, <1>2, <1>3 DEF CCPTypeOK, Value

\* An instruction that is simulated has not been given up as varying.
LEMMA NotYetVarying ==
  ASSUME CCPInv, NEW i \in Insts(prog), i \notin dns
  PROVE  /\ status[i] \in {"none", "notInteresting", "interesting"}
         /\ values[i] \in Consts \cup {Undef}
         /\ values[i] \in Consts => Evidence(i, values[i])
<1>1. status[i] \in {"none", "notInteresting", "interesting"}
  BY DEF CCPInv, CCPTypeOK, VaryingIsFinal, PropStatus
<1>2. values[i] \in Lattice
  BY ArgsType DEF CCPInv
<1>3. values[i] # Varying
  BY <1>1 DEF CCPInv, StatusMatchesValue, OnlyResultsHaveValues, Undef, Varying
<1> QED BY <1>1, <1>2, <1>3 DEF CCPInv, Lattice, ConstantsAreJustified

\* What a visit promises the engine.
Promises(i, r) ==
  /\ r.status \in PropStatus
  /\ r.dest \in Seq(prog.blocks)
  /\ r.value \in Lattice
  /\ Below(values[i], r.value)
  /\ HasResult(prog, i) =>
       /\ r.status = "notInteresting" <=> r.value = Undef
       /\ r.status = "varying" <=> r.value = Varying
  /\ ~HasResult(prog, i) => r.value = Undef /\ r.status # "notInteresting"
  /\ r.value \in Consts => Evidence(i, r.value)

\* Undef, Varying and the constants are all different.
LEMMA LatticeValues ==
  /\ Undef \notin Consts
  /\ Varying \notin Consts
  /\ Undef # Varying
BY ConstsAssumption DEF Undef, Varying

\* MarkInstructionVarying keeps the promises of a visit.
LEMMA MarkVaryingPromises ==
  ASSUME CCPInv, NEW i \in Insts(prog), HasResult(prog, i)
  PROVE  Promises(i, MarkVarying)
BY LatticeValues DEF Promises, MarkVarying, Result, PropStatus, Lattice, Below, Undef, Varying

\* So does a visit that assigns a value not above the one recorded.
LEMMA AssignedPromises ==
  ASSUME CCPInv, NEW i \in Insts(prog), HasResult(prog, i),
         NEW c \in Consts \cup {Varying}, Below(values[i], c),
         c \in Consts => Evidence(i, c)
  PROVE  Promises(i, Assigned(c))
<1>1. CASE c = Varying
  BY <1>1, MarkVaryingPromises DEF Assigned
<1>2. CASE c # Varying
  BY <1>2, LatticeValues DEF Promises, Assigned, Result, PropStatus, Lattice, Undef, Varying
<1> QED BY <1>1, <1>2

\* So does a visit without a result, of an instruction without a value.
LEMMA NotInterestingPromises ==
  ASSUME CCPInv, NEW i \in Insts(prog), HasResult(prog, i), values[i] = Undef
  PROVE  Promises(i, NotInteresting(i))
BY LatticeValues DEF Promises, NotInteresting, Result, PropStatus, Lattice, Below, Undef, Varying

\* VisitPhi: a constant is what every known executable argument agrees on.
LEMMA VisitPhiPromises ==
  ASSUME CCPInv, NEW i \in Insts(prog), i \notin dns, Op(i) = "phi"
  PROVE  Promises(i, VisitPhi(i))
<1> DEFINE known == {Value(i, k) : k \in {j \in DOMAIN Args(i) : IsPhiArgExecutable(i, j)}}
                      \ {Undef}
<1>1. HasResult(prog, i)
  BY DEF HasResult, IsBlockTerminator, IsBranch, Op
<1>2. \A k \in DOMAIN Args(i) : Value(i, k) \in Lattice
  BY ArgsType DEF CCPInv
<1>3. \A c \in known : /\ c \in Consts \cup {Varying}
                       /\ \E k \in DOMAIN Args(i) : IsPhiArgExecutable(i, k) /\ Value(i, k) = c
  BY <1>2 DEF Lattice
<1>4. values[i] \in Consts => \E c \in known : c \in {values[i], Varying}
  BY NotYetVarying, LatticeValues DEF Evidence, FoldableOps
<1>5. CASE known = {}
  <2>1. values[i] = Undef
    BY <1>4, <1>5, NotYetVarying
  <2> QED BY <1>1, <1>5, <2>1, NotInterestingPromises DEF VisitPhi
<1>6. CASE \E c \in known : c # Varying /\ known = {c}
  <2>1. PICK c \in known : c # Varying /\ known = {c}
    BY <1>6
  <2>2. VisitPhi(i) = Assigned(c)
    BY <2>1 DEF VisitPhi
  <2>3. Evidence(i, c)
    BY <1>3, <2>1 DEF Evidence
  <2>4. Below(values[i], c)
    BY <1>4, <2>1, NotYetVarying DEF Below
  <2> QED BY <1>1, <1>3, <2>1, <2>2, <2>3, <2>4, AssignedPromises
<1>7. CASE known # {} /\ ~ \E c \in known : c # Varying /\ known = {c}
  <2>1. VisitPhi(i) = MarkVarying
    BY <1>7 DEF VisitPhi
  <2> QED BY <1>1, <2>1, MarkVaryingPromises
<1> QED BY <1>5, <1>6, <1>7

\* Meeting the value of a simulated instruction with v goes down from it.
LEMMA MeetPromises ==
  ASSUME CCPInv, NEW i \in Insts(prog), i \notin dns, HasResult(prog, i),
         NEW v \in Consts, \A c \in Consts : Evidence(i, c)
  PROVE  Promises(i, Assigned(ComputeLatticeMeet(i, v)))
<1>1. /\ ComputeLatticeMeet(i, v) \in Consts \cup {Varying}
      /\ Below(values[i], ComputeLatticeMeet(i, v))
  BY DEF ComputeLatticeMeet, Below
<1> QED BY <1>1, AssignedPromises

\* Folding yields a constant or nothing.
LEMMA FoldType ==
  ASSUME NEW i
  PROVE  FoldToConstant(i) \in Consts \cup {Undef}
<1>1. \A b : Bool(b) \in Consts
  BY ConstsAssumption DEF Bool
<1>2. "true" \in Consts /\ "false" \in Consts
  BY ConstsAssumption
<1> QED BY <1>1, <1>2 DEF FoldToConstant, ShortCircuit

\* VisitAssignment: a copy, a fold or a meet with what is recorded.
LEMMA VisitAssignmentPromises ==
  ASSUME CCPInv, NEW i \in Insts(prog), i \notin dns, Op(i) # "phi", HasResult(prog, i)
  PROVE  Promises(i, VisitAssignment(i))
<1>1. CASE Op(i) = "copy"
  <2>1. Value(i, 1) \in Lattice
    <3>1. 1 \in DOMAIN Args(i)
      BY <1>1, ProgShape, ArgsType DEF CCPInv
    <3> QED BY <3>1, ArgsType DEF CCPInv
  <2>2. CASE Value(i, 1) = Varying
    BY <1>1, <2>2, MarkVaryingPromises, LatticeValues DEF VisitAssignment
  <2>3. CASE Value(i, 1) = Undef
    <3>1. values[i] = Undef
      BY <1>1, <2>3, NotYetVarying DEF Evidence, FoldableOps
    <3> QED BY <1>1, <2>3, <3>1, NotInterestingPromises, LatticeValues DEF VisitAssignment
  <2>4. CASE Value(i, 1) \in Consts
    <3>1. \A c \in Consts : Evidence(i, c)
      BY <1>1, <2>4, LatticeValues DEF Evidence
    <3>2. VisitAssignment(i) = Assigned(ComputeLatticeMeet(i, Value(i, 1)))
      BY <1>1, <2>4, LatticeValues DEF VisitAssignment
    <3> QED BY <2>4, <3>1, <3>2, MeetPromises
  <2> QED BY <2>1, <2>2, <2>3, <2>4 DEF Lattice
<1>2. CASE Op(i) \in FoldableOps /\ FoldToConstant(i) # Undef
  <2>1. FoldToConstant(i) \in Consts
    BY <1>2, FoldType
  <2>2. \A c \in Consts : Evidence(i, c)
    BY <1>2 DEF Evidence, FoldableOps
  <2>3. VisitAssignment(i) = Assigned(ComputeLatticeMeet(i, FoldToConstant(i)))
    BY <1>2 DEF VisitAssignment, FoldableOps
  <2> QED BY <2>1, <2>2, <2>3, MeetPromises
<1>3. CASE /\ Op(i) \in FoldableOps /\ FoldToConstant(i) = Undef
           /\ Varying \notin ArgValues(i) /\ Undef \in ArgValues(i)
  <2>1. values[i] = Undef
    BY <1>3, NotYetVarying DEF Evidence, FoldableOps
  <2>2. VisitAssignment(i) = NotInteresting(i)
    BY <1>3 DEF VisitAssignment, FoldableOps
  <2> QED BY <2>1, <2>2, NotInterestingPromises
<1>4. CASE /\ Op(i) # "copy" /\ ~(Op(i) \in FoldableOps /\ FoldToConstant(i) # Undef)
           /\ ~(/\ Op(i) \in FoldableOps /\ FoldToConstant(i) = Undef
                /\ Varying \notin ArgValues(i) /\ Undef \in ArgValues(i))
  <2>1. VisitAssignment(i) = MarkVarying
    BY <1>4 DEF VisitAssignment
  <2> QED BY <2>1, MarkVaryingPromises
<1> QED BY <1>1, <1>2, <1>3, <1>4

\* VisitBranch records no value and goes to blocks of the function.
LEMMA VisitBranchPromises ==
  ASSUME CCPInv, NEW i \in Insts(prog), IsBranch(prog, i)
  PROVE  Promises(i, VisitBranch(i))
<1> DEFINE labels == prog.inst[i].labels
           lits == prog.inst[i].lits
<1>1. ~HasResult(prog, i) /\ values[i] = Undef
  BY DEF HasResult, IsBlockTerminator, CCPInv, OnlyResultsHaveValues
<1>2. labels \in Seq(prog.blocks) /\ lits \in Seq(0 .. 3)
  BY ArgsType DEF CCPInv
<1>3. Promises(i, Result("varying", << >>, Undef))
  BY <1>1, LatticeValues DEF Promises, Result, PropStatus, Lattice, Below
<1>4. ASSUME NEW b \in prog.blocks PROVE Promises(i, Result("interesting", <<b>>, Undef))
  <2>1. <<b>> \in Seq(prog.blocks)
    BY <1>4, SingletonSequence
  <2> QED BY <1>1, <2>1, LatticeValues DEF Promises, Result, PropStatus, Lattice, Below
<1>5. CCPTypeOK
  BY DEF CCPInv
<1>6. CASE Op(i) = "br"
  <2>1. labels[1] \in prog.blocks
    BY <1>2, <1>5, <1>6, ProgShape
  <2> QED BY <1>4, <1>6, <2>1 DEF VisitBranch
<1>8. CASE Op(i) \in {"brcond", "switch"} /\ Value(i, 1) \notin Consts
  BY <1>3, <1>8 DEF VisitBranch
<1>9. CASE Op(i) = "brcond" /\ Value(i, 1) \in Consts
  <2>1. labels[1] \in prog.blocks /\ labels[2] \in prog.blocks
    BY <1>2, <1>5, <1>9, ProgShape
  <2> QED BY <1>4, <1>9, <2>1 DEF VisitBranch
<1>10. CASE Op(i) = "switch" /\ Value(i, 1) \in Consts
  <2>1. Len(labels) = Len(lits) + 1
    BY <1>5, <1>10, ProgShape
  <2>2. \A k \in DOMAIN lits : labels[1 + k] \in prog.blocks
    BY <1>2, <2>1
  <2>3. labels[1] \in prog.blocks
    BY <1>2, <2>1
  <2> DEFINE same(k) == LowWord(lits[k]) = LowWord(Meaning(Value(i, 1)))
             case(k) == same(k) /\ \A j \in 1..(k-1) : ~same(j)
             dest == IF \E k \in DOMAIN lits : case(k)
                     THEN labels[1 + (CHOOSE k \in DOMAIN lits : case(k))]
                     ELSE labels[1]
  <2>4. dest \in prog.blocks
    BY <2>2, <2>3
  <2>5. VisitBranch(i) = Result("interesting", <<dest>>, Undef)
    BY <1>10 DEF VisitBranch, SwitchTarget
  <2> QED BY <1>4, <2>4, <2>5
<1> QED BY <1>6, <1>8, <1>9, <1>10 DEF IsBranch, Op

\* Whatever the instruction, its visit keeps the promises.
LEMMA VisitPromises ==
  ASSUME CCPInv, NEW i \in Insts(prog), i \notin dns
  PROVE  Promises(i, VisitInstruction(i))
<1>1. CASE ~HasResult(prog, i) /\ ~IsBranch(prog, i)
  <2>1. Op(i) # "phi"
    BY <1>1 DEF HasResult, IsBlockTerminator, IsBranch, Op
  <2>2. VisitInstruction(i) = Result("varying", << >>, Undef)
    BY <1>1, <2>1 DEF VisitInstruction
  <2>3. values[i] = Undef
    BY <1>1 DEF CCPInv, OnlyResultsHaveValues
  <2> QED BY <1>1, <2>2, <2>3, LatticeValues DEF Promises, Result, PropStatus, Lattice, Below
<1>2. CASE IsBranch(prog, i)
  <2>1. Op(i) # "phi"
    BY <1>2 DEF IsBranch, Op
  <2> QED BY <1>2, <2>1, VisitBranchPromises DEF VisitInstruction
<1>3. CASE HasResult(prog, i) /\ ~IsBranch(prog, i)
  BY <1>3, VisitPhiPromises, VisitAssignmentPromises DEF VisitInstruction
<1> QED BY <1>1, <1>2, <1>3
-----------------------------------------------------------------------------
\* When FoldToConstant finds a constant.
CanFold(i) ==
  \/ Op(i) \in {"not", "and", "or", "select"} /\ \A k \in 1..Len(Args(i)) : Value(i, k) \in Consts
  \/ Op(i) = "min32" /\ \A k \in 2..Len(Args(i)) : Value(i, k) \in Consts
  \/ Op(i) = "and" /\ \E k \in DOMAIN Args(i) : Value(i, k) = "false"
  \/ Op(i) = "or" /\ \E k \in DOMAIN Args(i) : Value(i, k) = "true"

\* When a fold depends on which operands: each case of FoldToConstant.
LEMMA FoldCases ==
  ASSUME NEW i
  PROVE  FoldToConstant(i) # Undef <=> CanFold(i)
<1>1. \A b : Bool(b) # Undef
  BY DEF Bool, Undef
<1>2. "true" # Undef /\ "false" # Undef
  BY DEF Undef
<1>3. ShortCircuit(i) # Undef
      <=> (Op(i) = "and" /\ "false" \in ArgValues(i)) \/ (Op(i) = "or" /\ "true" \in ArgValues(i))
  BY <1>2 DEF ShortCircuit
<1> DEFINE all == \A k \in 1..Len(Args(i)) : Value(i, k) \in Consts
<1>4. CASE Op(i) \in {"and", "or"} /\ ~all
  <2>1. FoldToConstant(i) = ShortCircuit(i)
    BY <1>4 DEF FoldToConstant
  <2>2. CanFold(i)
        <=> (Op(i) = "and" /\ "false" \in ArgValues(i)) \/ (Op(i) = "or" /\ "true" \in ArgValues(i))
    BY <1>4 DEF CanFold, ArgValues
  <2> QED BY <1>3, <2>1, <2>2
<1>5. CASE Op(i) \in {"and", "or"} /\ all
  BY <1>1, <1>5 DEF FoldToConstant, CanFold
<1>6. CASE Op(i) \notin {"and", "or"}
  BY <1>1, <1>6 DEF FoldToConstant, CanFold
<1> QED BY <1>4, <1>5, <1>6

\* The same after a step.
LEMMA FoldCasesNext ==
  ASSUME NEW i
  PROVE  (FoldToConstant(i) # Undef <=> CanFold(i))'
BY FoldCases, PTL

\* Evidence for a constant once found stays, as values descend and edges are
\* added.
LEMMA EvidenceStays ==
  ASSUME CCPTypeOK, prog' = prog, edges \subseteq edges',
         NEW i \in Insts(prog), NEW c \in Consts, Evidence(i, c),
         \A id \in Ids(prog) : Below(values[id], values'[id])
  PROVE  Evidence(i, c)'
<1>1. Args(i)' = Args(i) /\ Op(i)' = Op(i)
  BY DEF Args, Op
<1>2. \A k \in DOMAIN Args(i) : Below(Value(i, k), Value(i, k)')
  <2> TAKE k \in DOMAIN Args(i)
  <2>1. Args(i)[k] \in Ids(prog)
    BY ArgsType
  <2> QED BY <1>1, <2>1 DEF Value
<1>3. CASE Op(i) = "phi"
  <2>1. PICK k \in DOMAIN Args(i) : IsPhiArgExecutable(i, k) /\ Value(i, k) \in {c, Varying}
    BY <1>3 DEF Evidence, FoldableOps
  <2>2. Value(i, k)' \in {c, Varying}
    BY <1>2, <2>1, LatticeValues DEF Below
  <2>3. IsPhiArgExecutable(i, k)'
    BY <2>1 DEF IsPhiArgExecutable
  <2> QED BY <1>1, <1>3, <2>2, <2>3 DEF Evidence
<1>4. CASE Op(i) = "copy"
  <2>1. 1 \in DOMAIN Args(i)
    BY <1>4, ProgShape, ArgsType
  <2>2. Value(i, 1)' # Undef
    BY <1>2, <1>4, <2>1, LatticeValues DEF Below, Evidence, FoldableOps
  <2> QED BY <1>1, <1>4, <2>2 DEF Evidence
<1>5. CASE Op(i) \in FoldableOps /\ Varying \in ArgValues(i)'
  BY <1>1, <1>5 DEF Evidence
<1>6. CASE Op(i) \in FoldableOps /\ Varying \notin ArgValues(i)'
  <2>1. \A k \in DOMAIN Args(i) : Value(i, k)' # Varying
    BY <1>1, <1>6 DEF ArgValues
  <2>2. \A k \in DOMAIN Args(i) : Value(i, k) # Undef => Value(i, k)' = Value(i, k)
    BY <1>2, <2>1 DEF Below
  <2>3. \A k \in DOMAIN Args(i) : Value(i, k) # Varying
    BY <1>2, <2>1 DEF Below, Undef, Varying
  <2>4. CanFold(i)
    BY <1>6, <2>3, FoldCases DEF Evidence, FoldableOps, ArgValues
  <2>5. DOMAIN Args(i) = 1..Len(Args(i))
    BY ArgsType
  <2>6. \A k \in DOMAIN Args(i) : Value(i, k) \in Consts => Value(i, k)' \in Consts
    BY <2>2, LatticeValues
  <2>7. \A k \in DOMAIN Args(i) : Value(i, k) \in {"true", "false"} => Value(i, k)' = Value(i, k)
    BY <2>2 DEF Undef
  <2>8. CanFold(i)'
    BY <1>1, <2>4, <2>5, <2>6, <2>7 DEF CanFold
  <2> QED BY <1>1, <1>6, <2>8, FoldCasesNext DEF Evidence
<1> QED BY <1>3, <1>4, <1>5, <1>6 DEF Evidence
-----------------------------------------------------------------------------
\* The users queued are instructions of the function.
LEMMA UsersToSimulateType ==
  ASSUME CCPTypeOK, NEW i, NEW settled
  PROVE  UsersToSimulate(i, settled) \in Seq(Insts(prog))
<1>1. Users(prog, i) \in Seq(Insts(prog))
  BY ProgShape, AtPositionsType DEF Users
<1> QED BY <1>1, AtPositionsType DEF UsersToSimulate

\* What one simulated instruction does to the recorded values and statuses.
Descends ==
  /\ \A id \in Ids(prog) : Below(values[id], values'[id])
  /\ \A j \in Insts(prog) : Rank(status[j]) <= Rank(status'[j])

\* One visit keeps the invariant and moves values down only.
LEMMA SimulateStep ==
  ASSUME CCPInv, NEW i \in Insts(prog), i \notin dns, NEW q \in Seq(Insts(prog)),
         Simulate(i, VisitInstruction(i), q),
         values' = [values EXCEPT ![i] = VisitInstruction(i).value],
         prog' = prog, simulated' = simulated, pc' = pc, todo' \in Seq(Insts(prog))
  PROVE  CCPInv' /\ Descends
<1> DEFINE r == VisitInstruction(i)
<1>1. Promises(i, r)
  BY VisitPromises
<1>2. CCPTypeOK
  BY DEF CCPInv
<1>3. status' = [status EXCEPT ![i] = r.status]
  BY DEF Simulate
<1>4. uses' \in Seq(Insts(prog))
  BY <1>2, UsersToSimulateType DEF Simulate
<1>5. /\ edges' \subseteq (prog.blocks \cup {"entry"}) \X prog.blocks
      /\ edges \subseteq edges'
      /\ blocks' \in Seq(prog.blocks)
      /\ blocks # << >> => blocks' # << >>
  <2>1. prog.blockOf[i] \in prog.blocks
    BY <1>2, ProgShape
  <2>2. Successors(prog, prog.blockOf[i]) \in Seq(prog.blocks \cup {Exit})
    BY <1>2, <2>1, SuccessorsType
  <2>3. r.dest \in Seq(prog.blocks \cup {Exit})
    <3>1. r.dest \in Seq(prog.blocks)
      BY <1>1 DEF Promises
    <3>2. \A s \in Seq(prog.blocks) : s \in Seq(prog.blocks \cup {Exit})
      OBVIOUS
    <3> QED BY <3>1, <3>2
  <2>4. << >> \in Seq(prog.blocks \cup {Exit})
    OBVIOUS
  <2>5. PICK ts \in Seq(prog.blocks \cup {Exit}) : AddControlEdges(prog.blockOf[i], ts, blocks)
    <3> DEFINE ts == IF r.status # "varying" THEN r.dest
                     ELSE IF IsBlockTerminator(prog, i) THEN Successors(prog, prog.blockOf[i])
                     ELSE << >>
    <3>1. ts \in Seq(prog.blocks \cup {Exit})
      BY <2>2, <2>3, <2>4
    <3>2. AddControlEdges(prog.blockOf[i], ts, blocks)
      BY DEF Simulate
    <3> QED BY <3>1, <3>2
  <2>6. blocks \in Seq(prog.blocks)
    BY <1>2 DEF CCPTypeOK
  <2> QED BY <1>2, <2>1, <2>5, <2>6, AddControlEdgesType
<1>6. dns \subseteq dns' /\ dns' \subseteq Insts(prog) /\ (r.status = "varying" => i \in dns')
  BY <1>2 DEF Simulate, CCPTypeOK
<1>7. /\ status \in [Insts(prog) -> PropStatus \cup {"none"}]
      /\ values \in [Ids(prog) -> Lattice]
      /\ r.status \in PropStatus
      /\ r.value \in Lattice
      /\ i \in Ids(prog)
  BY <1>1, <1>2 DEF CCPTypeOK, Promises, Ids
<1>8. changed' \in BOOLEAN
  BY DEF Simulate
<1>9. CCPTypeOK'
  BY <1>2, <1>3, <1>4, <1>5, <1>6, <1>7, <1>8 DEF CCPTypeOK
<1>10. \A id \in Ids(prog) : Below(values[id], values'[id])
  BY <1>1, <1>7 DEF Promises, Below
<1>11. \A j \in Insts(prog) : Rank(status[j]) <= Rank(status'[j])
  <2>1. Rank(status[i]) <= Rank(r.status)
    <3>1. status[i] \in {"none", "notInteresting", "interesting"}
      BY NotYetVarying
    <3>2. CASE status[i] \in {"none", "notInteresting"}
      BY <1>7, <3>2 DEF Rank, PropStatus
    <3>3. CASE status[i] = "interesting" /\ ~HasResult(prog, i)
      BY <1>1, <3>3 DEF Rank, PropStatus, Promises
    <3>4. CASE status[i] = "interesting" /\ HasResult(prog, i)
      <4>1. values[i] # Undef
        BY <3>4 DEF CCPInv, StatusMatchesValue
      <4>2. r.value # Undef
        BY <1>1, <4>1, LatticeValues DEF Promises, Below
      <4> QED BY <1>1, <3>4, <4>2 DEF Rank, PropStatus, Promises
    <3> QED BY <3>1, <3>2, <3>3, <3>4
  <2>2. \A j \in Insts(prog) \ {i} : status'[j] = status[j]
    BY <1>3, <1>7
  <2>3. \A j \in Insts(prog) : Rank(status[j]) \in Int
    BY <1>7 DEF Rank, PropStatus
  <2> QED BY <1>3, <1>7, <2>1, <2>2, <2>3
<1>12. (pc = "block" => blocks # << >>)'
  BY <1>5 DEF CCPInv
<1>13. StatusMatchesValue'
  <2> SUFFICES ASSUME NEW j \in Insts(prog), HasResult(prog, j)
               PROVE  /\ status'[j] \in {"none", "notInteresting"} <=> values'[j] = Undef
                      /\ status'[j] = "varying" <=> values'[j] = Varying
    BY DEF StatusMatchesValue
  <2>1. CASE j = i
    BY <1>1, <1>3, <1>7, <2>1 DEF Promises, PropStatus
  <2>2. CASE j # i
    BY <1>3, <1>7, <2>2 DEF CCPInv, StatusMatchesValue
  <2> QED BY <2>1, <2>2
<1>14. ConstantsAreJustified'
  <2> SUFFICES ASSUME NEW j \in Insts(prog), NEW c \in Consts, values'[j] = c
               PROVE  Evidence(j, c)'
    BY DEF ConstantsAreJustified
  <2>1. Evidence(j, c)
    <3>1. CASE j = i
      BY <1>1, <1>7, <3>1 DEF Promises
    <3>2. CASE j # i
      BY <1>7, <3>2 DEF CCPInv, ConstantsAreJustified
    <3> QED BY <3>1, <3>2
  <2> QED BY <1>2, <1>5, <1>10, <2>1, EvidenceStays
<1>15. VaryingIsFinal'
  BY <1>3, <1>6, <1>7 DEF CCPInv, VaryingIsFinal
<1>16. OnlyResultsHaveValues'
  BY <1>1, <1>7 DEF CCPInv, OnlyResultsHaveValues, Promises
<1>17. CCPInv'
  BY <1>9, <1>12, <1>13, <1>14, <1>15, <1>16 DEF CCPInv
<1> QED BY <1>10, <1>11, <1>17 DEF Descends
-----------------------------------------------------------------------------
\* The initial state satisfies the invariant.
LEMMA InitInv == CCPInit => CCPInv
<1> SUFFICES ASSUME CCPInit PROVE CCPInv
  OBVIOUS
<1> USE DEF CCPInit, Init
<1>1. WellFormed(prog)
  BY ProgIsWellFormed
<1>2. prog.entry \in prog.blocks
  BY <1>1 DEF WellFormed
<1>3. values \in [Ids(prog) -> Lattice]
  BY DEF Lattice
<1>4. <<prog.entry>> \in Seq(prog.blocks)
  BY <1>2, SingletonSequence
<1>5. CCPTypeOK
  <2>1. << >> \in Seq(Insts(prog))
    OBVIOUS
  <2>2. edges \subseteq (prog.blocks \cup {"entry"}) \X prog.blocks
    BY <1>2
  <2>3. status \in [Insts(prog) -> PropStatus \cup {"none"}]
    OBVIOUS
  <2> QED BY <1>3, <1>4, <2>1, <2>2, <2>3 DEF CCPTypeOK
<1>6. \A i \in Insts(prog) : values[i] = Undef
  BY <1>1 DEF WellFormed, Ids
<1> QED
  BY <1>5, <1>6, LatticeValues
     DEF CCPInv, StatusMatchesValue, ConstantsAreJustified, VaryingIsFinal, OnlyResultsHaveValues

\* A step that records nothing and adds at most edges.
LEMMA QuietStep ==
  ASSUME CCPInv, CCPTypeOK', prog' = prog, values' = values, status' = status,
         edges \subseteq edges', dns' = dns, (pc = "block" => blocks # << >>)'
  PROVE  CCPInv' /\ Descends
<1>1. \A id \in Ids(prog) : Below(values[id], values'[id])
  BY DEF Below
<1>2. \A j \in Insts(prog) : Rank(status[j]) <= Rank(status'[j])
  BY DEF CCPInv, CCPTypeOK, PropStatus, Rank
<1>3. ConstantsAreJustified'
  <2> SUFFICES ASSUME NEW j \in Insts(prog), NEW c \in Consts, values'[j] = c
               PROVE  Evidence(j, c)'
    BY DEF ConstantsAreJustified
  <2>1. Evidence(j, c)
    BY DEF CCPInv, ConstantsAreJustified
  <2> QED BY <1>1, <2>1, EvidenceStays DEF CCPInv
<1>4. StatusMatchesValue' /\ VaryingIsFinal' /\ OnlyResultsHaveValues'
  BY DEF CCPInv, StatusMatchesValue, VaryingIsFinal, OnlyResultsHaveValues
<1> QED BY <1>1, <1>2, <1>3, <1>4 DEF CCPInv, Descends

\* Every step keeps the invariant and moves values down only.
LEMMA NextInv == CCPInv /\ [CCPNext]_ccpVars => CCPInv' /\ (Descends \/ UNCHANGED ccpVars)
<1> SUFFICES ASSUME CCPInv, [CCPNext]_ccpVars
             PROVE  CCPInv' /\ (Descends \/ UNCHANGED ccpVars)
  OBVIOUS
<1>0. CCPTypeOK
  BY DEF CCPInv
<1>1. CASE StartBlock /\ UNCHANGED values
  <2>1. Head(blocks) \in prog.blocks
    BY <1>0, <1>1 DEF CCPTypeOK, StartBlock
  <2>2. todo' \in Seq(Insts(prog))
    BY <1>0, <1>1, <2>1, ProgShape DEF StartBlock
  <2>3. CCPTypeOK'
    BY <1>0, <1>1, <2>2 DEF CCPTypeOK, StartBlock
  <2> QED BY <1>1, <2>3, QuietStep DEF StartBlock
<1>2. CASE SimulateBlockInst
  <2>1. /\ todo # << >> /\ pc' = pc /\ prog' = prog /\ simulated' = simulated
        /\ todo' = Tail(todo)
    BY <1>2 DEF SimulateBlockInst, SimulateInBlock
  <2>2. Head(todo) \in Insts(prog) /\ todo' \in Seq(Insts(prog))
    BY <1>0, <2>1 DEF CCPTypeOK
  <2>3. CASE Head(todo) \in dns
    <3>1. /\ uses' = uses /\ values' = values
          /\ UNCHANGED <<blocks, dns, edges, status, changed>>
      BY <1>2, <2>3 DEF SimulateBlockInst, SimulateInBlock, Record, ShouldSimulateAgain, Skip
    <3>2. CCPTypeOK'
      BY <1>0, <2>1, <2>2, <3>1 DEF CCPTypeOK
    <3> QED BY <2>1, <3>1, <3>2, QuietStep DEF CCPInv
  <2>4. CASE Head(todo) \notin dns
    <3>1. /\ Simulate(Head(todo), VisitInstruction(Head(todo)), uses)
          /\ values' = [values EXCEPT ![Head(todo)] = VisitInstruction(Head(todo)).value]
      BY <1>2, <2>4 DEF SimulateBlockInst, SimulateInBlock, Record, ShouldSimulateAgain
    <3>2. uses \in Seq(Insts(prog))
      BY <1>0 DEF CCPTypeOK
    <3> QED BY <2>1, <2>2, <2>4, <3>1, <3>2, SimulateStep
  <2> QED BY <2>3, <2>4
<1>3. CASE FinishBlock /\ UNCHANGED values
  <2>1. blocks # << >> /\ blocks \in Seq(prog.blocks)
    BY <1>0, <1>3 DEF CCPInv, CCPTypeOK, FinishBlock
  <2>2. Head(blocks) \in prog.blocks /\ Tail(blocks) \in Seq(prog.blocks)
    BY <2>1
  <2>3. PICK ts \in Seq(prog.blocks \cup {Exit}) : AddControlEdges(Head(blocks), ts, Tail(blocks))
    <3> DEFINE b == Head(blocks)
               ts == IF b \notin simulated /\ Len(Successors(prog, b)) = 1
                     THEN Successors(prog, b) ELSE << >>
    <3>1. ts \in Seq(prog.blocks \cup {Exit})
      BY <1>0, <2>2, SuccessorsType
    <3>2. AddControlEdges(b, ts, Tail(blocks))
      BY <1>3 DEF FinishBlock
    <3> QED BY <3>1, <3>2
  <2>4. /\ edges' \subseteq (prog.blocks \cup {"entry"}) \X prog.blocks
        /\ edges \subseteq edges'
        /\ blocks' \in Seq(prog.blocks)
    BY <1>0, <2>2, <2>3, AddControlEdgesType
  <2>5. CCPTypeOK'
    BY <1>0, <1>3, <2>2, <2>4 DEF CCPTypeOK, FinishBlock
  <2> QED BY <1>3, <2>4, <2>5, QuietStep DEF FinishBlock
<1>4. CASE SimulateUser
  <2>1. /\ uses # << >> /\ pc = "pick" /\ pc' = pc /\ prog' = prog /\ simulated' = simulated
        /\ todo' = todo
    BY <1>4 DEF SimulateUser, SimulateUse
  <2>2. /\ Head(uses) \in Insts(prog) /\ Tail(uses) \in Seq(Insts(prog))
        /\ todo' \in Seq(Insts(prog))
    BY <1>0, <2>1 DEF CCPTypeOK
  <2>3. CASE Head(uses) \in dns
    <3>1. /\ uses' = Tail(uses) /\ values' = values
          /\ UNCHANGED <<blocks, dns, edges, status, changed>>
      BY <1>4, <2>3 DEF SimulateUser, SimulateUse, Record, ShouldSimulateAgain, Skip
    <3>2. CCPTypeOK'
      BY <1>0, <2>1, <2>2, <3>1 DEF CCPTypeOK
    <3> QED BY <2>1, <3>1, <3>2, QuietStep DEF CCPInv
  <2>4. CASE Head(uses) \notin dns
    <3>1. /\ Simulate(Head(uses), VisitInstruction(Head(uses)), Tail(uses))
          /\ values' = [values EXCEPT ![Head(uses)] = VisitInstruction(Head(uses)).value]
      BY <1>4, <2>4 DEF SimulateUser, SimulateUse, Record, ShouldSimulateAgain
    <3> QED BY <2>1, <2>2, <2>4, <3>1, SimulateStep
  <2> QED BY <2>3, <2>4
<1>5. CASE Finish /\ UNCHANGED values
  <2>1. CCPTypeOK'
    BY <1>0, <1>5 DEF CCPTypeOK, Finish
  <2> QED BY <1>5, <2>1, QuietStep DEF Finish
<1>6. CASE UNCHANGED ccpVars
  <2>1. /\ CCPTypeOK' /\ prog' = prog /\ values' = values /\ status' = status
        /\ edges' = edges /\ dns' = dns /\ (pc = "block" => blocks # << >>)'
    BY <1>0, <1>6 DEF ccpVars, propVars, CCPTypeOK, CCPInv
  <2> QED BY <1>6, <2>1, QuietStep
<1> QED BY <1>1, <1>2, <1>3, <1>4, <1>5, <1>6 DEF CCPNext

\* CCPInv holds in every reachable state of every run on every function: the
\* engine's statuses and the client's values agree, and each constant
\* recorded for an instruction still has its evidence.
THEOREM CCPInvariant == CCPSpec => []CCPInv
<1>1. CCPInit => CCPInv
  BY InitInv
<1>2. CCPInv /\ [CCPNext]_ccpVars => CCPInv'
  BY NextInv
<1> QED BY <1>1, <1>2, PTL DEF CCPSpec

\* The work lists, the tables and the lattice keep their types.
THEOREM CCPTypeCorrect == CCPSpec => []CCPTypeOK
<1>1. CCPInv => CCPTypeOK
  BY DEF CCPInv
<1> QED BY <1>1, CCPInvariant, PTL

\* The statuses of SetStatus and the values of the visit functions agree.
THEOREM StatusesMatch == CCPSpec => []StatusMatchesValue
<1>1. CCPInv => StatusMatchesValue
  BY DEF CCPInv
<1> QED BY <1>1, CCPInvariant, PTL

\* The pass makes no lateral transition and never raises a value, in
\* VisitPhi, which overwrites its entry, no less than in VisitAssignment.
THEOREM ValuesDescend == CCPSpec => ValuesOnlyDescend
<1>1. CCPInv /\ [CCPNext]_ccpVars
        => [\A id \in Ids(prog) : Below(values[id], values'[id])]_ccpVars
  BY NextInv DEF Descends
<1> QED BY <1>1, CCPInvariant, PTL DEF CCPSpec, ValuesOnlyDescend

\* The assertion "Invalid lattice transition" of SetStatus never fails.
THEOREM StatusesRise == CCPSpec => StatusOnlyRises
<1>1. CCPInv /\ [CCPNext]_ccpVars
        => [\A i \in Insts(prog) : Rank(status[i]) <= Rank(status'[i])]_ccpVars
  BY NextInv DEF Descends
<1> QED BY <1>1, CCPInvariant, PTL DEF CCPSpec, StatusOnlyRises
-----------------------------------------------------------------------------
\* What the proofs use of the form of the program: arities and places.
LEMMA SSAShape ==
  ASSUME CCPTypeOK
  PROVE  /\ InSSAForm(prog)
         /\ \A i \in Insts(prog) :
              /\ Op(i) = "phi" => Len(prog.inst[i].labels) = Len(Args(i))
              /\ Op(i) \in {"not", "copy", "brcond", "switch"} => Len(Args(i)) >= 1
              /\ Op(i) \in {"and", "or"} => Len(Args(i)) = 2
              /\ Op(i) \in {"select", "min32"} => Len(Args(i)) = 3
         /\ \A b \in prog.blocks : /\ prog.phis[b] \in Seq(Insts(prog))
                                   /\ Lines(prog, b) \in Seq(Insts(prog))
                                   /\ \A k \in DOMAIN prog.phis[b] : Op(prog.phis[b][k]) = "phi"
<1>1. WellFormed(prog) /\ InSSAForm(prog)
  BY ProgramsAssumption DEF CCPTypeOK
<1>2. \A i \in Insts(prog) : prog.inst[i] \in Instruction(prog)
  BY ProgShape
<1>3. \A i \in Insts(prog) : Args(i) \in Seq(Ids(prog)) /\ prog.inst[i].labels \in Seq(prog.blocks)
  BY ArgsType
<1>4. \A i \in Insts(prog) :
        /\ Op(i) = "phi" => Len(prog.inst[i].labels) = Len(Args(i))
        /\ Op(i) \in {"copy", "brcond", "switch"} => Len(Args(i)) > 0
        /\ Op(i) \in DOMAIN Arity => Len(Args(i)) = Arity[Op(i)]
  BY <1>1 DEF WellFormed, Op, Args
<1>5. \A b \in prog.blocks : /\ prog.phis[b] \in Seq(Insts(prog))
                             /\ Lines(prog, b) \in Seq(Insts(prog))
  BY ProgShape DEF Lines
<1>6. \A b \in prog.blocks : \A k \in DOMAIN prog.phis[b] : Op(prog.phis[b][k]) = "phi"
  BY <1>1 DEF WellFormed, Op
<1>7. /\ "not" \in DOMAIN Arity /\ Arity["not"] = 1
      /\ "and" \in DOMAIN Arity /\ Arity["and"] = 2
      /\ "or" \in DOMAIN Arity /\ Arity["or"] = 2
      /\ "select" \in DOMAIN Arity /\ Arity["select"] = 3
      /\ "min32" \in DOMAIN Arity /\ Arity["min32"] = 3
  BY DEF Arity
<1>8. \A i \in Insts(prog) : Len(Args(i)) \in Nat
  BY <1>3
<1> HIDE DEF Arity
<1>9. \A i \in Insts(prog) : Op(i) \in {"copy", "brcond", "switch"} => Len(Args(i)) >= 1
  BY <1>4, <1>8
<1>10. \A i \in Insts(prog) : /\ Op(i) = "not" => Len(Args(i)) = 1
                              /\ Op(i) \in {"and", "or"} => Len(Args(i)) = 2
                              /\ Op(i) \in {"select", "min32"} => Len(Args(i)) = 3
  BY <1>4, <1>7
<1> QED BY <1>1, <1>4, <1>5, <1>6, <1>9, <1>10, SMTT(20)

\* The steps after which a visit of i says what it said before.
Unmoved(i) ==
  /\ \A k \in DOMAIN Args(i) :
       /\ Op(i) = "phi" => (IsPhiArgExecutable(i, k)' <=> IsPhiArgExecutable(i, k))
       /\ (Op(i) = "phi" => IsPhiArgExecutable(i, k)) => values'[Args(i)[k]] = values[Args(i)[k]]
  /\ values'[i] \in {values[i], VisitInstruction(i).value}

\* A fold of operands that have not moved.
LEMMA SameFold ==
  ASSUME CCPTypeOK, prog' = prog, NEW i \in Insts(prog),
         \A k \in DOMAIN Args(i) : values'[Args(i)[k]] = values[Args(i)[k]]
  PROVE  FoldToConstant(i)' = FoldToConstant(i) /\ ArgValues(i)' = ArgValues(i)
<1>1. Args(i)' = Args(i) /\ Op(i)' = Op(i)
  BY DEF Args, Op
<1>2. DOMAIN Args(i) = 1..Len(Args(i)) /\ Len(Args(i)) \in Nat
  BY ArgsType
<1>3. \A k \in 1..Len(Args(i)) : Value(i, k)' = Value(i, k)
  BY <1>1, <1>2 DEF Value
<1>4. ArgValues(i)' = ArgValues(i)
  BY <1>1, <1>2, <1>3 DEF ArgValues
<1>5. ShortCircuit(i)' = ShortCircuit(i)
  BY <1>1, <1>4 DEF ShortCircuit
<1>6. CASE Op(i) = "not"
  <2>1. 1 \in 1..Len(Args(i))
    BY <1>2, <1>6, SSAShape
  <2> QED BY <1>1, <1>3, <1>4, <1>6, <2>1 DEF FoldToConstant
<1>7. CASE Op(i) \in {"and", "or"}
  <2>1. Len(Args(i)) = 2
    BY <1>7, SSAShape
  <2> QED BY <1>1, <1>3, <1>4, <1>5, <1>7, <2>1 DEF FoldToConstant
<1>8. CASE Op(i) \in {"select", "min32"}
  <2>1. Len(Args(i)) = 3
    BY <1>8, SSAShape
  <2>2. CASE Op(i) = "select"
    BY <1>1, <1>3, <1>4, <2>2, <2>1 DEF FoldToConstant
  <2>3. CASE Op(i) = "min32"
    BY <1>1, <1>3, <1>4, <2>3, <2>1 DEF FoldToConstant
  <2> QED BY <1>8, <2>2, <2>3
<1>9. CASE Op(i) \notin {"not", "and", "or", "select", "min32"}
  BY <1>1, <1>4, <1>9 DEF FoldToConstant
<1> QED BY <1>4, <1>6, <1>7, <1>8, <1>9

\* A visit of an instruction whose operands have not moved says the same.
LEMMA SameVisit ==
  ASSUME CCPTypeOK, prog' = prog, NEW i \in Insts(prog), Unmoved(i)
  PROVE  VisitInstruction(i)' = VisitInstruction(i)
<1>1. Args(i)' = Args(i) /\ Op(i)' = Op(i)
  BY DEF Args, Op
<1>2. values'[i] \in {values[i], VisitInstruction(i).value}
  BY DEF Unmoved
<1>3. DOMAIN Args(i) = 1..Len(Args(i)) /\ Len(Args(i)) \in Nat
  BY ArgsType
<1>4. CASE Op(i) = "phi"
  <2> DEFINE ex == {k \in DOMAIN Args(i) : IsPhiArgExecutable(i, k)}
             known == {Value(i, k) : k \in ex} \ {Undef}
  <2>1. ex' = ex
    BY <1>1, <1>4 DEF Unmoved
  <2>2. \A k \in ex : Value(i, k)' = Value(i, k)
    BY <1>1, <1>4 DEF Unmoved, Value
  <2>3. known' = known
    BY <2>1, <2>2
  <2>4. VisitInstruction(i) = VisitPhi(i) /\ VisitInstruction(i)' = VisitPhi(i)'
    BY <1>1, <1>4 DEF VisitInstruction
  <2>5. VisitPhi(i) = IF known = {} THEN NotInteresting(i)
                      ELSE IF \E c \in known : c # Varying /\ known = {c}
                      THEN Assigned(CHOOSE c \in known : TRUE) ELSE MarkVarying
    BY DEF VisitPhi
  <2>6. VisitPhi(i)' = IF known' = {} THEN NotInteresting(i)'
                       ELSE IF \E c \in known' : c # Varying /\ known' = {c}
                       THEN Assigned(CHOOSE c \in known' : TRUE) ELSE MarkVarying
    BY DEF VisitPhi, Assigned, MarkVarying, Result
  <2> HIDE DEF known, ex
  <2>7. CASE known = {}
    BY <1>2, <2>3, <2>4, <2>5, <2>6, <2>7 DEF NotInteresting, Result
  <2>8. CASE known # {}
    BY <2>3, <2>4, <2>5, <2>6, <2>8
  <2> QED BY <2>7, <2>8
<1>5. CASE Op(i) # "phi"
  <2>1. \A k \in 1..Len(Args(i)) : Value(i, k)' = Value(i, k)
    BY <1>1, <1>3, <1>5 DEF Unmoved, Value
  <2>2. FoldToConstant(i)' = FoldToConstant(i) /\ ArgValues(i)' = ArgValues(i)
    BY <1>5, SameFold DEF Unmoved
  <2>3. \A v : VisitInstruction(i) = Assigned(ComputeLatticeMeet(i, v)) =>
                 ComputeLatticeMeet(i, v)' = ComputeLatticeMeet(i, v)
    BY <1>2 DEF ComputeLatticeMeet, Assigned, MarkVarying, Result, Undef, Varying
  <2>4. VisitInstruction(i) = NotInteresting(i) => NotInteresting(i)' = NotInteresting(i)
    BY <1>2 DEF NotInteresting, Result
  <2>5. CASE IsBranch(prog, i)
    <3>1. Op(i) \in {"br", "brcond", "switch"}
      BY <2>5 DEF IsBranch, Op
    <3>2. VisitInstruction(i) = VisitBranch(i) /\ VisitInstruction(i)' = VisitBranch(i)'
      BY <1>1, <1>5, <2>5 DEF VisitInstruction
    <3>3. CASE Op(i) = "br"
      BY <1>1, <3>2, <3>3 DEF VisitBranch, Result
    <3>4. CASE Op(i) \in {"brcond", "switch"}
      <4>1. Value(i, 1)' = Value(i, 1)
        BY <3>4, <1>3, <2>1, SSAShape
      <4>2. \A sel : SwitchTarget(i, sel)' = SwitchTarget(i, sel)
        BY DEF SwitchTarget
      <4> QED BY <1>1, <3>2, <3>4, <4>1, <4>2 DEF VisitBranch, Result
    <3> QED BY <3>1, <3>3, <3>4
  <2>6. CASE ~IsBranch(prog, i) /\ HasResult(prog, i)
    <3>1. VisitInstruction(i) = VisitAssignment(i) /\ VisitInstruction(i)' = VisitAssignment(i)'
      BY <1>1, <1>5, <2>6 DEF VisitInstruction
    <3>2. CASE Op(i) = "copy"
      <4>1. Value(i, 1)' = Value(i, 1)
        BY <1>3, <2>1, <3>2, SSAShape
      <4>2. CASE Value(i, 1) = Varying
        <5>1. VisitAssignment(i) = MarkVarying
          BY <3>2, <4>2 DEF VisitAssignment, Undef, Varying
        <5>2. VisitAssignment(i)' = MarkVarying
          BY <1>1, <3>2, <4>1, <4>2 DEF VisitAssignment, MarkVarying, Result, Undef, Varying
        <5> QED BY <3>1, <5>1, <5>2
      <4>3. CASE Value(i, 1) = Undef
        BY <1>1, <2>4, <3>1, <3>2, <4>1, <4>3 DEF VisitAssignment, Undef, Varying
      <4>4. CASE Value(i, 1) \notin {Undef, Varying}
        <5>1. /\ VisitInstruction(i) = Assigned(ComputeLatticeMeet(i, Value(i, 1)))
              /\ VisitInstruction(i)' = Assigned(ComputeLatticeMeet(i, Value(i, 1)))'
          BY <1>1, <3>1, <3>2, <4>1, <4>4 DEF VisitAssignment
        <5> QED BY <2>3, <4>1, <5>1 DEF Assigned, MarkVarying, Result
      <4> QED BY <4>2, <4>3, <4>4
    <3>3. CASE Op(i) \notin FoldableOps /\ Op(i) # "copy"
      BY <1>1, <3>1, <3>3 DEF VisitAssignment, MarkVarying, Result, FoldableOps
    <3>4. CASE Op(i) \in FoldableOps /\ Op(i) # "copy" /\ FoldToConstant(i) # Undef
      BY <1>1, <2>2, <2>3, <3>1, <3>4 DEF VisitAssignment, Assigned, MarkVarying, Result, FoldableOps
    <3>5. CASE Op(i) \in FoldableOps /\ Op(i) # "copy" /\ FoldToConstant(i) = Undef
      BY <1>1, <2>2, <2>4, <3>1, <3>5 DEF VisitAssignment, MarkVarying, Result, FoldableOps
    <3> QED BY <3>2, <3>3, <3>4, <3>5
  <2>7. CASE ~IsBranch(prog, i) /\ ~HasResult(prog, i)
    BY <1>1, <1>5, <2>7 DEF VisitInstruction, Result
  <2> QED BY <2>5, <2>6, <2>7
<1> QED BY <1>4, <1>5

\* The type of a fold after a step.
LEMMA FoldTypeNext ==
  ASSUME NEW i
  PROVE  (FoldToConstant(i) \in Consts \cup {Undef})'
BY FoldType, PTL

\* A visit that said varying says it again, whatever has moved since.
LEMMA VaryingStays ==
  ASSUME CCPInv, prog' = prog, edges \subseteq edges', NEW i \in Insts(prog),
         HasResult(prog, i), VisitInstruction(i) = MarkVarying, values'[i] = Varying,
         \A id \in Ids(prog) : Below(values[id], values'[id]),
         \A id \in Ids(prog) : values'[id] \in Lattice
  PROVE  VisitInstruction(i)' = MarkVarying
<1>1. Args(i)' = Args(i) /\ Op(i)' = Op(i) /\ CCPTypeOK
  BY DEF Args, Op, CCPInv
<1>2. \A k \in DOMAIN Args(i) : /\ Below(Value(i, k), Value(i, k)')
                                /\ Value(i, k)' \in Lattice
  <2> TAKE k \in DOMAIN Args(i)
  <2>1. Args(i)[k] \in Ids(prog)
    BY <1>1, ArgsType
  <2> QED BY <1>1, <2>1 DEF Value
<1>3. ~IsBranch(prog, i)
  BY DEF HasResult, IsBlockTerminator
<1>4. \A c \in Consts \cup {Varying} : Assigned(c) = MarkVarying => c = Varying
  BY DEF Assigned, MarkVarying, Result
<1>5. \A v : NotInteresting(v) # MarkVarying
  BY DEF NotInteresting, MarkVarying, Result
<1>6. CASE Op(i) = "phi"
  <2> DEFINE known == {Value(i, k) : k \in {j \in DOMAIN Args(i) : IsPhiArgExecutable(i, j)}}
                        \ {Undef}
  <2>1. VisitInstruction(i) = VisitPhi(i) /\ VisitInstruction(i)' = VisitPhi(i)'
    BY <1>1, <1>6 DEF VisitInstruction
  <2>2. VisitPhi(i) = IF known = {} THEN NotInteresting(i)
                      ELSE IF \E c \in known : c # Varying /\ known = {c}
                      THEN Assigned(CHOOSE c \in known : TRUE) ELSE MarkVarying
    BY DEF VisitPhi
  <2> DEFINE knownN == {Value(i, k)' : k \in {j \in DOMAIN Args(i)' : IsPhiArgExecutable(i, j)'}}
                         \ {Undef}
  <2>3. VisitPhi(i)' = IF knownN = {} THEN NotInteresting(i)'
                       ELSE IF \E c \in knownN : c # Varying /\ knownN = {c}
                       THEN Assigned(CHOOSE c \in knownN : TRUE) ELSE MarkVarying
    BY DEF VisitPhi, Assigned, MarkVarying, Result
  <2>4. known # {} /\ \A c \in known : c = Varying \/ known # {c}
    <3>1. \A c : known = {c} => (CHOOSE d \in known : TRUE) = c
      OBVIOUS
    <3>2. \A c : c # Varying => Assigned(c) # MarkVarying
      BY DEF Assigned, MarkVarying, Result
    <3> HIDE DEF known
    <3> QED BY <1>5, <2>1, <2>2, <3>1, <3>2
  <2>5. \A k \in DOMAIN Args(i) : IsPhiArgExecutable(i, k) => IsPhiArgExecutable(i, k)'
    BY DEF IsPhiArgExecutable
  <2>6. \A v \in known : v \in knownN \/ Varying \in knownN
    <3> SUFFICES ASSUME NEW k \in DOMAIN Args(i), IsPhiArgExecutable(i, k), Value(i, k) # Undef
                 PROVE  Value(i, k) \in knownN \/ Varying \in knownN
      OBVIOUS
    <3>1. IsPhiArgExecutable(i, k)' /\ k \in DOMAIN Args(i)'
      BY <1>1, <2>5
    <3>2. Value(i, k)' # Undef /\ Value(i, k)' \in {Value(i, k), Varying}
      BY <1>2, LatticeValues DEF Below
    <3> QED BY <3>1, <3>2
  <2> HIDE DEF known
  <2>7. knownN # {} /\ ~(\E c \in knownN : c # Varying /\ knownN = {c})
    <3>1. CASE Varying \in known
      <4>1. Varying \in knownN
        BY <2>6, <3>1
      <4> HIDE DEF knownN
      <4> QED BY <4>1
    <3>2. CASE Varying \notin known
      <4>1. PICK c \in known, d \in known : c # d
        BY <2>4, <3>2
      <4>2. Varying \in knownN \/ {c, d} \subseteq knownN
        BY <2>6, <4>1
      <4> HIDE DEF knownN
      <4> QED BY <4>1, <4>2
    <3> QED BY <3>1, <3>2
  <2>8. VisitPhi(i)' = MarkVarying
    BY <2>3, <2>7, Zenon
  <2> QED BY <2>1, <2>8
<1>7. CASE Op(i) = "copy"
  <2>1. 1 \in DOMAIN Args(i)
    BY <1>1, <1>7, ProgShape, ArgsType
  <2>2. VisitInstruction(i) = VisitAssignment(i) /\ VisitInstruction(i)' = VisitAssignment(i)'
    BY <1>1, <1>3, <1>7 DEF VisitInstruction
  <2>3. Value(i, 1) # Undef
    <3>1. Value(i, 1) = Undef => VisitAssignment(i) = NotInteresting(i)
      BY <1>7 DEF VisitAssignment, Undef, Varying
    <3> QED BY <1>5, <2>2, <3>1
  <2>4. Value(i, 1)' # Undef
    BY <1>2, <2>1, <2>3, LatticeValues DEF Below
  <2>5. CASE Value(i, 1)' = Varying
    <3>1. VisitAssignment(i)' = MarkVarying
      BY <1>1, <1>7, <2>5 DEF VisitAssignment, MarkVarying, Result, Undef, Varying
    <3> QED BY <2>2, <3>1
  <2>6. CASE Value(i, 1)' # Varying
    <3>1. VisitAssignment(i)' = Assigned(ComputeLatticeMeet(i, Value(i, 1)))'
      BY <1>1, <1>7, <2>4, <2>6 DEF VisitAssignment
    <3>2. ComputeLatticeMeet(i, Value(i, 1))' = Varying
      BY <2>6, LatticeValues DEF ComputeLatticeMeet
    <3> QED BY <2>2, <3>1, <3>2 DEF Assigned, MarkVarying, Result
  <2> QED BY <2>5, <2>6
<1>8. CASE Op(i) \notin FoldableOps \cup {"copy", "phi"}
  BY <1>1, <1>3, <1>8 DEF VisitInstruction, VisitAssignment, MarkVarying, Result, FoldableOps
<1>9. CASE Op(i) \in FoldableOps
  <2>1. /\ VisitInstruction(i) = VisitAssignment(i) /\ VisitInstruction(i)' = VisitAssignment(i)'
        /\ Op(i) \notin {"copy", "phi"}
    BY <1>1, <1>3, <1>9 DEF VisitInstruction, FoldableOps
  <2>2. FoldToConstant(i)' # Undef => VisitInstruction(i)' = MarkVarying
    <3> SUFFICES ASSUME FoldToConstant(i)' # Undef PROVE VisitInstruction(i)' = MarkVarying
      OBVIOUS
    <3>1. VisitAssignment(i)' = Assigned(ComputeLatticeMeet(i, FoldToConstant(i)))'
      BY <1>1, <1>9, <2>1 DEF VisitAssignment, FoldableOps
    <3>2. FoldToConstant(i)' # Varying
      <4>1. FoldToConstant(i) # Varying
        BY FoldType, LatticeValues
      <4> QED BY <4>1, FoldTypeNext, LatticeValues
    <3>3. ComputeLatticeMeet(i, FoldToConstant(i))' = Varying
      BY <3>2, LatticeValues DEF ComputeLatticeMeet
    <3> QED BY <2>1, <3>1, <3>3 DEF Assigned, MarkVarying, Result
  <2>3. CASE Evidence(i, "true")
    <3>1. Evidence(i, "true")'
      BY <1>1, <2>3, EvidenceStays, ConstsAssumption
    <3>2. FoldToConstant(i)' # Undef \/ Varying \in ArgValues(i)'
      BY <1>1, <1>9, <2>1, <3>1 DEF Evidence
    <3>3. FoldToConstant(i)' = Undef /\ Varying \in ArgValues(i)' => VisitAssignment(i)' = MarkVarying'
      BY <1>1, <1>9, <2>1 DEF VisitAssignment, FoldableOps
    <3> QED BY <2>1, <2>2, <3>2, <3>3 DEF MarkVarying, Result
  <2>4. CASE ~Evidence(i, "true")
    <3>1. FoldToConstant(i) = Undef /\ Varying \notin ArgValues(i)
      BY <1>9, <2>4 DEF Evidence
    <3>2. Undef \notin ArgValues(i)
      <4>1. Undef \in ArgValues(i) => VisitAssignment(i) = NotInteresting(i)
        BY <1>9, <2>1, <3>1 DEF VisitAssignment
      <4> QED BY <1>5, <2>1, <4>1
    <3>3. Undef \notin ArgValues(i)'
      <4>1. \A k \in DOMAIN Args(i) : Value(i, k)' # Undef
        BY <1>2, <3>2, LatticeValues DEF ArgValues, Below
      <4> QED BY <1>1, <4>1 DEF ArgValues
    <3>4. FoldToConstant(i)' = Undef => VisitAssignment(i)' = MarkVarying'
      BY <1>1, <1>9, <2>1, <3>3 DEF VisitAssignment, FoldableOps
    <3> QED BY <2>1, <2>2, <3>4 DEF MarkVarying, Result
  <2> QED BY <2>3, <2>4
<1> QED BY <1>6, <1>7, <1>8, <1>9
-----------------------------------------------------------------------------
\* The elements of sequences.
LEMMA ElementsOfConcat ==
  ASSUME NEW X, NEW s \in Seq(X), NEW t \in Seq(X)
  PROVE  Elements(s \o t) = Elements(s) \cup Elements(t)
<1>1. \A k \in 1..Len(t) : (s \o t)[Len(s) + k] = t[k] /\ Len(s) + k \in DOMAIN (s \o t)
  OBVIOUS
<1>2. \A k \in 1..Len(s) : (s \o t)[k] = s[k] /\ k \in DOMAIN (s \o t)
  OBVIOUS
<1>3. \A k \in DOMAIN (s \o t) : (s \o t)[k] \in Elements(s) \cup Elements(t)
  <2> TAKE k \in DOMAIN (s \o t)
  <2>1. CASE k \in 1..Len(s)
    BY <2>1 DEF Elements
  <2>2. CASE k \notin 1..Len(s)
    <3>1. k - Len(s) \in DOMAIN t /\ (s \o t)[k] = t[k - Len(s)]
      BY <2>2
    <3> QED BY <3>1 DEF Elements
  <2> QED BY <2>1, <2>2
<1>4. DOMAIN s = 1..Len(s) /\ DOMAIN t = 1..Len(t)
  OBVIOUS
<1>5. Elements(s) \subseteq Elements(s \o t)
  BY <1>2, <1>4 DEF Elements
<1>6. Elements(t) \subseteq Elements(s \o t)
  BY <1>1, <1>4 DEF Elements
<1>7. Elements(s \o t) \subseteq Elements(s) \cup Elements(t)
  BY <1>3 DEF Elements
<1> QED BY <1>5, <1>6, <1>7

\* The elements of a sequence are its head and those of its tail.
LEMMA ElementsOfTail ==
  ASSUME NEW X, NEW s \in Seq(X), s # << >>
  PROVE  Elements(s) = {Head(s)} \cup Elements(Tail(s))
<1>1. Len(s) \in Nat \ {0} /\ DOMAIN s = 1..Len(s) /\ Head(s) = s[1]
  OBVIOUS
<1>2. DOMAIN Tail(s) = 1..(Len(s) - 1) /\ \A k \in 1..(Len(s) - 1) : Tail(s)[k] = s[k + 1]
  OBVIOUS
<1>3. \A k \in 1..Len(s) : s[k] \in {Head(s)} \cup Elements(Tail(s))
  <2> TAKE k \in 1..Len(s)
  <2>1. k # 1 => k - 1 \in 1..(Len(s) - 1) /\ s[k] = Tail(s)[k - 1]
    BY <1>1, <1>2
  <2> QED BY <1>1, <1>2, <2>1 DEF Elements
<1>4. \A k \in 1..(Len(s) - 1) : k + 1 \in 1..Len(s)
  BY <1>1
<1> QED BY <1>1, <1>2, <1>3, <1>4 DEF Elements

\* They are of its type.
LEMMA ElementsType ==
  ASSUME NEW S, NEW s \in Seq(S)
  PROVE  Elements(s) \subseteq S
BY DEF Elements

\* Appending to a queue leaves its head.
LEMMA HeadOfConcat ==
  ASSUME NEW X, NEW s \in Seq(X), NEW t \in Seq(X), s # << >>
  PROVE  Head(s \o t) = Head(s) /\ Tail(s \o t) = Tail(s) \o t
OBVIOUS

\* The targets that AddControlEdges queues.
Fresh(b, ts) == {l \in Elements(ts) \ {Exit} : <<b, l>> \notin edges}

\* All targets are reached, and the queue gets those that were not.
LEMMA AddsEdges ==
  ASSUME CCPTypeOK, NEW b \in prog.blocks, NEW ts \in Seq(prog.blocks \cup {Exit}),
         NEW q \in Seq(prog.blocks), AddControlEdges(b, ts, q)
  PROVE  /\ edges' = edges \cup {<<b, l>> : l \in Elements(ts) \ {Exit}}
         /\ Elements(blocks') = Elements(q) \cup Fresh(b, ts)
         /\ q # << >> => /\ blocks' # << >>
                         /\ Head(blocks') = Head(q)
                         /\ Elements(Tail(blocks')) = Elements(Tail(q)) \cup Fresh(b, ts)
<1> DEFINE new == {k \in DOMAIN ts :
                     /\ ts[k] # Exit
                     /\ <<b, ts[k]>> \notin edges
                     /\ \A j \in 1..(k-1) : ts[j] # ts[k]}
           add == AtPositions(ts, new)
<1>1. /\ edges' = edges \cup {<<b, ts[k]>> : k \in new}
      /\ blocks' = q \o add
  BY DEF AddControlEdges
<1>2. \A k \in new : ts[k] \in Fresh(b, ts)
  BY DEF Fresh, Elements
<1>3. \A l \in Fresh(b, ts) : \E k \in new : ts[k] = l
  <2> TAKE l \in Fresh(b, ts)
  <2> DEFINE T == {k \in DOMAIN ts : ts[k] = l}
  <2>1. T \subseteq Nat /\ T # {} /\ DOMAIN ts = 1..Len(ts)
    BY DEF Fresh, Elements
  <2>2. PICK m \in T : \A n \in T : m <= n
    BY <2>1, LeastNatural
  <2>3. \A j \in 1..(m-1) : ts[j] # ts[m]
    <3> SUFFICES ASSUME NEW j \in 1..(m-1), ts[j] = ts[m] PROVE FALSE
      OBVIOUS
    <3>1. m \in 1..Len(ts) /\ Len(ts) \in Nat
      BY <2>1
    <3>2. j \in 1..Len(ts) /\ j < m
      BY <3>1
    <3>3. j \in T
      BY <2>1, <3>2
    <3> QED BY <2>1, <2>2, <3>1, <3>2, <3>3
  <2> QED BY <2>2, <2>3 DEF Fresh
<1>4. Fresh(b, ts) \subseteq prog.blocks
  BY DEF Fresh, Elements
<1>5. add \in Seq(Fresh(b, ts))
  BY <1>2, AtPositionsType
<1>6. Elements(add) = Fresh(b, ts)
  <2>1. Elements(add) \subseteq Fresh(b, ts)
    <3> HIDE DEF add
    <3> QED BY <1>5, ElementsType
  <2>2. \A k \in new : ts[k] \in Elements(add)
    <3> TAKE k \in new
    <3>1. k \in DOMAIN ts
      OBVIOUS
    <3> HIDE DEF new
    <3> QED BY <3>1, AtPositionsKeeps
  <2>3. Fresh(b, ts) \subseteq Elements(add)
    <3> HIDE DEF new, add
    <3> QED BY <1>3, <2>2
  <2> QED BY <2>1, <2>3
<1>7. add \in Seq(prog.blocks)
  BY <1>4, <1>5, SeqWidens
<1>8. {<<b, ts[k]>> : k \in new} = {<<b, l>> : l \in Fresh(b, ts)}
  <2> HIDE DEF new
  <2> QED BY <1>2, <1>3
<1>9. edges' = edges \cup {<<b, l>> : l \in Elements(ts) \ {Exit}}
  BY <1>1, <1>8 DEF Fresh
<1> HIDE DEF add, new
<1>10. Elements(blocks') = Elements(q) \cup Fresh(b, ts)
  BY <1>1, <1>6, <1>7, ElementsOfConcat
<1>11. q # << >> => /\ blocks' # << >>
                    /\ Head(blocks') = Head(q)
                    /\ Elements(Tail(blocks')) = Elements(Tail(q)) \cup Fresh(b, ts)
  <2> SUFFICES ASSUME q # << >>
               PROVE  /\ blocks' # << >>
                      /\ Head(blocks') = Head(q)
                      /\ Elements(Tail(blocks')) = Elements(Tail(q)) \cup Fresh(b, ts)
    OBVIOUS
  <2>1. Head(blocks') = Head(q) /\ Tail(blocks') = Tail(q) \o add
    BY <1>1, <1>7, HeadOfConcat
  <2>2. Tail(q) \in Seq(prog.blocks)
    OBVIOUS
  <2>3. blocks' # << >>
    BY <1>1, <1>7
  <2>4. Elements(Tail(q) \o add) = Elements(Tail(q)) \cup Elements(add)
    <3>1. \A s, t \in Seq(prog.blocks) : Elements(s \o t) = Elements(s) \cup Elements(t)
      BY ElementsOfConcat
    <3> QED BY <1>7, <2>2, <3>1, Zenon
  <2> QED BY <1>6, <2>1, <2>3, <2>4
<1> QED BY <1>9, <1>10, <1>11

\* Only a branch has a destination.
LEMMA OnlyBranchesGo ==
  ASSUME NEW i, ~IsBranch(prog, i)
  PROVE  VisitInstruction(i).dest = << >>
<1>1. \A v : Assigned(v).dest = << >>
  BY DEF Assigned, MarkVarying, Result
<1>2. NotInteresting(i).dest = << >> /\ MarkVarying.dest = << >>
  BY DEF NotInteresting, MarkVarying, Result
<1>3. VisitPhi(i).dest = << >>
  BY <1>1, <1>2 DEF VisitPhi
<1>4. VisitAssignment(i).dest = << >>
  BY <1>1, <1>2 DEF VisitAssignment, Undef, Varying
<1> QED BY <1>3, <1>4 DEF VisitInstruction, Result

\* A branch is at the end of its block: it goes to successors.
LEMMA VisitDest ==
  ASSUME CCPInv, NEW i \in Insts(prog), i \notin dns
  PROVE  Elements(VisitInstruction(i).dest) \subseteq Elements(Successors(prog, prog.blockOf[i]))
<1> DEFINE labels == prog.inst[i].labels
           lits == prog.inst[i].lits
<1>0. CCPTypeOK
  BY DEF CCPInv
<1>1. Elements(<< >>) = {}
  BY DEF Elements
<1>2. CASE ~IsBranch(prog, i)
  BY <1>1, <1>2, OnlyBranchesGo
<1>3. CASE IsBranch(prog, i)
  <2>1. IsBlockTerminator(prog, i) /\ Op(i) # "return" /\ Op(i) # "phi"
        /\ Op(i) \in {"br", "brcond", "switch"}
    BY <1>3 DEF IsBlockTerminator, IsBranch, Op
  <2>2. i = Terminator(prog, prog.blockOf[i])
    BY <1>0, <2>1, SSAShape DEF InSSAForm
  <2>3. Successors(prog, prog.blockOf[i]) = labels
    BY <2>1, <2>2 DEF Successors, Op
  <2>4. VisitInstruction(i) = VisitBranch(i)
    BY <1>3, <2>1 DEF VisitInstruction
  <2>5. /\ labels \in Seq(prog.blocks)
        /\ Op(i) \in {"br", "switch"} => 1 \in DOMAIN labels
        /\ Op(i) = "brcond" => 1 \in DOMAIN labels /\ 2 \in DOMAIN labels
        /\ Op(i) = "switch" => \A k \in DOMAIN lits : 1 + k \in DOMAIN labels
    <3>1. labels \in Seq(prog.blocks) /\ lits \in Seq(0 .. 3)
      BY <1>0, ArgsType
    <3>2. /\ Op(i) \in {"br", "switch"} => Len(labels) > 0
          /\ Op(i) = "brcond" => Len(labels) = 2
          /\ Op(i) = "switch" => Len(labels) = Len(lits) + 1
      BY <1>0, ProgShape
    <3> HIDE DEF labels, lits
    <3> QED BY <3>1, <3>2
  <2>6. \A l : Elements(<<l>>) = {l}
    BY DEF Elements
  <2>7. \A k \in DOMAIN labels : labels[k] \in Elements(labels)
    BY DEF Elements
  <2>8. \A sel : Op(i) = "switch" => SwitchTarget(i, sel) \in Elements(labels)
    <3> SUFFICES ASSUME NEW sel, Op(i) = "switch" PROVE SwitchTarget(i, sel) \in Elements(labels)
      OBVIOUS
    <3> DEFINE same(k) == LowWord(lits[k]) = LowWord(Meaning(sel))
               case(k) == same(k) /\ \A j \in 1..(k-1) : ~same(j)
               c == CHOOSE k \in DOMAIN lits : case(k)
    <3>1. (\E k \in DOMAIN lits : case(k)) => c \in DOMAIN lits
      OBVIOUS
    <3>2. SwitchTarget(i, sel) = IF \E k \in DOMAIN lits : case(k) THEN labels[1 + c] ELSE labels[1]
      BY DEF SwitchTarget
    <3> HIDE DEF c, case
    <3> QED BY <2>5, <2>7, <3>1, <3>2
  <2> DEFINE d == VisitInstruction(i).dest
  <2>9. d = << >> \/ \E l \in Elements(labels) : d = <<l>>
    <3>1. CASE Op(i) = "br"
      BY <2>4, <2>5, <2>7, <3>1 DEF VisitBranch, Result
    <3>2. CASE Op(i) \in {"brcond", "switch"} /\ Value(i, 1) \notin Consts
      BY <2>4, <3>2 DEF VisitBranch, Result
    <3>3. CASE Op(i) = "brcond" /\ Value(i, 1) \in Consts
      BY <2>4, <2>5, <2>7, <3>3 DEF VisitBranch, Result
    <3>4. CASE Op(i) = "switch" /\ Value(i, 1) \in Consts
      <4>1. VisitBranch(i) = Result("interesting", <<SwitchTarget(i, Value(i, 1))>>, Undef)
        BY <3>4 DEF VisitBranch
      <4>2. SwitchTarget(i, Value(i, 1)) \in Elements(labels)
        BY <2>8, <3>4
      <4> QED BY <2>4, <4>1, <4>2 DEF Result
    <3> HIDE DEF d, labels
    <3> QED BY <2>1, <3>1, <3>2, <3>3, <3>4
  <2> HIDE DEF d
  <2>10. Elements(d) \subseteq Elements(labels)
    BY <1>1, <2>6, <2>9
  <2> QED BY <2>3, <2>10 DEF d
<1> QED BY <1>2, <1>3
-----------------------------------------------------------------------------
\* What the last visit of i said is what is recorded of it after the step.
Recorded(i) ==
  LET r == VisitInstruction(i)
      b == prog.blockOf[i]
      Reaches(labels) == \A l \in Elements(labels) \ {Exit} : <<b, l>> \in edges'
  IN  IF IsBlockTerminator(prog, i) /\ status'[i] = "varying"
      THEN Reaches(Successors(prog, b))
      ELSE /\ status'[i] = r.status /\ Reaches(r.dest)
           /\ HasResult(prog, i) => values'[i] = r.value

\* A step that leaves alone what is recorded of i.
LEMMA StaysRecorded ==
  ASSUME NEW i, UpToDate(i), edges \subseteq edges',
         status'[i] = status[i], values'[i] = values[i]
  PROVE  Recorded(i)
BY DEF UpToDate, Recorded

\* What is recorded is up to date if another visit would say the same.
LEMMA SaidAgain ==
  ASSUME NEW i, prog' = prog, Recorded(i), VisitInstruction(i)' = VisitInstruction(i)
  PROVE  UpToDate(i)'
BY DEF UpToDate, Recorded

\* There is one way to say varying.
LEMMA VaryingResult ==
  ASSUME NEW i, HasResult(prog, i), VisitInstruction(i).status = "varying"
  PROVE  VisitInstruction(i) = MarkVarying
<1>1. \A v : Assigned(v).status = "varying" => Assigned(v) = MarkVarying
  BY DEF Assigned, MarkVarying, Result
<1>2. NotInteresting(i).status # "varying"
  BY DEF NotInteresting, Result
<1>3. VisitPhi(i).status = "varying" => VisitPhi(i) = MarkVarying
  BY <1>1, <1>2 DEF VisitPhi
<1>4. VisitAssignment(i).status = "varying" => VisitAssignment(i) = MarkVarying
  BY <1>1, <1>2 DEF VisitAssignment, Undef, Varying
<1>5. ~IsBranch(prog, i)
  BY DEF HasResult, IsBlockTerminator
<1> QED BY <1>3, <1>4, <1>5 DEF VisitInstruction

\* What was found varying stays up to date.
LEMMA VaryingUpToDate ==
  ASSUME CCPInv, prog' = prog, edges \subseteq edges', NEW i \in Insts(prog),
         Recorded(i), status'[i] = "varying",
         \A id \in Ids(prog) : Below(values[id], values'[id]),
         \A id \in Ids(prog) : values'[id] \in Lattice
  PROVE  UpToDate(i)'
<1>1. CASE IsBlockTerminator(prog, i)
  BY <1>1 DEF UpToDate, Recorded
<1>2. CASE HasResult(prog, i)
  <2>1. ~IsBlockTerminator(prog, i)
    BY <1>2 DEF HasResult
  <2>2. VisitInstruction(i) = MarkVarying /\ values'[i] = MarkVarying.value
    BY <1>2, <2>1, VaryingResult DEF Recorded
  <2>3. values'[i] = Varying
    BY <2>2 DEF MarkVarying, Result
  <2>4. VisitInstruction(i)' = MarkVarying
    BY <1>2, <2>2, <2>3, VaryingStays
  <2> QED BY <2>2, <2>4, SaidAgain
<1>3. CASE ~IsBlockTerminator(prog, i) /\ ~HasResult(prog, i)
  <2>1. Op(i) # "phi" /\ Op(i)' = Op(i) /\ ~IsBranch(prog, i)
    BY <1>3 DEF HasResult, Op, IsBlockTerminator
  <2>2. VisitInstruction(i)' = VisitInstruction(i)
    BY <1>3, <2>1 DEF VisitInstruction, Result
  <2> QED BY <2>2, SaidAgain
<1> QED BY <1>1, <1>2, <1>3

\* So does what cannot be moved any more by the instructions still in play.
LEMMA SettledUpToDate ==
  ASSUME CCPInv, prog' = prog, edges \subseteq edges', NEW i \in Insts(prog),
         Recorded(i), ~HasOperandsToSimulate(i),
         values'[i] \in {values[i], VisitInstruction(i).value},
         \A id \in dns : values'[id] = values[id]
  PROVE  UpToDate(i)'
<1>1. Unmoved(i)
  <2>1. \A k \in DOMAIN Args(i) : IsPhiArgExecutable(i, k) => IsPhiArgExecutable(i, k)'
    BY DEF IsPhiArgExecutable
  <2>2. CASE Op(i) = "phi"
    <3>1. \A k \in DOMAIN Args(i) : IsPhiArgExecutable(i, k) /\ Args(i)[k] \in dns
      BY <2>2 DEF HasOperandsToSimulate, ShouldSimulateAgain, Op, Args
    <3> QED BY <2>1, <3>1 DEF Unmoved
  <2>3. CASE Op(i) # "phi"
    <3>1. \A k \in DOMAIN Args(i) : Args(i)[k] \in dns
      BY <2>3 DEF HasOperandsToSimulate, ShouldSimulateAgain, Op, Args, OperandIds, Elements
    <3> QED BY <2>3, <3>1 DEF Unmoved
  <2> QED BY <2>2, <2>3
<1> QED BY <1>1, SameVisit, SaidAgain DEF CCPInv

\* An instruction without operands to simulate stays so.
LEMMA StaysSettled ==
  ASSUME prog' = prog, edges \subseteq edges', dns \subseteq dns', NEW i, ~HasOperandsToSimulate(i)
  PROVE  ~HasOperandsToSimulate(i)'
BY DEF HasOperandsToSimulate, ShouldSimulateAgain, IsPhiArgExecutable, OperandIds

\* Every user with a visited block that may still change is queued.
LEMMA UsersAreQueued ==
  ASSUME CCPTypeOK, NEW i \in Insts(prog), NEW j \in OperandIds(prog, i), NEW settled,
         prog.blockOf[i] \in simulated, i \notin settled
  PROVE  i \in Elements(UsersToSimulate(j, settled))
<1>1. prog.order \in Seq(Insts(prog)) /\ i \in Elements(prog.order)
  BY SSAShape, ProgShape DEF InSSAForm
<1> DEFINE K == {k \in DOMAIN prog.order : j \in OperandIds(prog, prog.order[k])}
           users == Users(prog, j)
           L == {k \in DOMAIN users : prog.blockOf[users[k]] \in simulated /\ users[k] \notin settled}
<1>2. PICK k \in DOMAIN prog.order : prog.order[k] = i
  BY <1>1 DEF Elements
<1>3. users = AtPositions(prog.order, K) /\ k \in K
  BY <1>2 DEF Users
<1>4. i \in Elements(users)
  <2> HIDE DEF K, users
  <2> QED BY <1>1, <1>2, <1>3, AtPositionsKeeps
<1>5. users \in Seq(Insts(prog))
  BY <1>1, AtPositionsType DEF Users
<1>6. UsersToSimulate(j, settled) = AtPositions(users, L)
  BY DEF UsersToSimulate
<1> HIDE DEF users
<1>7. PICK m \in DOMAIN users : users[m] = i
  BY <1>4 DEF Elements
<1>8. m \in L
  BY <1>7
<1> HIDE DEF L
<1> QED BY <1>5, <1>6, <1>7, <1>8, AtPositionsKeeps

\* Only instructions of visited blocks are queued.
LEMMA UsersWereVisited ==
  ASSUME CCPTypeOK, NEW j, NEW settled
  PROVE  \A i \in Elements(UsersToSimulate(j, settled)) : prog.blockOf[i] \in simulated
<1>1. Users(prog, j) \in Seq(Insts(prog))
  BY ProgShape, AtPositionsType DEF Users
<1> DEFINE S == {i \in Insts(prog) : prog.blockOf[i] \in simulated}
<1>2. UsersToSimulate(j, settled) \in Seq(S)
  BY <1>1, AtPositionsType DEF UsersToSimulate
<1> HIDE DEF S
<1>3. Elements(UsersToSimulate(j, settled)) \subseteq S
  BY <1>2, ElementsType
<1> QED BY <1>3 DEF S

\* A visit that changes a value is news.
LEMMA ChangeIsNews ==
  ASSUME CCPInv, NEW j \in Insts(prog), j \notin dns, VisitInstruction(j).value # values[j]
  PROVE  /\ StatusChanges(j, VisitInstruction(j).status)
         /\ VisitInstruction(j).status # "notInteresting"
         /\ HasResult(prog, j)
<1> DEFINE r == VisitInstruction(j)
<1>1. Promises(j, r)
  BY VisitPromises
<1>2. HasResult(prog, j)
  BY <1>1 DEF Promises, CCPInv, OnlyResultsHaveValues
<1>3. status[j] \in {"none", "notInteresting", "interesting"} /\ values[j] # Varying
  BY NotYetVarying, LatticeValues
<1>4. status[j] \in {"none", "notInteresting"} <=> values[j] = Undef
  BY <1>2 DEF CCPInv, StatusMatchesValue
<1> HIDE DEF r
<1>5. r.value # Undef
  BY <1>1, LatticeValues DEF Promises, Below, r
<1>6. r.status # status[j]
  <2> SUFFICES ASSUME r.status = status[j] PROVE FALSE
    OBVIOUS
  <2>1. r.status = "interesting"
    BY <1>1, <1>2, <1>3, <1>5 DEF Promises, PropStatus
  <2>2. values[j] # Undef /\ r.value # Varying
    BY <1>1, <1>2, <1>4, <2>1 DEF Promises
  <2> QED BY <1>1, <2>2 DEF Promises, Below, r
<1>7. r.status # "notInteresting"
  BY <1>1, <1>2, <1>5 DEF Promises
<1> QED BY <1>2, <1>6, <1>7 DEF StatusChanges, r
-----------------------------------------------------------------------------
\* The next instruction j of the block, or of the queue of uses when no block
\* waits; q is what is left of that queue.
Takes(j, q) ==
  \/ pc = "block" /\ todo # << >> /\ j = Head(todo) /\ q = uses /\ todo' = Tail(todo)
  \/ /\ pc = "pick" /\ blocks = << >> /\ uses # << >>
     /\ j = Head(uses) /\ q = Tail(uses) /\ todo' = todo

\* The phis of a block are its first lines.
LEMMA PhisAreLines ==
  ASSUME CCPTypeOK, NEW b \in prog.blocks
  PROVE  /\ Len(prog.phis[b]) <= Len(Lines(prog, b))
         /\ Len(prog.phis[b]) \in Nat /\ Len(Lines(prog, b)) \in Nat
         /\ \A k \in 1..Len(prog.phis[b]) : Lines(prog, b)[k] = prog.phis[b][k]
         /\ \A i \in Elements(prog.phis[b]) \cup Elements(prog.rest[b]) : i \in Elements(Lines(prog, b))
<1>1. prog.phis[b] \in Seq(Insts(prog)) /\ prog.rest[b] \in Seq(Insts(prog))
  BY ProgShape
<1>2. Elements(Lines(prog, b)) = Elements(prog.phis[b]) \cup Elements(prog.rest[b])
  BY <1>1, ElementsOfConcat DEF Lines
<1>3. /\ Len(prog.phis[b]) <= Len(Lines(prog, b))
      /\ Len(prog.phis[b]) \in Nat /\ Len(Lines(prog, b)) \in Nat
      /\ \A k \in 1..Len(prog.phis[b]) : Lines(prog, b)[k] = prog.phis[b][k]
  <2> DEFINE s == prog.phis[b]
             t == prog.rest[b]
  <2>1. Lines(prog, b) = s \o t /\ s \in Seq(Insts(prog)) /\ t \in Seq(Insts(prog))
    BY <1>1 DEF Lines
  <2> HIDE DEF s, t
  <2>2. Len(s) \in Nat /\ Len(t) \in Nat /\ Len(s \o t) = Len(s) + Len(t)
    BY <2>1
  <2>3. \A k \in 1..Len(s) : (s \o t)[k] = s[k]
    BY <2>1
  <2> QED BY <2>1, <2>2, <2>3 DEF s
<1> QED BY <1>2, <1>3

\* What is taken belongs to the block under visit or to one visited before.
LEMMA TakenHasPlace ==
  ASSUME CCPInv, FixpointInv, NEW j, NEW q, Takes(j, q)
  PROVE  /\ j \in Insts(prog)
         /\ prog.blockOf[j] \in prog.blocks
         /\ pc = "block" => prog.blockOf[j] = Head(blocks)
         /\ prog.blockOf[j] \in simulated \/ BeingVisited(prog.blockOf[j])
<1>0. CCPTypeOK
  BY DEF CCPInv
<1>1. CASE pc = "block"
  <2>1. todo # << >> /\ j = Head(todo) /\ todo \in Seq(Insts(prog)) /\ blocks # << >>
        /\ blocks \in Seq(prog.blocks)
    BY <1>0, <1>1 DEF Takes, CCPInv, CCPTypeOK
  <2> DEFINE b == Head(blocks)
             all == IF b \in simulated THEN prog.phis[b] ELSE Lines(prog, b)
  <2>2. b \in prog.blocks
    BY <2>1
  <2>3. PICK n \in 0 .. Len(all) : /\ Len(todo) = Len(all) - n
                                   /\ \A k \in DOMAIN todo : todo[k] = all[n + k]
    BY <1>1 DEF FixpointInv, TodoIsTheRest
  <2>4. 1 \in DOMAIN todo /\ j = todo[1] /\ j \in Insts(prog) /\ Len(todo) \in Nat \ {0}
    BY <2>1
  <2>5. all \in Seq(Insts(prog)) /\ Len(all) \in Nat
    BY <1>0, <2>2, SSAShape
  <2>6. j = all[n + 1] /\ n + 1 \in 1..Len(all) /\ n \in Nat
    <3> HIDE DEF all
    <3> QED BY <2>3, <2>4, <2>5
  <2>7. j = Lines(prog, b)[n + 1] /\ n + 1 \in DOMAIN Lines(prog, b)
    <3>1. Lines(prog, b) \in Seq(Insts(prog))
      BY <1>0, <2>2, SSAShape
    <3>2. CASE b \in simulated
      BY <1>0, <2>2, <2>6, <3>1, <3>2, PhisAreLines
    <3>3. CASE b \notin simulated
      BY <2>6, <3>1, <3>3
    <3> QED BY <3>2, <3>3
  <2>8. prog.blockOf[j] = b
    BY <1>0, <2>2, <2>7, SSAShape DEF InSSAForm
  <2> QED BY <1>1, <2>2, <2>4, <2>8 DEF BeingVisited
<1>2. CASE pc = "pick"
  <2>1. uses # << >> /\ j = Head(uses) /\ uses \in Seq(Insts(prog))
    BY <1>0, <1>2 DEF Takes, CCPTypeOK
  <2>2. j \in Insts(prog) /\ j \in Elements(uses)
    BY <2>1, ElementsOfTail
  <2>3. prog.blockOf[j] \in simulated
    BY <2>2 DEF FixpointInv, OnlyVisitedHaveStatus
  <2> QED BY <1>0, <1>2, <2>2, <2>3, ProgShape
<1> QED BY <1>1, <1>2 DEF Takes

\* Taking an instruction leaves the rest of the block to visit.
LEMMA TodoShrinks ==
  ASSUME CCPInv, FixpointInv, NEW j, NEW q, Takes(j, q),
         prog' = prog, simulated' = simulated, pc' = pc,
         pc = "block" => Head(blocks') = Head(blocks)
  PROVE  TodoIsTheRest'
<1> SUFFICES ASSUME pc = "block" PROVE TodoIsTheRest'
  BY DEF TodoIsTheRest
<1> DEFINE b == Head(blocks)
           all == IF b \in simulated THEN prog.phis[b] ELSE Lines(prog, b)
<1>1. PICK n \in 0 .. Len(all) : /\ Len(todo) = Len(all) - n
                                 /\ \A k \in DOMAIN todo : todo[k] = all[n + k]
  BY DEF FixpointInv, TodoIsTheRest
<1>2. todo # << >> /\ todo' = Tail(todo) /\ todo \in Seq(Insts(prog))
  BY DEF Takes, CCPInv, CCPTypeOK
<1>3. b \in prog.blocks /\ Len(all) \in Nat
  <2>1. blocks # << >> /\ blocks \in Seq(prog.blocks) /\ CCPTypeOK
    BY DEF CCPInv, CCPTypeOK
  <2> QED BY <2>1, SSAShape
<1>4. all' = all
  BY DEF Lines
<1> HIDE DEF all
<1>5. /\ Len(todo) \in Nat \ {0} /\ DOMAIN todo = 1..Len(todo)
      /\ Len(todo') = Len(todo) - 1 /\ DOMAIN todo' = 1..(Len(todo) - 1)
      /\ \A k \in 1..(Len(todo) - 1) : todo'[k] = todo[k + 1]
  BY <1>2
<1>6. n + 1 \in 0 .. Len(all) /\ Len(todo') = Len(all) - (n + 1)
  BY <1>1, <1>3, <1>5
<1>7. \A k \in DOMAIN todo' : todo'[k] = all[(n + 1) + k]
  <2> TAKE k \in DOMAIN todo'
  <2>1. k \in Nat /\ k + 1 \in DOMAIN todo /\ n \in Nat
    BY <1>1, <1>3, <1>5
  <2>2. todo'[k] = all[n + (k + 1)]
    BY <1>1, <1>5, <2>1
  <2> QED BY <2>1, <2>2
<1>8. \E m \in 0 .. Len(all) : /\ Len(todo') = Len(all) - m
                               /\ \A k \in DOMAIN todo' : todo'[k] = all[m + k]
  BY <1>6, <1>7
<1> QED BY <1>8 DEF TodoIsTheRest, all, Lines

\* Whoever else waits goes on waiting.
LEMMA OthersWait ==
  ASSUME CCPInv, NEW j, NEW q, Takes(j, q), prog' = prog, pc' = pc,
         Elements(q) \subseteq Elements(uses'), Elements(Pending) \subseteq Elements(Pending'),
         NEW i, i # j, Waiting(i)
  PROVE  Waiting(i)'
<1>1. CASE i \in Elements(uses)
  <2>1. CASE pc = "block"
    BY <1>1, <2>1 DEF Takes, Waiting
  <2>2. CASE pc = "pick"
    <3>1. Elements(uses) = {j} \cup Elements(q)
      BY <2>2, ElementsOfTail DEF Takes, CCPInv, CCPTypeOK
    <3> QED BY <1>1, <3>1 DEF Waiting
  <2> QED BY <2>1, <2>2 DEF Takes
<1>2. CASE pc = "block" /\ i \in Elements(todo)
  <2>1. Elements(todo) = {j} \cup Elements(todo')
    BY <1>2, ElementsOfTail DEF Takes, CCPInv, CCPTypeOK
  <2> QED BY <1>2, <2>1 DEF Waiting
<1>3. CASE Op(i) = "phi" /\ prog.blockOf[i] \in Elements(Pending)
  BY <1>3 DEF Waiting, Op
<1> QED BY <1>1, <1>2, <1>3 DEF Waiting
-----------------------------------------------------------------------------
\* What the engine does with the visit of j.
Visits(j, q) ==
  /\ Takes(j, q)
  /\ Simulate(j, VisitInstruction(j), q)
  /\ values' = [values EXCEPT ![j] = VisitInstruction(j).value]
  /\ prog' = prog /\ simulated' = simulated /\ pc' = pc

\* The control edges of a visit, and the lists after it.
LEMMA VisitEdges ==
  ASSUME CCPInv, FixpointInv, NEW j, NEW q, j \notin dns, Visits(j, q)
  PROVE  \E new \in SUBSET Elements(Successors(prog, prog.blockOf[j])) :
           /\ Exit \notin new /\ new \subseteq prog.blocks
           /\ edges' = edges \cup {<<prog.blockOf[j], l>> : l \in new}
           /\ Elements(blocks) \subseteq Elements(blocks')
           /\ Elements(Pending) \subseteq Elements(Pending')
           /\ \A l \in new : \/ <<prog.blockOf[j], l>> \in edges
                             \/ l \in Elements(Pending')
           /\ Elements(blocks') \subseteq Elements(blocks) \cup new
           /\ pc = "block" => Head(blocks') = Head(blocks)
           /\ Recorded(j)
<1> DEFINE r == VisitInstruction(j)
           b == prog.blockOf[j]
           ts == IF r.status # "varying" THEN r.dest
                 ELSE IF IsBlockTerminator(prog, j) THEN Successors(prog, b) ELSE << >>
           new == Elements(ts) \ {Exit}
<1>0. CCPTypeOK /\ j \in Insts(prog) /\ b \in prog.blocks
  BY TakenHasPlace DEF CCPInv, Visits
<1>1. AddControlEdges(b, ts, blocks) /\ blocks \in Seq(prog.blocks)
  BY <1>0 DEF Visits, Simulate, CCPTypeOK
<1>2. Successors(prog, b) \in Seq(prog.blocks \cup {Exit})
  BY <1>0, SuccessorsType
<1>3. r.dest \in Seq(prog.blocks)
  BY <1>0, VisitPromises DEF Promises
<1>4. Elements(r.dest) \subseteq Elements(Successors(prog, b))
  BY <1>0, VisitDest
<1>5. ts \in Seq(prog.blocks \cup {Exit})
  <2>1. \A s \in Seq(prog.blocks) : s \in Seq(prog.blocks \cup {Exit})
    OBVIOUS
  <2>2. << >> \in Seq(prog.blocks \cup {Exit})
    OBVIOUS
  <2> HIDE DEF r, b
  <2> QED BY <1>2, <1>3, <2>1, <2>2
<1>6. new \subseteq Elements(Successors(prog, b))
  <2>1. Elements(<< >>) = {}
    BY DEF Elements
  <2> HIDE DEF r, b
  <2> QED BY <1>4, <2>1
<1>7. new \subseteq prog.blocks
  <2> HIDE DEF ts
  <2> QED BY <1>5, ElementsType
<1>8. Recorded(j)
  <2>1. /\ status'[j] = r.status
        /\ values'[j] = r.value
    BY <1>0 DEF Visits, Simulate, CCPTypeOK, Ids
  <2>2. \A l \in new : <<b, l>> \in edges'
    <3> HIDE DEF ts, b
    <3> QED BY <1>0, <1>1, <1>5, AddsEdges DEF b
  <2>3. CASE IsBlockTerminator(prog, j) /\ r.status = "varying"
    BY <2>1, <2>2, <2>3 DEF Recorded
  <2>4. CASE ~IsBlockTerminator(prog, j) /\ r.status = "varying"
    <3>1. r.dest = << >>
      BY <2>4, OnlyBranchesGo DEF IsBlockTerminator
    <3> QED BY <2>1, <2>4, <3>1 DEF Recorded, Elements
  <2>5. CASE r.status # "varying"
    BY <2>1, <2>2, <2>5 DEF Recorded
  <2> QED BY <2>3, <2>4, <2>5
<1> HIDE DEF ts
<1>9. /\ edges' = edges \cup {<<b, l>> : l \in new}
      /\ Elements(blocks') = Elements(blocks) \cup Fresh(b, ts)
      /\ blocks # << >> => /\ blocks' # << >>
                           /\ Head(blocks') = Head(blocks)
                           /\ Elements(Tail(blocks')) = Elements(Tail(blocks)) \cup Fresh(b, ts)
  BY <1>0, <1>1, <1>5, AddsEdges
<1>10. Fresh(b, ts) = {l \in new : <<b, l>> \notin edges}
  BY DEF Fresh
<1>11. pc = "block" => blocks # << >>
  BY DEF CCPInv
<1>12. Elements(Pending') = Elements(Pending) \cup Fresh(b, ts)
  BY <1>9, <1>11 DEF Pending, Visits
<1> HIDE DEF b, new
<1>13. /\ Elements(blocks) \subseteq Elements(blocks')
       /\ Elements(Pending) \subseteq Elements(Pending')
       /\ \A l \in new : <<b, l>> \in edges \/ l \in Elements(Pending')
       /\ Elements(blocks') \subseteq Elements(blocks) \cup new
  BY <1>9, <1>10, <1>12
<1>14. Exit \notin new
  BY DEF new
<1> QED BY <1>6, <1>7, <1>8, <1>9, <1>11, <1>13, <1>14 DEF b

\* The control-flow part of the invariant.
LEMMA VisitKeepsFlow ==
  ASSUME CCPInv, FixpointInv, NEW j, NEW q, j \notin dns, Visits(j, q)
  PROVE  EdgesAreFollowed' /\ DominatorsComeFirst' /\ OnlyVisitedHaveStatus' /\ TodoIsTheRest'
<1> DEFINE b == prog.blockOf[j]
<1>0. /\ CCPTypeOK /\ j \in Insts(prog) /\ b \in prog.blocks
      /\ b \in simulated \/ BeingVisited(b)
  BY TakenHasPlace DEF CCPInv, Visits
<1>1. PICK new \in SUBSET Elements(Successors(prog, b)) :
           /\ Exit \notin new /\ new \subseteq prog.blocks
           /\ edges' = edges \cup {<<b, l>> : l \in new}
           /\ Elements(blocks) \subseteq Elements(blocks')
           /\ Elements(Pending) \subseteq Elements(Pending')
           /\ \A l \in new : <<b, l>> \in edges \/ l \in Elements(Pending')
           /\ Elements(blocks') \subseteq Elements(blocks) \cup new
           /\ pc = "block" => Head(blocks') = Head(blocks)
  BY VisitEdges
<1>2. \A a : BeingVisited(a)' <=> BeingVisited(a)
  BY <1>1 DEF BeingVisited, Visits
<1>3. prog' = prog /\ simulated' = simulated /\ pc' = pc
  BY DEF Visits
<1> HIDE DEF b
<1>4. EdgesAreFollowed'
  <2> SUFFICES ASSUME NEW e \in edges'
               PROVE  /\ e[1] \in simulated \cup {"entry"} \/ BeingVisited(e[1])
                      /\ \/ e[2] \in simulated \cup Elements(Pending')
                         \/ BeingVisited(e[2]) /\ e[1] # e[2]
    BY <1>2, <1>3 DEF EdgesAreFollowed
  <2>1. CASE e \in edges
    BY <1>1, <2>1 DEF FixpointInv, EdgesAreFollowed
  <2>2. CASE e \notin edges
    BY <1>0, <1>1, <2>2
  <2> QED BY <2>1, <2>2
<1>5. DominatorsComeFirst'
  <2> SUFFICES ASSUME NEW a \in prog.blocks \ simulated, NEW S \in SUBSET prog.blocks,
                      Avoids(prog, a, S)
               PROVE  /\ simulated \subseteq S
                      /\ ~BeingVisited(a) => Elements(blocks') \subseteq S \cup {a}
    BY <1>2, <1>3 DEF DominatorsComeFirst
  <2>1. /\ simulated \subseteq S
        /\ ~BeingVisited(a) => Elements(blocks) \subseteq S \cup {a}
    BY DEF FixpointInv, DominatorsComeFirst
  <2>2. ASSUME ~BeingVisited(a) PROVE Elements(blocks') \subseteq S \cup {a}
    <3>1. b \in S
      <4>1. BeingVisited(b) => b \in Elements(blocks) /\ b # a
        <5>1. pc = "block" => blocks # << >> /\ blocks \in Seq(prog.blocks)
          BY <1>0 DEF CCPInv, CCPTypeOK
        <5> QED BY <2>2, <5>1, ElementsOfTail DEF BeingVisited
      <4> QED BY <1>0, <2>1, <2>2, <4>1
    <3>2. new \subseteq S \cup {a}
      BY <1>1, <3>1 DEF Avoids
    <3> QED BY <1>1, <2>1, <2>2, <3>2
  <2> QED BY <2>1, <2>2
<1>6. OnlyVisitedHaveStatus'
  <2>1. /\ status' = [status EXCEPT ![j] = VisitInstruction(j).status]
        /\ uses' = IF /\ StatusChanges(j, VisitInstruction(j).status)
                      /\ VisitInstruction(j).status # "notInteresting"
                      /\ HasResult(prog, j)
                   THEN q \o UsersToSimulate(j, IF VisitInstruction(j).status = "varying"
                                                THEN dns \cup {j} ELSE dns)
                   ELSE q
    BY DEF Visits, Simulate
  <2>2. \A i \in Insts(prog) : status'[i] # "none" =>
          prog.blockOf[i] \in simulated \/ BeingVisited(prog.blockOf[i])
    <3> TAKE i \in Insts(prog)
    <3>1. CASE i = j
      BY <1>0, <3>1 DEF b
    <3>2. CASE i # j
      BY <2>1, <3>2, <1>0 DEF FixpointInv, OnlyVisitedHaveStatus, CCPTypeOK
    <3> QED BY <3>1, <3>2
  <2>3. q \in Seq(Insts(prog)) /\ \A i \in Elements(q) : prog.blockOf[i] \in simulated
    <3>1. \A i \in Elements(uses) : prog.blockOf[i] \in simulated
      BY DEF FixpointInv, OnlyVisitedHaveStatus
    <3>2. uses \in Seq(Insts(prog)) /\ (uses # << >> => Tail(uses) \in Seq(Insts(prog)))
      BY <1>0 DEF CCPTypeOK
    <3>3. uses # << >> => Elements(Tail(uses)) \subseteq Elements(uses)
      BY <3>2, ElementsOfTail
    <3>4. q = uses \/ (uses # << >> /\ q = Tail(uses))
      BY DEF Visits, Takes
    <3> QED BY <3>1, <3>2, <3>3, <3>4
  <2>4. \A i \in Elements(uses') : prog.blockOf[i] \in simulated
    <3> DEFINE settled == IF VisitInstruction(j).status = "varying" THEN dns \cup {j} ELSE dns
    <3>1. UsersToSimulate(j, settled) \in Seq(Insts(prog))
      BY <1>0, UsersToSimulateType
    <3>2. \A i \in Elements(UsersToSimulate(j, settled)) : prog.blockOf[i] \in simulated
      BY <1>0, UsersWereVisited
    <3> HIDE DEF settled
    <3>3. Elements(q \o UsersToSimulate(j, settled))
            = Elements(q) \cup Elements(UsersToSimulate(j, settled))
      BY <2>3, <3>1, ElementsOfConcat
    <3>4. uses' = q \/ uses' = q \o UsersToSimulate(j, settled)
      BY <2>1 DEF settled
    <3> QED BY <2>3, <3>2, <3>3, <3>4
  <2> QED BY <1>2, <1>3, <2>2, <2>4 DEF OnlyVisitedHaveStatus
<1>7. TodoIsTheRest'
  BY <1>1, TodoShrinks DEF Visits
<1> QED BY <1>4, <1>5, <1>6, <1>7
-----------------------------------------------------------------------------
\* What a visit changes, besides the flow.
LEMMA VisitEffects ==
  ASSUME CCPInv, FixpointInv, NEW j, NEW q, j \notin dns, Visits(j, q)
  PROVE  /\ CCPTypeOK /\ j \in Insts(prog)
         /\ CCPInv' /\ \A id \in Ids(prog) : Below(values[id], values'[id])
         /\ \A id \in Ids(prog) : values'[id] \in Lattice
         /\ \A id \in Ids(prog) \ {j} : values'[id] = values[id]
         /\ \A i \in Insts(prog) \ {j} : status'[i] = status[i]
         /\ status'[j] = VisitInstruction(j).status
         /\ values'[j] = VisitInstruction(j).value
         /\ dns \subseteq dns' /\ dns' \subseteq dns \cup {j}
         /\ j \in dns' => status'[j] = "varying" \/ ~HasOperandsToSimulate(j)
         /\ edges \subseteq edges' /\ prog' = prog
<1> DEFINE r == VisitInstruction(j)
<1>1. CCPTypeOK /\ j \in Insts(prog) /\ prog' = prog
  BY TakenHasPlace DEF CCPInv, Visits
<1>2. q \in Seq(Insts(prog)) /\ todo' \in Seq(Insts(prog))
  <2>1. /\ uses \in Seq(Insts(prog)) /\ todo \in Seq(Insts(prog))
        /\ uses # << >> => Tail(uses) \in Seq(Insts(prog))
        /\ todo # << >> => Tail(todo) \in Seq(Insts(prog))
    BY <1>1 DEF CCPTypeOK
  <2> QED BY <2>1 DEF Visits, Takes
<1>3. CCPInv' /\ Descends
  BY <1>1, <1>2, SimulateStep DEF Visits
<1>4. \A id \in Ids(prog) : values'[id] \in Lattice
  BY <1>1, <1>3 DEF CCPInv, CCPTypeOK, Ids
<1>5. values \in [Ids(prog) -> Lattice] /\ status \in [Insts(prog) -> PropStatus \cup {"none"}]
      /\ j \in Ids(prog)
  BY <1>1 DEF CCPTypeOK, Ids
<1>6. /\ values' = [values EXCEPT ![j] = r.value]
      /\ status' = [status EXCEPT ![j] = r.status]
      /\ dns' = IF HasOperandsToSimulate(j)
                THEN IF r.status = "varying" THEN dns \cup {j} ELSE dns
                ELSE dns \cup {j}
  BY DEF Visits, Simulate
<1> HIDE DEF r
<1>7. /\ \A id \in Ids(prog) \ {j} : values'[id] = values[id]
      /\ \A i \in Insts(prog) \ {j} : status'[i] = status[i]
      /\ status'[j] = r.status
      /\ values'[j] = r.value
  BY <1>1, <1>5, <1>6
<1>8. /\ dns \subseteq dns' /\ dns' \subseteq dns \cup {j}
      /\ j \in dns' => status'[j] = "varying" \/ ~HasOperandsToSimulate(j)
  BY <1>6, <1>7
<1>9. edges \subseteq edges'
  BY VisitEdges
<1> QED BY <1>1, <1>3, <1>4, <1>7, <1>8, <1>9 DEF Descends, r

\* What is recorded after a visit was said by the last visit of each.
LEMMA VisitRecords ==
  ASSUME CCPInv, FixpointInv, NEW j, NEW q, j \notin dns, Visits(j, q),
         NEW i \in Insts(prog), i # j => UpToDate(i)
  PROVE  Recorded(i)
<1>1. CASE i = j
  BY <1>1, VisitEdges
<1>2. CASE i # j
  <2>1. i \in Ids(prog) \ {j}
    BY <1>2 DEF Ids
  <2>2. edges \subseteq edges' /\ status'[i] = status[i] /\ values'[i] = values[i]
    BY <1>2, <2>1, VisitEffects
  <2> QED BY <1>2, <2>2, StaysRecorded
<1> QED BY <1>1, <1>2

\* The instructions that are retired, before or by this visit.
LEMMA VisitKeepsRetired ==
  ASSUME CCPInv, FixpointInv, NEW j, NEW q, j \notin dns, Visits(j, q)
  PROVE  RetiredForGood'
<1>1. /\ CCPTypeOK /\ j \in Insts(prog)
      /\ \A id \in Ids(prog) : Below(values[id], values'[id])
      /\ \A id \in Ids(prog) : values'[id] \in Lattice
      /\ \A id \in Ids(prog) \ {j} : values'[id] = values[id]
      /\ \A i \in Insts(prog) \ {j} : status'[i] = status[i]
      /\ status'[j] = VisitInstruction(j).status
      /\ values'[j] = VisitInstruction(j).value
      /\ dns \subseteq dns' /\ dns' \subseteq dns \cup {j}
      /\ j \in dns' => status'[j] = "varying" \/ ~HasOperandsToSimulate(j)
      /\ edges \subseteq edges' /\ prog' = prog
  BY VisitEffects
<1>2. \A id \in dns : values'[id] = values[id]
  BY <1>1 DEF CCPTypeOK, Ids
<1> SUFFICES ASSUME NEW i \in dns'
             PROVE  /\ status'[i] # "none" /\ UpToDate(i)'
                    /\ status'[i] = "varying" \/ ~HasOperandsToSimulate(i)'
  BY DEF RetiredForGood
<1>3. i \in Insts(prog) /\ (i # j => i \in dns) /\ i \in Ids(prog)
  BY <1>1 DEF CCPTypeOK, Ids
<1>4. status'[i] # "none"
  <2>1. CASE i = j
    BY <1>1, <2>1, VisitPromises DEF Promises, PropStatus
  <2>2. CASE i # j
    BY <1>1, <1>3, <2>2 DEF FixpointInv, RetiredForGood
  <2> QED BY <2>1, <2>2
<1>5. status'[i] = "varying" \/ ~HasOperandsToSimulate(i)
  <2>1. CASE i = j
    BY <1>1, <2>1
  <2>2. CASE i # j
    BY <1>1, <1>3, <2>2 DEF FixpointInv, RetiredForGood
  <2> QED BY <2>1, <2>2
<1>6. Recorded(i)
  BY <1>3, VisitRecords DEF FixpointInv, RetiredForGood
<1>7. values'[i] \in {values[i], VisitInstruction(i).value}
  BY <1>1, <1>3
<1>8. UpToDate(i)'
  <2>1. CASE status'[i] = "varying"
    BY <1>1, <1>3, <1>6, <2>1, VaryingUpToDate
  <2>2. CASE ~HasOperandsToSimulate(i)
    BY <1>1, <1>2, <1>3, <1>6, <1>7, <2>2, SettledUpToDate
  <2> QED BY <1>5, <2>1, <2>2
<1>9. ~HasOperandsToSimulate(i) => ~HasOperandsToSimulate(i)'
  BY <1>1, StaysSettled
<1> QED BY <1>4, <1>5, <1>8, <1>9

\* Where the operands of the instructions of a block are computed.
LEMMA OperandsComeFirst ==
  ASSUME CCPTypeOK, NEW b \in prog.blocks, NEW m \in DOMAIN Lines(prog, b),
         NEW i, i = Lines(prog, b)[m], NEW k \in DOMAIN Args(i), Args(i)[k] \in Insts(prog)
  PROVE  /\ Op(i) = "phi" => Dominates(prog, prog.blockOf[Args(i)[k]], prog.inst[i].labels[k])
         /\ Op(i) # "phi" /\ prog.blockOf[Args(i)[k]] = b
              => \E n \in 1 .. m - 1 : Lines(prog, b)[n] = Args(i)[k]
         /\ Op(i) # "phi" /\ prog.blockOf[Args(i)[k]] # b
              => Dominates(prog, prog.blockOf[Args(i)[k]], b)
<1> DEFINE a == Args(i)[k]
<1>1. IF prog.inst[i].op = "phi" THEN Dominates(prog, prog.blockOf[a], prog.inst[i].labels[k])
      ELSE IF prog.blockOf[a] = b THEN \E n \in 1 .. m - 1 : Lines(prog, b)[n] = a
      ELSE Dominates(prog, prog.blockOf[a], b)
  BY SSAShape DEF InSSAForm, Args
<1> HIDE DEF a
<1>2. prog.inst[i].op = "phi" => Dominates(prog, prog.blockOf[a], prog.inst[i].labels[k])
  BY <1>1
<1>3. prog.inst[i].op # "phi" /\ prog.blockOf[a] = b => \E n \in 1 .. m - 1 : Lines(prog, b)[n] = a
  BY <1>1
<1>4. prog.inst[i].op # "phi" /\ prog.blockOf[a] # b => Dominates(prog, prog.blockOf[a], b)
  BY <1>1
<1> QED BY <1>2, <1>3, <1>4 DEF Op, a

\* A phi of the block under its first visit that takes a value from the block
\* itself waits for the second visit.
LEMMA LoopPhiWaits ==
  ASSUME CCPInv, FixpointInv, NEW i \in Insts(prog), Op(i) = "phi",
         NEW k \in DOMAIN Args(i), IsPhiArgExecutable(i, k), Args(i)[k] \in Insts(prog),
         prog.blockOf[Args(i)[k]] = prog.blockOf[i],
         BeingVisited(prog.blockOf[i]), prog.blockOf[i] \notin simulated
  PROVE  prog.blockOf[i] \in Elements(Pending)
<1> DEFINE b == prog.blockOf[i]
           L == prog.inst[i].labels[k]
<1>0. CCPTypeOK /\ b \in prog.blocks
  BY ProgShape DEF CCPInv
<1>1. L \in prog.blocks
  <2>1. Len(prog.inst[i].labels) = Len(Args(i))
    BY <1>0, SSAShape
  <2> QED BY <1>0, <2>1, ArgsType
<1>2. <<L, b>> \in edges
  BY DEF IsPhiArgExecutable
<1>3. Dominates(prog, b, L)
  <2>1. i \in Elements(prog.phis[b])
    BY <1>0, SSAShape DEF InSSAForm, Op
  <2>2. PICK m \in DOMAIN Lines(prog, b) : Lines(prog, b)[m] = i
    <3> HIDE DEF b
    <3>1. i \in Elements(Lines(prog, b))
      BY <1>0, <2>1, PhisAreLines
    <3> QED BY <3>1 DEF Elements
  <2>3. Dominates(prog, prog.blockOf[Args(i)[k]], prog.inst[i].labels[k])
    <3> HIDE DEF b
    <3> QED BY <1>0, <2>2, OperandsComeFirst
  <2> QED BY <2>3
<1> HIDE DEF b, L
<1>4. "entry" \notin prog.blocks
  BY <1>0, ProgIsWellFormed DEF WellFormed, CCPTypeOK
<1>5. L \in simulated \/ BeingVisited(L)
  BY <1>1, <1>2, <1>4 DEF FixpointInv, EdgesAreFollowed
<1>6. L = b
  <2>1. CASE BeingVisited(L)
    BY <2>1 DEF BeingVisited, b
  <2>2. CASE L \in simulated
    <3> SUFFICES ASSUME L # b PROVE FALSE
      OBVIOUS
    <3>1. PICK S \in SUBSET prog.blocks : Avoids(prog, b, S) /\ L \notin S
      BY <1>3 DEF Dominates
    <3>2. simulated \subseteq S
      BY <1>0, <3>1 DEF FixpointInv, DominatorsComeFirst, b
    <3> QED BY <2>2, <3>1, <3>2
  <2> QED BY <1>5, <2>1, <2>2
<1>7. b \in simulated \cup Elements(Pending)
  BY <1>2, <1>6 DEF FixpointInv, EdgesAreFollowed
<1> QED BY <1>7 DEF b
-----------------------------------------------------------------------------
\* An instruction that reads a value that the visit of j has changed, and may
\* itself change, waits.
LEMMA ChangeIsHeard ==
  ASSUME CCPInv, FixpointInv, NEW j, NEW q, j \notin dns, Visits(j, q),
         NEW i \in Insts(prog) \ dns', status'[i] # "none",
         NEW k \in DOMAIN Args(i), Op(i) = "phi" => IsPhiArgExecutable(i, k),
         values'[Args(i)[k]] # values[Args(i)[k]]
  PROVE  Waiting(i)'
<1> DEFINE b == prog.blockOf[i]
           r == VisitInstruction(j)
           settled == IF r.status = "varying" THEN dns \cup {j} ELSE dns
<1>0. /\ CCPTypeOK /\ j \in Insts(prog) /\ b \in prog.blocks
      /\ dns \subseteq dns' /\ settled \subseteq dns' /\ prog' = prog /\ (i # j => i \notin dns)
  <2>1. settled \subseteq dns'
    BY DEF Visits, Simulate
  <2> QED BY <2>1, VisitEffects, ProgShape DEF CCPInv
<1>1. Args(i)[k] = j /\ r.value # values[j]
  <2>1. Args(i)[k] \in Ids(prog)
    BY <1>0, ArgsType
  <2> QED BY <2>1, VisitEffects
<1>2. j \in OperandIds(prog, i)
  BY <1>1 DEF OperandIds, Elements, Args
<1>3. uses' = q \o UsersToSimulate(j, settled)
  BY <1>0, <1>1, ChangeIsNews DEF Visits, Simulate
<1>4. CASE b \in simulated
  <2>1. i \in Elements(UsersToSimulate(j, settled))
    <3> HIDE DEF settled
    <3>1. i \notin settled
      BY <1>0
    <3> QED BY <1>0, <1>2, <1>4, <3>1, UsersAreQueued
  <2>2. q \in Seq(Insts(prog))
    <3>1. /\ uses \in Seq(Insts(prog))
          /\ uses # << >> => Tail(uses) \in Seq(Insts(prog))
      BY <1>0 DEF CCPTypeOK
    <3> QED BY <3>1 DEF Visits, Takes
  <2>3. UsersToSimulate(j, settled) \in Seq(Insts(prog))
    BY <1>0, UsersToSimulateType
  <2> HIDE DEF settled
  <2>4. i \in Elements(uses')
    BY <1>3, <2>1, <2>2, <2>3, ElementsOfConcat
  <2> QED BY <2>4 DEF Waiting
<1>5. CASE b \notin simulated
  <2>1. BeingVisited(b)
    <3>1. CASE i = j
      BY <1>5, <3>1, TakenHasPlace DEF Visits
    <3>2. CASE i # j
      BY <1>0, <1>5, <3>2, VisitEffects DEF FixpointInv, OnlyVisitedHaveStatus
    <3> QED BY <3>1, <3>2
  <2>2. pc = "block" /\ b = Head(blocks) /\ prog.blockOf[j] = b
    BY <2>1, TakenHasPlace DEF BeingVisited, Visits
  <2>3. CASE Op(i) = "phi"
    <3>1. b \in Elements(Pending)
      BY <1>0, <1>1, <1>5, <2>1, <2>2, <2>3, LoopPhiWaits
    <3>2. b \in Elements(Pending')
      BY <3>1, VisitEdges
    <3>3. Op(i)' = "phi" /\ prog'.blockOf[i] = b
      BY <1>0, <2>3 DEF Op
    <3> HIDE DEF b, r, settled
    <3> QED BY <3>2, <3>3 DEF Waiting
  <2>4. CASE Op(i) # "phi"
    <3> DEFINE lines == Lines(prog, b)
    <3>1. PICK n \in 0 .. Len(lines) : /\ Len(todo) = Len(lines) - n
                                       /\ \A l \in DOMAIN todo : todo[l] = lines[n + l]
      BY <1>5, <2>2 DEF FixpointInv, TodoIsTheRest
    <3>2. lines \in Seq(Insts(prog))
      BY <1>0, SSAShape
    <3>3. i \in Elements(prog.rest[b])
      BY <1>0, <2>4, SSAShape DEF InSSAForm, Op
    <3>4. PICK m \in DOMAIN lines : lines[m] = i
      <4>1. i \in Elements(lines)
        BY <1>0, <3>3, PhisAreLines
      <4> HIDE DEF lines
      <4> QED BY <4>1 DEF Elements
    <3>5. PICK l \in 1 .. m - 1 : lines[l] = j
      BY <1>0, <1>1, <2>2, <2>4, <3>4, OperandsComeFirst
    <3>6. /\ todo # << >> /\ j = todo[1] /\ todo' = Tail(todo)
          /\ todo \in Seq(Insts(prog))
      BY <1>0, <2>2 DEF Visits, Takes, CCPTypeOK
    <3> HIDE DEF lines
    <3>7. /\ DOMAIN lines = 1..Len(lines) /\ Len(lines) \in Nat /\ n \in Nat
          /\ DOMAIN todo = 1..Len(todo) /\ Len(todo) \in Nat \ {0}
          /\ m \in 1..Len(lines) /\ l \in 1..Len(lines) /\ l < m
      BY <3>1, <3>2, <3>4, <3>5, <3>6
    <3>8. j = lines[n + 1] /\ n + 1 \in 1..Len(lines)
      <4>1. 1 \in DOMAIN todo
        BY <3>7
      <4>2. n + 1 \in 1..Len(lines)
        BY <3>1, <3>7
      <4> QED BY <3>1, <3>6, <4>1, <4>2
    <3>9. l = n + 1
      <4>1. \A x, y \in DOMAIN lines : lines[x] = lines[y] => x = y
        BY <1>0, SSAShape DEF InSSAForm, lines
      <4> QED BY <3>5, <3>7, <3>8, <4>1
    <3>10. m - n - 1 \in DOMAIN todo' /\ todo'[m - n - 1] = i
      <4>1. m - n \in 1..Len(todo) /\ todo[m - n] = i
        BY <3>1, <3>4, <3>7, <3>9
      <4>2. m - n - 1 \in 1..(Len(todo) - 1)
        BY <3>7, <3>9, <4>1
      <4>3. DOMAIN todo' = 1..(Len(todo) - 1) /\ \A x \in 1..(Len(todo) - 1) : todo'[x] = todo[x + 1]
        BY <3>6
      <4> QED BY <3>7, <4>1, <4>2, <4>3
    <3>11. i \in Elements(todo') /\ pc' = "block"
      BY <2>2, <3>10 DEF Elements, Visits
    <3> QED BY <3>11 DEF Waiting
  <2> QED BY <2>3, <2>4
<1> QED BY <1>4, <1>5

\* A phi that an edge was opened to waits.
LEMMA NewEdgeIsHeard ==
  ASSUME CCPInv, FixpointInv, NEW j, NEW q, j \notin dns, Visits(j, q),
         NEW i \in Insts(prog), Op(i) = "phi",
         NEW k, IsPhiArgExecutable(i, k)', ~IsPhiArgExecutable(i, k)
  PROVE  Waiting(i)'
<1>1. PICK new \in SUBSET Elements(Successors(prog, prog.blockOf[j])) :
        /\ edges' = edges \cup {<<prog.blockOf[j], l>> : l \in new}
        /\ \A l \in new : <<prog.blockOf[j], l>> \in edges \/ l \in Elements(Pending')
  BY VisitEdges
<1>2. prog' = prog
  BY DEF Visits
<1>3. prog.blockOf[i] \in Elements(Pending')
  BY <1>1, <1>2 DEF IsPhiArgExecutable
<1> QED BY <1>2, <1>3 DEF Waiting, Op

\* Whatever a visit makes out of date, it queues, or it waits already.
LEMMA VisitKeepsUpToDate ==
  ASSUME CCPInv, FixpointInv, NEW j, NEW q, j \notin dns, Visits(j, q)
  PROVE  UpToDateOrWaiting'
<1>0. CCPTypeOK /\ j \in Insts(prog) /\ prog' = prog /\ edges \subseteq edges'
  BY VisitEffects
<1> SUFFICES ASSUME NEW i \in Insts(prog), status'[i] # "none", ~Waiting(i)'
             PROVE  UpToDate(i)'
  BY <1>0 DEF UpToDateOrWaiting
<1>1. CASE i \in dns'
  BY <1>1, VisitKeepsRetired DEF RetiredForGood
<1>2. CASE i \notin dns'
  <2>1. i # j => UpToDate(i)
    <3> SUFFICES ASSUME i # j PROVE UpToDate(i)
      OBVIOUS
    <3>1. Elements(q) \subseteq Elements(uses')
      <4>1. q \in Seq(Insts(prog))
        <5>1. /\ uses \in Seq(Insts(prog))
              /\ uses # << >> => Tail(uses) \in Seq(Insts(prog))
          BY <1>0 DEF CCPTypeOK
        <5> QED BY <5>1 DEF Visits, Takes
      <4>2. PICK u \in Seq(Insts(prog)) : uses' = q \/ uses' = q \o u
        BY <1>0, UsersToSimulateType DEF Visits, Simulate
      <4>3. Elements(q \o u) = Elements(q) \cup Elements(u)
        BY <4>1, ElementsOfConcat
      <4> QED BY <4>2, <4>3
    <3>2. Elements(Pending) \subseteq Elements(Pending')
      BY VisitEdges
    <3>3. ~Waiting(i)
      BY <3>1, <3>2, OthersWait DEF Visits
    <3>4. status[i] # "none"
      BY VisitEffects
    <3> QED BY <3>3, <3>4 DEF FixpointInv, UpToDateOrWaiting
  <2>2. Recorded(i)
    BY <2>1, VisitRecords
  <2>3. Unmoved(i)
    <3>1. values'[i] \in {values[i], VisitInstruction(i).value}
      <4>1. i \in Ids(prog)
        BY DEF Ids
      <4> QED BY <4>1, VisitEffects
    <3>2. \A k \in DOMAIN Args(i) :
            (Op(i) = "phi" => IsPhiArgExecutable(i, k)) => values'[Args(i)[k]] = values[Args(i)[k]]
      BY <1>2, ChangeIsHeard
    <3>3. \A k \in DOMAIN Args(i) :
            Op(i) = "phi" => (IsPhiArgExecutable(i, k)' <=> IsPhiArgExecutable(i, k))
      BY <1>0, NewEdgeIsHeard DEF IsPhiArgExecutable
    <3> QED BY <3>1, <3>2, <3>3 DEF Unmoved
  <2> QED BY <1>0, <2>2, <2>3, SameVisit, SaidAgain
<1> QED BY <1>1, <1>2

\* A visit keeps all of the invariant.
LEMMA VisitKeepsFixpoint ==
  ASSUME CCPInv, FixpointInv, NEW j, NEW q, j \notin dns, Visits(j, q)
  PROVE  FixpointInv'
BY VisitKeepsFlow, VisitKeepsRetired, VisitKeepsUpToDate DEF FixpointInv
-----------------------------------------------------------------------------
\* Steps that record nothing.
Silent == prog' = prog /\ values' = values /\ status' = status /\ dns' = dns

\* What is retired stays up to date when nothing is recorded.
LEMMA SilentKeepsRetired ==
  ASSUME CCPInv, FixpointInv, Silent, edges \subseteq edges'
  PROVE  RetiredForGood'
<1> SUFFICES ASSUME NEW i \in dns
             PROVE  /\ status[i] # "none" /\ UpToDate(i)'
                    /\ status[i] = "varying" \/ ~HasOperandsToSimulate(i)'
  BY DEF Silent, RetiredForGood
<1>1. /\ i \in Insts(prog) /\ status[i] # "none" /\ UpToDate(i)
      /\ status[i] = "varying" \/ ~HasOperandsToSimulate(i)
  BY DEF CCPInv, CCPTypeOK, FixpointInv, RetiredForGood
<1>2. Recorded(i)
  BY <1>1, StaysRecorded DEF Silent
<1>3. UpToDate(i)'
  <2>1. /\ \A id \in Ids(prog) : values[id] \in Lattice
        /\ \A id \in Ids(prog) : Below(values[id], values[id])
    BY DEF CCPInv, CCPTypeOK, Below
  <2>2. CASE status[i] = "varying"
    BY <1>1, <1>2, <2>1, <2>2, VaryingUpToDate DEF Silent
  <2>3. CASE ~HasOperandsToSimulate(i)
    BY <1>1, <1>2, <2>3, SettledUpToDate DEF Silent
  <2> QED BY <1>1, <2>2, <2>3
<1>4. ~HasOperandsToSimulate(i) => ~HasOperandsToSimulate(i)'
  BY StaysSettled DEF Silent
<1> QED BY <1>1, <1>3, <1>4

\* Whoever did not wait before, and hears of no new edge, is up to date.
LEMMA SilentKeepsUpToDate ==
  ASSUME CCPInv, FixpointInv, Silent, edges \subseteq edges',
         \A i \in Insts(prog) : Waiting(i) => Waiting(i)' \/ i \in dns,
         \A i \in Insts(prog) : \A k \in DOMAIN Args(i) :
            Op(i) = "phi" /\ IsPhiArgExecutable(i, k)' /\ ~IsPhiArgExecutable(i, k) => Waiting(i)'
  PROVE  UpToDateOrWaiting'
<1> SUFFICES ASSUME NEW i \in Insts(prog), status[i] # "none", ~Waiting(i)'
             PROVE  UpToDate(i)'
  BY DEF Silent, UpToDateOrWaiting
<1>1. CASE i \in dns
  BY <1>1, SilentKeepsRetired DEF Silent, RetiredForGood
<1>2. CASE i \notin dns
  <2>1. UpToDate(i)
    BY <1>2 DEF FixpointInv, UpToDateOrWaiting
  <2>2. Recorded(i)
    BY <2>1, StaysRecorded DEF Silent
  <2>3. Unmoved(i)
    BY DEF Unmoved, Silent, IsPhiArgExecutable
  <2>4. VisitInstruction(i)' = VisitInstruction(i)
    BY <2>3, SameVisit DEF Silent, CCPInv
  <2> QED BY <2>2, <2>4, SaidAgain DEF Silent
<1> QED BY <1>1, <1>2

\* An instruction that is not simulated again leaves the list it waited in.
LEMMA SkipKeepsFixpoint ==
  ASSUME CCPInv, FixpointInv, NEW j \in dns, NEW q, Takes(j, q), Skip(q),
         prog' = prog /\ simulated' = simulated /\ pc' = pc /\ values' = values
  PROVE  FixpointInv'
<1>1. /\ Silent /\ edges' = edges /\ blocks' = blocks /\ uses' = q
      /\ \A b : BeingVisited(b)' <=> BeingVisited(b)
      /\ Pending' = Pending
  BY DEF Skip, Silent, BeingVisited, Pending
<1>2. EdgesAreFollowed' /\ DominatorsComeFirst'
  BY <1>1 DEF FixpointInv, EdgesAreFollowed, DominatorsComeFirst
<1>3. OnlyVisitedHaveStatus'
  <2>1. Elements(q) \subseteq Elements(uses)
    <3>1. uses \in Seq(Insts(prog))
      BY DEF CCPInv, CCPTypeOK
    <3> QED BY <3>1, ElementsOfTail DEF Takes
  <2> QED BY <1>1, <2>1 DEF FixpointInv, OnlyVisitedHaveStatus, Silent
<1>4. TodoIsTheRest'
  BY <1>1, TodoShrinks
<1>5. RetiredForGood'
  BY <1>1, SilentKeepsRetired
<1>6. UpToDateOrWaiting'
  <2>1. \A i \in Insts(prog) : Waiting(i) => Waiting(i)' \/ i \in dns
    BY <1>1, OthersWait
  <2>2. \A i, k : IsPhiArgExecutable(i, k)' <=> IsPhiArgExecutable(i, k)
    BY <1>1 DEF IsPhiArgExecutable
  <2> QED BY <1>1, <2>1, <2>2, SilentKeepsUpToDate
<1> QED BY <1>2, <1>3, <1>4, <1>5, <1>6 DEF FixpointInv

\* The visit of the first block in the queue begins.
LEMMA StartKeepsFixpoint ==
  ASSUME CCPInv, FixpointInv, StartBlock, values' = values
  PROVE  FixpointInv'
<1> DEFINE b == Head(blocks)
           all == IF b \in simulated THEN prog.phis[b] ELSE Lines(prog, b)
<1>1. /\ Silent /\ edges' = edges /\ blocks' = blocks /\ uses' = uses /\ simulated' = simulated
      /\ pc = "pick" /\ pc' = "block" /\ todo' = all /\ blocks # << >>
  BY DEF StartBlock, Silent, Lines
<1>2. /\ CCPTypeOK /\ b \in prog.blocks /\ blocks \in Seq(prog.blocks)
      /\ Elements(blocks) = {b} \cup Elements(Tail(blocks))
  BY <1>1, ElementsOfTail DEF CCPInv, CCPTypeOK
<1>3. /\ \A a : BeingVisited(a)' <=> a = b
      /\ \A a : ~BeingVisited(a)
      /\ Pending = blocks /\ Pending' = Tail(blocks)
  BY <1>1 DEF BeingVisited, Pending
<1>4. prog.phis[b] \in Seq(Insts(prog)) /\ prog.rest[b] \in Seq(Insts(prog)) /\ all \in Seq(Insts(prog))
  BY <1>2, SSAShape, ProgShape
<1>5. all' = all
  BY <1>1 DEF Silent, Lines
<1> HIDE DEF all
<1>6. TodoIsTheRest'
  <2>1. /\ 0 \in 0 .. Len(all) /\ Len(todo') = Len(all) - 0
        /\ \A k \in DOMAIN todo' : todo'[k] = all[0 + k]
    BY <1>1, <1>4
  <2>2. \E n \in 0 .. Len(all) : /\ Len(todo') = Len(all) - n
                                 /\ \A k \in DOMAIN todo' : todo'[k] = all[n + k]
    BY <2>1
  <2> QED BY <1>1, <2>2 DEF TodoIsTheRest, Silent, all, Lines
<1> HIDE DEF b
<1>7. OnlyVisitedHaveStatus'
  BY <1>1, <1>3 DEF FixpointInv, OnlyVisitedHaveStatus, Silent
<1>8. EdgesAreFollowed'
  <2> SUFFICES ASSUME NEW e \in edges
               PROVE  /\ e[1] \in simulated \cup {"entry"} \/ BeingVisited(e[1])'
                      /\ \/ e[2] \in simulated \cup Elements(Tail(blocks))
                         \/ BeingVisited(e[2])' /\ e[1] # e[2]
    BY <1>1, <1>3 DEF EdgesAreFollowed
  <2>1. /\ e[1] \in simulated \cup {"entry"}
        /\ e[2] \in simulated \cup Elements(blocks)
    BY <1>3 DEF FixpointInv, EdgesAreFollowed
  <2>2. e[2] \in prog.blocks /\ "entry" \notin prog.blocks
    BY <1>2, ProgIsWellFormed DEF CCPTypeOK, WellFormed
  <2> QED BY <1>2, <1>3, <2>1, <2>2
<1>9. DominatorsComeFirst'
  BY <1>1, <1>3 DEF FixpointInv, DominatorsComeFirst, Silent
<1>10. RetiredForGood'
  BY <1>1, SilentKeepsRetired
<1>11. UpToDateOrWaiting'
  <2>1. \A i \in Insts(prog) : Waiting(i) => Waiting(i)'
    <3> SUFFICES ASSUME NEW i \in Insts(prog), Waiting(i) PROVE Waiting(i)'
      OBVIOUS
    <3>1. CASE i \in Elements(uses)
      BY <1>1, <3>1 DEF Waiting
    <3>2. CASE Op(i) = "phi" /\ prog.blockOf[i] \in Elements(blocks)
      <4>1. Op(i)' = "phi" /\ prog'.blockOf[i] = prog.blockOf[i]
        BY <1>1, <3>2 DEF Op, Silent
      <4>2. CASE prog.blockOf[i] = b
        <5>1. i \in Elements(prog.phis[b])
          BY <1>2, <3>2, <4>2, SSAShape DEF InSSAForm, Op
        <5>2. i \in Elements(Lines(prog, b))
          BY <1>2, <5>1, PhisAreLines
        <5>3. i \in Elements(todo')
          BY <1>1, <5>1, <5>2 DEF all
        <5> QED BY <1>1, <5>3 DEF Waiting
      <4>3. CASE prog.blockOf[i] # b
        BY <1>2, <1>3, <3>2, <4>1, <4>3 DEF Waiting
      <4> QED BY <4>2, <4>3
    <3> QED BY <1>1, <1>3, <3>1, <3>2 DEF Waiting
  <2>2. \A i, k : IsPhiArgExecutable(i, k)' <=> IsPhiArgExecutable(i, k)
    BY <1>1 DEF IsPhiArgExecutable, Silent
  <2> QED BY <1>1, <2>1, <2>2, SilentKeepsUpToDate
<1> QED BY <1>6, <1>7, <1>8, <1>9, <1>10, <1>11 DEF FixpointInv

\* The visit ends, and a single successor is reached.
LEMMA FinishBlockKeepsFixpoint ==
  ASSUME CCPInv, FixpointInv, FinishBlock, values' = values
  PROVE  FixpointInv'
<1> DEFINE b == Head(blocks)
           ts == IF b \notin simulated /\ Len(Successors(prog, b)) = 1
                 THEN Successors(prog, b) ELSE << >>
           new == Elements(ts) \ {Exit}
<1>1. /\ Silent /\ uses' = uses /\ todo' = todo /\ todo = << >>
      /\ pc = "block" /\ pc' = "pick" /\ simulated' = simulated \cup {b}
      /\ AddControlEdges(b, ts, Tail(blocks))
  BY DEF FinishBlock, Silent
<1>2. /\ CCPTypeOK /\ b \in prog.blocks /\ blocks \in Seq(prog.blocks)
      /\ Elements(blocks) = {b} \cup Elements(Tail(blocks))
      /\ Tail(blocks) \in Seq(prog.blocks)
  <2>1. CCPTypeOK /\ blocks # << >> /\ blocks \in Seq(prog.blocks)
    BY <1>1 DEF CCPInv, CCPTypeOK
  <2> QED BY <2>1, ElementsOfTail
<1>3. ts \in Seq(prog.blocks \cup {Exit})
  BY <1>2, SuccessorsType
<1>4. /\ edges' = edges \cup {<<b, l>> : l \in new}
      /\ Elements(blocks') = Elements(Tail(blocks)) \cup Fresh(b, ts)
  <2> HIDE DEF ts
  <2> QED BY <1>1, <1>2, <1>3, AddsEdges
<1>5. /\ new \subseteq Elements(Successors(prog, b))
      /\ new \subseteq prog.blocks
      /\ Fresh(b, ts) = {l \in new : <<b, l>> \notin edges}
  <2>1. Elements(<< >>) = {}
    BY DEF Elements
  <2>2. new \subseteq Elements(Successors(prog, b))
    BY <2>1
  <2> HIDE DEF ts
  <2>3. new \subseteq prog.blocks
    BY <1>3, ElementsType
  <2> QED BY <2>2, <2>3 DEF Fresh
<1>6. /\ \A a : BeingVisited(a) <=> a = b
      /\ \A a : ~BeingVisited(a)'
      /\ Pending = Tail(blocks) /\ Pending' = blocks'
  BY <1>1 DEF BeingVisited, Pending
<1>7. TodoIsTheRest'
  BY <1>1 DEF TodoIsTheRest
<1> HIDE DEF new, ts, b
<1>8. OnlyVisitedHaveStatus'
  BY <1>1, <1>6 DEF FixpointInv, OnlyVisitedHaveStatus, Silent
<1>9. EdgesAreFollowed'
  <2> SUFFICES ASSUME NEW e \in edges'
               PROVE  /\ e[1] \in simulated \cup {b, "entry"}
                      /\ e[2] \in simulated \cup {b} \cup Elements(blocks')
    BY <1>1, <1>6 DEF EdgesAreFollowed
  <2>1. CASE e \in edges
    BY <1>4, <1>6, <2>1 DEF FixpointInv, EdgesAreFollowed
  <2>2. CASE e \notin edges
    BY <1>4, <1>5, <2>2
  <2> QED BY <2>1, <2>2
<1>10. DominatorsComeFirst'
  <2> SUFFICES ASSUME NEW a \in prog.blocks \ (simulated \cup {b}), NEW S \in SUBSET prog.blocks,
                      Avoids(prog, a, S)
               PROVE  simulated \cup {b} \subseteq S /\ Elements(blocks') \subseteq S \cup {a}
    BY <1>1 DEF DominatorsComeFirst, Silent
  <2>1. simulated \subseteq S /\ Elements(blocks) \subseteq S \cup {a}
    BY <1>6 DEF FixpointInv, DominatorsComeFirst
  <2>2. b \in S
    BY <1>2, <2>1
  <2>3. new \subseteq S \cup {a}
    BY <1>5, <2>2 DEF Avoids, new
  <2> QED BY <1>2, <1>4, <1>5, <2>1, <2>2, <2>3
<1>11. RetiredForGood'
  BY <1>1, <1>4, SilentKeepsRetired
<1>12. UpToDateOrWaiting'
  <2>1. \A i : Op(i)' = Op(i) /\ prog'.blockOf = prog.blockOf
    BY <1>1 DEF Op, Silent
  <2>2. \A i \in Insts(prog) : Waiting(i) => Waiting(i)'
    <3>1. Elements(<< >>) = {}
      BY DEF Elements
    <3> QED BY <1>1, <1>4, <1>6, <2>1, <3>1 DEF Waiting
  <2>3. \A i \in Insts(prog) : \A k \in DOMAIN Args(i) :
          Op(i) = "phi" /\ IsPhiArgExecutable(i, k)' /\ ~IsPhiArgExecutable(i, k) => Waiting(i)'
    <3> SUFFICES ASSUME NEW i \in Insts(prog), NEW k \in DOMAIN Args(i), Op(i) = "phi", IsPhiArgExecutable(i, k)', ~IsPhiArgExecutable(i, k)
                 PROVE  Waiting(i)'
      OBVIOUS
    <3>1. prog.blockOf[i] \in Elements(blocks')
      BY <1>1, <1>4, <1>5 DEF IsPhiArgExecutable, Silent
    <3> QED BY <1>6, <2>1, <3>1 DEF Waiting
  <2> QED BY <1>1, <1>4, <2>2, <2>3, SilentKeepsUpToDate
<1> QED BY <1>7, <1>8, <1>9, <1>10, <1>11, <1>12 DEF FixpointInv

\* Steps that move nothing.
LEMMA IdleKeepsFixpoint ==
  ASSUME CCPInv, FixpointInv, Silent, pc' = "block" <=> pc = "block",
         UNCHANGED <<blocks, uses, simulated, edges, todo>>
  PROVE  FixpointInv'
<1>1. (\A a : BeingVisited(a)' <=> BeingVisited(a)) /\ Pending' = Pending
  BY DEF BeingVisited, Pending
<1>2. \A i : Waiting(i)' <=> Waiting(i)
  BY <1>1 DEF Waiting, Op, Silent
<1>3. EdgesAreFollowed' /\ DominatorsComeFirst' /\ OnlyVisitedHaveStatus'
  BY <1>1 DEF FixpointInv, EdgesAreFollowed, DominatorsComeFirst, OnlyVisitedHaveStatus, Silent
<1>4. TodoIsTheRest'
  BY DEF FixpointInv, TodoIsTheRest, Silent, Lines
<1>5. RetiredForGood'
  BY SilentKeepsRetired
<1>6. UpToDateOrWaiting'
  <2>1. \A i, k : IsPhiArgExecutable(i, k)' <=> IsPhiArgExecutable(i, k)
    BY DEF IsPhiArgExecutable, Silent
  <2> QED BY <1>2, <2>1, SilentKeepsUpToDate
<1> QED BY <1>3, <1>4, <1>5, <1>6 DEF FixpointInv
-----------------------------------------------------------------------------
\* The invariant holds at the start, where nothing was looked at.
LEMMA InitFixpoint == CCPInit => FixpointInv
<1> SUFFICES ASSUME CCPInit PROVE FixpointInv
  OBVIOUS
<1> USE DEF CCPInit, Init
<1>1. Elements(<<prog.entry>>) = {prog.entry} /\ Elements(<< >>) = {}
  BY DEF Elements
<1>2. \A a : ~BeingVisited(a)
  BY DEF BeingVisited
<1>3. RetiredForGood /\ TodoIsTheRest /\ UpToDateOrWaiting
  BY DEF RetiredForGood, TodoIsTheRest, UpToDateOrWaiting
<1>4. OnlyVisitedHaveStatus /\ EdgesAreFollowed
  BY <1>1 DEF OnlyVisitedHaveStatus, EdgesAreFollowed, Pending
<1>5. DominatorsComeFirst
  BY <1>1 DEF DominatorsComeFirst, Avoids
<1> QED BY <1>3, <1>4, <1>5 DEF FixpointInv

\* Every step keeps it: one case for each action.
LEMMA NextFixpoint == CCPInv /\ FixpointInv /\ [CCPNext]_ccpVars => FixpointInv'
<1> SUFFICES ASSUME CCPInv, FixpointInv, [CCPNext]_ccpVars PROVE FixpointInv'
  OBVIOUS
<1>1. CASE StartBlock /\ UNCHANGED values
  BY <1>1, StartKeepsFixpoint
<1>2. CASE SimulateBlockInst
  <2>1. Takes(Head(todo), uses)
    BY <1>2 DEF SimulateBlockInst, SimulateInBlock, Takes
  <2>2. CASE Head(todo) \in dns
    BY <1>2, <2>1, <2>2, SkipKeepsFixpoint
       DEF SimulateBlockInst, SimulateInBlock, Record, ShouldSimulateAgain
  <2>3. CASE Head(todo) \notin dns
    <3>1. Visits(Head(todo), uses)
      BY <1>2, <2>1, <2>3
         DEF Visits, SimulateBlockInst, SimulateInBlock, Record, ShouldSimulateAgain
    <3> QED BY <2>3, <3>1, VisitKeepsFixpoint
  <2> QED BY <2>2, <2>3
<1>3. CASE FinishBlock /\ UNCHANGED values
  BY <1>3, FinishBlockKeepsFixpoint
<1>4. CASE SimulateUser
  <2>1. Takes(Head(uses), Tail(uses))
    BY <1>4 DEF SimulateUser, SimulateUse, Takes
  <2>2. CASE Head(uses) \in dns
    BY <1>4, <2>1, <2>2, SkipKeepsFixpoint
       DEF SimulateUser, SimulateUse, Record, ShouldSimulateAgain
  <2>3. CASE Head(uses) \notin dns
    <3>1. Visits(Head(uses), Tail(uses))
      BY <1>4, <2>1, <2>3
         DEF Visits, SimulateUser, SimulateUse, Record, ShouldSimulateAgain
    <3> QED BY <2>3, <3>1, VisitKeepsFixpoint
  <2> QED BY <2>2, <2>3
<1>5. CASE Finish /\ UNCHANGED values
  BY <1>5, IdleKeepsFixpoint DEF Finish, Silent
<1>6. CASE UNCHANGED ccpVars
  BY <1>6, IdleKeepsFixpoint DEF ccpVars, propVars, Silent
<1> QED BY <1>1, <1>2, <1>3, <1>4, <1>5, <1>6 DEF CCPNext

\* Between any two steps, whatever was looked at is up to date or waits in one
\* of the two queues, and every block comes after its dominators.
THEOREM FixpointInvariant == CCPSpec => []FixpointInv
<1>1. CCPInit => FixpointInv
  BY InitFixpoint
<1>2. CCPInv /\ FixpointInv /\ [CCPNext]_ccpVars => FixpointInv'
  BY NextFixpoint
<1> QED BY <1>1, <1>2, CCPInvariant, PTL DEF CCPSpec

\* The sparse propagation loses no update: the worklists of propagator.cpp,
\* with do_not_simulate_ and the single first visit of a block, never leave an
\* instruction with a result that a visit would now change.
THEOREM NothingIsLost == CCPSpec => []NoLostUpdate
<1>1. FixpointInv => NoLostUpdate
  BY DEF FixpointInv, UpToDateOrWaiting, NoLostUpdate
<1> QED BY <1>1, FixpointInvariant, PTL

-----------------------------------------------------------------------------
(***************************************************************************)
(* Conditional constant propagation keeps the meaning of a function, for   *)
(* every function.  The argument goes along the execution of the function: *)
(* the propagation's fixpoint says of each visited instruction what a      *)
(* visit would say, so an instruction that reads operands the pass knows   *)
(* rightly is itself known rightly, a branch goes over an executable edge, *)
(* and the block it enters was visited.  The operands are there when they  *)
(* are read because what computes them dominates.                          *)
(***************************************************************************)
\* No instruction of the function is one whose folding declines: of a function
\* with one the pass may know a value that no execution computes.
NoneDeclines == \A p \in Programs : \A i \in Insts(p) : p.inst[i].op # "sin16"

\* No function switches on a 64-bit value; it may compute with such values.
OneWordSwitches ==
  \A p \in Programs : \A i \in Insts(p) : p.inst[i].op = "switch" =>
    /\ p.inst[i].args[1] \notin p.wide
    /\ \A k \in DOMAIN p.inst[i].lits : p.inst[i].lits[k] \in {0, 1}

\* What the execution asks of a function.
LEMMA ValuesShape ==
  ASSUME CCPTypeOK
  PROVE  /\ prog.phis[prog.entry] = << >>
         /\ \A i \in Insts(prog), b \in prog.blocks :
              Op(i) = "phi" /\ prog.blockOf[i] \in Elements(Successors(prog, b)) =>
                b \in Elements(prog.inst[i].labels)
         /\ \A i \in Insts(prog) : \A k \in DOMAIN Args(i) :
              /\ Args(i)[k] \in Insts(prog) => YieldsValue(Args(i)[k])
              /\ Args(i)[k] \in prog.imports => k = 1 /\ Op(i) \in {"min32", "sin16"}
         /\ \A i \in Insts(prog) : Op(i) = "switch" =>
              Len(prog.inst[i].labels) = Len(prog.inst[i].lits) + 1
         /\ \A i \in Insts(prog) : Op(i) \in {"copy", "brcond", "switch"} => Len(Args(i)) > 0
<1>1. OperandsAreValues(prog) /\ WellFormed(prog)
  BY ProgramsAssumption DEF CCPTypeOK
<1>2. \A i \in Insts(prog), b \in prog.blocks :
        Op(i) = "phi" /\ prog.blockOf[i] \in Elements(Successors(prog, b)) =>
          b \in Elements(prog.inst[i].labels)
  BY <1>1 DEF OperandsAreValues, Op
<1>3. \A i \in Insts(prog) : \A k \in DOMAIN Args(i) :
        /\ Args(i)[k] \in Insts(prog) => YieldsValue(Args(i)[k])
        /\ Args(i)[k] \in prog.imports => k = 1 /\ Op(i) \in {"min32", "sin16"}
  BY <1>1 DEF OperandsAreValues, Op, Args, YieldsValue
<1>4. prog.phis[prog.entry] = << >>
  BY <1>1 DEF OperandsAreValues
<1>5. \A i \in Insts(prog) : Op(i) = "switch" =>
        Len(prog.inst[i].labels) = Len(prog.inst[i].lits) + 1
  BY <1>1 DEF WellFormed, Op
<1>6. \A i \in Insts(prog) : Op(i) \in {"copy", "brcond", "switch"} => Len(Args(i)) > 0
  BY <1>1 DEF WellFormed, Op, Args
<1> QED BY <1>2, <1>3, <1>4, <1>5, <1>6

\* A status once set is not taken back.
LEMMA StatusStays ==
  ASSUME CCPInv, [CCPNext]_ccpVars
  PROVE  \A i \in Insts(prog) : status[i] # "none" => status'[i] # "none"
<1>1. CCPInv' /\ prog' = prog
  BY NextInv DEF CCPNext, ccpVars, propVars, StartBlock, SimulateBlockInst, SimulateInBlock,
                 FinishBlock, SimulateUser, SimulateUse, Finish
<1>2. CASE UNCHANGED ccpVars
  BY <1>2 DEF ccpVars, propVars
<1>3. CASE Descends
  <2>1. \A i \in Insts(prog) : /\ status[i] \in PropStatus \cup {"none"}
                               /\ status'[i] \in PropStatus \cup {"none"}
                               /\ Rank(status[i]) <= Rank(status'[i])
    BY <1>1, <1>3 DEF CCPInv, CCPTypeOK, Descends
  <2> QED BY <2>1 DEF Rank, PropStatus
<1> QED BY <1>2, <1>3, NextInv

\* The instruction that is next gets one, if it has none.
LEMMA TakenHasStatus ==
  ASSUME CCPInv, FixpointInv, SimulateBlockInst
  PROVE  status'[Head(todo)] # "none" /\ todo # << >> /\ todo' = Tail(todo)
         /\ blocks # << >> /\ Head(blocks') = Head(blocks) /\ pc = "block" /\ pc' = "block"
         /\ simulated' = simulated /\ prog' = prog
<1>1. /\ Takes(Head(todo), uses) /\ todo # << >> /\ todo' = Tail(todo) /\ pc = "block" /\ pc' = "block"
      /\ simulated' = simulated /\ prog' = prog
  BY DEF SimulateBlockInst, SimulateInBlock, Takes
<1>2. blocks # << >> /\ blocks \in Seq(prog.blocks) /\ Head(todo) \in Insts(prog)
  BY <1>1 DEF CCPInv, CCPTypeOK
<1>3. CASE Head(todo) \in dns
  <2>1. status' = status /\ blocks' = blocks
    BY <1>3 DEF SimulateBlockInst, SimulateInBlock, ShouldSimulateAgain, Skip
  <2> QED BY <1>1, <1>2, <1>3, <2>1 DEF FixpointInv, RetiredForGood
<1>4. CASE Head(todo) \notin dns
  <2>1. Visits(Head(todo), uses)
    BY <1>1, <1>4 DEF Visits, SimulateBlockInst, SimulateInBlock, Record, ShouldSimulateAgain
  <2>2. status'[Head(todo)] = VisitInstruction(Head(todo)).status
    BY <1>4, <2>1, VisitEffects
  <2>3. VisitInstruction(Head(todo)).status \in PropStatus
    BY <1>2, <1>4, VisitPromises DEF Promises
  <2>4. Head(blocks') = Head(blocks)
    BY <1>1, <1>4, <2>1, VisitEdges
  <2> QED BY <1>1, <1>2, <2>2, <2>3, <2>4 DEF PropStatus
<1> QED BY <1>3, <1>4

\* The lines of a block under its first visit have statuses up to the next.
LEMMA VisitedStays ==
  ASSUME CCPInv, FixpointInv, VisitedHaveStatus, [CCPNext]_ccpVars
  PROVE  VisitedHaveStatus'
<1>1. \A i \in Insts(prog) : status[i] # "none" => status'[i] # "none"
  BY StatusStays
<1>2. prog' = prog
  BY DEF CCPNext, ccpVars, propVars, StartBlock, SimulateBlockInst, SimulateInBlock,
         FinishBlock, SimulateUser, SimulateUse, Finish
<1>3. /\ CCPTypeOK /\ simulated \subseteq prog.blocks /\ blocks \in Seq(prog.blocks)
      /\ \A b \in prog.blocks : Lines(prog, b) \in Seq(Insts(prog))
  BY SSAShape DEF CCPInv, CCPTypeOK
<1>4. \A b : Lines(prog, b)' = Lines(prog, b)
  BY <1>2 DEF Lines
<1>5. \A b \in prog.blocks : \A k \in DOMAIN Lines(prog, b) : Lines(prog, b)[k] \in Insts(prog)
  BY <1>3
<1>6. \A b \in simulated : \A k \in DOMAIN Lines(prog, b) : status'[Lines(prog, b)[k]] # "none"
  BY <1>1, <1>3, <1>5 DEF VisitedHaveStatus
<1> DEFINE b == Head(blocks)
           all == Lines(prog, b)
<1>7. CASE pc = "block" /\ UNCHANGED <<pc, simulated, todo>> /\ Head(blocks') = b
  <2>1. b \in prog.blocks
    BY <1>3, <1>7 DEF CCPInv
  <2>2. Len(all) \in Nat /\ Len(todo) \in Nat /\ DOMAIN all = 1..Len(all)
    BY <1>3, <2>1 DEF CCPTypeOK
  <2>3. \A k \in 1 .. Len(all) - Len(todo) : k \in DOMAIN all
    BY <2>2
  <2>4. b \notin simulated => \A k \in 1 .. Len(all) - Len(todo) : status'[all[k]] # "none"
    BY <1>1, <1>5, <1>7, <2>1, <2>3 DEF VisitedHaveStatus
  <2> QED BY <1>4, <1>6, <1>7, <2>4 DEF VisitedHaveStatus
<1>8. CASE pc' # "block" /\ simulated' = simulated
  BY <1>4, <1>6, <1>8 DEF VisitedHaveStatus
<1>9. CASE StartBlock /\ UNCHANGED values
  <2>1. /\ simulated' = simulated /\ blocks' = blocks /\ b \in prog.blocks
        /\ b \notin simulated => todo' = all
    <3>1. simulated' = simulated /\ blocks' = blocks /\ blocks # << >>
      BY <1>9 DEF StartBlock
    <3>2. b \notin simulated => todo' = all
      BY <1>9 DEF StartBlock, Lines
    <3>3. b \in prog.blocks
      BY <1>3, <3>1
    <3> QED BY <3>1, <3>2, <3>3
  <2>2. Len(all) \in Nat
    BY <1>3, <2>1
  <2>3. b \notin simulated => 1 .. Len(all) - Len(todo') = {}
    BY <2>1, <2>2
  <2> HIDE DEF all
  <2>4. b \notin simulated => \A k \in 1 .. Len(all) - Len(todo') : status'[all[k]] # "none"
    BY <2>3
  <2> QED BY <1>4, <1>6, <2>1, <2>4 DEF VisitedHaveStatus, all
<1>10. CASE SimulateBlockInst
  <2>1. /\ status'[Head(todo)] # "none" /\ todo # << >> /\ todo' = Tail(todo)
        /\ blocks # << >> /\ Head(blocks') = b /\ pc = "block"
        /\ simulated' = simulated
    BY <1>10, TakenHasStatus
  <2>2. b \in prog.blocks
    BY <1>3, <2>1
  <2>3. ASSUME b \notin simulated
        PROVE  \A k \in 1 .. Len(all) - Len(todo') : status'[all[k]] # "none"
    <3>1. PICK n \in 0 .. Len(all) : /\ Len(todo) = Len(all) - n
                                     /\ \A k \in DOMAIN todo : todo[k] = all[n + k]
      BY <2>1, <2>3 DEF FixpointInv, TodoIsTheRest
    <3>2. /\ Len(all) \in Nat /\ todo \in Seq(Insts(prog)) /\ DOMAIN all = 1..Len(all)
      BY <1>3, <2>2 DEF CCPTypeOK
    <3>3. \A k \in 1 .. Len(all) - Len(todo) : status[all[k]] # "none"
      BY <2>1, <2>3 DEF VisitedHaveStatus
    <3> HIDE DEF all
    <3>4. Len(todo') = Len(todo) - 1 /\ 1 \in DOMAIN todo /\ Head(todo) = todo[1] /\ Len(todo) \in Nat
      BY <2>1, <3>2
    <3>5. Head(todo) = all[n + 1] /\ n + 1 \in 1..Len(all) /\ Len(all) - Len(todo') = n + 1
      BY <3>1, <3>2, <3>4
    <3>6. \A k \in 1 .. n + 1 : k \in 1 .. n \/ k = n + 1
      BY <3>1
    <3>7. \A k \in 1 .. n : status[all[k]] # "none" /\ all[k] \in Insts(prog)
      <4>1. n = Len(all) - Len(todo) /\ \A k \in 1 .. n : k \in DOMAIN all
        BY <3>1, <3>2, <3>4
      <4>2. \A k \in DOMAIN all : all[k] \in Insts(prog)
        BY <1>5, <2>2 DEF all
      <4> QED BY <3>3, <4>1, <4>2
    <3>8. \A k \in 1 .. n + 1 : status'[all[k]] # "none"
      BY <1>1, <2>1, <3>5, <3>6, <3>7
    <3> QED BY <3>5, <3>8
  <2> QED BY <1>4, <1>6, <2>1, <2>3 DEF VisitedHaveStatus
<1>11. CASE FinishBlock /\ UNCHANGED values
  <2>1. /\ pc = "block" /\ pc' # "block" /\ todo = << >> /\ simulated' = simulated \cup {b}
    BY <1>11 DEF FinishBlock
  <2>2. b \in prog.blocks
    BY <1>3, <2>1 DEF CCPInv
  <2>3. b \notin simulated => \A k \in DOMAIN all : status'[all[k]] # "none"
    <3>1. DOMAIN all = 1 .. Len(all) - Len(todo)
      <4>1. all \in Seq(Insts(prog))
        BY <1>3, <2>2
      <4> HIDE DEF all
      <4> QED BY <2>1, <4>1
    <3> QED BY <1>1, <1>5, <2>1, <2>2, <3>1 DEF VisitedHaveStatus
  <2> QED BY <1>4, <1>6, <2>1, <2>3 DEF VisitedHaveStatus
<1>12. CASE SimulateUser
  BY <1>8, <1>12 DEF SimulateUser, SimulateUse
<1>13. CASE Finish /\ UNCHANGED values
  BY <1>8, <1>13 DEF Finish
<1>14. CASE UNCHANGED ccpVars
  BY <1>7, <1>8, <1>14 DEF ccpVars, propVars
<1> QED BY <1>9, <1>10, <1>11, <1>12, <1>13, <1>14 DEF CCPNext

\* Constants have themselves for values, parameters none that is known.
LEMMA GivenStays ==
  ASSUME CCPInv, FixpointInv, GivenIsKept, [CCPNext]_ccpVars
  PROVE  GivenIsKept'
<1>1. CCPInv' /\ (Descends \/ UNCHANGED ccpVars) /\ CCPTypeOK
  BY NextInv DEF CCPInv
<1>2. prog' = prog
  BY DEF CCPNext, ccpVars, propVars, StartBlock, SimulateBlockInst, SimulateInBlock,
         FinishBlock, SimulateUser, SimulateUse, Finish
<1>3. edges \subseteq edges'
  <2>1. \A b, ts, q : AddControlEdges(b, ts, q) => edges \subseteq edges'
    BY DEF AddControlEdges
  <2> QED BY <2>1 DEF CCPNext, ccpVars, propVars, StartBlock, SimulateBlockInst, SimulateInBlock,
                      FinishBlock, SimulateUser, SimulateUse, Finish, Simulate, Skip
<1>4. \A id \in Consts \cup prog.params : values'[id] = values[id]
  <2>1. WellFormed(prog) /\ values \in [Ids(prog) -> Lattice]
    BY <1>1, ProgIsWellFormed DEF CCPTypeOK
  <2>2. \A id \in Consts \cup prog.params : id \in Ids(prog) /\ id \notin Insts(prog)
    BY <2>1 DEF WellFormed, Ids
  <2>3. todo # << >> => Head(todo) \in Insts(prog)
    BY <1>1 DEF CCPTypeOK
  <2>4. uses # << >> => Head(uses) \in Insts(prog)
    BY <1>1 DEF CCPTypeOK
  <2>5. \A i \in Insts(prog) : Record(i) => \A id \in Consts \cup prog.params : values'[id] = values[id]
    BY <2>1, <2>2 DEF Record
  <2> QED BY <2>3, <2>4, <2>5 DEF CCPNext, ccpVars, SimulateBlockInst, SimulateInBlock, SimulateUser, SimulateUse
<1> QED BY <1>2, <1>3, <1>4 DEF GivenIsKept

\* A 64-bit operand makes a phi or a copy 64-bit, and belongs to no other
\* instruction with a value that the pass computes.
LEMMA WideOperand ==
  ASSUME CCPTypeOK, WideStaysWide, NEW i \in Insts(prog), NEW k \in DOMAIN Args(i),
         Value(i, k) = "wide"
  PROVE  /\ Args(i)[k] \in prog.wide
         /\ Op(i) \in {"phi", "copy"} => i \in prog.wide
         /\ Op(i) \in {"phi", "copy", "switch", "opaque", "effect"}
<1>1. Args(i)[k] \in Ids(prog)
  BY ArgsType
<1>2. Args(i)[k] \in prog.wide
  BY <1>1 DEF WideStaysWide, Value
<1>3. WidthsMatch(prog)
  BY ProgramsAssumption DEF CCPTypeOK
<1> QED BY <1>2, <1>3 DEF WidthsMatch, Args, Op

\* No fold yields a 64-bit constant.
LEMMA FoldIsNarrow ==
  ASSUME NEW i
  PROVE  FoldToConstant(i) \in {"true", "false", Undef}
<1>1. \A b : Bool(b) \in {"true", "false"}
  BY DEF Bool
<1>2. ShortCircuit(i) \in {"true", "false", Undef}
  BY DEF ShortCircuit
<1> QED BY <1>1, <1>2 DEF FoldToConstant

\* A visit that yields the 64-bit constant is of a 64-bit instruction.
LEMMA WideVisit ==
  ASSUME CCPInv, WideStaysWide, NEW i \in Insts(prog), VisitInstruction(i).value = "wide"
  PROVE  i \in prog.wide
<1>1. CCPTypeOK /\ i \in Ids(prog)
  BY DEF CCPInv, Ids
<1>2. values[i] = "wide" => i \in prog.wide
  BY <1>1 DEF WideStaysWide
<1>3. /\ MarkVarying.value = Varying /\ NotInteresting(i).value = values[i]
      /\ \A v : Assigned(v).value = v
      /\ \A s, d, v : Result(s, d, v).value = v
      /\ Varying # "wide" /\ Undef # "wide"
  BY DEF MarkVarying, NotInteresting, Assigned, Result, Varying, Undef
<1>4. CASE Op(i) = "phi"
  <2> DEFINE known == {Value(i, k) : k \in {j \in DOMAIN Args(i) : IsPhiArgExecutable(i, j)}} \ {Undef}
  <2>1. VisitInstruction(i) = IF known = {} THEN NotInteresting(i)
                              ELSE IF \E c \in known : c # Varying /\ known = {c}
                              THEN Assigned(CHOOSE c \in known : TRUE)
                              ELSE MarkVarying
    BY <1>4 DEF VisitInstruction, VisitPhi
  <2>2. \A c \in known : \E k \in DOMAIN Args(i) : c = Value(i, k)
    OBVIOUS
  <2> HIDE DEF known
  <2>3. values[i] = "wide" \/ "wide" \in known
    BY <1>3, <2>1
  <2>4. CASE "wide" \in known
    <3>1. PICK k \in DOMAIN Args(i) : Value(i, k) = "wide"
      BY <2>2, <2>4
    <3> QED BY <1>1, <1>4, <3>1, WideOperand
  <2> QED BY <1>2, <2>3, <2>4
<1>5. CASE IsBranch(prog, i)
  <2>1. Op(i) \in {"br", "brcond", "switch"}
    BY <1>5 DEF IsBranch, Op
  <2>2. VisitInstruction(i) = VisitBranch(i)
    BY <1>5, <2>1 DEF VisitInstruction
  <2>3. VisitBranch(i).value = Undef
    BY <1>3, <2>1 DEF VisitBranch
  <2> QED BY <1>3, <2>2, <2>3
<1>6. CASE Op(i) # "phi" /\ ~IsBranch(prog, i) /\ HasResult(prog, i)
  <2>1. VisitInstruction(i) = VisitAssignment(i)
    BY <1>6 DEF VisitInstruction
  <2>2. \A v : ComputeLatticeMeet(i, v) \in {v, Varying}
    BY DEF ComputeLatticeMeet
  <2>3. CASE Op(i) = "copy"
    <3>1. values[i] = "wide" \/ Value(i, 1) = "wide"
      BY <1>3, <2>1, <2>2, <2>3 DEF VisitAssignment
    <3>2. 1 \in DOMAIN Args(i)
      BY <1>1, <2>3, ProgShape, ArgsType
    <3> QED BY <1>1, <1>2, <2>3, <3>1, <3>2, WideOperand
  <2>4. CASE Op(i) # "copy"
    <3>1. FoldToConstant(i) # "wide"
      BY <1>3, FoldIsNarrow
    <3> QED BY <1>2, <1>3, <2>1, <2>2, <2>4, <3>1 DEF VisitAssignment
  <2> QED BY <2>3, <2>4
<1>7. CASE Op(i) # "phi" /\ ~IsBranch(prog, i) /\ ~HasResult(prog, i)
  BY <1>3, <1>7 DEF VisitInstruction
<1> QED BY <1>4, <1>5, <1>6, <1>7

\* Only 64-bit ids get the 64-bit constant.
LEMMA WideStays ==
  ASSUME CCPInv, WideStaysWide, [CCPNext]_ccpVars
  PROVE  WideStaysWide'
<1>1. CCPTypeOK /\ prog' = prog
  BY DEF CCPInv, CCPNext, ccpVars, propVars, StartBlock, SimulateBlockInst, SimulateInBlock,
         FinishBlock, SimulateUser, SimulateUse, Finish
<1>2. Ids(prog)' = Ids(prog)
  BY <1>1 DEF Ids, Insts
<1>3. CASE UNCHANGED values
  BY <1>1, <1>2, <1>3 DEF WideStaysWide
<1>4. ASSUME NEW i \in Insts(prog), Record(i) PROVE WideStaysWide'
  <2>1. values \in [Ids(prog) -> Lattice] /\ i \in Ids(prog)
    BY <1>1 DEF CCPTypeOK, Ids
  <2>2. \A id \in Ids(prog) : values'[id] = values[id]
                               \/ (id = i /\ values'[id] = VisitInstruction(i).value)
    BY <1>4, <2>1 DEF Record
  <2> QED BY <1>1, <1>2, <2>2, WideVisit DEF WideStaysWide
<1>5. todo # << >> => Head(todo) \in Insts(prog)
  BY <1>1 DEF CCPTypeOK
<1>6. uses # << >> => Head(uses) \in Insts(prog)
  BY <1>1 DEF CCPTypeOK
<1> QED BY <1>3, <1>4, <1>5, <1>6 DEF CCPNext, ccpVars, SimulateBlockInst, SimulateInBlock,
                                      SimulateUser, SimulateUse

\* What the execution asks of the propagation stays true.
LEMMA NextReach == CCPInv /\ FixpointInv /\ ReachInv /\ [CCPNext]_ccpVars => ReachInv'
<1> SUFFICES ASSUME CCPInv, FixpointInv, ReachInv, [CCPNext]_ccpVars PROVE ReachInv'
  OBVIOUS
<1>1. VisitedHaveStatus' /\ GivenIsKept' /\ WideStaysWide'
  BY VisitedStays, GivenStays, WideStays DEF ReachInv
<1>2. pc' = "done" => blocks' = << >> /\ uses' = << >>
  BY DEF ReachInv, CCPNext, ccpVars, propVars, StartBlock, SimulateBlockInst, SimulateInBlock,
         FinishBlock, SimulateUser, SimulateUse, Finish
<1> QED BY <1>1, <1>2 DEF ReachInv

\* And is true when it begins.
LEMMA InitReach == CCPInit => ReachInv
<1> SUFFICES ASSUME CCPInit PROVE ReachInv
  OBVIOUS
<1> USE DEF CCPInit, Init
<1>1. WellFormed(prog)
  BY ProgIsWellFormed
<1>2. VisitedHaveStatus
  BY DEF VisitedHaveStatus
<1>3. \A id \in Consts \cup prog.params : id \in Ids(prog)
  BY DEF Ids
<1>4. \A c \in Consts : values[c] = c
  BY <1>3
<1>5. \A p \in prog.params : p \notin Consts
  BY <1>1 DEF WellFormed
<1>6. \A p \in prog.params : values[p] = Varying
  BY <1>3, <1>5
<1>7. GivenIsKept
  BY <1>4, <1>6 DEF GivenIsKept
<1>8. WideStaysWide
  <2>1. WidthsMatch(prog)
    BY ProgramsAssumption
  <2>2. \A id \in Ids(prog) : values[id] = "wide" => id = "wide" /\ id \in Consts
    BY DEF Varying, Undef
  <2> QED BY <2>1, <2>2 DEF WideStaysWide, WidthsMatch
<1> QED BY <1>2, <1>7, <1>8 DEF ReachInv
-----------------------------------------------------------------------------
\* Where the lines of a block are.
LEMMA LinesOfBlock ==
  ASSUME CCPTypeOK, NEW b \in prog.blocks
  PROVE  /\ Elements(Lines(prog, b)) = Elements(prog.phis[b]) \cup Elements(prog.rest[b])
         /\ \A i \in Elements(Lines(prog, b)) : i \in Insts(prog) /\ prog.blockOf[i] = b
         /\ \A i \in Elements(prog.phis[b]) : Op(i) = "phi"
         /\ \A i \in Elements(prog.rest[b]) : Op(i) # "phi"
<1>1. /\ prog.phis[b] \in Seq(Insts(prog)) /\ prog.rest[b] \in Seq(Insts(prog))
      /\ Lines(prog, b) \in Seq(Insts(prog)) /\ InSSAForm(prog)
      /\ \A k \in DOMAIN prog.phis[b] : Op(prog.phis[b][k]) = "phi"
  BY SSAShape, ProgShape
<1>2. Elements(Lines(prog, b)) = Elements(prog.phis[b]) \cup Elements(prog.rest[b])
  BY <1>1, ElementsOfConcat DEF Lines
<1>3. \A i \in Elements(Lines(prog, b)) : i \in Insts(prog) /\ prog.blockOf[i] = b
  <2>1. \A k \in DOMAIN Lines(prog, b) : prog.blockOf[Lines(prog, b)[k]] = b
    BY <1>1 DEF InSSAForm
  <2> QED BY <1>1, <2>1 DEF Elements
<1>4. \A i \in Elements(prog.phis[b]) : Op(i) = "phi"
  BY <1>1 DEF Elements
<1>5. ASSUME NEW i \in Elements(prog.rest[b]), Op(i) = "phi" PROVE FALSE
  <2>1. i \in Insts(prog) /\ prog.blockOf[i] = b
    BY <1>2, <1>3
  <2>2. i \in Elements(prog.phis[b])
    BY <1>1, <1>5, <2>1 DEF InSSAForm, Op
  <2>3. PICK k \in DOMAIN prog.phis[b] : prog.phis[b][k] = i
    BY <2>2 DEF Elements
  <2>4. PICK l \in DOMAIN prog.rest[b] : prog.rest[b][l] = i
    BY DEF Elements
  <2> DEFINE s == prog.phis[b]
             t == prog.rest[b]
  <2>5. s \in Seq(Insts(prog)) /\ t \in Seq(Insts(prog)) /\ k \in DOMAIN s /\ l \in DOMAIN t
    BY <1>1
  <2>6. \A m, n \in DOMAIN Lines(prog, b) : Lines(prog, b)[m] = Lines(prog, b)[n] => m = n
    BY <1>1 DEF InSSAForm
  <2>7. Lines(prog, b) = s \o t
    BY DEF Lines
  <2>8. s[k] = i /\ t[l] = i
    BY <2>3, <2>4
  <2> HIDE DEF s, t
  <2>9. Len(s) \in Nat /\ Len(t) \in Nat /\ k \in 1..Len(s) /\ l \in 1..Len(t)
    BY <2>5
  <2>10. k \in DOMAIN (s \o t) /\ (s \o t)[k] = s[k]
    BY <2>5, <2>9
  <2>11. Len(s) + l \in DOMAIN (s \o t) /\ (s \o t)[Len(s) + l] = t[l]
    BY <2>5, <2>9
  <2>12. k # Len(s) + l
    BY <2>9
  <2> QED BY <2>6, <2>7, <2>8, <2>10, <2>11, <2>12
<1> QED BY <1>2, <1>3, <1>4, <1>5

\* When the propagation is over, what was visited is up to date, and where an
\* executable edge goes was visited.
LEMMA AtTheEnd ==
  ASSUME CCPInv, FixpointInv, ReachInv, pc = "done"
  PROVE  /\ \A b \in simulated : \A i \in Elements(Lines(prog, b)) : UpToDate(i)
         /\ \A e \in edges : e[2] \in simulated
<1>1. blocks = << >> /\ uses = << >> /\ CCPTypeOK
  BY DEF ReachInv, CCPInv
<1>2. Elements(<< >>) = {}
  BY DEF Elements
<1>3. Pending = << >> /\ \A b : ~BeingVisited(b)
  BY <1>1 DEF Pending, BeingVisited
<1>4. \A i : ~Waiting(i)
  BY <1>1, <1>2, <1>3 DEF Waiting
<1>5. ASSUME NEW b \in simulated, NEW i \in Elements(Lines(prog, b)) PROVE UpToDate(i)
  <2>1. status[i] # "none"
    BY DEF ReachInv, VisitedHaveStatus, Elements
  <2>2. i \in Insts(prog)
    BY <1>1, LinesOfBlock DEF CCPTypeOK
  <2> QED BY <1>4, <2>1, <2>2 DEF FixpointInv, UpToDateOrWaiting
<1>6. \A e \in edges : e[2] \in simulated
  BY <1>2, <1>3 DEF FixpointInv, EdgesAreFollowed
<1> QED BY <1>5, <1>6

\* What replaces an operand.
NewOperand(a) == IF values[a] \in Consts /\ values[a] # a THEN values[a] ELSE a

\* An operand that has a value when the execution is where it is.
Held(a) == a \in Consts \/ (a \in Slots /\ env[a] # Unset)

\* An operand that an execution reads is known to the pass, as what it is.
LEMMA HeldIsKnown ==
  ASSUME CCPInv, ReachInv, ExecInv, mode # "propagate", NEW a, Held(a)
  PROVE  /\ Read(env, a) \in Data
         /\ a \in Ids(prog) /\ values[a] \in Consts \cup {Varying}
         /\ values[a] \in Consts => Read(env, a) = Meaning(values[a])
         /\ Read(env, NewOperand(a)) = Read(env, a)
<1>1. WellFormed(prog) /\ values \in [Ids(prog) -> Lattice]
  BY ProgIsWellFormed DEF CCPInv, CCPTypeOK
<1>2. CASE a \in Consts
  <2>1. values[a] = a
    BY <1>2 DEF ReachInv, GivenIsKept
  <2> QED BY <1>1, <1>2, <2>1 DEF Read, Meaning, Ids, NewOperand, Data
<1>3. CASE a \in Slots /\ env[a] # Unset
  <2>1. a \notin Consts /\ a \in Ids(prog)
    BY <1>1, <1>3 DEF WellFormed, Slots, Ids
  <2>2. values[a] \in Lattice /\ values[a] # Undef
    BY <1>1, <1>3, <2>1 DEF ExecInv, ComputedAreKnown
  <2>3. env[a] \in Data
    BY <1>3 DEF ExecInv
  <2>4. values[a] \in Consts => env[a] = Meaning(values[a])
    BY <1>3 DEF ExecInv, ValuesAreSound
  <2>5. values[a] \in Consts => Read(env, values[a]) = env[a]
    BY <2>4 DEF Read
  <2> QED BY <2>1, <2>2, <2>3, <2>4, <2>5 DEF Read, Lattice, NewOperand
<1> QED BY <1>2, <1>3 DEF Held

\* The rewriting touches nothing but operands.
LEMMA OutShape ==
  ASSUME CCPTypeOK, ExecInv, mode # "propagate"
  PROVE  /\ out.phis = prog.phis
         /\ \A i \in Insts(prog) :
              /\ out.inst[i].op = Op(i)
              /\ out.inst[i].labels = prog.inst[i].labels
              /\ out.inst[i].lits = prog.inst[i].lits
              /\ DOMAIN out.inst[i].args = DOMAIN Args(i)
              /\ \A k \in DOMAIN Args(i) : out.inst[i].args[k] \in {Args(i)[k], NewOperand(Args(i)[k])}
<1>1. prog \in Programs
  BY DEF CCPTypeOK
<1>2. out = prog \/ out = ReplaceValues
  BY DEF ExecInv
<1>3. CASE out = prog
  BY <1>3 DEF Op, Args
<1>4. CASE out = ReplaceValues
  <2> DEFINE inst(i) == [prog.inst[i] EXCEPT !.args =
                          [k \in DOMAIN prog.inst[i].args |-> NewOperand(prog.inst[i].args[k])]]
  <2>1. out = [prog EXCEPT !.inst = [i \in Insts(prog) |-> inst(i)]]
    BY <1>4 DEF ReplaceValues, NewOperand
  <2>2. WellFormed(prog)
    BY <1>1, ProgIsWellFormed
  <2>3. \A i \in Insts(prog) : prog.inst[i] \in Instruction(prog)
    BY <2>2 DEF WellFormed
  <2> QED BY <2>1, <2>3 DEF Op, Args, Instruction
<1> QED BY <1>2, <1>3, <1>4
-----------------------------------------------------------------------------
\* What the pass knows of operand k of i is right.
OperandKnown(i, k) ==
  /\ Read(env, Args(i)[k]) \in Data
  /\ Value(i, k) \in Consts \cup {Varying}
  /\ Value(i, k) \in Consts => Read(env, Args(i)[k]) = Meaning(Value(i, k))
  /\ \A b \in {Args(i)[k], NewOperand(Args(i)[k])} : Read(env, b) = Read(env, Args(i)[k])

\* The operands that the execution of i reads.
ReadOperands(i) == {k \in DOMAIN Args(i) : Args(i)[k] \notin prog.imports}
OperandsHeld(i) == \A k \in ReadOperands(i) : Held(Args(i)[k])
OperandsKnown(i) == \A k \in ReadOperands(i) : OperandKnown(i, k)

\* Operands with a value are.
LEMMA HeldAreKnown ==
  ASSUME CCPInv, ReachInv, ExecInv, mode # "propagate", NEW i \in Insts(prog), OperandsHeld(i)
  PROVE  OperandsKnown(i)
<1> SUFFICES ASSUME NEW k \in ReadOperands(i) PROVE OperandKnown(i, k)
  BY DEF OperandsKnown
<1> DEFINE a == Args(i)[k]
<1>1. Held(a)
  BY DEF OperandsHeld
<1>2. /\ Read(env, a) \in Data /\ values[a] \in Consts \cup {Varying}
      /\ values[a] \in Consts => Read(env, a) = Meaning(values[a])
      /\ Read(env, NewOperand(a)) = Read(env, a)
  BY <1>1, HeldIsKnown
<1> QED BY <1>2 DEF OperandKnown, Value

\* All operands are read but the set of an extended instruction.
LEMMA WhichAreRead ==
  ASSUME CCPTypeOK, NEW i \in Insts(prog)
  PROVE  /\ Op(i) \notin {"min32", "sin16"} => ReadOperands(i) = DOMAIN Args(i)
         /\ \A k \in DOMAIN Args(i) : k # 1 => k \in ReadOperands(i)
         /\ DOMAIN Args(i) = 1 .. Len(Args(i)) /\ Len(Args(i)) \in Nat
<1>1. \A k \in DOMAIN Args(i) : Args(i)[k] \in prog.imports => k = 1 /\ Op(i) \in {"min32", "sin16"}
  BY ValuesShape
<1>2. DOMAIN Args(i) = 1 .. Len(Args(i)) /\ Len(Args(i)) \in Nat
  BY ArgsType
<1> QED BY <1>1, <1>2 DEF ReadOperands

\* Folding known operands gives what the execution computes.
LEMMA FoldIsRight ==
  ASSUME CCPTypeOK, WideStaysWide, NEW i \in Insts(prog), OperandsKnown(i),
         FoldToConstant(i) # Undef, NEW v
  PROVE  Compute(prog, env, i, v) = Meaning(FoldToConstant(i))
<1>1. \A b : Meaning(Bool(b)) = IF b THEN 1 ELSE 0
  BY DEF Meaning, Bool
<1>2. CanFold(i)
  BY FoldCases
<1> DEFINE x(k) == Read(env, Args(i)[k])
<1>3. \A k \in ReadOperands(i) : /\ x(k) \in Data
                                 /\ Value(i, k) \in Consts => x(k) = Meaning(Value(i, k))
  BY DEF OperandsKnown, OperandKnown
<1>4. /\ \A k \in DOMAIN Args(i) : k # 1 => k \in ReadOperands(i)
      /\ Op(i) \notin {"min32", "sin16"} => ReadOperands(i) = DOMAIN Args(i)
      /\ DOMAIN Args(i) = 1 .. Len(Args(i)) /\ Len(Args(i)) \in Nat
  BY WhichAreRead
<1>5. /\ Op(i) = "not" => Len(Args(i)) >= 1
      /\ Op(i) \in {"and", "or"} => Len(Args(i)) = 2
      /\ Op(i) \in {"select", "min32"} => Len(Args(i)) = 3
  BY SSAShape
<1> DEFINE all == \A k \in 1..Len(Args(i)) : Value(i, k) \in Consts
<1>6. CASE Op(i) = "not"
  <2>1. all /\ 1 \in ReadOperands(i)
    BY <1>2, <1>4, <1>5, <1>6 DEF CanFold
  <2>2. FoldToConstant(i) = Bool(~(Meaning(Value(i, 1)) = 1))
    BY <1>6, <2>1 DEF FoldToConstant
  <2>3. Compute(prog, env, i, v) = IF x(1) = 1 THEN 0 ELSE 1
    BY <1>6 DEF Compute, Op, Args
  <2>4. Value(i, 1) \in Consts
    BY <1>4, <1>5, <1>6, <2>1
  <2>5. x(1) \in Data /\ x(1) = Meaning(Value(i, 1))
    BY <1>3, <2>1, <2>4
  <2>6. Meaning(FoldToConstant(i)) = IF Meaning(Value(i, 1)) = 1 THEN 0 ELSE 1
    BY <1>1, <2>2
  <2> HIDE DEF x
  <2> QED BY <2>3, <2>5, <2>6
<1>7. CASE Op(i) \in {"and", "or"} /\ all
  <2>1. 1 \in ReadOperands(i) /\ 2 \in ReadOperands(i)
    BY <1>4, <1>5, <1>7
  <2>2. /\ x(1) \in Data /\ x(1) = Meaning(Value(i, 1))
        /\ x(2) \in Data /\ x(2) = Meaning(Value(i, 2))
    BY <1>3, <1>4, <1>7, <2>1
  <2>3. CASE Op(i) = "and"
    <3>1. FoldToConstant(i) = Bool(Meaning(Value(i, 1)) = 1 /\ Meaning(Value(i, 2)) = 1)
      BY <1>7, <2>3 DEF FoldToConstant
    <3>2. Compute(prog, env, i, v) = IF x(1) = 1 /\ x(2) = 1 THEN 1 ELSE 0
      BY <2>3 DEF Compute, Op, Args
    <3> HIDE DEF x
    <3> QED BY <1>1, <2>2, <3>1, <3>2
  <2>4. CASE Op(i) = "or"
    <3>1. FoldToConstant(i) = Bool(Meaning(Value(i, 1)) = 1 \/ Meaning(Value(i, 2)) = 1)
      BY <1>7, <2>4 DEF FoldToConstant
    <3>2. Compute(prog, env, i, v) = IF x(1) = 1 \/ x(2) = 1 THEN 1 ELSE 0
      BY <2>4 DEF Compute, Op, Args
    <3> HIDE DEF x
    <3> QED BY <1>1, <2>2, <3>1, <3>2
  <2> QED BY <1>7, <2>3, <2>4
<1>8. CASE Op(i) \in {"and", "or"} /\ ~all
  <2>1. FoldToConstant(i) = ShortCircuit(i)
    BY <1>8 DEF FoldToConstant
  <2>2. x(1) \in Data /\ x(2) \in Data
    BY <1>3, <1>4, <1>5, <1>8
  <2>3. "true" \in Consts /\ "false" \in Consts /\ Meaning("true") = 1 /\ Meaning("false") = 0
    BY ConstsAssumption DEF Meaning
  <2>4. \A c \in Consts : c \in ArgValues(i) => x(1) = Meaning(c) \/ x(2) = Meaning(c)
    <3>1. \A c \in Consts : c \in ArgValues(i) => \E k \in {1, 2} : Value(i, k) = c
      BY <1>4, <1>5, <1>8 DEF ArgValues
    <3> QED BY <1>3, <1>4, <1>5, <1>8, <3>1
  <2>5. CASE Op(i) = "and"
    <3>1. FoldToConstant(i) = "false" /\ "false" \in ArgValues(i)
      BY <2>1, <2>5, LatticeValues DEF ShortCircuit
    <3>2. Compute(prog, env, i, v) = IF x(1) = 1 /\ x(2) = 1 THEN 1 ELSE 0
      BY <2>5 DEF Compute, Op, Args
    <3>3. x(1) = 0 \/ x(2) = 0
      BY <2>3, <2>4, <3>1
    <3> HIDE DEF x
    <3> QED BY <2>3, <3>1, <3>2, <3>3
  <2>6. CASE Op(i) = "or"
    <3>1. FoldToConstant(i) = "true" /\ "true" \in ArgValues(i)
      BY <2>1, <2>6, LatticeValues DEF ShortCircuit
    <3>2. Compute(prog, env, i, v) = IF x(1) = 1 \/ x(2) = 1 THEN 1 ELSE 0
      BY <2>6 DEF Compute, Op, Args
    <3>3. x(1) = 1 \/ x(2) = 1
      BY <2>3, <2>4, <3>1
    <3> HIDE DEF x
    <3> QED BY <2>3, <3>1, <3>2, <3>3
  <2> QED BY <1>8, <2>5, <2>6
<1>9. CASE Op(i) = "select"
  <2>1. all /\ 1 \in ReadOperands(i) /\ 2 \in ReadOperands(i) /\ 3 \in ReadOperands(i)
    BY <1>2, <1>4, <1>5, <1>9 DEF CanFold
  <2>2. FoldToConstant(i) = Bool(IF Meaning(Value(i, 1)) = 1 THEN Meaning(Value(i, 2)) = 1
                                 ELSE Meaning(Value(i, 3)) = 1)
    BY <1>9, <2>1 DEF FoldToConstant
  <2>3. Compute(prog, env, i, v) = IF x(1) = 1 THEN x(2) ELSE x(3)
    BY <1>9 DEF Compute, Op, Args
  <2>4. /\ x(1) \in Data /\ x(1) = Meaning(Value(i, 1))
        /\ x(2) \in Data /\ x(2) = Meaning(Value(i, 2))
        /\ x(3) \in Data /\ x(3) = Meaning(Value(i, 3))
    BY <1>3, <1>4, <1>5, <1>9, <2>1
  <2>5. Meaning(Value(i, 2)) \in {0, 1} /\ Meaning(Value(i, 3)) \in {0, 1}
    <3>1. Value(i, 2) # "wide" /\ Value(i, 3) # "wide"
      BY <1>4, <1>5, <1>9, WideOperand
    <3> QED BY <3>1 DEF Meaning
  <2> HIDE DEF x
  <2> QED BY <1>1, <2>2, <2>3, <2>4, <2>5
<1>10. CASE Op(i) = "min32"
  <2>1. 2 \in ReadOperands(i) /\ 3 \in ReadOperands(i) /\ \A k \in 2..3 : Value(i, k) \in Consts
    <3>1. \A k \in 2 .. Len(Args(i)) : Value(i, k) \in Consts
      BY <1>2, <1>10 DEF CanFold
    <3> QED BY <1>4, <1>5, <1>10, <3>1
  <2>2. FoldToConstant(i) = Bool(Meaning(Value(i, 2)) = 1 /\ Meaning(Value(i, 3)) = 1)
    BY <1>5, <1>10, <2>1 DEF FoldToConstant
  <2>3. Compute(prog, env, i, v) = IF x(2) = 1 /\ x(3) = 1 THEN 1 ELSE 0
    BY <1>10 DEF Compute, Op, Args
  <2>4. /\ x(2) \in Data /\ x(2) = Meaning(Value(i, 2))
        /\ x(3) \in Data /\ x(3) = Meaning(Value(i, 3))
    BY <1>3, <2>1
  <2> HIDE DEF x
  <2> QED BY <1>1, <2>2, <2>3, <2>4
<1> QED BY <1>2, <1>6, <1>7, <1>8, <1>9, <1>10 DEF CanFold

\* The instructions that a run computes, other than phis.
Computes(i) == YieldsValue(i) /\ Op(i) # "phi"

\* Their opcodes, and the operands that each of them reads.
LEMMA ComputesOps ==
  ASSUME CCPTypeOK, NEW i \in Insts(prog), Computes(i)
  PROVE  /\ Op(i) \in {"copy", "and", "or", "not", "select", "min32", "sin16", "opaque"}
         /\ ~IsBlockTerminator(prog, i) /\ ~IsBranch(prog, i) /\ HasResult(prog, i)
         /\ Op(i) = "copy" => 1 \in ReadOperands(i)
         /\ Op(i) = "not" => 1 \in ReadOperands(i)
         /\ Op(i) \in {"and", "or"} => 1 \in ReadOperands(i) /\ 2 \in ReadOperands(i)
         /\ Op(i) = "select" => \A k \in 1..3 : k \in ReadOperands(i)
         /\ Op(i) = "min32" => 2 \in ReadOperands(i) /\ 3 \in ReadOperands(i)
         /\ Op(i) = "sin16" => 2 \in ReadOperands(i)
<1>1. WellFormed(prog) /\ prog.inst[i] \in Instruction(prog)
  BY ProgIsWellFormed, ProgShape DEF CCPTypeOK
<1>2. /\ Op(i) \notin {"min32", "sin16"} => ReadOperands(i) = DOMAIN Args(i)
      /\ \A k \in DOMAIN Args(i) : k # 1 => k \in ReadOperands(i)
      /\ DOMAIN Args(i) = 1 .. Len(Args(i)) /\ Len(Args(i)) \in Nat
  BY WhichAreRead
<1>3. Op(i) \in {"copy", "and", "or", "not", "select", "min32", "sin16", "opaque"}
  BY <1>1 DEF Computes, YieldsValue, HasResult, IsBlockTerminator, IsBranch, Instruction, Op
<1>4. ~IsBlockTerminator(prog, i) /\ ~IsBranch(prog, i) /\ HasResult(prog, i)
  BY DEF Computes, YieldsValue, HasResult, IsBlockTerminator
<1>5. /\ Op(i) = "copy" => Len(Args(i)) >= 1
      /\ Op(i) = "not" => Len(Args(i)) >= 1
      /\ Op(i) \in {"and", "or"} => Len(Args(i)) = 2
      /\ Op(i) \in {"select", "min32"} => Len(Args(i)) = 3
  BY SSAShape
<1>6. Op(i) = "sin16" => Len(Args(i)) = 2
  <2>1. \A op \in DOMAIN Arity : prog.inst[i].op = op => Len(prog.inst[i].args) = Arity[op]
    BY <1>1 DEF WellFormed
  <2>2. "sin16" \in DOMAIN Arity /\ Arity["sin16"] = 2
    BY DEF Arity
  <2> QED BY <2>1, <2>2 DEF Op, Args
<1> QED BY <1>2, <1>3, <1>4, <1>5, <1>6

\* What a run computes is a value of the model, and the rewritten function computes it
\* too.
LEMMA ComputesTheSame ==
  ASSUME CCPInv, ExecInv, mode # "propagate", NEW i \in Insts(prog),
         Computes(i), OperandsKnown(i), NEW v \in Data
  PROVE  /\ Compute(prog, env, i, v) \in Data
         /\ Compute(out, envOut, i, v) = Compute(prog, env, i, v)
<1>1. CCPTypeOK /\ envOut = env
  BY DEF CCPInv, ExecInv
<1> DEFINE x(k) == Read(env, prog.inst[i].args[k])
           y(k) == Read(envOut, out.inst[i].args[k])
<1>2. \A k \in ReadOperands(i) : x(k) \in Data /\ y(k) = x(k)
  <2> TAKE k \in ReadOperands(i)
  <2>1. k \in DOMAIN Args(i)
    BY DEF ReadOperands
  <2>2. out.inst[i].args[k] \in {Args(i)[k], NewOperand(Args(i)[k])}
    BY <1>1, <2>1, OutShape
  <2> QED BY <1>1, <2>2 DEF OperandsKnown, OperandKnown, Args
<1>3. /\ Op(i) \in {"copy", "and", "or", "not", "select", "min32", "sin16", "opaque"}
      /\ Op(i) = "copy" => 1 \in ReadOperands(i)
      /\ Op(i) = "not" => 1 \in ReadOperands(i)
      /\ Op(i) \in {"and", "or"} => 1 \in ReadOperands(i) /\ 2 \in ReadOperands(i)
      /\ Op(i) = "select" => \A k \in 1..3 : k \in ReadOperands(i)
      /\ Op(i) = "min32" => 2 \in ReadOperands(i) /\ 3 \in ReadOperands(i)
      /\ Op(i) = "sin16" => 2 \in ReadOperands(i)
  BY <1>1, ComputesOps
<1>4. prog.inst[i].op = Op(i) /\ out.inst[i].op = Op(i)
  BY <1>1, OutShape DEF Op
<1> DEFINE c == Compute(prog, env, i, v)
           d == Compute(out, envOut, i, v)
<1>5. CASE Op(i) = "copy"
  <2>1. c = x(1) /\ d = y(1)
    BY <1>4, <1>5 DEF Compute
  <2> QED BY <1>2, <1>3, <1>5, <2>1
<1>6. CASE Op(i) = "not"
  <2>1. c = (IF x(1) = 1 THEN 0 ELSE 1) /\ d = (IF y(1) = 1 THEN 0 ELSE 1)
    BY <1>4, <1>6 DEF Compute
  <2>2. x(1) \in Data /\ y(1) = x(1)
    BY <1>2, <1>3, <1>6
  <2> HIDE DEF x, y, c, d
  <2>3. c \in Data /\ d = c
    BY <2>1, <2>2 DEF Data
  <2> QED BY <2>3 DEF c, d
<1>7. CASE Op(i) = "and"
  <2>1. /\ c = IF x(1) = 1 /\ x(2) = 1 THEN 1 ELSE 0
        /\ d = IF y(1) = 1 /\ y(2) = 1 THEN 1 ELSE 0
    BY <1>4, <1>7 DEF Compute
  <2>2. x(1) \in Data /\ y(1) = x(1) /\ x(2) \in Data /\ y(2) = x(2)
    BY <1>2, <1>3, <1>7
  <2> HIDE DEF x, y, c, d
  <2>3. c \in Data /\ d = c
    BY <2>1, <2>2 DEF Data
  <2> QED BY <2>3 DEF c, d
<1>8. CASE Op(i) = "or"
  <2>1. /\ c = IF x(1) = 1 \/ x(2) = 1 THEN 1 ELSE 0
        /\ d = IF y(1) = 1 \/ y(2) = 1 THEN 1 ELSE 0
    BY <1>4, <1>8 DEF Compute
  <2>2. x(1) \in Data /\ y(1) = x(1) /\ x(2) \in Data /\ y(2) = x(2)
    BY <1>2, <1>3, <1>8
  <2> HIDE DEF x, y, c, d
  <2>3. c \in Data /\ d = c
    BY <2>1, <2>2 DEF Data
  <2> QED BY <2>3 DEF c, d
<1>9. CASE Op(i) = "select"
  <2>1. c = (IF x(1) = 1 THEN x(2) ELSE x(3)) /\ d = (IF y(1) = 1 THEN y(2) ELSE y(3))
    BY <1>4, <1>9 DEF Compute
  <2>2. /\ x(1) \in Data /\ y(1) = x(1) /\ x(2) \in Data /\ y(2) = x(2)
        /\ x(3) \in Data /\ y(3) = x(3)
    BY <1>2, <1>3, <1>9
  <2> HIDE DEF x, y, c, d
  <2>3. c \in Data /\ d = c
    BY <2>1, <2>2 DEF Data
  <2> QED BY <2>3 DEF c, d
<1>10. CASE Op(i) = "min32"
  <2>1. /\ c = IF x(2) = 1 /\ x(3) = 1 THEN 1 ELSE 0
        /\ d = IF y(2) = 1 /\ y(3) = 1 THEN 1 ELSE 0
    BY <1>4, <1>10 DEF Compute
  <2>2. x(2) \in Data /\ y(2) = x(2) /\ x(3) \in Data /\ y(3) = x(3)
    BY <1>2, <1>3, <1>10
  <2> HIDE DEF x, y, c, d
  <2>3. c \in Data /\ d = c
    BY <2>1, <2>2 DEF Data
  <2> QED BY <2>3 DEF c, d
<1>11. CASE Op(i) = "sin16"
  <2>1. c = x(2) /\ d = y(2)
    BY <1>4, <1>11 DEF Compute
  <2> QED BY <1>2, <1>3, <1>11, <2>1
<1>12. CASE Op(i) = "opaque"
  BY <1>4, <1>12 DEF Compute
<1> QED BY <1>3, <1>5, <1>6, <1>7, <1>8, <1>9, <1>10, <1>11, <1>12

\* An assignment of c to what may have a value already.
LEMMA MeetIsKnown ==
  ASSUME NEW i, NEW c \in Consts, values[i] = Assigned(ComputeLatticeMeet(i, c)).value
  PROVE  values[i] \in {c, Varying}
<1>1. \A w : Assigned(w).value = w
  BY DEF Assigned, MarkVarying, Result
<1>2. values[i] = ComputeLatticeMeet(i, c)
  BY <1>1
<1> QED BY <1>2, LatticeValues DEF ComputeLatticeMeet

\* What is computed from known operands is known, and as what it is.
LEMMA ComputedIsKnown ==
  ASSUME CCPInv, WideStaysWide, NEW i \in Insts(prog), Computes(i), Op(i) # "sin16",
         OperandsKnown(i), UpToDate(i), NEW v \in Data
  PROVE  /\ values[i] # Undef
         /\ values[i] \in Consts => Compute(prog, env, i, v) = Meaning(values[i])
<1>1. /\ Op(i) \in {"copy", "and", "or", "not", "select", "min32", "opaque"} /\ Op(i) # "phi"
      /\ ~IsBlockTerminator(prog, i) /\ ~IsBranch(prog, i) /\ HasResult(prog, i)
      /\ Op(i) = "copy" => 1 \in ReadOperands(i)
  BY ComputesOps DEF CCPInv, Computes
<1>2. values[i] = VisitAssignment(i).value
  BY <1>1 DEF UpToDate, VisitInstruction
<1>3. \A k \in ReadOperands(i) :
        /\ Value(i, k) \in Consts \cup {Varying}
        /\ Value(i, k) \in Consts => Read(env, Args(i)[k]) = Meaning(Value(i, k))
  BY DEF OperandsKnown, OperandKnown
<1>4. MarkVarying.value = Varying
  BY DEF MarkVarying, Result
<1>5. CASE Op(i) = "copy"
  <2>1. Value(i, 1) \in Consts \cup {Varying}
    BY <1>1, <1>3, <1>5
  <2>2. CASE Value(i, 1) = Varying
    BY <1>2, <1>4, <1>5, <2>2, LatticeValues DEF VisitAssignment
  <2>3. CASE Value(i, 1) \in Consts
    <3>1. VisitAssignment(i) = Assigned(ComputeLatticeMeet(i, Value(i, 1)))
      BY <1>5, <2>3, LatticeValues DEF VisitAssignment
    <3>2. values[i] \in {Value(i, 1), Varying}
      BY <1>2, <2>3, <3>1, MeetIsKnown
    <3>3. Compute(prog, env, i, v) = Read(env, Args(i)[1])
      BY <1>5 DEF Compute, Op, Args
    <3> QED BY <1>1, <1>3, <1>5, <2>3, <3>2, <3>3, LatticeValues
  <2> QED BY <2>1, <2>2, <2>3
<1>6. CASE Op(i) \in FoldableOps /\ FoldToConstant(i) # Undef
  <2>1. FoldToConstant(i) \in Consts
    BY <1>6, FoldType
  <2>2. VisitAssignment(i) = Assigned(ComputeLatticeMeet(i, FoldToConstant(i)))
    BY <1>6 DEF VisitAssignment, FoldableOps
  <2>3. values[i] \in {FoldToConstant(i), Varying}
    BY <1>2, <2>1, <2>2, MeetIsKnown
  <2>4. Compute(prog, env, i, v) = Meaning(FoldToConstant(i))
    BY <1>6, FoldIsRight DEF CCPInv
  <2> QED BY <2>1, <2>3, <2>4, LatticeValues
<1>7. CASE Op(i) \in FoldableOps /\ FoldToConstant(i) = Undef
  <2>1. VisitAssignment(i) = MarkVarying
    <3>1. \/ Varying \in ArgValues(i)
          \/ Undef \notin ArgValues(i)
      <4>1. CASE Op(i) = "min32"
        <5>1. Len(Args(i)) = 3 /\ DOMAIN Args(i) = 1..Len(Args(i))
          BY <4>1, SSAShape, ArgsType DEF CCPInv
        <5>2. PICK k \in 2..Len(Args(i)) : Value(i, k) \notin Consts
          BY <1>7, <4>1, FoldCases DEF CanFold
        <5>3. k \in DOMAIN Args(i) /\ k \in ReadOperands(i)
          BY <5>1, <5>2, WhichAreRead DEF CCPInv
        <5> QED BY <1>3, <5>2, <5>3 DEF ArgValues
      <4>2. CASE Op(i) # "min32"
        <5>1. ReadOperands(i) = DOMAIN Args(i)
          BY <1>1, <4>2, WhichAreRead DEF CCPInv
        <5> QED BY <1>3, <5>1, LatticeValues DEF ArgValues
      <4> QED BY <4>1, <4>2
    <3>2. Op(i) # "copy"
      BY <1>7 DEF FoldableOps
    <3> QED BY <1>7, <3>1, <3>2 DEF VisitAssignment
  <2> QED BY <1>2, <1>4, <2>1, LatticeValues
<1>8. CASE Op(i) \notin FoldableOps \cup {"copy"}
  <2>1. VisitAssignment(i) = MarkVarying
    BY <1>8 DEF VisitAssignment
  <2> QED BY <1>2, <1>4, <2>1, LatticeValues
<1> QED BY <1>5, <1>6, <1>7, <1>8
-----------------------------------------------------------------------------
\* The instruction that the execution is at.
LEMMA Here ==
  ASSUME CCPInv, ExecInv, mode # "propagate"
  PROVE  /\ at \in prog.blocks /\ prog.rest[at] \in Seq(Insts(prog)) /\ rest \in Seq(Insts(prog))
         /\ Len(rest) \in Nat /\ Len(prog.rest[at]) \in Nat /\ Position \in 0 .. Len(prog.rest[at]) - 1
         /\ rest # << >> /\ 1 \in DOMAIN rest /\ Head(rest) = prog.rest[at][Position + 1]
         /\ Head(rest) \in Insts(prog) /\ Head(rest) \in Elements(prog.rest[at])
         /\ Head(rest) \in Elements(Lines(prog, at))
         /\ prog.blockOf[Head(rest)] = at /\ Op(Head(rest)) # "phi"
<1>1. /\ CCPTypeOK /\ at \in prog.blocks /\ rest \in Seq(Insts(prog))
      /\ \A k \in DOMAIN rest : rest[k] = prog.rest[at][Position + k]
      /\ Position \in 0 .. Len(prog.rest[at]) - 1
  BY DEF CCPInv, CCPTypeOK, ExecInv, LinesAreComputed
<1>2. prog.rest[at] \in Seq(Insts(prog))
  BY <1>1, ProgShape
<1> DEFINE r == prog.rest[at]
           n == Position
<1>3. n = Len(r) - Len(rest)
  BY DEF Position
<1>4. r \in Seq(Insts(prog)) /\ n \in 0 .. Len(r) - 1 /\ \A k \in DOMAIN rest : rest[k] = r[n + k]
  BY <1>1, <1>2
<1> HIDE DEF r, n
<1>5. Len(rest) \in Nat /\ Len(r) \in Nat /\ Len(rest) >= 1
  BY <1>1, <1>3, <1>4
<1>6. rest # << >> /\ 1 \in DOMAIN rest /\ Head(rest) = rest[1] /\ Head(rest) \in Insts(prog)
  BY <1>1, <1>5
<1>7. Head(rest) = r[n + 1] /\ n + 1 \in DOMAIN r
  BY <1>4, <1>5, <1>6
<1>8. Head(rest) \in Elements(r)
  BY <1>7 DEF Elements
<1>9. /\ Head(rest) \in Elements(Lines(prog, at))
      /\ prog.blockOf[Head(rest)] = at /\ Op(Head(rest)) # "phi"
  BY <1>1, <1>8, LinesOfBlock DEF r
<1> QED BY <1>1, <1>4, <1>5, <1>6, <1>7, <1>8, <1>9 DEF r, n

\* Lines before it are computed.
LEMMA LinesBefore ==
  ASSUME CCPInv, ExecInv, mode # "propagate",
         NEW n \in 1 .. Len(prog.phis[at]) + Position
  PROVE  IsComputed(Lines(prog, at)[n])
<1> DEFINE s == prog.phis[at]
           t == prog.rest[at]
           q == Position
<1>1. s \in Seq(Insts(prog)) /\ t \in Seq(Insts(prog)) /\ q \in 0 .. Len(t) - 1
  BY Here, ProgShape DEF CCPInv
<1>2. Lines(prog, at) = s \o t
  BY DEF Lines
<1>3. \A i \in Elements(s) : IsComputed(i)
  BY DEF ExecInv, LinesAreComputed
<1>4. \A k \in 1 .. q : IsComputed(t[k])
  BY DEF ExecInv, LinesAreComputed
<1>5. n \in 1 .. Len(s) + q
  OBVIOUS
<1> HIDE DEF s, t, q
<1>6. CASE n \in 1 .. Len(s)
  <2>1. (s \o t)[n] = s[n] /\ n \in DOMAIN s
    BY <1>1, <1>6
  <2> QED BY <1>2, <1>3, <2>1 DEF Elements
<1>7. CASE n \notin 1 .. Len(s)
  <2>1. (s \o t)[n] = t[n - Len(s)] /\ n - Len(s) \in 1 .. q
    BY <1>1, <1>5, <1>7
  <2> QED BY <1>2, <1>4, <2>1
<1> QED BY <1>6, <1>7

\* So is what is in a block that dominates.
LEMMA DominatorIsComputed ==
  ASSUME CCPInv, ExecInv, mode # "propagate", NEW i \in Insts(prog),
         prog.blockOf[i] # at, Dominates(prog, prog.blockOf[i], at)
  PROVE  IsComputed(i)
<1> SUFFICES ASSUME ~IsComputed(i) PROVE FALSE
  OBVIOUS
<1> DEFINE a == prog.blockOf[i]
<1>1. a \in prog.blocks /\ CCPTypeOK /\ InSSAForm(prog)
  BY ProgShape, SSAShape DEF CCPInv
<1>2. i \in Elements(Lines(prog, a))
  BY <1>1, LinesOfBlock DEF InSSAForm
<1>3. PICK S \in SUBSET prog.blocks : Avoids(prog, a, S) /\ at \notin S
  BY DEF Dominates
<1>4. DominatorsAreComputed
  BY DEF ExecInv
<1>5. at \in S \cup {a}
  BY <1>1, <1>2, <1>3, <1>4 DEF DominatorsAreComputed
<1> QED BY <1>3, <1>5

\* Operands of the instruction at hand have values.
LEMMA OperandsAreHeld ==
  ASSUME CCPInv, ExecInv, mode # "propagate"
  PROVE  OperandsHeld(Head(rest))
<1> DEFINE i == Head(rest)
           s == prog.phis[at]
           t == prog.rest[at]
           q == Position
<1>1. /\ at \in prog.blocks /\ s \in Seq(Insts(prog)) /\ t \in Seq(Insts(prog)) /\ q \in 0 .. Len(t) - 1
      /\ i \in Insts(prog) /\ i = t[q + 1] /\ Op(i) # "phi" /\ CCPTypeOK /\ InSSAForm(prog)
  BY Here, ProgShape, SSAShape DEF CCPInv
<1> SUFFICES ASSUME NEW k \in ReadOperands(i) PROVE Held(Args(i)[k])
  BY DEF OperandsHeld
<1> DEFINE a == Args(i)[k]
<1>2. k \in DOMAIN Args(i) /\ a \notin prog.imports /\ a \in Ids(prog)
  BY <1>1, ArgsType DEF ReadOperands
<1>3. CASE a \in Consts
  BY <1>3 DEF Held
<1>4. CASE a \in prog.params
  BY <1>4 DEF Held, Slots, ExecInv
<1>5. CASE a \in Insts(prog)
  <2>1. Lines(prog, at) = s \o t
    BY DEF Lines
  <2> DEFINE m == Len(s) + q + 1
  <2>2. (s \o t)[m] = i /\ m \in DOMAIN (s \o t)
    <3> HIDE DEF s, t, q, i
    <3>1. Len(s) \in Nat /\ q + 1 \in 1..Len(t)
      BY <1>1
    <3> QED BY <1>1, <3>1
  <2>3. /\ prog.blockOf[a] = at => \E n \in 1 .. m - 1 : Lines(prog, at)[n] = a
        /\ prog.blockOf[a] # at => Dominates(prog, prog.blockOf[a], at)
    <3>1. Lines(prog, at)[m] = i /\ m \in DOMAIN Lines(prog, at)
      BY <2>1, <2>2
    <3> HIDE DEF m, i
    <3>2. k \in DOMAIN Args(Lines(prog, at)[m]) /\ a = Args(Lines(prog, at)[m])[k]
      BY <1>2, <3>1
    <3> QED BY <1>1, <1>5, <3>1, <3>2, OperandsComeFirst
  <2>4. IsComputed(a)
    <3>1. CASE prog.blockOf[a] = at
      <4>1. PICK n \in 1 .. m - 1 : Lines(prog, at)[n] = a
        BY <2>3, <3>1
      <4>2. n \in 1 .. Len(prog.phis[at]) + Position
        BY <1>1
      <4> QED BY <4>1, <4>2, LinesBefore
    <3>2. CASE prog.blockOf[a] # at
      BY <1>5, <2>3, <3>2, DominatorIsComputed
    <3> QED BY <3>1, <3>2
  <2>5. YieldsValue(a)
    BY <1>1, <1>2, <1>5, ValuesShape
  <2> QED BY <1>5, <2>4, <2>5 DEF IsComputed, Held, Slots
<1> QED BY <1>2, <1>3, <1>4, <1>5 DEF Ids

\* At the end of a block all of it is computed.
LEMMA AtTheTerminator ==
  ASSUME CCPInv, ExecInv, mode # "propagate", IsBlockTerminator(prog, Head(rest))
  PROVE  \A j \in Elements(Lines(prog, at)) : IsComputed(j)
<1> DEFINE i == Head(rest)
           s == prog.phis[at]
           t == prog.rest[at]
           q == Position
<1>1. /\ at \in prog.blocks /\ s \in Seq(Insts(prog)) /\ t \in Seq(Insts(prog)) /\ q \in 0 .. Len(t) - 1
      /\ i \in Insts(prog) /\ i = t[q + 1] /\ prog.blockOf[i] = at /\ InSSAForm(prog)
  BY Here, ProgShape, SSAShape DEF CCPInv
<1>2. i = t[Len(t)]
  BY <1>1 DEF InSSAForm, Terminator
<1>3. Lines(prog, at) = s \o t
  BY DEF Lines
<1>4. \A m, n \in DOMAIN (s \o t) : (s \o t)[m] = (s \o t)[n] => m = n
  <2>1. \A m, n \in DOMAIN Lines(prog, at) : Lines(prog, at)[m] = Lines(prog, at)[n] => m = n
    <3> HIDE DEF s, t, q, i
    <3> QED BY <1>1 DEF InSSAForm
  <2> QED BY <1>3, <2>1
<1>5. q + 1 = Len(t)
  <2> HIDE DEF s, t, q, i
  <2>1. q + 1 \in 1 .. Len(t) /\ Len(t) \in 1 .. Len(t) /\ Len(s) \in Nat
    BY <1>1
  <2>2. /\ Len(s) + (q + 1) \in DOMAIN (s \o t) /\ (s \o t)[Len(s) + (q + 1)] = t[q + 1]
        /\ Len(s) + Len(t) \in DOMAIN (s \o t) /\ (s \o t)[Len(s) + Len(t)] = t[Len(t)]
    BY <1>1, <2>1
  <2>3. Len(s) + (q + 1) = Len(s) + Len(t)
    BY <1>1, <1>2, <1>4, <2>2
  <2> QED BY <2>1, <2>3
<1>6. ~YieldsValue(i)
  BY DEF YieldsValue, HasResult
<1> SUFFICES ASSUME NEW n \in DOMAIN Lines(prog, at) PROVE IsComputed(Lines(prog, at)[n])
  BY DEF Elements
<1>7. CASE n \in 1 .. Len(s) + q
  BY <1>7, LinesBefore
<1>8. CASE n \notin 1 .. Len(s) + q
  <2> HIDE DEF s, t, q, i
  <2>1. n = Len(s) + Len(t) /\ (s \o t)[Len(s) + Len(t)] = t[Len(t)]
    BY <1>1, <1>3, <1>5, <1>8
  <2>2. Lines(prog, at)[n] = i
    BY <1>2, <1>3, <2>1
  <2> QED BY <1>6, <2>2 DEF IsComputed
<1> QED BY <1>7, <1>8
-----------------------------------------------------------------------------
\* The branches of a function.
LEMMA BranchShape ==
  ASSUME CCPTypeOK, NEW i \in Insts(prog), IsBranch(prog, i)
  PROVE  LET labels == prog.inst[i].labels
             lits == prog.inst[i].lits
         IN  /\ labels \in Seq(prog.blocks) /\ lits \in Seq(0 .. 3)
             /\ Op(i) \in {"br", "brcond", "switch"}
             /\ Op(i) = "br" => 1 \in DOMAIN labels
             /\ Op(i) = "brcond" => 1 \in DOMAIN labels /\ 2 \in DOMAIN labels
             /\ Op(i) = "switch" =>
                  1 \in DOMAIN labels /\ \A k \in DOMAIN lits : 1 + k \in DOMAIN labels
             /\ Op(i) # "br" => 1 \in ReadOperands(i)
<1>1. WellFormed(prog) /\ Op(i) \in {"br", "brcond", "switch"}
  BY ProgIsWellFormed DEF CCPTypeOK, IsBranch, Op
<1> DEFINE labels == prog.inst[i].labels
           lits == prog.inst[i].lits
<1>2. labels \in Seq(prog.blocks) /\ lits \in Seq(0 .. 3)
  BY ArgsType
<1>3. /\ Op(i) = "br" => Len(labels) > 0
      /\ Op(i) = "brcond" => Len(labels) = 2
      /\ Op(i) = "switch" => Len(labels) = Len(lits) + 1
      /\ Op(i) # "br" => Len(Args(i)) > 0
  BY <1>1 DEF WellFormed, Op, Args
<1>4. Op(i) # "br" => 1 \in ReadOperands(i)
  BY <1>1, <1>3, WhichAreRead
<1> HIDE DEF labels, lits
<1>5. /\ Op(i) = "br" => 1 \in DOMAIN labels
      /\ Op(i) = "brcond" => 1 \in DOMAIN labels /\ 2 \in DOMAIN labels
      /\ Op(i) = "switch" =>
           1 \in DOMAIN labels /\ \A k \in DOMAIN lits : 1 + k \in DOMAIN labels
  BY <1>2, <1>3
<1> QED BY <1>1, <1>2, <1>4, <1>5 DEF labels, lits

\* The first case with a value, which SwitchTarget and Target both look for.
Hits(lits, a) == {k \in DOMAIN lits : lits[k] = a /\ \A j \in 1..(k-1) : lits[j] # a}

\* There is at most one.
LEMMA OneHit ==
  ASSUME NEW lits \in Seq(0 .. 3), NEW a, NEW k \in Hits(lits, a), NEW l \in Hits(lits, a)
  PROVE  k = l
<1>1. k \in 1..Len(lits) /\ l \in 1..Len(lits) /\ Len(lits) \in Nat
  BY DEF Hits
<1>2. /\ lits[k] = a /\ \A j \in 1..(k-1) : lits[j] # a
      /\ lits[l] = a /\ \A j \in 1..(l-1) : lits[j] # a
  BY DEF Hits
<1>3. ~(k \in 1..(l-1)) /\ ~(l \in 1..(k-1))
  BY <1>2
<1> QED BY <1>1, <1>3

\* Where a switch goes, by the labels, the cases and the selector's value.
SwitchGoes(labels, lits, a) ==
  IF Hits(lits, a) = {} THEN labels[1] ELSE labels[1 + (CHOOSE k \in Hits(lits, a) : TRUE)]

\* The pass's choice of a case is the first with the value, when a value has one
\* word.
LEMMA SwitchTargetGoes ==
  ASSUME CCPTypeOK, NEW i \in Insts(prog), NEW sel, sel # "wide",
         \A k \in DOMAIN prog.inst[i].lits : prog.inst[i].lits[k] \in {0, 1}
  PROVE  SwitchTarget(i, sel) = SwitchGoes(prog.inst[i].labels, prog.inst[i].lits, Meaning(sel))
<1> DEFINE lits == prog.inst[i].lits
           labels == prog.inst[i].labels
           a == Meaning(sel)
           same(k) == LowWord(lits[k]) = LowWord(a)
           case(k) == same(k) /\ \A j \in 1..(k-1) : ~same(j)
<1>1. SwitchTarget(i, sel) = IF \E k \in DOMAIN lits : case(k)
                             THEN labels[1 + (CHOOSE k \in DOMAIN lits : case(k))] ELSE labels[1]
  BY DEF SwitchTarget
<1>3. lits \in Seq(0 .. 3)
  BY ArgsType
<1>2. \A k : k \in Hits(lits, a) <=> k \in DOMAIN lits /\ case(k)
  <2>1. a \in {0, 1}
    BY DEF Meaning
  <2>2. \A v, w \in {0, 1} : LowWord(v) = LowWord(w) <=> v = w
    BY DEF LowWord
  <2>3. \A k \in DOMAIN lits : same(k) <=> lits[k] = a
    BY <2>1, <2>2
  <2>4. \A k \in DOMAIN lits : \A j \in 1..(k-1) : j \in DOMAIN lits
    BY <1>3
  <2> HIDE DEF lits, a, same
  <2> QED BY <2>3, <2>4 DEF Hits
<1> HIDE DEF lits, labels, a, case
<1>4. CASE \E k \in DOMAIN lits : case(k)
  <2> DEFINE m == CHOOSE k \in DOMAIN lits : case(k)
             n == CHOOSE k \in Hits(lits, a) : TRUE
  <2>1. m \in DOMAIN lits /\ case(m)
    BY <1>4
  <2>2. n \in Hits(lits, a) /\ m \in Hits(lits, a)
    BY <1>2, <1>4, <2>1
  <2> HIDE DEF m, n
  <2>3. m = n
    BY <1>3, <2>2, OneHit
  <2>4. SwitchTarget(i, sel) = labels[1 + m]
    BY <1>1, <1>4 DEF m
  <2>5. SwitchGoes(labels, lits, a) = labels[1 + n]
    BY <2>2 DEF SwitchGoes, n
  <2> QED BY <2>3, <2>4, <2>5 DEF labels, lits, a
<1>5. CASE ~\E k \in DOMAIN lits : case(k)
  <2>1. Hits(lits, a) = {}
    BY <1>2, <1>5
  <2>2. SwitchTarget(i, sel) = labels[1]
    BY <1>1, <1>5
  <2> QED BY <2>1, <2>2 DEF SwitchGoes, labels, lits, a
<1> QED BY <1>4, <1>5

\* Where a terminator goes when its selector reads as a.
Goes(i, a) ==
  CASE Op(i) = "br" -> prog.inst[i].labels[1]
    [] Op(i) = "brcond" -> IF a = 1 THEN prog.inst[i].labels[1] ELSE prog.inst[i].labels[2]
    [] Op(i) = "switch" -> SwitchGoes(prog.inst[i].labels, prog.inst[i].lits, a)

\* So is the execution's, of the function before and of the one after.
LEMMA TargetGoes ==
  ASSUME CCPTypeOK, NEW p, NEW e, NEW i \in Insts(prog), IsBranch(prog, i),
         p.inst[i].op = Op(i), p.inst[i].labels = prog.inst[i].labels,
         p.inst[i].lits = prog.inst[i].lits
  PROVE  Target(p, e, i) = Goes(i, Read(e, p.inst[i].args[1]))
<1>1. Op(i) \in {"br", "brcond", "switch"}
  BY BranchShape
<1>2. CASE Op(i) = "br"
  BY <1>2 DEF Target, Goes
<1>3. CASE Op(i) = "brcond"
  BY <1>3 DEF Target, Goes
<1>4. CASE Op(i) = "switch"
  BY <1>4 DEF Target, Goes, SwitchGoes, Hits
<1> QED BY <1>1, <1>2, <1>3, <1>4

\* It goes to one of its labels.
LEMMA GoesToLabel ==
  ASSUME CCPTypeOK, NEW i \in Insts(prog), IsBranch(prog, i), NEW a
  PROVE  Goes(i, a) \in Elements(prog.inst[i].labels)
<1> DEFINE labels == prog.inst[i].labels
           lits == prog.inst[i].lits
<1>1. /\ Op(i) \in {"br", "brcond", "switch"}
      /\ Op(i) = "br" => 1 \in DOMAIN labels
      /\ Op(i) = "brcond" => 1 \in DOMAIN labels /\ 2 \in DOMAIN labels
      /\ Op(i) = "switch" =>
           1 \in DOMAIN labels /\ \A k \in DOMAIN lits : 1 + k \in DOMAIN labels
  BY BranchShape
<1>2. \A k \in DOMAIN labels : labels[k] \in Elements(labels)
  BY DEF Elements
<1> HIDE DEF labels, lits
<1>3. CASE Op(i) = "br"
  BY <1>1, <1>2, <1>3 DEF Goes, labels
<1>4. CASE Op(i) = "brcond"
  BY <1>1, <1>2, <1>4 DEF Goes, labels
<1>5. CASE Op(i) = "switch"
  <2>1. Goes(i, a) = SwitchGoes(labels, lits, a)
    BY <1>5 DEF Goes, labels, lits
  <2>2. CASE Hits(lits, a) = {}
    BY <1>1, <1>2, <1>5, <2>1, <2>2 DEF SwitchGoes, labels
  <2>3. CASE Hits(lits, a) # {}
    <3>1. (CHOOSE k \in Hits(lits, a) : TRUE) \in DOMAIN lits
      BY <2>3 DEF Hits
    <3> QED BY <1>1, <1>2, <1>5, <2>1, <2>3, <3>1 DEF SwitchGoes, labels
  <2> QED BY <2>2, <2>3
<1> QED BY <1>1, <1>3, <1>4, <1>5

\* The one destination that a visit found is where the execution goes.
LEMMA VisitedGoes ==
  ASSUME CCPTypeOK, WideStaysWide, OneWordSwitches, NEW i \in Insts(prog), IsBranch(prog, i),
         OperandsKnown(i), VisitBranch(i).status # "varying"
  PROVE  VisitBranch(i).dest = <<Goes(i, Read(env, Args(i)[1]))>>
<1> DEFINE labels == prog.inst[i].labels
           sel == Value(i, 1)
           unknown == Result("varying", << >>, Undef)
           goto(label) == Result("interesting", <<label>>, Undef)
           a == Read(env, Args(i)[1])
<1>1. Op(i) \in {"br", "brcond", "switch"} /\ (Op(i) # "br" => 1 \in ReadOperands(i))
  BY BranchShape
<1>2. unknown.status = "varying" /\ \A label : goto(label).dest = <<label>>
  BY DEF Result
<1>3. Op(i) # "br" => (sel \in Consts => a = Meaning(sel))
  BY <1>1 DEF OperandsKnown, OperandKnown
<1>4. CASE Op(i) = "br"
  <2>1. VisitBranch(i) = goto(labels[1])
    BY <1>4 DEF VisitBranch
  <2>2. Goes(i, a) = labels[1]
    BY <1>4 DEF Goes
  <2> QED BY <1>2, <2>1, <2>2
<1>6. CASE Op(i) \in {"brcond", "switch"} /\ sel \notin Consts
  <2>1. VisitBranch(i) = unknown
    BY <1>6 DEF VisitBranch
  <2> QED BY <1>2, <2>1
<1>7. CASE Op(i) = "brcond" /\ sel \in Consts
  <2>1. VisitBranch(i) = goto(IF Meaning(sel) = 1 THEN labels[1] ELSE labels[2])
    BY <1>7 DEF VisitBranch
  <2>2. Goes(i, a) = IF a = 1 THEN labels[1] ELSE labels[2]
    BY <1>7 DEF Goes
  <2>3. a = Meaning(sel)
    BY <1>3, <1>7
  <2> HIDE DEF a, sel, goto, labels
  <2>4. VisitBranch(i) = goto(Goes(i, a))
    BY <2>1, <2>2, <2>3
  <2> QED BY <1>2, <2>4 DEF a
<1>8. CASE Op(i) = "switch" /\ sel \in Consts
  <2>1. VisitBranch(i) = goto(SwitchTarget(i, sel))
    BY <1>8 DEF VisitBranch
  <2>2. Goes(i, a) = SwitchGoes(labels, prog.inst[i].lits, a)
    BY <1>8 DEF Goes
  <2>3. a = Meaning(sel)
    BY <1>3, <1>8
  <2>4. SwitchTarget(i, sel) = SwitchGoes(labels, prog.inst[i].lits, Meaning(sel))
    <3>1. /\ Args(i)[1] \notin prog.wide
          /\ \A k \in DOMAIN prog.inst[i].lits : prog.inst[i].lits[k] \in {0, 1}
      BY <1>8 DEF OneWordSwitches, CCPTypeOK, Op, Args
    <3>2. 1 \in DOMAIN Args(i)
      BY <1>1, <1>8 DEF ReadOperands
    <3>3. sel # "wide"
      BY <3>1, <3>2, WideOperand
    <3> QED BY <3>1, <3>3, SwitchTargetGoes
  <2> HIDE DEF a, sel, goto, labels
  <2>5. VisitBranch(i) = goto(Goes(i, a))
    BY <2>1, <2>2, <2>3, <2>4
  <2> QED BY <1>2, <2>5 DEF a
<1> QED BY <1>1, <1>4, <1>6, <1>7, <1>8

\* Both functions go over the same edge, and the propagation found it.
LEMMA EdgeWasFound ==
  ASSUME CCPInv, FixpointInv, ReachInv, ExecInv, OneWordSwitches,
         mode # "propagate", IsBranch(prog, Head(rest))
  PROVE  LET b == Target(prog, env, Head(rest))
         IN  /\ b \in prog.blocks /\ b \in Elements(Successors(prog, at))
             /\ <<at, b>> \in edges /\ b \in simulated
             /\ Target(out, envOut, Head(rest)) = b
<1> DEFINE i == Head(rest)
           a == Read(env, Args(i)[1])
           b == Target(prog, env, i)
           labels == prog.inst[i].labels
<1>1. /\ CCPTypeOK /\ i \in Insts(prog) /\ prog.blockOf[i] = at /\ at \in prog.blocks
      /\ i \in Elements(Lines(prog, at)) /\ Op(i) # "phi" /\ Exit \notin prog.blocks
      /\ InSSAForm(prog)
  BY Here, ProgShape, SSAShape DEF CCPInv
<1>2. OperandsKnown(i)
  BY <1>1, OperandsAreHeld, HeldAreKnown
<1>3. b = Goes(i, a)
  BY <1>1, TargetGoes DEF Op, Args
<1>4. b \in Elements(labels) /\ labels \in Seq(prog.blocks)
  BY <1>1, <1>3, GoesToLabel, ArgsType
<1>5. b \in prog.blocks
  BY <1>4 DEF Elements
<1>6. Successors(prog, at) = labels
  <2>1. i = Terminator(prog, at)
    BY <1>1 DEF InSSAForm, IsBlockTerminator
  <2>2. prog.inst[i].op # "return"
    BY DEF IsBranch
  <2> QED BY <2>1, <2>2 DEF Successors
<1>7. UpToDate(i) /\ pc = "done" /\ at \in simulated
  BY <1>1, AtTheEnd DEF ExecInv
<1>8. IsBlockTerminator(prog, i) /\ VisitInstruction(i) = VisitBranch(i)
  BY <1>1 DEF IsBlockTerminator, VisitInstruction
<1>9. <<at, b>> \in edges
  <2>1. CASE status[i] = "varying"
    <3>1. \A l \in Elements(labels) \ {Exit} : <<at, l>> \in edges
      BY <1>1, <1>6, <1>7, <1>8, <2>1 DEF UpToDate
    <3> QED BY <1>1, <1>4, <1>5, <3>1
  <2>2. CASE status[i] # "varying"
    <3>1. /\ status[i] = VisitBranch(i).status
          /\ \A l \in Elements(VisitBranch(i).dest) \ {Exit} : <<at, l>> \in edges
      BY <1>1, <1>7, <1>8, <2>2 DEF UpToDate
    <3>2. VisitBranch(i).dest = <<b>>
      BY <1>1, <1>2, <1>3, <2>2, <3>1, VisitedGoes DEF ReachInv
    <3>3. b \in Elements(<<b>>)
      BY DEF Elements
    <3> QED BY <1>1, <1>5, <3>1, <3>2, <3>3
  <2> QED BY <2>1, <2>2
<1>10. b \in simulated
  BY <1>7, <1>9, AtTheEnd
<1>11. Target(out, envOut, i) = b
  <2>1. /\ out.inst[i].op = Op(i) /\ out.inst[i].labels = labels
        /\ out.inst[i].lits = prog.inst[i].lits
        /\ \A k \in DOMAIN Args(i) : out.inst[i].args[k] \in {Args(i)[k], NewOperand(Args(i)[k])}
    BY <1>1, OutShape
  <2>2. Target(out, envOut, i) = Goes(i, Read(envOut, out.inst[i].args[1]))
    BY <1>1, <2>1, TargetGoes
  <2>3. CASE Op(i) = "br"
    BY <1>3, <2>2, <2>3 DEF Goes
  <2>4. CASE Op(i) # "br"
    <3>1. 1 \in ReadOperands(i) /\ 1 \in DOMAIN Args(i)
      BY <1>1, <2>4, BranchShape DEF ReadOperands
    <3>2. Read(envOut, out.inst[i].args[1]) = a
      BY <1>2, <2>1, <3>1 DEF OperandsKnown, OperandKnown, ExecInv
    <3> QED BY <1>3, <2>2, <3>2
  <2> QED BY <2>3, <2>4
<1> QED BY <1>4, <1>5, <1>6, <1>9, <1>10, <1>11

\* The argument of phi i for the edge by which the execution enters its block.
EntryArgument(i) == CHOOSE k \in DOMAIN prog.inst[i].labels : prog.inst[i].labels[k] = at

\* A phi that is entered takes a known value.
LEMMA PhiIsKnown ==
  ASSUME CCPInv, FixpointInv, ReachInv, ExecInv, mode # "propagate", IsBranch(prog, Head(rest)),
         NEW b \in simulated, <<at, b>> \in edges, b \in Elements(Successors(prog, at)),
         NEW i \in Elements(prog.phis[b])
  PROVE  LET x == Read(env, prog.inst[i].args[EntryArgument(i)])
         IN  /\ x \in Data /\ Read(envOut, out.inst[i].args[EntryArgument(i)]) = x
             /\ values[i] # Undef /\ (values[i] \in Consts => x = Meaning(values[i]))
<1> DEFINE k == EntryArgument(i)
           labels == prog.inst[i].labels
           a == Args(i)[k]
<1>1. CCPTypeOK /\ b \in prog.blocks /\ at \in prog.blocks /\ InSSAForm(prog) /\ pc = "done"
  BY Here, SSAShape DEF CCPInv, CCPTypeOK, ExecInv
<1>2. i \in Elements(Lines(prog, b)) /\ i \in Insts(prog) /\ prog.blockOf[i] = b /\ Op(i) = "phi"
  BY <1>1, LinesOfBlock
<1>3. k \in DOMAIN labels /\ labels[k] = at
  <2>1. at \in Elements(labels)
    BY <1>1, <1>2, ValuesShape
  <2> QED BY <2>1 DEF Elements, EntryArgument
<1>4. k \in DOMAIN Args(i) /\ a \in Ids(prog)
  <2>1. Len(labels) = Len(Args(i)) /\ labels \in Seq(prog.blocks) /\ Args(i) \in Seq(Ids(prog))
    BY <1>1, <1>2, SSAShape, ArgsType
  <2> HIDE DEF k, labels
  <2>2. k \in DOMAIN Args(i)
    BY <1>3, <2>1
  <2> QED BY <2>1, <2>2
<1>5. a \notin prog.imports /\ (a \in Insts(prog) => YieldsValue(a))
  BY <1>1, <1>2, <1>4, ValuesShape
<1>6. Held(a)
  <2>1. CASE a \in Consts
    BY <2>1 DEF Held
  <2>2. CASE a \in prog.params
    BY <2>2 DEF Held, Slots, ExecInv
  <2>3. CASE a \in Insts(prog)
    <3>1. PICK m \in DOMAIN Lines(prog, b) : i = Lines(prog, b)[m]
      BY <1>2 DEF Elements
    <3>2. Dominates(prog, prog.blockOf[a], at)
      <4> HIDE DEF k
      <4> QED BY <1>1, <1>2, <1>3, <1>4, <2>3, <3>1, OperandsComeFirst
    <3>3. IsComputed(a)
      <4>1. CASE prog.blockOf[a] # at
        BY <2>3, <3>2, <4>1, DominatorIsComputed
      <4>2. CASE prog.blockOf[a] = at
        <5>1. a \in Elements(Lines(prog, at))
          BY <1>1, <2>3, <4>2, LinesOfBlock DEF InSSAForm
        <5>2. IsBlockTerminator(prog, Head(rest))
          BY DEF IsBlockTerminator
        <5> QED BY <5>1, <5>2, AtTheTerminator
      <4> QED BY <4>1, <4>2
    <3> QED BY <1>5, <2>3, <3>3 DEF IsComputed, Held, Slots
  <2> QED BY <1>4, <1>5, <2>1, <2>2, <2>3 DEF Ids
<1> DEFINE x == Read(env, a)
<1>7. /\ x \in Data /\ Value(i, k) \in Consts \cup {Varying}
      /\ Value(i, k) \in Consts => x = Meaning(Value(i, k))
      /\ Read(env, NewOperand(a)) = x
  BY <1>6, HeldIsKnown DEF Value
<1>8. Read(envOut, out.inst[i].args[k]) = x
  <2>1. out.inst[i].args[k] \in {a, NewOperand(a)}
    BY <1>1, <1>2, <1>4, OutShape
  <2> QED BY <1>7, <2>1 DEF ExecInv
<1>9. values[i] = VisitPhi(i).value
  <2>1. UpToDate(i)
    BY <1>1, <1>2, AtTheEnd
  <2>2. ~IsBlockTerminator(prog, i) /\ HasResult(prog, i)
    BY <1>2 DEF IsBlockTerminator, IsBranch, HasResult, Op
  <2> QED BY <1>2, <2>1, <2>2 DEF UpToDate, VisitInstruction
<1> DEFINE known == {Value(i, j) : j \in {l \in DOMAIN Args(i) : IsPhiArgExecutable(i, l)}} \ {Undef}
<1>10. Value(i, k) \in known
  <2>1. IsPhiArgExecutable(i, k)
    BY <1>2, <1>3 DEF IsPhiArgExecutable
  <2> QED BY <1>4, <1>7, <2>1, LatticeValues
<1>11. values[i] \in {Value(i, k), Varying}
  <2>1. \A w : Assigned(w).value = w
    BY DEF Assigned, MarkVarying, Result
  <2>2. MarkVarying.value = Varying
    BY DEF MarkVarying, Result
  <2>3. VisitPhi(i) = IF known = {} THEN NotInteresting(i)
                      ELSE IF \E c \in known : c # Varying /\ known = {c}
                      THEN Assigned(CHOOSE c \in known : TRUE)
                      ELSE MarkVarying
    BY DEF VisitPhi
  <2> HIDE DEF known, k
  <2>4. CASE \E c \in known : c # Varying /\ known = {c}
    <3>1. (CHOOSE c \in known : TRUE) = Value(i, k)
      BY <1>10, <2>4
    <3> QED BY <1>9, <1>10, <2>1, <2>3, <2>4, <3>1
  <2>5. CASE ~\E c \in known : c # Varying /\ known = {c}
    BY <1>9, <1>10, <2>2, <2>3, <2>5
  <2> QED BY <2>4, <2>5
<1>12. values[i] # Undef /\ (values[i] \in Consts => x = Meaning(values[i]))
  BY <1>7, <1>11, LatticeValues
<1> QED BY <1>7, <1>8, <1>12 DEF Args
-----------------------------------------------------------------------------
\* The execution starts in the entry, with the parameters alone.
LEMMA StartKeepsExec ==
  ASSUME CCPInv, FixpointInv, ReachInv, ExecInv, ReplaceAndStart
  PROVE  ExecInv'
<1>1. /\ prog' = prog /\ values' = values /\ edges' = edges /\ simulated' = simulated
      /\ changed' = changed /\ pc = "done" /\ pc' = "done" /\ mode = "propagate" /\ mode' = "run"
      /\ at' = at /\ taken' = taken /\ at = prog.entry /\ taken = {}
      /\ rest' = prog.rest[prog.entry] /\ envOut' = env'
      /\ out' = IF changed THEN ReplaceValues ELSE prog
  BY DEF ReplaceAndStart, ccpVars, propVars, ExecInv
<1>2. PICK e \in [prog.params -> Data] :
        env' = [s \in Slots |-> IF s \in prog.params THEN e[s] ELSE Unset]
  BY DEF ReplaceAndStart
<1>3. /\ CCPTypeOK /\ WellFormed(prog) /\ prog.entry \in prog.blocks
      /\ prog.rest[prog.entry] \in Seq(Insts(prog)) /\ prog.rest[prog.entry] # << >>
      /\ prog.phis[prog.entry] = << >>
  BY ProgIsWellFormed, ProgShape, ValuesShape DEF CCPInv, CCPTypeOK
<1>4. Slots' = Slots /\ prog.params \subseteq Slots
  BY <1>1 DEF Slots, Insts
<1>5. env' \in [Slots -> Data \cup {Unset}] /\ \A p \in prog.params : env'[p] # Unset
  BY <1>2, <1>4 DEF Unset, Data
<1>6. \A s \in Slots : env'[s] # Unset => values[s] = Varying
  BY <1>2 DEF ReachInv, GivenIsKept
<1>7. at' \in simulated'
  <2>1. <<"entry", prog.entry>> \in edges
    BY DEF ReachInv, GivenIsKept
  <2> QED BY <1>1, <2>1, AtTheEnd
<1>8. LinesAreComputed'
  <2> DEFINE r == prog.rest[prog.entry]
  <2>1. r \in Seq(Insts(prog)) /\ r # << >> /\ Len(r) \in Nat /\ Len(r) > 0
    BY <1>3
  <2>2. Position' = 0
    <3>1. Position' = Len(r) - Len(r)
      BY <1>1 DEF Position
    <3> HIDE DEF r
    <3> QED BY <2>1, <3>1
  <2>3. (prog.rest[at])' = r /\ (prog.phis[at])' = << >> /\ rest' = r
    BY <1>1, <1>3
  <2>4. \A k \in DOMAIN r : r[k] = r[0 + k]
    <3> HIDE DEF r
    <3> QED BY <2>1
  <2>5. Elements(<< >>) = {}
    BY DEF Elements
  <2>6. Insts(prog)' = Insts(prog)
    BY <1>1
  <2>7. Position' \in 0 .. Len(r) - 1
    <3> HIDE DEF r
    <3> QED BY <2>1, <2>2
  <2> HIDE DEF r
  <2> QED BY <2>1, <2>2, <2>3, <2>4, <2>5, <2>6, <2>7 DEF LinesAreComputed
<1>9. DominatorsAreComputed'
  BY <1>1 DEF DominatorsAreComputed, Avoids
<1>10. ComputedAreKnown' /\ ValuesAreSound'
  BY <1>1, <1>4, <1>6, LatticeValues DEF ComputedAreKnown, ValuesAreSound
<1>11. out' = (IF changed THEN ReplaceValues ELSE prog)'
  BY <1>1 DEF ReplaceValues, Insts
<1> QED BY <1>1, <1>4, <1>5, <1>7, <1>8, <1>9, <1>10, <1>11 DEF ExecInv

\* More is computed, nowhere else: what has to be still is.
LEMMA DominatorsStay ==
  ASSUME CCPTypeOK, ExecInv, mode # "propagate", prog' = prog, at' = at,
         \A i \in Insts(prog) : IsComputed(i) => IsComputed(i)'
  PROVE  DominatorsAreComputed'
<1>1. DominatorsAreComputed
  BY DEF ExecInv
<1> SUFFICES ASSUME NEW a \in prog.blocks, NEW i \in Elements(Lines(prog, a)), ~(IsComputed(i)'),
                    NEW S \in SUBSET prog.blocks, Avoids(prog, a, S)
             PROVE  at \in S \cup {a}
  <2>1. (\A a \in prog.blocks :
           (\E i \in Elements(Lines(prog, a)) : ~IsComputed(i)) =>
             \A S \in SUBSET prog.blocks : Avoids(prog, a, S) => at \in S \cup {a})'
        <=> \A a \in prog.blocks :
              (\E i \in Elements(Lines(prog, a)) : ~(IsComputed(i)')) =>
                \A S \in SUBSET prog.blocks : Avoids(prog, a, S) => at \in S \cup {a}
    BY DEF Lines, Avoids
  <2> QED BY <2>1 DEF DominatorsAreComputed
<1>2. ~IsComputed(i)
  BY LinesOfBlock
<1> QED BY <1>1, <1>2 DEF DominatorsAreComputed

\* An instruction is computed by both functions.
LEMMA InstKeepsExec ==
  ASSUME CCPInv, FixpointInv, ReachInv, ExecInv, NoneDeclines, ExecInst
  PROVE  ExecInv'
<1> SUFFICES ASSUME NEW i, i = Head(rest) PROVE ExecInv'
  OBVIOUS
<1>1. /\ prog' = prog /\ values' = values /\ edges' = edges /\ simulated' = simulated
      /\ changed' = changed /\ pc' = pc /\ mode = "run" /\ mode' = "run" /\ out' = out
      /\ at' = at /\ taken' = taken /\ rest' = Tail(rest) /\ ~IsBlockTerminator(prog, i)
  BY DEF ExecInst, ccpVars, propVars
<1>2. /\ CCPTypeOK /\ i \in Insts(prog) /\ at \in prog.blocks /\ Op(i) # "phi" /\ pc = "done"
      /\ at \in simulated /\ i \in Elements(Lines(prog, at)) /\ prog.blockOf[i] = at
  BY <1>1, Here DEF CCPInv, ExecInv
<1>3. OperandsKnown(i) /\ UpToDate(i) /\ Op(i) # "sin16"
  <2>1. UpToDate(i)
    BY <1>2, AtTheEnd
  <2>2. OperandsKnown(i)
    BY <1>1, <1>2, OperandsAreHeld, HeldAreKnown
  <2> QED BY <1>2, <2>1, <2>2 DEF NoneDeclines, Op, CCPTypeOK
<1>4. /\ env \in [Slots -> Data \cup {Unset}] /\ envOut = env /\ i \in Slots
      /\ \A p \in prog.params : env[p] # Unset
  BY <1>1, <1>2 DEF ExecInv, Slots
<1>5. \/ YieldsValue(i) /\ \E x \in Data :
           /\ env' = [env EXCEPT ![i] = x] /\ envOut' = [env EXCEPT ![i] = x]
           /\ values[i] # Undef /\ (values[i] \in Consts => x = Meaning(values[i]))
      \/ ~YieldsValue(i) /\ env' = env /\ envOut' = env
  <2>1. CASE YieldsValue(i)
    <3>1. Computes(i)
      BY <1>2, <2>1 DEF Computes
    <3>2. PICK v \in Data : /\ env' = [env EXCEPT ![i] = Compute(prog, env, i, v)]
                              /\ envOut' = [envOut EXCEPT ![i] = Compute(out, envOut, i, v)]
      <4>1. \E v \in IF Op(i) = "opaque" THEN Given(i) ELSE {0} :
              /\ env' = [env EXCEPT ![i] = Compute(prog, env, i, v)]
              /\ envOut' = [envOut EXCEPT ![i] = Compute(out, envOut, i, v)]
        BY <2>1 DEF ExecInst, YieldsValue
      <4>2. (IF Op(i) = "opaque" THEN Given(i) ELSE {0}) \subseteq Data
        BY DEF Given, Data
      <4> QED BY <4>1, <4>2
    <3>3. /\ Compute(prog, env, i, v) \in Data
          /\ Compute(out, envOut, i, v) = Compute(prog, env, i, v)
      BY <1>1, <1>2, <1>3, <3>1, ComputesTheSame
    <3>4. values[i] # Undef /\ (values[i] \in Consts => Compute(prog, env, i, v) = Meaning(values[i]))
      BY <1>2, <1>3, <3>1, ComputedIsKnown DEF ReachInv
    <3> QED BY <1>4, <2>1, <3>2, <3>3, <3>4
  <2>2. CASE ~YieldsValue(i)
    <3>1. UNCHANGED <<env, envOut>>
      BY <2>2 DEF ExecInst, YieldsValue
    <3> QED BY <1>4, <2>2, <3>1
  <2> QED BY <2>1, <2>2
<1>6. /\ env' \in [Slots -> Data \cup {Unset}] /\ env' = envOut'
      /\ \A s \in Slots \ {i} : env'[s] = env[s]
      /\ env'[i] = env[i] \/ (env'[i] # Unset /\ values[i] # Undef
                              /\ (values[i] \in Consts => env'[i] = Meaning(values[i])))
      /\ YieldsValue(i) => env'[i] # Unset
  <2>1. Unset \notin Data
    BY DEF Unset, Data
  <2>2. CASE ~YieldsValue(i)
    BY <1>4, <1>5, <2>2
  <2>3. CASE YieldsValue(i)
    <3>1. PICK x \in Data : /\ env' = [env EXCEPT ![i] = x] /\ envOut' = [env EXCEPT ![i] = x]
                              /\ values[i] # Undef /\ (values[i] \in Consts => x = Meaning(values[i]))
      BY <1>5, <2>3
    <3>2. env'[i] = x /\ \A s \in Slots \ {i} : env'[s] = env[s]
      BY <1>4, <3>1
    <3>3. env' \in [Slots -> Data \cup {Unset}]
      BY <1>4, <3>1
    <3> QED BY <2>1, <3>1, <3>2, <3>3
  <2> QED BY <2>2, <2>3
<1>7. Slots' = Slots /\ \A j : (YieldsValue(j)' <=> YieldsValue(j))
  BY <1>1 DEF Slots, Insts, YieldsValue, HasResult, IsBlockTerminator, IsBranch, Op
<1>8. /\ \A j \in Insts(prog) : IsComputed(j) => IsComputed(j)'
      /\ IsComputed(i)'
  <2>1. Insts(prog) \subseteq Slots
    BY DEF Slots
  <2>2. \A j \in Insts(prog) : IsComputed(j) => IsComputed(j)'
    <3> SUFFICES ASSUME NEW j \in Insts(prog), IsComputed(j), YieldsValue(j)
                 PROVE  env'[j] # Unset
      BY <1>7 DEF IsComputed
    <3> QED BY <1>6, <2>1 DEF IsComputed
  <2>3. IsComputed(i)'
    BY <1>6, <1>7 DEF IsComputed
  <2> QED BY <2>2, <2>3
<1>9. ComputedAreKnown' /\ ValuesAreSound'
  <2>1. ComputedAreKnown /\ ValuesAreSound
    BY <1>1 DEF ExecInv
  <2>2. \A s \in Slots : env'[s] # Unset => values[s] # Undef /\ (values[s] \in Consts => env'[s] = Meaning(values[s]))
    BY <1>6, <2>1 DEF ComputedAreKnown, ValuesAreSound
  <2> QED BY <1>1, <1>7, <2>2 DEF ComputedAreKnown, ValuesAreSound
<1>10. DominatorsAreComputed'
  BY <1>1, <1>2, <1>8, DominatorsStay
<1>11. LinesAreComputed'
  <2> SUFFICES ASSUME NEW r, r = prog.rest[at], NEW n, n = Position PROVE LinesAreComputed'
    OBVIOUS
  <2>1. /\ r \in Seq(Insts(prog)) /\ rest \in Seq(Insts(prog)) /\ rest # << >> /\ n \in 0 .. Len(r) - 1
        /\ i = r[n + 1] /\ Len(rest) \in Nat /\ Len(r) \in Nat
    BY <1>1, Here
  <2>2. /\ \A k \in DOMAIN rest : rest[k] = r[n + k]
        /\ \A j \in Elements(prog.phis[at]) : IsComputed(j)
        /\ \A k \in 1 .. n : IsComputed(r[k])
    BY <1>1 DEF ExecInv, LinesAreComputed
  <2>3. i # r[Len(r)]
    <3>1. InSSAForm(prog)
      BY <1>2, SSAShape
    <3>2. i # Terminator(prog, at)
      BY <1>1, <1>2, <3>1 DEF InSSAForm
    <3> QED BY <3>2 DEF Terminator
  <2>4. n = Len(r) - Len(rest)
    BY DEF Position
  <2>5. Position' = n + 1
    <3>1. Position' = Len(r) - Len(Tail(rest))
      BY <1>1 DEF Position
    <3> QED BY <2>1, <2>4, <3>1
  <2>6. \A j \in Elements(prog.phis[at]) : IsComputed(j)'
    <3>1. Elements(prog.phis[at]) \subseteq Insts(prog)
      BY <1>2, LinesOfBlock
    <3> QED BY <1>8, <2>2, <3>1
  <2>7. (prog.rest[at])' = r /\ (prog.phis[at])' = prog.phis[at] /\ Insts(prog)' = Insts(prog)
    BY <1>1
  <2>8. n + 1 \in 0 .. Len(r) - 1
    BY <2>1, <2>3
  <2>9. \A k \in DOMAIN Tail(rest) : Tail(rest)[k] = r[n + 1 + k]
    <3> TAKE k \in DOMAIN Tail(rest)
    <3>1. Tail(rest)[k] = rest[k + 1] /\ k + 1 \in DOMAIN rest /\ k \in Nat
      BY <2>1
    <3>2. rest[k + 1] = r[n + (k + 1)]
      BY <2>2, <3>1
    <3>3. n + (k + 1) = n + 1 + k
      BY <2>1, <3>1
    <3> QED BY <3>1, <3>2, <3>3
  <2>10. \A k \in 1 .. n + 1 : IsComputed(r[k])'
    <3>1. \A k \in 1 .. n : r[k] \in Insts(prog)
      BY <2>1
    <3>2. \A k \in 1 .. n + 1 : k \in 1 .. n \/ k = n + 1
      BY <2>1
    <3> QED BY <1>8, <2>1, <2>2, <3>1, <3>2
  <2>11. Tail(rest) \in Seq(Insts(prog))
    BY <2>1
  <2> QED BY <1>1, <2>5, <2>6, <2>7, <2>8, <2>9, <2>10, <2>11 DEF LinesAreComputed
<1>12. out' = (IF changed THEN ReplaceValues ELSE prog)'
  <2>1. out = IF changed THEN ReplaceValues ELSE prog
    BY <1>1 DEF ExecInv
  <2> QED BY <1>1, <2>1 DEF ReplaceValues, Insts
<1>13. \A p \in prog.params : env'[p] # Unset
  BY <1>4, <1>6 DEF Slots
<1>14. at' \in simulated' /\ taken' \subseteq edges'
  BY <1>1 DEF ExecInv
<1> QED BY <1>1, <1>2, <1>6, <1>7, <1>9, <1>10, <1>11, <1>12, <1>13, <1>14 DEF ExecInv

\* Where a dominator would have to be, after a branch.
LEMMA DominatorsAfterBranch ==
  ASSUME CCPInv, ExecInv, mode # "propagate", prog' = prog, IsBlockTerminator(prog, Head(rest)),
         NEW b \in prog.blocks, b \in Elements(Successors(prog, at)), at' = b,
         \A i \in Insts(prog) : IsComputed(i) => IsComputed(i)'
  PROVE  DominatorsAreComputed'
<1>1. DominatorsAreComputed /\ at \in prog.blocks /\ CCPTypeOK /\ Exit \notin prog.blocks
  BY Here, ProgShape DEF ExecInv, CCPInv
<1> SUFFICES ASSUME NEW a \in prog.blocks, NEW i \in Elements(Lines(prog, a)), ~(IsComputed(i)'),
                    NEW S \in SUBSET prog.blocks, Avoids(prog, a, S)
             PROVE  b \in S \cup {a}
  <2>1. (\A a \in prog.blocks :
           (\E i \in Elements(Lines(prog, a)) : ~IsComputed(i)) =>
             \A S \in SUBSET prog.blocks : Avoids(prog, a, S) => at \in S \cup {a})'
        <=> \A a \in prog.blocks :
              (\E i \in Elements(Lines(prog, a)) : ~(IsComputed(i)')) =>
                \A S \in SUBSET prog.blocks : Avoids(prog, a, S) => b \in S \cup {a}
    BY DEF Lines, Avoids
  <2> QED BY <2>1 DEF DominatorsAreComputed
<1>2. ~IsComputed(i)
  BY <1>1, LinesOfBlock
<1>3. at \in S \cup {a}
  BY <1>1, <1>2 DEF DominatorsAreComputed
<1>4. at # a
  BY <1>2, AtTheTerminator
<1> QED BY <1>1, <1>3, <1>4 DEF Avoids

\* A branch takes both functions over the same edge and through the same phis.
LEMMA BranchKeepsExec ==
  ASSUME CCPInv, FixpointInv, ReachInv, ExecInv, OneWordSwitches, ExecBranch
  PROVE  ExecInv'
<1> SUFFICES ASSUME NEW b, b = Target(prog, env, Head(rest)) PROVE ExecInv'
  OBVIOUS
<1>1. /\ prog' = prog /\ values' = values /\ edges' = edges /\ simulated' = simulated
      /\ changed' = changed /\ pc' = pc /\ mode = "run" /\ mode' = "run" /\ out' = out
      /\ at' = b /\ taken' = taken \cup {<<at, b>>} /\ rest' = prog.rest[b]
      /\ env' = PhisApplied(prog, env, at, b) /\ envOut' = PhisApplied(out, envOut, at, b)
      /\ IsBranch(prog, Head(rest)) /\ IsBlockTerminator(prog, Head(rest))
  BY DEF ExecBranch, ccpVars, propVars, IsBlockTerminator
<1>2. /\ b \in prog.blocks /\ b \in Elements(Successors(prog, at))
      /\ <<at, b>> \in edges /\ b \in simulated
  BY <1>1, EdgeWasFound
<1>3. /\ CCPTypeOK /\ pc = "done" /\ env \in [Slots -> Data \cup {Unset}] /\ envOut = env
      /\ (\A p \in prog.params : env[p] # Unset) /\ ComputedAreKnown /\ ValuesAreSound
      /\ taken \subseteq edges
  BY <1>1 DEF ExecInv, CCPInv
<1>4. Slots' = Slots /\ \A j : (YieldsValue(j)' <=> YieldsValue(j))
  BY <1>1 DEF Slots, Insts, YieldsValue, HasResult, IsBlockTerminator, IsBranch, Op
<1> DEFINE x(s) == Read(env, prog.inst[s].args[EntryArgument(s)])
<1>5. \A s \in Elements(prog.phis[b]) :
        /\ x(s) \in Data /\ Read(envOut, out.inst[s].args[EntryArgument(s)]) = x(s)
        /\ values[s] # Undef /\ (values[s] \in Consts => x(s) = Meaning(values[s]))
  BY <1>1, <1>2, PhiIsKnown
<1>6. env' = [s \in Slots |-> IF s \in Elements(prog.phis[b]) THEN x(s) ELSE env[s]]
  BY <1>1 DEF PhisApplied, EntryArgument
<1>7. /\ Elements(prog.phis[b]) \subseteq Insts(prog)
      /\ \A s \in Elements(prog.phis[b]) : Op(s) = "phi"
  BY <1>2, <1>3, LinesOfBlock
<1>8. envOut' = env'
  <2>1. out.phis = prog.phis /\ \A s \in Insts(prog) : out.inst[s].labels = prog.inst[s].labels
    BY <1>1, <1>3, OutShape
  <2>2. \A s \in Elements(prog.phis[b]) :
          Read(envOut, out.inst[s].args[CHOOSE k \in DOMAIN out.inst[s].labels :
                                          out.inst[s].labels[k] = at]) = x(s)
    <3> HIDE DEF x
    <3> TAKE s \in Elements(prog.phis[b])
    <3>1. out.inst[s].labels = prog.inst[s].labels
      BY <1>7, <2>1
    <3> QED BY <1>5, <3>1 DEF EntryArgument
  <2> HIDE DEF x
  <2>3. PhisApplied(out, envOut, at, b)
          = [s \in Slots |-> IF s \in Elements(prog.phis[b]) THEN x(s) ELSE env[s]]
    BY <1>3, <2>1, <2>2 DEF PhisApplied
  <2> QED BY <1>1, <1>6, <2>3
<1> HIDE DEF x
<1>9. Unset \notin Data /\ Insts(prog) \subseteq Slots /\ prog.params \subseteq Slots
  BY DEF Unset, Data, Slots
<1>10. /\ env' \in [Slots -> Data \cup {Unset}]
       /\ \A s \in Slots : env[s] # Unset => env'[s] # Unset
       /\ \A s \in Elements(prog.phis[b]) : env'[s] # Unset
  BY <1>3, <1>5, <1>6, <1>7, <1>9
<1>11. \A s \in Slots : env'[s] # Unset =>
         values[s] # Undef /\ (values[s] \in Consts => env'[s] = Meaning(values[s]))
  BY <1>3, <1>5, <1>6 DEF ComputedAreKnown, ValuesAreSound
<1>12. ComputedAreKnown' /\ ValuesAreSound'
  BY <1>1, <1>4, <1>11 DEF ComputedAreKnown, ValuesAreSound
<1>13. \A j \in Insts(prog) : IsComputed(j) => IsComputed(j)'
  BY <1>4, <1>9, <1>10 DEF IsComputed
<1>14. DominatorsAreComputed'
  BY <1>1, <1>2, <1>13, DominatorsAfterBranch
<1>15. LinesAreComputed'
  <2> SUFFICES ASSUME NEW r, r = prog.rest[b] PROVE LinesAreComputed'
    OBVIOUS
  <2>1. r \in Seq(Insts(prog)) /\ r # << >> /\ Len(r) \in Nat /\ Len(r) > 0
    BY <1>2, <1>3, ProgShape
  <2>2. Position' = 0
    <3>1. Position' = Len(r) - Len(r)
      BY <1>1 DEF Position
    <3> QED BY <2>1, <3>1
  <2>3. (prog.rest[at])' = r /\ (prog.phis[at])' = prog.phis[b] /\ rest' = r /\ Insts(prog)' = Insts(prog)
    BY <1>1
  <2>4. \A k \in DOMAIN r : r[k] = r[0 + k]
    BY <2>1
  <2>5. Position' \in 0 .. Len(r) - 1
    BY <2>1, <2>2
  <2>6. \A j \in Elements(prog.phis[b]) : IsComputed(j)'
    BY <1>10 DEF IsComputed
  <2> QED BY <2>1, <2>2, <2>3, <2>4, <2>5, <2>6 DEF LinesAreComputed
<1>16. out' = (IF changed THEN ReplaceValues ELSE prog)'
  <2>1. out = IF changed THEN ReplaceValues ELSE prog
    BY <1>1 DEF ExecInv
  <2> QED BY <1>1, <2>1 DEF ReplaceValues, Insts
<1>17. \A p \in prog.params : env'[p] # Unset
  BY <1>3, <1>9, <1>10
<1> QED BY <1>1, <1>2, <1>3, <1>4, <1>8, <1>10, <1>12, <1>14, <1>15, <1>16, <1>17 DEF ExecInv

\* The propagation leaves the execution alone, and is over when that runs.
LEMMA PropagationKeepsExec ==
  ASSUME ExecInv, CCPNext, UNCHANGED execVars
  PROVE  ExecInv'
<1>1. pc # "done" /\ prog' = prog
  BY DEF CCPNext, StartBlock, SimulateBlockInst, SimulateInBlock, FinishBlock, SimulateUser,
         SimulateUse, Finish
<1>2. mode = "propagate" /\ UNCHANGED <<mode, at, taken, env>>
  BY <1>1 DEF ExecInv, execVars
<1> QED BY <1>1, <1>2 DEF ExecInv, Slots, Insts

\* A step that changes at most the mode, once the execution is on.
LEMMA IdleKeepsExec ==
  ASSUME ExecInv, UNCHANGED <<ccpVars, out, at, rest, env, envOut, taken>>,
         mode' = mode \/ (mode = "run" /\ mode' = "stop")
  PROVE  ExecInv'
<1>1. /\ prog' = prog /\ values' = values /\ edges' = edges /\ simulated' = simulated
      /\ changed' = changed /\ pc' = pc /\ out' = out /\ at' = at /\ rest' = rest
      /\ env' = env /\ envOut' = envOut /\ taken' = taken
  BY DEF ccpVars, propVars
<1>2. /\ LinesAreComputed' <=> LinesAreComputed
      /\ DominatorsAreComputed' <=> DominatorsAreComputed
      /\ ComputedAreKnown' <=> ComputedAreKnown
      /\ ValuesAreSound' <=> ValuesAreSound
  BY <1>1 DEF LinesAreComputed, DominatorsAreComputed, ComputedAreKnown, ValuesAreSound, Position,
              IsComputed, YieldsValue, Slots, Op
<1>3. Slots' = Slots /\ (IF changed THEN ReplaceValues ELSE prog)' = IF changed THEN ReplaceValues ELSE prog
  BY <1>1 DEF Slots, ReplaceValues
<1> QED BY <1>1, <1>2, <1>3 DEF ExecInv
-----------------------------------------------------------------------------
\* The execution's invariant begins true, and every step keeps it.
LEMMA InitExec == ExecInit => ExecInv
BY DEF ExecInit, ExecInv

\* Every step: one case for each action.
LEMMA NextExec ==
  ASSUME CCPInv, FixpointInv, ReachInv, ExecInv, NoneDeclines, OneWordSwitches,
         [ExecNext]_allVars
  PROVE  ExecInv'
<1>1. CASE CCPNext /\ UNCHANGED execVars
  BY <1>1, PropagationKeepsExec
<1>2. CASE ReplaceAndStart
  BY <1>2, StartKeepsExec
<1>3. CASE ExecInst
  BY <1>3, InstKeepsExec
<1>4. CASE ExecBranch
  BY <1>4, BranchKeepsExec
<1>5. CASE ExecReturn
  BY <1>5, IdleKeepsExec DEF ExecReturn
<1>6. CASE UNCHANGED allVars
  BY <1>6, IdleKeepsExec DEF allVars, execVars
<1> QED BY <1>1, <1>2, <1>3, <1>4, <1>5, <1>6 DEF ExecNext

\* The execution leaves the propagation alone.
LEMMA ExecutionIsIdle == [ExecNext]_allVars => [CCPNext]_ccpVars
BY DEF ExecNext, ReplaceAndStart, ExecInst, ExecBranch, ExecReturn, allVars

\* The propagation's invariants and the execution's.
AllInv == CCPInv /\ FixpointInv /\ ReachInv /\ ExecInv

\* While the function is executed beside its rewritten form, both are at the
\* same place of a visited block, with the same values; everything computed on
\* the way is known to the pass for what it is; and a block that was not executed
\* to its end is on no way to where the execution is.  As for what follows from
\* it, no folding declines and no switch is on a 64-bit value.
THEOREM ExecutionInvariant ==
  ASSUME NoneDeclines, OneWordSwitches
  PROVE  ExecSpec => []AllInv
<1>1. ExecInit => AllInv
  BY InitInv, InitFixpoint, InitReach, InitExec DEF ExecInit, AllInv
<1>2. AllInv /\ [ExecNext]_allVars => AllInv'
  <2> SUFFICES ASSUME AllInv, [ExecNext]_allVars PROVE AllInv'
    OBVIOUS
  <2>1. [CCPNext]_ccpVars
    BY ExecutionIsIdle
  <2> QED BY <2>1, NextInv, NextFixpoint, NextReach, NextExec DEF AllInv
<1> QED BY <1>1, <1>2, PTL DEF ExecSpec

\* A value that values_ holds for an id is what every execution computes for it,
\* where no folding declines and no switch is on a 64-bit value.
THEOREM KnownValuesAreRight ==
  ASSUME NoneDeclines, OneWordSwitches
  PROVE  ExecSpec => []ValuesAreSound
<1>1. AllInv => ValuesAreSound
  BY DEF AllInv, ExecInv, ValuesAreSound
<1> QED BY <1>1, ExecutionInvariant, PTL

\* An execution takes only edges in executable_edges_: what the propagation never
\* simulated never runs, where no folding declines and no switch is on a 64-bit
\* value.
THEOREM NothingElseRuns ==
  ASSUME NoneDeclines, OneWordSwitches
  PROVE  ExecSpec => []ExecutedWasSimulated
<1>1. AllInv => ExecutedWasSimulated
  BY DEF AllInv, ExecInv, ExecutedWasSimulated
<1> QED BY <1>1, ExecutionInvariant, PTL

\* The pass is correct, where no folding declines and no switch is on a 64-bit
\* value: the function that ReplaceValues leaves computes what the one before it
\* does and takes every branch alike.
THEOREM MeaningIsKept ==
  ASSUME NoneDeclines, OneWordSwitches
  PROVE  ExecSpec => []SameExecution
<1>1. AllInv => SameExecution
  <2> SUFFICES ASSUME AllInv, mode # "propagate" PROVE SameExecution
    BY DEF SameExecution
  <2>1. env = envOut
    BY DEF AllInv, ExecInv
  <2>2. IsBranch(prog, Head(rest)) => Target(prog, env, Head(rest)) = Target(out, envOut, Head(rest))
    BY EdgeWasFound DEF AllInv
  <2> QED BY <2>1, <2>2 DEF SameExecution
<1> QED BY <1>1, ExecutionInvariant, PTL
=============================================================================

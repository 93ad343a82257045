---------------------------- MODULE MCDivergence ----------------------------
(* Every function of four blocks, up to the names of the blocks, larger ones *)
(* whose loops have two entries or a switch, and shaders with branches, loops*)
(* and phis on every choice of their loads.  The entry is no branch's target.*)
EXTENDS DivergenceExecution

Targets == 2 .. 4
Terminators ==
  {<< >>} \cup {<<t>> : t \in Targets} \cup {s \in Targets \X Targets : s[1] # s[2]}

\* The branches name the blocks for the first time in their order.
InOrder(f) ==
  LET named == FlattenSeq(f)
  IN  \A k \in DOMAIN named : \A t \in 2 .. named[k] - 1 : \E j \in 1 .. k - 1 : named[j] = t
Small == {f \in [1 .. 4 -> Terminators] : InOrder(f)}

\* A ladder of blocks joined both ways and entered at both ends, and a loop
\* with two entries below a third path: one pass is not enough for either.
Ladder == << <<2, 3>>, <<4>>, <<5, 6>>, <<5>>, <<4, 6>>, <<5>> >>
Tower == << <<2, 3>>, <<4, 7>>, <<5>>, <<5>>, <<4, 6>>, <<5, 7>>, << >> >>

\* A loop with a switch that names a target twice, falls through and leaves it.
Switch == << <<2>>, <<3, 4, 3, 5>>, <<4>>, <<2>>, << >> >>

Kinds == {"uniform", "flat", "divergent"}
Instr(id, op, args) == [id |-> id, op |-> op, args |-> args]
Constant == 100

\* All conditions are one divergent load of the entry.
Plain(f) ==
  [succs |-> f, analyses |-> {"dominators", "post_dominators", "validator", "validator_post"},
   body |-> [b \in DOMAIN f |-> IF b = 1 THEN <<Instr(101, "divergent", << >>)>> ELSE << >>],
   cond |-> [b \in {c \in DOMAIN f : Len(f[c]) > 1} |-> 101]]

\* An if inside an if, with a value that says which way was taken.
Nested(outer, inner) ==
  [succs |-> << <<2, 5>>, <<3, 4>>, <<4>>, <<5>>, << >> >>, analyses |-> {"post_dominators"},
   body |-> << <<Instr(101, outer, << >>), Instr(102, inner, << >>)>>, << >>, << >>,
               <<Instr(103, "phi", <<Constant, 2, 101, 3>>)>>,
               <<Instr(104, "phi", <<Constant, 1, 103, 4>>)>> >>,
   cond |-> (1 :> 101) @@ (2 :> 102)]

\* An if and else with work after it.
Diamond(kind) ==
  [succs |-> << <<2, 3>>, <<4>>, <<5>>, <<5>>, << >> >>, analyses |-> {"post_dominators"},
   body |-> << <<Instr(101, kind, << >>)>>, << >>, <<Instr(102, "uniform", << >>)>>, << >>,
               <<Instr(103, "phi", <<Constant, 4, 102, 3>>)>> >>,
   cond |-> 1 :> 101]

\* A loop whose variable decides when it ends, either operand of its phi first.
Counted(first, step, latch) ==
  [succs |-> << <<2>>, <<3, 4>>, <<2>>, << >> >>, analyses |-> {"post_dominators"},
   body |-> << <<Instr(101, first, << >>)>>,
               <<Instr(102, "phi", IF latch THEN <<104, 3, 101, 1>> ELSE <<101, 1, 104, 3>>)>>,
               <<Instr(103, step, << >>), Instr(104, "alu", <<102, 103>>)>>,
               <<Instr(105, "alu", <<102>>)>> >>,
   cond |-> 2 :> 102]

\* A loop with an if on a value of the iteration before.
Carried(kind) ==
  [succs |-> << <<2>>, <<3, 6>>, <<4, 5>>, <<5>>, <<2>>, << >> >>, analyses |-> {"post_dominators"},
   body |-> << <<Instr(101, "uniform", << >>)>>, <<Instr(102, "phi", <<Constant, 1, 104, 5>>)>>,
               << >>, << >>,
               <<Instr(103, "phi", <<Constant, 3, 101, 4>>), Instr(104, kind, << >>)>>, << >> >>,
   cond |-> (2 :> 101) @@ (3 :> 102)]

Shaders ==
  {Nested(k, l) : k, l \in Kinds} \cup {Diamond(k) : k \in Kinds}
    \cup {Counted(k, l, o) : k, l \in Kinds, o \in BOOLEAN} \cup {Carried(k) : k \in Kinds}
AllPrograms == {Plain(f) : f \in Small \cup {Ladder, Tower, Switch}} \cup Shaders
FunctionsOf == {p.succs : p \in AllPrograms}
AllAnalyses == {"dominators", "post_dominators", "validator", "validator_post"}
=============================================================================

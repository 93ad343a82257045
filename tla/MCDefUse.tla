------------------------------ MODULE MCDefUse ------------------------------
(* Three instructions and three ids. Operands that repeat an id: replacing   *)
(* one id by another makes every pair out of them. Predicates that leave one *)
(* instruction out.                                                          *)
EXTENDS DefUse, TLC

MCOperands == {<< >>, <<1, 1>>}
MCPredicates == {Insts \ {i} : i \in Insts}
Addresses == Permutations(Insts)
=============================================================================

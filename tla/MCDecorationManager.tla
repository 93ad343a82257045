------------------------ MODULE MCDecorationManager ------------------------
(* Two ids to decorate and one or two groups, two decorations, addresses for *)
(* four annotations.                                                         *)
EXTENDS DecorationManager, TLC

Addresses == Permutations(Insts)
=============================================================================

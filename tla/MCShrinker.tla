----------------------------- MODULE MCShrinker -----------------------------
(* Up to five transformations. 3 needs 1, 5 needs 4, 6 only applies while 2  *)
(* has not; 4, 14 and 24 add a function in three sizes, of which the least   *)
(* does without what 5 needs. The module is invalid when 1 and 4 have been   *)
(* applied without 2.                                                        *)
EXTENDS Shrinker, FiniteSets

MCTransformations == {1, 2, 3, 4, 5, 6, 14, 24}
MCInputs == {<<1, 2, 3, 4, 5>>, <<4, 2, 1, 5, 3>>, <<6, 2, 4, 1>>, <<2, 1, 6>>, <<1, 2>>, << >>, <<4>>, <<1, 24, 3>>}
MCApplicable(t, s) ==
  CASE t = 3 -> 1 \in Elements(s)
    [] t = 5 -> Elements(s) \cap {4, 14} # {}
    [] t = 6 -> 2 \notin Elements(s)
    [] OTHER -> TRUE
MCValidAfter(s) == {1, 14} \subseteq Elements(s) => 2 \in Elements(s)
MCIsAddFunction(t) == t \in {4, 14, 24}
MCReducible(t) == t # 24
MCReduced(t) == CASE t = 4 -> {14, 24} [] t = 14 -> {24} [] OTHER -> {}

Names(s) == {IF t > 10 THEN 4 ELSE t : t \in Elements(s)}
\* A test looks for features in the binary, at its size, or for one feature
\* that must not be there without another.
MCTests ==
  {[keep |-> K, sizes |-> 0..5, pair |-> <<0, 0>>] : K \in {{}, {3}, {4}, {1, 5}, {2, 3}, {6}}}
    \cup {[keep |-> {}, sizes |-> S, pair |-> <<0, 0>>] : S \in {{1, 3, 5}, {0, 1, 2, 4, 5}}}
    \cup {[keep |-> {}, sizes |-> 0..5, pair |-> p] : p \in {<<1, 2>>, <<4, 1>>}}
MCInteresting(t, s) ==
  /\ t.keep \subseteq Names(s)
  /\ Len(s) \in t.sizes
  /\ t.pair[1] \in Names(s) => t.pair[2] \in Names(s)
=============================================================================

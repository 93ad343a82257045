---------------------------- MODULE Subsequences ----------------------------
(***************************************************************************)
(* Loops over a list.  Those that push some members of a list on a work    *)
(* list, in list order, are instances of AtPositions; those that push a    *)
(* list for each member, of Concatenated; those that transform a value by  *)
(* each member in turn, of RunOver.  They are recursive functions, not     *)
(* SelectSeq, FlattenSeq and FoldLeft, because the prover cannot unfold    *)
(* those.                                                                  *)
(***************************************************************************)
EXTENDS Integers, Sequences

\* The elements of s at the positions in K, in the order of s.
AtPositions(s, K) ==
  LET picked[n \in 0..Len(s)] ==
        IF n = 0 THEN << >>
        ELSE IF n \in K THEN Append(picked[n-1], s[n]) ELSE picked[n-1]
  IN  picked[Len(s)]

\* The sequences of ss, one after the other.
Concatenated(ss) ==
  LET all[n \in 0..Len(ss)] == IF n = 0 THEN << >> ELSE all[n-1] \o ss[n]
  IN  all[Len(ss)]

\* What is left of start after step[<<s[1], .>>], step[<<s[2], .>>] and so on.
RunOver(step, start, s) ==
  LET after[n \in 0..Len(s)] ==
        IF n = 0 THEN start ELSE step[<<s[n], after[n-1]>>]
  IN  after[Len(s)]

\* The elements of a sequence.
Elements(s) == {s[k] : k \in DOMAIN s}
=============================================================================

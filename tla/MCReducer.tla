----------------------------- MODULE MCReducer -----------------------------
(***************************************************************************)
(* Binaries are sets of items.  The first pass removes items that no other *)
(* item uses, one item each; the second replaces an item and its user at   *)
(* once, so that two of its opportunities may exclude each other; cleanup  *)
(* removes an item the passes leave alone.                                 *)
(***************************************************************************)
EXTENDS Reducer, FiniteSets, SequencesExt

Items == 1..4
MCBinaries == SUBSET Items
MCMain == <<"unused", "pairs">>
MCCleanup == <<"cleanup">>

\* item i is used by item i + 1
MCOpportunities == {[pass |-> p, item |-> i] : p \in {"unused", "pairs", "cleanup"}, i \in Items}

MCPreconditionHolds(o, b) ==
  CASE o.pass = "unused" -> o.item \in b \ {1} /\ o.item + 1 \notin b
    [] o.pass = "pairs" -> {o.item, o.item + 1} \subseteq b /\ o.item # 4
    [] o.pass = "cleanup" -> o.item = 1 /\ 1 \in b

MCApply(o, b) == IF o.pass = "pairs" THEN b \ {o.item + 1} ELSE b \ {o.item}

MCAvailable(p, b) ==
  SelectSeq([i \in Items |-> [pass |-> p, item |-> i]], LAMBDA o : MCPreconditionHolds(o, b))

\* Interesting: the binaries that keep some items, or an even number of them.
\* Valid: all, or the downward closed ones, or those without a hole.
Keeping(s) == {b \in MCBinaries : s \subseteq b}
Even == {b \in MCBinaries : Cardinality(b) % 2 = 0}
NoHole == {b \in MCBinaries : \A i, j \in b : \A k \in i..j : k \in b}

MCTests == [valid : {MCBinaries, NoHole, Keeping({1})},
            interesting : {Keeping(s) : s \in {{}, {2}, {3, 4}}} \cup {Even},
            failOnError : BOOLEAN]
=============================================================================

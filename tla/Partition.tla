----------------------------- MODULE Partition -----------------------------
(***************************************************************************)
(* What an equivalence relation promises its clients: a partition of the   *)
(* values it knows, in which a new value is alone and two classes are      *)
(* merged when members of theirs are said to be equivalent.  Nothing a     *)
(* client may ask changes the partition.                                   *)
(***************************************************************************)
CONSTANT Values

VARIABLE classes     \* the set of equivalence classes

Known == UNION classes

PartitionInit == classes = {}

\* The class of v; of a value that is not known, the empty set.
ClassWith(v) == UNION {c \in classes : v \in c}

AddValue(v) ==
  /\ v \in Values \ Known
  /\ classes' = classes \cup {{v}}

Merge(v, w) ==
  /\ v \in Known /\ w \in Known
  /\ classes' = (classes \ {ClassWith(v), ClassWith(w)})
                  \cup {ClassWith(v) \cup ClassWith(w)}

PartitionNext ==
  \/ \E v \in Values : AddValue(v)
  \/ \E v, w \in Values : Merge(v, w)

PartitionSpec == PartitionInit /\ [][PartitionNext]_classes
=============================================================================

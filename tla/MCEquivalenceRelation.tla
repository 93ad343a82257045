---------------------- MODULE MCEquivalenceRelation ----------------------
(* Four values, the least that make a chain on which Find compresses twice. *)
(* No symmetry: one of the properties is a liveness property.               *)
EXTENDS EquivalenceRelation
=============================================================================

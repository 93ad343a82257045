--------------------------- MODULE MCCCPExecution ---------------------------
(* The propagation, followed by every execution of the function.  Of         *)
(* FaultPrograms one has an instruction that is foldable but whose folding   *)
(* declines, and a switch with a literal that shares its first word with     *)
(* another value.                                                            *)
EXTENDS CCPExecution, CCPPrograms

AllPrograms == Diamonds \cup Loops \cup Switches \cup WideSwitches({0, 2})
FaultPrograms == {HalfSineWideSwitch} \cup Switches
=============================================================================

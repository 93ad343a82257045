------------------------------- MODULE MCSSA -------------------------------
(* SSA construction, then every execution, over small functions.             *)
EXTENDS SSAExecution, SSAPrograms

AllPrograms == Small \cup Loops \cup {Swap}
Breaking == {BreakAfterLoop}
=============================================================================

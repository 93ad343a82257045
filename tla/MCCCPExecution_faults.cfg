SPECIFICATION ExecSpec
CONSTANTS
  Consts <- MCConsts
  Programs <- FaultPrograms
INVARIANT SameExecution
CHECK_DEADLOCK FALSE

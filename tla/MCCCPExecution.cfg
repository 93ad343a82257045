SPECIFICATION ExecSpec
CONSTANTS
  Consts <- MCConsts
  Programs <- AllPrograms
INVARIANTS
  NoLostUpdate
  ValuesAreSound
  ExecutedWasSimulated
  SameExecution
PROPERTIES
  ValuesOnlyDescend
  Terminates
CHECK_DEADLOCK FALSE

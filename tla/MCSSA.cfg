SPECIFICATION ExecSpec
CONSTANTS
  Programs <- AllPrograms
  Undef <- UndefId
INVARIANTS
  Settled
  LoadsReadTheSame
PROPERTY SSATerminates
CHECK_DEADLOCK FALSE

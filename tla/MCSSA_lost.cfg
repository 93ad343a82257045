SPECIFICATION ExecSpec
CONSTANTS
  Programs <- Breaking
  Undef <- UndefId
INVARIANT LoadsReadTheSame
CHECK_DEADLOCK FALSE

SPECIFICATION Spec
CONSTANTS
  Binaries <- MCBinaries
  Opportunities <- MCOpportunities
  MainPasses <- MCMain
  CleanupPasses <- MCCleanup
  Available <- MCAvailable
  PreconditionHolds <- MCPreconditionHolds
  Apply <- MCApply
  MaxUint32 = 9
  Tests <- MCTests
  Limits = {0, 1, 2, 5, 100}
  NoResult = NoResult
INVARIANTS
  CompleteIsOneMinimal
  OvershootIsBounded
PROPERTIES
  Terminates
  Implements
CHECK_DEADLOCK FALSE

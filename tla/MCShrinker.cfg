SPECIFICATION Spec
CONSTANTS
  Transformations <- MCTransformations
  Inputs <- MCInputs
  Applicable <- MCApplicable
  ValidAfter <- MCValidAfter
  Tests <- MCTests
  Interesting <- MCInteresting
  StepLimits = {0, 1, 3, 5, 30}
  Validations = {TRUE, FALSE}
  IsAddFunction <- MCIsAddFunction
  Reducible <- MCReducible
  Reduced <- MCReduced
  Overshoot = 1
  NoStatus = NoStatus
INVARIANTS
  ChunksExist
  BestIsReproducible
  BestIsOneMinimal
PROPERTIES
  Terminates
CHECK_DEADLOCK FALSE

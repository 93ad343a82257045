SPECIFICATION DivSpec
CONSTANTS
  Functions <- FunctionsOf
  Analyses <- AllAnalyses
  Programs <- AllPrograms
INVARIANTS
  DominatorsAreRight
  ControlDependencesAreRight
  NeverTooDivergent
  NonUniformityFlows
  UniformMeansUniform
PROPERTIES
  EstimatesOnlyClimb
  AnalysisEnds
CHECK_DEADLOCK FALSE

SPECIFICATION Spec
CONSTANT Values = {a, b, c, d}
INVARIANTS
  ChildrenMirrorParents
  OneRepresentative
  AnswersAreRight
PROPERTIES
  RepresentativesOnlyRetire
  Implements
  CallsReturn

SPECIFICATION FuzzSpec
CONSTANTS
  Insts = {i1, i2, i3}
  MaxId = 3
  NoId = NoId
  NoInst = NoInst
  Unseen = Unseen
  Operands <- MCOperands
  Predicates <- MCPredicates
SYMMETRY Addresses
INVARIANT UsersAreKnown

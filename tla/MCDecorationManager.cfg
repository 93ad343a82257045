SPECIFICATION Spec
CONSTANTS
  Insts = {i1, i2, i3, i4}
  Targets = {1, 2}
  Groups = {3}
  Decs = {d, e}
  Nothing = Nothing
SYMMETRY Addresses
INVARIANTS
  Tracked
  NoneNamesTheDead
  RemovesJustThose
  ClonesJustThose

SPECIFICATION Spec
CONSTANTS
  p1 = p1
  p2 = p2
  kEdit = kEdit
  kEdit2 = kEdit2
  kAdd = kAdd
  kCreate = kCreate
  NoKey = NoKey
  Runner = {p1, p2}
  Key = {kEdit, kEdit2}
  Legacy = {}
  Kind <- KindOf
  Saves <- SavesOf
  MaxSaves = 1
  LeaseTicks = 1
  FunctionTicks = 2
SYMMETRY Symmetry
INVARIANTS
  OneOperation

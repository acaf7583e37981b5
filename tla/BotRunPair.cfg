SPECIFICATION Spec
CONSTANTS
  p1 = p1
  p2 = p2
  kEdit = kEdit
  kEdit2 = kEdit2
  kAdd = kAdd
  kCreate = kCreate
  NoKey = NoKey
  Runner = {p1, p2}
  Key = {kCreate, kEdit}
  Legacy = {}
  Kind <- KindOf
  Saves <- SavesOf
  MaxSaves = 2
  LeaseTicks = 1
  FunctionTicks = 1
SYMMETRY Symmetry
INVARIANTS SentOnce SoleDriver

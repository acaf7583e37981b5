SPECIFICATION WritesSpec
CONSTANTS
  p1 = p1
  p2 = p2
  kEdit = kEdit
  kEdit2 = kEdit2
  kAdd = kAdd
  kCreate = kCreate
  NoKey = NoKey
  Runner = {p1, p2}
  Key = {kAdd, kEdit}
  Legacy = {kEdit}
  Kind <- KindOf
  Saves <- SavesOf
  MaxSaves = 2
  LeaseTicks = 2
  FunctionTicks = 3
  Order = {1, 2}
  Made = 1
  Foreign = {}
  SameNumber <- SameNumbers
  Rebuilt <- RebuiltAs
  Ticket = 1
  LinkSync = {sync1, sync2}
  Finder = {finder1}
  MaxChanges = 2
CHECK_DEADLOCK FALSE
INVARIANTS TypeOK LedgerTrue
PROPERTIES WritesOnce LinksSettle

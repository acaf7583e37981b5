SPECIFICATION Spec
CONSTANTS
  d1 = d1
  d2 = d2
  s1 = s1
  s2 = s2
  four = four
  five = five
  Messages = 2
  Reading = {four}
  Delivery = {d1}
  Sync = {s1}
  Retries = 1
  OldTicks = 2
  FunctionTicks = 1
  Deaths = 0
  Flips = 0
SYMMETRY Symmetry
INVARIANTS ReadAsOne

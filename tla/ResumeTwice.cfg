SPECIFICATION Spec
CONSTANTS
  intake = intake
  s1 = s1
  s2 = s2
  Operations = 1
  Creates = {1}
  Intake = intake
  Sweep = {s1, s2}
  Tries = 2
  StillTicks = 3
  FunctionTicks = 1
  Deaths = 0
SYMMETRY Symmetry
INVARIANTS MadeOnce

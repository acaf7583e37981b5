SPECIFICATION Spec
CONSTANTS
  intake = intake
  s1 = s1
  s2 = s2
  Operations = 2
  Creates = {}
  Intake = intake
  Sweep = {s1}
  Tries = 2
  StillTicks = 3
  FunctionTicks = 1
  Deaths = 1
INVARIANTS RecordHoldsWhatWasMade

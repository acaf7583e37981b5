SPECIFICATION TimeSpec
CONSTANTS
  Hour = 2
  Spring = 98
  Autumn = 242
  AskedDays = {1, 2, 3, 4, 5}
INVARIANT RefusedRightly
CHECK_DEADLOCK FALSE

SPECIFICATION FairSpec
CONSTANTS
  d1 = d1
  d2 = d2
  s1 = s1
  s2 = s2
  four = four
  five = five
  Messages = 2
  Reading = {four}
  Delivery = {d1, d2}
  Sync = {s1}
  Retries = 0
  OldTicks = 2
  FunctionTicks = 1
  Deaths = 1
  Flips = 1
INVARIANTS MarkedStaysOut
PROPERTIES EveryEmailDecided

SPECIFICATION FairSpec
CONSTANTS
  N = 3
  Own = {1}
  Draft = {}
  Copies = {{2, 3}}
  WalkCap = 2
  ListCap = 2
  Poll = {poll1}
  Batch = 1
  Live = TRUE
  Stops = 1
  StoreFailures = 0
  Vanishes = 0
  Blanks = 0
  MaxFaults = 1
  minuteSync = minuteSync
  labelRun = labelRun
  Signal = {minuteSync, labelRun}
  Limit <- Limits
  PausedSkips = {labelRun}
  Quiet = 2
  Beat = {beat1, beat2}
  Faults = 1
  t1 = t1
  t2 = t2
  t3 = t3
  Thread <- CardOrder
  Label = {created}
  None = None
  PerRun = 2
  Drops = 1
  Refusals = 1
  Turns = 2
CHECK_DEADLOCK FALSE
INVARIANTS TypeOK OneEmailAWindow RememberedIsWorn
PROPERTIES EveryEmailSettled StoppedIsHeard CardsWorn

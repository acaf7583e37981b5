SPECIFICATION LabelsFairSpec
CONSTANTS
  t1 = t1
  t2 = t2
  t3 = t3
  Thread <- CardOrder
  Label = {created}
  None = None
  PerRun = 2
  Drops = 0
  Refusals = 1
  Turns = 2
PROPERTY LabelsPutRight
CHECK_DEADLOCK FALSE

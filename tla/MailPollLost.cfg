SPECIFICATION MailSpec
CONSTANTS
  N = 2
  Own = {}
  Draft = {}
  Copies = {}
  WalkCap = 2
  ListCap = 2
  Poll = {poll1}
  Batch = 1
  Live = TRUE
  Stops = 0
  StoreFailures = 1
  Vanishes = 0
  Blanks = 0
  MaxFaults = 1
INVARIANT SeenIsDurable
CHECK_DEADLOCK FALSE

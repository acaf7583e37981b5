SPECIFICATION MailFairSpec
CONSTANTS
  N = 2
  Own = {}
  Draft = {}
  Copies = {}
  WalkCap = 2
  ListCap = 2
  Poll = {poll1}
  Batch = 2
  Live = TRUE
  Stops = 0
  StoreFailures = 0
  Vanishes = 1
  Blanks = 0
  MaxFaults = 1
PROPERTY EveryEmailSettled
CHECK_DEADLOCK FALSE

SPECIFICATION MirrorSpec
CONSTANTS
  MaxRow = 1
  Create = {}
  Other = {}
  Late = {}
  Start = 1
  PageSize = 1
  Pages = 2
  Contact = {c1}
  Pull = {pull1, pull2}
  MaxPulls = 2
  MaxDay = 1
  PullStops = 0
INVARIANT ContactsNeverEmpty
CHECK_DEADLOCK FALSE

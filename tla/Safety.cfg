SPECIFICATION Spec
CONSTANTS
  N = 2
  Own = {1}
  Draft = {1}
  Copies = {}
  WalkCap = 2
  ListCap = 1
  poll1 = poll1
  poll2 = poll2
  Poll = {poll1, poll2}
  Batch = 1
  Live = TRUE
  Stops = 1
  StoreFailures = 1
  Vanishes = 1
  Blanks = 1
  MaxFaults = 1
  a = a
  b = b
  bot = bot
  booking = booking
  bench = bench
  s1 = s1
  s2 = s2
  s3 = s3
  Call = {a, b, bot}
  Canary = {bot}
  NewClient = {a, b}
  Name <- NameOf
  Process <- ProcessOf
  Warm = {s1, s2}
  MaxCalls = 2
  MaxTime = 3
  Emails <- EmailSet
  Books <- BookSet
  StaffEdits = 1
  MaxRow = 3
  Create = {2}
  Other = {3}
  Late = {1}
  Start = 1
  PageSize = 1
  Pages = 2
  Contact = {c1}
  pull1 = pull1
  pull2 = pull2
  Pull = {pull1, pull2}
  MaxPulls = 2
  MaxDay = 2
  PullStops = 1
  Rows <- RowSet
  MaxMails = 2
  LastDay = 2
  MaxTouches = 2
  Hour = 2
  Spring = 98
  Autumn = 242
  AskedDays = {1, 2, 4, 5}
  Viewer = {1, 2}
  Horizon = 1
  MaxMessages = 2
  LastDate = 3
  MaxClicks = 2
SYMMETRY Alike
CHECK_DEADLOCK FALSE
INVARIANTS
  TypeOK
  NothingSkipped
  OneOrderPerCall ReturnsItsBooking NoBookingDropped FoundTheNextTime
  PeopleAsAsked RestatedIsNothing CrewFollows
  TimelineWhole MarkedIsDeleted
  NeedKept TickHolds
  WindowAsAsked OwedIsShown

SPECIFICATION FeedSpec
CONSTANTS
  Rows <- RowSet
  MaxMails = 1
  LastDay = 2
  MaxTouches = 2
INVARIANT RecordStands
CHECK_DEADLOCK FALSE

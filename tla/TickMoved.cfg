SPECIFICATION FeedSpec
CONSTANTS
  Rows <- RowSet
  MaxMails = 1
  LastDay = 2
  MaxTouches = 2
PROPERTY MarksSurviveReplan
CHECK_DEADLOCK FALSE

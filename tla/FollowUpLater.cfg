SPECIFICATION FollowSpec
CONSTANTS
  Viewer = {1}
  Horizon = 1
  MaxMessages = 2
  LastDate = 1
  MaxClicks = 1
PROPERTY LaterMessageIsShown
CHECK_DEADLOCK FALSE

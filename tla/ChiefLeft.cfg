SPECIFICATION PlannerSpec
CONSTANTS
  Emails <- EmailSet
  Books <- BookSet
  StaffEdits = 0
INVARIANT AsAsked
CHECK_DEADLOCK FALSE

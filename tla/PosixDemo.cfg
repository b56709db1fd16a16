SPECIFICATION FairSpec
CONSTANTS
  NumWorkers = 3
  NumMsgs = 8
  InboxSize = 2
CHECK_DEADLOCK FALSE
INVARIANTS
  ClosedAfterUse
  JobsAccounted
  NothingLeft
PROPERTIES
  EndsInAnySchedule
  Terminates

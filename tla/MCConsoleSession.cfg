SPECIFICATION FairSpec
CONSTANTS
  Request = {r1,r2}
  MaxSession = 2
  MaxToken = 2
  MaxFaults = 1
INVARIANTS
  ConsoleHasItsCookie
  LogoutEndsSession
  RefusedTokenWasOvertaken
PROPERTIES
  WaitingEnds
CHECK_DEADLOCK FALSE

SPECIFICATION FairSpec
CONSTANTS
  Command = {c1, c2}
  Worker = {w1, w2}
  Request = {r1}
  None = None
  MaxFaults = 2
PROPERTIES
  EveryCommandFinishes
  ImplementsLifecycle
CHECK_DEADLOCK FALSE

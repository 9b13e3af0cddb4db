SPECIFICATION Spec
CONSTANTS
  Command = {c1, c2}
  Worker = {w1}
  Request = {r1, r2}
  None = None
  MaxFaults = 2
SYMMETRY Symmetry
INVARIANTS
  TypeOK
  
  RecordedOnlyIfEffective
  SucceededIsRecorded
PROPERTIES
  FinishedStaysFinished
CHECK_DEADLOCK FALSE

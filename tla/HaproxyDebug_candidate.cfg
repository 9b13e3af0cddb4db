SPECIFICATION Spec
CONSTANTS
  Candidate = {d1, d2}
  MaxCommands = 1
  None = None
PROPERTIES
  BlockedCandidateIsNotRun
CHECK_DEADLOCK FALSE

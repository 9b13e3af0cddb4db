SPECIFICATION ServerSpec
CONSTANTS
  None = None
  Server = {s1, s2}
  Call = {c1, c2}
  MaxPolls = 2
  MaxWatchPolls = 1
  MaxCommands = 3
SYMMETRY ServerSymmetry
CONSTRAINT ServerBound
INVARIANTS
  Install_DeletedIsHidden

  
  
CHECK_DEADLOCK FALSE

SPECIFICATION TransitSpec
CONSTANTS
  None = None
  Server = {x1, x2}
  Port = {x1, x2}
  Route = {x1, x2}
  Call = {c1, c2}
  MaxPolls = 2
  MaxCommands = 2
  MaxNames = 1
SYMMETRY TransitSymmetry
CONSTRAINT TransitBound
INVARIANTS
  Create_OutcomeIsTold
  DeletedIsHidden

  
CHECK_DEADLOCK FALSE

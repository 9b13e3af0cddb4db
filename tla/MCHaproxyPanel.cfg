SPECIFICATION HaproxySpec
CONSTANTS
  None = None
  Candidate = {x1, x2}
  Place = {p1}
  Name = {x1, x2}
  Call = {c1, c2}
  MaxCommands = 2
SYMMETRY HaproxySymmetry
CONSTRAINT HaproxyBound

  
PROPERTIES
  CarriedOutAsApproved
CHECK_DEADLOCK FALSE

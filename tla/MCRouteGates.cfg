SPECIFICATION Spec
CONSTANTS
  Node = {n1, n2}
  ApprovedTarget = {n1}
  Port = {p1}
  ApprovedPort = p1
  Name = {a}
  Request = {h1, h2}
  None = None
  MaxCommands = 4
  MaxFaults = 1
SYMMETRY Symmetry
CONSTRAINT GatesBound
INVARIANTS
  ActiveRowIsServed
  UnitWasApproved
  
PROPERTIES
  SuccessHasItsRow
CHECK_DEADLOCK FALSE

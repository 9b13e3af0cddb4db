SPECIFICATION ProductFairSpec
CONSTANTS
  None = None
  Node = {n1}
  Route = {r1}
  Demo = {d1}
  Customer = {k1, k2}
  TaskCall = {c1, c2, c3}
  Limit = 2
  MaxTasks = 4
  Host = {s1, s2}
  Port = {p1, p2}
  Call = {c1, c2}
  MaxCreationPolls = 2
  MaxCommands = 2
INVARIANTS
  CreatedAsApproved
  Create_OutcomeIsTold
PROPERTIES
  
  Create_CreationEnds
CHECK_DEADLOCK FALSE

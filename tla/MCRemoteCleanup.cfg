SPECIFICATION Spec
CONSTANTS
  l1 = l1  t1 = t1  n1 = n1  n2 = n2  r1 = r1  r2 = r2  p1 = p1  p2 = p2
  Landing = {l1}
  Transit = {t1}
  Node = {n1, n2}
  Route = {r1, r2}
  ServerOf <- AllServerOf
  PortOf <- TwoPorts
  TargetOf <- AllTargetOf
  Request = {h1}
  None = None
  MaxCommands = 3
  MaxFaults = 1
CONSTRAINT CleanupBound
INVARIANTS
  ServicesAreAccountedFor
  ActiveRowsAreServed
  OneCleanupPerServer

  
CHECK_DEADLOCK FALSE

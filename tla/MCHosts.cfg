SPECIFICATION AllSpec
CONSTANTS
  p1 = p1  p2 = p2  h2 = h2
  Port = {p1, p2}
  Haproxy = {h1, h2}
  Socat = {s1}
  PortOf <- TwoPorts
  None = None
  MaxFaults = 2
  MaxCommands = 2
CONSTRAINT HostsBound
INVARIANTS
  FailureLeavesNoTrace
  CleanedIsGone
  UnitsAreWhole
  
PROPERTIES
  CreatedIsServed
  OthersKeepTheirInbounds
CHECK_DEADLOCK FALSE

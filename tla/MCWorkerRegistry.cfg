SPECIFICATION BothSpec
CONSTANTS
  a1 = a1  l1 = l1  l2 = l2  l3 = l3  x1 = x1  w1 = w1  w2 = w2  k1 = k1  k2 = k2  t3 = t3  h3 = h3
  Landing = {l1, l2}
  Transit = {}
  Worker = {w1, w2}
  Token = {k1, k2}
  Handler = {h3}
  Address <- OneAddress
  IpOf <- SameIp
  None = None
SYMMETRY Symmetry
CONSTRAINT RegistryBound

  
PROPERTIES
  
  BindingIsFinal
CHECK_DEADLOCK FALSE

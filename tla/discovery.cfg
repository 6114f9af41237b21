SPECIFICATION FairNetworkSpec
CONSTANTS
  a = a
  b = b
  c = c
  k1 = k1
  k2 = k2
  k3 = k3
  Unnamed = Unnamed
  Nowhere = Nowhere
  None = None
  Nodes = {a, b, c}
  Links = {k1, k2, k3}
  MaxPeers = 2
  BootstrapOf <- Config
  Lan <- OneWay
  Wishes <- GivenToB
  Fragile = {b}
  MaxFaults = 1
INVARIANTS EntriesStand
PROPERTIES Meet TablesAgree
CHECK_DEADLOCK FALSE

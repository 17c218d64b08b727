SPECIFICATION Spec
CONSTANTS
  None = None
  Empty = Empty
  Garbage = Garbage
  c1 = c1
  c2 = c2
  Clients <- MCClients
  ClientOrder <- MCOrder
  Paths <- MCPaths
  MAX_CLIENT_BONDS = 1
  MaxFaults = 0
  MaxCommands = 3
  Constants = {"v1", "v2"}
  Setups <- MCSetups
INVARIANT ChainBelongsToCert

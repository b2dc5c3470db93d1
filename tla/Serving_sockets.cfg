SPECIFICATION ServingSpec
CONSTANTS
  a = a
  b = b
  Conns = {a, b}
  N = 1
  Kind <- TcpKind
  Target <- TcpTarget
  SleepOnErrors = {TRUE, FALSE}
  Servers <- LastingServers
INVARIANTS
  NoAcceptWhileCooling
  RetrierKeepsServersUp
PROPERTIES
  EventuallyServed

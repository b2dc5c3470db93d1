SPECIFICATION ServingSpec
CONSTANTS
  a = a
  b = b
  Conns = {}
  N = 1
  Kind <- InetdKind
  Target <- NoTarget
  SleepOnErrors = {TRUE}
  Servers <- PlainLoop
INVARIANTS
  NotPremature

SPECIFICATION ServingSpec
CONSTANTS
  a = a
  b = b
  Conns = {a, b}
  N = 1
  Kind <- TcpKind
  Target <- TcpTarget
  SleepOnErrors = {FALSE}
  Servers <- Axum08NoRetry
INVARIANTS
  NoRetriableHang

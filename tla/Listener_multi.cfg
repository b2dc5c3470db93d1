SPECIFICATION FairSpec
CONSTANTS
  a = a
  b = b
  c = c
  Conns = {a, c}
  N = 3
  Kind <- MultiKind
  Target <- PairTarget
  SleepOnErrors = {TRUE}
INVARIANTS
  TypeOK
  NoLostWakeup
  NoAcceptWhileCooling
PROPERTIES
  EventuallyServed

SPECIFICATION FairSpec
CONSTANTS
  a = a
  b = b
  c = c
  Conns = {a, b, c}
INVARIANTS
  ReturnsAfterTasks
  InetdServedToTheEnd
PROPERTIES
  KeepsDrainPromise
  AcceptedIsServed
  SignalStopsServer

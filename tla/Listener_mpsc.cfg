SPECIFICATION FairSpec
CONSTANTS
  a = a
  b = b
  c = c
  Conns = {a, b, c}
  N = 1
  Kind <- MpscKind
  Target <- MpscTarget
  SleepOnErrors = {FALSE}
INVARIANTS
  NoLostWakeup
PROPERTIES
  EventuallyServed

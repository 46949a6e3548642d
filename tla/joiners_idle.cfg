\* Nobody writes; one svcprop may fail.
SPECIFICATION Spec
CONSTANTS
  g1 = g1
  g2 = g2
  bad = bad
  p1 = p1
  p2 = p2
  i1 = i1
  i2 = i2
  None = None
  Entries <- TwoGroups
  Bad <- NoEntry
  Ports <- OnePort
  Sourced <- NoEntry
  Ifaces <- OneIface
  Unusable <- NoPair
  MaxWrites = 0
  MaxFaults = 1
INVARIANTS
  IdleOnlyWithoutGroups

\* A service that idles, waits or has used up its bounds rests: no step is due.
CHECK_DEADLOCK FALSE

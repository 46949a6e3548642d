\* Two groups, every interleaving of two writes, their restarts, and two faults.
SPECIFICATION Spec
CONSTANTS
  g1 = g1
  g2 = g2
  bad = bad
  p1 = p1
  p2 = p2
  i1 = i1
  i2 = i2
  None = None
  Entries <- TwoGroups
  Bad <- NoEntry
  Ports <- TwoPorts
  Sourced <- NoEntry
  Ifaces <- OneIface
  Unusable <- NoPair
  MaxWrites = 2
  MaxFaults = 2
INVARIANTS
  ReadsAreCurrent
  ServesWhatItRead
  RestsOnlyWhenRestored
PROPERTIES
  GenerationsNeverOverlap

\* A service that idles, waits or has used up its bounds rests: no step is due.
CHECK_DEADLOCK FALSE

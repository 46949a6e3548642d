\* A group, one with sources, and one that is always rejected; an interface that
\* has nothing for the first.  Writes and faults come to an end.
SPECIFICATION FairSpec
CONSTANTS
  g1 = g1
  g2 = g2
  bad = bad
  p1 = p1
  p2 = p2
  i1 = i1
  i2 = i2
  None = None
  Entries <- ThreeEntries
  Bad <- JustBad
  Ports <- OnePort
  Sourced <- JustG2
  Ifaces <- TwoIfaces
  Unusable <- G1OnI2
  MaxWrites = 1
  MaxFaults = 1
PROPERTIES
  EveryMembershipIsRestored
  QuietWithoutGroups

\* A service that idles, waits or has used up its bounds rests: no step is due.
CHECK_DEADLOCK FALSE

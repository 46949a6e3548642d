\* Every kind of command line, three states of the host, two changes between them.
SPECIFICATION Spec
CONSTANTS
  net0 = net0
  net1 = net1
  Bases <- TwoBases
  Empty = Empty
  None = None
  AnySource = AnySource
  Args <- McArgs
  Tables <- McTables
  MaxChanges = 2
INVARIANTS
  SsmIsNeverAnySource
  SourcesArePinned
  ZoneIsWhereItJoined
  SsmNeedsNoZone
  UsesSelectedInterface
  UnresolvedForCause
PROPERTIES
  FilterIsWholeOrNothing
\* A run that has ended does nothing more.
CHECK_DEADLOCK FALSE

\* Every kind of command line, on a host at rest.
SPECIFICATION Spec
CONSTANTS
  net0 = net0
  net1 = net1
  Bases <- TwoBases
  Empty = Empty
  None = None
  AnySource = AnySource
  Args <- McArgs
  Tables <- McTables
  MaxChanges = 0
INVARIANTS
  SsmJoinsAvoidKernelChoice
\* A run that has ended does nothing more.
CHECK_DEADLOCK FALSE

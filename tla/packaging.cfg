\* Three runs in a row, two builds and two commits in between or during them.
SPECIFICATION Spec
CONSTANTS
  None = None
  Partial = Partial
  MaxBuilds = 2
  MaxCommits = 2
  MaxRuns = 2
INVARIANTS
  SuccessPublishesOneBinary
  FailsOnlyForCause
\* The last run ends.
CHECK_DEADLOCK FALSE

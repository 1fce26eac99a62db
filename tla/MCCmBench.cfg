\* Two runs, each for one of seven command lines.
SPECIFICATION EndingSpec
CONSTANTS
  Requests <- MCRequests
  Runs = 2
INVARIANTS
  DatasetsAreWhole
  PassIsEarned
PROPERTIES
  RunsEnd
CHECK_DEADLOCK FALSE

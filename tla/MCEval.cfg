\* Two runs, each for one of seven command lines.
SPECIFICATION Spec
CONSTANTS
  Jobs <- MCJobs
  Runs = 2
INVARIANTS
  OwnSessionsOnly
  FileIsWhole
  ReportMatchesFile
CHECK_DEADLOCK FALSE

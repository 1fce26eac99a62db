\* A writer and a reader, two facts; both crash and restart at will, and
\* the file system refuses two saves.
SPECIFICATION Spec
CONSTANTS
  p1 = p1
  p2 = p2
  f1 = f1
  f2 = f2
  Procs <- TwoProcesses
  Writers <- OneProcess
  Facts <- TwoFacts
  Outages = 2
INVARIANTS
  AckedIsInJournal
PROPERTIES
  JournalOnlyGrows
SYMMETRY FactSymmetry
CHECK_DEADLOCK FALSE

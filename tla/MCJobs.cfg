\* Two callers, one space, a session of two turns and one that repeats a
\* turn; two jobs, one refused save, one crash.
SPECIFICATION FairSpec
CONSTANTS
  c1 = c1
  c2 = c2
  s1 = s1
  m1 = m1
  m2 = m2
  t1 = t1
  t2 = t2
  Callers <- MCCallers
  Spaces <- MCSpaces
  Sessions <- MCSessions
  SpaceOf <- MCSpaceOf
  Turns <- MCTurns
  MaxJobs = 2
  Outages = 1
  Crashes = 1
INVARIANTS
  IngestInOrder
  CompleteIsKept
  ToldIsDurable
  AnnouncedIsOpen
PROPERTIES
  JobsEnd
CHECK_DEADLOCK FALSE

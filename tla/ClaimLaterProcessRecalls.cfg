\* One process that is started again.
SPECIFICATION Spec
CONSTANTS
  p1 = p1
  p2 = p2
  f1 = f1
  f2 = f2
  Procs <- OneProcess
  Writers <- OneProcess
  Facts <- TwoFacts
  Outages = 0
PROPERTY LaterProcessRecalls
CHECK_DEADLOCK FALSE

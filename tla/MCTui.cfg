\* Two containers, one fact, one model, two starts of the program.
SPECIFICATION FairSpec
CONSTANTS
  a = a
  b = b
  f = f
  m = m
  NoModel = NoModel
  NoTag = NoTag
  Tags <- MCTags
  Facts <- MCFacts
  Models <- MCModels
  Starts = 2
INVARIANTS
  ToldIsRemembered
  LiveIsOnline
  TimelineIsOfContainer
PROPERTIES
  DemoEnds
CHECK_DEADLOCK FALSE

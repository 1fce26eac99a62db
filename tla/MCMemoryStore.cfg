\* Two texts and one key; three instants; four cells, so that a chain of three
\* versions can have a late cell, a re-asserted text or a forgotten version.
SPECIFICATION Spec
CONSTANTS
  t1 = t1
  t2 = t2
  k1 = k1
  NoKey = NoKey
  Texts <- MCTexts
  Keys <- MCKeys
  Times <- MCTimes
  Observed <- MCObserved
  Entities = {}
  Never = 99
  MaxCells = 4
  MaxId = 7
INVARIANTS
  TypeOK
  ChainLinked
  AsOfAgrees
  ProjectionNewest
  VersionCountExact
  DedupComplete
  EdgesMatchHistory
PROPERTIES
  RefinesTimeline
  EvidenceRetained
SYMMETRY TextSymmetry
CHECK_DEADLOCK FALSE

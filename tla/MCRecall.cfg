\* Two texts, one key, two instants, three cells.
SPECIFICATION ReadSpec
CONSTANTS
  t1 = t1
  t2 = t2
  k1 = k1
  NoKey = NoKey
  Texts <- MCTexts
  Keys <- MCKeys
  Times <- MCTimes
  Observed <- MCTimes
  Entities = {}
  Never = 99
  MaxCells = 3
  MaxId = 5
  Cap = 8
  MaxChainDepth = 128
INVARIANTS
  DayFindsItsTruth
PROPERTIES
  EvidenceFitsQuestion
  CurrentIsNewestKnown
  OneTruthPerKey
SYMMETRY TextSymmetry
CHECK_DEADLOCK FALSE

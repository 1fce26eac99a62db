\* Two texts, one key, one entity, two instants, three cells; six ids bound
\* the episodes and the edges.
SPECIFICATION ReloadSpec
CONSTANTS
  t1 = t1
  t2 = t2
  k1 = k1
  e1 = e1
  NoKey = NoKey
  Texts <- MCTexts
  Keys <- MCKeys
  Times <- MCTimes
  Observed <- MCObserved
  Entities <- MCEntities
  Never = 99
  MaxCells = 3
  MaxId = 6
INVARIANTS
  ReloadIsIdentity
  StoreContinuesDisk
SYMMETRY TextSymmetry
CHECK_DEADLOCK FALSE

---------------------------- MODULE StoreProofs ----------------------------
(***************************************************************************)
(* Theorems about the memory store, for every choice of its constants: its *)
(* write path (MemoryStore), its read path (Recall) and what the journal   *)
(* makes of it (Reload).                                                   *)
(***************************************************************************)
EXTENDS Recall, Reload, FiniteSetTheorems, TLAPS

(***************************************************************************)
(* The write path.                                                         *)
(***************************************************************************)

(* Type correctness.                                                       *)

\* The ids handed out for entities are natural numbers.
LEMMA FreshIdsType ==
  ASSUME NEW names, NEW first \in Nat, NEW ids \in FreshIds(names, first)
  PROVE  ids \in [names -> Nat]
BY DEF FreshIds

\* Counting the names of an input gives a natural number.
LEMMA NamesCount ==
  ASSUME NEW in \in Input
  PROVE  Cardinality(NewEntities(in)) \in Nat
<1>1. NewEntities(in) \subseteq Entities
  BY DEF Input, NewEntities
<1>2. IsFiniteSet(NewEntities(in))
  BY <1>1, EntityAssumption, FS_Subset
<1> QED
  BY <1>2, FS_CardinalityType

\* Finitely many cells exist, so a lineage can be counted.
LEMMA LineageCount ==
  ASSUME TypeOK, NEW in \in Input
  PROVE  Cardinality(Lineage(CellsAfter(in), nextId)) \in Nat
<1>1. DOMAIN CellsAfter(in) \subseteq 1 .. nextId
  BY DEF TypeOK, CellsAfter
<1>2. Lineage(CellsAfter(in), nextId) \subseteq 1 .. nextId
  BY <1>1 DEF Lineage
<1>3. IsFiniteSet(1 .. nextId)
  BY FS_Interval DEF TypeOK
<1>4. IsFiniteSet(Lineage(CellsAfter(in), nextId))
  BY <1>2, <1>3, FS_Subset
<1> QED
  BY <1>4, FS_CardinalityType

\* The cell a projection points at exists.
LEMMA CurrentExists ==
  ASSUME TypeOK, NEW k \in Keys \cup {NoKey}, Current(k) # NoId
  PROVE  k \in Keys /\ Current(k) = projection[k].active
         /\ Current(k) \in DOMAIN cells
BY NameAssumption DEF TypeOK, Current

LEMMA NewCellType ==
  ASSUME TypeOK, NEW in \in Input
  PROVE  NewCell(in) \in Cell
<1>1. ValidFrom(in) \in Times /\ in.observed \in Times
  BY TimeAssumption DEF Input, ValidFrom
<1>2. in.text \in Texts /\ in.key \in Keys \cup {NoKey}
      /\ in.entities \in SUBSET Entities
  BY DEF Input
<1>3. ASSUME Supersedes(in)
      PROVE  Current(in.key) \in Nat /\ RootOf(Current(in.key)) \in Nat
  <2>1. Current(in.key) \in DOMAIN cells
    BY <1>2, <1>3, CurrentExists DEF Supersedes
  <2>2. cells[Current(in.key)].root \in Nat
    BY <2>1 DEF TypeOK, Cell
  <2> QED
    BY <2>1, <2>2 DEF TypeOK, RootOf
<1> QED
  BY <1>1, <1>2, <1>3 DEF NewCell, Cell, Status, NoId

\* The cells after a reconcile are the cells before it, the one it supersedes
\* closed, and the new cell.
LEMMA CellsAfterType ==
  ASSUME TypeOK, NEW in \in Input
  PROVE  /\ CellsAfter(in) \in [DOMAIN cells \cup {nextId} -> Cell]
         /\ nextId \notin DOMAIN cells
<1>1. NewCell(in) \in Cell /\ ValidFrom(in) \in Times
  BY NewCellType, TimeAssumption DEF Input, ValidFrom
<1>2. \A i \in DOMAIN cells : cells[i] \in Cell
  BY DEF TypeOK
<1>3. \A i \in DOMAIN cells : Superseded(cells[i], ValidFrom(in)) \in Cell
  BY <1>1, <1>2 DEF Superseded, Cell, Status
<1>4. nextId \notin DOMAIN cells
  BY DEF TypeOK
<1> QED
  BY <1>1, <1>2, <1>3, <1>4 DEF CellsAfter

LEMMA ReconcileType ==
  ASSUME TypeOK, NEW in \in Input, Reconcile(in)
  PROVE  TypeOK'
<1> DEFINE names == NewEntities(in)
           after == nextId + 1 + Cardinality(names)
<1>1. after \in Nat /\ after > nextId
  BY NamesCount DEF TypeOK
<1>2. nextId' \in Nat \ {0} /\ nextId' > nextId
  <2>1. nextId' = after \/ nextId' = after + 1
    BY DEF Reconcile
  <2> QED
    BY <1>1, <2>1 DEF TypeOK
<1>3. /\ DOMAIN cells' = DOMAIN cells \cup {nextId}
      /\ DOMAIN cells' \subseteq 1 .. nextId' - 1
  BY <1>2 DEF TypeOK, Reconcile, CellsAfter
<1>4. cells' \in [DOMAIN cells' -> Cell]
  BY <1>3, CellsAfterType DEF Reconcile
<1>5. projection' \in [Keys -> Projection]
  <2>1. CASE in.key = NoKey \/ OutOfOrder(in)
    BY <2>1 DEF Reconcile, ProjectionAfter, TypeOK
  <2>2. CASE ~(in.key = NoKey \/ OutOfOrder(in))
    <3>1. in.observed \in Times /\ in.key \in Keys
      BY <2>2, TimeAssumption DEF Input
    <3>2. Cardinality(Lineage(CellsAfter(in), nextId)) \in Nat
      BY LineageCount
    <3>3. ASSUME Supersedes(in)
          PROVE  RootOf(Current(in.key)) \in Nat
      <4>1. Current(in.key) \in DOMAIN cells
        BY <3>1, <3>3, CurrentExists DEF Supersedes
      <4>2. cells[Current(in.key)].root \in Nat
        BY <4>1 DEF TypeOK, Cell
      <4> QED
        BY <4>1, <4>2 DEF TypeOK, RootOf
    <3> QED
      BY <2>2, <3>1, <3>2, <3>3 DEF Reconcile, ProjectionAfter, TypeOK,
         Projection
  <2> QED
    BY <2>1, <2>2
<1>6. \A k \in Keys : projection'[k].active \in DOMAIN cells' \cup {NoId}
  BY <1>3 DEF Reconcile, ProjectionAfter, TypeOK
<1>7. byText' \in [Texts -> DOMAIN cells' \cup {NoId}]
  BY <1>3 DEF Reconcile, TypeOK
<1>8. edges' \subseteq Edge
  <2>1. in.key \in Keys \cup {NoKey} /\ in.observed \in Times
    BY TimeAssumption DEF Input
  <2>2. Current(in.key) \in Nat
    BY <2>1, CurrentExists DEF TypeOK, NoId
  <2> QED
    BY <1>1, <2>1, <2>2 DEF Reconcile, EdgesAfter, TypeOK, Edge
<1>9. entityId' \in [Entities -> Nat]
  <2>1. PICK ids \in FreshIds(names, nextId + 1) :
          entityId' = [e \in Entities |->
                         IF e \in names THEN ids[e] ELSE entityId[e]]
    BY DEF Reconcile
  <2>2. ids \in [names -> Nat]
    BY FreshIdsType DEF TypeOK
  <2> QED
    BY <2>1, <2>2 DEF TypeOK
<1>10. entityCells' \in [Entities -> SUBSET DOMAIN cells']
  BY <1>3 DEF Reconcile, TypeOK
<1>11. episodes' \subseteq 1 .. nextId' - 1
  BY <1>2 DEF Reconcile, TypeOK
<1> QED
  BY <1>2, <1>3, <1>4, <1>5, <1>6, <1>7, <1>8, <1>9, <1>10, <1>11 DEF TypeOK

LEMMA TypeInit ==
  ASSUME Init
  PROVE  TypeOK
BY DEF Init, TypeOK, NoProjection, Projection, NoId

LEMMA TypeStep ==
  ASSUME TypeOK, [Next]_vars
  PROVE  TypeOK'
<1>1. CASE CaptureEpisode
  BY <1>1 DEF CaptureEpisode, TypeOK
<1>2. ASSUME NEW in \in Input, Reconcile(in)
      PROVE  TypeOK'
  BY <1>2, ReconcileType
<1>3. ASSUME NEW i \in DOMAIN cells, Forget(i)
      PROVE  TypeOK'
  <2>1. DOMAIN cells' = DOMAIN cells
    BY <1>3 DEF Forget
  <2>2. cells' \in [DOMAIN cells -> Cell]
    BY <1>3 DEF Forget, TypeOK, Cell, Status
  <2> QED
    BY <1>3, <2>1, <2>2 DEF Forget, TypeOK
<1>4. CASE UNCHANGED vars
  BY <1>4 DEF vars, TypeOK
<1> QED
  BY <1>1, <1>2, <1>3, <1>4 DEF Next

\* Every reachable state is well typed, and every cell id that the
\* projections, the text index and the entity index hold is the id of a cell.
THEOREM TypeCorrect == Spec => []TypeOK
BY TypeInit, TypeStep, PTL DEF Spec

----------------------------------------------------------------------------
(* The version chains.                                                     *)

\* What a reconcile does to the cells, field by field.
LEMMA ReconcileCells ==
  ASSUME TypeOK, NEW in \in Input, Reconcile(in)
  PROVE  /\ DOMAIN cells' = DOMAIN cells \cup {nextId}
         /\ nextId \notin DOMAIN cells /\ nextId \in Nat /\ nextId # NoId
         /\ \A i \in DOMAIN cells : i \in Nat /\ i # NoId /\ i < nextId
         /\ cells'[nextId].text = in.text
         /\ cells'[nextId].key = in.key
         /\ cells'[nextId].from = ValidFrom(in)
         /\ cells'[nextId].until = Never
         /\ cells'[nextId].status = "Active"
         /\ cells'[nextId].parent =
              IF Supersedes(in) THEN Current(in.key) ELSE NoId
         /\ cells'[nextId].root =
              IF Supersedes(in) THEN RootOf(Current(in.key)) ELSE NoId
         /\ \A i \in DOMAIN cells :
              /\ SameEvidence(cells'[i], cells[i])
              /\ cells'[i].text = cells[i].text
              /\ cells'[i].key = cells[i].key
              /\ cells'[i].from = cells[i].from
              /\ cells'[i].parent = cells[i].parent
              /\ cells'[i].root = cells[i].root
              /\ IF Supersedes(in) /\ i = Current(in.key)
                 THEN /\ cells'[i].until = ValidFrom(in)
                      /\ cells'[i].status = "Superseded"
                 ELSE cells'[i] = cells[i]
<1>1. /\ DOMAIN cells' = DOMAIN cells \cup {nextId}
      /\ nextId \notin DOMAIN cells /\ nextId \in Nat /\ nextId # NoId
      /\ \A i \in DOMAIN cells : i \in Nat /\ i # NoId /\ i < nextId
      /\ cells'[nextId] = NewCell(in)
  BY DEF Reconcile, CellsAfter, TypeOK, NoId
<1>2. ASSUME NEW i \in DOMAIN cells
      PROVE  /\ SameEvidence(cells'[i], cells[i])
             /\ cells'[i].text = cells[i].text
             /\ cells'[i].key = cells[i].key
             /\ cells'[i].from = cells[i].from
             /\ cells'[i].parent = cells[i].parent
             /\ cells'[i].root = cells[i].root
             /\ IF Supersedes(in) /\ i = Current(in.key)
                THEN /\ cells'[i].until = ValidFrom(in)
                     /\ cells'[i].status = "Superseded"
                ELSE cells'[i] = cells[i]
  <2>1. cells[i] \in Cell
    BY DEF TypeOK
  <2>2. cells'[i] = IF Supersedes(in) /\ i = Current(in.key)
                    THEN Superseded(cells[i], ValidFrom(in)) ELSE cells[i]
    BY <1>1 DEF Reconcile, CellsAfter
  <2>3. SameEvidence(cells'[i], cells[i])
    BY <2>1, <2>2 DEF Superseded, Cell, SameEvidence
  <2> QED
    BY <2>1, <2>2, <2>3 DEF Superseded, SameEvidence
<1> QED
  BY <1>1, <1>2 DEF NewCell

\* A key has a current cell exactly when it has cells.
LEMMA CurrentOfKey ==
  ASSUME TypeOK, ChainInv, NEW k \in Keys
  PROVE  /\ Current(k) = projection[k].active
         /\ Current(k) = NoId <=> Own(k) = {}
         /\ Current(k) # NoId => Current(k) \in Versions(k)
<1>1. k # NoKey
  BY NameAssumption
<1>2. \A i \in DOMAIN cells : i # NoId
  BY DEF TypeOK, NoId
<1>3. ProjectionOf(k)
  BY DEF ChainInv
<1> QED
  BY <1>1, <1>2, <1>3 DEF Current, ProjectionOf, NoProjection, Versions

\* A reconcile of another key, or of no key, leaves the versions of k alone.
LEMMA ReconcileOtherKey ==
  ASSUME TypeOK, ChainInv, NEW in \in Input, Reconcile(in),
         NEW k \in Keys, k # in.key
  PROVE  /\ projection'[k] = projection[k]
         /\ Own(k)' = Own(k)
         /\ Versions(k)' = Versions(k)
         /\ \A i \in Own(k) : cells'[i] = cells[i]
         /\ ProjectionOf(k)' /\ VersionsOf(k)'
<1>1. projection'[k] = projection[k]
  BY DEF Reconcile, ProjectionAfter, TypeOK
<1>2. cells'[nextId].key = in.key
  BY ReconcileCells
<1>3. Own(k)' = Own(k)
  BY <1>2, ReconcileCells DEF Own
<1>4. Versions(k)' = Versions(k)
  BY <1>1, <1>2, ReconcileCells DEF Versions
<1>5. ASSUME NEW i \in Own(k)
      PROVE  cells'[i] = cells[i]
  <2>1. i \in DOMAIN cells /\ cells[i].key = k
    BY DEF Own
  <2>2. ASSUME Supersedes(in), i = Current(in.key)
        PROVE  FALSE
    <3>1. in.key \in Keys
      BY <2>2, CurrentExists DEF Supersedes, Input
    <3>2. cells[i].key = in.key
      BY <2>2, <3>1, CurrentOfKey DEF Supersedes, Versions
    <3> QED
      BY <2>1, <3>2
  <2> QED
    BY <2>1, <2>2, ReconcileCells
<1>6. ProjectionOf(k) /\ VersionsOf(k)
  BY DEF ChainInv
<1>7. Versions(k) \subseteq Own(k)
  BY DEF Versions, Own
<1>8. ProjectionOf(k)'
  BY <1>1, <1>3, <1>4, <1>5, <1>6, <1>7 DEF ProjectionOf
<1>9. VersionsOf(k)'
  <2>1. \A i \in Own(k) : RootOf(i)' = RootOf(i)
    BY <1>5 DEF RootOf
  <2> QED
    BY <1>1, <1>4, <1>5, <1>6, <1>7, <2>1 DEF VersionsOf
<1> QED
  BY <1>1, <1>3, <1>4, <1>5, <1>8, <1>9

\* The first cell of a key becomes its only version.
LEMMA ReconcileFirst ==
  ASSUME TypeOK, ChainInv, NEW in \in Input, Reconcile(in),
         in.key \in Keys, Current(in.key) = NoId
  PROVE  /\ Versions(in.key)' = {nextId}
         /\ ProjectionOf(in.key)' /\ VersionsOf(in.key)'
<1> DEFINE k == in.key
<1>1. Own(k) = {} /\ ~Supersedes(in) /\ ~OutOfOrder(in) /\ k # NoKey
  BY CurrentOfKey, NameAssumption DEF Supersedes, OutOfOrder
<1>2. projection'[k].active = nextId /\ projection'[k].root = nextId
  BY <1>1 DEF Reconcile, ProjectionAfter, TypeOK
<1>3. /\ cells'[nextId].key = k
      /\ cells'[nextId].parent = NoId /\ cells'[nextId].root = NoId
      /\ cells'[nextId].until = Never
  BY <1>1, ReconcileCells
<1>4. Own(k)' = {nextId}
  BY <1>1, <1>3, ReconcileCells DEF Own
<1>5. Versions(k)' = {nextId}
  BY <1>2, <1>3, <1>4, ReconcileCells DEF Own, Versions
<1>6. cells'[nextId].from \in Nat /\ nextId \in Nat
  BY ReconcileCells, TimeAssumption DEF Input, ValidFrom
<1>7. ProjectionOf(k)'
  BY <1>2, <1>3, <1>4, <1>5, <1>6 DEF ProjectionOf
<1>8. \A i \in {nextId} : RootOf(i)' = i
  BY <1>3 DEF RootOf
<1>9. VersionsOf(k)'
  BY <1>2, <1>5, <1>6, <1>8 DEF VersionsOf
<1> QED
  BY <1>5, <1>7, <1>9

\* A late cell is none of the versions of its key and disturbs none of them.
LEMMA ReconcileLate ==
  ASSUME TypeOK, ChainInv, NEW in \in Input, Reconcile(in),
         in.key \in Keys, OutOfOrder(in)
  PROVE  /\ Versions(in.key)' = Versions(in.key)
         /\ ProjectionOf(in.key)' /\ VersionsOf(in.key)'
<1> DEFINE k == in.key
           cur == Current(k)
<1>1. ~Supersedes(in)
  <2>1. cur \in DOMAIN cells
    BY CurrentExists DEF OutOfOrder
  <2>2. cells[cur].from \in Nat /\ ValidFrom(in) \in Nat
    BY <2>1, TimeAssumption DEF TypeOK, Cell, Input, ValidFrom
  <2> QED
    BY <2>2 DEF OutOfOrder, Supersedes
<1>2. projection'[k] = projection[k]
  BY DEF Reconcile, ProjectionAfter
<1>3. \A i \in DOMAIN cells : cells'[i] = cells[i]
  BY <1>1, ReconcileCells
<1>4. /\ cells'[nextId].key = k /\ cells'[nextId].parent = NoId
      /\ cells'[nextId].from = ValidFrom(in)
  BY <1>1, ReconcileCells
<1>5. Own(k)' = Own(k) \cup {nextId}
  BY <1>3, <1>4, ReconcileCells DEF Own
<1>6. /\ cur = projection[k].active /\ cur # NoId
      /\ ProjectionOf(k) /\ VersionsOf(k) /\ Own(k) # {}
      /\ ValidFrom(in) < cells[cur].from
  BY CurrentOfKey DEF OutOfOrder, ChainInv
<1>7. projection[k].root \in DOMAIN cells
  BY <1>6 DEF ProjectionOf, Versions
<1>8. Versions(k)' = Versions(k)
  BY <1>2, <1>3, <1>4, <1>7, ReconcileCells DEF Versions
<1>9. Versions(k) \subseteq Own(k) /\ Own(k) \subseteq DOMAIN cells
  BY DEF Versions, Own
<1>10. ProjectionOf(k)'
  <2>1. cells[cur].from \in Nat /\ ValidFrom(in) \in Nat
    BY <1>6, CurrentExists, TimeAssumption DEF TypeOK, Cell, Input, ValidFrom
  <2>2. projection[k].active \in Versions(k)
        /\ projection[k].root \in Versions(k)
    BY <1>6 DEF ProjectionOf
  <2>3. \A i \in Own(k)' : cells'[i].from <= cells'[cur].from
    BY <1>3, <1>4, <1>5, <1>6, <1>9, <2>1, <2>2 DEF ProjectionOf
  <2> QED
    BY <1>2, <1>3, <1>5, <1>6, <1>8, <1>9, <2>2, <2>3 DEF ProjectionOf
<1>11. VersionsOf(k)'
  <2>1. \A i \in DOMAIN cells : RootOf(i)' = RootOf(i)
    BY <1>3 DEF RootOf
  <2> QED
    BY <1>2, <1>3, <1>6, <1>8, <1>9, <2>1 DEF VersionsOf
<1> QED
  BY <1>8, <1>10, <1>11

\* A newer cell becomes the last version; the one it replaces ends there.
LEMMA ReconcileNewer ==
  ASSUME TypeOK, ChainInv, NEW in \in Input, Reconcile(in),
         in.key \in Keys, Supersedes(in)
  PROVE  /\ Versions(in.key)' = Versions(in.key) \cup {nextId}
         /\ ProjectionOf(in.key)' /\ VersionsOf(in.key)'
<1> DEFINE k == in.key
           cur == Current(k)
           at == ValidFrom(in)
<1>1. /\ cur = projection[k].active /\ cur # NoId /\ cur \in Versions(k)
      /\ cur \in DOMAIN cells /\ cells[cur].from <= at
      /\ ProjectionOf(k) /\ VersionsOf(k) /\ Own(k) # {}
  BY CurrentOfKey, CurrentExists DEF Supersedes, ChainInv
<1>2. at \in Nat /\ \A i \in DOMAIN cells : cells[i].from \in Nat
  BY TimeAssumption DEF TypeOK, Cell, Input, ValidFrom
<1>3. /\ RootOf(cur) = projection[k].root
      /\ projection[k].root \in Versions(k)
      /\ cells[projection[k].root].parent = NoId
  BY <1>1 DEF VersionsOf, ProjectionOf
<1>4. /\ projection'[k].active = nextId
      /\ projection'[k].root = projection[k].root
  <2>1. ~OutOfOrder(in) /\ k # NoKey
    BY <1>1, <1>2, NameAssumption DEF OutOfOrder
  <2> QED
    BY <1>3, <2>1 DEF Reconcile, ProjectionAfter, TypeOK
<1>5. /\ cells'[nextId].key = k /\ cells'[nextId].parent = cur
      /\ cells'[nextId].root = projection[k].root
      /\ cells'[nextId].from = at /\ cells'[nextId].until = Never
  BY <1>3, ReconcileCells
<1>6. Own(k)' = Own(k) \cup {nextId}
  BY <1>5, ReconcileCells DEF Own
<1>7. Versions(k)' = Versions(k) \cup {nextId}
  BY <1>1, <1>4, <1>5, ReconcileCells DEF Versions
<1>8. /\ Versions(k) \subseteq Own(k) /\ Own(k) \subseteq DOMAIN cells
      /\ \A i \in DOMAIN cells : i \in Nat /\ i < nextId /\ i # nextId
  BY ReconcileCells DEF Versions, Own
<1>9. ProjectionOf(k)'
  <2>1. \A i \in Own(k) : cells'[i].from = cells[i].from
                         /\ cells[i].from <= cells[cur].from
    BY <1>1, <1>8, ReconcileCells DEF ProjectionOf
  <2>2. \A i \in Own(k)' : cells'[i].from <= cells'[nextId].from
    BY <1>1, <1>2, <1>5, <1>6, <1>8, <2>1
  <2>3. cells'[projection'[k].root].parent = NoId
    BY <1>3, <1>4, <1>8, ReconcileCells
  <2> QED
    BY <1>3, <1>4, <1>5, <1>6, <1>7, <2>2, <2>3 DEF ProjectionOf
<1>10. VersionsOf(k)'
  <2>1. \A i \in Versions(k) : i <= cur /\ projection[k].root <= i
    BY <1>1 DEF VersionsOf
  <2>2. \A i \in Versions(k) :
          i # cur => /\ cells[i].status # "Active"
                     /\ cells'[i] = cells[i]
                     /\ \E j \in Versions(k) : cells[j].parent = i
    BY <1>1, <1>8, ReconcileCells DEF VersionsOf
  <2>3. cells'[cur].until = at /\ cells'[cur].status = "Superseded"
    BY <1>1, ReconcileCells
  <2>4. ASSUME NEW i \in Versions(k)', NEW j \in Versions(k)', i < j
        PROVE  cells'[i].until <= cells'[j].from
    <3>1. i \in Versions(k)
      BY <1>1, <1>7, <1>8, <2>4, ReconcileCells
    <3>2. cells'[j].from = IF j = nextId THEN at ELSE cells[j].from
      BY <1>5, <1>7, <1>8, ReconcileCells
    <3>3. CASE i = cur
      <4>1. j = nextId
        BY <1>7, <1>8, <2>1, <2>4, <3>1, <3>3
      <4> QED
        BY <1>2, <2>3, <3>2, <3>3, <4>1
    <3>4. CASE i # cur
      <4>1. cells[i].until <= cells[cur].from
        BY <1>1, <1>8, <2>1, <3>1, <3>4 DEF VersionsOf
      <4>2. j # nextId => cells[i].until <= cells[j].from
        BY <1>1, <1>7, <2>4, <3>1 DEF VersionsOf
      <4>3. cells[i].until \in Nat
        BY <1>8, <3>1, TimeAssumption DEF TypeOK, Cell
      <4> QED
        BY <1>1, <1>2, <2>2, <3>1, <3>2, <3>4, <4>1, <4>2, <4>3
    <3> QED
      BY <3>3, <3>4
  <2>5. ASSUME NEW i \in Versions(k)'
        PROVE  /\ projection[k].root <= i /\ i <= nextId
               /\ RootOf(i)' = projection[k].root
    <3>1. CASE i = nextId
      <4>1. projection[k].root \in DOMAIN cells
        BY <1>3, <1>8
      <4> QED
        BY <1>5, <1>8, <3>1, <4>1, ReconcileCells DEF RootOf
    <3>2. CASE i \in Versions(k)
      <4>1. RootOf(i)' = RootOf(i)
        BY <1>8, <3>2, ReconcileCells DEF RootOf
      <4> QED
        BY <1>1, <1>8, <3>2, <4>1, ReconcileCells DEF VersionsOf
    <3> QED
      BY <1>7, <3>1, <3>2
  <2>6. ASSUME NEW i \in Versions(k)', i # nextId
        PROVE  /\ cells'[i].status # "Active"
               /\ \E j \in Versions(k)' : cells'[j].parent = i
    <3>1. CASE i = cur
      BY <1>5, <1>7, <2>3, <3>1
    <3>2. CASE i # cur
      <4>1. i \in Versions(k)
        BY <1>7, <2>6
      <4>2. PICK j \in Versions(k) : cells[j].parent = i
        BY <2>2, <3>2, <4>1
      <4>3. cells'[j].parent = i
        BY <1>8, <4>2, ReconcileCells
      <4> QED
        BY <1>7, <2>2, <3>2, <4>1, <4>3
    <3> QED
      BY <3>1, <3>2
  <2> QED
    BY <1>4, <2>4, <2>5, <2>6 DEF VersionsOf
<1> QED
  BY <1>7, <1>9, <1>10

\* What becomes of the versions of every key.
LEMMA ReconcileVersions ==
  ASSUME TypeOK, ChainInv, NEW in \in Input, Reconcile(in), NEW k \in Keys
  PROVE  /\ ProjectionOf(k)' /\ VersionsOf(k)'
         /\ IF k = in.key /\ ~OutOfOrder(in)
            THEN Versions(k)' = Versions(k) \cup {nextId}
            ELSE Versions(k)' = Versions(k)
<1>1. CASE k # in.key
  BY <1>1, ReconcileOtherKey
<1>2. CASE k = in.key /\ Current(k) = NoId
  <2>1. Versions(k) = {}
    BY <1>2, CurrentOfKey DEF Own, Versions
  <2> QED
    BY <1>2, <2>1, ReconcileFirst DEF OutOfOrder
<1>3. CASE k = in.key /\ Current(k) # NoId
  <2>1. CASE OutOfOrder(in)
    BY <1>3, <2>1, ReconcileLate
  <2>2. CASE ~OutOfOrder(in)
    <3>1. Current(k) \in DOMAIN cells
      BY <1>3, CurrentExists
    <3>2. cells[Current(k)].from \in Nat /\ ValidFrom(in) \in Nat
      BY <3>1, TimeAssumption DEF TypeOK, Cell, Input, ValidFrom
    <3>3. Supersedes(in)
      BY <1>3, <2>2, <3>2 DEF OutOfOrder, Supersedes
    <3> QED
      BY <1>3, <2>2, <3>3, ReconcileNewer
  <2> QED
    BY <2>1, <2>2
<1> QED
  BY <1>1, <1>2, <1>3

LEMMA ReconcileParents ==
  ASSUME TypeOK, ChainInv, NEW in \in Input, Reconcile(in)
  PROVE  /\ \A i \in DOMAIN cells' : ParentOf(i)'
         /\ \A i, j \in DOMAIN cells' :
              cells'[i].parent = cells'[j].parent /\ cells'[i].parent # NoId
              => i = j
<1> DEFINE cur == Current(in.key)
<1>1. ASSUME Supersedes(in)
      PROVE  /\ in.key \in Keys /\ cur \in DOMAIN cells
             /\ cur \in Versions(in.key)
             /\ cells[cur].until = Never
             /\ cells[cur].from <= ValidFrom(in)
  <2>1. in.key \in Keys /\ cur \in DOMAIN cells
    BY <1>1, CurrentExists DEF Supersedes, Input
  <2>2. ProjectionOf(in.key) /\ Own(in.key) # {}
    BY <1>1, <2>1, CurrentOfKey DEF Supersedes, ChainInv
  <2> QED
    BY <1>1, <2>1, <2>2, CurrentOfKey DEF Supersedes, ProjectionOf
<1>2. ASSUME NEW i \in DOMAIN cells, cells[i].parent # NoId
      PROVE  /\ cells[i].parent \in DOMAIN cells
             /\ ~(Supersedes(in) /\ cells[i].parent = cur)
  <2> DEFINE p == cells[i].parent
  <2>1. /\ cells[i].key \in Keys /\ p \in Versions(cells[i].key)
        /\ cells[p].until = cells[i].from
    BY <1>2 DEF ChainInv, ParentOf
  <2>2. cells[i].from < Never
    BY TimeAssumption DEF TypeOK, Cell
  <2>3. cells[i].from # Never
    BY <2>2, TimeAssumption DEF TypeOK, Cell
  <2> QED
    BY <1>1, <2>1, <2>3 DEF Versions
<1>3. ASSUME NEW i \in DOMAIN cells'
      PROVE  ParentOf(i)'
  <2>1. CASE i = nextId
    <3>1. CASE ~Supersedes(in)
      BY <2>1, <3>1, ReconcileCells DEF ParentOf
    <3>2. CASE Supersedes(in)
      <4>1. cells'[i].parent = cur /\ cells'[i].key = in.key
            /\ cells'[i].from = ValidFrom(in)
        BY <2>1, <3>2, ReconcileCells
      <4>2. cells'[cur].until = ValidFrom(in)
            /\ cells'[cur].from = cells[cur].from /\ cur < i
        BY <1>1, <2>1, <3>2, ReconcileCells
      <4>3. cur \in Versions(in.key)'
        BY <1>1, <3>2, ReconcileVersions
      <4> QED
        BY <1>1, <3>2, <4>1, <4>2, <4>3 DEF ParentOf
    <3> QED
      BY <3>1, <3>2
  <2>2. CASE i \in DOMAIN cells /\ cells[i].parent # NoId
    <3> DEFINE p == cells[i].parent
    <3>1. /\ p < i /\ cells[i].key \in Keys /\ p \in Versions(cells[i].key)
          /\ cells[p].until = cells[i].from /\ cells[p].from <= cells[p].until
      BY <2>2 DEF ChainInv, ParentOf
    <3>2. cells'[p] = cells[p]
      BY <1>2, <2>2, ReconcileCells
    <3>3. /\ cells'[i].parent = p /\ cells'[i].key = cells[i].key
          /\ cells'[i].from = cells[i].from
      BY <2>2, ReconcileCells
    <3>4. p \in Versions(cells[i].key)'
      BY <3>1, <3>3, ReconcileVersions
    <3> QED
      BY <3>1, <3>2, <3>3, <3>4 DEF ParentOf
  <2>3. CASE i \in DOMAIN cells /\ cells[i].parent = NoId
    BY <2>3, ReconcileCells DEF ParentOf
  <2> QED
    BY <2>1, <2>2, <2>3, ReconcileCells
<1>4. ASSUME NEW i \in DOMAIN cells', NEW j \in DOMAIN cells',
             cells'[i].parent = cells'[j].parent, cells'[i].parent # NoId
      PROVE  i = j
  <2>1. ASSUME NEW m \in DOMAIN cells', cells'[m].parent # NoId
        PROVE  \/ m \in DOMAIN cells /\ cells'[m].parent = cells[m].parent
               \/ m = nextId /\ Supersedes(in) /\ cells'[m].parent = cur
    BY <2>1, ReconcileCells
  <2>2. \A m, n \in DOMAIN cells :
          cells[m].parent = cells[n].parent /\ cells[m].parent # NoId => m = n
    BY DEF ChainInv
  <2> QED
    BY <1>2, <1>4, <2>1, <2>2
<1> QED
  BY <1>3, <1>4

LEMMA ReconcileTexts ==
  ASSUME TypeOK, ChainInv, NEW in \in Input, Reconcile(in)
  PROVE  \A i \in DOMAIN cells' : LastOfText(i)'
<1>1. byText' = [byText EXCEPT ![in.text] = nextId] /\ ~Duplicate(in)
  BY DEF Reconcile
<1>2. in.text \in Texts /\ \A i \in DOMAIN cells : cells[i].text \in Texts
  BY DEF Input, TypeOK, Cell
<1>3. \A t \in Texts : byText'[t] = IF t = in.text THEN nextId ELSE byText[t]
  BY <1>1, <1>2 DEF TypeOK
<1>4. \A i \in DOMAIN cells : byText[cells[i].text] \in DOMAIN cells
  BY <1>2 DEF TypeOK, ChainInv, LastOfText
<1>5. ASSUME NEW i \in DOMAIN cells, cells[i].status # "Active"
      PROVE  cells'[i].status # "Active"
  BY <1>5, ReconcileCells
<1>6. ASSUME NEW i \in DOMAIN cells'
      PROVE  LastOfText(i)'
  <2>1. CASE i = nextId
    BY <1>2, <1>3, <2>1, ReconcileCells DEF LastOfText
  <2>2. CASE i \in DOMAIN cells /\ cells[i].text = in.text
    <3>1. /\ i < nextId
          /\ cells'[i].text = in.text /\ cells'[nextId].text = in.text
      BY <2>2, ReconcileCells
    <3>2. cells[i].status # "Active"
      BY <1>1, <2>2 DEF ChainInv, LastOfText, Duplicate
    <3> QED
      BY <1>2, <1>3, <1>5, <2>2, <3>1, <3>2, ReconcileCells DEF LastOfText
  <2>3. CASE i \in DOMAIN cells /\ cells[i].text # in.text
    <3> DEFINE last == byText[cells[i].text]
    <3>1. /\ last # NoId /\ i <= last /\ cells[last].text = cells[i].text
          /\ i # last => cells[i].status # "Active"
      BY <2>3 DEF ChainInv, LastOfText
    <3>2. /\ cells'[i].text = cells[i].text
          /\ cells'[last].text = cells[last].text
      BY <1>4, <2>3, ReconcileCells
    <3>3. byText'[cells'[i].text] = last
      BY <1>2, <1>3, <2>3, <3>2
    <3> QED
      BY <1>5, <2>3, <3>1, <3>2, <3>3 DEF LastOfText
  <2> QED
    BY <2>1, <2>2, <2>3, ReconcileCells
<1> QED
  BY <1>6

\* Forgetting a cell changes nothing the invariant speaks of, except that the
\* cell is not active.
LEMMA ForgetChain ==
  ASSUME TypeOK, ChainInv, NEW i \in DOMAIN cells, Forget(i)
  PROVE  ChainInv'
<1>1. /\ DOMAIN cells' = DOMAIN cells
      /\ projection' = projection /\ byText' = byText
  BY DEF Forget
<1>2. ASSUME NEW j \in DOMAIN cells
      PROVE  /\ cells'[j].text = cells[j].text
             /\ cells'[j].key = cells[j].key
             /\ cells'[j].from = cells[j].from
             /\ cells'[j].until = cells[j].until
             /\ cells'[j].parent = cells[j].parent
             /\ cells'[j].root = cells[j].root
             /\ cells[j].status # "Active" => cells'[j].status # "Active"
  <2>1. cells[j] \in Cell /\ cells \in [DOMAIN cells -> Cell]
    BY DEF TypeOK
  <2>2. cells' = [cells EXCEPT ![i].status = "Forgotten"]
    BY DEF Forget
  <2>3. CASE j = i
    <3>1. cells'[j] = [cells[j] EXCEPT !.status = "Forgotten"]
      BY <2>1, <2>2, <2>3
    <3> QED
      BY <2>1, <3>1 DEF Cell
  <2>4. CASE j # i
    BY <2>1, <2>2, <2>4
  <2> QED
    BY <2>3, <2>4
<1>3. \A k \in Keys : Own(k)' = Own(k) /\ Versions(k)' = Versions(k)
  BY <1>1, <1>2 DEF Own, Versions
<1>4. \A k \in Keys : Versions(k) \subseteq DOMAIN cells
                      /\ Own(k) \subseteq DOMAIN cells
  BY DEF Versions, Own
<1>5. \A k \in Keys : ProjectionOf(k)'
  BY <1>1, <1>2, <1>3, <1>4 DEF ChainInv, ProjectionOf
<1>6. \A k \in Keys : VersionsOf(k)'
  <2>1. \A j \in DOMAIN cells : RootOf(j)' = RootOf(j)
    BY <1>2 DEF RootOf
  <2> QED
    BY <1>1, <1>2, <1>3, <1>4, <2>1 DEF ChainInv, VersionsOf
<1>7. \A j \in DOMAIN cells : ParentOf(j)'
  <2> SUFFICES ASSUME NEW j \in DOMAIN cells, cells[j].parent # NoId
               PROVE  ParentOf(j)'
    BY <1>2 DEF ParentOf
  <2>1. cells[j].parent \in DOMAIN cells /\ ParentOf(j)
    BY <1>4 DEF ChainInv, ParentOf
  <2> QED
    BY <1>2, <1>3, <2>1 DEF ParentOf
<1>8. \A j \in DOMAIN cells : LastOfText(j)'
  <2> SUFFICES ASSUME NEW j \in DOMAIN cells
               PROVE  LastOfText(j)'
    OBVIOUS
  <2>1. byText[cells[j].text] \in DOMAIN cells /\ LastOfText(j)
    BY DEF ChainInv, LastOfText, TypeOK, Cell
  <2> QED
    BY <1>1, <1>2, <2>1 DEF LastOfText
<1> QED
  BY <1>1, <1>2, <1>5, <1>6, <1>7, <1>8 DEF ChainInv

LEMMA ChainInit ==
  ASSUME Init
  PROVE  ChainInv
BY DEF Init, ChainInv, ProjectionOf, VersionsOf, Own, Versions

LEMMA ChainStep ==
  ASSUME TypeOK, ChainInv, [Next]_vars
  PROVE  ChainInv'
<1>1. CASE CaptureEpisode
  BY <1>1 DEF CaptureEpisode, ChainInv, ProjectionOf, VersionsOf, ParentOf,
     LastOfText, Own, Versions, RootOf
<1>2. ASSUME NEW in \in Input, Reconcile(in)
      PROVE  ChainInv'
  BY <1>2, ReconcileVersions, ReconcileParents, ReconcileTexts DEF ChainInv
<1>3. ASSUME NEW i \in DOMAIN cells, Forget(i)
      PROVE  ChainInv'
  BY <1>3, ForgetChain
<1>4. CASE UNCHANGED vars
  BY <1>4 DEF vars, ChainInv, ProjectionOf, VersionsOf, ParentOf,
     LastOfText, Own, Versions, RootOf
<1> QED
  BY <1>1, <1>2, <1>3, <1>4 DEF Next

\* The inductive invariant of the version chains.
THEOREM ChainInvariant == Spec => []ChainInv
BY ChainInit, ChainStep, TypeCorrect, PTL DEF Spec

----------------------------------------------------------------------------
(* The properties that follow from the invariant.                          *)

LEMMA ChainLinkedFollows ==
  ASSUME TypeOK, ChainInv
  PROVE  ChainLinked
<1> SUFFICES ASSUME NEW i \in DOMAIN cells, cells[i].parent # NoId
             PROVE  LET p == cells[i].parent
                    IN /\ p \in DOMAIN cells /\ p < i
                       /\ cells[i].key # NoKey /\ cells[p].key = cells[i].key
                       /\ cells[p].until = cells[i].from
                       /\ cells[p].from <= cells[p].until
                       /\ cells[p].status # "Active"
                       /\ \A j \in DOMAIN cells : cells[j].parent = p => j = i
  BY DEF ChainLinked
<1> DEFINE p == cells[i].parent
           k == cells[i].key
<1>1. /\ p < i /\ k \in Keys /\ p \in Versions(k)
      /\ cells[p].until = cells[i].from /\ cells[p].from <= cells[p].until
  BY DEF ChainInv, ParentOf
<1>2. p \in DOMAIN cells /\ cells[p].key = k /\ k # NoKey
  BY <1>1, NameAssumption DEF Versions
<1>3. cells[i].from # Never
  BY TimeAssumption DEF TypeOK, Cell
<1>4. Own(k) # {}
  BY <1>2 DEF Own
<1>5. cells[projection[k].active].until = Never
  BY <1>1, <1>4 DEF ChainInv, ProjectionOf
<1>6. cells[p].status # "Active"
  BY <1>1, <1>3, <1>5 DEF ChainInv, VersionsOf
<1> QED
  BY <1>1, <1>2, <1>6 DEF ChainInv

\* Every replaced version was replaced once, by a version of its own key that
\* starts where it ends.
THEOREM ChainsAreLinked == Spec => []ChainLinked
BY TypeCorrect, ChainInvariant, ChainLinkedFollows, PTL

LEMMA ProjectionNewestFollows ==
  ASSUME ChainInv
  PROVE  ProjectionNewest
<1>1. \A k \in Keys : Versions(k) \subseteq Own(k)
  BY DEF Versions, Own
<1>2. \A k \in Keys : ProjectionOf(k)
  BY DEF ChainInv
<1> QED
  BY <1>1, <1>2 DEF ProjectionNewest, ProjectionOf, Own

\* The projection of a key points at its newest cell.
THEOREM ProjectionsAreNewest == Spec => []ProjectionNewest
BY ChainInvariant, ProjectionNewestFollows, PTL

LEMMA DedupFollows ==
  ASSUME TypeOK, ChainInv
  PROVE  DedupComplete
BY DEF ChainInv, LastOfText, DedupComplete

\* No two active cells hold the same text.
THEOREM NoActiveDuplicates == Spec => []DedupComplete
BY TypeCorrect, ChainInvariant, DedupFollows, PTL

LEMMA AsOfAgreesFollows ==
  ASSUME TypeOK, ChainInv
  PROVE  AsOfAgrees
<1> SUFFICES ASSUME NEW k \in Keys, NEW t \in Times
             PROVE  { i \in Versions(k) :
                        cells[i].from <= t /\ t < cells[i].until }
                      = { v.ver : v \in T!AsOf(k, t) }
  BY DEF AsOfAgrees
<1> DEFINE version(i) == [ver |-> i, value |-> cells[i].text,
                          from |-> cells[i].from]
           latest(i) == /\ i \in Versions(k) /\ cells[i].from <= t
                        /\ \A j \in Versions(k) : cells[j].from <= t => j <= i
<1>1. /\ \A i \in Versions(k) : /\ i \in DOMAIN cells /\ i \in Nat
                                /\ cells[i].from \in Nat
                                /\ cells[i].until \in Nat
                                /\ cells[i].key = k
      /\ t \in Nat /\ t < Never
  BY TimeAssumption DEF Versions, TypeOK, Cell
<1>2. VersionsOf(k) /\ ProjectionOf(k)
  BY DEF ChainInv
<1>3. ASSUME NEW i \in Versions(k), cells[i].from <= t, t < cells[i].until
      PROVE  latest(i)
  <2> SUFFICES ASSUME NEW j \in Versions(k), cells[j].from <= t, i < j
               PROVE  FALSE
    BY <1>1, <1>3
  <2>1. cells[i].until <= cells[j].from
    BY <1>2 DEF VersionsOf
  <2> QED
    BY <1>1, <1>3, <2>1
<1>4. ASSUME NEW i, latest(i)
      PROVE  t < cells[i].until
  <2>1. CASE i = projection[k].active
    <3>1. Own(k) # {}
      BY <1>1, <1>4 DEF Own
    <3> QED
      BY <1>1, <1>2, <2>1, <3>1 DEF ProjectionOf
  <2>2. CASE i # projection[k].active
    <3>1. PICK j \in Versions(k) : cells[j].parent = i
      BY <1>2, <1>4, <2>2 DEF VersionsOf
    <3>2. i < j /\ cells[i].until = cells[j].from
      BY <1>1, <1>4, <3>1 DEF ChainInv, ParentOf, TypeOK, NoId
    <3> QED
      BY <1>1, <1>4, <3>1, <3>2
  <2> QED
    BY <2>1, <2>2
<1>5. T!AsOf(k, t) = { v \in { version(i) : i \in Versions(k) } :
                         /\ v.from <= t
                         /\ \A w \in { version(i) : i \in Versions(k) } :
                              w.from <= t => w.ver <= v.ver }
  BY DEF T!AsOf, History
<1>6. ASSUME NEW i
      PROVE  i \in { v.ver : v \in T!AsOf(k, t) } <=> latest(i)
  <2>1. ASSUME latest(i)
        PROVE  version(i) \in T!AsOf(k, t) /\ version(i).ver = i
    BY <1>5, <2>1
  <2>2. ASSUME NEW v \in T!AsOf(k, t), v.ver = i
        PROVE  latest(i)
    <3>1. PICK m \in Versions(k) : v = version(m)
      BY <1>5
    <3>2. m = i /\ v.from = cells[i].from
      BY <2>2, <3>1
    <3>3. ASSUME NEW j \in Versions(k), cells[j].from <= t
          PROVE  j <= i
      <4>1. version(j).from = cells[j].from /\ version(j).ver = j
        OBVIOUS
      <4> QED
        BY <1>5, <2>2, <3>3, <4>1
    <3> QED
      BY <1>5, <3>2, <3>1, <3>3
  <2> QED
    BY <2>1, <2>2
<1> QED
  BY <1>3, <1>4, <1>6

\* The windows of a key's versions answer an as-of question as the timeline
\* does: without overlap and without a gap.
THEOREM WindowsAnswerAsOf == Spec => []AsOfAgrees
BY TypeCorrect, ChainInvariant, AsOfAgreesFollows, PTL

----------------------------------------------------------------------------
(* The refinement.                                                         *)

LEMMA ReconcileRefines ==
  ASSUME TypeOK, ChainInv, NEW in \in Input, Reconcile(in)
  PROVE  [T!Next]_History
<1> DEFINE version(i) == [ver |-> i, value |-> cells[i].text,
                          from |-> cells[i].from]
           k == in.key
           new == [ver |-> nextId, value |-> in.text, from |-> ValidFrom(in)]
<1>1. \A m \in Keys : Versions(m) \subseteq DOMAIN cells
  BY DEF Versions
<1>2. History = [m \in Keys |-> { version(i) : i \in Versions(m) }]
  BY DEF History
<1>3. History' = [m \in Keys |-> { [ver |-> i, value |-> cells'[i].text,
                                    from |-> cells'[i].from]
                                    : i \in Versions(m)' }]
  BY DEF History
<1>4. ASSUME NEW m \in Keys, ~(m = k /\ ~OutOfOrder(in))
      PROVE  History'[m] = History[m]
  <2>1. Versions(m)' = Versions(m)
    BY <1>4, ReconcileVersions
  <2>2. \A i \in Versions(m) : /\ cells'[i].text = cells[i].text
                               /\ cells'[i].from = cells[i].from
    BY <1>1, ReconcileCells
  <2> QED
    BY <1>2, <1>3, <2>1, <2>2
<1>5. CASE k \in Keys /\ ~OutOfOrder(in)
  <2>1. Versions(k)' = Versions(k) \cup {nextId}
    BY <1>5, ReconcileVersions
  <2>2. \A i \in Versions(k) : /\ cells'[i].text = cells[i].text
                               /\ cells'[i].from = cells[i].from
    BY <1>1, <1>5, ReconcileCells
  <2>3. cells'[nextId].text = in.text /\ cells'[nextId].from = ValidFrom(in)
    BY ReconcileCells
  <2>4. History'[k] = History[k] \cup {new}
    BY <1>2, <1>3, <1>5, <2>1, <2>2, <2>3
  <2>5. ASSUME NEW old \in History[k]
        PROVE  old.ver < new.ver /\ old.from <= new.from
    <3>1. PICK i \in Versions(k) : old = version(i)
      BY <1>2, <1>5
    <3>2. i \in Own(k) /\ i \in DOMAIN cells
      BY <3>1 DEF Versions, Own
    <3>3. Current(k) # NoId /\ cells[i].from <= cells[Current(k)].from
      BY <1>5, <3>2, CurrentOfKey DEF ChainInv, ProjectionOf
    <3>4. Current(k) \in DOMAIN cells
      BY <1>5, <3>3, CurrentExists
    <3>5. /\ cells[i].from \in Nat /\ cells[Current(k)].from \in Nat
          /\ ValidFrom(in) \in Nat
      BY <3>2, <3>4, TimeAssumption DEF TypeOK, Cell, Input, ValidFrom
    <3>6. cells[Current(k)].from <= ValidFrom(in)
      BY <1>5, <3>3, <3>5 DEF OutOfOrder
    <3> QED
      BY <3>1, <3>2, <3>3, <3>5, <3>6, ReconcileCells
  <2>6. new \notin History[k]
    <3>1. nextId \in Nat
      BY ReconcileCells
    <3> QED
      BY <2>5, <3>1
  <2>7. History' = [History EXCEPT ![k] = History[k] \cup {new}]
    BY <1>2, <1>3, <1>4, <1>5, <2>4
  <2>8. T!Assert(k)
    BY <2>4, <2>5, <2>6, <2>7 DEF T!Assert
  <2> QED
    BY <1>5, <2>8 DEF T!Next
<1>6. CASE ~(k \in Keys /\ ~OutOfOrder(in))
  <2>1. \A m \in Keys : History'[m] = History[m]
    BY <1>4, <1>6
  <2>2. History' = History
    BY <1>2, <1>3, <2>1
  <2> QED
    BY <2>2
<1> QED
  BY <1>5, <1>6

\* The store implements the timeline: versions are only appended, and the
\* current truth of a key never moves back in event time.
THEOREM StoreRefinesTimeline == Spec => RefinesTimeline
<1>1. Init => T!Init
  BY DEF Init, T!Init, History, Versions
<1>2. TypeOK /\ ChainInv /\ [Next]_vars => [T!Next]_History
  <2> SUFFICES ASSUME TypeOK, ChainInv, [Next]_vars
               PROVE  [T!Next]_History
    OBVIOUS
  <2>1. CASE CaptureEpisode
    BY <2>1 DEF CaptureEpisode, History, Versions
  <2>2. ASSUME NEW in \in Input, Reconcile(in)
        PROVE  [T!Next]_History
    BY <2>2, ReconcileRefines
  <2>3. ASSUME NEW i \in DOMAIN cells, Forget(i)
        PROVE  [T!Next]_History
    <3>1. DOMAIN cells' = DOMAIN cells /\ projection' = projection
      BY <2>3 DEF Forget
    <3>2. \A j \in DOMAIN cells :
            /\ cells'[j].text = cells[j].text
            /\ cells'[j].key = cells[j].key
            /\ cells'[j].from = cells[j].from
            /\ cells'[j].parent = cells[j].parent
      BY <2>3 DEF Forget, TypeOK, Cell
    <3>3. \A m \in Keys : Versions(m)' = Versions(m)
                          /\ Versions(m) \subseteq DOMAIN cells
      BY <3>1, <3>2 DEF Versions
    <3>4. History' = History
      BY <3>2, <3>3 DEF History
    <3> QED
      BY <3>4
  <2>4. CASE UNCHANGED vars
    BY <2>4 DEF vars, History, Versions
  <2> QED
    BY <2>1, <2>2, <2>3, <2>4 DEF Next
<1> QED
  BY <1>1, <1>2, TypeCorrect, ChainInvariant, PTL DEF Spec, T!Spec,
     RefinesTimeline

----------------------------------------------------------------------------
(* Evidence is retained.                                                   *)

\* EvidenceRetained speaks of one cell as follows.
Retained(i) ==
  /\ i \in DOMAIN cells'
  /\ SameEvidence(cells'[i], cells[i])
  /\ cells[i].until # Never => cells'[i].until = cells[i].until

LEMMA ReconcileRetains ==
  ASSUME TypeOK, ChainInv, NEW in \in Input, Reconcile(in),
         NEW i \in DOMAIN cells
  PROVE  Retained(i)
<1>1. i \in DOMAIN cells' /\ SameEvidence(cells'[i], cells[i])
  BY ReconcileCells
<1>2. ASSUME Supersedes(in), i = Current(in.key)
      PROVE  cells[i].until = Never
  <2>1. in.key \in Keys /\ Own(in.key) # {} /\ i = projection[in.key].active
    BY <1>2, CurrentExists, CurrentOfKey DEF Supersedes, Input
  <2> QED
    BY <2>1 DEF ChainInv, ProjectionOf
<1> QED
  BY <1>1, <1>2, ReconcileCells DEF Retained

LEMMA ForgetRetains ==
  ASSUME TypeOK, NEW c \in DOMAIN cells, Forget(c), NEW i \in DOMAIN cells
  PROVE  Retained(i)
<1>1. cells' = [cells EXCEPT ![c].status = "Forgotten"]
  BY DEF Forget
<1>2. DOMAIN cells' = DOMAIN cells
  BY <1>1
<1>3. i \in DOMAIN cells' /\ SameEvidence(cells'[i], cells[i])
      /\ cells'[i].until = cells[i].until
  BY <1>1, <1>2 DEF TypeOK, Cell, SameEvidence
<1> QED
  BY <1>3 DEF Retained

LEMMA RetainsStep ==
  ASSUME TypeOK, ChainInv, [Next]_vars
  PROVE  /\ edges \subseteq edges' /\ episodes \subseteq episodes'
         /\ \A i \in DOMAIN cells : Retained(i)
<1>1. CASE CaptureEpisode \/ UNCHANGED vars
  BY <1>1 DEF CaptureEpisode, vars, Retained, SameEvidence
<1>2. ASSUME NEW in \in Input, Reconcile(in)
      PROVE  /\ edges \subseteq edges' /\ episodes \subseteq episodes'
             /\ \A i \in DOMAIN cells : Retained(i)
  <2>1. edges \subseteq edges' /\ episodes \subseteq episodes'
    BY <1>2 DEF Reconcile, EdgesAfter
  <2> QED
    BY <1>2, <2>1, ReconcileRetains
<1>3. ASSUME NEW c \in DOMAIN cells, Forget(c)
      PROVE  /\ edges \subseteq edges' /\ episodes \subseteq episodes'
             /\ \A i \in DOMAIN cells : Retained(i)
  <2>1. edges \subseteq edges' /\ episodes \subseteq episodes'
    BY <1>3 DEF Forget
  <2> QED
    BY <1>3, <2>1, ForgetRetains
<1> QED
  BY <1>1, <1>2, <1>3 DEF Next

\* No step removes an episode, an edge or a cell, alters what a cell states,
\* or moves the end of a window that was closed.
THEOREM EvidenceIsRetained == Spec => EvidenceRetained
<1>1. TypeOK /\ ChainInv /\ [Next]_vars =>
        [/\ edges \subseteq edges' /\ episodes \subseteq episodes'
         /\ \A i \in DOMAIN cells : Retained(i)]_vars
  BY RetainsStep
<1> QED
  BY <1>1, TypeCorrect, ChainInvariant, PTL
  DEF Spec, EvidenceRetained, Retained

----------------------------------------------------------------------------
(* The edges.                                                              *)

Typed(type) == { e \in edges : e.type = type }
Linked == { i \in DOMAIN cells : cells[i].parent # NoId }
Late ==
  { i \in DOMAIN cells :
      cells[i].key # NoKey /\ i \notin Versions(cells[i].key) }

\* EdgesMatchHistory, in the terms above.
LEMMA EdgesUnfolded ==
  EdgesMatchHistory <=>
    /\ { <<e.src, e.dst>> : e \in Typed("Updates") }
         = { <<cells[i].parent, i>> : i \in Linked }
    /\ { e.dst : e \in Typed("Related") } = Late
    /\ \A e \in Typed("Related") :
         /\ e.src \in Versions(cells[e.dst].key)
         /\ cells[e.dst].from < cells[e.src].from
BY DEF EdgesMatchHistory, Typed, Linked, Late

LEMMA EdgesUnfoldedNext ==
  (EdgesMatchHistory <=>
    /\ { <<e.src, e.dst>> : e \in Typed("Updates") }
         = { <<cells[i].parent, i>> : i \in Linked }
    /\ { e.dst : e \in Typed("Related") } = Late
    /\ \A e \in Typed("Related") :
         /\ e.src \in Versions(cells[e.dst].key)
         /\ cells[e.dst].from < cells[e.src].from)'
BY EdgesUnfolded, PTL

\* A cell that arrives for a key is the first, a newer or a late one.
LEMMA WhatArrives ==
  ASSUME TypeOK, NEW in \in Input, Current(in.key) # NoId
  PROVE  /\ in.key \in Keys /\ Current(in.key) \in DOMAIN cells
         /\ OutOfOrder(in) <=> ~Supersedes(in)
<1>1. in.key \in Keys /\ Current(in.key) \in DOMAIN cells
  BY CurrentExists DEF Input
<1>2. cells[Current(in.key)].from \in Nat /\ ValidFrom(in) \in Nat
  BY <1>1, TimeAssumption DEF TypeOK, Cell, Input, ValidFrom
<1> QED
  BY <1>1, <1>2 DEF OutOfOrder, Supersedes

LEMMA ReconcileLinked ==
  ASSUME TypeOK, NEW in \in Input, Reconcile(in)
  PROVE  Linked' = IF Supersedes(in) THEN Linked \cup {nextId} ELSE Linked
BY ReconcileCells DEF Linked, Supersedes

LEMMA ReconcileLateCells ==
  ASSUME TypeOK, ChainInv, NEW in \in Input, Reconcile(in)
  PROVE  Late' = IF OutOfOrder(in) THEN Late \cup {nextId} ELSE Late
<1>1. \A i \in DOMAIN cells : cells[i].key \in Keys \cup {NoKey}
  BY DEF TypeOK, Cell
<1>2. \A k \in Keys : nextId \notin Versions(k)
  BY ReconcileCells DEF Versions
<1>3. ASSUME NEW i \in DOMAIN cells
      PROVE  i \in Late' <=> i \in Late
  <2>1. /\ i \in DOMAIN cells' /\ i # nextId
        /\ cells'[i].key = cells[i].key
    BY ReconcileCells
  <2>2. CASE cells[i].key = NoKey
    BY <2>1, <2>2 DEF Late
  <2>3. CASE cells[i].key \in Keys
    <3>1. i \in Versions(cells[i].key)' <=> i \in Versions(cells[i].key)
      BY <2>1, <2>3, ReconcileVersions
    <3> QED
      BY <2>1, <3>1 DEF Late
  <2> QED
    BY <1>1, <2>2, <2>3
<1>4. nextId \in Late' <=> OutOfOrder(in)
  <2>1. nextId \in DOMAIN cells' /\ cells'[nextId].key = in.key
    BY ReconcileCells
  <2>2. CASE in.key = NoKey
    BY <2>1, <2>2, WhatArrives, NameAssumption DEF Late, OutOfOrder
  <2>3. CASE in.key \in Keys
    <3>1. nextId \in Versions(in.key)' <=> ~OutOfOrder(in)
      BY <1>2, <2>3, ReconcileVersions
    <3> QED
      BY <2>1, <2>3, <3>1, NameAssumption DEF Late
  <2> QED
    BY <2>2, <2>3 DEF Input
<1>5. Late \subseteq DOMAIN cells /\ Late' \subseteq DOMAIN cells \cup {nextId}
  BY ReconcileCells DEF Late
<1> QED
  BY <1>3, <1>4, <1>5

LEMMA ReconcileEdges ==
  ASSUME TypeOK, ChainInv, EdgesMatchHistory, NEW in \in Input, Reconcile(in)
  PROVE  EdgesMatchHistory'
<1> DEFINE cur == Current(in.key)
<1>1. /\ { <<e.src, e.dst>> : e \in Typed("Updates") }
           = { <<cells[i].parent, i>> : i \in Linked }
      /\ { e.dst : e \in Typed("Related") } = Late
      /\ \A e \in Typed("Related") :
           /\ e.src \in Versions(cells[e.dst].key)
           /\ cells[e.dst].from < cells[e.src].from
  BY EdgesUnfolded
<1>2. \A i \in DOMAIN cells :
        /\ cells'[i].parent = cells[i].parent
        /\ cells'[i].from = cells[i].from
        /\ cells'[i].key = cells[i].key
  BY ReconcileCells
<1>3. { <<cells'[i].parent, i>> : i \in Linked }
        = { <<cells[i].parent, i>> : i \in Linked }
  BY <1>2 DEF Linked
<1>4. ASSUME NEW e \in Typed("Related")
      PROVE  (/\ e.src \in Versions(cells[e.dst].key)
              /\ cells[e.dst].from < cells[e.src].from)'
  <2>1. /\ e.dst \in Late /\ e.src \in Versions(cells[e.dst].key)
        /\ cells[e.dst].from < cells[e.src].from
    BY <1>1
  <2>2. PICK k \in Keys : k = cells[e.dst].key
    BY <2>1 DEF Late, TypeOK, Cell
  <2>3. e.dst \in DOMAIN cells /\ e.src \in DOMAIN cells
    BY <2>1 DEF Late, Versions
  <2>4. e.src \in Versions(k)' /\ cells'[e.dst].key = k
    BY <1>2, <2>1, <2>2, <2>3, ReconcileVersions
  <2>5. e.src \in Versions(cells[e.dst].key)'
    BY <2>4
  <2> QED
    BY <1>2, <2>1, <2>3, <2>5
<1>5. CASE cur = NoId
  <2>1. edges' = edges /\ ~Supersedes(in) /\ ~OutOfOrder(in)
    BY <1>5 DEF Reconcile, EdgesAfter, Supersedes, OutOfOrder
  <2>2. /\ Linked' = Linked /\ Late' = Late
        /\ Typed("Updates")' = Typed("Updates")
        /\ Typed("Related")' = Typed("Related")
    BY <2>1, ReconcileLinked, ReconcileLateCells DEF Typed
  <2> QED
    BY <1>1, <1>3, <1>4, <2>2, EdgesUnfoldedNext
<1>6. CASE cur # NoId
  <2>1. in.key \in Keys /\ cur \in DOMAIN cells /\ cur \in Versions(in.key)
    BY <1>6, WhatArrives, CurrentOfKey
  <2>2. PICK new : /\ edges' = edges \cup {new}
                   /\ new.type = IF Supersedes(in) THEN "Updates"
                                                   ELSE "Related"
                   /\ new.src = cur /\ new.dst = nextId
    <3>1. PICK id : edges' = EdgesAfter(in, id)
      BY DEF Reconcile
    <3> DEFINE new == [id |-> id,
                       type |-> IF Supersedes(in) THEN "Updates"
                                                  ELSE "Related",
                       src |-> cur, dst |-> nextId, at |-> in.observed]
    <3>2. edges' = edges \cup {new}
      BY <1>6, <3>1 DEF EdgesAfter
    <3>3. /\ new.type = IF Supersedes(in) THEN "Updates" ELSE "Related"
          /\ new.src = cur /\ new.dst = nextId
      OBVIOUS
    <3> HIDE DEF new
    <3> QED
      BY <3>2, <3>3
  <2>3. CASE Supersedes(in)
    <3>1. /\ Typed("Updates")' = Typed("Updates") \cup {new}
          /\ Typed("Related")' = Typed("Related")
      BY <2>2, <2>3 DEF Typed
    <3>2. Linked' = Linked \cup {nextId} /\ Late' = Late
      BY <1>6, <2>3, WhatArrives, ReconcileLinked, ReconcileLateCells
    <3>3. cells'[nextId].parent = cur
      BY <2>3, ReconcileCells
    <3>4. { <<e.src, e.dst>> : e \in Typed("Updates") \cup {new} }
            = { <<cells'[i].parent, i>> : i \in Linked \cup {nextId} }
      <4>1. { <<e.src, e.dst>> : e \in Typed("Updates") \cup {new} }
              = { <<e.src, e.dst>> : e \in Typed("Updates") }
                  \cup {<<cur, nextId>>}
        BY <2>2
      <4>2. { <<cells'[i].parent, i>> : i \in Linked \cup {nextId} }
              = { <<cells'[i].parent, i>> : i \in Linked }
                  \cup {<<cur, nextId>>}
        BY <3>3
      <4> QED
        BY <1>1, <1>3, <4>1, <4>2
    <3> QED
      BY <1>1, <1>4, <3>1, <3>2, <3>4, EdgesUnfoldedNext
  <2>4. CASE ~Supersedes(in)
    <3>1. OutOfOrder(in)
      BY <1>6, <2>4, WhatArrives
    <3>2. /\ Typed("Updates")' = Typed("Updates")
          /\ Typed("Related")' = Typed("Related") \cup {new}
      BY <2>2, <2>4 DEF Typed
    <3>3. Linked' = Linked /\ Late' = Late \cup {nextId}
      BY <2>4, <3>1, ReconcileLinked, ReconcileLateCells
    <3>4. { e.dst : e \in Typed("Related") \cup {new} }
            = { e.dst : e \in Typed("Related") } \cup {nextId}
      BY <2>2
    <3>5. (/\ new.src \in Versions(cells[new.dst].key)
           /\ cells[new.dst].from < cells[new.src].from)'
      <4>1. PICK k \in Keys : k = in.key
        BY <2>1
      <4>2. cur \in Versions(k)'
        BY <2>1, <4>1, ReconcileVersions
      <4>3. /\ cells'[nextId].key = k /\ cells'[nextId].from = ValidFrom(in)
            /\ cells'[cur].from = cells[cur].from
        BY <2>1, <4>1, ReconcileCells
      <4>4. new.src \in Versions(cells[new.dst].key)'
        BY <2>2, <4>2, <4>3
      <4>5. ValidFrom(in) < cells[cur].from
        BY <3>1 DEF OutOfOrder
      <4> QED
        BY <2>2, <4>3, <4>4, <4>5
    <3> QED
      BY <1>1, <1>3, <1>4, <3>2, <3>3, <3>4, <3>5, EdgesUnfoldedNext
  <2> QED
    BY <2>3, <2>4
<1> QED
  BY <1>5, <1>6

LEMMA ForgetEdges ==
  ASSUME TypeOK, ChainInv, EdgesMatchHistory, NEW c \in DOMAIN cells, Forget(c)
  PROVE  EdgesMatchHistory'
<1>1. edges' = edges /\ DOMAIN cells' = DOMAIN cells
  BY DEF Forget
<1>2. \A i \in DOMAIN cells : /\ cells'[i].key = cells[i].key
                              /\ cells'[i].from = cells[i].from
                              /\ cells'[i].parent = cells[i].parent
  BY DEF Forget, TypeOK, Cell
<1>3. \A k : Versions(k)' = Versions(k) /\ Versions(k) \subseteq DOMAIN cells
  BY <1>1, <1>2 DEF Forget, Versions
<1>4. /\ Typed("Updates")' = Typed("Updates")
      /\ Typed("Related")' = Typed("Related") /\ Linked' = Linked
  BY <1>1, <1>2 DEF Typed, Linked
<1>5. Late' = Late
  BY <1>1, <1>2, <1>3 DEF Late
<1>6. { <<cells'[i].parent, i>> : i \in Linked }
        = { <<cells[i].parent, i>> : i \in Linked }
  BY <1>2 DEF Linked
<1>7. ASSUME NEW e \in Typed("Related")
      PROVE  (/\ e.src \in Versions(cells[e.dst].key)
              /\ cells[e.dst].from < cells[e.src].from)'
  <2>1. /\ e.dst \in Late /\ e.src \in Versions(cells[e.dst].key)
        /\ cells[e.dst].from < cells[e.src].from
    BY EdgesUnfolded
  <2>2. e.dst \in DOMAIN cells /\ e.src \in DOMAIN cells
    BY <2>1 DEF Late, Versions
  <2> QED
    BY <1>2, <1>3, <2>1, <2>2
<1> QED
  BY <1>4, <1>5, <1>6, <1>7, EdgesUnfolded, EdgesUnfoldedNext

LEMMA EdgesStep ==
  ASSUME TypeOK, ChainInv, EdgesMatchHistory, [Next]_vars
  PROVE  EdgesMatchHistory'
<1>1. CASE CaptureEpisode \/ UNCHANGED vars
  BY <1>1 DEF CaptureEpisode, vars, EdgesMatchHistory, Versions
<1>2. ASSUME NEW in \in Input, Reconcile(in) PROVE EdgesMatchHistory'
  BY <1>2, ReconcileEdges
<1>3. ASSUME NEW c \in DOMAIN cells, Forget(c) PROVE EdgesMatchHistory'
  BY <1>3, ForgetEdges
<1> QED
  BY <1>1, <1>2, <1>3 DEF Next

\* The edges tell the whole history: one Updates edge for each cell that
\* replaced another, one Related edge for each that came late (the edges of
\* Store::reconcile; MemoryStore.EdgesMatchHistory).
THEOREM EdgesTellHistory == Spec => []EdgesMatchHistory
<1>1. Init => EdgesMatchHistory
  BY DEF Init, EdgesMatchHistory
<1> QED
  BY <1>1, EdgesStep, TypeCorrect, ChainInvariant, PTL DEF Spec

----------------------------------------------------------------------------
(* The count of versions.                                                  *)

LEMMA LeastNatural ==
  ASSUME NEW S, S \subseteq Nat, S # {}
  PROVE  \E m \in S : \A n \in S : m <= n
<1> DEFINE R == OpToRel(<, Nat)
<1>1. IsWellFoundedOn(R, Nat)
  BY NatLessThanWellFounded
<1>2. \A m, n \in S : n < m => <<n, m>> \in R
  BY DEF OpToRel
<1> HIDE DEF R
<1>3. PICK m \in S : \A n \in S : ~ (<<n, m>> \in R)
  BY <1>1, WFMin
<1>4. \A n \in S : ~ (n < m)
  BY <1>2, <1>3
<1> QED
  BY <1>4

LEMMA GreatestNatural ==
  ASSUME NEW S, S \subseteq Nat, S # {}, NEW b \in Nat, \A n \in S : n <= b
  PROVE  \E m \in S : \A n \in S : n <= m
<1> DEFINE T0 == { u \in Nat : \A n \in S : n <= u }
<1>1. T0 \subseteq Nat /\ T0 # {}
  OBVIOUS
<1>2. PICK u \in T0 : \A v \in T0 : u <= v
  <2> HIDE DEF T0
  <2> QED
    BY <1>1, LeastNatural
<1>3. u \in S
  <2> SUFFICES ASSUME u \notin S PROVE FALSE
    OBVIOUS
  <2>1. PICK n \in S : TRUE
    OBVIOUS
  <2>2. u # 0
    BY <2>1
  <2>3. u - 1 \in T0
    BY <2>2
  <2> QED
    BY <1>2, <2>3
<1> QED
  BY <1>3

\* The walk from the current cell of a key over the parents meets exactly the
\* versions of the key: a set with that cell that is closed under parents has
\* them all, for the last version it lacked would have a child it has.
LEMMA LineageIsVersions ==
  TypeOK /\ ChainInv =>
    \A k \in Keys :
      Own(k) # {} => Lineage(cells, projection[k].active) = Versions(k)
<1> SUFFICES ASSUME TypeOK, ChainInv, NEW k \in Keys, Own(k) # {}
             PROVE  Lineage(cells, projection[k].active) = Versions(k)
  OBVIOUS
<1> DEFINE a == projection[k].active
           Closed(S) == /\ a \in S
                        /\ \A x \in S : cells[x].parent # NoId =>
                                          cells[x].parent \in S
<1>1. /\ a \in Versions(k) /\ Versions(k) \subseteq DOMAIN cells
      /\ \A i \in Versions(k) : cells[i].key = k
      /\ VersionsOf(k)
  BY DEF ChainInv, ProjectionOf, Versions
<1>2. Closed(Versions(k))
  BY <1>1 DEF ChainInv, ParentOf
<1>3. ASSUME NEW S \in SUBSET (DOMAIN cells), Closed(S)
      PROVE  Versions(k) \subseteq S
  <2> SUFFICES ASSUME Versions(k) \ S # {} PROVE FALSE
    OBVIOUS
  <2>1. Versions(k) \ S \subseteq Nat /\ nextId \in Nat
        /\ \A i \in Versions(k) \ S : i <= nextId
    BY <1>1 DEF TypeOK
  <2>2. PICK g \in Versions(k) \ S : \A i \in Versions(k) \ S : i <= g
    BY <2>1, GreatestNatural
  <2>3. PICK h \in Versions(k) : cells[h].parent = g
    BY <1>1, <1>3, <2>2 DEF VersionsOf
  <2>4. h \in DOMAIN cells /\ g \in Nat /\ g # NoId /\ g < h
    BY <1>1, <2>1, <2>2, <2>3 DEF ChainInv, ParentOf, TypeOK, NoId
  <2>5. h \in S
    BY <1>1, <2>2, <2>3, <2>4 DEF TypeOK
  <2> QED
    BY <1>3, <2>2, <2>3, <2>4, <2>5
<1>4. Lineage(cells, a) =
        { j \in DOMAIN cells :
            \A S \in SUBSET (DOMAIN cells) : Closed(S) => j \in S }
  BY DEF Lineage
<1> HIDE DEF Closed
<1> QED
  BY <1>1, <1>2, <1>3, <1>4

LEMMA LineageIsVersionsNext ==
  (TypeOK /\ ChainInv =>
     \A k \in Keys :
       Own(k) # {} => Lineage(cells, projection[k].active) = Versions(k))'
BY LineageIsVersions, PTL

CountsMatch == \A k \in Keys : projection[k].count = Cardinality(Versions(k))

LEMMA ReconcileCounts ==
  ASSUME TypeOK, ChainInv, TypeOK', ChainInv', CountsMatch,
         NEW in \in Input, Reconcile(in)
  PROVE  CountsMatch'
<1> SUFFICES ASSUME NEW k \in Keys
             PROVE  projection'[k].count = Cardinality(Versions(k)')
  BY DEF CountsMatch
<1>1. CASE k # in.key \/ OutOfOrder(in)
  <2>1. projection'[k] = projection[k]
    BY <1>1 DEF Reconcile, ProjectionAfter, TypeOK
  <2>2. Versions(k)' = Versions(k)
    BY <1>1, ReconcileVersions
  <2> QED
    BY <2>1, <2>2 DEF CountsMatch
<1>2. CASE k = in.key /\ ~OutOfOrder(in)
  <2>1. /\ projection'[k].active = nextId
        /\ projection'[k].count = Cardinality(Lineage(cells', nextId))
    BY <1>2, NameAssumption DEF Reconcile, ProjectionAfter, TypeOK
  <2>2. nextId \in Own(k)'
    BY <1>2, ReconcileCells DEF Own
  <2>3. Lineage(cells', nextId) = Versions(k)'
    BY <2>1, <2>2, LineageIsVersionsNext
  <2> QED
    BY <2>1, <2>3
<1> QED
  BY <1>1, <1>2

LEMMA CountsInit ==
  ASSUME Init
  PROVE  VersionCountExact
BY FS_EmptySet DEF Init, NoProjection, Versions, VersionCountExact

LEMMA CountsStep ==
  ASSUME TypeOK, ChainInv, TypeOK', ChainInv', VersionCountExact, [Next]_vars
  PROVE  VersionCountExact'
<1>1. CountsMatch
  BY DEF VersionCountExact, CountsMatch
<1>2. ASSUME CaptureEpisode \/ UNCHANGED vars PROVE CountsMatch'
  BY <1>1, <1>2 DEF CaptureEpisode, vars, CountsMatch, Versions
<1>3. ASSUME NEW in \in Input, Reconcile(in) PROVE CountsMatch'
  BY <1>1, <1>3, ReconcileCounts
<1>4. ASSUME NEW c \in DOMAIN cells, Forget(c) PROVE CountsMatch'
  <2>1. \A k \in Keys : Versions(k)' = Versions(k)
    BY <1>4 DEF Forget, Versions, TypeOK, Cell
  <2> QED
    BY <1>1, <1>4, <2>1 DEF Forget, CountsMatch
<1>5. CountsMatch'
  BY <1>2, <1>3, <1>4 DEF Next
<1> QED
  BY <1>5 DEF ChainInv, VersionsOf, CountsMatch, VersionCountExact

\* version_count of a projection is the number of versions its key has, and
\* every version knows the first of them as its root, although reconcile
\* recounts by walking the chain (Store::update_projection;
\* MemoryStore.VersionCountExact).
THEOREM CountsAreExact == Spec => []VersionCountExact
BY CountsInit, CountsStep, TypeCorrect, ChainInvariant, PTL DEF Spec

(***************************************************************************)
(* The read path: whatever is written between the compile and the search   *)
(* of a question, its evidence fits it - for any texts, keys and times,    *)
(* chains of any length, and whatever matches and ranks how.               *)
(*                                                                         *)
(* A search is one step, so that what it returns is judged by the chains   *)
(* of its own state, which satisfy the invariant of the write path; of the *)
(* compile only the plan is left.                                          *)
(***************************************************************************)

\* What was asked to be forgotten is, but for what was current and is no more.
AskedInv ==
  /\ asked \subseteq DOMAIN cells /\ buried \subseteq DOMAIN cells
  /\ \A i \in buried : cells[i].status = "Forgotten" /\ ~IsCurrent(i)
  /\ \A i \in asked : IsCurrent(i) => cells[i].status = "Forgotten"

\* The store satisfies the invariants of the write path; a plan about a day
\* ends where the next begins.
ReadInv ==
  /\ TypeOK /\ ChainInv /\ AskedInv
  /\ plan \in Plan \cup {NoPlan}
  /\ plan # NoPlan /\ plan.mode = "Interval" =>
       plan.start \in Times /\ plan.end = plan.start + 1

----------------------------------------------------------------------------
(* The invariant.                                                          *)

LEMMA CompiledType ==
  ASSUME NEW q \in Question, NEW at \in Times
  PROVE  /\ Compiled(q, at) \in Plan
         /\ Compiled(q, at).mode = "Interval" =>
              /\ Compiled(q, at).start \in Times
              /\ Compiled(q, at).end = Compiled(q, at).start + 1
BY DEF Compiled, Question, Plan, Modes, ModeOf

\* A step of the reader leaves the store alone, a writer's is one of its own.
LEMMA WritersStep ==
  ASSUME [ReadNext]_<<vars, readVars>>
  PROVE  [Next]_vars
BY DEF ReadNext, Compile, Search, WriterSteps, Next, vars

\* The ids and instants of the cells are numbers, and there are finitely many.
LEMMA CellFacts ==
  ASSUME TypeOK
  PROVE  /\ IsFiniteSet(DOMAIN cells) /\ DOMAIN cells \subseteq Nat \ {0}
         /\ nextId \in Nat /\ \A i \in DOMAIN cells : i <= nextId
         /\ \A i \in DOMAIN cells :
              /\ cells[i].from \in Nat /\ cells[i].until \in Nat
              /\ cells[i].observed \in Nat
<1>1. IsFiniteSet(1 .. nextId - 1)
  <2>1. nextId - 1 \in Int
    BY DEF TypeOK
  <2> QED
    BY <2>1, FS_Interval
<1>2. IsFiniteSet(DOMAIN cells)
  BY <1>1, FS_Subset DEF TypeOK
<1>3. \A i \in DOMAIN cells : cells[i] \in Cell
  BY DEF TypeOK
<1>4. \A i \in DOMAIN cells : i \in Nat \ {0} /\ i <= nextId
  BY DEF TypeOK
<1>5. Times \subseteq Nat /\ Never \in Nat
  BY TimeAssumption
<1>6. \A i \in DOMAIN cells :
        /\ cells[i].from \in Nat /\ cells[i].until \in Nat
        /\ cells[i].observed \in Nat
  BY <1>3, <1>5 DEF Cell
<1> QED
  BY <1>2, <1>4, <1>6 DEF TypeOK

\* No reconcile makes a cell current that exists already.
LEMMA ReconcileCurrent ==
  ASSUME TypeOK, ChainInv, NEW in \in Input, Reconcile(in),
         NEW i \in DOMAIN cells
  PROVE  /\ IsCurrent(i)' => IsCurrent(i)
         /\ IsCurrent(i)' \/ ~IsCurrent(i) => cells'[i] = cells[i]
<1>1. /\ i \in DOMAIN cells' /\ cells'[i].key = cells[i].key /\ i # nextId
      /\ ~(Supersedes(in) /\ i = Current(in.key)) => cells'[i] = cells[i]
  BY ReconcileCells
<1>2. cells[i].key \in Keys \cup {NoKey} /\ i # NoId
  BY CellFacts DEF TypeOK, Cell, NoId
<1>3. CASE cells[i].key = NoKey
  <2>1. ~IsCurrent(i) /\ ~IsCurrent(i)'
    BY <1>1, <1>2, <1>3 DEF IsCurrent, Current
  <2>2. ~(Supersedes(in) /\ i = Current(in.key))
    <3>1. ASSUME Supersedes(in), i = Current(in.key)
          PROVE  FALSE
      <4>1. in.key \in Keys
        BY <3>1, CurrentExists DEF Supersedes, Input
      <4>2. cells[i].key = in.key
        BY <1>2, <3>1, <4>1, CurrentOfKey DEF Versions
      <4> QED
        BY <1>3, <4>1, <4>2, NameAssumption
    <3> QED
      BY <3>1
  <2> QED
    BY <1>1, <2>1, <2>2
<1>4. CASE cells[i].key \in Keys
  <2> DEFINE k == cells[i].key
  <2>0. k # NoKey
    BY <1>4, NameAssumption
  <2>1. IsCurrent(i) <=> i = projection[k].active
    BY <2>0 DEF IsCurrent, Current
  <2>2. IsCurrent(i)' <=> i = projection'[k].active
    BY <1>1, <2>0 DEF IsCurrent, Current
  <2>3. \/ projection'[k] = projection[k] /\ (k # in.key \/ OutOfOrder(in))
        \/ projection'[k].active = nextId
    BY <1>4, <2>0 DEF Reconcile, ProjectionAfter, TypeOK
  <2>4. Supersedes(in) /\ i = Current(in.key) => k = in.key /\ IsCurrent(i)
    <3>1. ASSUME Supersedes(in), i = Current(in.key)
          PROVE  k = in.key /\ IsCurrent(i)
      <4>1. in.key \in Keys
        BY <3>1, CurrentExists DEF Supersedes, Input
      <4>2. k = in.key
        BY <3>1, <4>1, CurrentOfKey DEF Supersedes, Versions
      <4> QED
        BY <3>1, <4>2 DEF IsCurrent
    <3> QED
      BY <3>1
  <2>5. Supersedes(in) => ~OutOfOrder(in)
    <3>1. Supersedes(in) => in.key \in Keys /\ Current(in.key) \in DOMAIN cells
      BY CurrentExists DEF Supersedes, Input
    <3>2. ValidFrom(in) \in Nat
      BY TimeAssumption DEF ValidFrom, Input
    <3> QED
      BY <3>1, <3>2, CellFacts DEF Supersedes, OutOfOrder
  <2> QED
    BY <1>1, <2>1, <2>2, <2>3, <2>4, <2>5
<1> QED
  BY <1>2, <1>3, <1>4

LEMMA ReconcileAsked ==
  ASSUME TypeOK, ChainInv, AskedInv, NEW in \in Input, Reconcile(in),
         UNCHANGED <<asked, buried>>
  PROVE  AskedInv'
<1>1. DOMAIN cells \subseteq DOMAIN cells'
  BY ReconcileCells
<1>2. \A i \in DOMAIN cells :
        /\ IsCurrent(i)' => IsCurrent(i)
        /\ IsCurrent(i)' \/ ~IsCurrent(i) => cells'[i] = cells[i]
  BY ReconcileCurrent
<1> QED
  BY <1>1, <1>2 DEF AskedInv

LEMMA ForgetAsked ==
  ASSUME TypeOK, AskedInv, NEW i \in DOMAIN cells, Forget(i),
         asked' = asked \cup {i},
         buried' = IF IsCurrent(i) THEN buried ELSE buried \cup {i}
  PROVE  AskedInv'
<1>1. /\ DOMAIN cells' = DOMAIN cells /\ projection' = projection
      /\ \A j \in DOMAIN cells :
           /\ cells'[j].key = cells[j].key
           /\ j # i => cells'[j].status = cells[j].status
      /\ cells'[i].status = "Forgotten"
  BY DEF Forget, TypeOK, Cell
<1>2. \A j \in DOMAIN cells : IsCurrent(j)' <=> IsCurrent(j)
  BY <1>1 DEF IsCurrent, Current
<1> QED
  BY <1>1, <1>2 DEF AskedInv

LEMMA AskedStep ==
  ASSUME ReadInv, [ReadNext]_<<vars, readVars>>
  PROVE  AskedInv'
<1>1. CASE UNCHANGED <<vars, asked, buried>>
  BY <1>1 DEF ReadInv, AskedInv, IsCurrent, Current, vars
<1>2. CASE WriterSteps
  <2>1. ASSUME NEW in \in Input, Reconcile(in), UNCHANGED <<asked, buried>>
        PROVE  AskedInv'
    BY <2>1, ReconcileAsked DEF ReadInv
  <2>2. ASSUME NEW i \in DOMAIN cells, Forget(i), asked' = asked \cup {i},
               buried' = IF IsCurrent(i) THEN buried ELSE buried \cup {i}
        PROVE  AskedInv'
    BY <2>2, ForgetAsked DEF ReadInv
  <2> QED
    BY <1>2, <2>1, <2>2 DEF WriterSteps
<1> QED
  BY <1>1, <1>2 DEF ReadNext, Compile, Search, readVars

LEMMA ReadInvariance == ReadSpec => []ReadInv
<1>1. ReadInit => ReadInv
  BY TypeInit, ChainInit DEF ReadInit, ReadInv, AskedInv
<1>2. ReadInv /\ [ReadNext]_<<vars, readVars>> => ReadInv'
  <2> SUFFICES ASSUME ReadInv, [ReadNext]_<<vars, readVars>>
      PROVE  ReadInv'
    OBVIOUS
  <2>1. TypeOK' /\ ChainInv' /\ AskedInv'
    BY WritersStep, TypeStep, ChainStep, AskedStep DEF ReadInv
  <2>2. \/ plan' = plan \/ plan' = NoPlan
        \/ \E q \in Question, at \in Times : plan' = Compiled(q, at)
    BY DEF ReadNext, Compile, Search, WriterSteps, readVars
  <2>3. /\ plan' \in Plan \cup {NoPlan}
        /\ plan' # NoPlan /\ plan'.mode = "Interval" =>
             plan'.start \in Times /\ plan'.end = plan'.start + 1
    <3>1. CASE plan' = plan
      BY <3>1 DEF ReadInv
    <3>2. CASE plan' = NoPlan
      BY <3>2
    <3>3. ASSUME NEW q \in Question, NEW at \in Times,
                 plan' = Compiled(q, at)
          PROVE  /\ plan' \in Plan
                 /\ plan'.mode = "Interval" =>
                      plan'.start \in Times /\ plan'.end = plan'.start + 1
      BY <3>3, CompiledType
    <3> QED
      BY <2>2, <3>1, <3>2, <3>3
  <2> QED
    BY <2>1, <2>3 DEF ReadInv
<1> QED
  BY <1>1, <1>2, PTL DEF ReadSpec

----------------------------------------------------------------------------
(* Chains and windows.                                                     *)

LEMMA MaxIsGreatest ==
  ASSUME NEW S, S \subseteq Nat, S # {}, NEW b \in Nat, \A n \in S : n <= b
  PROVE  Max(S) \in S /\ \A n \in S : n <= Max(S)
<1>1. \E m \in S : \A n \in S : m >= n
  BY GreatestNatural
<1> QED
  BY <1>1 DEF Max

\* A part of a finite set that lacks an element of it is smaller.
LEMMA PartIsSmaller ==
  ASSUME NEW S, IsFiniteSet(S), NEW P \in SUBSET S, NEW x \in S, x \notin P
  PROVE  /\ Cardinality(P) \in Nat /\ Cardinality(S) \in Nat
         /\ Cardinality(P) < Cardinality(S)
<1>1. /\ IsFiniteSet(P) /\ Cardinality(P) <= Cardinality(S)
      /\ Cardinality(P) # Cardinality(S)
  BY FS_Subset
<1>2. Cardinality(P) \in Nat /\ Cardinality(S) \in Nat
  BY <1>1, FS_CardinalityType
<1> QED
  BY <1>1, <1>2

LEMMA EndIsNatural ==
  ASSUME NEW p \in Plan
  PROVE  p.end \in Nat
<1>1. p.end \in Times \cup { t + 1 : t \in Times }
  BY DEF Plan
<1>2. Times \subseteq Nat
  BY TimeAssumption
<1>3. ASSUME NEW t \in Times, p.end = t + 1
      PROVE  p.end \in Nat
  <2>1. t \in Nat /\ t + 1 \in Nat
    BY <1>2
  <2> QED
    BY <1>3, <2>1
<1> QED
  BY <1>1, <1>2, <1>3

\* A walk from the projection meets versions of the key only, and all of them
\* if it is whole.
LEMMA ChainIsVersions ==
  ASSUME TypeOK, ChainInv, NEW k \in Keys
  PROVE  /\ Chain(k) \subseteq Versions(k)
         /\ WalkIsWhole(k) => Chain(k) = Versions(k)
<1>1. k # NoKey /\ Current(k) = projection[k].active
  BY NameAssumption DEF Current
<1>2. CASE Own(k) = {}
  <2>1. Current(k) = NoId /\ Versions(k) = {}
    BY <1>1, <1>2 DEF ChainInv, ProjectionOf, NoProjection, Own, Versions
  <2> QED
    BY <2>1 DEF Chain
<1>3. CASE Own(k) # {}
  <2>1. Lineage(cells, Current(k)) = Versions(k)
    BY <1>1, <1>3, LineageIsVersions
  <2>2. Current(k) # NoId
    BY <1>1, <1>3, CellFacts DEF ChainInv, ProjectionOf, Versions, NoId
  <2>3. Chain(k) = { i \in Versions(k) :
              Cardinality({ j \in Versions(k) : j > i }) < MaxChainDepth }
    BY <2>1, <2>2 DEF Chain
  <2>4. ASSUME WalkIsWhole(k), NEW i \in Versions(k)
        PROVE  Cardinality({ j \in Versions(k) : j > i }) < MaxChainDepth
    <3> DEFINE later == { j \in Versions(k) : j > i }
    <3>1. IsFiniteSet(Versions(k)) /\ i \in Nat
      BY CellFacts, FS_Subset DEF Versions
    <3>2. later \in SUBSET Versions(k) /\ i \notin later
      BY <3>1
    <3> HIDE DEF later
    <3>3. /\ Cardinality(later) \in Nat /\ Cardinality(Versions(k)) \in Nat
          /\ Cardinality(later) < Cardinality(Versions(k))
      BY <2>4, <3>1, <3>2, PartIsSmaller
    <3>4. Cardinality(later) < MaxChainDepth
      BY <2>4, <3>3, CapAssumption DEF WalkIsWhole
    <3> QED
      BY <3>4 DEF later
  <2> QED
    BY <2>3, <2>4
<1> QED
  BY <1>2, <1>3

LEMMA ChainOfHint ==
  ASSUME TypeOK, ChainInv, NEW k \in Keys \cup {NoKey}
  PROVE  \A i \in Chain(k) : i \in DOMAIN cells /\ cells[i].key = k
<1>1. CASE k = NoKey
  BY <1>1 DEF Chain, Current
<1>2. CASE k \in Keys
  BY <1>2, ChainIsVersions DEF Versions
<1> QED
  BY <1>1, <1>2

\* The later of two versions of a key begins no earlier than the window of the
\* earlier one ends, and that no earlier than it begins.
LEMMA VersionsInOrder ==
  ASSUME TypeOK, ChainInv, NEW k \in Keys,
         NEW i \in Versions(k), NEW j \in Versions(k), i < j
  PROVE  cells[i].from <= cells[i].until /\ cells[i].until <= cells[j].from
<1>1. /\ VersionsOf(k) /\ i \in DOMAIN cells /\ j \in DOMAIN cells
      /\ i \in Nat /\ j \in Nat /\ projection[k].active \in Nat
  BY CellFacts DEF ChainInv, Versions, TypeOK, Projection
<1>2. i # projection[k].active
  BY <1>1 DEF VersionsOf
<1>3. PICK c \in Versions(k) : cells[c].parent = i
  BY <1>1, <1>2 DEF VersionsOf
<1>4. ParentOf(c) /\ i # NoId
  BY <1>1, <1>3, CellFacts DEF ChainInv, Versions, NoId
<1> QED
  BY <1>1, <1>3, <1>4 DEF VersionsOf, ParentOf

----------------------------------------------------------------------------
(* What a search returns.                                                  *)

\* The hits of the projection channel are members of the hinted chain that
\* were observed by then and are not forgotten.
LEMMA HitsOfProjection ==
  ASSUME TypeOK, ChainInv, NEW p \in Plan
  PROVE  \A i \in ProjectionHits(p) :
           /\ i \in Chain(p.hint) /\ i \in DOMAIN cells
           /\ cells[i].key = p.hint
           /\ cells[i].observed <= p.end /\ cells[i].status # "Forgotten"
<1> DEFINE seen == { i \in Chain(p.hint) :
                       /\ cells[i].observed <= p.end
                       /\ cells[i].status # "Forgotten" }
<1>1. p.hint \in Keys \cup {NoKey}
  BY DEF Plan
<1>2. seen \subseteq DOMAIN cells
  BY <1>1, ChainOfHint
<1>3. seen # {} => Max(seen) \in seen
  BY <1>2, CellFacts, MaxIsGreatest
<1>4. ProjectionHits(p) \subseteq seen
  BY <1>3 DEF ProjectionHits
<1> QED
  BY <1>1, <1>4, ChainOfHint

\* In Current mode there is at most one, the newest member of the chain that
\* was observed by then and is not forgotten.
LEMMA HitOfCurrent ==
  ASSUME TypeOK, ChainInv, NEW p \in Plan, p.mode = "Current"
  PROVE  LET hit == Max(ProjectionHits(p) \cup {NoId})
         IN \/ /\ ProjectionHits(p) = {} /\ hit = NoId
               /\ \A i \in Chain(p.hint) :
                    cells[i].observed <= p.end => cells[i].status = "Forgotten"
            \/ /\ ProjectionHits(p) = {hit}
               /\ \A i \in Chain(p.hint) :
                    cells[i].observed <= p.end /\ cells[i].status # "Forgotten"
                      => i <= hit
<1> DEFINE seen == { i \in Chain(p.hint) :
                       /\ cells[i].observed <= p.end
                       /\ cells[i].status # "Forgotten" }
<1>1. seen \subseteq DOMAIN cells
  BY ChainOfHint DEF Plan
<1>2. CASE seen = {}
  <2>1. ProjectionHits(p) = {}
    BY <1>2 DEF ProjectionHits
  <2>2. Max({NoId}) = NoId
    BY DEF Max, NoId
  <2>3. ProjectionHits(p) \cup {NoId} = {NoId}
    BY <2>1
  <2> QED
    BY <1>2, <2>1, <2>2, <2>3
<1>3. CASE seen # {}
  <2>1. /\ ProjectionHits(p) = {Max(seen)} /\ Max(seen) \in seen
        /\ \A n \in seen : n <= Max(seen)
    BY <1>1, <1>3, CellFacts, MaxIsGreatest DEF ProjectionHits
  <2>2. PICK m : m = Max(seen)
    OBVIOUS
  <2>3. m \in Nat
    BY <1>1, <2>1, <2>2, CellFacts
  <2>4. Max({m, NoId}) = m
    <3> DEFINE both == {m, NoId}
    <3>1. /\ both \subseteq Nat /\ both # {} /\ m \in both
          /\ \A n \in both : n <= m
      BY <2>3 DEF NoId
    <3> HIDE DEF both
    <3>2. Max(both) \in both /\ \A n \in both : n <= Max(both)
      BY <2>3, <3>1, MaxIsGreatest
    <3>3. Max(both) \in Nat /\ Max(both) <= m /\ m <= Max(both)
      BY <3>1, <3>2
    <3>4. Max(both) = m
      BY <2>3, <3>3
    <3> QED
      BY <3>4 DEF both
  <2>5. ProjectionHits(p) \cup {NoId} = {m, NoId}
    BY <2>1, <2>2
  <2> QED
    BY <2>1, <2>2, <2>4, <2>5
<1> QED
  BY <1>2, <1>3

\* A candidate was observed by the end of the plan or is in the hinted chain.
LEMMA CandidatesAre ==
  ASSUME TypeOK, ChainInv, NEW p \in Plan, NEW tagged \in SUBSET DOMAIN cells,
         NEW i \in Candidates(p, tagged)
  PROVE  /\ i \in DOMAIN cells
         /\ cells[i].observed <= p.end \/ cells[i].key = p.hint
<1>1. (i \in tagged /\ InWindow(i, p)) \/ i \in Chain(p.hint)
  BY DEF Candidates
<1>2. CASE i \in tagged /\ InWindow(i, p)
  BY <1>2 DEF InWindow, ActiveAt
<1>3. CASE i \in Chain(p.hint)
  BY <1>3, ChainOfHint DEF Plan
<1> QED
  BY <1>1, <1>2, <1>3

LEMMA RegionIs ==
  ASSUME TypeOK, ChainInv, NEW p \in Plan, NEW tagged \in SUBSET DOMAIN cells,
         NEW i \in Region(p, tagged)
  PROVE  /\ i \in DOMAIN cells
         /\ cells[i].observed <= p.end \/ cells[i].key = p.hint
<1>1. /\ Widened(p) \in Plan /\ Widened(p).end = p.end
      /\ Widened(p).hint = p.hint
  BY DEF Widened, Plan, Modes
<1>2. DOMAIN cells \in SUBSET DOMAIN cells
  OBVIOUS
<1>3. CASE i \in Candidates(p, tagged)
  BY <1>3, CandidatesAre
<1>4. CASE i \in Candidates(Widened(p), DOMAIN cells)
  BY <1>1, <1>2, <1>4, CandidatesAre
<1> QED
  BY <1>3, <1>4 DEF Region

\* What fits a plan.
Fits(p, i) ==
  /\ i \in DOMAIN cells /\ cells[i].status # "Forgotten"
  /\ p.mode = "Current" => ActiveAt(i, p.end) \/ i \in ProjectionHits(p)
  /\ \/ cells[i].observed <= p.end
     \/ p.mode # "Current" /\ cells[i].key = p.hint
     \/ p.mode = "Historical" /\ cells[i].status = "Superseded"

LEMMA KeptFits ==
  ASSUME TypeOK, ChainInv, NEW p \in Plan, NEW tagged \in SUBSET DOMAIN cells,
         NEW matched \in SUBSET Region(p, tagged), NEW i \in Kept(p, matched)
  PROVE  Fits(p, i)
<1>1. /\ i \in matched \cup ProjectionHits(p) /\ cells[i].status # "Forgotten"
      /\ p.mode = "Current" => ActiveAt(i, p.end) \/ i \in ProjectionHits(p)
  BY DEF Kept
<1>2. /\ i \in DOMAIN cells
      /\ cells[i].observed <= p.end \/ cells[i].key = p.hint
  BY <1>1, RegionIs, HitsOfProjection
<1>3. p.mode = "Current" => cells[i].observed <= p.end
  BY <1>1, HitsOfProjection DEF ActiveAt
<1> QED
  BY <1>1, <1>2, <1>3 DEF Fits

LEMMA ExpandedFits ==
  ASSUME NEW p \in Plan, NEW S, NEW i \in Expanded(p, S)
  PROVE  Fits(p, i)
<1>1. PICK R : i \in Neighbours(p, R)
  BY DEF Expanded
<1>2. /\ i \in DOMAIN cells
      /\ \/ ActiveAt(i, p.end)
         \/ p.mode = "Historical" /\ cells[i].status = "Superseded"
  BY <1>1 DEF Neighbours
<1> QED
  BY <1>2 DEF Fits, ActiveAt

\* All the evidence fits the plan, and in Current mode the projection's hit is
\* among it.
LEMMA EvidenceFits ==
  ASSUME TypeOK, ChainInv, NEW p \in Plan, NEW items \in Evidence(p)
  PROVE  /\ \A i \in items : Fits(p, i)
         /\ p.mode = "Current" => ProjectionHits(p) \subseteq items
<1> DEFINE first == IF p.mode = "Current" THEN ProjectionHits(p) ELSE {}
<1> DEFINE regions == { Region(p, tagged) : tagged \in SUBSET DOMAIN cells }
           results == UNION { Results(p, matched) :
                              matched \in UNION { SUBSET r : r \in regions } }
<1>0. items \in UNION { Packed(p, hits) : hits \in results }
  BY DEF Evidence
<1>1. PICK hits \in results : items \in Packed(p, hits)
  BY <1>0
<1>6. PICK matched \in UNION { SUBSET r : r \in regions } :
        hits \in Results(p, matched)
  OBVIOUS
<1>7. PICK tagged \in SUBSET DOMAIN cells :
        matched \in SUBSET Region(p, tagged)
  OBVIOUS
<1>2. items \subseteq hits /\ first \cap hits \subseteq items
  BY <1>1 DEF Packed
<1>3. PICK top \in SUBSET Kept(p, matched) :
        /\ first \subseteq top /\ top \subseteq hits
        /\ \A i \in hits \ top : i \in Expanded(p, top)
  <2> DEFINE kept == Kept(p, matched)
             tops == { S \in SUBSET kept :
                         /\ Cardinality(S) = Min({Cap, Cardinality(kept)})
                         /\ first \subseteq S }
             more(top) == { E \in SUBSET Expanded(p, top) :
                              Cardinality(E) =
                                Min({Cap - Cardinality(top),
                                     Cardinality(Expanded(p, top))}) }
  <2>1. hits \in UNION { { top \cup E : E \in more(top) } : top \in tops }
    BY <1>6 DEF Results
  <2>2. PICK top \in tops : hits \in { top \cup E : E \in more(top) }
    BY <2>1
  <2>3. PICK E \in SUBSET Expanded(p, top) : hits = top \cup E
    BY <2>2
  <2> QED
    BY <2>2, <2>3
<1>4. \A i \in hits : Fits(p, i)
  BY <1>7, <1>3, KeptFits, ExpandedFits
<1>5. first \subseteq hits
  BY <1>3
<1> QED
  BY <1>2, <1>4, <1>5

\* The step that answers a plan is a search with it.
LEMMA SearchedBySearch ==
  ASSUME ReadInv, [ReadNext]_<<vars, readVars>>, Searched
  PROVE  /\ plan \in Plan /\ UNCHANGED vars
         /\ \E items \in Evidence(plan) :
              answer' = [items |-> items,
                         current |-> IF plan.mode = "Current"
                                     THEN Max(ProjectionHits(plan) \cup {NoId})
                                     ELSE NoId,
                         sufficient |-> Sufficient(plan, items)]
BY DEF ReadInv, Searched, ReadNext, Compile, Search, WriterSteps, readVars

----------------------------------------------------------------------------
(* The theorems.                                                           *)

\* No evidence is a cell that somebody asked to forget, unless it was its key's
\* current one then and has been replaced since; and evidence was observed by
\* the time the question asks about, but for versions of the key it hints at
\* and, about the past, for superseded ones: what is written between compile
\* and search changes nothing of that (Recall.EvidenceFitsQuestion).
THEOREM EvidenceAlwaysFits == ReadSpec => EvidenceFitsQuestion
<1>1. ASSUME ReadInv, [ReadNext]_<<vars, readVars>>, Searched,
             NEW i \in answer'.items
      PROVE  /\ i \notin buried /\ (i \in asked => ~IsCurrent(i))
             /\ plan.mode = "Current" =>
                  ActiveAt(i, plan.end) \/ i = answer'.current
             /\ cells[i].observed > plan.end =>
                  \/ plan.mode # "Current" /\ cells[i].key = plan.hint
                  \/ plan.mode = "Historical" /\ cells[i].status = "Superseded"
  <2>1. PICK items \in Evidence(plan) :
          answer' = [items |-> items,
                     current |-> IF plan.mode = "Current"
                                 THEN Max(ProjectionHits(plan) \cup {NoId})
                                 ELSE NoId,
                     sufficient |-> Sufficient(plan, items)]
    BY <1>1, SearchedBySearch
  <2>2. i \in items /\ plan \in Plan
    BY <1>1, <2>1, SearchedBySearch
  <2>3. Fits(plan, i)
    BY <1>1, <2>2, EvidenceFits DEF ReadInv
  <2>4. plan.mode = "Current" /\ i \in ProjectionHits(plan)
          => i = answer'.current
    BY <1>1, <2>1, <2>2, HitOfCurrent DEF ReadInv
  <2>5. cells[i].observed \in Nat /\ plan.end \in Nat
    BY <1>1, <2>2, <2>3, CellFacts, EndIsNatural DEF ReadInv, Fits
  <2>6. i \notin buried /\ (i \in asked => ~IsCurrent(i))
    BY <1>1, <2>3 DEF ReadInv, AskedInv, Fits
  <2> QED
    BY <2>3, <2>4, <2>5, <2>6 DEF Fits
<1>2. ReadInv /\ [ReadNext]_<<vars, readVars>> =>
  [ Searched =>
      \A i \in answer'.items :
        /\ i \notin buried /\ (i \in asked => ~IsCurrent(i))
        /\ plan.mode = "Current" =>
             ActiveAt(i, plan.end) \/ i = answer'.current
        /\ cells[i].observed > plan.end =>
             \/ plan.mode # "Current" /\ cells[i].key = plan.hint
             \/ plan.mode = "Historical" /\ cells[i].status = "Superseded"
  ]_<<vars, readVars>>
  BY <1>1
<1> QED
  BY <1>2, ReadInvariance, PTL DEF ReadSpec, EvidenceFitsQuestion

\* Besides the projection's version, the evidence about the current state
\* holds at most one version of each key, for windows of one chain do not
\* overlap - however many chains expansion brings in (Recall.OneTruthPerKey).
THEOREM OneVersionPerKey == ReadSpec => OneTruthPerKey
<1>1. ASSUME ReadInv, [ReadNext]_<<vars, readVars>>, Searched,
             plan.mode = "Current", NEW k \in Keys
      PROVE  LET others == (answer'.items \cap Versions(k)) \ {answer'.current}
             IN Cardinality(others) <= 1
  <2> DEFINE others == (answer'.items \cap Versions(k)) \ {answer'.current}
  <2>1. PICK items \in Evidence(plan) :
          answer' = [items |-> items,
                     current |-> Max(ProjectionHits(plan) \cup {NoId}),
                     sufficient |-> Sufficient(plan, items)]
    BY <1>1, SearchedBySearch
  <2>2. plan \in Plan /\ plan.end \in Nat
    BY <1>1, SearchedBySearch, EndIsNatural
  <2>3. ASSUME NEW i \in others
        PROVE  i \in Versions(k) /\ i \in Nat /\ ActiveAt(i, plan.end)
    <3>1. i \in items /\ i \notin ProjectionHits(plan)
      BY <1>1, <2>1, <2>2, HitOfCurrent DEF ReadInv
    <3>2. Fits(plan, i)
      BY <1>1, <2>2, <3>1, EvidenceFits DEF ReadInv
    <3> QED
      BY <1>1, <3>1, <3>2, CellFacts DEF ReadInv, Fits
  <2>4. ASSUME NEW i \in others, NEW j \in others, i < j
        PROVE  FALSE
    <3>1. cells[i].until <= cells[j].from
      BY <1>1, <2>3, <2>4, VersionsInOrder DEF ReadInv
    <3>2. /\ cells[i].until \in Nat /\ cells[j].from \in Nat
          /\ cells[i].until > plan.end /\ cells[j].from <= plan.end
      BY <1>1, <2>3, <2>4, CellFacts DEF ReadInv, Versions, ActiveAt
    <3> QED
      BY <2>2, <3>1, <3>2
  <2>5. \A i, j \in others : i = j
    BY <2>3, <2>4
  <2> HIDE DEF others
  <2>6. others = {} \/ \E i : others = {i}
    BY <2>5
  <2>7. Cardinality(others) <= 1
    <3>1. CASE others = {}
      BY <3>1, FS_EmptySet
    <3>2. ASSUME NEW i, others = {i}
          PROVE  Cardinality(others) <= 1
      <4>1. Cardinality({i}) = 1
        BY FS_Singleton
      <4> QED
        BY <3>2, <4>1
    <3> QED
      BY <2>6, <3>1, <3>2
  <2> QED
    BY <2>7 DEF others
<1>2. ReadInv /\ [ReadNext]_<<vars, readVars>>
        => [ Searched /\ plan.mode = "Current" =>
               \A k \in Keys :
                 LET others ==
                       (answer'.items \cap Versions(k)) \ {answer'.current}
                 IN Cardinality(others) <= 1
           ]_<<vars, readVars>>
  BY <1>1
<1> QED
  BY <1>2, ReadInvariance, PTL DEF ReadSpec, OneTruthPerKey

\* The current state of a key whose chain a walk can see the whole of is the
\* newest version that was observed by then and is not forgotten at the time
\* of the search; if there is none the evidence does not suffice
\* (Recall.CurrentIsNewestKnown).
THEOREM CurrentIsNewest == ReadSpec => CurrentIsNewestKnown
<1>1. ASSUME ReadInv, [ReadNext]_<<vars, readVars>>, Searched,
             plan.mode = "Current", plan.hint # NoKey, WalkIsWhole(plan.hint)
      PROVE  LET known == Known(plan.hint, plan.end)
             IN IF known = {}
                THEN answer'.current = NoId /\ ~answer'.sufficient
                ELSE /\ answer'.current \in known \cap answer'.items
                     /\ answer'.sufficient
                     /\ \A i \in known :
                          /\ cells[i].from <= cells[answer'.current].from
                          /\ i <= answer'.current
  <2> DEFINE k == plan.hint
             known == Known(k, plan.end)
             hit == Max(ProjectionHits(plan) \cup {NoId})
  <2>1. plan \in Plan /\ k \in Keys
    BY <1>1, SearchedBySearch DEF Plan
  <2>2. PICK items \in Evidence(plan) :
          answer' = [items |-> items, current |-> hit,
                     sufficient |-> Sufficient(plan, items)]
    BY <1>1, SearchedBySearch
  <2>3. Chain(k) = Versions(k)
    BY <1>1, <2>1, ChainIsVersions DEF ReadInv
  <2>4. known = { i \in Chain(k) : cells[i].observed <= plan.end
                                  /\ cells[i].status # "Forgotten" }
    BY <2>3 DEF Known
  <2>5. ProjectionHits(plan) \subseteq known
    BY <1>1, <2>1, <2>4, HitsOfProjection DEF ReadInv
  <2>6. ProjectionHits(plan) \subseteq items
    BY <1>1, <2>1, <2>2, EvidenceFits DEF ReadInv
  <2>7. \/ ProjectionHits(plan) = {} /\ hit = NoId /\ known = {}
        \/ ProjectionHits(plan) = {hit} /\ \A i \in known : i <= hit
    BY <1>1, <2>1, <2>4, HitOfCurrent DEF ReadInv
  <2>8. Sufficient(plan, items) <=> items \cap ProjectionHits(plan) # {}
    BY <1>1 DEF Sufficient
  <2>9. CASE ProjectionHits(plan) = {}
    BY <2>2, <2>7, <2>8, <2>9
  <2>10. CASE ProjectionHits(plan) # {}
    <3>1. PICK h : h = hit
      OBVIOUS
    <3>2. /\ ProjectionHits(plan) = {h} /\ h \in known /\ h \in items
          /\ \A i \in known : i <= h
      BY <2>5, <2>6, <2>7, <2>10, <3>1
    <3>3. answer'.current = h /\ answer'.sufficient /\ answer'.items = items
      BY <2>2, <2>8, <3>1, <3>2
    <3>4. ASSUME NEW i \in known
          PROVE  cells[i].from <= cells[h].from
      <4>1. i \in Versions(k) /\ h \in Versions(k)
        BY <2>3, <2>4, <3>2
      <4>2. /\ i \in Nat /\ h \in Nat /\ cells[i].from \in Nat
            /\ cells[h].from \in Nat /\ cells[i].until \in Nat
        BY <1>1, <4>1, CellFacts DEF ReadInv, Versions
      <4>3. i < h => /\ cells[i].from <= cells[i].until
                     /\ cells[i].until <= cells[h].from
        BY <1>1, <2>1, <4>1, VersionsInOrder DEF ReadInv
      <4>4. i <= h
        BY <3>2
      <4> QED
        BY <4>2, <4>3, <4>4
    <3>5. known # {}
      BY <3>2
    <3> QED
      BY <3>2, <3>3, <3>4, <3>5
  <2> QED
    BY <2>9, <2>10
<1>2. ReadInv /\ [ReadNext]_<<vars, readVars>> =>
  [ /\ Searched /\ plan.mode = "Current"
    /\ plan.hint # NoKey /\ WalkIsWhole(plan.hint)
    =>
      LET known == Known(plan.hint, plan.end)
      IN IF known = {} THEN answer'.current = NoId /\ ~answer'.sufficient
         ELSE /\ answer'.current \in known \cap answer'.items
              /\ answer'.sufficient
              /\ \A i \in known :
                   /\ cells[i].from <= cells[answer'.current].from
                   /\ i <= answer'.current
  ]_<<vars, readVars>>
  BY <1>1
<1> QED
  BY <1>2, ReadInvariance, PTL DEF ReadSpec, CurrentIsNewestKnown

\* In a store that the cut of the candidates does not reach, the version of a
\* key that was true when a day began is a candidate for a question about the
\* day, unless it was observed later or forgotten: the window rule of
\* active_candidates agrees with the timeline (Recall.DayFindsItsTruth).
THEOREM DaysFindTheirTruth == ReadSpec => []DayFindsItsTruth
<1>1. ASSUME ReadInv
      PROVE  DayFindsItsTruth
  <2> SUFFICES ASSUME plan # NoPlan, plan.mode = "Interval",
                      Cardinality(DOMAIN cells) <= 4 * Cap,
                      NEW k \in Keys, NEW v \in T!AsOf(k, plan.start),
                      v.ver \in Known(k, plan.end)
      PROVE  v.ver \in Candidates(plan, DOMAIN cells)
    BY DEF DayFindsItsTruth
  <2> DEFINE i == v.ver
             window == { j \in DOMAIN cells : InWindow(j, plan) }
             before == { j \in window : j < i }
  <2>1. /\ plan \in Plan /\ plan.start \in Times /\ plan.start \in Nat
        /\ plan.end = plan.start + 1
    BY <1>1, TimeAssumption DEF ReadInv
  <2>2. i \in { w.ver : w \in T!AsOf(k, plan.start) }
    OBVIOUS
  <2>3. i \in { j \in Versions(k) : /\ cells[j].from <= plan.start
                                    /\ plan.start < cells[j].until }
    BY <1>1, <2>1, <2>2, AsOfAgreesFollows DEF ReadInv, AsOfAgrees
  <2>4. /\ i \in DOMAIN cells /\ i \in Nat
        /\ cells[i].observed <= plan.end /\ cells[i].status # "Forgotten"
        /\ cells[i].from \in Nat /\ cells[i].until \in Nat
    BY <1>1, <2>3, CellFacts DEF ReadInv, Known, Versions
  <2>5. cells[i].from <= plan.end /\ cells[i].until > plan.start
    BY <2>1, <2>3, <2>4
  <2>6. i \in window
    BY <2>4, <2>5 DEF InWindow
  <2>7. before \in SUBSET DOMAIN cells /\ i \notin before
    BY <2>4
  <2>8. Cardinality(before) < 4 * Cap
    <3> HIDE DEF before, window
    <3> QED
      BY <1>1, <2>4, <2>7, CellFacts, PartIsSmaller, CapAssumption DEF ReadInv
  <2> QED
    BY <2>6, <2>8 DEF Candidates
<1> QED
  BY <1>1, ReadInvariance, PTL

(***************************************************************************)
(* The journal: what Reload's run checks with two texts, one key and three *)
(* cells, for any number of them.  A store that is loaded from its journal *)
(* is the store that was saved, and all that is proved of a store above    *)
(* holds across restarts.                                                  *)
(***************************************************************************)

\* The store a fresh process would load from the disk.
D == INSTANCE MemoryStore WITH
       cells       <- disk.cells,
       projection  <- disk.projection,
       byText      <- [t \in Texts |-> LastWithText(disk.cells, t)],
       edges       <- disk.edges,
       entityId    <- disk.entityId,
       entityCells <- [e \in Entities |-> Mentions(disk.cells, e)],
       episodes    <- disk.episodes,
       nextId      <- NextFreeId(disk)

----------------------------------------------------------------------------
(* The running store and the one on the disk.                              *)

\* The running store is what a fresh process would load.
Loaded ==
  /\ cells = disk.cells /\ projection = disk.projection
  /\ edges = disk.edges /\ entityId = disk.entityId
  /\ episodes = disk.episodes
  /\ byText = [t \in Texts |-> LastWithText(disk.cells, t)]
  /\ entityCells = [e \in Entities |-> Mentions(disk.cells, e)]
  /\ nextId = NextFreeId(disk)

\* What every store satisfies, and what the one on the disk satisfies.
StoreInv == TypeOK /\ ChainInv /\ EdgesMatchHistory /\ VersionCountExact

DiskInv ==
  D!TypeOK /\ D!ChainInv /\ D!EdgesMatchHistory /\ D!VersionCountExact

LEMMA LoadedTypes == Loaded => (D!TypeOK <=> TypeOK)
BY DEF Loaded, TypeOK, D!TypeOK, Cell, D!Cell, Status, D!Status, Projection,
       D!Projection, Edge, D!Edge, NoId, D!NoId

LEMMA LoadedVersions ==
  Loaded => /\ \A k : D!Versions(k) = Versions(k) /\ D!Own(k) = Own(k)
            /\ \A i : D!RootOf(i) = RootOf(i)
            /\ D!NoId = NoId
            /\ \A S : D!Cardinality(S) = Cardinality(S)
<1>1. \A S : D!Cardinality(S) = Cardinality(S)
  BY DEF D!Cardinality, Cardinality
<1> QED
  BY <1>1 DEF Loaded, Versions, D!Versions, Own, D!Own, RootOf, D!RootOf,
              NoId, D!NoId

LEMMA LoadedChains == Loaded => (D!ChainInv <=> ChainInv)
<1> SUFFICES ASSUME Loaded PROVE D!ChainInv <=> ChainInv
  OBVIOUS
<1>1. \A k \in Keys : D!ProjectionOf(k) <=> ProjectionOf(k)
  BY LoadedVersions DEF Loaded, ProjectionOf, D!ProjectionOf, NoProjection,
     D!NoProjection
<1>2. \A k \in Keys : D!VersionsOf(k) <=> VersionsOf(k)
  BY LoadedVersions DEF Loaded, VersionsOf, D!VersionsOf
<1>3. \A i \in DOMAIN cells : D!ParentOf(i) <=> ParentOf(i)
  BY LoadedVersions DEF Loaded, ParentOf, D!ParentOf
<1>4. \A i \in DOMAIN cells : D!LastOfText(i) <=> LastOfText(i)
  BY LoadedVersions DEF Loaded, LastOfText, D!LastOfText
<1> QED
  BY <1>1, <1>2, <1>3, <1>4, LoadedVersions DEF Loaded, ChainInv, D!ChainInv

LEMMA LoadedIsSame == Loaded => (DiskInv <=> StoreInv)
<1>1. Loaded => (D!VersionCountExact <=> VersionCountExact)
  BY LoadedVersions DEF Loaded, VersionCountExact, D!VersionCountExact
<1>2. Loaded => (D!EdgesMatchHistory <=> EdgesMatchHistory)
  BY LoadedVersions DEF Loaded, EdgesMatchHistory, D!EdgesMatchHistory
<1> QED
  BY <1>1, <1>2, LoadedTypes, LoadedChains DEF DiskInv, StoreInv

LEMMA LoadedIsSameNext == (Loaded => (DiskInv <=> StoreInv))'
BY LoadedIsSame, PTL

\* What holds of the store on the disk holds of it until the next save.
LEMMA DiskStays ==
  ASSUME DiskInv, UNCHANGED disk
  PROVE  DiskInv'
<1>1. D!TypeOK'
  BY DEF DiskInv, D!TypeOK
<1>2. D!ChainInv'
  <2>1. \A k \in Keys : D!ProjectionOf(k)' <=> D!ProjectionOf(k)
    BY DEF D!ProjectionOf, D!Own, D!Versions
  <2>2. \A k \in Keys : D!VersionsOf(k)' <=> D!VersionsOf(k)
    BY DEF D!VersionsOf, D!Versions, D!RootOf
  <2>3. \A i \in DOMAIN disk.cells : D!ParentOf(i)' <=> D!ParentOf(i)
    BY DEF D!ParentOf, D!Versions
  <2>4. \A i \in DOMAIN disk.cells : D!LastOfText(i)' <=> D!LastOfText(i)
    BY DEF D!LastOfText
  <2> QED
    BY <2>1, <2>2, <2>3, <2>4 DEF DiskInv, D!ChainInv
<1>3. D!EdgesMatchHistory' /\ D!VersionCountExact'
  BY DEF DiskInv, D!EdgesMatchHistory, D!VersionCountExact, D!Versions,
         D!RootOf
<1> QED
  BY <1>1, <1>2, <1>3 DEF DiskInv

----------------------------------------------------------------------------
(* What load derives.                                                      *)

\* The maximum of a set of numbers is its greatest element.
LEMMA MaxIs ==
  ASSUME NEW S, S \subseteq Nat, NEW m \in S, \A n \in S : n <= m
  PROVE  Max(S) = m
<1>1. \A x \in S : (\A n \in S : n <= x) => x = m
  OBVIOUS
<1> QED
  BY <1>1 DEF Max

\* The ids in use are below the counter, and the last one handed out is used.
IdsOf(r, next) ==
  /\ UsedIds(r) \subseteq 0 .. next - 1
  /\ next - 1 \in UsedIds(r) \cup {0}

LEMMA NextFreeIdIs ==
  ASSUME NEW r, NEW next \in Nat \ {0}, IdsOf(r, next)
  PROVE  NextFreeId(r) = next
<1> DEFINE S == UsedIds(r) \cup {0}
<1>1. S \subseteq Nat /\ next - 1 \in S /\ \A n \in S : n <= next - 1
  BY DEF IdsOf
<1>2. Max(S) = next - 1
  <2> HIDE DEF S
  <2> QED
    BY <1>1, MaxIs
<1> QED
  BY <1>2 DEF NextFreeId

LEMMA LastWithSameText ==
  ASSUME NEW cs, NEW ds, NEW t, DOMAIN ds = DOMAIN cs,
         \A i \in DOMAIN cs : ds[i].text = cs[i].text
  PROVE  LastWithText(ds, t) = LastWithText(cs, t)
<1>1. { i \in DOMAIN ds : ds[i].text = t } =
        { i \in DOMAIN cs : cs[i].text = t }
  OBVIOUS
<1> QED
  BY <1>1 DEF LastWithText

----------------------------------------------------------------------------
(* Writers keep the indexes as load would derive them.                     *)

IndexInv ==
  /\ \A t \in Texts : byText[t] = LastWithText(cells, t)
  /\ \A e \in Entities : entityCells[e] = Mentions(cells, e)
  /\ IdsOf(Records, nextId)

LEMMA ReconcileTextIndex ==
  ASSUME TypeOK, NEW in \in Input, Reconcile(in), NEW t \in Texts,
         byText[t] = LastWithText(cells, t)
  PROVE  byText'[t] = LastWithText(cells', t)
<1>1. byText'[t] = IF t = in.text THEN nextId ELSE byText[t]
  BY DEF Reconcile, TypeOK
<1>2. cells'[nextId].text = in.text
  BY ReconcileCells
<1>3. /\ DOMAIN cells' = DOMAIN cells \cup {nextId}
      /\ \A i \in DOMAIN cells : cells'[i].text = cells[i].text
      /\ DOMAIN cells \subseteq 1 .. nextId - 1 /\ nextId \in Nat \ {0}
  BY ReconcileCells DEF TypeOK
<1> DEFINE same == { i \in DOMAIN cells' : cells'[i].text = t } \cup {NoId}
<1>4. CASE t = in.text
  <2>1. same \subseteq Nat /\ nextId \in same /\ \A i \in same : i <= nextId
    BY <1>2, <1>3, <1>4 DEF NoId
  <2> HIDE DEF same
  <2>2. Max(same) = nextId
    BY <2>1, MaxIs
  <2> QED
    BY <1>1, <1>4, <2>2 DEF LastWithText, same
<1>5. CASE t # in.text
  <2>1. same = { i \in DOMAIN cells : cells[i].text = t } \cup {NoId}
    BY <1>2, <1>3, <1>5
  <2> QED
    BY <1>1, <1>5, <2>1 DEF LastWithText
<1> QED
  BY <1>4, <1>5

LEMMA ReconcileEntityIndex ==
  ASSUME TypeOK, NEW in \in Input, Reconcile(in), NEW e \in Entities,
         entityCells[e] = Mentions(cells, e)
  PROVE  entityCells'[e] = Mentions(cells', e)
<1>1. entityCells'[e] = IF e \in in.entities THEN entityCells[e] \cup {nextId}
                                             ELSE entityCells[e]
  BY DEF Reconcile
<1>2. /\ DOMAIN cells' = DOMAIN cells \cup {nextId}
      /\ \A i \in DOMAIN cells : cells'[i].entities = cells[i].entities
  BY ReconcileCells DEF SameEvidence
<1>3. cells'[nextId].entities = in.entities
  BY DEF Reconcile, CellsAfter, NewCell
<1> QED
  BY <1>1, <1>2, <1>3 DEF Mentions

\* New entities get the ids that follow, every one of them.
LEMMA FreshIdsFill ==
  ASSUME NEW names, IsFiniteSet(names), NEW first \in Nat,
         NEW ids \in FreshIds(names, first)
  PROVE  { ids[e] : e \in names } = first .. first + Cardinality(names) - 1
<1> DEFINE n == Cardinality(names)
           S == first .. first + n - 1
<1>1. n \in Nat
  BY FS_CardinalityType
<1>2. IsFiniteSet(S) /\ Cardinality(S) = n
  <2> HIDE DEF n
  <2>1. PICK last \in Int : last = first + n - 1
    BY <1>1
  <2>2. IsFiniteSet(first .. last)
        /\ Cardinality(first .. last) =
             IF first > last THEN 0 ELSE last - first + 1
    BY FS_Interval
  <2> QED
    BY <1>1, <2>1, <2>2
<1>3. ids \in [names -> S] /\ \A a, b \in names : ids[a] = ids[b] => a = b
  BY DEF FreshIds
<1>4. ids \in Injection(names, S)
  BY <1>3 DEF Injection, IsInjective
<1>5. ids \in Surjection(names, S)
  BY <1>2, <1>4, FS_Injection
<1> QED
  BY <1>3, <1>5 DEF Surjection

LEMMA ReconcileIds ==
  ASSUME TypeOK, IdsOf(Records, nextId), NEW in \in Input, Reconcile(in)
  PROVE  IdsOf(Records, nextId)'
<1> DEFINE names == NewEntities(in)
           n == Cardinality(names)
           after == nextId + 1 + n
           seen == { entityId[e] : e \in Entities }
           links == { e.id : e \in edges }
<1>1. /\ n \in Nat /\ IsFiniteSet(names) /\ names \subseteq Entities
      /\ nextId \in Nat \ {0}
  <2>1. names \subseteq Entities
    BY DEF NewEntities, Input
  <2> QED
    BY <2>1, NamesCount, EntityAssumption, FS_Subset DEF TypeOK
<1>2. PICK ids \in FreshIds(names, nextId + 1) :
        entityId' = [e \in Entities |->
                       IF e \in names THEN ids[e] ELSE entityId[e]]
  BY DEF Reconcile
<1>3. { ids[e] : e \in names } = nextId + 1 .. nextId + n
  <2>1. PICK first \in Nat : first = nextId + 1
    BY <1>1
  <2>2. { ids[e] : e \in names } = first .. first + Cardinality(names) - 1
    BY <1>1, <1>2, <2>1, FreshIdsFill
  <2> QED
    BY <1>1, <2>1, <2>2
<1>4. /\ { entityId'[e] : e \in Entities } \subseteq
           seen \cup (nextId + 1 .. nextId + n)
      /\ nextId + 1 .. nextId + n \subseteq { entityId'[e] : e \in Entities }
  BY <1>1, <1>2, <1>3
<1>5. DOMAIN cells' = DOMAIN cells \cup {nextId} /\ episodes' = episodes
  BY ReconcileCells DEF Reconcile
<1>6. \/ nextId' = after /\ { e.id : e \in edges' } = links
      \/ /\ nextId' = after + 1
         /\ { e.id : e \in edges' } = links \cup {after}
  <2>1. /\ edges' = EdgesAfter(in, after)
        /\ nextId' = IF Current(in.key) = NoId THEN after ELSE after + 1
    BY DEF Reconcile
  <2>2. CASE Current(in.key) = NoId
    BY <2>1, <2>2 DEF EdgesAfter
  <2>3. CASE Current(in.key) # NoId
    <3>1. PICK new : edges' = edges \cup {new} /\ new.id = after
      <4> DEFINE new == [id |-> after,
                         type |-> IF Supersedes(in) THEN "Updates"
                                                    ELSE "Related",
                         src |-> Current(in.key), dst |-> nextId,
                         at |-> in.observed]
      <4>1. edges' = edges \cup {new}
        BY <2>1, <2>3 DEF EdgesAfter
      <4>2. new.id = after
        OBVIOUS
      <4> HIDE DEF new
      <4> QED
        BY <4>1, <4>2
    <3> QED
      BY <2>1, <2>3, <3>1
  <2> QED
    BY <2>2, <2>3
<1>7. UsedIds(Records) = DOMAIN cells \cup links \cup seen \cup episodes
  BY DEF UsedIds, Records
<1>8. UsedIds(Records)' =
        DOMAIN cells' \cup { e.id : e \in edges' }
          \cup { entityId'[e] : e \in Entities } \cup episodes'
  BY DEF UsedIds, Records
<1>9. UsedIds(Records) \subseteq 0 .. nextId - 1
  BY DEF IdsOf
<1> HIDE DEF n, seen, links, names
<1>10. nextId' \in Nat /\ nextId' > nextId + n
  BY <1>1, <1>6
<1>11. UsedIds(Records)' \subseteq 0 .. nextId' - 1
  <2> SUFFICES ASSUME NEW i \in UsedIds(Records)' PROVE i \in 0 .. nextId' - 1
    OBVIOUS
  <2>1. CASE i \in UsedIds(Records) \cup (nextId .. nextId + n)
    BY <1>1, <1>9, <1>10, <2>1
  <2>2. CASE nextId' = after + 1 /\ i = after
    BY <1>1, <2>2
  <2> QED
    BY <1>1, <1>4, <1>5, <1>6, <1>7, <1>8, <2>1, <2>2
<1>12. nextId' - 1 \in UsedIds(Records)'
  <2>1. CASE /\ nextId' = after + 1
             /\ { e.id : e \in edges' } = links \cup {after}
    BY <1>1, <1>8, <2>1
  <2>2. CASE nextId' = after /\ n = 0
    BY <1>1, <1>5, <1>8, <2>2
  <2>3. CASE nextId' = after /\ n # 0
    <3>1. nextId' - 1 \in nextId + 1 .. nextId + n
      BY <1>1, <2>3
    <3> QED
      BY <1>4, <1>8, <3>1
  <2> QED
    BY <1>6, <2>1, <2>2, <2>3
<1> QED
  BY <1>11, <1>12 DEF IdsOf

LEMMA IndexStep ==
  ASSUME TypeOK, IndexInv, [Next]_vars
  PROVE  IndexInv'
<1>1. CASE CaptureEpisode
  <2>1. IdsOf(Records, nextId)'
    BY <1>1 DEF CaptureEpisode, IndexInv, IdsOf, UsedIds, Records, TypeOK
  <2> QED
    BY <1>1, <2>1 DEF CaptureEpisode, IndexInv
<1>2. ASSUME NEW in \in Input, Reconcile(in)
      PROVE  IndexInv'
  BY <1>2, ReconcileTextIndex, ReconcileEntityIndex, ReconcileIds DEF IndexInv
<1>3. ASSUME NEW c \in DOMAIN cells, Forget(c)
      PROVE  IndexInv'
  <2>1. /\ DOMAIN cells' = DOMAIN cells
        /\ \A i \in DOMAIN cells : /\ cells'[i].text = cells[i].text
                                   /\ cells'[i].entities = cells[i].entities
    BY <1>3 DEF Forget, TypeOK, Cell
  <2>2. \A t \in Texts : LastWithText(cells', t) = LastWithText(cells, t)
    BY <2>1, LastWithSameText
  <2>3. \A e \in Entities : Mentions(cells', e) = Mentions(cells, e)
    BY <2>1 DEF Mentions
  <2>4. IdsOf(Records, nextId)'
    BY <1>3, <2>1 DEF Forget, IndexInv, IdsOf, UsedIds, Records
  <2> QED
    BY <1>3, <2>2, <2>3, <2>4 DEF Forget, IndexInv
<1>4. CASE UNCHANGED vars
  BY <1>4 DEF vars, IndexInv, IdsOf, UsedIds, Records
<1> QED
  BY <1>1, <1>2, <1>3, <1>4 DEF Next

----------------------------------------------------------------------------
(* Saving, stopping and starting over.                                     *)

ReloadInv ==
  /\ StoreInv /\ IndexInv
  /\ DiskInv
  /\ disk = [cells |-> disk.cells, projection |-> disk.projection,
             edges |-> disk.edges, entityId |-> disk.entityId,
             episodes |-> disk.episodes]
  /\ IdsOf(disk, NextFreeId(disk))
  /\ StoreContinuesDisk

LEMMA StoreStep ==
  ASSUME StoreInv, [Next]_vars
  PROVE  StoreInv'
<1>1. TypeOK' /\ ChainInv'
  BY TypeStep, ChainStep DEF StoreInv
<1> QED
  BY <1>1, EdgesStep, CountsStep DEF StoreInv

\* Records on disk that save would write make the loaded store the same.
LEMMA SavedIsLoaded ==
  ASSUME TypeOK, IndexInv, disk = Records
  PROVE  Loaded
<1>1. nextId \in Nat \ {0} /\ IdsOf(disk, nextId)
  BY DEF TypeOK, IndexInv
<1>2. NextFreeId(disk) = nextId
  BY <1>1, NextFreeIdIs
<1>3. disk.cells = cells /\ disk.projection = projection
      /\ disk.edges = edges /\ disk.entityId = entityId
      /\ disk.episodes = episodes
  BY DEF Records
<1>4. byText = [t \in Texts |-> LastWithText(cells, t)]
  BY DEF TypeOK, IndexInv
<1>5. entityCells = [e \in Entities |-> Mentions(cells, e)]
  BY DEF TypeOK, IndexInv
<1> QED
  BY <1>2, <1>3, <1>4, <1>5 DEF Loaded

LEMMA SavedIsLoadedNext ==
  (TypeOK /\ IndexInv /\ disk = Records => Loaded)'
<1>1. TypeOK /\ IndexInv /\ disk = Records => Loaded
  BY SavedIsLoaded
<1> QED
  BY <1>1, PTL

LEMMA ReloadStart ==
  ASSUME ReloadInit
  PROVE  ReloadInv
<1>1. TypeOK /\ ChainInv /\ VersionCountExact
  BY TypeInit, ChainInit, CountsInit DEF ReloadInit
<1>2. EdgesMatchHistory
  BY DEF ReloadInit, Init, EdgesMatchHistory
<1>3. disk = Records
  BY DEF ReloadInit, NoRecords, Init, Records
<1>4. IndexInv
  <2>1. \A t \in Texts : byText[t] = LastWithText(cells, t)
    <3>1. Max({NoId}) = NoId
      BY DEF Max
    <3>2. \A t : { i \in DOMAIN cells : cells[i].text = t } = {}
      BY DEF ReloadInit, Init
    <3> QED
      BY <3>1, <3>2 DEF ReloadInit, Init, LastWithText
  <2>2. \A e \in Entities : entityCells[e] = Mentions(cells, e)
    BY DEF ReloadInit, Init, Mentions
  <2>3. IdsOf(Records, nextId)
    BY DEF ReloadInit, Init, IdsOf, UsedIds, Records, NoId
  <2> QED
    BY <2>1, <2>2, <2>3 DEF IndexInv
<1>5. Loaded
  BY <1>1, <1>3, <1>4, SavedIsLoaded
<1>6. StoreInv /\ DiskInv
  BY <1>1, <1>2, <1>5, LoadedIsSame DEF StoreInv
<1>7. IdsOf(disk, NextFreeId(disk))
  BY <1>3, <1>4, <1>5 DEF IndexInv, Loaded
<1>8. StoreContinuesDisk
  BY <1>3 DEF StoreContinuesDisk, Records, SameEvidence
<1> QED
  BY <1>3, <1>4, <1>6, <1>7, <1>8 DEF ReloadInv, Records

LEMMA SaveKeeps ==
  ASSUME ReloadInv, Save
  PROVE  ReloadInv'
<1>1. UNCHANGED vars /\ [Next]_vars
  BY DEF Save
<1>2. StoreInv' /\ IndexInv'
  BY <1>1, StoreStep, IndexStep DEF ReloadInv, StoreInv
<1>3. disk' = Records'
  BY <1>1 DEF Save, Records, vars
<1>4. Loaded'
  BY <1>2, <1>3, SavedIsLoadedNext DEF StoreInv
<1>5. DiskInv'
  BY <1>2, <1>4, LoadedIsSameNext
<1>6. IdsOf(disk, NextFreeId(disk))'
  BY <1>2, <1>3, <1>4 DEF IndexInv, Loaded
<1>7. StoreContinuesDisk'
  BY <1>3 DEF StoreContinuesDisk, Records, SameEvidence
<1>8. (disk = [cells |-> disk.cells, projection |-> disk.projection,
               edges |-> disk.edges, entityId |-> disk.entityId,
               episodes |-> disk.episodes])'
  BY <1>3 DEF Records
<1> QED
  BY <1>2, <1>5, <1>6, <1>7, <1>8 DEF ReloadInv

LEMMA RestartKeeps ==
  ASSUME ReloadInv, Restart
  PROVE  ReloadInv'
<1>1. disk' = disk
  BY DEF Restart
<1>2. Loaded'
  BY DEF Restart, Found, Loaded
<1>3. DiskInv'
  BY <1>1, DiskStays DEF ReloadInv
<1>4. StoreInv'
  BY <1>2, <1>3, LoadedIsSameNext
<1>5. Records' = disk
  BY DEF Restart, Found, Records, ReloadInv
<1>6. IdsOf(disk, NextFreeId(disk))'
  BY <1>1 DEF ReloadInv
<1>7. IndexInv'
  <2>1. IdsOf(Records, nextId)'
    BY <1>1, <1>2, <1>5, <1>6 DEF Loaded
  <2>2. \A t \in Texts : byText'[t] = LastWithText(cells', t)
    BY DEF Restart, Found
  <2>3. \A e \in Entities : entityCells'[e] = Mentions(cells', e)
    BY DEF Restart, Found
  <2> QED
    BY <2>1, <2>2, <2>3 DEF IndexInv
<1>8. StoreContinuesDisk'
  BY <1>1 DEF Restart, Found, StoreContinuesDisk, SameEvidence
<1>9. (disk = [cells |-> disk.cells, projection |-> disk.projection,
               edges |-> disk.edges, entityId |-> disk.entityId,
               episodes |-> disk.episodes])'
  BY <1>1 DEF ReloadInv
<1> QED
  BY <1>3, <1>4, <1>6, <1>7, <1>8, <1>9 DEF ReloadInv

LEMMA WriteKeeps ==
  ASSUME ReloadInv, [Next]_vars, UNCHANGED disk
  PROVE  ReloadInv'
<1>1. StoreInv' /\ IndexInv'
  BY StoreStep, IndexStep DEF ReloadInv, StoreInv
<1>2. DiskInv'
  BY DiskStays DEF ReloadInv
<1>3. StoreContinuesDisk'
  <2>1. /\ edges \subseteq edges' /\ episodes \subseteq episodes'
        /\ \A i \in DOMAIN cells :
             i \in DOMAIN cells' /\ SameEvidence(cells'[i], cells[i])
    BY RetainsStep DEF ReloadInv, StoreInv, Retained
  <2> QED
    BY <2>1 DEF ReloadInv, StoreContinuesDisk, SameEvidence
<1>4. IdsOf(disk, NextFreeId(disk))'
  BY DEF ReloadInv
<1>5. (disk = [cells |-> disk.cells, projection |-> disk.projection,
               edges |-> disk.edges, entityId |-> disk.entityId,
               episodes |-> disk.episodes])'
  BY DEF ReloadInv
<1> QED
  BY <1>1, <1>2, <1>3, <1>4, <1>5 DEF ReloadInv

----------------------------------------------------------------------------
(* Theorems.                                                               *)

LEMMA ReloadInvariance == ReloadSpec => []ReloadInv
<1>1. ReloadInv /\ [ReloadNext]_reloadVars => ReloadInv'
  <2> SUFFICES ASSUME ReloadInv, [ReloadNext]_reloadVars PROVE ReloadInv'
    OBVIOUS
  <2>1. CASE Save
    BY <2>1, SaveKeeps
  <2>2. CASE Restart
    BY <2>2, RestartKeeps
  <2>3. CASE Write \/ UNCHANGED reloadVars
    BY <2>3, WriteKeeps DEF Write, reloadVars
  <2> QED
    BY <2>1, <2>2, <2>3 DEF ReloadNext
<1> QED
  BY <1>1, ReloadStart, PTL DEF ReloadSpec

\* A store that is saved and loaded is the same store: the indexes and the
\* counter load derives from the records (Store::load) are those the writers
\* maintain, whatever was written and however often the process was started
\* again (Reload.ReloadIsIdentity).
THEOREM ReloadsAreIdentical == ReloadSpec => []ReloadIsIdentity
<1>1. ReloadInv => ReloadIsIdentity
  <2> SUFFICES ASSUME ReloadInv PROVE ReloadIsIdentity
    OBVIOUS
  <2>1. nextId \in Nat \ {0} /\ IdsOf(Records, nextId)
    BY DEF ReloadInv, StoreInv, TypeOK, IndexInv
  <2>2. NextFreeId(Records) = nextId
    BY <2>1, NextFreeIdIs
  <2> QED
    BY <2>2 DEF ReloadInv, IndexInv, ReloadIsIdentity
<1> QED
  BY <1>1, ReloadInvariance, PTL

\* What is on the disk is in the running store and means the same there, so
\* that a save never loses what an earlier one kept
\* (Reload.StoreContinuesDisk).
THEOREM StoresContinueDisks == ReloadSpec => []StoreContinuesDisk
BY ReloadInvariance, PTL DEF ReloadInv

\* The properties of the version chains that are proved above of a store
\* that runs for ever hold of one that is stopped, saved or not, and
\* started again: its writers find the journal's store as they would have
\* left it.
THEOREM ChainsSurviveRestarts ==
  ReloadSpec => [](/\ TypeOK /\ ChainLinked /\ AsOfAgrees
                   /\ ProjectionNewest /\ DedupComplete
                   /\ EdgesMatchHistory /\ VersionCountExact)
<1>1. StoreInv => /\ TypeOK /\ ChainLinked /\ AsOfAgrees
                  /\ ProjectionNewest /\ DedupComplete
                  /\ EdgesMatchHistory /\ VersionCountExact
  BY ChainLinkedFollows, AsOfAgreesFollows, ProjectionNewestFollows,
     DedupFollows DEF StoreInv
<1>2. ReloadInv => StoreInv
  BY DEF ReloadInv
<1> QED
  BY <1>1, <1>2, ReloadInvariance, PTL

=============================================================================

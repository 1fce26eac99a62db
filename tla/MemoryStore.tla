---------------------------- MODULE MemoryStore ----------------------------
(***************************************************************************)
(* The write path of the ETMC store (core/src/store.cpp): episodes are     *)
(* captured, cells are reconciled into version chains with validity        *)
(* windows, projections point at the current cell of a key, cells are      *)
(* forgotten.                                                              *)
(*                                                                         *)
(* Every public method of Store holds the store's recursive mutex for its  *)
(* whole body, so one call is one step.                                    *)
(*                                                                         *)
(* Abstracted: a text is a member of Texts (reconcile compares texts with  *)
(* equality only; the empty text returns 0 and changes nothing), a key is  *)
(* a pair (subject, predicate) of non-empty strings and NoKey stands for   *)
(* every other pair.  Kind, object, confidence, salience, tags and source  *)
(* offsets are carried by a cell and read by nothing on this path.         *)
(***************************************************************************)
EXTENDS Integers, FiniteSets

CONSTANTS
  Texts,        \* the statements callers reconcile
  Keys,         \* (subject, predicate) pairs, both parts non-empty
  NoKey,        \* a cell without subject or without predicate
  Entities,     \* lowercased entity names
  Times,        \* the instants at which statements become true, milliseconds
  Observed,     \* the instants at which statements are observed
  Never,        \* kNever: the end of a window that is still open
  MaxCells,     \* bound on the cells created in a behaviour
  MaxId         \* bound on the ids handed out in a behaviour

ASSUME TimeAssumption ==
  /\ Times \subseteq Nat \ {0} /\ Observed \subseteq Times
  /\ Never \in Nat
  /\ \A t \in Times : t < Never

ASSUME NameAssumption == NoKey \notin Keys

ASSUME EntityAssumption == IsFiniteSet(Entities)

VARIABLES
  cells,        \* cells_ and id_to_index_: the cell of each cell id
  projection,   \* projections_: the StateProjection of each key
  byText,       \* content_hash_to_cell_: the last cell created for a text
  edges,        \* edges_
  entityId,     \* entity_name_to_id_: 0 for a name never seen
  entityCells,  \* entity_to_cells_
  episodes,     \* ids of episodes_
  nextId        \* id_counter_, shared by everything that has an id

vars == <<cells, projection, byText, edges, entityId, entityCells, episodes,
          nextId>>

NoId == 0

----------------------------------------------------------------------------
(* The data model of types.hpp.                                            *)

Status == {"Active", "Superseded", "Forgotten"}

Cell == [text     : Texts,
         key      : Keys \cup {NoKey},
         observed : Times,
         from     : Times,
         until    : Times \cup {Never},
         status   : Status,
         parent   : Nat,
         root     : Nat,
         entities : SUBSET Entities]

Projection == [active : Nat, root : Nat, count : Nat, updated : Times \cup {0}]

NoProjection == [active |-> NoId, root |-> NoId, count |-> 0, updated |-> 0]

Edge == [id : Nat, type : {"Updates", "Related"}, src : Nat, dst : Nat,
         at : Times]

\* What a caller passes to reconcile; validFrom = 0 stands for "as observed".
Input == [text : Texts, key : Keys \cup {NoKey}, observed : Observed,
          validFrom : Times \cup {0}, entities : SUBSET Entities]

\* Mutant of ValidFrom: valid_from = 0 is taken as it stands.
RawValidFrom(in) == in.validFrom

ValidFrom(in) == IF in.validFrom # 0 THEN in.validFrom ELSE in.observed

----------------------------------------------------------------------------
(* Reading the state.                                                      *)

\* The cell a key's projection points at, NoId when it has none.
Current(k) == IF k = NoKey THEN NoId ELSE projection[k].active

\* Mutant of Duplicate: dedup looks for the text under the same key only.
DuplicateUnderKey(in) ==
  /\ byText[in.text] # NoId
  /\ cells[byText[in.text]].status = "Active"
  /\ cells[byText[in.text]].key = in.key

\* The same text is already active: reconcile returns that cell.
Duplicate(in) ==
  /\ byText[in.text] # NoId
  /\ cells[byText[in.text]].status = "Active"

\* The input is at least as recent in event time as the current cell.
Supersedes(in) ==
  /\ Current(in.key) # NoId
  /\ ValidFrom(in) >= cells[Current(in.key)].from

\* Mutant of OutOfOrder: a late event is not recognised.
NeverLate(in) == FALSE

\* An earlier event that arrives late.
OutOfOrder(in) ==
  /\ Current(in.key) # NoId
  /\ ValidFrom(in) < cells[Current(in.key)].from

RootOf(i) == IF cells[i].root # NoId THEN cells[i].root ELSE i

\* Mutant of Lineage: the walk stops at the parent.
ParentOnly(cs, i) == {i, cs[i].parent} \ {NoId}

\* The version walk of update_projection: i and its ancestors, each visited
\* once, that is the least set with i that is closed under parent links.
Lineage(cs, i) ==
  { j \in DOMAIN cs :
      \A S \in SUBSET (DOMAIN cs) :
        (/\ i \in S
         /\ \A x \in S : cs[x].parent # NoId => cs[x].parent \in S)
        => j \in S }

----------------------------------------------------------------------------
(* The pieces of reconcile.                                                *)

\* The cell reconcile builds: open-ended, and linked to the cell it replaces.
NewCell(in) ==
  [text     |-> in.text,
   key      |-> in.key,
   observed |-> in.observed,
   from     |-> ValidFrom(in),
   until    |-> Never,
   status   |-> "Active",
   parent   |-> IF Supersedes(in) THEN Current(in.key) ELSE NoId,
   root     |-> IF Supersedes(in) THEN RootOf(Current(in.key)) ELSE NoId,
   entities |-> in.entities]

\* Mutant of Superseded: the window of the replaced cell stays open.
SupersededOpen(c, at) == [c EXCEPT !.status = "Superseded"]

\* The replaced cell: its window closes where the new one opens.
Superseded(c, at) == [c EXCEPT !.until = at, !.status = "Superseded"]

\* cells_ after the new cell is appended and the replaced one is closed.
CellsAfter(in) ==
  [i \in DOMAIN cells \cup {nextId} |->
     IF i = nextId THEN NewCell(in)
     ELSE IF Supersedes(in) /\ i = Current(in.key)
          THEN Superseded(cells[i], ValidFrom(in))
          ELSE cells[i]]

\* Mutant of ProjectionAfter: a projection that exists is not moved.
ProjectionStuck(in) ==
  IF in.key = NoKey \/ OutOfOrder(in) \/ Supersedes(in) THEN projection
  ELSE [projection EXCEPT ![in.key] =
          [active |-> nextId, root |-> nextId, count |-> 1,
           updated |-> in.observed]]

\* update_projection for the cell that was just created.
ProjectionAfter(in) ==
  IF in.key = NoKey \/ OutOfOrder(in) THEN projection
  ELSE [projection EXCEPT ![in.key] =
          [active  |-> nextId,
           root    |-> IF Supersedes(in) THEN RootOf(Current(in.key))
                                         ELSE nextId,
           count   |-> Cardinality(Lineage(CellsAfter(in), nextId)),
           updated |-> in.observed]]

\* Names ensure_entity has to allocate an id for.
NewEntities(in) == { e \in in.entities : entityId[e] = NoId }

\* Ids for new names, in whatever order the caller lists them.
FreshIds(names, first) ==
  { ids \in [names -> first .. first + Cardinality(names) - 1] :
      \A a, b \in names : ids[a] = ids[b] => a = b }

\* Mutant of EdgesAfter: a late cell gets an Updates edge too.
EdgesAllUpdates(in, id) ==
  IF Current(in.key) = NoId THEN edges
  ELSE edges \cup {[id |-> id, type |-> "Updates", src |-> Current(in.key),
                    dst |-> nextId, at |-> in.observed]}

\* The edge from the current cell to the new one, under the next free id.
EdgesAfter(in, id) ==
  IF Current(in.key) = NoId THEN edges
  ELSE edges \cup
       {[id   |-> id,
         type |-> IF Supersedes(in) THEN "Updates" ELSE "Related",
         src  |-> Current(in.key),
         dst  |-> nextId,
         at   |-> in.observed]}

----------------------------------------------------------------------------
(* The operations.                                                         *)

Init ==
  /\ cells = [i \in {} |-> NoId]
  /\ projection = [k \in Keys |-> NoProjection]
  /\ byText = [t \in Texts |-> NoId]
  /\ edges = {}
  /\ entityId = [e \in Entities |-> NoId]
  /\ entityCells = [e \in Entities |-> {}]
  /\ episodes = {}
  /\ nextId = 1

\* capture_episode: append-only raw evidence.
CaptureEpisode ==
  /\ nextId <= MaxId
  /\ episodes' = episodes \cup {nextId}
  /\ nextId' = nextId + 1
  /\ UNCHANGED <<cells, projection, byText, edges, entityId, entityCells>>

\* reconcile of a text that is not active: the cell takes the next id, then
\* its new entities, then its edge.  A duplicate returns without a change.
Reconcile(in) ==
  /\ Cardinality(DOMAIN cells) < MaxCells
  /\ ~Duplicate(in)
  /\ LET names == NewEntities(in)
         after == nextId + 1 + Cardinality(names)
     IN /\ \E ids \in FreshIds(names, nextId + 1) :
             entityId' = [e \in Entities |->
                            IF e \in names THEN ids[e] ELSE entityId[e]]
        /\ edges' = EdgesAfter(in, after)
        /\ nextId' = IF Current(in.key) = NoId THEN after ELSE after + 1
        /\ nextId' <= MaxId + 1
  /\ cells' = CellsAfter(in)
  /\ projection' = ProjectionAfter(in)
  /\ byText' = [byText EXCEPT ![in.text] = nextId]
  /\ entityCells' = [e \in Entities |->
                       IF e \in in.entities THEN entityCells[e] \cup {nextId}
                                            ELSE entityCells[e]]
  /\ UNCHANGED episodes

\* forget: only the status changes, whatever it was.
Forget(i) ==
  /\ cells[i].status # "Forgotten"
  /\ cells' = [cells EXCEPT ![i].status = "Forgotten"]
  /\ UNCHANGED <<projection, byText, edges, entityId, entityCells, episodes,
                 nextId>>

Next ==
  \/ CaptureEpisode
  \/ \E in \in Input : Reconcile(in)
  \/ \E i \in DOMAIN cells : Forget(i)

Spec == Init /\ [][Next]_vars

----------------------------------------------------------------------------
(* Types.                                                                  *)

\* Every variable has its type, and every id in use was handed out.
TypeOK ==
  /\ nextId \in Nat \ {0}
  /\ DOMAIN cells \subseteq 1 .. nextId - 1
  /\ cells \in [DOMAIN cells -> Cell]
  /\ projection \in [Keys -> Projection]
  /\ \A k \in Keys : projection[k].active \in DOMAIN cells \cup {NoId}
  /\ byText \in [Texts -> DOMAIN cells \cup {NoId}]
  /\ edges \subseteq Edge
  /\ entityId \in [Entities -> Nat]
  /\ entityCells \in [Entities -> SUBSET DOMAIN cells]
  /\ episodes \subseteq 1 .. nextId - 1

----------------------------------------------------------------------------
(* Properties of the version chains.                                       *)

\* The versions of a key: its first cell and the cells that replaced one.
\* A late cell has a key, and neither a parent nor the key's projection.
Versions(k) ==
  { i \in DOMAIN cells :
      cells[i].key = k /\ (cells[i].parent # NoId \/ i = projection[k].root) }

\* The history each key's versions amount to.
History ==
  [k \in Keys |-> { [ver |-> i, value |-> cells[i].text,
                     from |-> cells[i].from] : i \in Versions(k) }]

T == INSTANCE Timeline WITH versions <- History

\* The store implements the timeline: whatever is reconciled or forgotten, in
\* whatever order events arrive, versions are only appended and the current
\* truth never moves back in event time.
RefinesTimeline == T!Spec

\* A version is replaced at most once, by a version of its own key that
\* starts where its window closes, and it is not active any more.
ChainLinked ==
  \A i \in DOMAIN cells :
    LET p == cells[i].parent
    IN p # NoId =>
         /\ p \in DOMAIN cells /\ p < i
         /\ cells[i].key # NoKey /\ cells[p].key = cells[i].key
         /\ cells[p].until = cells[i].from
         /\ cells[p].from <= cells[p].until
         /\ cells[p].status # "Active"
         /\ \A j \in DOMAIN cells : cells[j].parent = p => j = i

\* The validity windows agree with the history: at every instant the versions
\* of a key whose window covers it are the one the timeline has for it, so
\* windows neither overlap nor leave a gap.
AsOfAgrees ==
  \A k \in Keys, t \in Times :
    { i \in Versions(k) : cells[i].from <= t /\ t < cells[i].until }
      = { v.ver : v \in T!AsOf(k, t) }

\* No cell of a key, late ones included, starts after the cell the key's
\* projection points at, and that cell's window is open.
ProjectionNewest ==
  \A k \in Keys :
    LET p == projection[k]
        own == { i \in DOMAIN cells : cells[i].key = k }
    IN IF own = {} THEN p = NoProjection
       ELSE /\ p.active \in own
            /\ cells[p.active].until = Never
            /\ \A i \in own : cells[i].from <= cells[p.active].from

\* version_count counts the versions of the key, root_id is the first of
\* them, and every version knows its root.
VersionCountExact ==
  \A k \in Keys :
    LET p == projection[k]
    IN /\ p.count = Cardinality(Versions(k))
       /\ \A i \in Versions(k) : p.root <= i /\ RootOf(i) = p.root

\* Two cells state the same thing, observed at the same time, in the same
\* place of the same chain.
SameEvidence(c, d) ==
  /\ c.text = d.text /\ c.key = d.key /\ c.observed = d.observed
  /\ c.from = d.from /\ c.parent = d.parent /\ c.root = d.root
  /\ c.entities = d.entities

\* Evidence is never destroyed: cells and edges are only added, nothing in a
\* cell changes but its status and the end of its window, and a window is
\* closed once.
EvidenceRetained ==
  [][ /\ edges \subseteq edges' /\ episodes \subseteq episodes'
      /\ \A i \in DOMAIN cells :
           /\ i \in DOMAIN cells'
           /\ SameEvidence(cells'[i], cells[i])
           /\ cells[i].until # Never => cells'[i].until = cells[i].until
    ]_vars

\* Exact dedup: two active cells never hold the same text.
DedupComplete ==
  \A i, j \in DOMAIN cells :
    /\ cells[i].text = cells[j].text
    /\ cells[i].status = "Active" /\ cells[j].status = "Active"
    => i = j

\* The edges tell the whole history: Updates edges are exactly the parent
\* links, and every late cell has one Related edge, from a version of its
\* key that starts after it.
EdgesMatchHistory ==
  LET updates == { e \in edges : e.type = "Updates" }
      related == { e \in edges : e.type = "Related" }
      late == { i \in DOMAIN cells :
                  cells[i].key # NoKey /\ i \notin Versions(cells[i].key) }
  IN /\ { <<e.src, e.dst>> : e \in updates }
          = { <<cells[i].parent, i>> :
                i \in { j \in DOMAIN cells : cells[j].parent # NoId } }
     /\ { e.dst : e \in related } = late
     /\ \A e \in related :
          /\ e.src \in Versions(cells[e.dst].key)
          /\ cells[e.dst].from < cells[e.src].from

----------------------------------------------------------------------------
(* The inductive invariant behind the properties above (StoreProofs).      *)

Own(k) == { i \in DOMAIN cells : cells[i].key = k }

\* A key without cells has no projection; the projection of any other key
\* points at a version whose window is open, after which no cell of the key
\* starts, and knows the first version.
ProjectionOf(k) ==
  LET p == projection[k]
  IN IF Own(k) = {} THEN p = NoProjection
     ELSE /\ p.active \in Versions(k)
          /\ cells[p.active].until = Never
          /\ \A i \in Own(k) : cells[i].from <= cells[p.active].from
          /\ p.root \in Versions(k)
          /\ cells[p.root].parent = NoId

\* The versions of a key in the order of their ids: each ends before the next
\* starts, each but the current one has a child, and all share the root.
VersionsOf(k) ==
  LET p == projection[k]
  IN /\ \A i, j \in Versions(k) : i < j => cells[i].until <= cells[j].from
     /\ \A i \in Versions(k) :
          /\ p.root <= i /\ i <= p.active
          /\ RootOf(i) = p.root
          /\ i # p.active => /\ cells[i].status # "Active"
                             /\ \E j \in Versions(k) : cells[j].parent = i

\* A version starts where the window of its parent, a version, ends.
ParentOf(i) ==
  LET p == cells[i].parent
  IN p # NoId =>
       /\ p < i
       /\ cells[i].key \in Keys
       /\ p \in Versions(cells[i].key)
       /\ cells[p].until = cells[i].from
       /\ cells[p].from <= cells[p].until

\* byText knows the last cell with a text; the others are not active.
LastOfText(i) ==
  LET last == byText[cells[i].text]
  IN /\ last # NoId /\ i <= last
     /\ cells[last].text = cells[i].text
     /\ i # last => cells[i].status # "Active"

ChainInv ==
  /\ \A k \in Keys : ProjectionOf(k)
  /\ \A k \in Keys : VersionsOf(k)
  /\ \A i \in DOMAIN cells : ParentOf(i)
  /\ \A i, j \in DOMAIN cells :
       cells[i].parent = cells[j].parent /\ cells[i].parent # NoId => i = j
  /\ \A i \in DOMAIN cells : LastOfText(i)

=============================================================================

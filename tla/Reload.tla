------------------------------- MODULE Reload -------------------------------
(***************************************************************************)
(* What the journal of the store holds (core/src/store.cpp, Store::save    *)
(* and Store::load).  The records of a journal are the store's episodes,   *)
(* cells, projections, edges and entities; the indexes and the id counter  *)
(* are not written and load builds them again.  A process saves, stops     *)
(* and starts over from the last journal, and its writers go on from       *)
(* there.                                                                  *)
(*                                                                         *)
(* A save is one step here: Journal models the file under it.  The vectors *)
(* of cells, which no other operation modelled here reads, are left out.   *)
(***************************************************************************)
EXTENDS MemoryStore, FiniteSetsExt

VARIABLE disk      \* the records of the last journal, none before the first

reloadVars == <<vars, disk>>

\* The records save emits.
Records ==
  [cells |-> cells, projection |-> projection, edges |-> edges,
   entityId |-> entityId, episodes |-> episodes]

NoRecords ==
  [cells |-> [i \in {} |-> NoId],
   projection |-> [k \in Keys |-> NoProjection],
   edges |-> {}, entityId |-> [e \in Entities |-> NoId], episodes |-> {}]

----------------------------------------------------------------------------
(* What load derives from the records.                                     *)

\* Mutant of LastWithText: the first cell with a text wins.
FirstWithText(cs, t) ==
  LET same == { i \in DOMAIN cs : cs[i].text = t }
  IN IF same = {} THEN NoId ELSE Min(same)

\* content_hash_to_cell_: cells are indexed in the order of the journal, the
\* order they were created in, and a later one replaces an earlier one.
LastWithText(cs, t) == Max({ i \in DOMAIN cs : cs[i].text = t } \cup {NoId})

\* entity_to_cells_, from the entity ids the cells carry.
Mentions(cs, e) == { i \in DOMAIN cs : e \in cs[i].entities }

\* Mutant of UsedIds: the ids of edges are overlooked.
IdsWithoutEdges(r) ==
  DOMAIN r.cells \cup { r.entityId[e] : e \in Entities } \cup r.episodes

\* The ids found in the records, entities never seen giving 0.
UsedIds(r) ==
  DOMAIN r.cells \cup { e.id : e \in r.edges }
    \cup { r.entityId[e] : e \in Entities } \cup r.episodes

\* id_counter_: one more than the highest id found, 1 without any.
NextFreeId(r) == Max(UsedIds(r) \cup {0}) + 1

----------------------------------------------------------------------------

ReloadInit == Init /\ disk = NoRecords

Save == disk' = Records /\ UNCHANGED vars

\* Mutant of Found: the fresh process does not look for its journal.
FoundNothing == NoRecords

\* The records a fresh process starts from: without a journal there are none.
Found == disk

\* The process stops, saved or not, and a fresh one loads the journal.
Restart ==
  /\ cells' = Found.cells
  /\ projection' = Found.projection
  /\ edges' = Found.edges
  /\ entityId' = Found.entityId
  /\ episodes' = Found.episodes
  /\ byText' = [t \in Texts |-> LastWithText(Found.cells, t)]
  /\ entityCells' = [e \in Entities |-> Mentions(Found.cells, e)]
  /\ nextId' = NextFreeId(Found)
  /\ UNCHANGED disk

Write == Next /\ UNCHANGED disk

ReloadNext == Save \/ Restart \/ Write

ReloadSpec == ReloadInit /\ [][ReloadNext]_reloadVars

----------------------------------------------------------------------------
(* Properties.                                                             *)

\* Loading what save would write now gives back the very same store: the
\* indexes and the counter that are kept up to date while cells arrive are
\* the ones load derives from the records.
ReloadIsIdentity ==
  /\ \A t \in Texts : byText[t] = LastWithText(cells, t)
  /\ \A e \in Entities : entityCells[e] = Mentions(cells, e)
  /\ nextId = NextFreeId(Records)

\* The running store continues its journal: what is on disk is in the store,
\* and means the same, so a save never writes less than was there.
StoreContinuesDisk ==
  /\ \A i \in DOMAIN disk.cells :
       i \in DOMAIN cells /\ SameEvidence(cells[i], disk.cells[i])
  /\ disk.edges \subseteq edges /\ disk.episodes \subseteq episodes

=============================================================================

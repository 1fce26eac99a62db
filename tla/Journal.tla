------------------------------ MODULE Journal ------------------------------
(***************************************************************************)
(* The journal file of a container under the processes that use it         *)
(* (MemoryEngine and MemoryClient; Store::save and Store::load).  The HTTP *)
(* server, the MCP server and the TUI are processes of their own: each     *)
(* loads the journal when it starts, works on its own store, and writes    *)
(* the whole store to <journal>.tmp and renames it after each ingest.      *)
(*                                                                         *)
(* A store is abstracted to a set of changes: a fact that was stored and   *)
(* the forgetting of a fact (Reload has the records in detail).  A file is *)
(* the changes it holds and whether it is a whole journal.  The threads of *)
(* a process take turns: save holds the store's mutex until it returns.    *)
(***************************************************************************)
EXTENDS FiniteSets, Naturals

CONSTANTS
  Procs,      \* the processes that open the container
  Writers,    \* those of them that ingest; the others only read it
  Facts,      \* the statements they store
  Outages     \* how many saves the file system refuses

ASSUME JournalAssumption == Writers \subseteq Procs /\ Outages \in Nat

VARIABLES
  up,         \* the processes that run
  mem,        \* the changes in the store of each process
  phase,      \* where the save of each process stands
  file,       \* the file that process has open, or left behind
  alone,      \* nobody else opened that file since this process did
  journal,    \* the journal: a file's contents, or Absent
  tmp,        \* <journal>.tmp: likewise
  acked,      \* changes reported as saved: ingest ended, nothing failed
  told,       \* changes a caller was told are done
  outages     \* saves refused so far

vars == <<up, mem, phase, file, alone, journal, tmp, acked, told, outages>>

Changes == Facts \X {"stored", "forgotten"}

Absent == [there |-> FALSE, whole |-> FALSE, holds |-> {}]
Torn   == [there |-> TRUE,  whole |-> FALSE, holds |-> {}]
Whole(changes) == [there |-> TRUE, whole |-> TRUE, holds |-> changes]

Stored(p) == { f \in Facts : <<f, "stored">> \in mem[p] }

Idle(p) == p \in up /\ phase[p] = "idle"

----------------------------------------------------------------------------
(* MemoryEngine.                                                           *)

Init ==
  /\ up = {}
  /\ mem = [p \in Procs |-> {}]
  /\ phase = [p \in Procs |-> "idle"]
  /\ file = [p \in Procs |-> "none"]
  /\ alone = [p \in Procs |-> TRUE]
  /\ journal = Absent
  /\ tmp = Absent
  /\ acked = {}
  /\ told = {}
  /\ outages = 0

\* Mutant of Loaded: a journal that is there is not read.
LoadedNothing(f) == {}

\* load throws on a torn or missing journal, and __init__ suppresses it.  (A
\* file cut off between two records would load up to the cut; a journal is torn
\* only where there are two writers, and then reading nothing is the worst.)
Loaded(f) == IF f.whole THEN f.holds ELSE {}

Start(p) ==
  /\ p \notin up
  /\ up' = up \cup {p}
  /\ mem' = [mem EXCEPT ![p] = Loaded(journal)]
  /\ UNCHANGED <<phase, file, alone, journal, tmp, acked, told,
                 outages>>

\* A process ends, or crashes anywhere in a save: what it wrote stays.
Stop(p) ==
  /\ p \in up
  /\ up' = up \ {p}
  /\ mem' = [mem EXCEPT ![p] = {}]
  /\ phase' = [phase EXCEPT ![p] = "idle"]
  /\ file' = [file EXCEPT ![p] = "none"]
  /\ UNCHANGED <<alone, journal, tmp, acked, told, outages>>

\* MemoryClient.add: the store has the fact; nothing is saved.
Add(p, f) ==
  /\ Idle(p)
  /\ f \notin Stored(p)
  /\ mem' = [mem EXCEPT ![p] = @ \cup {<<f, "stored">>}]
  /\ told' = told \cup {<<f, "stored">>}
  /\ UNCHANGED <<up, phase, file, alone, journal, tmp, acked,
                 outages>>

\* The forget endpoint and the MCP tool: the store forgets; nothing is saved.
Forget(p, f) ==
  /\ Idle(p)
  /\ f \in Stored(p) /\ <<f, "forgotten">> \notin mem[p]
  /\ mem' = [mem EXCEPT ![p] = @ \cup {<<f, "forgotten">>}]
  /\ told' = told \cup {<<f, "forgotten">>}
  /\ UNCHANGED <<up, phase, file, alone, journal, tmp, acked,
                 outages>>

\* MemoryEngine.ingest up to its persist; a fact stored before is a dup.
Ingest(p, f) ==
  /\ Idle(p) /\ p \in Writers
  /\ mem' = [mem EXCEPT ![p] = @ \cup {<<f, "stored">>}]
  /\ phase' = [phase EXCEPT ![p] = "persist"]
  /\ UNCHANGED <<up, file, alone, journal, tmp, acked, told,
                 outages>>

----------------------------------------------------------------------------
(* Store::save.                                                            *)

\* The contents of the file process p has open.
Contents(p) == IF file[p] = "tmp" THEN tmp
               ELSE IF file[p] = "journal" THEN journal ELSE Absent

SetContents(p, c) ==
  /\ tmp' = IF file[p] = "tmp" THEN c ELSE tmp
  /\ journal' = IF file[p] = "journal" THEN c ELSE journal

\* Open <journal>.tmp and truncate it, whoever else has it open.
OpenTmp(p) ==
  /\ p \in up /\ phase[p] = "persist"
  /\ phase' = [phase EXCEPT ![p] = "writing"]
  /\ file' = [file EXCEPT ![p] = "tmp"]
  /\ tmp' = Torn
  /\ LET others == { q \in Procs \ {p} :
                       phase[q] = "writing" /\ file[q] = "tmp" }
     IN alone' = [q \in Procs |->
                    IF q = p THEN others = {}
                    ELSE alone[q] /\ q \notin others]
  /\ UNCHANGED <<up, mem, journal, acked, told, outages>>

\* The last byte is written and the file closed.  Two writers at their own
\* offsets of one file leave the one's journal or a mixture.
WriteAll(p) ==
  /\ p \in up /\ phase[p] = "writing"
  /\ \E c \in {Whole(mem[p])} \cup (IF alone[p] THEN {} ELSE {Torn}) :
       SetContents(p, c)
  /\ phase' = [phase EXCEPT ![p] = "written"]
  /\ UNCHANGED <<up, mem, file, alone, acked, told, outages>>

\* Mutant of Finished: a failed save is reported like one that succeeded.
FinishedAnyway(p, ok) ==
  /\ phase' = [phase EXCEPT ![p] = "idle"]
  /\ told' = told \cup { c \in mem[p] : c[2] = "stored" }
  /\ acked' = acked \cup mem[p]

\* persist returns: a failure is counted and swallowed, the ingest succeeds.
Finished(p, ok) ==
  /\ phase' = [phase EXCEPT ![p] = "idle"]
  /\ told' = told \cup { c \in mem[p] : c[2] = "stored" }
  /\ acked' = IF ok THEN acked \cup mem[p] ELSE acked

\* rename: the file under the name .tmp becomes the journal, for everyone who
\* has it open.  Without such a file it fails.
Rename(p) ==
  /\ p \in up /\ phase[p] = "written"
  /\ IF tmp.there
     THEN /\ journal' = tmp
          /\ tmp' = Absent
          /\ file' = [q \in Procs |->
                        IF q = p \/ file[q] = "journal" THEN "none"
                        ELSE IF file[q] = "tmp" THEN "journal" ELSE file[q]]
     ELSE /\ UNCHANGED <<journal, tmp>>
          /\ file' = [file EXCEPT ![p] = "none"]
  /\ Finished(p, tmp.there)
  /\ UNCHANGED <<up, mem, alone, outages>>

\* The disk is full or read-only: the open, a write or the rename fails, and
\* a file save had already written is removed.
Refuse(p) ==
  /\ p \in up /\ phase[p] \in {"persist", "writing", "written"}
  /\ outages < Outages
  /\ outages' = outages + 1
  /\ tmp' = IF phase[p] = "persist" THEN tmp ELSE Absent
  /\ file' = [q \in Procs |->
                IF q = p \/ (phase[p] # "persist" /\ file[q] = "tmp")
                THEN "none" ELSE file[q]]
  /\ Finished(p, FALSE)
  /\ UNCHANGED <<up, mem, alone, journal>>

Next ==
  \E p \in Procs :
    \/ Start(p) \/ Stop(p)
    \/ \E f \in Facts : Add(p, f) \/ Forget(p, f) \/ Ingest(p, f)
    \/ OpenTmp(p) \/ WriteAll(p) \/ Rename(p) \/ Refuse(p)

Spec == Init /\ [][Next]_vars

----------------------------------------------------------------------------
(* Properties.                                                             *)

\* Every variable has its type, and what is saved was reported.
TypeOK ==
  /\ up \subseteq Procs
  /\ mem \in [Procs -> SUBSET Changes]
  /\ phase \in [Procs -> {"idle", "persist", "writing", "written"}]
  /\ file \in [Procs -> {"none", "tmp", "journal"}]
  /\ alone \in [Procs -> BOOLEAN]
  /\ {journal, tmp} \subseteq
       [there : BOOLEAN, whole : BOOLEAN, holds : SUBSET Changes]
  /\ told \subseteq Changes /\ acked \subseteq told
  /\ outages \in 0 .. Outages

\* With one writer, what an ingest saved without counting a failure is in the
\* journal, in whatever order processes crash, restart and fail to save.
AckedIsInJournal ==
  acked # {} => journal.whole /\ acked \subseteq journal.holds

\* With one writer, a journal once committed stays whole, and no later save
\* makes it hold less.
JournalOnlyGrows ==
  [][ journal.there => /\ journal'.whole
                       /\ journal.holds \subseteq journal'.holds ]_vars

\* "A fresh client in a later process recalls what earlier sessions stored"
\* (api.py): a process that has just started knows what callers were told.
LaterProcessRecalls ==
  [][ \A p \in up' \ up : told \subseteq mem'[p] ]_vars

=============================================================================

--------------------------- MODULE JournalProofs ---------------------------
(***************************************************************************)
(* What Journal's runs check with two processes and two facts, for any     *)
(* number of them: types, and that a single writer's acknowledged saves    *)
(* are in a journal that is whole and only grows.                          *)
(***************************************************************************)
EXTENDS Journal, TLAPS

\* A change that undoes a fact was told to a caller when it was made.
Told(changes) == \A c \in changes : c[2] = "forgotten" => c \in told

TypeInv ==
  /\ TypeOK
  /\ Told(journal.holds) /\ Told(tmp.holds)
  /\ \A p \in Procs : Told(mem[p])

LEMMA FinishedType ==
  ASSUME TypeInv, NEW p \in Procs, NEW ok \in BOOLEAN, Finished(p, ok)
  PROVE  /\ phase' \in [Procs -> {"idle", "persist", "writing", "written"}]
         /\ told \subseteq told' /\ told' \subseteq Changes
         /\ acked' \subseteq told'
<1>1. /\ mem[p] \subseteq Changes /\ told \subseteq Changes
      /\ acked \subseteq told
  BY DEF TypeInv, TypeOK
<1>2. \A c \in mem[p] : c[2] = "stored" \/ c[2] = "forgotten"
  BY <1>1 DEF Changes
<1>3. told' = told \cup { c \in mem[p] : c[2] = "stored" }
  BY DEF Finished
<1>4. mem[p] \subseteq told'
  BY <1>2, <1>3 DEF TypeInv, Told
<1>5. acked' \subseteq told'
  BY <1>1, <1>3, <1>4 DEF Finished
<1>6. phase' \in [Procs -> {"idle", "persist", "writing", "written"}]
  BY DEF Finished, TypeInv, TypeOK
<1> QED
  BY <1>1, <1>3, <1>5, <1>6

\* Every reachable state of Journal is well typed, and nothing is
\* acknowledged that was not reported to a caller.
THEOREM TypeCorrect == Spec => []TypeOK
<1>1. Init => TypeInv
  BY JournalAssumption DEF Init, TypeInv, TypeOK, Told, Absent
<1>2. TypeInv /\ [Next]_vars => TypeInv'
  <2> SUFFICES ASSUME TypeInv, [Next]_vars PROVE TypeInv'
    OBVIOUS
  <2> USE DEF TypeInv, Told
  <2>1. ASSUME NEW p \in Procs, Start(p) PROVE TypeInv'
    BY <2>1 DEF Start, Loaded, TypeOK
  <2>2. ASSUME NEW p \in Procs, Stop(p) PROVE TypeInv'
    BY <2>2 DEF Stop, TypeOK
  <2>3. ASSUME NEW p \in Procs, NEW f \in Facts, Add(p, f) PROVE TypeInv'
    BY <2>3 DEF Add, TypeOK, Changes
  <2>4. ASSUME NEW p \in Procs, NEW f \in Facts, Forget(p, f) PROVE TypeInv'
    BY <2>4 DEF Forget, TypeOK, Changes
  <2>5. ASSUME NEW p \in Procs, NEW f \in Facts, Ingest(p, f) PROVE TypeInv'
    BY <2>5 DEF Ingest, TypeOK, Changes
  <2>6. ASSUME NEW p \in Procs, OpenTmp(p) PROVE TypeInv'
    <3>1. alone' \in [Procs -> BOOLEAN]
      BY <2>6 DEF OpenTmp, TypeOK
    <3>2. tmp' = Torn /\ UNCHANGED <<up, mem, journal, acked, told, outages>>
      BY <2>6 DEF OpenTmp
    <3>3. /\ phase' \in [Procs -> {"idle", "persist", "writing", "written"}]
          /\ file' \in [Procs -> {"none", "tmp", "journal"}]
      BY <2>6 DEF OpenTmp, TypeOK
    <3> QED
      BY <3>1, <3>2, <3>3 DEF Torn, TypeOK
  <2>7. ASSUME NEW p \in Procs, WriteAll(p) PROVE TypeInv'
    <3>1. PICK c \in {Whole(mem[p]), Torn} : SetContents(p, c)
      BY <2>7 DEF WriteAll
    <3>2. c \in [there : BOOLEAN, whole : BOOLEAN, holds : SUBSET Changes]
          /\ Told(c.holds)
      <4>1. mem[p] \subseteq Changes
        BY DEF TypeOK
      <4>2. CASE c = Whole(mem[p])
        BY <4>1, <4>2 DEF Whole
      <4>3. CASE c = Torn
        BY <4>3 DEF Torn
      <4> QED
        BY <3>1, <4>2, <4>3
    <3> QED
      BY <2>7, <3>1, <3>2 DEF WriteAll, SetContents, TypeOK
  <2>8. ASSUME NEW p \in Procs, Rename(p) PROVE TypeInv'
    <3>1. tmp.there \in BOOLEAN /\ Finished(p, tmp.there)
      BY <2>8 DEF Rename, TypeOK
    <3>2. /\ phase' \in [Procs -> {"idle", "persist", "writing", "written"}]
          /\ told \subseteq told' /\ told' \subseteq Changes
          /\ acked' \subseteq told'
      BY <3>1, FinishedType
    <3>3. /\ {journal, tmp}' \subseteq
               [there : BOOLEAN, whole : BOOLEAN, holds : SUBSET Changes]
          /\ Told(journal.holds)' /\ Told(tmp.holds)'
      <4>1. CASE tmp.there
        <5>1. journal' = tmp /\ tmp' = Absent
          BY <2>8, <4>1 DEF Rename
        <5> QED
          BY <3>2, <5>1 DEF TypeOK, Absent
      <4>2. CASE ~tmp.there
        <5>1. journal' = journal /\ tmp' = tmp
          BY <2>8, <4>2 DEF Rename
        <5> QED
          BY <3>2, <5>1 DEF TypeOK
      <4> QED
        BY <4>1, <4>2
    <3>4. file' \in [Procs -> {"none", "tmp", "journal"}]
      BY <2>8 DEF Rename, TypeOK
    <3> QED
      BY <2>8, <3>2, <3>3, <3>4 DEF Rename, TypeOK
  <2>9. ASSUME NEW p \in Procs, Refuse(p) PROVE TypeInv'
    <3>1. Finished(p, FALSE)
      BY <2>9 DEF Refuse
    <3>2. /\ phase' \in [Procs -> {"idle", "persist", "writing", "written"}]
          /\ told \subseteq told' /\ told' \subseteq Changes
          /\ acked' \subseteq told'
      BY <3>1, FinishedType
    <3>3. /\ tmp' \in
               [there : BOOLEAN, whole : BOOLEAN, holds : SUBSET Changes]
          /\ Told(tmp.holds)'
      BY <2>9, <3>2 DEF Refuse, TypeOK, Absent
    <3>4. file' \in [Procs -> {"none", "tmp", "journal"}]
      BY <2>9 DEF Refuse, TypeOK
    <3>5. outages' \in 0 .. Outages
      BY <2>9, JournalAssumption DEF Refuse, TypeOK
    <3> QED
      BY <2>9, <3>2, <3>3, <3>4, <3>5 DEF Refuse, TypeOK
  <2>10. CASE UNCHANGED vars
    BY <2>10 DEF vars, TypeOK
  <2> QED
    BY <2>1, <2>2, <2>3, <2>4, <2>5, <2>6, <2>7, <2>8, <2>9, <2>10 DEF Next
<1>3. TypeInv => TypeOK
  BY DEF TypeInv
<1> QED
  BY <1>1, <1>2, <1>3, PTL DEF Spec

----------------------------------------------------------------------------
(* One writer.                                                             *)

OneWriter == \A p, q \in Writers : p = q

\* A journal under the name is whole, holds what was acknowledged, and the
\* running writer's store holds what it holds.
Committed ==
  /\ journal.there <=> journal.whole
  /\ acked # {} => journal.whole
  /\ acked \subseteq journal.holds
  /\ \A p \in Writers \cap up : journal.whole => journal.holds \subseteq mem[p]

\* Only the writer saves; nobody comes between it and its file, so what it
\* is about to rename is its store.
Saving ==
  /\ \A p \in Procs : phase[p] # "idle" => p \in Writers /\ p \in up
  /\ \A p \in Procs : file[p] # "none" => p \in Writers /\ file[p] = "tmp"
  /\ \A p \in Writers :
       /\ phase[p] = "writing" => file[p] = "tmp" /\ alone[p]
       /\ phase[p] = "written" => tmp = Whole(mem[p])

DurableInv == TypeOK /\ Committed /\ Saving

LEMMA DurableInit == Init => DurableInv
  BY JournalAssumption DEF Init, DurableInv, TypeOK, Committed, Saving, Absent

LEMMA RenameCommits ==
  ASSUME OneWriter, DurableInv, NEW p \in Procs, Rename(p)
  PROVE  /\ p \in Writers /\ p \in up
         /\ tmp = Whole(mem[p]) /\ journal' = Whole(mem[p])
         /\ tmp' = Absent /\ Finished(p, TRUE)
         /\ file' = [q \in Procs |-> "none"]
<1>1. p \in Writers /\ p \in up /\ tmp = Whole(mem[p])
  BY DEF Rename, DurableInv, Saving
<1>2. tmp.there = TRUE
  BY <1>1 DEF Whole
<1>3. journal' = tmp /\ tmp' = Absent /\ Finished(p, TRUE)
  BY <1>2 DEF Rename
<1>4. \A q \in Procs : q # p => file[q] = "none"
  BY <1>1 DEF OneWriter, DurableInv, Saving, TypeOK
<1>5. file' = [q \in Procs |-> IF q = p \/ file[q] = "journal" THEN "none"
                               ELSE IF file[q] = "tmp" THEN "journal"
                               ELSE file[q]]
  BY <1>2 DEF Rename
<1>6. file' = [q \in Procs |-> "none"]
  BY <1>4, <1>5
<1> QED
  BY <1>1, <1>3, <1>6

LEMMA DurableStep ==
  ASSUME OneWriter, DurableInv, TypeOK', [Next]_vars
  PROVE  DurableInv'
<1> USE DEF DurableInv
<1>1. ASSUME NEW p \in Procs, Start(p) PROVE DurableInv'
  BY <1>1 DEF Start, Loaded, Committed, Saving, TypeOK
<1>2. ASSUME NEW p \in Procs, Stop(p) PROVE DurableInv'
  BY <1>2 DEF Stop, Committed, Saving, TypeOK
<1>3. ASSUME NEW p \in Procs, NEW f \in Facts, Add(p, f) PROVE DurableInv'
  <2>1. Committed'
    BY <1>3 DEF Add, Committed, TypeOK
  <2>2. Saving'
    BY <1>3 DEF Add, Idle, Saving, TypeOK
  <2> QED
    BY <2>1, <2>2
<1>4. ASSUME NEW p \in Procs, NEW f \in Facts, Forget(p, f) PROVE DurableInv'
  <2>1. Committed'
    BY <1>4 DEF Forget, Committed, TypeOK
  <2>2. Saving'
    BY <1>4 DEF Forget, Idle, Saving, TypeOK
  <2> QED
    BY <2>1, <2>2
<1>5. ASSUME NEW p \in Procs, NEW f \in Facts, Ingest(p, f) PROVE DurableInv'
  <2>1. Committed'
    BY <1>5 DEF Ingest, Committed, TypeOK
  <2>2. Saving'
    BY <1>5 DEF Ingest, Idle, Saving, TypeOK
  <2> QED
    BY <2>1, <2>2
<1>6. ASSUME NEW p \in Procs, OpenTmp(p) PROVE DurableInv'
  <2>1. Committed'
    BY <1>6 DEF OpenTmp, Committed
  <2>2. p \in Writers
    BY <1>6 DEF OpenTmp, Saving
  <2>3. \A q \in Procs : q # p => phase[q] = "idle"
    BY <2>2 DEF OneWriter, Saving
  <2>4. phase'[p] = "writing" /\ file'[p] = "tmp" /\ alone'[p]
    BY <1>6, <2>3 DEF OpenTmp, TypeOK
  <2>5. Saving'
    BY <1>6, <2>2, <2>3, <2>4 DEF OneWriter, OpenTmp, Saving, TypeOK
  <2> QED
    BY <2>1, <2>5
<1>7. ASSUME NEW p \in Procs, WriteAll(p) PROVE DurableInv'
  <2>1. p \in Writers /\ file[p] = "tmp" /\ alone[p]
    BY <1>7 DEF WriteAll, Saving
  <2>2. tmp' = Whole(mem[p]) /\ journal' = journal
    BY <1>7, <2>1 DEF WriteAll, SetContents
  <2>3. Committed'
    BY <1>7, <2>2 DEF WriteAll, Committed
  <2>4. Saving'
    BY <1>7, <2>1, <2>2 DEF OneWriter, WriteAll, Saving, TypeOK
  <2> QED
    BY <2>3, <2>4
<1>8. ASSUME NEW p \in Procs, Rename(p) PROVE DurableInv'
  <2>1. /\ p \in Writers /\ p \in up
        /\ journal' = Whole(mem[p]) /\ Finished(p, TRUE)
        /\ file' = [q \in Procs |-> "none"]
    BY <1>8, RenameCommits
  <2>2. UNCHANGED <<up, mem, alone, outages>>
    BY <1>8 DEF Rename
  <2>3. acked \subseteq mem[p]
    <3>1. acked = {} \/ journal.whole
      BY DEF Committed
    <3> QED
      BY <2>1, <3>1 DEF Committed
  <2>4. Committed'
    BY <2>1, <2>2, <2>3 DEF OneWriter, Committed, Whole, Finished
  <2>5. Saving'
    BY <2>1, <2>2 DEF OneWriter, Saving, Finished, TypeOK
  <2> QED
    BY <2>4, <2>5
<1>9. ASSUME NEW p \in Procs, Refuse(p) PROVE DurableInv'
  <2>1. Committed'
    BY <1>9 DEF Refuse, Finished, Committed
  <2>2. p \in Writers
    BY <1>9 DEF Refuse, Saving
  <2>3. phase' = [phase EXCEPT ![p] = "idle"] /\ UNCHANGED <<up, mem, alone>>
    BY <1>9 DEF Refuse, Finished
  <2>4. \A q \in Procs : file'[q] # "none" => file[q] = file'[q]
    BY <1>9 DEF Refuse, TypeOK
  <2>5. Saving'
    BY <2>2, <2>3, <2>4 DEF OneWriter, Saving, TypeOK
  <2> QED
    BY <2>1, <2>5
<1>10. CASE UNCHANGED vars
  BY <1>10 DEF vars, Committed, Saving
<1> QED
  BY <1>1, <1>2, <1>3, <1>4, <1>5, <1>6, <1>7, <1>8, <1>9, <1>10 DEF Next

LEMMA DurableInvariant ==
  ASSUME OneWriter
  PROVE  Spec => []DurableInv
<1>1. DurableInv /\ TypeOK' /\ [Next]_vars => DurableInv'
  BY DurableStep
<1> QED
  BY <1>1, DurableInit, TypeCorrect, PTL DEF Spec

\* With one writer, whatever crashes, restarts, readers and refused saves
\* come between, a save that was acknowledged is in the journal.
THEOREM AcknowledgedSavesSurvive ==
  ASSUME OneWriter
  PROVE  Spec => []AckedIsInJournal
<1>1. DurableInv => AckedIsInJournal
  BY DEF DurableInv, Committed, AckedIsInJournal
<1> QED
  BY <1>1, DurableInvariant, PTL

\* With one writer the journal, once there, is whole at every step, and no
\* save makes it hold less.
THEOREM JournalNeverShrinks ==
  ASSUME OneWriter
  PROVE  Spec => JournalOnlyGrows
<1>1. DurableInv /\ [Next]_vars =>
        [journal.there => /\ journal'.whole
                          /\ journal.holds \subseteq journal'.holds]_vars
  <2> SUFFICES ASSUME DurableInv, Next, journal.there
               PROVE  journal'.whole /\ journal.holds \subseteq journal'.holds
    OBVIOUS
  <2>1. journal.whole
    BY DEF DurableInv, Committed
  <2>2. ASSUME NEW p \in Procs, Rename(p)
        PROVE  journal'.whole /\ journal.holds \subseteq journal'.holds
    <3>1. p \in Writers /\ p \in up /\ journal' = Whole(mem[p])
      BY <2>2, RenameCommits
    <3> QED
      BY <2>1, <3>1 DEF DurableInv, Committed, Whole
  <2>3. ASSUME NEW p \in Procs, WriteAll(p) PROVE journal' = journal
    BY <2>3 DEF DurableInv, Saving, WriteAll, SetContents
  <2>4. ASSUME NEW p \in Procs,
               \/ Start(p) \/ Stop(p) \/ OpenTmp(p) \/ Refuse(p)
               \/ \E f \in Facts : Add(p, f) \/ Forget(p, f) \/ Ingest(p, f)
        PROVE  journal' = journal
    BY <2>4 DEF Start, Stop, OpenTmp, Refuse, Add, Forget, Ingest
  <2> QED
    BY <2>1, <2>2, <2>3, <2>4 DEF Next
<1> QED
  BY <1>1, DurableInvariant, PTL DEF Spec, JournalOnlyGrows

=============================================================================

--------------------------- MODULE CmBenchProofs ---------------------------
(***************************************************************************)
(* What CmBench's run checks with seven command lines and two runs, for    *)
(* any command lines, lineups and number of runs: the datasets that have   *)
(* their name are whole, and a report that says PASS is earned.            *)
(***************************************************************************)
EXTENDS CmBench, SequenceTheorems, FiniteSetTheorems, TLAPS

----------------------------------------------------------------------------
(* Datasets.                                                               *)

\* A dataset gets its name in one step, from a download that is complete or
\* whose length was not announced, and nothing else touches it.
THEOREM WholeDatasets == Spec => []DatasetsAreWhole
<1>1. Init => DatasetsAreWhole
  BY DEF Init, DatasetsAreWhole
<1>2. DatasetsAreWhole /\ [Next]_vars => DatasetsAreWhole'
  <2> SUFFICES ASSUME DatasetsAreWhole, [Next]_vars
               PROVE  DatasetsAreWhole'
    OBVIOUS
  <2>1. CASE UNCHANGED <<file, unsized>>
    BY <2>1 DEF DatasetsAreWhole
  <2>2. ASSUME NEW whole \in BOOLEAN, NEW sized \in BOOLEAN,
               Download(whole, sized)
        PROVE  DatasetsAreWhole'
    <3>1. CASE ~Fetched(whole, sized)
      BY <2>2, <3>1, <2>1 DEF Download, disk
    <3>2. CASE Fetched(whole, sized)
      <4> DEFINE d == Head(Missing)
      <4>1. /\ file' = [file EXCEPT ![d] = IF whole THEN "whole" ELSE "short"]
            /\ unsized' = IF sized THEN unsized ELSE unsized \cup {d}
        BY <2>2, <3>2 DEF Download
      <4>2. whole \/ ~sized
        BY <3>2 DEF Fetched
      <4> HIDE DEF d
      <4> SUFFICES ASSUME NEW e \in Datasets, file'[e] = "short"
                   PROVE  e \in unsized'
        BY DEF DatasetsAreWhole
      <4>3. CASE e = d
        BY <4>1, <4>2, <4>3 DEF DatasetsAreWhole
      <4>4. CASE e # d
        BY <4>1, <4>4 DEF DatasetsAreWhole
      <4> QED
        BY <4>3, <4>4
    <3> QED
      BY <3>1, <3>2
  <2>3. CASE UNCHANGED vars
    BY <2>1, <2>3 DEF vars, disk
  <2>4. ASSUME NEW r \in Requests, Start(r)
        PROVE  DatasetsAreWhole'
    BY <2>1, <2>4 DEF Start, disk
  <2>5. CASE Prepare
    BY <2>1, <2>5 DEF Prepare, PhaseEnv, PhaseModel, MaybeSupermemory,
                      SplitRunnableSuites, EnsurePandas, disk
  <2>6. CASE OpenPart \/ DownloadFails \/ DataReady
    BY <2>1, <2>6 DEF OpenPart, DownloadFails, DataReady, disk
  <2>7. CASE PhaseRun
    BY <2>1, <2>7 DEF PhaseRun, RunOne, OutputEnds, WaitEnds, WaitTimesOut,
                      PhaseReport, disk
  <2>8. CASE Child \/ TimePasses \/ Kill
    BY <2>1, <2>8 DEF Child, ChildExits, ChildCloses, TimePasses, Kill, disk
  <2> QED
    BY <2>2, <2>3, <2>4, <2>5, <2>6, <2>7, <2>8 DEF Next, PhaseData
<1> QED
  BY <1>1, <1>2, PTL DEF Spec

----------------------------------------------------------------------------
(* Selections.                                                             *)

\* Every number up to the size of a finite set of numbers is the rank of
\* exactly one of its elements.
LEMMA Ranks ==
  ASSUME NEW I, I \subseteq Nat, IsFiniteSet(I)
  PROVE  /\ Cardinality(I) \in Nat
         /\ \A i \in I : Cardinality({ j \in I : j < i }) + 1
                           \in 1 .. Cardinality(I)
         /\ \A n \in 1 .. Cardinality(I) :
              \E i \in I : Cardinality({ j \in I : j < i }) = n - 1
         /\ \A i, k \in I : Cardinality({ j \in I : j < i })
                              = Cardinality({ j \in I : j < k }) => i = k
<1> DEFINE before(i) == { j \in I : j < i }
           size == Cardinality(I)
           rank == [i \in I |-> Cardinality(before(i)) + 1]
<1>1. size \in Nat
  BY FS_CardinalityType
<1>2. \A i \in I : /\ before(i) \subseteq I
                   /\ i \notin before(i)
  OBVIOUS
<1>3. \A i, k \in I : i < k => before(i) \subseteq before(k) /\ i \in before(k)
  <2> SUFFICES ASSUME NEW i \in I, NEW k \in I, i < k,
                      NEW j \in I, j < i
               PROVE  j < k
    OBVIOUS
  <2> QED
    OBVIOUS
<1>4. \A i, k \in I : i < k \/ k < i \/ i = k
  OBVIOUS
<1> HIDE DEF before, size
<1>5. \A i \in I : IsFiniteSet(before(i)) /\ Cardinality(before(i)) \in Nat
  BY <1>2, FS_Subset, FS_CardinalityType
<1>6. \A i \in I : Cardinality(before(i)) < size
  <2> TAKE i \in I
  <2>1. Cardinality(before(i)) <= size /\ Cardinality(before(i)) # size
    BY <1>2, FS_Subset DEF size
  <2> QED
    BY <1>1, <1>5, <2>1
<1>7. \A i, k \in I : i < k => Cardinality(before(i)) < Cardinality(before(k))
  <2> SUFFICES ASSUME NEW i \in I, NEW k \in I, i < k
               PROVE  Cardinality(before(i)) < Cardinality(before(k))
    OBVIOUS
  <2>1. before(i) \subseteq before(k) /\ before(i) # before(k)
    BY <1>2, <1>3
  <2>2. /\ Cardinality(before(i)) <= Cardinality(before(k))
        /\ Cardinality(before(i)) # Cardinality(before(k))
    BY <1>5, <2>1, FS_Subset
  <2> QED
    BY <1>5, <2>2
<1>8. \A i, k \in I : Cardinality(before(i)) = Cardinality(before(k)) => i = k
  BY <1>4, <1>5, <1>7
<1>9. \A i \in I : Cardinality(before(i)) + 1 \in 1 .. size
  BY <1>1, <1>5, <1>6
<1>10. rank \in Injection(I, 1 .. size)
  BY <1>5, <1>8, <1>9 DEF Injection, IsInjective
<1>11. IsFiniteSet(1 .. size) /\ Cardinality(1 .. size) = size
  BY <1>1, FS_Interval
<1>12. rank \in Surjection(I, 1 .. size)
  BY <1>10, <1>11, FS_Injection DEF size
<1>13. \A n \in 1 .. size : \E i \in I : rank[i] = n
  BY <1>12 DEF Surjection
<1>14. \A n \in 1 .. size : \E i \in I : Cardinality(before(i)) = n - 1
  <2> SUFFICES ASSUME NEW n \in 1 .. size
               PROVE  \E i \in I : Cardinality(before(i)) = n - 1
    OBVIOUS
  <2>1. PICK i \in I : rank[i] = n
    BY <1>13
  <2>2. Cardinality(before(i)) + 1 = n
    BY <2>1
  <2> QED
    BY <1>1, <1>5, <2>2
<1> QED
  BY <1>1, <1>8, <1>9, <1>14 DEF before, size

\* Only selects: the elements of the list that are in the set, no others.
LEMMA OnlySelects ==
  ASSUME NEW S, NEW list \in Seq(S), NEW keep
  PROVE  /\ Only(list, keep) \in Seq(S)
         /\ Range(Only(list, keep)) = Range(list) \cap keep
<1> DEFINE kept == { i \in DOMAIN list : list[i] \in keep }
           rank(i) == Cardinality({ j \in kept : j < i })
           at_(n) == CHOOSE i \in kept : rank(i) = n - 1
<1>1. /\ Len(list) \in Nat
      /\ DOMAIN list = 1 .. Len(list)
      /\ \A i \in DOMAIN list : list[i] \in S
  BY ElementOfSeq, LenProperties
<1>2. kept \subseteq Nat
  BY <1>1
<1>3. IsFiniteSet(kept)
  <2>1. IsFiniteSet(1 .. Len(list))
    BY <1>1, FS_Interval
  <2> QED
    BY <1>1, <2>1, FS_Subset
<1> HIDE DEF kept
<1>4. /\ Cardinality(kept) \in Nat
      /\ \A i \in kept : rank(i) + 1 \in 1 .. Cardinality(kept)
      /\ \A n \in 1 .. Cardinality(kept) : \E i \in kept : rank(i) = n - 1
      /\ \A i, k \in kept : rank(i) = rank(k) => i = k
  BY <1>2, <1>3, Ranks
<1>5. \A i \in kept : rank(i) \in Nat
  BY <1>2, <1>3, FS_Subset, FS_CardinalityType
<1> HIDE DEF rank
<1>6. \A n \in 1 .. Cardinality(kept) : at_(n) \in kept
  BY <1>4
<1>7. \A i \in kept : at_(rank(i) + 1) = i
  BY <1>4, <1>5
<1>8. Only(list, keep) = [n \in 1 .. Cardinality(kept) |-> list[at_(n)]]
  BY DEF Only, kept, rank
<1> HIDE DEF at_
<1>9. \A i \in kept : i \in DOMAIN list /\ list[i] \in keep
  BY DEF kept
<1>10. Only(list, keep) \in Seq(S)
  <2>1. \A n \in 1 .. Cardinality(kept) : list[at_(n)] \in S
    BY <1>1, <1>6, <1>9
  <2> QED
    BY <1>4, <1>8, <2>1
<1>11. ASSUME NEW x \in Range(Only(list, keep))
       PROVE  x \in Range(list) \cap keep
  <2>1. PICK n \in 1 .. Cardinality(kept) : x = list[at_(n)]
    BY <1>8 DEF Range
  <2> QED
    BY <1>6, <1>9, <2>1 DEF Range
<1>12. ASSUME NEW x \in Range(list) \cap keep
       PROVE  x \in Range(Only(list, keep))
  <2>1. PICK i \in kept : x = list[i]
    BY DEF Range, kept
  <2>2. rank(i) + 1 \in 1 .. Cardinality(kept)
    BY <1>4
  <2>3. Only(list, keep)[rank(i) + 1] = x
    BY <1>7, <1>8, <2>1, <2>2
  <2> QED
    BY <1>8, <2>2, <2>3 DEF Range
<1> QED
  BY <1>10, <1>11, <1>12

----------------------------------------------------------------------------
(* The report.                                                             *)

Name == STRING \cup Range(SuiteOrder) \cup LocalSystems

Before == {"env", "model", "third", "split", "pandas", "data", "fetch"}

Types ==
  /\ args.suites \in Seq(Name) /\ systems \in Seq(Name)
  /\ suites \in Seq(Name) /\ dropped \in Seq(Name)
  /\ Range(suites) \subseteq Range(SuiteOrder)
  /\ at \in [suite : Nat \ {0}, system : Nat \ {0}]

\* Every suite asked for is to be run or has been dropped on the way.
NothingLost ==
  /\ pc \in {"env", "model", "third", "split"} => dropped = << >>
  /\ Range(args.suites)
       \subseteq Range(suites) \cup Range(dropped) \cup declined
  /\ declined \subseteq {"beam"}

\* The runs before the one phase_run is at have a result.
RunsBefore ==
  /\ pc \in Before => at = FirstRun
  /\ \A i \in 1 .. Len(suites) : \A j \in 1 .. Len(Lineup(suites[i])) :
       i < at.suite \/ (i = at.suite /\ j < at.system) =>
         <<suites[i], Lineup(suites[i])[j]>> \in DOMAIN results

\* A report is of the run that has ended, with all its runs done.
Reported ==
  report.there =>
    /\ pc = "off" /\ at.suite > Len(suites)
    /\ report = RenderMarkdown
    /\ report.ok <=> exit = 0

PassInv ==
  /\ Types /\ NothingLost /\ RunsBefore /\ Reported
  /\ contender => Contains(systems, "supermemory")

\* The lineup a suite is run for has every system, each as often as named.
LEMMA OrderIsComplete ==
  ASSUME NEW S, NEW list \in Seq(S)
  PROVE  /\ OrderSystems(list) \in Seq(S)
         /\ Range(OrderSystems(list)) = Range(list)
<1> DEFINE first == Only(list, {"contextmemory"})
           second == Only(list, {"supermemory"})
           rest == Only(list, Range(list) \ {"contextmemory", "supermemory"})
<1>1. /\ first \in Seq(S) /\ second \in Seq(S) /\ rest \in Seq(S)
      /\ Range(first) = Range(list) \cap {"contextmemory"}
      /\ Range(second) = Range(list) \cap {"supermemory"}
      /\ Range(rest) = Range(list) \ {"contextmemory", "supermemory"}
  BY OnlySelects
<1>2. OrderSystems(list) = (first \o second) \o rest
  BY DEF OrderSystems
<1> HIDE DEF first, second, rest
<1>3. first \o second \in Seq(S)
  BY <1>1, ConcatProperties
<1>4. Range(first \o second) = Range(first) \cup Range(second)
  BY <1>1, RangeConcatenation
<1> DEFINE both == first \o second
<1> HIDE DEF both
<1>5. both \in Seq(S) /\ Range(both) = Range(first) \cup Range(second)
  BY <1>3, <1>4 DEF both
<1>6. Range(both \o rest) = Range(both) \cup Range(rest)
  BY <1>1, <1>5, RangeConcatenation
<1>7. both \o rest \in Seq(S)
  BY <1>1, <1>5, ConcatProperties
<1> QED
  BY <1>1, <1>2, <1>5, <1>6, <1>7 DEF both

LEMMA LineupIsWhole ==
  ASSUME NEW suite, systems \in Seq(Name)
  PROVE  /\ Len(Lineup(suite)) \in Nat
         /\ \A who \in IF suite \in PerSystem THEN Range(systems)
                       ELSE {"lineup"} :
              \E j \in 1 .. Len(Lineup(suite)) : Lineup(suite)[j] = who
<1>1. CASE suite \in PerSystem
  <2>1. /\ OrderSystems(systems) \in Seq(Name)
        /\ Range(OrderSystems(systems)) = Range(systems)
    BY OrderIsComplete
  <2>2. /\ Len(OrderSystems(systems)) \in Nat
        /\ DOMAIN OrderSystems(systems) = 1 .. Len(OrderSystems(systems))
    BY <2>1, LenProperties
  <2>3. Lineup(suite) = OrderSystems(systems)
    BY <1>1 DEF Lineup
  <2> QED
    BY <1>1, <2>1, <2>2, <2>3 DEF Range
<1>2. CASE suite \notin PerSystem
  <2>1. Lineup(suite) = <<"lineup">>
    BY <1>2 DEF Lineup
  <2>2. /\ Len(Lineup(suite)) = 1 /\ Lineup(suite)[1] = "lineup"
        /\ 1 \in 1 .. 1
    BY <2>1
  <2> QED
    BY <1>2, <2>2
<1> QED
  BY <1>1, <1>2

LEMMA SuitesAreNames ==
  /\ SuiteOrder \in Seq(Name)
  /\ Runnable \cup LlmSuites = Range(SuiteOrder)
<1>1. SuiteOrder \in Seq(Range(SuiteOrder))
  BY DEF SuiteOrder, Range
<1>2. SuiteOrder \in Seq(Name)
  BY <1>1, SeqMonotonic DEF Name
<1>3. LlmSuites \subseteq Range(SuiteOrder)
  <2>1. DOMAIN SuiteOrder = 1 .. 5
    BY DEF SuiteOrder
  <2>2. /\ SuiteOrder[1] = "dims" /\ SuiteOrder[3] = "longmemeval"
        /\ SuiteOrder[4] = "locomo" /\ SuiteOrder[5] = "beam"
    BY DEF SuiteOrder
  <2> QED
    BY <2>1, <2>2 DEF LlmSuites, Range
<1> QED
  BY <1>2, <1>3 DEF Runnable

\* Steps that leave the run as it is.
LEMMA StaysKeeps ==
  ASSUME PassInv, UNCHANGED <<pc, run, exit>>
  PROVE  PassInv'
BY DEF PassInv, Types, NothingLost, RunsBefore, Reported, RenderMarkdown,
       Lineup, run

\* Steps of a run under way that move it on, or end it, and change at most
\* what it knows of the reader.
LEMMA MovesKeeps ==
  ASSUME PassInv, pc # "off",
         UNCHANGED <<args, systems, suites, dropped, declined, at, results,
                     contender, report>>,
         pc' \in {"env", "model", "third", "split"} =>
           pc \in {"env", "model", "third", "split"},
         pc' \in Before => pc \in Before
  PROVE  PassInv'
<1>1. Types' /\ NothingLost'
  BY DEF PassInv, Types, NothingLost
<1>2. RunsBefore'
  BY DEF PassInv, RunsBefore, Lineup
<1>3. Reported'
  BY DEF PassInv, Reported
<1> QED
  BY <1>1, <1>2, <1>3 DEF PassInv

LEMMA StartKeeps ==
  ASSUME PassInv, NEW r \in Requests, Start(r)
  PROVE  PassInv'
<1>1. r.suites \in Seq(STRING) /\ r.systems \in Seq(STRING)
  BY CmBenchAssumption DEF Request
<1>2. r.systems \in Seq(Name)
  BY <1>1, SeqMonotonic DEF Name
<1> DEFINE picked == Only(SuiteOrder, Range(r.suites))
           lineup == OrderSystems(r.systems)
<1>3. /\ picked \in Seq(Name)
      /\ Range(picked) \subseteq Range(SuiteOrder)
  BY OnlySelects, SuitesAreNames
<1>4. lineup \in Seq(Name)
  BY <1>2, OrderIsComplete
<1>5. args' = [r EXCEPT !.suites = picked, !.systems = lineup]
  BY DEF Start, ParseArgs
<1>6. r \in Request
  BY CmBenchAssumption
<1>7. args'.suites = picked /\ args'.systems = lineup
  BY <1>5, <1>6 DEF Request
<1>8. /\ suites' = picked /\ systems' = lineup
      /\ dropped' = << >> /\ at' = FirstRun /\ report' = NoReport
      /\ contender' = FALSE /\ declined' = {}
  BY <1>7 DEF Start
<1> HIDE DEF picked, lineup
<1>9. Types'
  BY <1>3, <1>4, <1>7, <1>8 DEF Types, FirstRun
<1>10. NothingLost'
  BY <1>7, <1>8 DEF NothingLost
<1>11. RunsBefore'
  BY <1>8 DEF RunsBefore, FirstRun
<1>12. Reported'
  BY <1>8 DEF Reported, NoReport
<1> QED
  BY <1>8, <1>9, <1>10, <1>11, <1>12 DEF PassInv

LEMMA SupermemoryKeeps ==
  ASSUME PassInv, NEW ready \in BOOLEAN, MaybeSupermemory(ready)
  PROVE  PassInv'
<1>1. /\ UNCHANGED <<args, suites, dropped, declined, at, results, report>>
      /\ pc = "third" /\ contender' = ready /\ pc' \in {"off", "split"}
  BY DEF MaybeSupermemory, Exits, GoesTo
<1>2. /\ systems' \in Seq(Name)
      /\ ready => Contains(systems', "supermemory")
  <2>1. CASE ready /\ ~Contains(systems, "supermemory")
    <3> DEFINE joined == Append(systems, "supermemory")
    <3>1. "supermemory" \in Name
      BY DEF Name, LocalSystems
    <3>2. /\ joined \in Seq(Name)
          /\ joined[Len(systems) + 1] = "supermemory"
          /\ Len(systems) + 1 \in 1 .. Len(joined)
          /\ DOMAIN joined = 1 .. Len(joined)
      BY <3>1 DEF PassInv, Types
    <3>3. systems' = OrderSystems(joined)
      BY <2>1 DEF MaybeSupermemory
    <3> HIDE DEF joined
    <3>4. systems' \in Seq(Name) /\ Range(systems') = Range(joined)
      BY <3>2, <3>3, OrderIsComplete
    <3>5. "supermemory" \in Range(systems')
      BY <3>2, <3>4 DEF Range
    <3>6. DOMAIN systems' = 1 .. Len(systems')
      BY <3>4, LenProperties
    <3>7. PICK i \in 1 .. Len(systems') : systems'[i] = "supermemory"
      BY <3>5, <3>6 DEF Range
    <3> QED
      BY <3>4, <3>7 DEF Contains
  <2>2. CASE ~(ready /\ ~Contains(systems, "supermemory"))
    BY <2>2 DEF MaybeSupermemory, PassInv, Types
  <2> QED
    BY <2>1, <2>2
<1>3. Types'
  BY <1>1, <1>2 DEF PassInv, Types
<1>4. NothingLost'
  BY <1>1 DEF PassInv, NothingLost
<1>5. RunsBefore'
  <2>1. at = FirstRun
    BY <1>1 DEF PassInv, RunsBefore, Before
  <2> QED
    BY <1>1, <2>1 DEF RunsBefore, FirstRun
<1>6. Reported'
  BY <1>1 DEF PassInv, Reported
<1>7. contender' => Contains(systems', "supermemory")
  BY <1>1, <1>2
<1> QED
  BY <1>3, <1>4, <1>5, <1>6, <1>7 DEF PassInv, Contains

LEMMA SplitKeeps ==
  ASSUME PassInv, SplitRunnableSuites
  PROVE  PassInv'
<1>1. /\ UNCHANGED <<args, systems, declined, at, results, contender, report>>
      /\ pc = "split" /\ pc' \in {"off", "pandas"}
  BY DEF SplitRunnableSuites, Exits, GoesTo
<1>2. /\ suites \in Seq(Name) /\ Range(suites) \subseteq Range(SuiteOrder)
      /\ dropped = << >> /\ at = FirstRun
  BY <1>1 DEF PassInv, Types, NothingLost, RunsBefore, Before
<1>3. /\ suites' \in Seq(Name) /\ dropped' \in Seq(Name)
      /\ Range(suites') \cup Range(dropped') = Range(suites)
  <2>1. CASE readerOk
    <3>1. suites' = suites /\ dropped' = << >>
      BY <2>1 DEF SplitRunnableSuites
    <3>2. Range(<< >>) = {} /\ << >> \in Seq(Name)
      BY DEF Range
    <3> QED
      BY <1>2, <3>1, <3>2
  <2>2. CASE ~readerOk
    <3>1. /\ suites' = Only(suites, Runnable)
          /\ dropped' = Only(suites, LlmSuites)
      BY <2>2 DEF SplitRunnableSuites
    <3>2. /\ suites' \in Seq(Name) /\ dropped' \in Seq(Name)
          /\ Range(suites') = Range(suites) \cap Runnable
          /\ Range(dropped') = Range(suites) \cap LlmSuites
      BY <1>2, <3>1, OnlySelects
    <3> QED
      BY <1>2, <3>2, SuitesAreNames
  <2> QED
    BY <2>1, <2>2
<1>4. Range(dropped) = {}
  BY <1>2 DEF Range
<1>5. Types'
  BY <1>1, <1>2, <1>3 DEF PassInv, Types
<1>6. NothingLost'
  BY <1>1, <1>3, <1>4 DEF PassInv, NothingLost
<1>7. RunsBefore'
  BY <1>1, <1>2 DEF RunsBefore, FirstRun
<1>8. Reported'
  BY <1>1 DEF PassInv, Reported
<1> QED
  BY <1>1, <1>5, <1>6, <1>7, <1>8 DEF PassInv

LEMMA PandasKeeps ==
  ASSUME PassInv, NEW there \in BOOLEAN, NEW installed \in BOOLEAN,
         EnsurePandas(there, installed)
  PROVE  PassInv'
<1>1. /\ UNCHANGED <<args, systems, dropped, at, results, contender, report>>
      /\ pc = "pandas" /\ pc' = "data"
  BY DEF EnsurePandas, GoesTo
<1>2. at = FirstRun
  BY <1>1 DEF PassInv, RunsBefore, Before
<1>3. CASE UNCHANGED <<suites, declined>>
  BY <1>1, <1>3, MovesKeeps DEF Before
<1>4. CASE /\ suites' = Only(suites, Range(suites) \ {"beam"})
           /\ declined' = {"beam"}
  <2>1. /\ suites' \in Seq(Name)
        /\ Range(suites') = Range(suites) \ {"beam"}
    BY <1>4, OnlySelects DEF PassInv, Types
  <2>2. Types'
    BY <1>1, <2>1 DEF PassInv, Types
  <2>3. NothingLost'
    BY <1>1, <1>4, <2>1 DEF PassInv, NothingLost
  <2>4. RunsBefore'
    BY <1>1, <1>2 DEF RunsBefore, FirstRun
  <2>5. Reported'
    BY <1>1 DEF PassInv, Reported
  <2> QED
    BY <1>1, <2>2, <2>3, <2>4, <2>5 DEF PassInv
<1> QED
  BY <1>3, <1>4 DEF EnsurePandas

\* A run is done: its key is added, and phase_run moves to the next.
LEMMA DoneKeeps ==
  ASSUME PassInv, NEW rc, pc = "wait", Done(rc),
         UNCHANGED <<args, systems, suites, dropped, declined, contender,
                     report>>
  PROVE  PassInv'
<1>1. /\ DOMAIN results' = DOMAIN results \cup {Key}
      /\ at' = Following /\ pc' \in {"off", "run"}
  BY DEF Done, Exits, GoesTo
<1>2. Len(Lineup(suites[at.suite])) \in Nat
  BY LineupIsWhole DEF PassInv, Types
<1>3. at \in [suite : Nat \ {0}, system : Nat \ {0}]
  BY DEF PassInv, Types
<1>4. at' \in [suite : Nat \ {0}, system : Nat \ {0}]
  BY <1>1, <1>3 DEF Following
<1>5. Types'
  BY <1>4 DEF PassInv, Types
<1>6. NothingLost'
  BY <1>1 DEF PassInv, NothingLost
<1>7. RunsBefore'
  <2> SUFFICES ASSUME NEW i \in 1 .. Len(suites),
                      NEW j \in 1 .. Len(Lineup(suites[i])),
                      i < at'.suite \/ (i = at'.suite /\ j < at'.system)
               PROVE  <<suites[i], Lineup(suites[i])[j]>> \in DOMAIN results'
    BY <1>1 DEF RunsBefore, Before, Lineup
  <2>1. Len(Lineup(suites[i])) \in Nat /\ Len(suites) \in Nat
    BY LineupIsWhole DEF PassInv, Types
  <2>2. CASE i < at.suite \/ (i = at.suite /\ j < at.system)
    BY <1>1, <2>2 DEF PassInv, RunsBefore
  <2>3. CASE i = at.suite /\ j = at.system
    BY <1>1, <2>3 DEF Key
  <2>4. CASE at.system < Len(Lineup(suites[at.suite]))
    <3>1. at'.suite = at.suite /\ at'.system = at.system + 1
      BY <1>1, <1>3, <2>4 DEF Following
    <3> QED
      BY <1>3, <2>1, <2>2, <2>3, <3>1
  <2>5. CASE ~(at.system < Len(Lineup(suites[at.suite])))
    <3>1. at'.suite = at.suite + 1 /\ at'.system = 1
      BY <1>1, <2>5 DEF Following
    <3>2. i <= at.suite
      BY <1>3, <2>1, <3>1
    <3>3. i = at.suite => j <= at.system
      BY <1>2, <1>3, <2>1, <2>5
    <3> QED
      BY <1>3, <2>1, <2>2, <2>3, <3>2, <3>3
  <2> QED
    BY <2>4, <2>5
<1>8. Reported'
  BY DEF PassInv, Reported
<1> QED
  BY <1>5, <1>6, <1>7, <1>8 DEF PassInv

LEMMA ReportKeeps ==
  ASSUME PassInv, PhaseReport
  PROVE  PassInv'
<1>1. /\ UNCHANGED <<args, systems, suites, dropped, declined, at, results,
                     contender>>
      /\ pc' = "off" /\ at.suite > Len(suites)
      /\ report' = RenderMarkdown
      /\ exit' = IF report'.ok THEN 0 ELSE 1
  BY DEF PhaseReport, Exits
<1>2. Types' /\ NothingLost'
  BY <1>1 DEF PassInv, Types, NothingLost
<1>3. RunsBefore'
  BY <1>1 DEF PassInv, RunsBefore, Before, Lineup
<1>4. RenderMarkdown' = RenderMarkdown
  BY <1>1 DEF RenderMarkdown
<1>5. Reported'
  BY <1>1, <1>4 DEF Reported
<1> QED
  BY <1>1, <1>2, <1>3, <1>5 DEF PassInv

LEMMA PassStep ==
  ASSUME PassInv, [Next]_vars
  PROVE  PassInv'
<1>1. CASE UNCHANGED vars
  BY <1>1, StaysKeeps DEF vars
<1>2. ASSUME NEW r \in Requests, Start(r)
      PROVE  PassInv'
  BY <1>2, StartKeeps
<1>3. ASSUME NEW installed \in BOOLEAN, PhaseEnv(installed)
      PROVE  PassInv'
  BY <1>3, MovesKeeps DEF PhaseEnv, run, GoesTo, Exits, Before
<1>4. ASSUME NEW ollama, NEW key, NEW model, PhaseModel(ollama, key, model)
      PROVE  PassInv'
  <2>1. /\ UNCHANGED <<args, systems, suites, dropped, declined, at, results,
                       contender, report>>
        /\ pc = "model" /\ pc' \in {"off", "third"}
    BY <1>4 DEF PhaseModel, GoesTo, Exits
  <2> QED
    BY <2>1, MovesKeeps DEF Before
<1>5. ASSUME NEW ready \in BOOLEAN, MaybeSupermemory(ready)
      PROVE  PassInv'
  BY <1>5, SupermemoryKeeps
<1>6. CASE SplitRunnableSuites
  BY <1>6, SplitKeeps
<1>7. ASSUME NEW there \in BOOLEAN, NEW installed \in BOOLEAN,
             EnsurePandas(there, installed)
      PROVE  PassInv'
  BY <1>7, PandasKeeps
<1>8. CASE PhaseData
  <2>1. UNCHANGED run /\ pc \in {"data", "fetch"}
        /\ pc' \in {"data", "fetch", "run", "off"}
    BY <1>8 DEF PhaseData, OpenPart, Download, DownloadFails, DataReady,
                GoesTo, Exits
  <2> QED
    BY <2>1, MovesKeeps DEF run, Before
<1>9. CASE RunOne \/ OutputEnds
  <2>1. UNCHANGED run /\ pc \in {"run", "tee"} /\ pc' \in {"tee", "wait"}
    BY <1>9 DEF RunOne, OutputEnds, GoesTo
  <2> QED
    BY <2>1, MovesKeeps DEF run, Before
<1>10. CASE WaitEnds \/ WaitTimesOut
  BY <1>10, DoneKeeps DEF WaitEnds, WaitTimesOut
<1>11. CASE PhaseReport
  BY <1>11, ReportKeeps
<1>12. CASE Child \/ TimePasses
  BY <1>12, StaysKeeps DEF Child, ChildExits, ChildCloses, TimePasses
<1>13. CASE Kill
  BY <1>13, MovesKeeps DEF Kill, Exits, run, Before
<1> QED
  BY <1>1, <1>2, <1>3, <1>4, <1>5, <1>6, <1>7, <1>8, <1>9, <1>10, <1>11,
     <1>12, <1>13 DEF Next, Prepare, PhaseRun

LEMMA PassHolds ==
  ASSUME PassInv
  PROVE  PassIsEarned
<1> SUFFICES ASSUME pc = "off", report.there
             PROVE  /\ report.contender => Contains(systems, "supermemory")
                    /\ report.ok <=> exit = 0
                    /\ report.ok =>
                         \A s \in Range(args.suites)
                                  \ (report.skipped \cup declined) :
                           \A who \in IF s \in PerSystem THEN Range(systems)
                                     ELSE {"lineup"} :
                             /\ who \in report.ran /\ s \in report.suites
                             /\ <<s, who>> \in DOMAIN results
                             /\ results[<<s, who>>] = 0
  BY DEF PassIsEarned
<1>1. /\ report = RenderMarkdown /\ (report.ok <=> exit = 0)
      /\ at.suite > Len(suites)
  BY DEF PassInv, Reported
<1>2. report.contender => Contains(systems, "supermemory")
  BY <1>1 DEF PassInv, RenderMarkdown
<1>3. ASSUME report.ok,
             NEW s \in Range(args.suites) \ (report.skipped \cup declined),
             NEW who \in IF s \in PerSystem THEN Range(systems)
                        ELSE {"lineup"}
      PROVE  /\ who \in report.ran /\ s \in report.suites
             /\ <<s, who>> \in DOMAIN results
             /\ results[<<s, who>>] = 0
  <2>1. report.skipped = Range(dropped)
    BY <1>1 DEF RenderMarkdown
  <2>2. s \in Range(suites)
    BY <2>1 DEF PassInv, NothingLost
  <2>3. suites \in Seq(Name) /\ systems \in Seq(Name)
        /\ at.suite \in Nat
    BY DEF PassInv, Types
  <2>4. PICK i \in 1 .. Len(suites) : suites[i] = s
    BY <2>2, <2>3, RangeEquality
  <2>5. PICK j \in 1 .. Len(Lineup(s)) : Lineup(s)[j] = who
    BY <2>3, LineupIsWhole
  <2>6. i < at.suite
    BY <1>1, <2>3, LenProperties
  <2>7. <<s, who>> \in DOMAIN results
    BY <2>4, <2>5, <2>6 DEF PassInv, RunsBefore
  <2>8. results[<<s, who>>] = 0
    BY <1>1, <1>3, <2>7 DEF RenderMarkdown
  <2>9. /\ <<s, who>>[1] = s /\ <<s, who>>[2] = who
    OBVIOUS
  <2>10. /\ report.ran = { key[2] : key \in DOMAIN results }
         /\ report.suites = { key[1] : key \in DOMAIN results }
    BY <1>1 DEF RenderMarkdown
  <2>11. who \in report.ran /\ s \in report.suites
    BY <2>7, <2>9, <2>10
  <2> QED
    BY <2>7, <2>8, <2>11
<1> QED
  BY <1>1, <1>2, <1>3

\* A report is only made when phase_run is through, every suite asked for is
\* then behind it with all its systems or was dropped by name, and the report
\* and the exit code have the same verdict.
THEOREM PassesAreEarned == Spec => []PassIsEarned
<1>1. Init => PassInv
  <2> SUFFICES ASSUME Init
               PROVE  PassInv
    OBVIOUS
  <2>1. Types /\ NothingLost
    BY DEF Init, Types, NothingLost, NoArgs, FirstRun, Range
  <2>2. RunsBefore /\ Reported /\ contender = FALSE
    BY DEF Init, RunsBefore, Reported, FirstRun, NoReport
  <2> QED
    BY <2>1, <2>2 DEF PassInv
<1>2. PassInv /\ [Next]_vars => PassInv'
  BY PassStep
<1>3. PassInv => PassIsEarned
  BY PassHolds
<1> QED
  BY <1>1, <1>2, <1>3, PTL DEF Spec

=============================================================================

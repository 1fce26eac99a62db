----------------------------- MODULE EvalProofs -----------------------------
(***************************************************************************)
(* What Eval's run checks with seven command lines and two runs, for any   *)
(* data, windows filled or not, any number of runs and a kill anywhere:    *)
(* answers are made of the sessions they should be, the results file is    *)
(* whole, and what was printed is what it holds.                           *)
(***************************************************************************)
EXTENDS Eval, SequenceTheorems, FiniteSetTheorems, TLAPS

----------------------------------------------------------------------------
(* The invariant.                                                          *)

Session == [id : Nat, at : Nat]
Rows == [question : Nat, type : STRING, seen : SUBSET Session,
         correct : BOOLEAN, judged : {"none", "yes", "no"}]
Lines == [command : {"eval", "dims", "bench", "none"},
          system : STRING \cup {"none"}, data : Seq(Instance), max : Nat,
          judge : BOOLEAN]

Writing == {"score", "write", "judge", "rewrite"}

Types ==
  /\ pc \in {"off", "load", "ping", "fresh", "ingest", "print"} \cup Writing
  /\ job \in Lines /\ WellFormed(job.command, job.data)
  /\ k \in Nat \ {0} /\ probe \in Nat
  /\ memory \in Seq(Session) /\ todo \in Seq(Session)
  /\ results \in Seq(Rows) /\ labeled \in Seq(Rows)
  /\ tmp \in Seq(Rows) /\ file \in Seq(Rows)
  /\ DOMAIN report = {"scored", "judged"}

\* What a run has in its memory by where it is: nothing before the replay, and
\* only eval writes.
Phases ==
  /\ pc \in {"off", "load", "ping"} => k = 1 /\ results = << >>
  /\ pc \in {"load"} \cup Writing => job.command = "eval"
  /\ labeled # << >> => pc \in {"judge", "rewrite", "print"}
  /\ pc = "ingest" => k <= Len(job.data)

\* The answers of eval so far are one for each instance, in order.
Placed ==
  job.command = "eval" =>
    /\ pc = "fresh" => Len(results) = k - 1 /\ k <= Len(job.data) + 1
    /\ pc = "ingest" => probe \in {1, 2} /\ Len(results) = (k + probe) - 2
    /\ pc \in Writing \cup {"print"} => Len(results) = Len(job.data)
    /\ Len(results) <= Len(job.data)
    /\ \A i \in 1 .. Len(results) :
         results[i].question = job.data[i].question

\* eval goes through the slice of its data.
Sliced ==
  /\ pc = "load" => job \in Jobs
  /\ job.command = "eval" /\ pc \notin {"off", "load"} =>
       \E j \in Jobs : j.command = "eval" /\ job.data = Limited(j.data, j.max)

\* A label changes nothing else of a row.
SameAnswer(r, s) ==
  r.question = s.question /\ r.type = s.type /\ r.correct = s.correct

Labeled ==
  pc \in {"judge", "rewrite", "print"} /\ job.command = "eval" =>
    /\ Len(labeled) <= Len(results)
    /\ pc # "judge" => Len(labeled) = Len(results)
    /\ \A i \in 1 .. Len(labeled) : SameAnswer(labeled[i], results[i])

\* The temporary file is the beginning of what is being written.
Written ==
  pc \in {"write", "rewrite"} =>
    /\ Len(tmp) <= Len(Given)
    /\ \A i \in 1 .. Len(tmp) : tmp[i] = Given[i]

\* What eval has printed, and what is in the file by then.
Printed ==
  job.command = "eval" =>
    /\ pc \notin {"off", "judge", "rewrite", "print"} => report.scored = << >>
    /\ pc # "off" => report.judged = << >>
    /\ pc \in {"judge", "rewrite"} => file = results
    /\ pc = "print" => file = labeled

\* The sessions of the instance in the order the system gets them, and how far
\* it is: it holds the last of those it has got.
Feed ==
  IF job.command = "bench" THEN job.data[k].sessions
  ELSE Chronological(job.data[k].sessions)
Held(n) ==
  IF job.system \in DOMAIN Window /\ Window[job.system] < n
  THEN Window[job.system] ELSE n

Fed ==
  pc = "ingest" =>
    LET got == Len(Feed) - Len(todo)
    IN /\ got \in Nat
       /\ \A i \in 1 .. Len(todo) : todo[i] = Feed[got + i]
       /\ Len(memory) = Held(got)
       /\ \A i \in 1 .. Len(memory) : memory[i] = Feed[(got - Held(got)) + i]

EvalInv ==
  /\ Types /\ Phases /\ Placed /\ Sliced
  /\ Labeled /\ Written /\ Printed /\ Fed
  /\ OwnSessionsOnly /\ FileIsWhole /\ ReportMatchesFile

----------------------------------------------------------------------------
(* Frames.                                                                 *)

LEMMA OwnStays ==
  ASSUME OwnSessionsOnly, UNCHANGED <<job, results>>
  PROVE  OwnSessionsOnly'
BY DEF OwnSessionsOnly, Latest

LEMMA OwnOfNothing ==
  ASSUME results' = << >>
  PROVE  OwnSessionsOnly'
BY DEF OwnSessionsOnly

LEMMA FileStays ==
  ASSUME FileIsWhole, UNCHANGED file
  PROVE  FileIsWhole'
BY DEF FileIsWhole

LEMMA ReportStays ==
  ASSUME ReportMatchesFile, UNCHANGED <<job, file, report>>
  PROVE  ReportMatchesFile'
BY DEF ReportMatchesFile

\* A run that ends, wherever it was.
LEMMA EndsKeeps ==
  ASSUME EvalInv, Ends, UNCHANGED job,
         tmp' \in Seq(Rows), file' \in Seq(Rows),
         DOMAIN report' = {"scored", "judged"},
         FileIsWhole', ReportMatchesFile'
  PROVE  EvalInv'
<1>1. /\ pc' = "off" /\ k' = 1 /\ probe' = 1 /\ memory' = << >>
      /\ todo' = << >> /\ results' = << >> /\ labeled' = << >>
  BY DEF Ends
<1>2. Types'
  BY <1>1 DEF EvalInv, Types, WellFormed
<1>3. Phases'
  BY <1>1 DEF Phases, Writing
<1>4. Placed'
  BY <1>1 DEF EvalInv, Types, Lines, Placed, Writing
<1>5. Sliced' /\ Labeled' /\ Written' /\ Printed' /\ Fed'
  BY <1>1 DEF Sliced, Labeled, Written, Printed, Fed
<1>6. OwnSessionsOnly'
  BY <1>1, OwnOfNothing
<1> QED
  BY <1>2, <1>3, <1>4, <1>5, <1>6 DEF EvalInv

\* A step of the replay, which touches none of the results' files.
LEMMA ReplayKeeps ==
  ASSUME EvalInv, UNCHANGED <<job, labeled, tmp, file, report>>,
         pc \in {"ping", "fresh", "ingest"},
         pc' \in {"fresh", "ingest", AfterReplay},
         Types', Phases', Placed', Fed', OwnSessionsOnly'
  PROVE  EvalInv'
<1>1. \/ pc' \in {"fresh", "ingest", "score"}
      \/ pc' = "print" /\ job.command # "eval"
  BY DEF AfterReplay
<1>2. Sliced'
  BY <1>1 DEF EvalInv, Sliced
<1>3. Labeled' /\ Written'
  BY <1>1 DEF Labeled, Written
<1>4. Printed'
  BY <1>1 DEF EvalInv, Printed
<1>5. FileIsWhole' /\ ReportMatchesFile'
  BY FileStays, ReportStays DEF EvalInv
<1> QED
  BY <1>2, <1>3, <1>4, <1>5 DEF EvalInv

\* A step after the replay of eval.
LEMMA WritingKeeps ==
  ASSUME EvalInv, UNCHANGED <<job, replaying>>,
         pc \in Writing, pc' \in Writing \cup {"print"},
         labeled' \in Seq(Rows), tmp' \in Seq(Rows), file' \in Seq(Rows),
         DOMAIN report' = {"scored", "judged"},
         labeled' # << >> => pc' \in {"judge", "rewrite", "print"},
         Labeled', Written', Printed', FileIsWhole', ReportMatchesFile'
  PROVE  EvalInv'
<1>1. UNCHANGED <<k, probe, memory, todo, results>>
  BY DEF replaying
<1>2. Types'
  BY <1>1 DEF EvalInv, Types, WellFormed, Writing
<1>3. Phases'
  BY <1>1 DEF EvalInv, Phases, Writing
<1>4. Placed'
  BY <1>1 DEF EvalInv, Placed, Writing
<1>5. Sliced' /\ Fed'
  BY DEF EvalInv, Sliced, Fed, Writing
<1>6. OwnSessionsOnly'
  BY <1>1, OwnStays DEF EvalInv
<1> QED
  BY <1>2, <1>3, <1>4, <1>5, <1>6 DEF EvalInv

LEMMA StutterKeeps ==
  ASSUME EvalInv, UNCHANGED vars
  PROVE  EvalInv'
<1> USE DEF vars
<1>1. Types' /\ Phases' /\ Placed'
  BY DEF EvalInv, Types, WellFormed, Phases, Placed
<1>2. Sliced' /\ Labeled'
  BY DEF EvalInv, Sliced, Labeled, SameAnswer
<1>3. Written' /\ Printed'
  BY DEF EvalInv, Written, Printed, Given
<1>4. Fed'
  BY DEF EvalInv, Fed, Feed, Held
<1>5. OwnSessionsOnly' /\ FileIsWhole' /\ ReportMatchesFile'
  BY OwnStays, FileStays, ReportStays DEF EvalInv
<1> QED
  BY <1>1, <1>2, <1>3, <1>4, <1>5 DEF EvalInv

----------------------------------------------------------------------------
(* Up to the first instance.                                               *)

LEMMA LimitedIsPrefix ==
  ASSUME NEW S, NEW data \in Seq(S), NEW max \in Nat
  PROVE  /\ Limited(data, max) \in Seq(S)
         /\ Len(Limited(data, max)) \in 0 .. Len(data)
         /\ \A i \in 1 .. Len(Limited(data, max)) :
              Limited(data, max)[i] = data[i]
<1>1. Len(data) \in Nat
  OBVIOUS
<1>2. CASE max = 0 \/ max > Len(data)
  BY <1>1, <1>2 DEF Limited
<1>3. CASE ~(max = 0 \/ max > Len(data))
  <2>1. /\ Limited(data, max) = SubSeq(data, 1, max)
        /\ 1 <= max /\ max <= Len(data)
    BY <1>1, <1>3 DEF Limited
  <2>2. /\ SubSeq(data, 1, max) \in Seq(S)
        /\ Len(SubSeq(data, 1, max)) = max
        /\ \A i \in 1 .. max : SubSeq(data, 1, max)[i] = data[i]
    BY <1>1, <2>1
  <2> QED
    BY <1>1, <2>1, <2>2
<1> QED
  BY <1>2, <1>3

LEMMA JobsAreLines ==
  ASSUME NEW j \in Jobs
  PROVE  j \in Lines /\ WellFormed(j.command, j.data)
BY EvalAssumption DEF Job, Lines

LEMMA StartKeeps ==
  ASSUME EvalInv, NEW j \in Jobs, Start(j)
  PROVE  EvalInv'
<1>1. /\ pc = "off" /\ job' = j /\ report' = NoReport
      /\ UNCHANGED <<k, probe, memory, todo, results, labeled, tmp, file>>
      /\ pc' = IF j.command = "eval" THEN "load"
               ELSE IF j.command = "dims" THEN "ping" ELSE "fresh"
  BY DEF Start, replaying
<1>2. k = 1 /\ results = << >> /\ labeled = << >>
  BY <1>1 DEF EvalInv, Phases
<1>3. j \in Lines /\ WellFormed(j.command, j.data)
  BY JobsAreLines
<1>4. Types'
  BY <1>1, <1>3 DEF EvalInv, Types, NoReport
<1>5. Phases'
  BY <1>1, <1>2 DEF Phases, Writing
<1>6. Len(j.data) \in Nat
  BY <1>3 DEF Lines
<1>7. Placed'
  BY <1>1, <1>2, <1>6 DEF Placed, Writing
<1>8. Sliced' /\ Labeled' /\ Written' /\ Fed'
  BY <1>1 DEF Sliced, Labeled, Written, Fed
<1>9. Printed'
  BY <1>1 DEF Printed, NoReport
<1>10. OwnSessionsOnly' /\ FileIsWhole'
  BY <1>1, <1>2, OwnOfNothing, FileStays DEF EvalInv
<1>11. ReportMatchesFile'
  BY <1>1 DEF ReportMatchesFile, NoReport
<1> QED
  BY <1>4, <1>5, <1>7, <1>8, <1>9, <1>10, <1>11 DEF EvalInv

LEMMA LoadKeeps ==
  ASSUME EvalInv, Load
  PROVE  EvalInv'
<1>1. CASE Ends /\ UNCHANGED job
  BY <1>1, EndsKeeps, FileStays, ReportStays DEF Load, EvalInv, Types
<1>2. CASE GoesTo("ping") /\ job' = [job EXCEPT !.data =
                                         Limited(job.data, job.max)]
  <2> DEFINE data == Limited(job.data, job.max)
  <2>1. /\ pc = "load" /\ pc' = "ping"
        /\ UNCHANGED <<k, probe, memory, todo, results, labeled, tmp, file,
                       report>>
    BY <1>2 DEF Load, GoesTo, replaying
  <2>2. /\ k = 1 /\ results = << >> /\ labeled = << >>
        /\ job.command = "eval" /\ job \in Jobs
    BY <2>1 DEF EvalInv, Phases, Sliced
  <2>3. job \in Lines /\ WellFormed(job.command, job.data)
    BY DEF EvalInv, Types
  <2>4. job.data \in Seq(Instance) /\ job.max \in Nat
    BY <2>3 DEF Lines
  <2>5. /\ data \in Seq(Instance)
        /\ Len(data) \in 0 .. Len(job.data)
        /\ \A i \in 1 .. Len(data) : data[i] = job.data[i]
    BY <2>4, LimitedIsPrefix
  <2> HIDE DEF data
  <2>6. /\ job'.data = data /\ job'.command = job.command /\ job' \in Lines
    BY <1>2, <2>3, <2>5 DEF Lines, data
  <2>7. /\ DOMAIN data = 1 .. Len(data)
        /\ DOMAIN job.data = 1 .. Len(job.data) /\ Len(job.data) \in Nat
    BY <2>4, <2>5
  <2>8. WellFormed("eval", data)
    <3>1. \A i \in DOMAIN data : i \in DOMAIN job.data /\ data[i] = job.data[i]
      BY <2>5, <2>7
    <3>2. WellFormed("eval", job.data)
      BY <2>2, <2>3
    <3> QED
      BY <3>1, <3>2 DEF WellFormed
  <2>9. Types'
    BY <2>1, <2>2, <2>6, <2>8 DEF EvalInv, Types
  <2>10. Phases' /\ Placed'
    BY <2>1, <2>2, <2>5, <2>6, <2>7 DEF Phases, Placed, Writing
  <2>11. Sliced'
    BY <2>1, <2>2, <2>6 DEF Sliced, data
  <2>12. Labeled' /\ Written' /\ Fed'
    BY <2>1 DEF Labeled, Written, Fed
  <2>13. /\ Printed'
         /\ report'.scored = << >> /\ report'.judged = << >>
    BY <2>1, <2>2, <2>6 DEF EvalInv, Printed
  <2>14. OwnSessionsOnly' /\ FileIsWhole'
    BY <2>1, <2>2, OwnOfNothing, FileStays DEF EvalInv
  <2>15. ReportMatchesFile'
    BY <2>1, <2>2, <2>13 DEF ReportMatchesFile, Printed
  <2> QED
    BY <2>9, <2>10, <2>11, <2>12, <2>13, <2>14, <2>15 DEF EvalInv
<1> QED
  BY <1>1, <1>2 DEF Load

LEMMA PreflightKeeps ==
  ASSUME EvalInv, NEW answers \in BOOLEAN, Preflight(answers)
  PROVE  EvalInv'
<1>1. CASE Ends
  BY <1>1, EndsKeeps, FileStays, ReportStays DEF Preflight, EvalInv, Types
<1>2. CASE GoesTo("fresh")
  <2>1. /\ pc = "ping" /\ pc' = "fresh"
        /\ UNCHANGED <<job, k, probe, memory, todo, results, labeled, tmp,
                       file, report>>
    BY <1>2 DEF Preflight, GoesTo, replaying
  <2>2. k = 1 /\ results = << >> /\ labeled = << >>
    BY <2>1 DEF EvalInv, Phases
  <2>3. Types'
    BY <2>1 DEF EvalInv, Types, WellFormed
  <2>4. Len(job.data) \in Nat
    BY DEF EvalInv, Types, Lines
  <2>5. Phases' /\ Placed'
    BY <2>1, <2>2, <2>4 DEF Phases, Placed, Writing
  <2>6. Fed' /\ OwnSessionsOnly'
    BY <2>1, <2>2, OwnOfNothing DEF Fed
  <2> QED
    BY <2>1, <2>3, <2>5, <2>6, ReplayKeeps
<1> QED
  BY <1>1, <1>2 DEF Preflight

----------------------------------------------------------------------------
(* The order of the sessions.                                              *)

\* A feed has each of the sessions once, in the order of their times.
InOrder(feed, sessions) ==
  /\ feed \in Seq(Session) /\ Len(feed) = Len(sessions)
  /\ Range(feed) = Range(sessions)
  /\ \A a, b \in 1 .. Len(feed) : a < b => feed[a].at <= feed[b].at
  /\ \A a, b \in 1 .. Len(feed) : feed[a] = feed[b] => a = b

\* The sort of the sessions loses none of them, whatever their times.
LEMMA ChronologicalIs ==
  ASSUME NEW sessions \in Seq(Session),
         \A a, b \in DOMAIN sessions : sessions[a].id = sessions[b].id => a = b
  PROVE  InOrder(Chronological(sessions), sessions)
<1> DEFINE I == DOMAIN sessions
           size == Len(sessions)
           less(j, i) == \/ sessions[j].at < sessions[i].at
                         \/ sessions[j].at = sessions[i].at /\ j < i
           before(i) == { j \in I : less(j, i) }
           rank == [i \in I |-> Cardinality(before(i)) + 1]
           nth(n) == CHOOSE i \in I : Cardinality(before(i)) = n - 1
           feed == [n \in I |-> sessions[nth(n)]]
<1>1. /\ size \in Nat /\ I = 1 .. size /\ I \subseteq Nat
      /\ \A i \in I : sessions[i] \in Session /\ sessions[i].at \in Nat
  <2>1. size \in Nat /\ I = 1 .. size
    OBVIOUS
  <2>2. \A i \in I : sessions[i] \in Session
    OBVIOUS
  <2> QED
    BY <2>1, <2>2 DEF Session
<1>2. /\ \A i \in I : ~less(i, i)
      /\ \A i, j \in I : i # j => less(i, j) \/ less(j, i)
      /\ \A h, i, j \in I : less(h, i) /\ less(i, j) => less(h, j)
      /\ \A i, j \in I : less(i, j) => sessions[i].at <= sessions[j].at
  BY <1>1
<1>3. Chronological(sessions) = feed
  BY DEF Chronological
<1>4. \A a, b \in I : sessions[a] = sessions[b] => a = b
  OBVIOUS
<1> HIDE DEF less, size
<1>5. IsFiniteSet(I) /\ Cardinality(I) = size
  BY <1>1, FS_Interval
<1>6. \A i \in I : before(i) \subseteq I /\ i \notin before(i)
  BY <1>2
<1>7. \A i, j \in I :
        less(i, j) => before(i) \subseteq before(j) /\ i \in before(j)
  BY <1>2
<1> HIDE DEF before, I
<1>8. \A i \in I : IsFiniteSet(before(i)) /\ Cardinality(before(i)) \in Nat
  BY <1>5, <1>6, FS_Subset, FS_CardinalityType
<1>9. \A i \in I : Cardinality(before(i)) < size
  <2> TAKE i \in I
  <2>1. Cardinality(before(i)) <= size /\ Cardinality(before(i)) # size
    BY <1>5, <1>6, FS_Subset
  <2> QED
    BY <1>1, <1>8, <2>1
<1>10. \A i, j \in I :
         less(i, j) => Cardinality(before(i)) < Cardinality(before(j))
  <2> SUFFICES ASSUME NEW i \in I, NEW j \in I, less(i, j)
               PROVE  Cardinality(before(i)) < Cardinality(before(j))
    OBVIOUS
  <2>1. before(i) \subseteq before(j) /\ before(i) # before(j)
    BY <1>6, <1>7
  <2>2. /\ Cardinality(before(i)) <= Cardinality(before(j))
        /\ Cardinality(before(i)) # Cardinality(before(j))
    BY <1>8, <2>1, FS_Subset
  <2> QED
    BY <1>8, <2>2
<1>11. \A i, j \in I : Cardinality(before(i)) = Cardinality(before(j)) => i = j
  BY <1>2, <1>8, <1>10
<1>12. \A i \in I : Cardinality(before(i)) + 1 \in I
  BY <1>1, <1>8, <1>9
<1>13. rank \in Injection(I, I)
  BY <1>8, <1>11, <1>12 DEF Injection, IsInjective
<1>14. rank \in Surjection(I, I)
  BY <1>5, <1>13, FS_Injection
<1>15. \A n \in I : \E i \in I : Cardinality(before(i)) = n - 1
  <2> SUFFICES ASSUME NEW n \in I
               PROVE  \E i \in I : Cardinality(before(i)) = n - 1
    OBVIOUS
  <2>1. PICK i \in I : rank[i] = n
    BY <1>14 DEF Surjection
  <2>2. Cardinality(before(i)) + 1 = n
    BY <2>1
  <2> QED
    BY <1>1, <1>8, <2>2
<1>16. \A n \in I : nth(n) \in I /\ Cardinality(before(nth(n))) = n - 1
  BY <1>15
<1>17. \A i \in I : nth(Cardinality(before(i)) + 1) = i
  <2> TAKE i \in I
  <2>1. /\ nth(Cardinality(before(i)) + 1) \in I
        /\ Cardinality(before(nth(Cardinality(before(i)) + 1)))
             = (Cardinality(before(i)) + 1) - 1
    BY <1>12, <1>16
  <2> QED
    BY <1>8, <1>11, <2>1
<1> HIDE DEF nth
<1>18. /\ feed \in Seq(Session) /\ Len(feed) = size
       /\ \A n \in I : feed[n] = sessions[nth(n)]
  <2>1. \A n \in I : sessions[nth(n)] \in Session
    BY <1>1, <1>16
  <2> QED
    BY <1>1, <2>1
<1>19. Range(feed) = Range(sessions)
  <2>1. \A x \in Range(feed) : x \in Range(sessions)
    BY <1>16 DEF Range, I
  <2>2. ASSUME NEW i \in I
        PROVE  sessions[i] \in Range(feed)
    <3>1. feed[Cardinality(before(i)) + 1] = sessions[i]
      BY <1>12, <1>17
    <3> QED
      BY <1>12, <3>1 DEF Range
  <2> QED
    BY <2>1, <2>2 DEF Range, I
<1>20. ASSUME NEW a \in I, NEW b \in I, a < b
       PROVE  feed[a].at <= feed[b].at
  <2>1. Cardinality(before(nth(a))) < Cardinality(before(nth(b)))
    BY <1>1, <1>16, <1>20
  <2>2. ~less(nth(b), nth(a)) /\ nth(a) # nth(b)
    <3>1. nth(a) \in I /\ nth(b) \in I
      BY <1>16
    <3> QED
      BY <1>8, <1>10, <2>1, <3>1
  <2>3. less(nth(a), nth(b))
    BY <1>2, <1>16, <2>2
  <2> QED
    BY <1>2, <1>16, <2>3
<1>21. ASSUME NEW a \in I, NEW b \in I, feed[a] = feed[b]
       PROVE  a = b
  <2>1. nth(a) = nth(b)
    BY <1>4, <1>16, <1>21 DEF I
  <2> QED
    BY <1>1, <1>16, <2>1
<1> HIDE DEF feed
<1> QED
  BY <1>1, <1>3, <1>18, <1>19, <1>20, <1>21 DEF InOrder, size

LEMMA FeedInOrder ==
  ASSUME Types, k \in 1 .. Len(job.data)
  PROVE  InOrder(Feed, job.data[k].sessions)
<1> DEFINE sessions == job.data[k].sessions
<1>1. job.data \in Seq(Instance) /\ job.data[k] \in Instance
  BY DEF Types, Lines
<1>2. sessions \in Seq(Session)
  BY <1>1 DEF Instance, Session
<1>3. k \in DOMAIN job.data /\ WellFormed(job.command, job.data)
  BY <1>1 DEF Types
<1>4. \A a, b \in DOMAIN sessions : sessions[a].id = sessions[b].id => a = b
  BY <1>3 DEF WellFormed
<1>5. CASE job.command = "bench"
  <2>1. \A a, b \in DOMAIN sessions :
          a < b => sessions[a].at <= sessions[b].at
    BY <1>3, <1>5 DEF WellFormed
  <2>2. DOMAIN sessions = 1 .. Len(sessions)
    BY <1>2
  <2> QED
    BY <1>2, <1>4, <1>5, <2>1, <2>2 DEF Feed, InOrder
<1>6. CASE job.command # "bench"
  BY <1>2, <1>4, <1>6, ChronologicalIs DEF Feed
<1> QED
  BY <1>5, <1>6

----------------------------------------------------------------------------
(* The replay.                                                             *)

\* A system with a window keeps the last of what it is given.
LEMMA KeptIsTheLast ==
  ASSUME NEW s \in Seq(Session)
  PROVE  /\ Kept(s) \in Seq(Session)
         /\ Len(Kept(s)) = Held(Len(s)) /\ Held(Len(s)) \in 0 .. Len(s)
         /\ \A i \in 1 .. Held(Len(s)) :
              Kept(s)[i] = s[(Len(s) - Held(Len(s))) + i]
<1>1. Len(s) \in Nat
  OBVIOUS
<1>2. CASE job.system \in DOMAIN Window /\ Window[job.system] < Len(s)
  <2> DEFINE w == Window[job.system]
  <2>1. w \in {2, 10} /\ Held(Len(s)) = w
    BY <1>2 DEF Window, Held
  <2>2. w < Len(s) /\ ~(Len(s) <= w)
    BY <1>1, <1>2, <2>1
  <2>3. Kept(s) = SubSeq(s, (Len(s) - w) + 1, Len(s))
    BY <1>2, <2>2 DEF Kept
  <2> HIDE DEF w
  <2>4. /\ SubSeq(s, (Len(s) - w) + 1, Len(s)) \in Seq(Session)
        /\ Len(SubSeq(s, (Len(s) - w) + 1, Len(s))) = w
        /\ \A i \in 1 .. w : SubSeq(s, (Len(s) - w) + 1, Len(s))[i]
                            = s[(Len(s) - w) + i]
    BY <1>1, <2>1, <2>2
  <2> QED
    BY <1>1, <2>1, <2>2, <2>3, <2>4
<1>3. CASE ~(job.system \in DOMAIN Window /\ Window[job.system] < Len(s))
  <2>1. Held(Len(s)) = Len(s)
    BY <1>3 DEF Held
  <2>2. Kept(s) = s
    <3>1. \A x \in DOMAIN Window : Window[x] \in Nat
      BY DEF Window
    <3> QED
      BY <1>1, <1>3, <3>1 DEF Kept
  <2> QED
    BY <1>1, <2>1, <2>2
<1> QED
  BY <1>2, <1>3

LEMMA FreshKeeps ==
  ASSUME EvalInv, Fresh
  PROVE  EvalInv'
<1>1. /\ pc = "fresh"
      /\ UNCHANGED <<job, k, results, labeled, tmp, file, report>>
  BY DEF Fresh
<1>2. /\ Types /\ Phases /\ Placed
      /\ job.data \in Seq(Instance) /\ Len(job.data) \in Nat
      /\ k \in Nat \ {0} /\ labeled = << >>
  BY <1>1 DEF EvalInv, Types, Phases, Lines
<1>3. OwnSessionsOnly'
  BY <1>1, OwnStays DEF EvalInv
<1>4. CASE k > Len(job.data)
  <2>1. pc' = AfterReplay /\ UNCHANGED <<memory, todo, probe>>
    BY <1>4 DEF Fresh
  <2>2. \/ pc' = "score" /\ job.command = "eval"
        \/ pc' = "print" /\ job.command # "eval"
    BY <2>1 DEF AfterReplay
  <2>3. Types'
    BY <1>1, <1>2, <2>1, <2>2 DEF Types, WellFormed, Writing
  <2>4. Phases'
    BY <1>1, <1>2, <2>2 DEF Phases, Writing
  <2>5. job.command = "eval" => Len(results) = Len(job.data)
    BY <1>1, <1>2, <1>4 DEF Placed
  <2>6. Placed'
    BY <1>1, <1>2, <2>2, <2>5 DEF Placed, Writing
  <2>7. Fed'
    BY <2>2 DEF Fed
  <2> QED
    BY <1>1, <1>3, <2>1, <2>3, <2>4, <2>6, <2>7, ReplayKeeps
<1>5. CASE ~(k > Len(job.data))
  <2>1. /\ pc' = "ingest" /\ memory' = << >> /\ probe' = 1
        /\ todo' = Feed
    BY <1>5 DEF Fresh, Feed
  <2>2. k \in 1 .. Len(job.data)
    BY <1>2, <1>5
  <2>3. Feed \in Seq(Session)
    BY <1>2, <2>2, FeedInOrder DEF InOrder
  <2>4. Types'
    BY <1>1, <1>2, <2>1, <2>3 DEF Types, WellFormed
  <2>5. Phases'
    BY <1>1, <1>2, <2>1, <2>2 DEF Phases, Writing
  <2>6. Placed'
    <3>1. job.command = "eval" => Len(results) = (k + 1) - 2
      BY <1>1, <1>2 DEF Placed
    <3> QED
      BY <1>1, <1>2, <2>1, <3>1 DEF Placed, Writing
  <2>7. Fed'
    <3>1. Feed' = Feed
      BY <1>1 DEF Feed
    <3>2. Len(Feed) \in Nat /\ Len(Feed) - Len(Feed) = 0
      BY <2>3
    <3>3. Held(0)' = 0
      <4>1. \A x \in DOMAIN Window : ~(Window[x] < 0)
        BY DEF Window
      <4> QED
        BY <4>1 DEF Held
    <3> HIDE DEF Feed
    <3>4. /\ Len(Feed') - Len(todo') = 0 /\ Len(todo') = Len(Feed)
          /\ \A i \in 1 .. Len(Feed) : todo'[i] = Feed'[0 + i]
      BY <2>1, <3>1, <3>2
    <3>5. Len(memory') = 0 /\ 1 .. 0 = {}
      BY <2>1
    <3> QED
      BY <3>3, <3>4, <3>5 DEF Fed
  <2> QED
    BY <1>1, <1>3, <2>1, <2>4, <2>5, <2>6, <2>7, ReplayKeeps
<1> QED
  BY <1>4, <1>5

LEMMA IngestKeeps ==
  ASSUME EvalInv, Ingest
  PROVE  EvalInv'
<1> DEFINE got == Len(Feed) - Len(todo)
           s == Append(memory, Head(todo))
<1>1. /\ pc = "ingest" /\ pc' = "ingest" /\ todo # << >>
      /\ memory' = Kept(s) /\ todo' = Tail(todo)
      /\ UNCHANGED <<job, k, probe, results, labeled, tmp, file, report>>
  BY DEF Ingest
<1>2. /\ Types /\ Phases /\ Placed /\ Fed
      /\ memory \in Seq(Session) /\ todo \in Seq(Session)
      /\ k \in 1 .. Len(job.data)
  BY <1>1 DEF EvalInv, Types, Phases, Lines
<1>3. /\ Len(todo) \in Nat \ {0} /\ Head(todo) = todo[1]
      /\ Tail(todo) \in Seq(Session) /\ Len(Tail(todo)) = Len(todo) - 1
      /\ \A i \in 1 .. Len(Tail(todo)) : Tail(todo)[i] = todo[i + 1]
      /\ Head(todo) \in Session
  BY <1>1, <1>2
<1>4. Len(Feed) \in Nat /\ Feed' = Feed
  <2>1. Feed' = Feed
    BY <1>1 DEF Feed
  <2>2. Feed \in Seq(Session)
    BY <1>2, FeedInOrder DEF InOrder
  <2> QED
    BY <2>1, <2>2
<1>5. /\ got \in Nat
      /\ \A i \in 1 .. Len(todo) : todo[i] = Feed[got + i]
      /\ Len(memory) = Held(got)
      /\ \A i \in 1 .. Len(memory) : memory[i] = Feed[(got - Held(got)) + i]
  BY <1>1, <1>2 DEF Fed
<1>6. /\ s \in Seq(Session) /\ Len(s) = Len(memory) + 1
      /\ \A i \in 1 .. Len(memory) : s[i] = memory[i]
      /\ s[Len(memory) + 1] = todo[1]
  BY <1>2, <1>3
<1> HIDE DEF got, s
<1>7. Held(got) \in 0 .. got /\ \A n \in Nat : Held(n)' = Held(n)
  <2>1. \A x \in DOMAIN Window : Window[x] \in Nat
    BY DEF Window
  <2> QED
    BY <1>1, <1>5, <2>1 DEF Held
<1>8. Held(Len(s)) = Held(got + 1)
  <2>1. \A x \in DOMAIN Window : Window[x] \in Nat
    BY DEF Window
  <2> QED
    BY <1>5, <1>6, <2>1 DEF Held
<1>9. /\ Kept(s) \in Seq(Session) /\ Len(Kept(s)) = Held(got + 1)
      /\ Held(got + 1) \in 0 .. Held(got) + 1
      /\ \A i \in 1 .. Held(got + 1) :
           Kept(s)[i] = s[((Held(got) + 1) - Held(got + 1)) + i]
  BY <1>5, <1>6, <1>8, KeptIsTheLast
<1>10. \A i \in 1 .. Len(s) : s[i] = Feed[(got - Held(got)) + i]
  <2> TAKE i \in 1 .. Len(s)
  <2>1. CASE i <= Len(memory)
    <3>1. i \in 1 .. Len(memory)
      BY <1>5, <1>6, <1>7, <2>1
    <3> QED
      BY <1>5, <1>6, <3>1
  <2>2. CASE i = Len(memory) + 1
    <3>1. (got - Held(got)) + i = got + 1
      BY <1>5, <1>7, <2>2
    <3>2. todo[1] = Feed[got + 1]
      BY <1>3, <1>5
    <3> QED
      BY <1>6, <2>2, <3>1, <3>2
  <2> QED
    BY <1>5, <1>6, <1>7, <2>1, <2>2
<1>11. Len(Feed') - Len(todo') = got + 1
  BY <1>1, <1>3, <1>4 DEF got
<1>12. \A i \in 1 .. Len(todo') : todo'[i] = Feed'[(got + 1) + i]
  <2> TAKE i \in 1 .. Len(todo')
  <2>1. i + 1 \in 1 .. Len(todo) /\ todo'[i] = todo[i + 1]
    BY <1>1, <1>3
  <2>2. todo[i + 1] = Feed[got + (i + 1)]
    BY <1>5, <2>1
  <2>3. got + (i + 1) = (got + 1) + i
    BY <1>5
  <2> QED
    BY <1>4, <2>1, <2>2, <2>3
<1>13. \A i \in 1 .. Len(memory') :
         memory'[i] = Feed'[((got + 1) - Held(got + 1)) + i]
  <2> TAKE i \in 1 .. Len(memory')
  <2> DEFINE e == ((Held(got) + 1) - Held(got + 1)) + i
  <2>1. i \in 1 .. Held(got + 1) /\ memory'[i] = s[e]
    BY <1>1, <1>9
  <2>2. /\ e \in 1 .. Len(s)
        /\ (got - Held(got)) + e = ((got + 1) - Held(got + 1)) + i
    <3>1. PICK h \in Nat : h = Held(got) /\ Len(s) = h + 1
      BY <1>5, <1>6, <1>7
    <3>2. PICK l \in 0 .. h + 1 : l = Held(got + 1)
      BY <1>9, <3>1
    <3>3. i \in 1 .. l /\ e = ((h + 1) - l) + i
      BY <2>1, <3>1, <3>2
    <3>4. e \in 1 .. Len(s)
      BY <3>1, <3>3
    <3>5. (got - h) + e = ((got + 1) - l) + i
      BY <1>5, <3>3
    <3> QED
      BY <3>1, <3>2, <3>4, <3>5
  <2> HIDE DEF e
  <2>3. s[e] = Feed[(got - Held(got)) + e]
    BY <1>10, <2>2
  <2> QED
    BY <1>4, <2>1, <2>2, <2>3
<1>14. Fed'
  <2>1. PICK g \in Nat : g = got + 1
    BY <1>5
  <2>2. Held(g)' = Held(g) /\ Len(memory') = Held(g)
    BY <1>1, <1>7, <1>9, <2>1
  <2>3. /\ Len(Feed') - Len(todo') = g
        /\ \A i \in 1 .. Len(todo') : todo'[i] = Feed'[g + i]
        /\ \A i \in 1 .. Len(memory') :
             memory'[i] = Feed'[(g - Held(g)) + i]
    BY <1>11, <1>12, <1>13, <2>1
  <2> QED
    BY <2>2, <2>3 DEF Fed
<1>15. Types'
  BY <1>1, <1>2, <1>3, <1>9 DEF Types, WellFormed
<1>16. Phases' /\ Placed'
  BY <1>1, <1>2 DEF Phases, Placed, Writing
<1>17. OwnSessionsOnly'
  BY <1>1, OwnStays DEF EvalInv
<1> QED
  BY <1>1, <1>14, <1>15, <1>16, <1>17, ReplayKeeps

\* The last of the feed are the latest of the sessions.
LEMMA LastAreLatest ==
  ASSUME NEW sessions \in Seq(Session), NEW feed, InOrder(feed, sessions),
         memory \in Seq(Session), Len(memory) = Held(Len(feed)),
         \A i \in 1 .. Len(memory) :
           memory[i] = feed[(Len(feed) - Held(Len(feed))) + i]
  PROVE  /\ Range(memory) \subseteq Range(sessions)
         /\ Latest(sessions, Range(memory))
<1>1. PICK n \in Nat : n = Len(feed) /\ n = Len(sessions)
  BY DEF InOrder
<1>2. \A x \in DOMAIN Window : Window[x] \in Nat
  BY DEF Window
<1>3. PICK h \in 0 .. n : h = Held(n)
  BY <1>1, <1>2 DEF Held
<1>4. /\ Len(memory) = h
      /\ \A i \in 1 .. h : memory[i] = feed[(n - h) + i]
  BY <1>1, <1>3
<1>5. /\ DOMAIN feed = 1 .. n /\ DOMAIN memory = 1 .. h
      /\ Range(feed) = Range(sessions)
      /\ \A a, b \in 1 .. n : a < b => feed[a].at <= feed[b].at
      /\ \A a, b \in 1 .. n : feed[a] = feed[b] => a = b
  BY <1>1, <1>4 DEF InOrder
<1>6. \A i \in 1 .. h : (n - h) + i \in 1 .. n
  OBVIOUS
<1>7. Range(memory) \subseteq Range(sessions)
  <2>1. \A i \in 1 .. h : memory[i] \in Range(feed)
    BY <1>4, <1>5, <1>6 DEF Range
  <2> QED
    BY <1>5, <2>1 DEF Range
<1>8. CASE job.system \in DOMAIN Window
  <2>1. h = IF Len(sessions) <= Window[job.system] THEN Len(sessions)
            ELSE Window[job.system]
    BY <1>1, <1>2, <1>3, <1>8 DEF Held
  <2>2. Cardinality(Range(memory)) = h
    <3>1. \A i, j \in 1 .. h : memory[i] = memory[j] => i = j
      <4> SUFFICES ASSUME NEW i \in 1 .. h, NEW j \in 1 .. h,
                          memory[i] = memory[j]
                   PROVE  i = j
        OBVIOUS
      <4>1. feed[(n - h) + i] = feed[(n - h) + j]
        BY <1>4
      <4>2. (n - h) + i \in 1 .. n /\ (n - h) + j \in 1 .. n
        BY <1>6
      <4>3. (n - h) + i = (n - h) + j
        BY <1>5, <4>1, <4>2
      <4> QED
        BY <4>3
    <3>2. /\ memory \in Surjection(1 .. h, Range(memory))
          /\ memory \in Injection(1 .. h, Range(memory))
      BY <1>5, <3>1 DEF Injection, Surjection, IsInjective, Range
    <3>3. h \in Int /\ 1 \in Int /\ (IF 1 > h THEN 0 ELSE (h - 1) + 1) = h
      OBVIOUS
    <3>4. /\ IsFiniteSet(1 .. h)
          /\ Cardinality(1 .. h) = IF 1 > h THEN 0 ELSE (h - 1) + 1
      BY <3>3, FS_Interval, Zenon
    <3> QED
      BY <3>2, <3>3, <3>4, FS_Surjection
  <2>3. ASSUME NEW s \in Range(memory),
               NEW t \in Range(sessions) \ Range(memory)
        PROVE  t.at <= s.at
    <3>1. PICK i \in 1 .. h : s = memory[i]
      BY <1>5 DEF Range
    <3>2. PICK b \in 1 .. n : t = feed[b]
      BY <1>5 DEF Range
    <3>3. b <= n - h
      <4>1. SUFFICES ASSUME b > n - h
                     PROVE  FALSE
        OBVIOUS
      <4>2. b - (n - h) \in 1 .. h /\ (n - h) + (b - (n - h)) = b
        BY <4>1
      <4>3. memory[b - (n - h)] = t
        BY <1>4, <3>2, <4>2
      <4> QED
        BY <1>5, <4>2, <4>3 DEF Range
    <3>4. b < (n - h) + i
      BY <3>3
    <3> QED
      BY <1>4, <1>5, <1>6, <3>1, <3>2, <3>4
  <2> QED
    BY <1>7, <1>8, <2>1, <2>2, <2>3 DEF Latest
<1>9. CASE job.system \notin DOMAIN Window
  <2>1. h = n
    BY <1>1, <1>3, <1>9 DEF Held
  <2>2. \A i \in 1 .. n : memory[i] = feed[i]
    BY <1>4, <2>1
  <2>3. Range(memory) = Range(feed)
    BY <1>5, <2>1, <2>2 DEF Range
  <2> QED
    BY <1>5, <1>7, <1>9, <2>3 DEF Latest
<1> QED
  BY <1>7, <1>8, <1>9

LEMMA AnswerKeeps ==
  ASSUME EvalInv, NEW seen \in Seen, NEW correct \in BOOLEAN,
         Answer(seen, correct)
  PROVE  EvalInv'
<1> DEFINE row == Row(job.data[k].question, job.data[k].type, seen, correct)
<1>1. /\ pc = "ingest" /\ pc' = "ingest" /\ todo = << >>
      /\ probe <= job.data[k].probes /\ probe' = probe + 1
      /\ results' = Append(results, row)
      /\ UNCHANGED <<job, k, memory, todo, labeled, tmp, file, report>>
  BY DEF Answer
<1>2. /\ Types /\ Phases /\ Placed /\ Fed /\ OwnSessionsOnly
      /\ memory \in Seq(Session) /\ results \in Seq(Rows)
      /\ job.data \in Seq(Instance) /\ k \in 1 .. Len(job.data)
      /\ WellFormed(job.command, job.data) /\ probe \in Nat
  BY <1>1 DEF EvalInv, Types, Phases, Lines
<1>3. /\ job.data[k] \in Instance /\ k \in DOMAIN job.data
      /\ DOMAIN job.data = 1 .. Len(job.data) /\ Len(job.data) \in Nat
  BY <1>2
<1>4. seen \subseteq Range(memory) /\ Range(memory) \subseteq Session
  <2>1. seen \subseteq Range(memory)
    BY DEF Seen
  <2> QED
    BY <1>2, <2>1 DEF Range
<1>5. row \in Rows
  BY <1>3, <1>4 DEF Row, Rows, Instance
<1>6. row.question = job.data[k].question /\ row.seen = seen
  BY DEF Row
<1> HIDE DEF row
<1>7. /\ results' \in Seq(Rows) /\ Len(results') = Len(results) + 1
      /\ Len(results) \in Nat
      /\ \A i \in 1 .. Len(results) : results'[i] = results[i]
      /\ results'[Len(results) + 1] = row
  BY <1>1, <1>2, <1>5
<1>8. IF job.system = "contextmemory"
      THEN seen \subseteq Range(job.data[k].sessions)
      ELSE Latest(job.data[k].sessions, seen)
  <2>1. job.data[k].sessions \in Seq(Session)
    BY <1>3 DEF Instance, Session
  <2>2. InOrder(Feed, job.data[k].sessions)
    BY <1>2, FeedInOrder
  <2>3. Len(Feed) \in Nat /\ Len(Feed) - Len(todo) = Len(Feed)
    BY <1>1, <2>2 DEF InOrder
  <2>4. /\ Len(memory) = Held(Len(Feed))
        /\ \A i \in 1 .. Len(memory) :
             memory[i] = Feed[(Len(Feed) - Held(Len(Feed))) + i]
    BY <1>1, <1>2, <2>3 DEF Fed
  <2> HIDE DEF Feed
  <2>5. /\ Range(memory) \subseteq Range(job.data[k].sessions)
        /\ Latest(job.data[k].sessions, Range(memory))
    BY <1>2, <2>1, <2>2, <2>4, LastAreLatest
  <2> QED
    BY <1>4, <2>5 DEF Seen
<1>9. OwnSessionsOnly'
  <2> SUFFICES ASSUME NEW i \in DOMAIN results', NEW j \in DOMAIN job.data,
                      job.data[j].question = results'[i].question
               PROVE  IF job.system = "contextmemory"
                      THEN results'[i].seen
                             \subseteq Range(job.data[j].sessions)
                      ELSE Latest(job.data[j].sessions, results'[i].seen)
    BY <1>1 DEF OwnSessionsOnly, Latest
  <2>1. DOMAIN results' = 1 .. Len(results) + 1
    BY <1>7
  <2>2. CASE i \in 1 .. Len(results)
    <3>1. i \in DOMAIN results /\ results'[i] = results[i]
      BY <1>2, <1>7, <2>2
    <3> QED
      BY <1>2, <3>1 DEF OwnSessionsOnly
  <2>3. CASE i = Len(results) + 1
    <3>1. j = k
      BY <1>2, <1>3, <1>6, <1>7, <2>3 DEF WellFormed
    <3> QED
      BY <1>6, <1>7, <1>8, <2>3, <3>1
  <2> QED
    BY <1>7, <2>1, <2>2, <2>3
<1>10. Types'
  BY <1>1, <1>2, <1>7 DEF Types, WellFormed
<1>11. Phases'
  BY <1>1, <1>2 DEF Phases, Writing
<1>12. Placed'
  <2>1. ASSUME job.command = "eval"
        PROVE  /\ probe = 1 /\ Len(results) = k - 1
               /\ \A i \in 1 .. Len(results) :
                    results[i].question = job.data[i].question
    <3>1. job.data[k].probes = 1
      BY <1>2, <1>3, <2>1 DEF WellFormed
    <3> QED
      BY <1>1, <1>2, <1>3, <2>1, <3>1 DEF Placed
  <2>2. ASSUME job.command = "eval", NEW i \in 1 .. Len(results')
        PROVE  results'[i].question = job.data[i].question
    <3>1. CASE i \in 1 .. Len(results)
      BY <1>7, <2>1, <2>2, <3>1
    <3>2. CASE i = Len(results) + 1
      BY <1>2, <1>6, <1>7, <2>1, <2>2, <3>2
    <3> QED
      BY <1>7, <2>2, <3>1, <3>2
  <2> QED
    BY <1>1, <1>2, <1>3, <1>7, <2>1, <2>2 DEF Placed, Writing
<1>13. Fed'
  BY <1>1, <1>2 DEF Fed, Feed, Held
<1> QED
  BY <1>1, <1>9, <1>10, <1>11, <1>12, <1>13, ReplayKeeps

LEMMA NextInstanceKeeps ==
  ASSUME EvalInv, NextInstance
  PROVE  EvalInv'
<1>1. /\ pc = "ingest" /\ pc' = "fresh" /\ probe > job.data[k].probes
      /\ k' = k + 1
      /\ UNCHANGED <<job, probe, memory, todo, results, labeled, tmp, file,
                     report>>
  BY DEF NextInstance
<1>2. /\ Types /\ Phases /\ Placed
      /\ job.data \in Seq(Instance) /\ k \in 1 .. Len(job.data)
      /\ WellFormed(job.command, job.data) /\ probe \in Nat
  BY <1>1 DEF EvalInv, Types, Phases, Lines
<1>3. DOMAIN job.data = 1 .. Len(job.data) /\ Len(job.data) \in Nat
  BY <1>2
<1>4. Types'
  BY <1>1, <1>2 DEF Types, WellFormed
<1>5. Phases'
  BY <1>1, <1>2 DEF Phases, Writing
<1>6. ASSUME job.command = "eval"
      PROVE  Len(results) = k
  <2>1. job.data[k].probes = 1
    BY <1>2, <1>3, <1>6 DEF WellFormed
  <2>2. probe \in {1, 2} /\ Len(results) = (k + probe) - 2
    BY <1>1, <1>2, <1>6 DEF Placed
  <2> QED
    BY <1>1, <1>2, <2>1, <2>2
<1>7. Placed'
  BY <1>1, <1>2, <1>3, <1>6 DEF Placed, Writing
<1>8. Fed' /\ OwnSessionsOnly'
  BY <1>1, OwnStays DEF EvalInv, Fed
<1> QED
  BY <1>1, <1>4, <1>5, <1>7, <1>8, ReplayKeeps

\* A reader that fails, and a process that is killed.
LEMMA EndKeeps ==
  ASSUME EvalInv, ReaderFails \/ Kill
  PROVE  EvalInv'
<1>1. Ends /\ UNCHANGED <<job, tmp, file, report>>
  BY DEF ReaderFails, Kill
<1> QED
  BY <1>1, EndsKeeps, FileStays, ReportStays DEF EvalInv, Types

----------------------------------------------------------------------------
(* What is printed.                                                        *)

\* The scores of the rows of a file.
Counts(rows) ==
  [t \in {rows[i].type : i \in DOMAIN rows} |->
     LET of == {i \in DOMAIN rows : rows[i].type = t}
     IN [n |-> Cardinality(of),
         right |-> Cardinality({i \in of : rows[i].correct})]]

LEMMA ScoredCounts ==
  ASSUME NEW rows \in Seq(Rows)
  PROVE  Scored(rows) = Counts(rows)
<1> DEFINE scored == [i \in DOMAIN rows |->
                        [type |-> rows[i].type, right |-> rows[i].correct]]
<1>1. /\ DOMAIN scored = DOMAIN rows
      /\ \A i \in DOMAIN rows : /\ scored[i].type = rows[i].type
                                /\ scored[i].right = rows[i].correct
  OBVIOUS
<1>2. Scored(rows) = Aggregate(scored)
  BY DEF Scored
<1> HIDE DEF scored
<1>3. {scored[i].type : i \in DOMAIN scored}
        = {rows[i].type : i \in DOMAIN rows}
  BY <1>1
<1>4. \A t : {i \in DOMAIN scored : scored[i].type = t}
              = {i \in DOMAIN rows : rows[i].type = t}
  BY <1>1
<1>5. \A t : {i \in {i \in DOMAIN scored : scored[i].type = t} :
                scored[i].right}
              = {i \in {i \in DOMAIN rows : rows[i].type = t} :
                   rows[i].correct}
  BY <1>1
<1> DEFINE these(t) ==
             [n |-> Cardinality({i \in DOMAIN scored : scored[i].type = t}),
              right |-> Cardinality(
                          {i \in {i \in DOMAIN scored : scored[i].type = t} :
                             scored[i].right})]
           those(t) ==
             [n |-> Cardinality({i \in DOMAIN rows : rows[i].type = t}),
              right |-> Cardinality(
                          {i \in {i \in DOMAIN rows : rows[i].type = t} :
                             rows[i].correct})]
<1>6. \A t : these(t) = those(t)
  BY <1>4, <1>5
<1>7. /\ Aggregate(scored)
           = [t \in {scored[i].type : i \in DOMAIN scored} |-> these(t)]
      /\ Counts(rows)
           = [t \in {rows[i].type : i \in DOMAIN rows} |-> those(t)]
  BY DEF Aggregate, Counts
<1> HIDE DEF these, those
<1> QED
  BY <1>2, <1>3, <1>6, <1>7

\* The judged scores of the rows of one type.
JudgedOf(rows, t) ==
  LET with(v) == {i \in DOMAIN rows :
                    rows[i].type = t /\ rows[i].judged \in v}
  IN [n |-> Cardinality(with({"yes", "no"})),
      right |-> Cardinality(with({"yes"}))]

\* A report matches the rows of a file.
Matches(printed, rows) ==
  /\ printed.scored # << >> => printed.scored = Counts(rows)
  /\ printed.judged # << >> =>
       \A t \in DOMAIN printed.judged :
         printed.judged[t] = JudgedOf(rows, t)

LEMMA MatchesIsReport ==
  /\ ReportMatchesFile = (job.command = "eval" => Matches(report, file))
  /\ ReportMatchesFile' = (job'.command = "eval" => Matches(report', file'))
BY DEF ReportMatchesFile, Matches, Counts, JudgedOf

\* The judge's labels change no score.
LEMMA SameCounts ==
  ASSUME NEW rows \in Seq(Rows), NEW others \in Seq(Rows),
         Len(rows) = Len(others),
         \A i \in 1 .. Len(rows) : SameAnswer(rows[i], others[i])
  PROVE  Counts(rows) = Counts(others)
<1>1. /\ DOMAIN rows = DOMAIN others
      /\ \A i \in DOMAIN rows : /\ rows[i].type = others[i].type
                                /\ rows[i].correct = others[i].correct
  BY DEF SameAnswer
<1>2. {rows[i].type : i \in DOMAIN rows}
        = {others[i].type : i \in DOMAIN others}
  BY <1>1
<1>3. \A t : {i \in DOMAIN rows : rows[i].type = t}
              = {i \in DOMAIN others : others[i].type = t}
  BY <1>1
<1>4. \A t : {i \in {i \in DOMAIN rows : rows[i].type = t} : rows[i].correct}
              = {i \in {i \in DOMAIN others : others[i].type = t} :
                   others[i].correct}
  BY <1>1
<1> QED
  BY <1>2, <1>3, <1>4 DEF Counts

\* The judged scores count the rows with a verdict.
LEMMA JudgedCounts ==
  ASSUME NEW rows \in Seq(Rows), NEW t \in DOMAIN Judged(rows)
  PROVE  Judged(rows)[t] = JudgedOf(rows, t)
<1> DEFINE S == {i \in DOMAIN rows : rows[i].judged # "none"}
           verdicts == Verdicts(rows, S)
           with(v) == {i \in DOMAIN rows :
                         rows[i].type = t /\ rows[i].judged \in v}
           of == {i \in DOMAIN verdicts : verdicts[i].type = t}
<1>1. /\ DOMAIN verdicts = S
      /\ \A i \in S : /\ verdicts[i].type = rows[i].type
                      /\ verdicts[i].right = (rows[i].judged = "yes")
  BY DEF Verdicts
<1>2. \A i \in DOMAIN rows : rows[i].judged \in {"none", "yes", "no"}
  <2>1. \A i \in DOMAIN rows : rows[i] \in Rows
    BY ElementOfSeq, LenProperties
  <2> QED
    BY <2>1 DEF Rows
<1>3. Judged(rows) = Aggregate(verdicts)
  BY DEF Judged
<1> HIDE DEF verdicts
<1>4. of = with({"yes", "no"})
  BY <1>1, <1>2
<1>5. {i \in of : verdicts[i].right} = with({"yes"})
  BY <1>1, <1>2
<1>6. t \in {verdicts[i].type : i \in DOMAIN verdicts}
  BY <1>3 DEF Aggregate
<1>7. Judged(rows)[t] = [n |-> Cardinality(of),
                         right |-> Cardinality({i \in of : verdicts[i].right})]
  BY <1>3, <1>6 DEF Aggregate
<1> QED
  BY <1>4, <1>5, <1>7 DEF JudgedOf

\* Printed before the end: by eval, the judged scores.
LEMMA PrintJudgedKeeps ==
  ASSUME EvalInv, PrintJudged
  PROVE  EvalInv'
<1>1. /\ pc = "print" /\ job.command = "eval"
      /\ report' = [report EXCEPT !.judged = Judged(labeled)]
      /\ Ends /\ UNCHANGED <<job, tmp, file>>
  BY DEF PrintJudged
<1>2. Types /\ file = labeled /\ labeled \in Seq(Rows)
  BY <1>1 DEF EvalInv, Types, Printed
<1>3. /\ DOMAIN report' = {"scored", "judged"}
      /\ report'.scored = report.scored /\ report'.judged = Judged(file)
  BY <1>1, <1>2 DEF Types
<1>4. ReportMatchesFile'
  <2>1. Matches(report, file)
    BY <1>1, MatchesIsReport DEF EvalInv
  <2>2. \A t \in DOMAIN Judged(file) : Judged(file)[t] = JudgedOf(file, t)
    BY <1>2, JudgedCounts
  <2>3. Matches(report', file)
    BY <1>3, <2>1, <2>2 DEF Matches
  <2> QED
    BY <1>1, <2>3, MatchesIsReport
<1> QED
  BY <1>1, <1>2, <1>3, <1>4, EndsKeeps, FileStays DEF EvalInv, Types

LEMMA PrintScoresKeeps ==
  ASSUME EvalInv, PrintDims \/ PrintBench
  PROVE  EvalInv'
<1>1. /\ job.command # "eval" /\ Ends /\ UNCHANGED <<job, tmp, file>>
      /\ \/ report' = report
         \/ report' = [report EXCEPT !.scored = Scored(results)]
  BY DEF PrintDims, PrintBench
<1>2. Types /\ DOMAIN report' = {"scored", "judged"}
  BY <1>1 DEF EvalInv, Types
<1>3. ReportMatchesFile'
  BY <1>1 DEF ReportMatchesFile
<1> QED
  BY <1>1, <1>2, <1>3, EndsKeeps, FileStays DEF EvalInv, Types

----------------------------------------------------------------------------
(* What is written.                                                        *)

LEMMA ScoreKeeps ==
  ASSUME EvalInv, Score
  PROVE  EvalInv'
<1>1. /\ pc = "score" /\ pc' = "write" /\ tmp' = << >>
      /\ UNCHANGED <<job, replaying, labeled, file, report>>
  BY DEF Score, GoesTo
<1>2. Types /\ Phases /\ labeled = << >>
  BY <1>1 DEF EvalInv, Phases
<1>3. Labeled'
  BY <1>1 DEF Labeled
<1>4. Written'
  <2>1. Given' \in Seq(Rows)
    BY <1>1, <1>2 DEF Given, Types, replaying
  <2>2. Len(Given') \in Nat /\ 1 .. 0 = {} /\ Len(<< >>) = 0
    BY <2>1
  <2> HIDE DEF Given
  <2> QED
    BY <1>1, <2>2 DEF Written
<1>5. Printed'
  BY <1>1 DEF EvalInv, Printed
<1>6. FileIsWhole' /\ ReportMatchesFile'
  BY <1>1, FileStays, ReportStays DEF EvalInv
<1> QED
  BY <1>1, <1>2, <1>3, <1>4, <1>5, <1>6, WritingKeeps DEF Writing, Types

LEMMA WriteRowKeeps ==
  ASSUME EvalInv, WriteRow
  PROVE  EvalInv'
<1>1. /\ pc \in {"write", "rewrite"} /\ pc' = pc /\ Len(tmp) < Len(Given)
      /\ tmp' = Append(tmp, Given[Len(tmp) + 1])
      /\ UNCHANGED <<job, replaying, labeled, file, report>>
  BY DEF WriteRow
<1>2. UNCHANGED results
  BY <1>1 DEF replaying
<1>3. /\ Types /\ Phases /\ Labeled /\ Written /\ Printed
      /\ tmp \in Seq(Rows) /\ Given \in Seq(Rows) /\ Given' = Given
  BY <1>1, <1>2 DEF EvalInv, Types, Given
<1> HIDE DEF Given
<1>4. /\ tmp' \in Seq(Rows) /\ Len(tmp') = Len(tmp) + 1
      /\ Len(tmp) \in Nat /\ Len(Given) \in Nat
      /\ \A i \in 1 .. Len(tmp) : tmp'[i] = tmp[i]
      /\ tmp'[Len(tmp) + 1] = Given[Len(tmp) + 1]
  BY <1>1, <1>3
<1>5. Written'
  <2>1. ASSUME NEW i \in 1 .. Len(tmp')
        PROVE  tmp'[i] = Given[i]
    <3>1. CASE i \in 1 .. Len(tmp)
      BY <1>1, <1>3, <1>4, <3>1 DEF Written
    <3>2. CASE i = Len(tmp) + 1
      BY <1>4, <3>2
    <3> QED
      BY <1>4, <3>1, <3>2
  <2> QED
    BY <1>1, <1>3, <1>4, <2>1 DEF Written
<1>6. Labeled'
  BY <1>1, <1>2, <1>3 DEF Labeled
<1>7. Printed'
  BY <1>1, <1>2, <1>3 DEF Printed
<1>8. FileIsWhole' /\ ReportMatchesFile'
  BY <1>1, FileStays, ReportStays DEF EvalInv
<1>9. labeled' # << >> => pc' \in {"judge", "rewrite", "print"}
  BY <1>1, <1>3 DEF Phases
<1> QED
  BY <1>1, <1>3, <1>4, <1>5, <1>6, <1>7, <1>8, <1>9, WritingKeeps
     DEF Writing, Types

\* The file after os.replace.
LEMMA ReplacedIsGiven ==
  ASSUME EvalInv, pc \in {"write", "rewrite"}, Len(tmp) = Len(Given)
  PROVE  /\ tmp = Given /\ tmp \in Seq(Rows) /\ Len(tmp) = Len(results)
         /\ \A i \in 1 .. Len(tmp) : SameAnswer(tmp[i], results[i])
<1>1. Given \in Seq(Rows) /\ tmp \in Seq(Rows) /\ results \in Seq(Rows)
  BY DEF EvalInv, Types, Given
<1>2. Written /\ Labeled /\ job.command = "eval"
  BY DEF EvalInv, Phases, Writing
<1>3. tmp = Given
  <2>1. \A i \in 1 .. Len(tmp) : tmp[i] = Given[i]
    BY <1>2 DEF Written
  <2> HIDE DEF Given
  <2> QED
    BY <1>1, <2>1, SeqEqual
<1>4. CASE pc = "write"
  BY <1>1, <1>3, <1>4 DEF Given, SameAnswer
<1>5. CASE pc = "rewrite"
  BY <1>1, <1>2, <1>3, <1>5 DEF Given, Labeled
<1> QED
  BY <1>1, <1>3, <1>4, <1>5

LEMMA ReplaceKeeps ==
  ASSUME EvalInv, Replace
  PROVE  EvalInv'
<1>1. /\ pc \in {"write", "rewrite"} /\ Len(tmp) = Len(Given)
      /\ file' = tmp /\ tmp' = << >> /\ UNCHANGED job
  BY DEF Replace
<1>2. /\ tmp = Given /\ tmp \in Seq(Rows) /\ Len(tmp) = Len(results)
      /\ \A i \in 1 .. Len(tmp) : SameAnswer(tmp[i], results[i])
  BY <1>1, ReplacedIsGiven
<1>3. /\ Types /\ Phases /\ Placed /\ Sliced /\ Labeled /\ Printed
      /\ results \in Seq(Rows) /\ labeled \in Seq(Rows)
      /\ job.command = "eval" /\ report.judged = << >>
  BY <1>1 DEF EvalInv, Types, Phases, Printed, Writing
<1>4. FileIsWhole'
  <2>1. PICK j \in Jobs : /\ j.command = "eval"
                          /\ job.data = Limited(j.data, j.max)
    BY <1>1, <1>3 DEF Sliced
  <2>2. /\ Len(results) = Len(job.data)
        /\ \A i \in 1 .. Len(results) :
             results[i].question = job.data[i].question
    BY <1>1, <1>3 DEF Placed, Writing
  <2>3. /\ DOMAIN file' = 1 .. Len(results)
        /\ \A i \in 1 .. Len(results) :
             file'[i].question = job.data[i].question
    BY <1>1, <1>2, <2>2 DEF SameAnswer
  <2>4. Len(file') = Len(job.data)
    BY <1>1, <1>2, <2>2
  <2> QED
    BY <2>1, <2>3, <2>4 DEF FileIsWhole
<1>5. CASE pc = "write"
  <2>1. /\ file' = results /\ labeled = << >>
    BY <1>1, <1>2, <1>3, <1>5 DEF Given, Phases
  <2>2. /\ report' = [report EXCEPT !.scored = Scored(results)]
        /\ IF job.judge THEN GoesTo("judge") ELSE Ends
    BY <1>5 DEF Replace
  <2>3. /\ DOMAIN report' = {"scored", "judged"}
        /\ report'.scored = Counts(results) /\ report'.judged = << >>
    BY <1>3, <2>2, ScoredCounts DEF Types
  <2>4. ReportMatchesFile'
    <3>1. Matches(report', results)
      BY <2>3 DEF Matches
    <3> QED
      BY <2>1, <3>1, MatchesIsReport
  <2>5. CASE job.judge
    <3>1. pc' = "judge" /\ UNCHANGED <<replaying, results, labeled>>
      BY <2>2, <2>5 DEF GoesTo, replaying
    <3>2. Labeled'
      <4>1. Len(<< >>) = 0 /\ 1 .. 0 = {} /\ Len(results) \in Nat
        BY <1>3
      <4> QED
        BY <2>1, <3>1, <4>1 DEF Labeled
    <3>3. Written'
      BY <3>1 DEF Written
    <3>4. Printed'
      BY <2>1, <2>3, <3>1 DEF Printed
    <3>5. tmp' \in Seq(Rows) /\ file' \in Seq(Rows)
      BY <1>1, <1>2
    <3> QED
      BY <1>1, <1>3, <1>4, <2>3, <2>4, <3>1, <3>2, <3>3, <3>4, <3>5,
         WritingKeeps DEF Writing
  <2>6. CASE ~job.judge
    BY <1>1, <1>2, <1>4, <2>2, <2>3, <2>4, <2>6, EndsKeeps
  <2> QED
    BY <2>5, <2>6
<1>6. CASE pc = "rewrite"
  <2>1. /\ file' = labeled /\ file = results
    BY <1>1, <1>2, <1>3, <1>6 DEF Given, Printed
  <2>2. pc' = "print" /\ UNCHANGED <<replaying, results, labeled, report>>
    BY <1>6 DEF Replace, GoesTo, replaying
  <2>3. Counts(labeled) = Counts(results)
    BY <1>1, <1>2, <1>3, <2>1, SameCounts
  <2>4. ReportMatchesFile'
    <3>1. Matches(report, results)
      BY <1>3, <2>1, MatchesIsReport DEF EvalInv
    <3>2. Matches(report, labeled)
      BY <1>3, <2>3, <3>1 DEF Matches
    <3> QED
      BY <2>1, <2>2, <3>2, MatchesIsReport
  <2>5. Labeled'
    BY <1>3, <1>6, <2>2 DEF Labeled
  <2>6. Written'
    BY <2>2 DEF Written
  <2>7. Printed'
    BY <1>3, <2>1, <2>2 DEF Printed
  <2>8. tmp' \in Seq(Rows) /\ DOMAIN report' = {"scored", "judged"}
    BY <1>1, <1>3, <2>2 DEF Types
  <2> QED
    BY <1>1, <1>3, <1>4, <2>1, <2>2, <2>4, <2>5, <2>6, <2>7, <2>8,
       WritingKeeps DEF Writing
<1> QED
  BY <1>1, <1>5, <1>6

LEMMA JudgeKeeps ==
  ASSUME EvalInv, NEW label \in {"yes", "no", "none"}, Judge(label)
  PROVE  EvalInv'
<1> DEFINE row == [results[Len(labeled) + 1] EXCEPT !.judged = label]
<1>1. /\ pc = "judge" /\ pc' = "judge" /\ Len(labeled) < Len(results)
      /\ labeled' = Append(labeled, row)
      /\ UNCHANGED <<job, replaying, results, tmp, file, report>>
  BY DEF Judge, replaying
<1>2. /\ Types /\ Labeled /\ Printed /\ job.command = "eval"
      /\ results \in Seq(Rows) /\ labeled \in Seq(Rows)
  BY <1>1 DEF EvalInv, Types, Phases, Writing
<1>3. Len(labeled) \in Nat /\ Len(results) \in Nat
  BY <1>2
<1>4. results[Len(labeled) + 1] \in Rows
  BY <1>1, <1>2, <1>3
<1>5. row \in Rows /\ SameAnswer(row, results[Len(labeled) + 1])
  BY <1>4 DEF Rows, SameAnswer
<1> HIDE DEF row
<1>6. /\ labeled' \in Seq(Rows) /\ Len(labeled') = Len(labeled) + 1
      /\ \A i \in 1 .. Len(labeled) : labeled'[i] = labeled[i]
      /\ labeled'[Len(labeled) + 1] = row
  BY <1>1, <1>2, <1>5
<1>7. Labeled'
  <2>1. ASSUME NEW i \in 1 .. Len(labeled')
        PROVE  SameAnswer(labeled'[i], results[i])
    <3>1. CASE i \in 1 .. Len(labeled)
      BY <1>1, <1>2, <1>6, <3>1 DEF Labeled
    <3>2. CASE i = Len(labeled) + 1
      BY <1>5, <1>6, <3>2
    <3> QED
      BY <1>3, <1>6, <3>1, <3>2
  <2> QED
    BY <1>1, <1>3, <1>6, <2>1 DEF Labeled, SameAnswer
<1>8. Written'
  BY <1>1 DEF Written
<1>9. Printed'
  BY <1>1, <1>2 DEF Printed
<1>10. FileIsWhole' /\ ReportMatchesFile'
  BY <1>1, FileStays, ReportStays DEF EvalInv
<1> QED
  BY <1>1, <1>2, <1>6, <1>7, <1>8, <1>9, <1>10, WritingKeeps
     DEF Writing, Types

LEMMA JudgeEndsKeeps ==
  ASSUME EvalInv, JudgeEnds
  PROVE  EvalInv'
<1>1. /\ pc = "judge" /\ pc' = "rewrite" /\ Len(labeled) = Len(results)
      /\ tmp' = << >>
      /\ UNCHANGED <<job, replaying, results, labeled, file, report>>
  BY DEF JudgeEnds, GoesTo, replaying
<1>2. /\ Types /\ Labeled /\ Printed /\ job.command = "eval"
      /\ labeled \in Seq(Rows)
  BY <1>1 DEF EvalInv, Types, Phases, Writing
<1>3. Labeled'
  BY <1>1, <1>2 DEF Labeled
<1>4. Written'
  <2>1. Given' = labeled /\ Len(labeled) \in Nat
    BY <1>1, <1>2 DEF Given
  <2>2. Len(<< >>) = 0 /\ 1 .. 0 = {}
    OBVIOUS
  <2> HIDE DEF Given
  <2> QED
    BY <1>1, <2>1, <2>2 DEF Written
<1>5. Printed'
  BY <1>1, <1>2 DEF Printed
<1>6. FileIsWhole' /\ ReportMatchesFile'
  BY <1>1, FileStays, ReportStays DEF EvalInv
<1> QED
  BY <1>1, <1>2, <1>3, <1>4, <1>5, <1>6, WritingKeeps DEF Writing, Types

----------------------------------------------------------------------------
(* The theorems.                                                           *)

LEMMA EvalInvHolds == Spec => []EvalInv
<1>1. Init => EvalInv
  <2> SUFFICES ASSUME Init
               PROVE  EvalInv
    OBVIOUS
  <2>1. /\ pc = "off" /\ job = NoJob /\ k = 1 /\ probe = 1
        /\ memory = << >> /\ todo = << >> /\ results = << >>
        /\ labeled = << >> /\ tmp = << >> /\ file = << >>
        /\ report = NoReport
    BY DEF Init
  <2>2. Types
    BY <2>1 DEF Types, Lines, WellFormed, NoJob, NoReport
  <2>3. Phases /\ Labeled /\ Written /\ Fed
    BY <2>1 DEF Phases, Labeled, Written, Fed, Writing
  <2>4. Placed /\ Sliced /\ Printed /\ ReportMatchesFile
    BY <2>1 DEF Placed, Sliced, Printed, ReportMatchesFile, NoJob
  <2>5. OwnSessionsOnly /\ FileIsWhole
    BY <2>1 DEF OwnSessionsOnly, FileIsWhole
  <2> QED
    BY <2>2, <2>3, <2>4, <2>5 DEF EvalInv
<1>2. EvalInv /\ [Next]_vars => EvalInv'
  <2> SUFFICES ASSUME EvalInv, [Next]_vars
               PROVE  EvalInv'
    OBVIOUS
  <2>1. CASE UNCHANGED vars
    BY <2>1, StutterKeeps
  <2>2. ASSUME NEW j \in Jobs, Start(j)
        PROVE  EvalInv'
    BY <2>2, StartKeeps
  <2>3. CASE Load \/ \E answers \in BOOLEAN : Preflight(answers)
    BY <2>3, LoadKeeps, PreflightKeeps
  <2>4. CASE Fresh \/ Ingest \/ NextInstance
    BY <2>4, FreshKeeps, IngestKeeps, NextInstanceKeeps
  <2>5. ASSUME NEW seen \in Seen, NEW correct \in BOOLEAN,
               Answer(seen, correct)
        PROVE  EvalInv'
    BY <2>5, AnswerKeeps
  <2>6. CASE ReaderFails \/ Kill
    BY <2>6, EndKeeps
  <2>7. CASE Score \/ WriteRow \/ Replace
    BY <2>7, ScoreKeeps, WriteRowKeeps, ReplaceKeeps
  <2>8. ASSUME NEW label \in {"yes", "no", "none"}, Judge(label)
        PROVE  EvalInv'
    BY <2>8, JudgeKeeps
  <2>9. CASE JudgeEnds \/ PrintJudged
    BY <2>9, JudgeEndsKeeps, PrintJudgedKeeps
  <2>10. CASE PrintDims \/ PrintBench
    BY <2>10, PrintScoresKeeps
  <2> QED
    BY <2>1, <2>2, <2>3, <2>4, <2>5, <2>6, <2>7, <2>8, <2>9, <2>10 DEF Next
<1> QED
  BY <1>1, <1>2, PTL DEF Spec

\* Whatever was replayed before it and however the dataset is ordered, an
\* answer comes from the sessions of its own instance, and a baseline's from
\* exactly the latest of them.
THEOREM AnswersFromOwnSessions == Spec => []OwnSessionsOnly
<1>1. EvalInv => OwnSessionsOnly
  BY DEF EvalInv
<1> QED
  BY <1>1, EvalInvHolds, PTL

\* At every moment, in whatever step a run ended, the results file is the
\* answers to all the questions of one run.
THEOREM WholeFile == Spec => []FileIsWhole
<1>1. EvalInv => FileIsWhole
  BY DEF EvalInv
<1> QED
  BY <1>1, EvalInvHolds, PTL

\* What eval printed counts what its file holds, answer by answer, and the
\* judged scores only those with a verdict.
THEOREM ReportOfTheFile == Spec => []ReportMatchesFile
<1>1. EvalInv => ReportMatchesFile
  BY DEF EvalInv
<1> QED
  BY <1>1, EvalInvHolds, PTL

=============================================================================

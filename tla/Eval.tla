------------------------------- MODULE Eval -------------------------------
(***************************************************************************)
(* The evaluation harness behind `cm eval`, `cm dims` and `cm bench`: the  *)
(* replay of each instance through a memory system of its own, the scores, *)
(* the judge, and the results file `eval` writes.  A run may be killed     *)
(* anywhere and another started on the same file.                          *)
(*                                                                         *)
(* External: the reader and judge models, which answer or fail.            *)
(*                                                                         *)
(* Abstracted: an answer is the sessions its prompt was made from and      *)
(* whether it matches; timings, texts and prompts are left out, and of     *)
(* recall (modules Recall and MemoryStore) it matters here only that it    *)
(* returns some of what was ingested.                                      *)
(***************************************************************************)
EXTENDS Naturals, Sequences, FiniteSets, SequencesExt

CONSTANTS
  Jobs,        \* the command lines considered, with the data they run on
  Runs         \* bound on the runs

\* A dataset entry or scenario: its question, the type or dimension it counts
\* for, its sessions with their times, how many dates it has, and how many
\* times it is asked.
Instance == [question : Nat, type : STRING,
             sessions : Seq([id : Nat, at : Nat]), dates : Nat, probes : Nat]

\* A command line; max is --max-instances, judge whether --judge-model is set.
Job == [command : {"eval", "dims", "bench"}, system : STRING,
        data : Seq(Instance), max : Nat, judge : BOOLEAN]

\* The window of the systems that have one.
Window == [s \in {"recency-2", "recency-10"} |-> IF s = "recency-2" THEN 2
                                                   ELSE 10]

\* Instances are told apart by their questions, the sessions of one by their
\* ids.  eval asks each question once; the workload of bench is one instance,
\* its sessions in order.
WellFormed(command, data) ==
  /\ \A i, j \in DOMAIN data : data[i].question = data[j].question => i = j
  /\ \A i \in DOMAIN data :
       LET sessions == data[i].sessions
       IN /\ \A a, b \in DOMAIN sessions :
               sessions[a].id = sessions[b].id => a = b
          /\ command = "bench" =>
               \A a, b \in DOMAIN sessions :
                 a < b => sessions[a].at <= sessions[b].at
  /\ command = "eval" => \A i \in DOMAIN data : data[i].probes = 1
  /\ command = "bench" => Len(data) = 1

ASSUME EvalAssumption ==
  /\ Runs \in Nat
  /\ Jobs \subseteq Job
  /\ \A j \in Jobs : WellFormed(j.command, j.data)

VARIABLES
  pc,          \* where the run is, "off" between runs
  job,         \* its command line, data the instances it goes through
  k, probe,    \* the instance and the question it is at
  memory,      \* what the system of that instance holds, oldest first
  todo,        \* the sessions of the instance still to be ingested
  results,     \* the answers so far, see Row
  labeled,     \* those the judge has been asked about
  tmp, file,   \* <out>.tmp and <out>, sequences of rows
  report,      \* what the run has printed
  runs         \* runs so far

vars == <<pc, job, k, probe, memory, todo, results, labeled, tmp, file, report,
          runs>>
replaying == <<k, probe, memory, todo, results>>

\* The process ends: what it held is gone.
Ends ==
  /\ pc' = "off"
  /\ k' = 1 /\ probe' = 1 /\ memory' = << >> /\ todo' = << >>
  /\ results' = << >> /\ labeled' = << >>
GoesTo(p) == pc' = p /\ UNCHANGED <<replaying, labeled>>

\* Rows are told apart by their question; judged is "none" without a label.
Row(question, type, seen, correct) ==
  [question |-> question, type |-> type, seen |-> seen, correct |-> correct,
   judged |-> "none"]

NoJob == [command |-> "none", system |-> "none", data |-> << >>, max |-> 0,
          judge |-> FALSE]
NoReport == [scored |-> << >>, judged |-> << >>]

Init ==
  /\ pc = "off" /\ job = NoJob
  /\ k = 1 /\ probe = 1 /\ memory = << >> /\ todo = << >>
  /\ results = << >> /\ labeled = << >>
  /\ tmp = << >> /\ file = << >>
  /\ report = NoReport /\ runs = 0

----------------------------------------------------------------------------
(* The commands up to the first instance.                                  *)

\* The slice for --max-instances, where 0 means all of them.
Limited(data, max) ==
  IF max = 0 \/ max > Len(data) THEN data ELSE SubSeq(data, 1, max)

\* A run begins.  eval reads its file first.
Start(j) ==
  /\ pc = "off" /\ runs < Runs
  /\ runs' = runs + 1 /\ job' = j
  /\ pc' = (IF j.command = "eval" THEN "load"
            ELSE IF j.command = "dims" THEN "ping" ELSE "fresh")
  /\ report' = NoReport
  /\ UNCHANGED <<replaying, labeled, tmp, file>>

\* load_longmemeval: an entry with more or fewer dates than sessions is an
\* error that ends the run.  The slice is taken after all of it is read.
Load ==
  /\ pc = "load"
  /\ IF \A i \in DOMAIN job.data :
          job.data[i].dates = Len(job.data[i].sessions)
     THEN /\ GoesTo("ping")
          /\ job' = [job EXCEPT !.data = Limited(job.data, job.max)]
     ELSE Ends /\ UNCHANGED job
  /\ UNCHANGED <<tmp, file, report, runs>>

\* _preflight_reader: one question to the reader before the replay begins.
Preflight(answers) ==
  /\ pc = "ping"
  /\ IF answers THEN GoesTo("fresh") ELSE Ends
  /\ UNCHANGED <<job, tmp, file, report, runs>>

----------------------------------------------------------------------------
(* The replay.                                                             *)

\* Mutant of Chronological: the sessions stay as the dataset has them.
ChronologicalNot(sessions) == sessions

\* Sessions in the order of their times, those of one time as they were: the
\* one at n has n - 1 before it.
Chronological(sessions) ==
  LET before(i) == { j \in DOMAIN sessions :
                       \/ sessions[j].at < sessions[i].at
                       \/ sessions[j].at = sessions[i].at /\ j < i }
  IN [n \in DOMAIN sessions |->
        sessions[CHOOSE i \in DOMAIN sessions :
                   Cardinality(before(i)) = n - 1]]

\* The instances are done: eval scores them, dims and bench print.
AfterReplay == IF job.command = "eval" THEN "score" ELSE "print"

\* A new system for the next instance.  The workload of bench is in order.
Fresh ==
  /\ pc = "fresh"
  /\ IF k > Len(job.data)
     THEN pc' = AfterReplay /\ UNCHANGED <<memory, todo, probe>>
     ELSE /\ pc' = "ingest"
          /\ memory' = << >>
          /\ todo' = (IF job.command = "bench" THEN job.data[k].sessions
                      ELSE Chronological(job.data[k].sessions))
          /\ probe' = 1
  /\ UNCHANGED <<job, k, results, labeled, tmp, file, report, runs>>

\* What a system has kept: its window, or all.
Kept(sessions) ==
  LET n == IF job.system \in DOMAIN Window THEN Window[job.system]
           ELSE Len(sessions)
  IN IF Len(sessions) <= n THEN sessions
     ELSE SubSeq(sessions, Len(sessions) - n + 1, Len(sessions))

\* MemorySystem.ingest of the next session.
Ingest ==
  /\ pc = "ingest" /\ todo # << >>
  /\ memory' = Kept(Append(memory, Head(todo)))
  /\ todo' = Tail(todo)
  /\ UNCHANGED <<pc, job, k, probe, results, labeled, tmp, file, report, runs>>

\* What the prompt is made of: everything kept, or what recall returns.
Seen ==
  IF job.system = "contextmemory" THEN SUBSET Range(memory)
  ELSE {Range(memory)}

\* MemorySystem.answer to the next question; after the last one the next
\* instance is due.
Answer(seen, correct) ==
  /\ pc = "ingest" /\ todo = << >> /\ probe <= job.data[k].probes
  /\ results' = Append(results, Row(job.data[k].question, job.data[k].type,
                                    seen, correct))
  /\ probe' = probe + 1
  /\ UNCHANGED <<pc, job, k, memory, todo, labeled, tmp, file, report, runs>>

NextInstance ==
  /\ pc = "ingest" /\ todo = << >> /\ probe > job.data[k].probes
  /\ pc' = "fresh" /\ k' = k + 1
  /\ UNCHANGED <<job, probe, memory, todo, results, labeled, tmp, file, report,
                 runs>>

\* The reader fails: nothing catches it, and what has been replayed is written
\* nowhere.  (A failed extraction only leaves the turns as they are, and bench
\* has a reader that cannot fail.)
ReaderFails ==
  /\ pc = "ingest" /\ todo = << >> /\ probe <= job.data[k].probes
  /\ job.command # "bench"
  /\ Ends
  /\ UNCHANGED <<job, tmp, file, report, runs>>

----------------------------------------------------------------------------
(* The scores, the judge and the results file.                             *)

\* _aggregate of (type, right) pairs: for each type how many there are and how
\* many are right.
Aggregate(scored) ==
  [t \in {scored[i].type : i \in DOMAIN scored} |->
     LET of == {i \in DOMAIN scored : scored[i].type = t}
     IN [n |-> Cardinality(of),
         right |-> Cardinality({i \in of : scored[i].right})]]

\* score_deterministic.
Scored(rows) ==
  Aggregate([i \in DOMAIN rows |->
               [type |-> rows[i].type, right |-> rows[i].correct]])

\* The pairs judge_results makes of the rows at some positions.
Verdicts(rows, S) ==
  [i \in S |-> [type |-> rows[i].type, right |-> rows[i].judged = "yes"]]

\* Mutant of Judged: an answer without a verdict counts as wrong.
JudgedAll(rows) == Aggregate(Verdicts(rows, DOMAIN rows))

\* The aggregate judge_results returns.
Judged(rows) ==
  Aggregate(Verdicts(rows, {i \in DOMAIN rows : rows[i].judged # "none"}))

\* The deterministic score, and the first of the two times the file is
\* written: the temporary file is opened empty.
Score ==
  /\ pc = "score"
  /\ GoesTo("write") /\ tmp' = << >>
  /\ UNCHANGED <<job, file, report, runs>>

\* What _write_results was given.
Given == IF pc = "write" THEN results ELSE labeled

\* Mutant of WriteRow: the rows go to the file itself.
WriteRowInPlace ==
  /\ pc \in {"write", "rewrite"} /\ Len(tmp) < Len(Given)
  /\ tmp' = Append(tmp, Given[Len(tmp) + 1])
  /\ file' = tmp'
  /\ UNCHANGED <<pc, job, replaying, labeled, report, runs>>

\* A row goes to the temporary file.
WriteRow ==
  /\ pc \in {"write", "rewrite"} /\ Len(tmp) < Len(Given)
  /\ tmp' = Append(tmp, Given[Len(tmp) + 1])
  /\ UNCHANGED <<pc, job, replaying, labeled, file, report, runs>>

\* os.replace.  The first time the deterministic score is printed and the
\* judge asked, if there is one; the second time its report is printed.
Replace ==
  /\ pc \in {"write", "rewrite"} /\ Len(tmp) = Len(Given)
  /\ file' = tmp /\ tmp' = << >>
  /\ IF pc = "write"
     THEN /\ report' = [report EXCEPT !.scored = Scored(results)]
          /\ IF job.judge THEN GoesTo("judge") ELSE Ends
     ELSE GoesTo("print") /\ UNCHANGED report
  /\ UNCHANGED <<job, runs>>

\* judge_results, one row: a call that fails leaves the row without a label.
Judge(label) ==
  /\ pc = "judge" /\ Len(labeled) < Len(results)
  /\ labeled' = Append(labeled, [results[Len(labeled) + 1] EXCEPT
                                   !.judged = label])
  /\ UNCHANGED <<pc, job, replaying, tmp, file, report, runs>>

\* All rows are judged, and the file is written a second time.
JudgeEnds ==
  /\ pc = "judge" /\ Len(labeled) = Len(results)
  /\ GoesTo("rewrite") /\ tmp' = << >>
  /\ UNCHANGED <<job, file, report, runs>>

\* The judged report.
PrintJudged ==
  /\ pc = "print" /\ job.command = "eval"
  /\ report' = [report EXCEPT !.judged = Judged(labeled)]
  /\ Ends
  /\ UNCHANGED <<job, tmp, file, runs>>

\* run_dimensions and what dims prints: the scores by dimension.
PrintDims ==
  /\ pc = "print" /\ job.command = "dims"
  /\ report' = [report EXCEPT !.scored = Scored(results)]
  /\ Ends
  /\ UNCHANGED <<job, tmp, file, runs>>

\* What bench prints; there are no latencies without a session or a question,
\* and the run ends in an error.
PrintBench ==
  /\ pc = "print" /\ job.command = "bench"
  /\ IF job.data[1].sessions = << >> \/ results = << >>
     THEN UNCHANGED report
     ELSE report' = [report EXCEPT !.scored = Scored(results)]
  /\ Ends
  /\ UNCHANGED <<job, tmp, file, runs>>

----------------------------------------------------------------------------
\* The process ends without another step.
Kill ==
  /\ pc # "off"
  /\ Ends
  /\ UNCHANGED <<job, tmp, file, report, runs>>

Next ==
  \/ \E j \in Jobs : Start(j)
  \/ Load
  \/ \E answers \in BOOLEAN : Preflight(answers)
  \/ Fresh
  \/ Ingest
  \/ \E seen \in Seen, correct \in BOOLEAN : Answer(seen, correct)
  \/ NextInstance
  \/ ReaderFails
  \/ Score
  \/ WriteRow
  \/ Replace
  \/ \E label \in {"yes", "no", "none"} : Judge(label)
  \/ JudgeEnds
  \/ PrintJudged
  \/ PrintDims
  \/ PrintBench
  \/ Kill

Spec == Init /\ [][Next]_vars

----------------------------------------------------------------------------
(* Properties.                                                             *)

\* The sessions of an instance that are to be in the prompt of a baseline: all,
\* or as many as its window has, and none of the others later than one of them.
Latest(sessions, seen) ==
  LET own == Range(sessions)
      window == Window[job.system]
  IN IF job.system \in DOMAIN Window
     THEN /\ seen \subseteq own
          /\ Cardinality(seen) = IF Len(sessions) <= window THEN Len(sessions)
                                 ELSE window
          /\ \A s \in seen : \A t \in own \ seen : t.at <= s.at
     ELSE seen = own

\* An answer is given from the sessions of its own instance only, and by the
\* baselines from exactly the latest of them, in whatever order the dataset
\* has them and whatever was replayed before: each instance has a system of
\* its own, fed in the order of time.
OwnSessionsOnly ==
  \A i \in DOMAIN results : \A j \in DOMAIN job.data :
    job.data[j].question = results[i].question =>
      IF job.system = "contextmemory"
      THEN results[i].seen \subseteq Range(job.data[j].sessions)
      ELSE Latest(job.data[j].sessions, results[i].seen)

\* The results file is at every moment the answers to all the questions of one
\* run, each once and in order: never a part of them, whether a reader failed,
\* the judge failed on some or the process was killed while it wrote.
FileIsWhole ==
  \/ file = << >>
  \/ \E j \in Jobs :
       LET asked == Limited(j.data, j.max)
       IN /\ j.command = "eval"
          /\ Len(file) = Len(asked)
          /\ \A i \in DOMAIN file : file[i].question = asked[i].question

\* What eval has printed is what its file holds: the scores are those of every
\* answer in it, and the judged scores those of the answers with a verdict,
\* where one the judge could not be asked about is neither right nor wrong.
ReportMatchesFile ==
  job.command = "eval" =>
    /\ report.scored # << >> =>
         report.scored = [t \in {file[i].type : i \in DOMAIN file} |->
           LET of == {i \in DOMAIN file : file[i].type = t}
           IN [n |-> Cardinality(of),
               right |-> Cardinality({i \in of : file[i].correct})]]
    /\ report.judged # << >> =>
         \A t \in DOMAIN report.judged :
           LET with(v) == {i \in DOMAIN file :
                             file[i].type = t /\ file[i].judged \in v}
           IN report.judged[t] = [n |-> Cardinality(with({"yes", "no"})),
                                  right |-> Cardinality(with({"yes"}))]

=============================================================================

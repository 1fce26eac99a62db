------------------------------ MODULE CmBench ------------------------------
(***************************************************************************)
(* The benchmark runner scripts/cmbench.py: environment, model, datasets,  *)
(* suites in child processes, report.  A run may be killed anywhere and    *)
(* started again; what lasts is the files.                                 *)
(*                                                                         *)
(* External: the servers the datasets come from, Ollama, pip, and the      *)
(* child processes that run a suite (they print, end their output, exit,   *)
(* or do none of it).                                                      *)
(*                                                                         *)
(* Abstracted: a dataset is whole, short or absent; of a suite's output    *)
(* only its end matters; tables, logs and hints are left out.              *)
(***************************************************************************)
EXTENDS Naturals, Sequences, FiniteSets, SequencesExt

CONSTANTS
  Requests,    \* the command lines considered, see Request
  Runs         \* bound on the runs

SuiteOrder == <<"dims", "bench", "longmemeval", "locomo", "beam">>

\* The suites that need a model, and those run once for each system.
LlmSuites == {"dims", "longmemeval", "locomo", "beam"}
PerSystem == {"dims", "bench"}
Runnable == Range(SuiteOrder) \ LlmSuites   \* without a model

\* Each of the other suites needs a dataset, named as the suite is.
Datasets == Range(SuiteOrder) \ PerSystem

LocalSystems ==
  {"contextmemory", "supermemory", "full-history", "recency-2", "recency-10"}

\* A command line.
Request == [suites : Seq(STRING), systems : Seq(STRING),
            keepGoing : BOOLEAN, noInstall : BOOLEAN, timeout : BOOLEAN,
            check : BOOLEAN]

ASSUME CmBenchAssumption ==
  /\ Requests \subseteq Request
  /\ Runs \in Nat

VARIABLES
  pc,          \* the phase the run is in, "off" between runs
  args,        \* its command line
  systems,     \* args.systems_list, which supermemory may join
  suites,      \* args.suites, what is left of the suites
  readerOk,    \* what phase_model returned
  contender,   \* whether supermemory is ready
  dropped,     \* the suites the report lists as skipped
  declined,    \* the suites dropped for want of pandas
  at,          \* the suite and the system phase_run is at, by position
  results,     \* the exit codes of the runs done, by <<suite, system>>
  child,       \* the child process, see NoChild
  exit,        \* the exit code of the last run, 3 when killed
  report,      \* what it has reported, see NoReport
  file,        \* each dataset under its name
  part,        \* each dataset under its name with .part
  unsized,     \* datasets that came without a Content-Length
  runs         \* runs so far

run == <<args, systems, suites, readerOk, dropped, declined, at, results,
         contender, report>>
disk == <<file, part, unsized>>
vars == <<pc, run, child, exit, disk, runs>>

\* A child that writes has its output open; late once its timeout has passed.
NoChild == [out |-> FALSE, alive |-> FALSE, rc |-> 0, late |-> FALSE]
NoReport == [there |-> FALSE, ok |-> FALSE, ran |-> {}, suites |-> {},
             skipped |-> {}, contender |-> FALSE]
FirstRun == [suite |-> 1, system |-> 1]
NoResults == [key \in {} |-> 0]
NoArgs == [suites |-> << >>, systems |-> << >>, keepGoing |-> FALSE,
           noInstall |-> FALSE, timeout |-> FALSE, check |-> FALSE]

Init ==
  /\ pc = "off"
  /\ args = NoArgs
  /\ systems = << >> /\ suites = << >> /\ readerOk = FALSE
  /\ dropped = << >> /\ declined = {} /\ at = FirstRun /\ results = NoResults
  /\ child = NoChild /\ exit = 0 /\ report = NoReport /\ contender = FALSE
  /\ file = [d \in Datasets |-> "absent"]
  /\ part = [d \in Datasets |-> "absent"]
  /\ unsized = {} /\ runs = 0

GoesTo(p) == pc' = p
Exits(code) == pc' = "off" /\ exit' = code

----------------------------------------------------------------------------
(* Before the suites.                                                      *)

\* The elements of list that are in keep, in their order: the one at n has
\* n - 1 of them before it.
Only(list, keep) ==
  LET kept == { i \in DOMAIN list : list[i] \in keep }
  IN [n \in 1 .. Cardinality(kept) |->
        list[CHOOSE i \in kept : Cardinality({ j \in kept : j < i }) = n - 1]]

\* order_systems.
OrderSystems(list) ==
  Only(list, {"contextmemory"})
  \o Only(list, {"supermemory"})
  \o Only(list, Range(list) \ {"contextmemory", "supermemory"})

\* parse_args: the suites in their order, the systems in theirs.
ParseArgs(r) ==
  [r EXCEPT !.suites = Only(SuiteOrder, Range(r.suites)),
            !.systems = OrderSystems(r.systems)]

\* A run begins, unless a suite is unknown or no system is named.
Start(r) ==
  /\ pc = "off" /\ runs < Runs
  /\ runs' = runs + 1
  /\ args' = ParseArgs(r)
  /\ suites' = args'.suites /\ systems' = args'.systems
  /\ readerOk' = FALSE /\ contender' = FALSE
  /\ dropped' = << >> /\ declined' = {}
  /\ at' = FirstRun /\ results' = NoResults /\ report' = NoReport
  /\ IF ~(Range(r.suites) \subseteq Range(SuiteOrder)) \/ r.systems = << >>
     THEN Exits(1) ELSE GoesTo("env") /\ exit' = 0
  /\ child' = NoChild
  /\ UNCHANGED disk

\* phase_env goes on if the package is there.  If not it asks its second
\* argument for no_install, which main has called with args.yes, a Boolean: the
\* AttributeError ends the run before anything is installed.
PhaseEnv(installed) ==
  /\ pc = "env"
  /\ IF installed THEN GoesTo("model") /\ UNCHANGED exit ELSE Exits(1)
  /\ UNCHANGED <<run, child, disk, runs>>

\* ensure_ollama_up: a server that answers, or that is started for the local
\* URL from a binary that is there and answers in time.
EnsureOllamaUp(ollama) ==
  \/ "running" \in ollama
  \/ {"local", "binary", "answers"} \subseteq ollama

\* ensure_model_pulled: a model that is there, or that may and can be pulled.
EnsureModelPulled(ollama, model) ==
  "there" \in model \/ ("binary" \in ollama /\ {"may", "can"} \subseteq model)

\* phase_model: Ollama with the model, or a hosted reader with a key; without
\* either there is no reader, without the model no run.
PhaseModel(ollama, key, model) ==
  /\ pc = "model"
  /\ LET hosted == "running" \notin ollama /\ key
         up == EnsureOllamaUp(ollama)
     IN /\ readerOk' = (hosted \/ (up /\ EnsureModelPulled(ollama, model)))
        /\ IF ~hosted /\ up /\ ~readerOk'
           THEN Exits(1) ELSE GoesTo("third") /\ UNCHANGED exit
  /\ UNCHANGED <<args, systems, suites, dropped, declined, at, results,
                 contender, report, child, disk, runs>>

\* maybe_supermemory: a contender that is ready joins the lineup; one that was
\* asked for and is not stays, to fail.  Then main refuses unknown systems.
MaybeSupermemory(ready) ==
  /\ pc = "third"
  /\ contender' = ready
  /\ systems' = IF ready /\ ~Contains(systems, "supermemory")
                THEN OrderSystems(Append(systems, "supermemory"))
                ELSE systems
  /\ IF /\ \E i \in DOMAIN suites : suites[i] \in PerSystem
        /\ \E i \in DOMAIN systems' : systems'[i] \notin LocalSystems
     THEN Exits(1)
     ELSE GoesTo("split") /\ UNCHANGED exit
  /\ UNCHANGED <<args, suites, readerOk, dropped, declined, at, results,
                 report, child, disk, runs>>

\* split_runnable_suites: without a reader the suites that need one are listed
\* as skipped; nothing left to run is an error.
SplitRunnableSuites ==
  /\ pc = "split"
  /\ suites' = IF readerOk THEN suites ELSE Only(suites, Runnable)
  /\ dropped' = IF readerOk THEN << >> ELSE Only(suites, LlmSuites)
  /\ IF suites' = << >> THEN Exits(2) ELSE GoesTo("pandas") /\ UNCHANGED exit
  /\ UNCHANGED <<args, systems, readerOk, declined, at, results,
                 contender, report, child, disk, runs>>

\* ensure_pandas: there, or installed, unless --no-install, the user or pip
\* says no.  Then beam is not run; main does not add it to the skipped suites.
EnsurePandas(there, installed) ==
  /\ pc = "pandas"
  /\ IF Contains(suites, "beam")
        /\ ~(there \/ (~args.noInstall /\ installed))
     THEN /\ suites' = Only(suites, Range(suites) \ {"beam"})
          /\ declined' = {"beam"}
     ELSE UNCHANGED <<suites, declined>>
  /\ GoesTo("data")
  /\ UNCHANGED <<args, systems, readerOk, dropped, at, results,
                 contender, report, child, exit, disk, runs>>

----------------------------------------------------------------------------
(* Datasets.                                                               *)

\* What phase_data has still to fetch, in the order of the suites.
Missing == Only(suites, { d \in Datasets : file[d] = "absent" })

\* download opens its .part file, empty ...
OpenPart ==
  /\ pc = "data" /\ Missing # << >>
  /\ part' = [part EXCEPT ![Head(Missing)] = "short"]
  /\ GoesTo("fetch")
  /\ UNCHANGED <<run, child, exit, file, unsized, runs>>

\* Mutant of Fetched: what came is taken, whatever its length.
FetchedAny(whole, sized) == TRUE

\* A file that is shorter than announced is refused.
Fetched(whole, sized) == whole \/ ~sized

\* ... reads to the end of the answer, and renames the file.  An error of the
\* connection, or a file cut short, ends the run.
Download(whole, sized) ==
  /\ pc = "fetch"
  /\ LET d == Head(Missing)
     IN IF Fetched(whole, sized)
        THEN /\ file' = [file EXCEPT ![d] = IF whole THEN "whole" ELSE "short"]
             /\ part' = [part EXCEPT ![d] = "absent"]
             /\ unsized' = IF sized THEN unsized ELSE unsized \cup {d}
             /\ GoesTo("data") /\ UNCHANGED exit
        ELSE Exits(1) /\ UNCHANGED disk
  /\ UNCHANGED <<run, child, runs>>

\* The connection fails.
DownloadFails ==
  /\ pc = "fetch"
  /\ Exits(1)
  /\ UNCHANGED <<run, child, disk, runs>>

\* phase_data is through: with --check the run ends here.
DataReady ==
  /\ pc = "data" /\ Missing = << >>
  /\ IF args.check
     THEN Exits(0)
     ELSE GoesTo("run") /\ UNCHANGED exit
  /\ UNCHANGED <<run, child, disk, runs>>

----------------------------------------------------------------------------
(* The suites.                                                             *)

\* What a suite is run for, one after the other: each system, or the lineup.
Lineup(suite) ==
  IF suite \in PerSystem THEN OrderSystems(systems) ELSE <<"lineup">>

\* The run phase_run is at, and the one after it.
Key == <<suites[at.suite], Lineup(suites[at.suite])[at.system]>>
Following ==
  IF at.system < Len(Lineup(suites[at.suite]))
  THEN [at EXCEPT !.system = @ + 1]
  ELSE [suite |-> at.suite + 1, system |-> 1]

\* _run_one starts the child ...
RunOne ==
  /\ pc = "run" /\ at.suite <= Len(suites)
  /\ child' = [out |-> TRUE, alive |-> TRUE, rc |-> 0, late |-> FALSE]
  /\ GoesTo("tee")
  /\ UNCHANGED <<run, exit, disk, runs>>

\* The child ends with a code, which ends its output.
ChildExits(rc) ==
  /\ child.alive
  /\ child' = [child EXCEPT !.alive = FALSE, !.out = FALSE, !.rc = rc]
  /\ UNCHANGED <<pc, run, exit, disk, runs>>

\* It may close its output and go on.
ChildCloses ==
  /\ child.alive /\ child.out
  /\ child' = [child EXCEPT !.out = FALSE]
  /\ UNCHANGED <<pc, run, exit, disk, runs>>

\* The time the command line allows for a suite is over.
TimePasses ==
  /\ child.alive /\ args.timeout /\ ~child.late
  /\ child' = [child EXCEPT !.late = TRUE]
  /\ UNCHANGED <<pc, run, exit, disk, runs>>

\* ... copies its output to the end, however long that takes ...
OutputEnds ==
  /\ pc = "tee" /\ ~child.out
  /\ GoesTo("wait")
  /\ UNCHANGED <<run, child, exit, disk, runs>>

\* Its result, in the place of an earlier one of a system named twice; without
\* --keep-going a failure ends the run, with no report.
Done(rc) ==
  /\ results' = [key \in DOMAIN results \cup {Key} |->
                   IF key = Key THEN rc ELSE results[key]]
  /\ at' = Following
  /\ child' = NoChild
  /\ IF rc # 0 /\ ~args.keepGoing
     THEN Exits(1) ELSE GoesTo("run") /\ UNCHANGED exit

\* ... and waits for its end, if need be for as long as a timeout says ...
WaitEnds ==
  /\ pc = "wait" /\ ~child.alive
  /\ Done(child.rc)
  /\ UNCHANGED <<args, systems, suites, readerOk, dropped, declined,
                 contender, report, disk, runs>>

\* Mutant of WaitTimesOut: the child is not reaped, its run goes on waiting.
WaitTimesOutAgain ==
  /\ pc = "wait" /\ child.alive /\ child.late
  /\ UNCHANGED vars

\* ... when it is killed.
WaitTimesOut ==
  /\ pc = "wait" /\ child.alive /\ child.late
  /\ Done(124)
  /\ UNCHANGED <<args, systems, suites, readerOk, dropped, declined,
                 contender, report, disk, runs>>

\* Mutant of RenderMarkdown: one run that passes is enough.
RenderMarkdownAny ==
  [there |-> TRUE, ok |-> \E key \in DOMAIN results : results[key] = 0,
   ran |-> { key[2] : key \in DOMAIN results },
   suites |-> { key[1] : key \in DOMAIN results },
   skipped |-> Range(dropped), contender |-> contender]

\* render_markdown: the verdict, who ran, which suites did, which were skipped
\* and whether the contender was.
RenderMarkdown ==
  [there |-> TRUE, ok |-> \A key \in DOMAIN results : results[key] = 0,
   ran |-> { key[2] : key \in DOMAIN results },
   suites |-> { key[1] : key \in DOMAIN results },
   skipped |-> Range(dropped), contender |-> contender]

\* phase_report, and the exit code of main.
PhaseReport ==
  /\ pc = "run" /\ at.suite > Len(suites)
  /\ report' = RenderMarkdown
  /\ Exits(IF report'.ok THEN 0 ELSE 1)
  /\ UNCHANGED <<args, systems, suites, readerOk, contender, dropped, declined,
                 at, results, child, disk, runs>>

\* The run is killed.
Kill ==
  /\ pc # "off"
  /\ Exits(3)
  /\ child' = NoChild
  /\ UNCHANGED <<run, disk, runs>>

----------------------------------------------------------------------------
Prepare ==
  \/ \E installed \in BOOLEAN : PhaseEnv(installed)
  \/ \E ollama \in SUBSET {"running", "local", "binary", "answers"},
        key \in BOOLEAN, model \in SUBSET {"there", "may", "can"} :
       PhaseModel(ollama, key, model)
  \/ \E ready \in BOOLEAN : MaybeSupermemory(ready)
  \/ SplitRunnableSuites
  \/ \E there, installed \in BOOLEAN : EnsurePandas(there, installed)

PhaseData ==
  \/ OpenPart
  \/ \E whole, sized \in BOOLEAN : Download(whole, sized)
  \/ DownloadFails
  \/ DataReady

PhaseRun == RunOne \/ OutputEnds \/ WaitEnds \/ WaitTimesOut \/ PhaseReport

Child == (\E rc \in {0, 1} : ChildExits(rc)) \/ ChildCloses

Next ==
  \/ \E r \in Requests : Start(r)
  \/ Prepare \/ PhaseData \/ PhaseRun
  \/ Child \/ TimePasses \/ Kill

Spec == Init /\ [][Next]_vars

\* The runner runs, time passes, and connections end one way or the other.
RunnerFair == WF_vars(Prepare \/ PhaseData \/ PhaseRun) /\ WF_vars(TimePasses)

\* Besides, every suite comes to the end of its output.
OutputFair == WF_vars(child.out /\ Child)

EndingSpec == Spec /\ RunnerFair /\ OutputFair

----------------------------------------------------------------------------
(* Properties.                                                             *)

\* A dataset that has its name is whole, through errors, kills and new runs,
\* if its server said how long it is: a suite never runs on a part of one.
DatasetsAreWhole ==
  \A d \in Datasets : file[d] = "short" => d \in unsized

\* A report that says PASS is earned: every suite asked for was run for every
\* system of the lineup and passed, but for those listed as skipped, and beam
\* when pandas is missing; and the contender shown as ready was in the lineup.
PassIsEarned ==
  pc = "off" /\ report.there =>
    /\ report.contender => Contains(systems, "supermemory")
    /\ report.ok <=> exit = 0
    /\ report.ok =>
         \A s \in Range(args.suites) \ (report.skipped \cup declined) :
           \A who \in IF s \in PerSystem THEN Range(systems) ELSE {"lineup"} :
             /\ who \in report.ran /\ s \in report.suites
             /\ <<s, who>> \in DOMAIN results /\ results[<<s, who>>] = 0

\* Every run ends, provided each suite ends its output: a suite that then goes
\* on is killed in time, if there is a timeout.
RunsEnd ==
  pc # "off" /\ args.timeout ~> pc = "off"

=============================================================================

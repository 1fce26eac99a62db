-------------------------------- MODULE Tui --------------------------------
(***************************************************************************)
(* The terminal user interface (contextmemory/tui/app.py) from the moment  *)
(* its dashboard opens (the screens before it are left out): one thread    *)
(* runs every handler to its end, and the replay of the demo runs in a     *)
(* worker thread beside it.  Both use one client.                          *)
(*                                                                         *)
(* External: textual calls a handler of the UI thread at a time, lets a    *)
(* thread hand it a call and wait (call_from_thread), and ends the program *)
(* on the exception that call_from_thread raises in the UI thread itself.  *)
(*                                                                         *)
(* Abstracted: a client is the set of facts in its store, a save is atomic *)
(* but may be refused (Journal has its steps), answers and panes are left  *)
(* out, and the cells the demo reconciles count as one fact, the turns it  *)
(* ingests as another.                                                     *)
(***************************************************************************)
EXTENDS Naturals, Sequences

CONSTANTS
  Tags,        \* container tags
  Facts,       \* what the user asks to be remembered
  Models,      \* the models pulled from Ollama
  NoModel, NoTag,
  Starts       \* bound on the runs of the program

ASSUME TuiAssumption ==
  /\ NoModel \notin Models /\ NoTag \notin Tags
  /\ Starts \in Nat

VARIABLES
  scene,       \* the screen on top, or "off" or "crashed"
  shown,       \* the models the connect screen lists
  offline,     \* _offline
  live,        \* live_model
  status,      \* ollama_state
  pending,     \* what the boot has queued: "auto" connect, "replay"
  container,   \* _container
  client,      \* _client: [tag, facts, llm]
  timeline,    \* the container whose hits the timeline cache serves
  demoRunning, \* _demo_running
  workerMode,  \* _worker_mode
  worker,      \* where the demo thread stands
  step,        \* the scripted step it is at
  answered,    \* live_answered
  failed,      \* the demo failed after the model's answer; history
  opened,      \* the client it has built and not yet installed
  journal,     \* the facts in the journal of each container
  told,        \* facts the user was told are remembered: [tag, fact, saved]
  starts       \* runs of the program so far

screen == <<scene, shown>>
session == <<offline, live, status, pending>>
memory == <<container, client, timeline, journal, told>>
demo == <<demoRunning, workerMode, worker, step, answered, failed, opened>>
vars == <<screen, session, memory, demo, starts>>

NoClient == [tag |-> NoTag, facts |-> {}, llm |-> NoModel]

Init ==
  /\ scene = "off" /\ shown = {}
  /\ offline = TRUE /\ live = NoModel /\ status = "offline" /\ pending = {}
  /\ container = NoTag /\ client = NoClient /\ timeline = NoTag
  /\ demoRunning = FALSE /\ workerMode = FALSE /\ worker = "none"
  /\ step = 1 /\ answered = FALSE /\ failed = FALSE /\ opened = NoClient
  /\ journal = [tag \in Tags |-> {}] /\ told = {}
  /\ starts = 0

Running == scene \notin {"off", "crashed"}

\* What a new client of a container holds: the journal, and no LLM.
Opened(tag) == [tag |-> tag, facts |-> journal[tag], llm |-> NoModel]

\* The property `client`: built when first asked for.
TheClient == IF client = NoClient THEN Opened(container) ELSE client

\* persist: the store of client c is saved, or the save is refused, which the
\* engine counts and tells nobody.
Persist(c, saved) ==
  journal' = IF saved THEN [journal EXCEPT ![c.tag] = c.facts] ELSE journal

\* What the client has told is in what it saves ...
ToldOn(saved) == {[m EXCEPT !.saved = @ \/ saved] : m \in told}

\* ... and what it never saved is gone with it.
ToldStays == {m \in told : m.saved}

\* A handler that writes to the log or renders the status goes on to scene s.
\* While the demo's flag is up both go through call_from_thread, which must not
\* be called from the thread of the handlers.
Says(s) == scene' = IF workerMode THEN "crashed" ELSE s

----------------------------------------------------------------------------
(* The start.                                                              *)

\* run_tui and __init__, then either the dashboard of a user who is onboarded
\* or the demo asked for on the welcome screen: _finish_boot connects a session
\* that may go online.
Start(off, tag, replay) ==
  /\ ~Running /\ starts < Starts
  /\ starts' = starts + 1
  /\ scene' = "dashboard" /\ shown' = {}
  /\ offline' = off /\ live' = NoModel /\ status' = "offline"
  /\ pending' = (IF off THEN {} ELSE {"auto"})
                \cup (IF replay THEN {"replay"} ELSE {})
  /\ container' = tag /\ client' = NoClient /\ timeline' = NoTag
  /\ demoRunning' = FALSE /\ workerMode' = FALSE /\ worker' = "none"
  /\ step' = 1 /\ answered' = FALSE /\ failed' = FALSE /\ opened' = NoClient
  /\ told' = ToldStays
  /\ UNCHANGED journal

\* _connect_live: the session is online, and the client extracts with m.
ConnectLive(m) ==
  /\ live' = m
  /\ status' = "connected"
  /\ offline' = FALSE /\ failed' = FALSE
  /\ client' = [TheClient EXCEPT !.llm = m]

\* start_managed: a server that answers, if need be after launching it.  What
\* is not launched or does not answer in time is an error.
StartManaged(running, ok) == running \/ ok

\* _auto_connect, which never awaits: the model asked for, the configured one
\* or the first; nothing is connected if there is none.
AutoConnect(running, ok, m) ==
  /\ "auto" \in pending
  /\ pending' = pending \ {"auto"}
  /\ IF ~StartManaged(running, ok)
     THEN status' = "offline" /\ UNCHANGED <<offline, live, client, failed>>
     ELSE \/ m \in Models /\ ConnectLive(m)
          \/ /\ m = NoModel
             /\ status' = IF running THEN status ELSE "managed"
             /\ UNCHANGED <<offline, live, client, failed>>
  /\ Says(scene)
  /\ UNCHANGED <<shown, container, timeline, journal, told, demoRunning,
                 workerMode, worker, step, answered, opened, starts>>

----------------------------------------------------------------------------
(* What the user does.  Handlers begin when the boot has run what it has   *)
(* queued.                                                                 *)

UserAt(s) == scene = s /\ pending = {}

\* _remember: ingest into the client's store and persist, the timeline anew,
\* and the line in the log that tells the user, saved or not.
Remember(f, saved) ==
  /\ UserAt("dashboard")
  /\ client' = [TheClient EXCEPT !.facts = @ \cup {f}]
  /\ Persist(client', saved)
  /\ timeline' = client'.tag
  /\ Says("dashboard")
  /\ told' = ToldOn(saved) \cup
       IF workerMode THEN {}
       ELSE {[tag |-> container, fact |-> f, saved |-> saved]}
  /\ UNCHANGED <<shown, session, container, demo, starts>>

\* The ingest raises, before or after the store has the fact: the log says so.
RememberFails(f) ==
  /\ UserAt("dashboard")
  /\ \E some \in SUBSET {f} :
       client' = [TheClient EXCEPT !.facts = @ \cup some]
  /\ Says("dashboard")
  /\ UNCHANGED <<shown, session, container, timeline, journal, told, demo,
                 starts>>

\* on_input_submitted with a question.  ask: recall, the timeline anew, the
\* answer to the log; or the error of the recall.  ask_live: the model's
\* answer, or what the memory says when the model fails.
Ask(recalled) ==
  /\ UserAt("dashboard")
  /\ client' = TheClient
  /\ timeline' = IF ~recalled \/ (live # NoModel /\ ~offline) THEN timeline
                 ELSE client'.tag
  /\ Says("dashboard")
  /\ UNCHANGED <<shown, session, container, journal, told, demo, starts>>

\* timeline_snapshot of the pane, after the time to live of the cache.
ExpireTimeline ==
  /\ Running /\ timeline # NoTag
  /\ timeline' = NoTag
  /\ UNCHANGED <<screen, session, container, client, journal, told, demo,
                 starts>>

RenderTimeline ==
  /\ UserAt("dashboard") /\ timeline = NoTag
  /\ client' = TheClient
  /\ timeline' = client'.tag
  /\ UNCHANGED <<screen, session, container, journal, told, demo, starts>>

OpenSwitch ==
  /\ UserAt("dashboard")
  /\ scene' = "switch"
  /\ UNCHANGED <<shown, session, memory, demo, starts>>

\* Mutant of SwitchContainer: the timeline cache is kept.
SwitchContainerCached(tag) ==
  /\ UserAt("switch")
  /\ IF tag = container
     THEN /\ scene' = "dashboard"
          /\ UNCHANGED <<container, client, timeline, told>>
     ELSE /\ container' = tag
          /\ client' = NoClient /\ told' = ToldStays
          /\ UNCHANGED timeline
          /\ Says("dashboard")
  /\ UNCHANGED <<shown, session, journal, demo, starts>>

\* Mutant of SwitchContainer: the client is kept.
SwitchContainerOnly(tag) ==
  /\ UserAt("switch")
  /\ IF tag = container
     THEN /\ scene' = "dashboard"
          /\ UNCHANGED <<container, client, timeline, told>>
     ELSE /\ container' = tag
          /\ UNCHANGED client /\ told' = ToldStays
          /\ timeline' = NoTag
          /\ Says("dashboard")
  /\ UNCHANGED <<shown, session, journal, demo, starts>>

\* action_switch_container: another container has another client and timeline.
SwitchContainer(tag) ==
  /\ UserAt("switch")
  /\ IF tag = container
     THEN /\ scene' = "dashboard"
          /\ UNCHANGED <<container, client, timeline, told>>
     ELSE /\ container' = tag
          /\ client' = NoClient /\ told' = ToldStays
          /\ timeline' = NoTag
          /\ Says("dashboard")
  /\ UNCHANGED <<shown, session, journal, demo, starts>>

OpenOllama ==
  /\ UserAt("dashboard")
  /\ scene' = "ollama" /\ shown' = {}
  /\ UNCHANGED <<session, memory, demo, starts>>

\* The worker of the screen lists the models of a server that runs ...
ScanModels(found) ==
  /\ scene = "ollama"
  /\ shown' = found
  /\ UNCHANGED <<scene, session, memory, demo, starts>>

\* ... or of one it launches; a launch that fails leaves the list.
LaunchOllama(ok, found) ==
  /\ scene = "ollama"
  /\ shown' = IF StartManaged(FALSE, ok) THEN found ELSE shown
  /\ UNCHANGED <<scene, session, memory, demo, starts>>

\* action_connect_ollama, with the model selected.
SelectModel(m) ==
  /\ UserAt("ollama") /\ m \in shown
  /\ ConnectLive(m)
  /\ Says("dashboard")
  /\ UNCHANGED <<shown, pending, container, timeline, journal, told,
                 demoRunning, workerMode, worker, step, answered, opened,
                 starts>>

Back ==
  /\ scene \in {"switch", "ollama"}
  /\ scene' = "dashboard"
  /\ UNCHANGED <<shown, session, memory, demo, starts>>

Quit ==
  /\ UserAt("dashboard")
  /\ scene' = "off"
  /\ UNCHANGED <<shown, session, memory, demo, starts>>

----------------------------------------------------------------------------
(* The demo.                                                               *)

\* replay_demo: on the key, on the button or queued by the welcome screen.  A
\* demo that runs is not started again, which is said in the log.
ReplayDemo ==
  /\ scene = "dashboard" /\ "auto" \notin pending
  /\ pending' = {}
  /\ Says("dashboard")
  /\ demoRunning' = TRUE
  /\ worker' = IF demoRunning THEN worker ELSE "queued"
  /\ UNCHANGED <<shown, offline, live, status, memory, workerMode, step,
                 answered, failed, opened, starts>>

\* What build_scenario scripts: turns to ingest, questions, and the update.
Scenario == <<"turns", "ask", "ask", "update", "ask", "ask", "ask", "ask">>
Cells == "cells"
Turns == "turns"
DemoFacts == {Cells, Turns}

WorkerAt(pc) == Running /\ worker = pc

\* _run_demo raises its flag, for the log and the status of every thread.
RaiseFlag ==
  /\ WorkerAt("queued")
  /\ workerMode' = TRUE
  /\ worker' = "open"
  /\ UNCHANGED <<screen, session, memory, demoRunning, step, answered, failed,
                 opened, starts>>

\* _replay_demo_steps: a client of the container, from its journal ...
OpenClient ==
  /\ WorkerAt("open")
  /\ opened' = Opened(container)
  /\ worker' = "install"
  /\ UNCHANGED <<screen, session, memory, demoRunning, workerMode, step,
                 answered, failed, starts>>

\* ... replaces that of the session, with the session's model, and with it what
\* that client could not save ...
InstallClient ==
  /\ WorkerAt("install")
  /\ client' = [opened EXCEPT !.llm = live]
  /\ opened' = NoClient
  /\ answered' = FALSE
  /\ told' = ToldStays
  /\ worker' = "seed"
  /\ UNCHANGED <<screen, session, container, timeline, journal, demoRunning,
                 workerMode, step, failed, starts>>

\* ... and has the profile reconciled, unsaved.
SeedCells ==
  /\ WorkerAt("seed")
  /\ client' = [client EXCEPT !.facts = @ \cup {Cells}]
  /\ worker' = "steps" /\ step' = 1
  /\ UNCHANGED <<screen, session, container, timeline, journal, told,
                 demoRunning, workerMode, answered, failed, opened, starts>>

\* A session of the script is ingested, and so the store is persisted.
DemoSession ==
  /\ client' = [client EXCEPT !.facts = @ \cup {Turns}]
  /\ \E saved \in BOOLEAN : Persist(client', saved) /\ told' = ToldOn(saved)

\* One scripted step: with a model there is no session, and after one answer of
\* the model the rest of the questions are answered offline.  A recall that
\* fails leaves the timeline.
DemoStep ==
  /\ WorkerAt("steps") /\ step <= Len(Scenario)
  /\ \/ /\ Scenario[step] = "turns" /\ live = NoModel
        /\ DemoSession
        /\ UNCHANGED <<offline, timeline, answered>>
     \/ /\ Scenario[step] = "turns" /\ live # NoModel
        /\ UNCHANGED <<offline, timeline, answered, client, journal, told>>
     \/ /\ Scenario[step] = "update"
        /\ client' = [client EXCEPT !.facts = @ \cup {Cells}]
        /\ UNCHANGED <<offline, timeline, answered, journal, told>>
     \/ /\ Scenario[step] = "ask"
        /\ timeline' \in {timeline, client.tag}
        /\ offline' = (offline \/ (live # NoModel /\ ~answered))
        /\ answered' = (answered \/ live # NoModel)
        /\ UNCHANGED <<client, journal, told>>
  /\ step' = step + 1
  /\ UNCHANGED <<screen, live, status, pending, container, demoRunning,
                 workerMode, worker, failed, opened, starts>>

\* What the demo does raises, and the steps that are left are not done: a
\* session the demo has put offline stays so.
DemoFails ==
  /\ \E pc \in {"open", "seed", "steps"} : WorkerAt(pc)
  /\ workerMode' = FALSE
  /\ worker' = "finish"
  /\ failed' = (failed \/ answered)
  /\ step' = 1 /\ answered' = FALSE
  /\ UNCHANGED <<screen, session, memory, demoRunning, opened, starts>>

\* Mutant of EndSteps: the session is left as the questions left it.
EndStepsOffline ==
  /\ WorkerAt("steps") /\ step > Len(Scenario)
  /\ workerMode' = FALSE
  /\ worker' = "finish" /\ failed' = FALSE
  /\ step' = 1 /\ answered' = FALSE
  /\ UNCHANGED <<screen, session, memory, demoRunning, opened, starts>>

\* The session is online again; the flag is lowered.
EndSteps ==
  /\ WorkerAt("steps") /\ step > Len(Scenario)
  /\ offline' = IF live # NoModel THEN FALSE ELSE offline
  /\ workerMode' = FALSE
  /\ worker' = "finish" /\ failed' = FALSE
  /\ step' = 1 /\ answered' = FALSE
  /\ UNCHANGED <<screen, live, status, pending, memory, demoRunning, opened,
                 starts>>

\* Mutant of FinishDemo: the demo counts as running for ever.
FinishDemoRunning ==
  /\ WorkerAt("finish")
  /\ client' = TheClient
  /\ timeline' = client'.tag
  /\ worker' = "none"
  /\ UNCHANGED <<screen, session, container, journal, told, demoRunning,
                 workerMode, step, answered, failed, opened, starts>>

\* _finish_demo, handed to the UI thread.
FinishDemo ==
  /\ WorkerAt("finish")
  /\ demoRunning' = FALSE
  /\ client' = TheClient
  /\ timeline' = client'.tag
  /\ worker' = "none"
  /\ UNCHANGED <<screen, session, container, journal, told, workerMode, step,
                 answered, failed, opened, starts>>

----------------------------------------------------------------------------
Boot ==
  \/ \E running, ok \in BOOLEAN, m \in Models \cup {NoModel} :
       AutoConnect(running, ok, m)
  \/ "replay" \in pending /\ ReplayDemo

User ==
  \/ \E off, replay \in BOOLEAN, tag \in Tags : Start(off, tag, replay)
  \/ \E f \in Facts, saved \in BOOLEAN : Remember(f, saved)
  \/ \E f \in Facts : RememberFails(f)
  \/ \E recalled \in BOOLEAN : Ask(recalled)
  \/ RenderTimeline
  \/ OpenSwitch \/ \E tag \in Tags : SwitchContainer(tag)
  \/ OpenOllama \/ \E found \in SUBSET Models : ScanModels(found)
  \/ \E ok \in BOOLEAN, found \in SUBSET Models : LaunchOllama(ok, found)
  \/ \E m \in Models : SelectModel(m)
  \/ ReplayDemo
  \/ Back \/ Quit

Demo ==
  \/ RaiseFlag \/ OpenClient \/ InstallClient \/ SeedCells
  \/ DemoStep \/ EndSteps \/ DemoFails \/ FinishDemo

Next == Boot \/ User \/ ExpireTimeline \/ Demo

Spec == Init /\ [][Next]_vars

\* The handlers queued at boot and the demo's thread run.
FairSpec == Spec /\ WF_vars(Boot) /\ WF_vars(Demo)

----------------------------------------------------------------------------
(* Properties.                                                             *)

\* What the user was told is remembered is in the client of a session on the
\* container the screen showed then, and once any save after it has succeeded
\* it is in the journal for good - through demos that replace the client from
\* their thread, changes of the container and new starts.  (A fact whose save
\* was refused is told as remembered too; it ends with its client.)
ToldIsRemembered ==
  \A m \in told :
    /\ m.saved => m.fact \in journal[m.tag]
    /\ Running /\ m.tag = container => m.fact \in TheClient.facts

\* Between demos a session with a model says it is connected, and it is online
\* whatever the demos did to it in between, unless one failed after it had put
\* the session offline; and then only until a demo runs to its end or the user
\* connects again.
LiveIsOnline ==
  Running /\ ~demoRunning /\ live # NoModel =>
    status = "connected" /\ (~failed => ~offline)

\* The timeline never shows what another container remembers.
TimelineIsOfContainer ==
  Running /\ timeline # NoTag => timeline = container

\* A demo comes to its end, failing or not, and the next can be started.
DemoEnds == demoRunning /\ Running ~> ~demoRunning \/ ~Running

=============================================================================

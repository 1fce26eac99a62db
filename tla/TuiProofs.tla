----------------------------- MODULE TuiProofs -----------------------------
(***************************************************************************)
(* Proofs about Tui: what the user was told is remembered is remembered,   *)
(* a session with a model is online between demos, and the timeline is     *)
(* that of the container on the screen - for any containers, facts, models *)
(* and number of starts, and however the handlers and the thread of the    *)
(* demo interleave.                                                        *)
(*                                                                         *)
(* All three rest on the same argument.  While the demo's thread has its   *)
(* flag up, a handler that would change the container, the model or the    *)
(* journal ends the program in the same step, so that what the thread has  *)
(* read of them when it builds its client is still so when it installs it. *)
(***************************************************************************)
EXTENDS Tui, TLAPS

Remembered == Facts \cup DemoFacts

Client ==
  [tag : Tags \cup {NoTag}, facts : SUBSET Remembered,
   llm : Models \cup {NoModel}]

Told == [tag : Tags, fact : Remembered, saved : BOOLEAN]

\* Where the demo's thread stands while its flag is up.
Flagged == {"open", "install", "seed", "steps"}

Types ==
  /\ offline \in BOOLEAN /\ live \in Models \cup {NoModel}
  /\ container \in Tags \cup {NoTag}
  /\ client \in Client /\ opened \in Client
  /\ journal \in [Tags -> SUBSET Remembered]
  /\ told \in SUBSET Told
  /\ demoRunning \in BOOLEAN /\ workerMode \in BOOLEAN
  /\ answered \in BOOLEAN /\ failed \in BOOLEAN

\* The client is that of the container and lacks nothing of its journal, nor of
\* what it was told and could not save; so is the one the demo is about to
\* install, and the timeline.
MemoryInv ==
  /\ \A m \in told : m.saved => m.fact \in journal[m.tag]
  /\ Running =>
       /\ container \in Tags
       /\ client # NoClient =>
            client.tag = container /\ journal[container] \subseteq client.facts
       /\ \A m \in told :
            ~m.saved => /\ client # NoClient
                        /\ m.tag = container /\ m.fact \in client.facts
       /\ worker = "install" => opened = Opened(container)
       /\ timeline # NoTag => timeline = container

\* The flags of the demo tell where its thread stands; from the moment it has
\* installed its client there is one.
DemoInv ==
  Running =>
    /\ workerMode <=> worker \in Flagged
    /\ demoRunning <=> worker # "none"
    /\ worker \in {"seed", "steps"} => client # NoClient

\* With a model the session is connected, and offline only while the thread
\* answers questions or since that failed; the boot connects before there is a
\* model or a demo, and a program that has ended has nothing queued.
SessionInv ==
  /\ pending # {} => Running
  /\ Running =>
       /\ live # NoModel => status = "connected"
       /\ live # NoModel /\ offline /\ ~failed =>
            worker = "steps" /\ answered
       /\ "auto" \in pending => live = NoModel /\ worker = "none"

TuiInv == Types /\ MemoryInv /\ DemoInv /\ SessionInv

----------------------------------------------------------------------------
(* The operators.                                                          *)

\* A client that is built from a journal is a client.
LEMMA OpenedIsClient ==
  ASSUME Types, NEW tag \in Tags
  PROVE  /\ Opened(tag) \in Client /\ Opened(tag) # NoClient
         /\ Opened(tag).tag = tag /\ Opened(tag).facts = journal[tag]
 BY TuiAssumption DEF Types, Opened, Client, NoClient

\* The client of a session is one of its container and holds its journal.
LEMMA TheClientFits ==
  ASSUME TuiInv, Running
  PROVE  /\ TheClient \in Client /\ TheClient # NoClient
         /\ TheClient.tag = container /\ container \in Tags
         /\ journal[container] \subseteq TheClient.facts
<1>1. container \in Tags
  BY DEF TuiInv, MemoryInv
<1>2. CASE client = NoClient
  BY <1>1, <1>2, OpenedIsClient DEF TuiInv, TheClient
<1>3. CASE client # NoClient
  BY <1>1, <1>3 DEF TuiInv, Types, MemoryInv, TheClient
<1> QED
  BY <1>2, <1>3

\* A client keeps its container when its model or its facts change.
LEMMA ClientChanges ==
  ASSUME NEW c \in Client
  PROVE  /\ \A m \in Models \cup {NoModel} :
              /\ [c EXCEPT !.llm = m] \in Client
              /\ [c EXCEPT !.llm = m].tag = c.tag
              /\ [c EXCEPT !.llm = m].facts = c.facts
         /\ \A f \in Remembered :
              /\ [c EXCEPT !.facts = @ \cup {f}] \in Client
              /\ [c EXCEPT !.facts = @ \cup {f}].tag = c.tag
              /\ [c EXCEPT !.facts = @ \cup {f}].facts = c.facts \cup {f}
 BY DEF Client

\* What was told stays what it was, as saved as the client is.
LEMMA ToldOnIs ==
  ASSUME Types, NEW saved \in BOOLEAN, NEW m \in ToldOn(saved)
  PROVE  /\ m \in Told
         /\ \E n \in told : /\ m.tag = n.tag /\ m.fact = n.fact
                           /\ m.saved = (n.saved \/ saved)
<1>1. PICK n \in told : m = [n EXCEPT !.saved = @ \/ saved]
  BY DEF ToldOn
<1>2. n \in Told
  BY DEF Types
<1> QED
  BY <1>1, <1>2 DEF Told

LEMMA ToldStaysIs == ToldStays \subseteq told /\ \A m \in ToldStays : m.saved
 BY DEF ToldStays

\* A client that holds what the session's does may replace it, whether the save
\* of its store succeeds or not.
LEMMA PersistKeeps ==
  ASSUME TuiInv, Running, NEW c \in Client, NEW saved \in BOOLEAN,
         c.tag = container, TheClient.facts \subseteq c.facts,
         Persist(c, saved)
  PROVE  /\ journal' \in [Tags -> SUBSET Remembered]
         /\ journal'[container] \subseteq c.facts
         /\ saved => journal'[container] = c.facts
         /\ \A tag \in Tags : journal[tag] \subseteq journal'[tag]
         /\ \A m \in ToldOn(saved) :
              /\ m \in Told
              /\ m.saved => m.fact \in journal'[m.tag]
              /\ ~m.saved => m.tag = container /\ m.fact \in c.facts
<1>1. /\ journal \in [Tags -> SUBSET Remembered] /\ container \in Tags
      /\ journal[container] \subseteq c.facts
  BY TheClientFits DEF TuiInv, Types
<1>2. c.facts \in SUBSET Remembered
  BY DEF Client
<1>3. /\ journal' \in [Tags -> SUBSET Remembered]
      /\ journal'[container] \subseteq c.facts
      /\ saved => journal'[container] = c.facts
      /\ \A tag \in Tags : journal[tag] \subseteq journal'[tag]
  <2>1. CASE saved
    <3>1. journal' = [journal EXCEPT ![container] = c.facts]
      BY <2>1 DEF Persist
    <3> QED
      BY <1>1, <1>2, <3>1
  <2>2. CASE ~saved
    BY <1>1, <2>2 DEF Persist
  <2> QED
    BY <2>1, <2>2
<1>4. ASSUME NEW m \in ToldOn(saved)
      PROVE  /\ m \in Told
             /\ m.saved => m.fact \in journal'[m.tag]
             /\ ~m.saved => m.tag = container /\ m.fact \in c.facts
  <2>1. m \in Told
    BY ToldOnIs DEF TuiInv
  <2>2. PICK n \in told : /\ m.tag = n.tag /\ m.fact = n.fact
                          /\ m.saved = (n.saved \/ saved)
    BY ToldOnIs DEF TuiInv
  <2>3. n.tag \in Tags
    BY DEF TuiInv, Types, Told
  <2>4. CASE n.saved
    BY <1>3, <2>1, <2>2, <2>3, <2>4 DEF TuiInv, MemoryInv
  <2>5. CASE ~n.saved
    <3>1. n.tag = container /\ n.fact \in c.facts
      BY <2>5 DEF TuiInv, MemoryInv, TheClient
    <3> QED
      BY <1>3, <2>1, <2>2, <2>5, <3>1
  <2> QED
    BY <2>4, <2>5
<1> QED
  BY <1>3, <1>4

LEMMA NoClientIsClient == NoClient \in Client /\ NoClient.tag \notin Tags
 BY TuiAssumption DEF NoClient, Client

----------------------------------------------------------------------------
(* Each action keeps the invariant.                                        *)

LEMMA InitInv == Init => TuiInv
 BY NoClientIsClient, TuiAssumption
 DEF Init, TuiInv, Types, MemoryInv, DemoInv, SessionInv, Running

LEMMA StutterInv == TuiInv /\ UNCHANGED vars => TuiInv'
<1> SUFFICES ASSUME TuiInv, UNCHANGED vars
    PROVE  TuiInv'
  OBVIOUS
<1> USE DEF vars, screen, session, memory, demo
<1>1. Types'
  BY DEF TuiInv, Types
<1>2. MemoryInv'
  BY DEF TuiInv, MemoryInv, Running, Opened
<1>3. DemoInv' /\ SessionInv'
  BY DEF TuiInv, DemoInv, SessionInv, Running
<1> QED
  BY <1>1, <1>2, <1>3 DEF TuiInv

\* Going from screen to screen, and the lists of models on them.
LEMMA ScreensInv ==
  ASSUME TuiInv, UNCHANGED <<session, memory, demo>>, Running' => Running,
         pending = {} \/ Running'
  PROVE  TuiInv'
<1> USE DEF session, memory, demo
<1>1. Types'
  BY DEF TuiInv, Types
<1>2. MemoryInv'
  BY DEF TuiInv, MemoryInv, Opened
<1>3. DemoInv' /\ SessionInv'
  BY DEF TuiInv, DemoInv, SessionInv
<1> QED
  BY <1>1, <1>2, <1>3 DEF TuiInv

LEMMA StartInv ==
  ASSUME TuiInv, NEW off \in BOOLEAN, NEW replay \in BOOLEAN,
         NEW tag \in Tags, Start(off, tag, replay)
  PROVE  TuiInv'
<1>1. Types'
  BY NoClientIsClient, ToldStaysIs DEF TuiInv, Types, Start
<1>2. MemoryInv'
  BY ToldStaysIs DEF TuiInv, MemoryInv, Start
<1>3. DemoInv' /\ SessionInv'
  BY DEF DemoInv, SessionInv, Start, Running, Flagged
<1> QED
  BY <1>1, <1>2, <1>3 DEF TuiInv

\* A client that holds what the session's did takes its place.
LEMMA ConnectedInv ==
  ASSUME TuiInv, Running, client' \in Client, client'.tag = container,
         client'.facts = TheClient.facts,
         UNCHANGED <<container, timeline, journal, told, worker, opened>>
  PROVE  MemoryInv'
<1>1. /\ client' # NoClient /\ container \in Tags
      /\ journal[container] \subseteq client'.facts
  BY TheClientFits, NoClientIsClient
<1>2. \A m \in told : ~m.saved => m.tag = container /\ m.fact \in client'.facts
  BY DEF TuiInv, MemoryInv, TheClient
<1> QED
  BY <1>1, <1>2 DEF TuiInv, MemoryInv, Opened

LEMMA AutoConnectInv ==
  ASSUME TuiInv, NEW running, NEW ok, NEW m \in Models \cup {NoModel},
         AutoConnect(running, ok, m)
  PROVE  TuiInv'
<1>1. "auto" \in pending /\ pending' = pending \ {"auto"}
  BY DEF AutoConnect
<1>2. UNCHANGED <<container, timeline, journal, told, demoRunning, workerMode,
                  worker, step, answered, opened>>
  BY DEF AutoConnect
<1>3. Running' => Running
  BY DEF AutoConnect, Says, Running
<1>0. Running /\ (pending' # {} => Running')
  <2>1. Running /\ ~workerMode
    BY <1>1, TuiAssumption DEF TuiInv, SessionInv, DemoInv, Flagged
  <2> QED
    BY <2>1 DEF AutoConnect, Says, Running
<1>4. CASE UNCHANGED <<offline, live, client, failed>>
  <2>1. Types'
    BY <1>2, <1>4 DEF TuiInv, Types
  <2>2. MemoryInv'
    BY <1>2, <1>3, <1>4 DEF TuiInv, MemoryInv, Opened
  <2>3. DemoInv' /\ SessionInv'
    BY <1>1, <1>2, <1>3, <1>4, <1>0 DEF TuiInv, DemoInv, SessionInv
  <2> QED
    BY <2>1, <2>2, <2>3 DEF TuiInv
<1>5. CASE ConnectLive(m) /\ m \in Models
  <2>1. /\ live' = m /\ status' = "connected" /\ offline' = FALSE
        /\ client' = [TheClient EXCEPT !.llm = m] /\ failed' = FALSE
    BY <1>5 DEF ConnectLive
  <2>2. /\ client' \in Client /\ client'.tag = container
        /\ client'.facts = TheClient.facts
        /\ journal[container] \subseteq client'.facts /\ container \in Tags
    BY <1>5, <1>0, <2>1, TheClientFits, ClientChanges
  <2>3. Types'
    BY <1>2, <1>5, <2>1, <2>2 DEF TuiInv, Types
  <2>4. MemoryInv'
    BY <1>2, <1>0, <2>2, ConnectedInv
  <2>5. DemoInv'
    BY <1>2, <1>5, <1>0, <2>2, NoClientIsClient DEF TuiInv, DemoInv
  <2>6. SessionInv'
    BY <1>1, <1>0, <2>1 DEF TuiInv, SessionInv
  <2> QED
    BY <2>3, <2>4, <2>5, <2>6 DEF TuiInv
<1> QED
  BY <1>4, <1>5 DEF AutoConnect

LEMMA RememberInv ==
  ASSUME TuiInv, NEW f \in Facts, NEW saved \in BOOLEAN, Remember(f, saved)
  PROVE  TuiInv'
<1>1. Running /\ pending = {}
  BY DEF Remember, UserAt, Running
<1>2. /\ client' \in Client /\ client'.tag = container /\ container \in Tags
      /\ client' # NoClient
      /\ client'.facts = TheClient.facts \cup {f}
  <2>1. client' = [TheClient EXCEPT !.facts = @ \cup {f}]
    BY DEF Remember
  <2>2. /\ TheClient \in Client /\ TheClient.tag = container
        /\ container \in Tags /\ f \in Remembered
    BY <1>1, TheClientFits DEF Remembered
  <2>3. /\ client' \in Client /\ client'.tag = container
        /\ client'.facts = TheClient.facts \cup {f}
    BY <2>1, <2>2, ClientChanges
  <2> QED
    BY <2>2, <2>3, NoClientIsClient
<1>3. /\ journal' \in [Tags -> SUBSET Remembered]
      /\ journal'[container] \subseteq client'.facts
      /\ saved => journal'[container] = client'.facts
      /\ \A m \in ToldOn(saved) :
           /\ m \in Told
           /\ m.saved => m.fact \in journal'[m.tag]
           /\ ~m.saved => m.tag = container /\ m.fact \in client'.facts
  <2>1. Persist(client', saved)
    BY DEF Remember
  <2>2. \A c \in Client :
          /\ c.tag = container /\ TheClient.facts \subseteq c.facts
          /\ Persist(c, saved)
          => /\ journal' \in [Tags -> SUBSET Remembered]
             /\ journal'[container] \subseteq c.facts
             /\ saved => journal'[container] = c.facts
             /\ \A m \in ToldOn(saved) :
                  /\ m \in Told
                  /\ m.saved => m.fact \in journal'[m.tag]
                  /\ ~m.saved => m.tag = container /\ m.fact \in c.facts
    BY <1>1, PersistKeeps
  <2> QED
    BY <1>2, <2>1, <2>2
<1>4. UNCHANGED <<session, container, demo>> /\ timeline' = container
  BY <1>2 DEF Remember
<1>5. Running' => ~workerMode
  BY DEF Remember, Says, Running
<1>6. \A m \in told' : m \in ToldOn(saved)
                      \/ m = [tag |-> container, fact |-> f, saved |-> saved]
  BY DEF Remember
<1>7. \A m \in told' :
        /\ m \in Told
        /\ m.saved => m.fact \in journal'[m.tag]
        /\ ~m.saved => m.tag = container /\ m.fact \in client'.facts
  <2>1. f \in Remembered /\ f \in client'.facts
    BY <1>2 DEF Remembered
  <2>2. SUFFICES ASSUME NEW m \in told',
                        m = [tag |-> container, fact |-> f, saved |-> saved]
        PROVE  /\ m \in Told
               /\ m.saved => m.fact \in journal'[m.tag]
               /\ ~m.saved => m.tag = container /\ m.fact \in client'.facts
    BY <1>3, <1>6
  <2> QED
    BY <1>2, <1>3, <2>1, <2>2 DEF Told
<1>8. Types'
  BY <1>2, <1>3, <1>4, <1>7 DEF TuiInv, Types, session, demo
<1>9. MemoryInv'
  <2>1. Running' => worker' # "install"
    BY <1>1, <1>4, <1>5 DEF TuiInv, DemoInv, Flagged, demo
  <2> QED
    BY <1>2, <1>3, <1>4, <1>7, <2>1 DEF MemoryInv
<1>10. DemoInv' /\ SessionInv'
  BY <1>1, <1>2, <1>4 DEF TuiInv, DemoInv, SessionInv, session, demo
<1> QED
  BY <1>8, <1>9, <1>10 DEF TuiInv

LEMMA RememberFailsInv ==
  ASSUME TuiInv, NEW f \in Facts, RememberFails(f)
  PROVE  TuiInv'
<1>1. /\ Running /\ pending = {}
      /\ UNCHANGED <<session, container, timeline, journal, told, demo>>
  BY DEF RememberFails, UserAt, Running
<1>2. /\ client' \in Client /\ client' # NoClient /\ client'.tag = container
      /\ TheClient.facts \subseteq client'.facts
  <2>1. PICK some \in SUBSET {f} :
          client' = [TheClient EXCEPT !.facts = @ \cup some]
    BY DEF RememberFails
  <2>2. /\ TheClient \in Client /\ TheClient.tag = container
        /\ container \in Tags
    BY <1>1, TheClientFits
  <2>3. some \subseteq Remembered
    BY DEF Remembered
  <2>4. /\ client' \in Client /\ client'.tag = container
        /\ client'.facts = TheClient.facts \cup some
    BY <2>1, <2>2, <2>3 DEF Client
  <2> QED
    BY <2>2, <2>4, NoClientIsClient
<1>3. Types'
  BY <1>1, <1>2 DEF TuiInv, Types, session, demo
<1>4. MemoryInv'
  <2>1. container \in Tags /\ journal[container] \subseteq client'.facts
    BY <1>1, <1>2, TheClientFits
  <2>2. \A m \in told :
          ~m.saved => m.tag = container /\ m.fact \in client'.facts
    BY <1>1, <1>2 DEF TuiInv, MemoryInv, TheClient
  <2> QED
    BY <1>1, <1>2, <2>1, <2>2 DEF TuiInv, MemoryInv, Opened, demo
<1>5. DemoInv' /\ SessionInv'
  BY <1>1, <1>2 DEF TuiInv, DemoInv, SessionInv, session, demo
<1> QED
  BY <1>3, <1>4, <1>5 DEF TuiInv

\* Asking, drawing the timeline anew and the end of the demo build the client
\* if there is none, and serve the timeline of that client or leave it.
LEMMA BuildClientInv ==
  ASSUME TuiInv, Running, client' = TheClient,
         timeline' \in {timeline, container},
         UNCHANGED <<container, journal, told>>,
         worker' = "install" => UNCHANGED <<opened, worker>>
  PROVE  MemoryInv' /\ client' \in Client /\ client' # NoClient
<1>1. /\ client' \in Client /\ client' # NoClient
      /\ client'.tag = container /\ container \in Tags
      /\ journal[container] \subseteq client'.facts
  BY TheClientFits
<1>2. \A m \in told : ~m.saved => m.tag = container /\ m.fact \in client'.facts
  BY DEF TuiInv, MemoryInv, TheClient
<1> QED
  BY <1>1, <1>2 DEF TuiInv, MemoryInv, Opened

LEMMA AskInv ==
  ASSUME TuiInv, NEW recalled, Ask(recalled)
  PROVE  TuiInv'
<1>1. /\ Running /\ pending = {} /\ client' = TheClient
      /\ UNCHANGED <<session, container, journal, told, demo>>
  BY DEF Ask, UserAt, Running
<1>2. timeline' \in {timeline, container}
  BY <1>1, TheClientFits DEF Ask
<1>3. MemoryInv' /\ client' \in Client /\ client' # NoClient
  BY <1>1, <1>2, BuildClientInv DEF demo
<1>4. Types'
  BY <1>1, <1>3 DEF TuiInv, Types, session, demo
<1>5. DemoInv' /\ SessionInv'
  BY <1>1, <1>3 DEF TuiInv, DemoInv, SessionInv, session, demo
<1> QED
  BY <1>3, <1>4, <1>5 DEF TuiInv

LEMMA RenderTimelineInv ==
  ASSUME TuiInv, RenderTimeline
  PROVE  TuiInv'
<1>1. /\ Running /\ pending = {} /\ client' = TheClient
      /\ UNCHANGED <<screen, session, container, journal, told, demo>>
  BY DEF RenderTimeline, UserAt, Running
<1>2. timeline' \in {timeline, container}
  BY <1>1, TheClientFits DEF RenderTimeline
<1>3. MemoryInv' /\ client' \in Client /\ client' # NoClient
  BY <1>1, <1>2, BuildClientInv DEF demo
<1>4. Types'
  BY <1>1, <1>3 DEF TuiInv, Types, session, demo
<1>5. DemoInv' /\ SessionInv'
  BY <1>1, <1>3 DEF TuiInv, DemoInv, SessionInv, session, demo
<1> QED
  BY <1>3, <1>4, <1>5 DEF TuiInv

LEMMA ExpireTimelineInv ==
  ASSUME TuiInv, ExpireTimeline
  PROVE  TuiInv'
<1> USE DEF ExpireTimeline, screen, session, demo
<1>1. Types'
  BY DEF TuiInv, Types
<1>2. MemoryInv'
  BY DEF TuiInv, MemoryInv, Opened, Running
<1>3. DemoInv' /\ SessionInv'
  BY DEF TuiInv, DemoInv, SessionInv, Running
<1> QED
  BY <1>1, <1>2, <1>3 DEF TuiInv

LEMMA SwitchContainerInv ==
  ASSUME TuiInv, NEW tag \in Tags, SwitchContainer(tag)
  PROVE  TuiInv'
<1>1. /\ Running /\ pending = {}
      /\ UNCHANGED <<session, journal, demo>>
  BY DEF SwitchContainer, UserAt, Running
<1>2. CASE tag = container
  <2>1. UNCHANGED <<container, client, timeline, told>>
    BY <1>2 DEF SwitchContainer
  <2> QED
    BY <1>1, <2>1, ScreensInv DEF memory
<1>3. CASE tag # container
  <2>1. /\ container' = tag /\ client' = NoClient /\ timeline' = NoTag
        /\ Running' => ~workerMode
        /\ told' \subseteq told /\ \A m \in told' : m.saved
    BY <1>3, ToldStaysIs DEF SwitchContainer, Says, Running
  <2>2. Types'
    BY <1>1, <2>1, NoClientIsClient DEF TuiInv, Types, session, demo
  <2>3. Running' => worker' \notin Flagged
    BY <1>1, <2>1 DEF TuiInv, DemoInv, demo
  <2>4. MemoryInv'
    BY <1>1, <2>1, <2>3 DEF TuiInv, MemoryInv, Flagged
  <2>5. DemoInv' /\ SessionInv'
    BY <1>1, <2>1, <2>3 DEF TuiInv, DemoInv, SessionInv, session, demo, Flagged
  <2> QED
    BY <2>2, <2>4, <2>5 DEF TuiInv
<1> QED
  BY <1>2, <1>3

LEMMA SelectModelInv ==
  ASSUME TuiInv, NEW m \in Models, SelectModel(m)
  PROVE  TuiInv'
<1>1. /\ Running /\ pending = {} /\ pending' = {}
      /\ UNCHANGED <<container, timeline, journal, told, demoRunning,
                     workerMode, worker, step, answered, opened>>
  BY DEF SelectModel, UserAt, Running
<1>2. /\ live' = m /\ status' = "connected" /\ offline' = FALSE
      /\ client' = [TheClient EXCEPT !.llm = m] /\ failed' = FALSE
  BY DEF SelectModel, ConnectLive
<1>3. /\ client' \in Client /\ client'.tag = container
      /\ client'.facts = TheClient.facts /\ container \in Tags
  BY <1>1, <1>2, TheClientFits, ClientChanges
<1>4. Types'
  BY <1>1, <1>2, <1>3 DEF TuiInv, Types
<1>5. MemoryInv'
  BY <1>1, <1>3, ConnectedInv
<1>6. DemoInv' /\ SessionInv'
  BY <1>1, <1>2, <1>3, NoClientIsClient DEF TuiInv, DemoInv, SessionInv
<1> QED
  BY <1>4, <1>5, <1>6 DEF TuiInv

----------------------------------------------------------------------------
(* The demo.                                                               *)

LEMMA ReplayDemoInv ==
  ASSUME TuiInv, ReplayDemo
  PROVE  TuiInv'
<1>1. /\ Running /\ "auto" \notin pending /\ pending' = {}
      /\ UNCHANGED <<offline, live, status, memory, workerMode, answered,
                     failed, opened>>
      /\ demoRunning' = TRUE
      /\ worker' = IF demoRunning THEN worker ELSE "queued"
  BY DEF ReplayDemo, Running
<1>2. worker' = IF worker = "none" THEN "queued" ELSE worker
  BY <1>1 DEF TuiInv, DemoInv
<1>3. Types'
  BY <1>1 DEF TuiInv, Types, memory
<1>4. MemoryInv'
  BY <1>1, <1>2 DEF TuiInv, MemoryInv, memory, Opened
<1>5. DemoInv' /\ SessionInv'
  BY <1>1, <1>2 DEF TuiInv, DemoInv, SessionInv, memory, Flagged
<1> QED
  BY <1>3, <1>4, <1>5 DEF TuiInv

LEMMA RaiseFlagInv ==
  ASSUME TuiInv, RaiseFlag
  PROVE  TuiInv'
<1> USE DEF RaiseFlag, WorkerAt, screen, session, memory
<1>1. Types'
  BY DEF TuiInv, Types
<1>2. MemoryInv'
  BY DEF TuiInv, MemoryInv, Running
<1>3. DemoInv' /\ SessionInv'
  BY DEF TuiInv, DemoInv, SessionInv, Running, Flagged
<1> QED
  BY <1>1, <1>2, <1>3 DEF TuiInv

LEMMA OpenClientInv ==
  ASSUME TuiInv, OpenClient
  PROVE  TuiInv'
<1> USE DEF OpenClient, WorkerAt, screen, session, memory
<1>1. Types'
  BY OpenedIsClient DEF TuiInv, Types, MemoryInv
<1>2. MemoryInv'
  BY DEF TuiInv, MemoryInv, Running, Opened
<1>3. DemoInv' /\ SessionInv'
  BY DEF TuiInv, DemoInv, SessionInv, Running, Flagged
<1> QED
  BY <1>1, <1>2, <1>3 DEF TuiInv

LEMMA InstallClientInv ==
  ASSUME TuiInv, InstallClient
  PROVE  TuiInv'
<1>1. /\ Running /\ worker = "install"
      /\ worker' = "seed" /\ opened' = NoClient
      /\ UNCHANGED <<screen, session, container, timeline, journal,
                     demoRunning, workerMode, failed>>
      /\ told' \subseteq told /\ \A m \in told' : m.saved
      /\ answered' = FALSE
  BY ToldStaysIs DEF InstallClient, WorkerAt
<1>2. /\ client' \in Client /\ client'.tag = container
      /\ journal[container] = client'.facts /\ container \in Tags
  <2>1. /\ opened = Opened(container) /\ container \in Tags
        /\ opened \in Client /\ live \in Models \cup {NoModel}
    BY <1>1 DEF TuiInv, MemoryInv, Types
  <2>2. client' = [opened EXCEPT !.llm = live]
    BY DEF InstallClient
  <2> QED
    BY <2>1, <2>2, OpenedIsClient, ClientChanges DEF TuiInv
<1>3. Types'
  BY <1>1, <1>2, NoClientIsClient DEF TuiInv, Types, session
<1>4. MemoryInv'
  BY <1>1, <1>2 DEF TuiInv, MemoryInv
<1>5. DemoInv' /\ SessionInv'
  BY <1>1, <1>2, NoClientIsClient
  DEF TuiInv, DemoInv, SessionInv, Running, screen, session, Flagged
<1> QED
  BY <1>3, <1>4, <1>5 DEF TuiInv

LEMMA SeedCellsInv ==
  ASSUME TuiInv, SeedCells
  PROVE  TuiInv'
<1>1. /\ Running /\ worker = "seed" /\ worker' = "steps"
      /\ UNCHANGED <<screen, session, container, timeline, journal, told,
                     demoRunning, workerMode, answered, failed, opened>>
  BY DEF SeedCells, WorkerAt
<1>2. client # NoClient /\ client \in Client /\ client.tag = container
  BY <1>1 DEF TuiInv, DemoInv, MemoryInv, Types
<1>3. /\ client' \in Client /\ client'.tag = container
      /\ client.facts \subseteq client'.facts /\ container \in Tags
  <2>1. client' = [client EXCEPT !.facts = @ \cup {Cells}]
    BY DEF SeedCells
  <2>2. Cells \in Remembered
    BY DEF Remembered, DemoFacts
  <2> QED
    BY <1>1, <1>2, <2>1, <2>2, ClientChanges DEF TuiInv, MemoryInv
<1>4. Types'
  BY <1>1, <1>3 DEF TuiInv, Types, session
<1>5. MemoryInv'
  BY <1>1, <1>2, <1>3, NoClientIsClient DEF TuiInv, MemoryInv
<1>6. DemoInv' /\ SessionInv'
  BY <1>1, <1>3, NoClientIsClient
  DEF TuiInv, DemoInv, SessionInv, Running, screen, session, Flagged
<1> QED
  BY <1>4, <1>5, <1>6 DEF TuiInv

\* What a session of the demo saves is all of the container's journal and more,
\* and all the client was told.
LEMMA DemoSessionSaves ==
  ASSUME TuiInv, Running, client # NoClient, DemoSession
  PROVE  /\ client' \in Client /\ client'.tag = container
         /\ journal' \in [Tags -> SUBSET Remembered]
         /\ journal'[container] \subseteq client'.facts
         /\ \A m \in told' :
              /\ m \in Told
              /\ m.saved => m.fact \in journal'[m.tag]
              /\ ~m.saved => m.tag = container /\ m.fact \in client'.facts
<1>1. client \in Client /\ client.tag = container /\ TheClient = client
  BY DEF TuiInv, MemoryInv, Types, TheClient
<1>2. /\ client' \in Client /\ client'.tag = container
      /\ client'.facts = client.facts \cup {Turns}
  BY <1>1, ClientChanges DEF DemoSession, Remembered, DemoFacts
<1>3. PICK saved \in BOOLEAN : Persist(client', saved) /\ told' = ToldOn(saved)
  BY DEF DemoSession
<1>4. \A c \in Client :
        /\ c.tag = container /\ TheClient.facts \subseteq c.facts
        /\ Persist(c, saved)
        => /\ journal' \in [Tags -> SUBSET Remembered]
           /\ journal'[container] \subseteq c.facts
           /\ \A m \in ToldOn(saved) :
                /\ m \in Told
                /\ m.saved => m.fact \in journal'[m.tag]
                /\ ~m.saved => m.tag = container /\ m.fact \in c.facts
  BY PersistKeeps
<1> QED
  BY <1>1, <1>2, <1>3, <1>4

LEMMA DemoStepInv ==
  ASSUME TuiInv, DemoStep
  PROVE  TuiInv'
<1>1. /\ Running /\ worker = "steps"
      /\ UNCHANGED <<screen, live, status, pending, container, demoRunning,
                     workerMode, worker, failed, opened>>
  BY DEF DemoStep, WorkerAt
<1>2. /\ client # NoClient /\ client \in Client /\ client.tag = container
      /\ container \in Tags /\ journal[container] \subseteq client.facts
      /\ \A m \in told :
           /\ m \in Told
           /\ m.saved => m.fact \in journal[m.tag]
           /\ ~m.saved => m.tag = container /\ m.fact \in client.facts
  BY <1>1 DEF TuiInv, DemoInv, MemoryInv, Types
<1>3. /\ timeline' \in {timeline, container}
      /\ offline' \in BOOLEAN /\ answered' \in BOOLEAN
  BY <1>2 DEF DemoStep, TuiInv, Types
<1>4. /\ client' \in Client /\ client'.tag = container
      /\ journal' \in [Tags -> SUBSET Remembered]
      /\ journal'[container] \subseteq client'.facts
      /\ \A m \in told' :
           /\ m \in Told
           /\ m.saved => m.fact \in journal'[m.tag]
           /\ ~m.saved => m.tag = container /\ m.fact \in client'.facts
  <2>1. CASE DemoSession
    BY <1>1, <1>2, <2>1, DemoSessionSaves
  <2>2. CASE UNCHANGED <<client, journal, told>>
    BY <1>2, <2>2 DEF TuiInv, Types
  <2>3. CASE /\ client' = [client EXCEPT !.facts = @ \cup {Cells}]
             /\ UNCHANGED <<journal, told>>
    <3>1. Cells \in Remembered
      BY DEF Remembered, DemoFacts
    <3>2. /\ client' \in Client /\ client'.tag = container
          /\ client.facts \subseteq client'.facts
      BY <1>2, <2>3, <3>1, ClientChanges
    <3> QED
      BY <1>2, <2>3, <3>2 DEF TuiInv, Types
  <2> QED
    BY <2>1, <2>2, <2>3 DEF DemoStep
<1>5. Types'
  BY <1>1, <1>3, <1>4 DEF TuiInv, Types
<1>6. MemoryInv'
  BY <1>1, <1>2, <1>3, <1>4, NoClientIsClient DEF TuiInv, MemoryInv
<1>7. DemoInv'
  BY <1>1, <1>2, <1>4, NoClientIsClient DEF TuiInv, DemoInv, Running, screen
<1>8. SessionInv'
  <2>1. live # NoModel /\ offline' /\ ~failed => answered'
    <3>1. CASE UNCHANGED <<offline, answered>>
      BY <1>1, <3>1 DEF TuiInv, SessionInv
    <3>2. CASE answered' = (answered \/ live # NoModel)
      BY <3>2
    <3> QED
      BY <3>1, <3>2 DEF DemoStep
  <2> QED
    BY <1>1, <2>1 DEF TuiInv, SessionInv, Running, screen
<1> QED
  BY <1>5, <1>6, <1>7, <1>8 DEF TuiInv

\* A demo that fails leaves the session as its last step left it.
LEMMA DemoFailsInv ==
  ASSUME TuiInv, DemoFails
  PROVE  TuiInv'
<1> USE DEF DemoFails, WorkerAt, screen, session, memory
<1>1. Types'
  BY DEF TuiInv, Types
<1>2. MemoryInv'
  BY DEF TuiInv, MemoryInv, Running
<1>3. DemoInv' /\ SessionInv'
  BY DEF TuiInv, Types, DemoInv, SessionInv, Running, Flagged
<1> QED
  BY <1>1, <1>2, <1>3 DEF TuiInv

LEMMA EndStepsInv ==
  ASSUME TuiInv, EndSteps
  PROVE  TuiInv'
<1> USE DEF EndSteps, WorkerAt, screen, memory
<1>1. Types'
  BY DEF TuiInv, Types
<1>2. MemoryInv'
  BY DEF TuiInv, MemoryInv, Running
<1>3. DemoInv' /\ SessionInv'
  BY DEF TuiInv, Types, DemoInv, SessionInv, Running, Flagged
<1> QED
  BY <1>1, <1>2, <1>3 DEF TuiInv

LEMMA FinishDemoInv ==
  ASSUME TuiInv, FinishDemo
  PROVE  TuiInv'
<1>1. /\ Running /\ worker = "finish" /\ client' = TheClient
      /\ demoRunning' = FALSE /\ worker' = "none"
      /\ UNCHANGED <<screen, session, container, journal, told, workerMode,
                     answered, failed, opened>>
  BY DEF FinishDemo, WorkerAt
<1>2. timeline' \in {timeline, container}
  BY <1>1, TheClientFits DEF FinishDemo
<1>3. MemoryInv' /\ client' \in Client /\ client' # NoClient
  BY <1>1, <1>2, BuildClientInv
<1>4. Types'
  BY <1>1, <1>3 DEF TuiInv, Types, session
<1>5. DemoInv' /\ SessionInv'
  BY <1>1, <1>3
  DEF TuiInv, DemoInv, SessionInv, Running, screen, session, Flagged
<1> QED
  BY <1>3, <1>4, <1>5 DEF TuiInv

----------------------------------------------------------------------------
LEMMA BootInv == TuiInv /\ Boot => TuiInv'
 BY AutoConnectInv, ReplayDemoInv DEF Boot

LEMMA UserInv == TuiInv /\ User => TuiInv'
<1> SUFFICES ASSUME TuiInv, User
    PROVE  TuiInv'
  OBVIOUS
<1>1. ASSUME NEW off \in BOOLEAN, NEW replay \in BOOLEAN, NEW tag \in Tags,
             Start(off, tag, replay)
      PROVE  TuiInv'
  BY <1>1, StartInv
<1>2. ASSUME NEW f \in Facts, NEW saved \in BOOLEAN,
             Remember(f, saved) \/ RememberFails(f)
      PROVE  TuiInv'
  BY <1>2, RememberInv, RememberFailsInv
<1>3. ASSUME NEW recalled, Ask(recalled) \/ RenderTimeline \/ ReplayDemo
      PROVE  TuiInv'
  BY <1>3, AskInv, RenderTimelineInv, ReplayDemoInv
<1>4. ASSUME NEW tag \in Tags, SwitchContainer(tag)
      PROVE  TuiInv'
  BY <1>4, SwitchContainerInv
<1>5. ASSUME NEW m \in Models, SelectModel(m)
      PROVE  TuiInv'
  BY <1>5, SelectModelInv
<1>6. CASE OpenSwitch \/ OpenOllama \/ Back \/ Quit
  <2>1. Running /\ UNCHANGED <<session, memory, demo>>
    BY <1>6 DEF OpenSwitch, OpenOllama, Back, Quit, UserAt, Running
  <2>2. pending = {} \/ Running'
    BY <1>6 DEF OpenSwitch, OpenOllama, Back, Quit, UserAt, Running
  <2> QED
    BY <2>1, <2>2, ScreensInv
<1>7. CASE \/ \E found \in SUBSET Models : ScanModels(found)
           \/ \E ok \in BOOLEAN, found \in SUBSET Models :
                LaunchOllama(ok, found)
  <2>1. Running /\ Running' /\ UNCHANGED <<session, memory, demo>>
    BY <1>7 DEF ScanModels, LaunchOllama, Running
  <2> QED
    BY <2>1, ScreensInv
<1> QED
  BY <1>1, <1>2, <1>3, <1>4, <1>5, <1>6, <1>7 DEF User

LEMMA DemoActsInv == TuiInv /\ Demo => TuiInv'
 BY RaiseFlagInv, OpenClientInv, InstallClientInv, SeedCellsInv, DemoStepInv,
    EndStepsInv, DemoFailsInv, FinishDemoInv
 DEF Demo

LEMMA Invariance == Spec => []TuiInv
<1>1. TuiInv /\ [Next]_vars => TuiInv'
  BY BootInv, UserInv, DemoActsInv, ExpireTimelineInv, StutterInv DEF Next
<1> QED
  BY <1>1, InitInv, PTL DEF Spec

----------------------------------------------------------------------------
(* The theorems.                                                           *)

\* What _remember has told the user is remembered is in the client of a session
\* on the container it was said of, for as long as that client stands and, once
\* a save has succeeded, in the journal and in every later client - though
\* saves may be refused, the demo replaces the client from its own thread,
\* containers change and the program starts anew.
THEOREM RememberedStays == Spec => []ToldIsRemembered
<1>1. TuiInv => ToldIsRemembered
  <2> SUFFICES ASSUME TuiInv, NEW m \in told
      PROVE  /\ m.saved => m.fact \in journal[m.tag]
             /\ Running /\ m.tag = container => m.fact \in TheClient.facts
    BY DEF ToldIsRemembered
  <2>1. m.saved => m.fact \in journal[m.tag]
    BY DEF TuiInv, MemoryInv
  <2>2. Running /\ ~m.saved => m.fact \in TheClient.facts
    BY DEF TuiInv, MemoryInv, TheClient
  <2> QED
    BY <2>1, <2>2, TheClientFits
<1> QED
  BY <1>1, Invariance, PTL

\* Between demos a session with a model is connected, and it is offline only
\* since a demo that had put it offline failed: one that runs to its end has
\* put it back.
THEOREM ModelsAreOnline == Spec => []LiveIsOnline
<1>1. TuiInv => LiveIsOnline
  BY DEF TuiInv, DemoInv, SessionInv, LiveIsOnline
<1> QED
  BY <1>1, Invariance, PTL

\* Whoever filled the cache of the timeline - a handler or the demo's thread -
\* and whatever container was chosen since, it serves the one on the screen.
THEOREM TimelineFollows == Spec => []TimelineIsOfContainer
<1>1. TuiInv => TimelineIsOfContainer
  BY DEF TuiInv, MemoryInv, TimelineIsOfContainer
<1> QED
  BY <1>1, Invariance, PTL

=============================================================================

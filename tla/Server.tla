------------------------------- MODULE Server -------------------------------
(***************************************************************************)
(* The memory servers: the HTTP server of the web observatory              *)
(* (contextmemory/server/app.py), one thread per request, and the MCP      *)
(* server (contextmemory/mcp.py), a process of its own that handles one    *)
(* line at a time.  Each keeps one client per container and a ring of      *)
(* events; what they share is the journals in the file system.             *)
(*                                                                         *)
(* Abstracted: texts are members of a set, a store is the sequence of its  *)
(* memories (MemoryStore has it in detail; a cell id is a position), a     *)
(* save is atomic and is done or refused (Journal has its steps), which    *)
(* memories a query finds is left out (Recall has it).  Neither server has *)
(* an LLM: NullExtractor makes one cell of every text.                     *)
(***************************************************************************)
EXTENDS Naturals, Sequences, SequencesExt, FiniteSetsExt

CONSTANTS
  Callers,     \* the request threads of the HTTP server
  Tags,        \* container tags
  FileOf,      \* the journal file of each tag
  Texts,       \* what is asked to be remembered
  Named,       \* the containers the callers of each process name
  Says,        \* the texts they ask it to remember
  Ring,        \* how many events a ring keeps (1000 in the code)
  MaxWork,     \* bound on the requests and calls that do more than read
  Restarts     \* bound on the crashes of the processes

\* The two processes; the MCP server is a single thread.
Procs == {"http", "mcp"}
Agent == "agent"
Threads == Callers \cup {Agent}
Home(t) == IF t = Agent THEN "mcp" ELSE "http"
Files == { FileOf[tag] : tag \in Tags }

ASSUME ServerAssumption ==
  /\ Agent \notin Callers
  /\ DOMAIN FileOf = Tags
  /\ Named \in [Procs -> SUBSET Tags]
  /\ Says \in [Procs -> SUBSET Texts]
  /\ Ring \in Nat \ {0} /\ MaxWork \in Nat /\ Restarts \in Nat

VARIABLES
  \* Of each process:
  built,       \* the containers it has a client for
  cells,       \* the memories in the store of each client: [text, live]
  events,      \* _EVENT_LOG: [seq, type, tag, id]
  seqno,       \* _EVENT_SEQ
  lock,        \* the thread that holds _LOCK, or "nobody"
  \* Of each thread:
  call,        \* the request or tool call it handles, and where it stands
  \* Of the file system:
  journal,     \* the memories in each journal file
  \* What nobody in the system knows:
  savers,      \* the clients that have saved to each file
  told,        \* memories a process has told a caller are stored: [proc, tag,
               \* text, id, saved (a save of its own or a later one of its
               \* client succeeded), here (told since the process started)]
  work,        \* requests and tool calls that did more than read
  restarts     \* crashes so far

vars == <<built, cells, events, seqno, lock, call, journal, savers,
          told, work, restarts>>

NoCall == [pc |-> "idle", type |-> "none", tag |-> "none", text |-> "none",
           id |-> 0, saved |-> FALSE]

Init ==
  /\ built = [p \in Procs |-> {}]
  /\ cells = [p \in Procs |-> [tag \in Tags |-> << >>]]
  /\ events = [p \in Procs |-> << >>]
  /\ seqno = [p \in Procs |-> 0]
  /\ lock = [p \in Procs |-> "nobody"]
  /\ call = [t \in Threads |-> NoCall]
  /\ journal = [f \in Files |-> << >>]
  /\ savers = [f \in Files |-> {}]
  /\ told = {}
  /\ work = 0
  /\ restarts = 0

At(t, pc) == call[t].pc = pc
GoesTo(t, pc) == call' = [call EXCEPT ![t].pc = pc]
Answers(t) == call' = [call EXCEPT ![t] = NoCall]
StoreOf(t) == cells[Home(t)][call[t].tag]

\* The handler begun by thread t goes on at pc.
Begins(t, pc, type, tag, text, id) ==
  call' = [call EXCEPT ![t] = [pc |-> pc, type |-> type, tag |-> tag,
                               text |-> text, id |-> id, saved |-> FALSE]]

----------------------------------------------------------------------------
(* Clients and their stores (api.py, engine/memory.py, config.py).         *)

\* The journal a container is kept in.
JournalPath(tag) == FileOf[tag]

\* Mutant of GetClient: each request builds a client.
GetClientAnew(p, tag) ==
  /\ lock[p] = "nobody"
  /\ built' = [built EXCEPT ![p] = @ \cup {tag}]
  /\ cells' = [cells EXCEPT ![p][tag] = journal[JournalPath(tag)]]

\* get_client: the container's client; a new one loads the journal.  The lock
\* is held from the test to the insertion.
GetClient(p, tag) ==
  /\ lock[p] = "nobody"
  /\ built' = [built EXCEPT ![p] = @ \cup {tag}]
  /\ cells' = [cells EXCEPT ![p][tag] =
                 IF tag \in built[p] THEN @ ELSE journal[JournalPath(tag)]]

\* The live memory with this text, which reconcile takes for a duplicate.
Duplicates(store, text) ==
  { i \in DOMAIN store : store[i].text = text /\ store[i].live }

\* The store after reconcile, and the id it returns.
Reconciled(store, text) ==
  IF Duplicates(store, text) # {} THEN store
  ELSE Append(store, [text |-> text, live |-> TRUE])

IdIn(store, text) == Max(Duplicates(store, text))

\* What a save of this client makes durable of what was told before.
SavedToo(p, tag) ==
  { [m EXCEPT !.saved = @ \/ (m.proc = p /\ m.tag = tag)] : m \in told }

\* persist: the whole store is written, as it is by then ...
Saved(t) ==
  LET f == JournalPath(call[t].tag)
      client == <<Home(t), call[t].tag>>
  IN /\ journal' = [journal EXCEPT ![f] = StoreOf(t)]
     /\ savers' = [savers EXCEPT ![f] = @ \cup {client}]
     /\ told' = SavedToo(Home(t), call[t].tag)
     /\ call' = [call EXCEPT ![t].pc = "push", ![t].saved = TRUE]

\* ... or the save is refused, which is counted, and the handler goes on.
Refused(t) ==
  /\ GoesTo(t, "push")
  /\ UNCHANGED <<journal, savers, told>>

Persist(t) == Saved(t) \/ Refused(t)

\* Mutant of Forgets: reports success for a memory forgotten before.
ForgetsAgain(store, id) == id \in DOMAIN store

\* Store::forget finds a live memory of this id.
Forgets(store, id) == id \in DOMAIN store /\ store[id].live

----------------------------------------------------------------------------
(* Events.                                                                 *)

\* Mutant of Pushed: a full ring drops the event before the new one.
PushedOverLast(log, e) ==
  IF Len(log) < Ring THEN Append(log, e) ELSE Append(Front(log), e)

\* The ring with one more event: the oldest of too many are dropped.
Pushed(log, e) ==
  LET all == Append(log, e)
  IN SubSeq(all, Len(all) - Min({Ring, Len(all)}) + 1, Len(all))

\* push_event: sequence number, append and trim under the lock.
PushEvent(t) ==
  LET p == Home(t)
      e == [seq |-> seqno[p] + 1, type |-> call[t].type, tag |-> call[t].tag,
            id |-> call[t].id]
  IN /\ lock[p] = "nobody"
     /\ seqno' = [seqno EXCEPT ![p] = @ + 1]
     /\ events' = [events EXCEPT ![p] = Pushed(@, e)]

\* Bound: MaxWork handlers that store, forget or push are begun.
Work == work < MaxWork /\ work' = work + 1

----------------------------------------------------------------------------
(* The HTTP server.  Requests with an empty content or query, or an id     *)
(* that is no positive number, are answered 400 and change nothing.  Every *)
(* other handler waits for _LOCK first, in get_client or at the ring; what *)
(* its request asks for is chosen when it has the lock.                    *)

\* A request arrives.
Arrive(t) ==
  /\ At(t, "idle")
  /\ GoesTo(t, "waiting")
  /\ UNCHANGED <<built, cells, events, seqno, lock, journal, savers, told,
                 work, restarts>>

\* A handler, or a tool, that only reads the store of its client.
Reads(t) ==
  /\ \E tag \in Named[Home(t)] : GetClient(Home(t), tag)
  /\ Answers(t)
  /\ UNCHANGED <<events, seqno, lock, journal, savers, told, work, restarts>>

GetHealth(t) == At(t, "waiting") /\ Reads(t)
GetGraph(t) == At(t, "waiting") /\ Reads(t)
GetProfile(t) == At(t, "waiting") /\ Reads(t)

\* GET /v1/metrics reads the store, then the ring under the lock.
GetMetrics(t) ==
  /\ At(t, "waiting")
  /\ \E tag \in Named["http"] : GetClient("http", tag)
  /\ GoesTo(t, "measure")
  /\ UNCHANGED <<events, seqno, lock, journal, savers, told, work, restarts>>

MeasureLatency(t) ==
  /\ At(t, "measure") /\ lock["http"] = "nobody"
  /\ Answers(t)
  /\ UNCHANGED <<built, cells, events, seqno, lock, journal, savers, told,
                 work, restarts>>

\* GET /v1/events writes the ring to the socket with the lock held ...
GetEvents(t) ==
  /\ At(t, "waiting") /\ lock["http"] = "nobody"
  /\ lock' = [lock EXCEPT !["http"] = t]
  /\ GoesTo(t, "sending")
  /\ UNCHANGED <<built, cells, events, seqno, journal, savers, told, work,
                 restarts>>

\* Mutant of ClientReads: the lock is kept when the answer is sent.
ClientReadsLocked(t) ==
  /\ At(t, "sending")
  /\ UNCHANGED lock
  /\ Answers(t)
  /\ UNCHANGED <<built, cells, events, seqno, journal, savers, told, work,
                 restarts>>

\* ... until the client has read it, or has gone away.
ClientReads(t) ==
  /\ At(t, "sending")
  /\ lock' = [lock EXCEPT !["http"] = "nobody"]
  /\ Answers(t)
  /\ UNCHANGED <<built, cells, events, seqno, journal, savers, told, work,
                 restarts>>

\* POST /v1/ask: recall on the client; the event is still to be pushed.
Ask(t) ==
  /\ At(t, "waiting") /\ Work
  /\ \E tag \in Named["http"] : GetClient("http", tag)
  /\ Begins(t, "push", "query_executed", "none", "none", 0)
  /\ UNCHANGED <<events, seqno, lock, journal, savers, told, restarts>>

\* POST /v1/recall: the same for the number of hits the request asks for.
Recall(t) == Ask(t)

\* POST /v1/memories: the client ...
PostMemories(t) ==
  /\ At(t, "waiting") /\ Work
  /\ \E tag \in Named["http"], x \in Says["http"] :
       /\ GetClient("http", tag)
       /\ Begins(t, "ingest", "memory_created", tag, x, 0)
  /\ UNCHANGED <<events, seqno, lock, journal, savers, told, restarts>>

\* ... ingest reconciles the text's cell ...
Ingest(t) ==
  /\ At(t, "ingest")
  /\ LET store == Reconciled(StoreOf(t), call[t].text)
     IN /\ cells' = [cells EXCEPT ![Home(t)][call[t].tag] = store]
        /\ call' = [call EXCEPT ![t].pc = "persist",
                                ![t].id = IdIn(store, call[t].text)]
  /\ UNCHANGED <<built, events, seqno, lock, journal, savers, told, work,
                 restarts>>

\* ... and saves the store.
IngestPersist(t) ==
  /\ At(t, "persist")
  /\ Persist(t)
  /\ UNCHANGED <<built, cells, events, seqno, lock, work, restarts>>

\* The ids a caller may name: those of the store and, for all others, one.
Ids(store) == 1 .. Len(store) + 1

\* POST /v1/forget: nothing is saved; an unknown id is answered 404.
PostForget(t) ==
  /\ At(t, "waiting") /\ Work
  /\ \E tag \in Named["http"] :
       /\ GetClient("http", tag)
       /\ \E i \in Ids(cells'["http"][tag]) :
            Begins(t, "forget", "memory_forgotten", tag, "none", i)
  /\ UNCHANGED <<events, seqno, lock, journal, savers, told, restarts>>

Forget(t) ==
  /\ At(t, "forget")
  /\ IF Forgets(StoreOf(t), call[t].id)
     THEN /\ cells' = [cells EXCEPT
                         ![Home(t)][call[t].tag][call[t].id].live = FALSE]
          /\ GoesTo(t, "push")
     ELSE Answers(t) /\ UNCHANGED cells
  /\ UNCHANGED <<built, events, seqno, lock, journal, savers, told, work,
                 restarts>>

\* What the caller has been told is stored once it is answered.
Told(t) ==
  IF call[t].type = "memory_created"
  THEN told \cup {[proc |-> Home(t), tag |-> call[t].tag,
                   text |-> call[t].text, id |-> call[t].id,
                   saved |-> call[t].saved, here |-> TRUE]}
  ELSE told

\* The handlers end with their event and the answer.
PushAndAnswer(t) ==
  /\ At(t, "push")
  /\ PushEvent(t)
  /\ told' = Told(t)
  /\ Answers(t)
  /\ UNCHANGED <<built, cells, lock, journal, savers, work, restarts>>

----------------------------------------------------------------------------
(* The MCP server: a line is handled to its end before the next is read,   *)
(* so only its accesses to the journal are steps of their own.             *)

\* The tools that only read the store of their client.
ToolContext == At(Agent, "idle") /\ Reads(Agent)
ToolProfile == At(Agent, "idle") /\ Reads(Agent)
ToolTimeline == At(Agent, "idle") /\ Reads(Agent)

ToolRecall ==
  /\ At(Agent, "idle") /\ Work
  /\ \E tag \in Named["mcp"] : GetClient("mcp", tag)
  /\ Begins(Agent, "push", "query_executed", "none", "none", 0)
  /\ UNCHANGED <<events, seqno, lock, journal, savers, told, restarts>>

ToolMemory ==
  /\ At(Agent, "idle") /\ Work
  /\ \E tag \in Named["mcp"], x \in Says["mcp"] :
       /\ GetClient("mcp", tag)
       /\ Begins(Agent, "ingest", "memory_created", tag, x, 0)
  /\ UNCHANGED <<events, seqno, lock, journal, savers, told, restarts>>

ToolForget ==
  /\ At(Agent, "idle") /\ Work
  /\ \E tag \in Named["mcp"] :
       /\ GetClient("mcp", tag)
       /\ \E i \in Ids(cells'["mcp"][tag]) :
            Begins(Agent, "forget", "memory_forgotten", tag, "none", i)
  /\ UNCHANGED <<events, seqno, lock, journal, savers, told, restarts>>

----------------------------------------------------------------------------
(* Processes and the specification.                                        *)

\* What is left of what p has told when it ends: what was never saved is gone.
Outlives(p) ==
  { [m EXCEPT !.here = @ /\ m.proc # p] :
      m \in { n \in told : n.proc # p \/ n.saved } }

\* A process crashes, or is stopped, and is started again.
Restart(p) ==
  /\ restarts < Restarts
  /\ restarts' = restarts + 1
  /\ built' = [built EXCEPT ![p] = {}]
  /\ cells' = [cells EXCEPT ![p] = [tag \in Tags |-> << >>]]
  /\ events' = [events EXCEPT ![p] = << >>]
  /\ seqno' = [seqno EXCEPT ![p] = 0]
  /\ lock' = [lock EXCEPT ![p] = "nobody"]
  /\ call' = [t \in Threads |-> IF Home(t) = p THEN NoCall ELSE call[t]]
  /\ told' = Outlives(p)
  /\ UNCHANGED <<journal, savers, work>>

\* The handler of a request has the lock for the first time.
Serve(t) ==
  \/ GetHealth(t) \/ GetGraph(t) \/ GetProfile(t)
  \/ GetMetrics(t) \/ GetEvents(t)
  \/ Ask(t) \/ Recall(t) \/ PostMemories(t) \/ PostForget(t)

\* A line that is no JSON is skipped, and the methods other than tools/call are
\* answered without a look at any store.
Line ==
  \/ ToolContext \/ ToolProfile \/ ToolTimeline
  \/ ToolRecall \/ ToolMemory \/ ToolForget

\* What a handler does from then on, but for waiting until its client has read
\* the events.
Handle(t) ==
  \/ MeasureLatency(t)
  \/ Ingest(t) \/ IngestPersist(t)
  \/ Forget(t)
  \/ PushAndAnswer(t)

Next ==
  \/ \E t \in Callers : Arrive(t) \/ Serve(t) \/ ClientReads(t)
  \/ Line
  \/ \E t \in Threads : Handle(t)
  \/ \E p \in Procs : Restart(p)

Spec == Init /\ [][Next]_vars

\* Threads run, and a lock that is free again and again is won at last
\* (threading.Lock promises no order); whether a client reads its answer is the
\* client's affair.
FairSpec ==
  /\ Spec
  /\ \A t \in Callers : SF_vars(Serve(t) \/ Handle(t))
  /\ WF_vars(Handle(Agent))

----------------------------------------------------------------------------
(* Properties.                                                             *)

\* This memory is there under the id it was told with.
IsIn(store, m) == m.id \in DOMAIN store /\ store[m.id].text = m.text

\* What a server has answered to be stored is, under the same id, in the store
\* every later request gets, whatever was forgotten, refused or saved by others
\* since, until the process ends.  Once a save of it has succeeded it is in the
\* journal too, and comes back with the next process, as long as no other
\* container or process saves to that journal.  (What was answered after a
\* refused save and is not saved later does not outlive the process.)
ToldIsKept ==
  \A m \in told :
    /\ m.here => m.tag \in built[m.proc] /\ IsIn(cells[m.proc][m.tag], m)
    /\ m.saved /\ savers[FileOf[m.tag]] = {<<m.proc, m.tag>>} =>
         /\ IsIn(journal[FileOf[m.tag]], m)
         /\ m.tag \in built[m.proc] => IsIn(cells[m.proc][m.tag], m)

\* The ring holds the newest events in the order of their numbers, without a
\* gap: a poller that knows a number can tell what it has missed.
RingIsNewest ==
  \A p \in Procs :
    /\ Len(events[p]) = Min({Ring, seqno[p]})
    /\ \A i \in DOMAIN events[p] :
         events[p][i].seq = seqno[p] - Len(events[p]) + i

\* An event is pushed after what it tells of: a memory announced as forgotten
\* stays dead in its store, one announced as created is there, and no memory is
\* announced as forgotten twice, whatever requests run at once.
AnnouncedIsDone ==
  \A p \in Procs : \A i \in DOMAIN events[p] :
    LET e == events[p][i]
    IN /\ e.type # "query_executed" => e.id \in DOMAIN cells[p][e.tag]
       /\ e.type = "memory_forgotten" =>
            /\ ~cells[p][e.tag][e.id].live
            /\ \A j \in DOMAIN events[p] \ {i} :
                 ~(events[p][j].type = "memory_forgotten"
                   /\ events[p][j].tag = e.tag /\ events[p][j].id = e.id)

\* Clients that asked for the events read them, or hang up (only one can be
\* sent to at a time).
ClientsRead == []<>(\A t \in Callers : ~At(t, "sending"))

\* Every tool call ends; and if clients read what they ask for, so does every
\* request, from its arrival on: nobody waits for _LOCK for ever, neither for a
\* client nor for the ring.  (The server has no timeout: one client that never
\* reads keeps the lock, and with it everybody else.)
RequestsEnd ==
  /\ call[Agent] # NoCall ~> call[Agent] = NoCall
  /\ ClientsRead => \A t \in Callers : call[t] # NoCall ~> call[t] = NoCall

=============================================================================

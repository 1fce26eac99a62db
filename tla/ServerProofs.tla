---------------------------- MODULE ServerProofs ----------------------------
(***************************************************************************)
(* What Server's run checks with two request threads and a ring of two,    *)
(* for any number of threads, containers, texts and events: the ring has   *)
(* no gap, events tell what was done, and what was told is kept.           *)
(***************************************************************************)
EXTENDS Server, SequenceTheorems, TLAPS

----------------------------------------------------------------------------
(* Minima and maxima.                                                      *)

LEMMA MinOfTwo ==
  ASSUME NEW a \in Nat, NEW b \in Nat
  PROVE  Min({a, b}) = IF a <= b THEN a ELSE b
<1>1. (IF a <= b THEN a ELSE b) \in {a, b}
      /\ \A y \in {a, b} : (IF a <= b THEN a ELSE b) <= y
  OBVIOUS
<1>2. \A x \in {a, b} : (\A y \in {a, b} : x <= y) =>
        x = IF a <= b THEN a ELSE b
  OBVIOUS
<1> QED
  BY <1>1, <1>2 DEF Min

LEMMA MaxOfOne ==
  ASSUME NEW a \in Nat
  PROVE  Max({a}) = a
BY DEF Max

----------------------------------------------------------------------------
(* Types.                                                                  *)

Memory == [text : Texts, live : BOOLEAN]

\* No two live memories of a store have the same text.
Store ==
  { s \in Seq(Memory) :
      \A i, j \in DOMAIN s :
        s[i].live /\ s[j].live /\ s[i].text = s[j].text => i = j }

EventType == {"memory_created", "memory_forgotten", "query_executed"}
Event == [seq : Nat, type : EventType, tag : Tags \cup {"none"}, id : Nat]
Call == [pc : {"idle", "waiting", "measure", "sending", "ingest", "persist",
               "forget", "push"},
         type : EventType \cup {"none"}, tag : Tags \cup {"none"},
         text : Texts \cup {"none"}, id : Nat, saved : BOOLEAN]

\* A handler that works on a store or has an event about it to push.
Working(c) ==
  c.pc \in {"ingest", "persist", "forget"}
  \/ (c.pc = "push" /\ c.type # "query_executed")

\* What it is about.
Shape(c) ==
  /\ c.pc \in {"ingest", "persist"} =>
       c.type = "memory_created" /\ c.text \in Texts /\ ~c.saved
  /\ c.pc = "forget" => c.type = "memory_forgotten"
  /\ c.pc = "push" => c.type \in EventType
  /\ c.pc = "push" /\ c.type = "memory_created" => c.text \in Texts
  /\ Working(c) => c.tag \in Tags

TypeInv ==
  /\ built \in [Procs -> SUBSET Tags]
  /\ cells \in [Procs -> [Tags -> Store]]
  /\ events \in [Procs -> Seq(Event)]
  /\ seqno \in [Procs -> Nat]
  /\ call \in [Threads -> Call]
  /\ journal \in [Files -> Store]
  /\ \A t \in Threads : Shape(call[t])

----------------------------------------------------------------------------
(* The ring.                                                               *)

LEMMA HomeType == \A t \in Threads : Home(t) \in Procs
BY DEF Home, Procs

\* The ring after a push is the end of the log with the new event.
LEMMA PushedType ==
  ASSUME NEW log \in Seq(Event), NEW e \in Event
  PROVE  LET new == Pushed(log, e)
             k == Len(log) + 1 - Len(new)
         IN /\ new \in Seq(Event) /\ k \in Nat
            /\ Len(log) \in Nat /\ Len(new) \in Nat
            /\ Len(new) = IF Ring <= Len(log) + 1 THEN Ring ELSE Len(log) + 1
            /\ \A i \in 1 .. Len(new) :
                 new[i] = IF k + i <= Len(log) THEN log[k + i] ELSE e
<1> DEFINE all == Append(log, e)
           n == IF Ring <= Len(log) + 1 THEN Ring ELSE Len(log) + 1
           new == Pushed(log, e)
<1>1. /\ all \in Seq(Event) /\ Len(log) \in Nat /\ Len(all) = Len(log) + 1
      /\ \A i \in 1 .. Len(all) : all[i] = IF i <= Len(log) THEN log[i] ELSE e
  BY AppendProperties, LenProperties
<1>2. Ring \in Nat /\ Ring > 0
  BY ServerAssumption
<1>3. Min({Ring, Len(all)}) = n
  BY <1>1, <1>2, MinOfTwo
<1>4. new = SubSeq(all, Len(all) - n + 1, Len(all))
  BY <1>3 DEF Pushed
<1>5. n \in Nat /\ n <= Len(all) /\ n > 0
  BY <1>1, <1>2
<1>6. new \in Seq(Event) /\ Len(new) = n
      /\ \A i \in 1 .. n : new[i] = all[Len(all) - n + i]
  <2> HIDE DEF all, n, new
  <2>1. Len(all) - n + 1 \in 1 .. Len(all) + 1 /\ Len(all) \in Nat
    BY <1>1, <1>5
  <2> QED
    BY <1>1, <1>4, <1>5, <2>1, SubSeqProperties
<1>7. /\ Len(log) + 1 - n \in Nat
      /\ \A i \in 1 .. n :
           new[i] = IF Len(log) + 1 - n + i <= Len(log)
                    THEN log[Len(log) + 1 - n + i] ELSE e
  <2> HIDE DEF all, n, new
  <2>1. Len(log) + 1 - n \in Nat
    BY <1>1, <1>5
  <2>2. ASSUME NEW i \in 1 .. n
        PROVE  new[i] = IF Len(log) + 1 - n + i <= Len(log)
                        THEN log[Len(log) + 1 - n + i] ELSE e
    <3> DEFINE x == Len(log) + 1 - n + i
    <3>1. x \in 1 .. Len(all)
      BY <1>1, <1>5
    <3>2. new[i] = all[x]
      BY <1>1, <1>6
    <3> QED
      BY <1>1, <3>1, <3>2
  <2> QED
    BY <2>1, <2>2
<1> QED
  BY <1>1, <1>6, <1>7

----------------------------------------------------------------------------
(* The stores.                                                             *)

\* A store goes on as another: nothing is lost or renamed, and what is dead
\* stays dead.
Continues(store, later) ==
  \A i \in DOMAIN store :
    /\ i \in DOMAIN later /\ later[i].text = store[i].text
    /\ ~store[i].live => ~later[i].live

LEMMA ReconciledType ==
  ASSUME NEW store \in Store, NEW text \in Texts
  PROVE  LET new == Reconciled(store, text)
         IN /\ new \in Store /\ Continues(store, new)
            /\ IdIn(new, text) \in DOMAIN new
            /\ IdIn(new, text) \in Nat
            /\ new[IdIn(new, text)].text = text
<1> DEFINE new == Reconciled(store, text)
<1>1. store \in Seq(Memory) /\ Len(store) \in Nat
      /\ DOMAIN store = 1 .. Len(store)
  BY LenProperties DEF Store
<1>2. CASE Duplicates(store, text) # {}
  <2>1. new = store
    BY <1>2 DEF Reconciled
  <2>2. PICK i \in DOMAIN store : store[i].text = text /\ store[i].live
    BY <1>2 DEF Duplicates
  <2>3. Duplicates(store, text) = {i}
    BY <2>2 DEF Duplicates, Store
  <2>4. IdIn(new, text) = i
    BY <1>1, <2>1, <2>3, MaxOfOne DEF IdIn
  <2> QED
    BY <1>1, <2>1, <2>2, <2>4 DEF Continues
<1>3. CASE Duplicates(store, text) = {}
  <2> DEFINE m == [text |-> text, live |-> TRUE]
             i == Len(store) + 1
  <2>1. new = Append(store, m) /\ m \in Memory
    BY <1>3 DEF Reconciled, Memory
  <2>2. /\ new \in Seq(Memory) /\ DOMAIN new = 1 .. i
        /\ new[i] = m /\ \A j \in DOMAIN store : new[j] = store[j]
    BY <1>1, <2>1, AppendProperties
  <2>3. \A j \in DOMAIN store : ~(store[j].text = text /\ store[j].live)
    BY <1>3 DEF Duplicates
  <2> HIDE DEF new
  <2>4. Duplicates(new, text) = {i}
    BY <1>1, <2>2, <2>3 DEF Duplicates
  <2>5. IdIn(new, text) = i
    BY <1>1, <2>4, MaxOfOne DEF IdIn
  <2>6. new \in Store
    <3> SUFFICES ASSUME NEW a \in DOMAIN new, NEW b \in DOMAIN new,
                        new[a].live, new[b].live, new[a].text = new[b].text
                 PROVE  a = b
      BY <2>2 DEF Store
    <3>1. CASE a \in DOMAIN store /\ b \in DOMAIN store
      BY <2>2, <3>1 DEF Store
    <3>2. CASE a = i \/ b = i
      BY <1>1, <2>2, <2>3, <3>2
    <3> QED
      BY <1>1, <2>2, <3>1, <3>2
  <2>7. Continues(store, new)
    BY <1>1, <2>2 DEF Continues
  <2> QED
    BY <1>1, <2>2, <2>5, <2>6, <2>7 DEF new
<1> QED
  BY <1>2, <1>3

LEMMA ForgottenType ==
  ASSUME NEW store \in Store, NEW i \in DOMAIN store
  PROVE  LET new == [store EXCEPT ![i].live = FALSE]
         IN /\ new \in Store /\ Continues(store, new)
            /\ i \in DOMAIN new /\ ~new[i].live
<1> DEFINE new == [store EXCEPT ![i].live = FALSE]
<1>1. store \in Seq(Memory) /\ store[i] \in Memory
  BY ElementOfSeq, LenProperties DEF Store
<1>2. [store[i] EXCEPT !.live = FALSE] \in Memory
  BY <1>1 DEF Memory
<1>3. new \in Seq(Memory) /\ DOMAIN new = DOMAIN store
      /\ \A j \in DOMAIN store : new[j] = IF j = i
                                       THEN [store[i] EXCEPT !.live = FALSE]
                                       ELSE store[j]
  BY <1>1, <1>2, ExceptSeq, LenProperties
<1>4. new[i].text = store[i].text /\ new[i].live = FALSE
  BY <1>1, <1>3 DEF Memory
<1> HIDE DEF new
<1>5. new \in Store
  BY <1>3, <1>4 DEF Store
<1>6. Continues(store, new)
  BY <1>3, <1>4 DEF Continues
<1> QED
  BY <1>3, <1>4, <1>5, <1>6 DEF new

----------------------------------------------------------------------------
(* The invariant.                                                          *)

Created(c) == c.pc = "push" /\ c.type = "memory_created"
Forgetting(c) == c.pc = "push" /\ c.type = "memory_forgotten"

\* A handler that works has its client; what it has stored is there, what it
\* has forgotten is dead.
Ready(t) ==
  LET c == call[t]
      mine == cells[Home(t)][c.tag]
  IN /\ Working(c) => c.tag \in built[Home(t)]
     /\ c.pc = "persist" \/ Created(c) =>
          c.id \in DOMAIN mine /\ mine[c.id].text = c.text
     /\ Forgetting(c) => c.id \in DOMAIN mine /\ ~mine[c.id].live

\* The same of an event.
IsDone(p, e) ==
  e.type # "query_executed" =>
    /\ e.tag \in built[p] /\ e.id \in DOMAIN cells[p][e.tag]
    /\ e.type = "memory_forgotten" => ~cells[p][e.tag][e.id].live

Same(x, y) == x.tag = y.tag /\ x.id = y.id

\* A memory is forgotten by one handler, and announced once.
Once ==
  /\ \A p \in Procs : \A i, j \in DOMAIN events[p] :
       /\ i # j
       /\ events[p][i].type = "memory_forgotten"
       /\ events[p][j].type = "memory_forgotten"
       => ~Same(events[p][i], events[p][j])
  /\ \A t \in Threads : Forgetting(call[t]) =>
       \A i \in DOMAIN events[Home(t)] :
         events[Home(t)][i].type = "memory_forgotten" =>
           ~Same(events[Home(t)][i], call[t])
  /\ \A t, u \in Threads :
       t # u /\ Home(t) = Home(u)
         /\ Forgetting(call[t]) /\ Forgetting(call[u]) =>
           ~Same(call[t], call[u])

DoneInv ==
  /\ \A t \in Threads : Ready(t)
  /\ \A p \in Procs : \A i \in DOMAIN events[p] : IsDone(p, events[p][i])
  /\ Once

\* A journal has this text under this id.
Has(log, id, text) == id \in DOMAIN log /\ log[id].text = text

\* Nobody but this client has saved.
Only(clients, p, tag) == clients \subseteq {<<p, tag>>}

\* The file this container is kept in has what was saved of it.
InFile(clients, file, p, tag, id, text) ==
  /\ <<p, tag>> \in clients
  /\ Only(clients, p, tag) => Has(file, id, text)

\* What was told since the process started is in the store, what was saved is
\* in the file, and there is nothing else.
Kept(m) ==
  /\ m.here \/ m.saved
  /\ m.here =>
       m.tag \in built[m.proc] /\ Has(cells[m.proc][m.tag], m.id, m.text)
  /\ m.saved => InFile(savers[FileOf[m.tag]], journal[FileOf[m.tag]],
                       m.proc, m.tag, m.id, m.text)

Promise == [proc : Procs, tag : Tags, text : Texts, id : Nat,
            saved : BOOLEAN, here : BOOLEAN]

\* A handler whose save has succeeded and who has still to say so.
HasSaved(c) == Created(c) /\ c.saved

CallInFile(t) ==
  LET c == call[t]
  IN InFile(savers[FileOf[c.tag]], journal[FileOf[c.tag]],
            Home(t), c.tag, c.id, c.text)

\* A client whose file has no other saver holds what the file holds, and the
\* file holds what the client has saved and told.
KeptInv ==
  /\ savers \in [Files -> SUBSET (Procs \X Tags)]
  /\ told \subseteq Promise
  /\ \A p \in Procs : \A tag \in built[p] :
       Only(savers[FileOf[tag]], p, tag) =>
         \A i \in DOMAIN journal[FileOf[tag]] :
           Has(cells[p][tag], i, journal[FileOf[tag]][i].text)
  /\ \A m \in told : Kept(m)
  /\ \A t \in Threads : HasSaved(call[t]) =>
       CallInFile(t)

ServerInv == TypeInv /\ RingIsNewest /\ DoneInv /\ KeptInv

----------------------------------------------------------------------------
(* Steps that push nothing and save nothing.                               *)

LEMMA TagFile == \A tag \in Tags : FileOf[tag] \in Files
BY DEF Files

LEMMA StoreType ==
  ASSUME TypeInv, NEW p \in Procs, NEW tag \in Tags
  PROVE  /\ cells[p][tag] \in Store
         /\ DOMAIN cells[p][tag] = 1 .. Len(cells[p][tag])
         /\ Len(cells[p][tag]) \in Nat
BY LenProperties DEF TypeInv, Store

\* The clients a step finds stay, and their stores go on.
Grows ==
  \A p \in Procs :
    /\ built[p] \subseteq built'[p]
    /\ \A tag \in built[p] : Continues(cells[p][tag], cells'[p][tag])
    /\ \A tag \in built'[p] \ built[p] :
         cells'[p][tag] = journal[FileOf[tag]]

\* A handler goes on as it was, or to a step where it has nothing to push.
GoesOn(t) ==
  \/ call'[t] = call[t]
  \/ Ready(t)' /\ ~Forgetting(call'[t]) /\ ~Created(call'[t])

LEMMA ReadyGrows ==
  ASSUME TypeInv, Grows, NEW t \in Threads, Ready(t), call'[t] = call[t]
  PROVE  Ready(t)'
<1> DEFINE c == call[t]
           p == Home(t)
<1>1. p \in Procs
  BY HomeType
<1>2. Created(c) \/ Forgetting(c) \/ c.pc = "persist" => Working(c)
  BY DEF Created, Forgetting, Working
<1>3. CASE ~Working(c)
  BY <1>2, <1>3 DEF Ready
<1>4. CASE Working(c)
  <2>1. c.tag \in built[p] /\ c.tag \in built'[p]
        /\ Continues(cells[p][c.tag], cells'[p][c.tag])
    BY <1>1, <1>4 DEF Ready, Grows
  <2> QED
    BY <2>1 DEF Ready, Continues
<1> QED
  BY <1>3, <1>4

LEMMA DoneGrows ==
  ASSUME TypeInv, Grows, NEW p \in Procs, NEW e, IsDone(p, e)
  PROVE  /\ e.type # "query_executed" =>
              e.tag \in built'[p] /\ e.id \in DOMAIN cells'[p][e.tag]
         /\ e.type = "memory_forgotten" => ~cells'[p][e.tag][e.id].live
<1>1. CASE e.type = "query_executed"
  BY <1>1
<1>2. CASE e.type # "query_executed"
  BY <1>2 DEF IsDone, Grows, Continues
<1> QED
  BY <1>1, <1>2

LEMMA DoneStays ==
  ASSUME TypeInv, DoneInv, Grows, UNCHANGED events,
         \A t \in Threads : GoesOn(t)
  PROVE  DoneInv'
<1>1. \A t \in Threads : Ready(t)'
  BY ReadyGrows DEF GoesOn, DoneInv
<1>2. \A p \in Procs : \A i \in DOMAIN events[p] : IsDone(p, events[p][i])'
  BY DoneGrows DEF DoneInv, IsDone
<1>3. Once'
  <2>1. \A t \in Threads : Forgetting(call'[t]) => call'[t] = call[t]
    BY DEF GoesOn
  <2> QED
    BY <2>1 DEF DoneInv, Once
<1> QED
  BY <1>1, <1>2, <1>3 DEF DoneInv

LEMMA KeptStays ==
  ASSUME TypeInv, KeptInv, Grows, UNCHANGED <<journal, savers, told>>,
         \A t \in Threads : HasSaved(call'[t]) => call'[t] = call[t]
  PROVE  KeptInv'
<1>1. \A p \in Procs : \A tag \in built'[p] :
        Only(savers[FileOf[tag]], p, tag) =>
          \A i \in DOMAIN journal[FileOf[tag]] :
            Has(cells'[p][tag], i, journal[FileOf[tag]][i].text)
  BY DEF KeptInv, Grows, Continues, Has
<1>2. ASSUME NEW m \in told PROVE Kept(m)'
  <2>1. Kept(m) /\ m.proc \in Procs
    BY DEF KeptInv, Promise
  <2>2. ASSUME m.here
        PROVE  /\ m.tag \in built'[m.proc]
               /\ Has(cells'[m.proc][m.tag], m.id, m.text)
    BY <2>1, <2>2 DEF Kept, Grows, Continues, Has
  <2> QED
    BY <2>1, <2>2 DEF Kept, InFile
<1>3. \A t \in Threads : HasSaved(call'[t]) =>
        CallInFile(t)'
  BY DEF KeptInv, CallInFile
<1> QED
  BY <1>1, <1>2, <1>3 DEF KeptInv

LEMMA InvStays ==
  ASSUME ServerInv, TypeInv', Grows,
         UNCHANGED <<events, seqno, journal, savers, told>>,
         \A t \in Threads : GoesOn(t)
  PROVE  ServerInv'
<1>1. RingIsNewest'
  BY DEF ServerInv, RingIsNewest
<1>2. \A t \in Threads : HasSaved(call'[t]) => call'[t] = call[t]
  BY DEF GoesOn, HasSaved
<1> QED
  BY <1>1, <1>2, DoneStays, KeptStays DEF ServerInv

\* A client is found or built.
LEMMA ClientGrows ==
  ASSUME TypeInv, NEW p \in Procs, NEW tag \in Tags, GetClient(p, tag)
  PROVE  /\ Grows /\ tag \in built'[p]
         /\ built' \in [Procs -> SUBSET Tags]
         /\ cells' \in [Procs -> [Tags -> Store]]
<1>1. FileOf[tag] \in Files /\ journal[FileOf[tag]] \in Store
  BY TagFile DEF TypeInv
<1>2. /\ built' \in [Procs -> SUBSET Tags]
      /\ \A q \in Procs : built'[q] = IF q = p THEN built[p] \cup {tag}
                                       ELSE built[q]
  BY DEF GetClient, TypeInv
<1>3. /\ cells' \in [Procs -> [Tags -> Store]]
      /\ \A q \in Procs : \A u \in Tags :
           cells'[q][u] = IF q = p /\ u = tag /\ tag \notin built[p]
                          THEN journal[FileOf[tag]] ELSE cells[q][u]
  BY <1>1 DEF GetClient, TypeInv, JournalPath
<1>4. Grows
  <2> SUFFICES ASSUME NEW q \in Procs
               PROVE  /\ built[q] \subseteq built'[q]
                      /\ \A u \in built[q] :
                           Continues(cells[q][u], cells'[q][u])
                      /\ \A u \in built'[q] \ built[q] :
                           cells'[q][u] = journal[FileOf[u]]
    BY DEF Grows
  <2>1. built[q] \subseteq Tags /\ built'[q] \subseteq Tags
    BY <1>2 DEF TypeInv
  <2>2. \A u \in built[q] : cells'[q][u] = cells[q][u]
    BY <1>3, <2>1
  <2>3. \A u \in built[q] : Continues(cells[q][u], cells'[q][u])
    BY <2>2 DEF Continues
  <2> QED
    BY <1>2, <1>3, <2>1, <2>3
<1> QED
  BY <1>2, <1>3, <1>4

\* A handler that has begun with a client, and works on it or pushes a query.
LEMMA HandlerBegins ==
  ASSUME ServerInv, NEW t \in Threads, NEW tag \in Tags,
         GetClient(Home(t), tag),
         UNCHANGED <<events, seqno, journal, savers, told>>,
         NEW c \in Call, call' = [call EXCEPT ![t] = c], Shape(c),
         ~Created(c), ~Forgetting(c), c.pc # "persist",
         Working(c) => c.tag = tag
  PROVE  ServerInv'
<1>1. Home(t) \in Procs
  BY HomeType
<1>2. /\ Grows /\ tag \in built'[Home(t)]
      /\ built' \in [Procs -> SUBSET Tags]
      /\ cells' \in [Procs -> [Tags -> Store]]
  BY <1>1, ClientGrows DEF ServerInv
<1>3. /\ call' \in [Threads -> Call]
      /\ \A u \in Threads : call'[u] = IF u = t THEN c ELSE call[u]
  BY DEF ServerInv, TypeInv
<1>4. TypeInv'
  BY <1>2, <1>3 DEF ServerInv, TypeInv
<1>5. \A u \in Threads : GoesOn(u)
  <2>1. Ready(t)'
    BY <1>2, <1>3 DEF Ready
  <2> QED
    BY <1>3, <2>1 DEF GoesOn
<1> QED
  BY <1>2, <1>4, <1>5, InvStays

\* A handler that goes on to do nothing for any store.
LEMMA HandlerIdles ==
  ASSUME ServerInv, NEW t \in Threads,
         UNCHANGED <<built, cells, events, seqno, journal, savers, told>>,
         NEW c \in Call, call' = [call EXCEPT ![t] = c],
         c.pc \in {"idle", "waiting", "measure", "sending"}
  PROVE  ServerInv'
<1>1. /\ call' \in [Threads -> Call]
      /\ \A u \in Threads : call'[u] = IF u = t THEN c ELSE call[u]
  BY DEF ServerInv, TypeInv
<1>2. Shape(c) /\ ~Working(c) /\ ~Created(c) /\ ~Forgetting(c)
  BY DEF Shape, Working, Created, Forgetting
<1>3. TypeInv'
  BY <1>1, <1>2 DEF ServerInv, TypeInv
<1>4. Grows
  BY DEF Grows, Continues
<1>5. \A u \in Threads : GoesOn(u)
  BY <1>1, <1>2 DEF GoesOn, Ready
<1> QED
  BY <1>3, <1>4, <1>5, InvStays

----------------------------------------------------------------------------
(* The steps that change a store, a file or the ring.                      *)

LEMMA IngestStep ==
  ASSUME ServerInv, NEW t \in Threads, Ingest(t)
  PROVE  ServerInv'
<1> DEFINE c == call[t]
           p == Home(t)
           new == Reconciled(cells[p][c.tag], c.text)
           d == [c EXCEPT !.pc = "persist", !.id = IdIn(new, c.text)]
<1>1. /\ p \in Procs /\ c \in Call /\ c.pc = "ingest" /\ Working(c)
      /\ c.type = "memory_created" /\ c.text \in Texts
      /\ c.tag \in Tags /\ c.tag \in built[p] /\ ~c.saved
  BY HomeType
  DEF Ingest, At, ServerInv, TypeInv, Shape, DoneInv, Ready, Working
<1>2. cells[p][c.tag] \in Store
  BY <1>1, StoreType DEF ServerInv
<1>3. /\ new \in Store /\ Continues(cells[p][c.tag], new)
      /\ IdIn(new, c.text) \in DOMAIN new /\ IdIn(new, c.text) \in Nat
      /\ new[IdIn(new, c.text)].text = c.text
  BY <1>1, <1>2, ReconciledType
<1>4. /\ cells' = [cells EXCEPT ![p][c.tag] = new]
      /\ call' = [call EXCEPT ![t] = d]
      /\ UNCHANGED <<built, events, seqno, journal, savers, told>>
  BY DEF Ingest, StoreOf
<1>5. /\ d \in Call /\ d.pc = "persist" /\ d.type = c.type
      /\ d.tag = c.tag /\ d.text = c.text /\ d.id = IdIn(new, c.text)
      /\ d.saved = c.saved
  BY <1>1, <1>3 DEF Call
<1> HIDE DEF new, d
<1>6. /\ call' \in [Threads -> Call]
      /\ \A u \in Threads : call'[u] = IF u = t THEN d ELSE call[u]
  BY <1>4, <1>5 DEF ServerInv, TypeInv
<1>7. /\ cells' \in [Procs -> [Tags -> Store]]
      /\ \A q \in Procs : \A u \in Tags :
           cells'[q][u] = IF q = p /\ u = c.tag THEN new ELSE cells[q][u]
  BY <1>1, <1>3, <1>4 DEF ServerInv, TypeInv
<1>8. Shape(d)
  BY <1>1, <1>5 DEF Shape
<1>9. TypeInv'
  BY <1>4, <1>6, <1>7, <1>8 DEF ServerInv, TypeInv
<1>10. Grows
  <2>1. \A q \in Procs : built[q] \subseteq Tags
    BY DEF ServerInv, TypeInv
  <2>2. \A q \in Procs : \A u \in built[q] :
          Continues(cells[q][u], cells'[q][u])
    BY <1>3, <1>7, <2>1 DEF Continues
  <2> QED
    BY <1>4, <2>2 DEF Grows
<1>11. \A u \in Threads : GoesOn(u)
  <2>1. Ready(t)'
    BY <1>1, <1>3, <1>4, <1>5, <1>6, <1>7 DEF Ready, Created, Forgetting
  <2>2. ~Created(d) /\ ~Forgetting(d)
    BY <1>5 DEF Created, Forgetting
  <2> QED
    BY <1>6, <2>1, <2>2 DEF GoesOn
<1> QED
  BY <1>4, <1>9, <1>10, <1>11, InvStays

\* What a handler does after its save, done or refused, but for the files.
LEMMA PersistDone ==
  ASSUME ServerInv, NEW t \in Threads, At(t, "persist"),
         UNCHANGED <<built, cells, events, seqno>>,
         journal' \in [Files -> Store],
         NEW d \in Call, call' = [call EXCEPT ![t] = d],
         d.pc = "push", d.type = call[t].type, d.tag = call[t].tag,
         d.text = call[t].text, d.id = call[t].id
  PROVE  TypeInv' /\ RingIsNewest' /\ DoneInv'
<1> DEFINE c == call[t]
           p == Home(t)
<1>1. /\ p \in Procs /\ c.type = "memory_created" /\ c.text \in Texts
      /\ c.tag \in Tags /\ c.tag \in built[p]
      /\ c.id \in DOMAIN cells[p][c.tag]
      /\ cells[p][c.tag][c.id].text = c.text
  BY HomeType DEF At, ServerInv, TypeInv, Shape, DoneInv, Ready, Working
<1>2. /\ call' \in [Threads -> Call]
      /\ \A u \in Threads : call'[u] = IF u = t THEN d ELSE call[u]
  BY DEF ServerInv, TypeInv
<1>3. Shape(d)
  BY <1>1 DEF Shape, EventType
<1>4. TypeInv'
  BY <1>2, <1>3 DEF ServerInv, TypeInv
<1>5. RingIsNewest'
  BY DEF ServerInv, RingIsNewest
<1>6. ~Forgetting(d) /\ Created(d)
  BY <1>1 DEF Forgetting, Created
<1>7. DoneInv'
  <2>1. \A u \in Threads : Ready(u)'
    <3>1. Ready(t)'
      BY <1>1, <1>2, <1>6 DEF Ready
    <3>2. \A u \in Threads \ {t} : Ready(u)'
      BY <1>2 DEF ServerInv, DoneInv, Ready
    <3> QED
      BY <3>1, <3>2
  <2>2. \A q \in Procs : \A i \in DOMAIN events[q] :
          IsDone(q, events[q][i])'
    BY DEF ServerInv, DoneInv, IsDone
  <2>3. Once'
    BY <1>2, <1>6 DEF ServerInv, DoneInv, Once
  <2> QED
    BY <2>1, <2>2, <2>3 DEF DoneInv
<1> QED
  BY <1>4, <1>5, <1>7

LEMMA RefusedStep ==
  ASSUME ServerInv, NEW t \in Threads, At(t, "persist"), Refused(t),
         UNCHANGED <<built, cells, events, seqno>>
  PROVE  ServerInv'
<1> DEFINE c == call[t]
           d == [c EXCEPT !.pc = "push"]
<1>1. c \in Call /\ c.pc = "persist" /\ ~c.saved
  BY DEF At, ServerInv, TypeInv, Shape
<1>2. /\ d \in Call /\ d.pc = "push" /\ d.type = c.type /\ d.tag = c.tag
      /\ d.text = c.text /\ d.id = c.id /\ ~d.saved
  BY <1>1 DEF Call
<1>3. /\ call' = [call EXCEPT ![t] = d]
      /\ UNCHANGED <<journal, savers, told>>
  BY DEF Refused, GoesTo
<1>4. journal' \in [Files -> Store]
  BY <1>3 DEF ServerInv, TypeInv
<1> HIDE DEF d
<1>5. TypeInv' /\ RingIsNewest' /\ DoneInv'
  BY <1>2, <1>3, <1>4, PersistDone
<1>6. Grows
  BY <1>3 DEF Grows, Continues
<1>7. \A u \in Threads : HasSaved(call'[u]) => call'[u] = call[u]
  BY <1>2, <1>3 DEF HasSaved, ServerInv, TypeInv
<1>8. KeptInv'
  BY <1>3, <1>6, <1>7, KeptStays DEF ServerInv
<1> QED
  BY <1>5, <1>8 DEF ServerInv

LEMMA SavedStep ==
  ASSUME ServerInv, NEW t \in Threads, At(t, "persist"), Saved(t),
         UNCHANGED <<built, cells, events, seqno>>
  PROVE  ServerInv'
<1> DEFINE c == call[t]
           p == Home(t)
           f == FileOf[c.tag]
           d == [c EXCEPT !.pc = "push", !.saved = TRUE]
<1>1. /\ p \in Procs /\ c \in Call /\ c.pc = "persist"
      /\ c.type = "memory_created" /\ c.text \in Texts
      /\ c.tag \in Tags /\ c.tag \in built[p] /\ f \in Files
      /\ c.id \in DOMAIN cells[p][c.tag]
      /\ cells[p][c.tag][c.id].text = c.text
  BY HomeType, TagFile
  DEF At, ServerInv, TypeInv, Shape, DoneInv, Ready, Working
<1>2. /\ journal' = [journal EXCEPT ![f] = cells[p][c.tag]]
      /\ savers' = [savers EXCEPT ![f] = @ \cup {<<p, c.tag>>}]
      /\ told' = SavedToo(p, c.tag)
      /\ call' = [call EXCEPT ![t] = d]
  BY DEF Saved, JournalPath, StoreOf
<1>3. /\ d \in Call /\ d.pc = "push" /\ d.type = c.type
      /\ d.tag = c.tag /\ d.text = c.text /\ d.id = c.id
  BY <1>1 DEF Call
<1> HIDE DEF d
<1>4. \A u \in Threads : call'[u] = IF u = t THEN d ELSE call[u]
  BY <1>2, <1>3 DEF ServerInv, TypeInv
<1>5. cells[p][c.tag] \in Store
  BY <1>1, StoreType DEF ServerInv
<1>6. /\ journal' \in [Files -> Store]
      /\ \A g \in Files : journal'[g] = IF g = f THEN cells[p][c.tag]
                                        ELSE journal[g]
      /\ savers' \in [Files -> SUBSET (Procs \X Tags)]
      /\ \A g \in Files : savers'[g] = IF g = f
                                       THEN savers[f] \cup {<<p, c.tag>>}
                                       ELSE savers[g]
  <2>1. /\ journal \in [Files -> Store]
        /\ savers \in [Files -> SUBSET (Procs \X Tags)]
    BY DEF ServerInv, TypeInv, KeptInv
  <2>2. <<p, c.tag>> \in Procs \X Tags
    BY <1>1
  <2> HIDE DEF c, p, f
  <2>3. f \in Files
    BY <1>1
  <2>4. savers[f] \cup {<<p, c.tag>>} \in SUBSET (Procs \X Tags)
    BY <2>1, <2>2, <2>3
  <2>5. journal' \in [Files -> Store]
        /\ \A g \in Files : journal'[g] = IF g = f THEN cells[p][c.tag]
                                          ELSE journal[g]
    BY <1>2, <1>5, <2>1, <2>3
  <2> QED
    BY <1>2, <2>1, <2>3, <2>4, <2>5
<1>7. TypeInv' /\ RingIsNewest' /\ DoneInv'
  BY <1>2, <1>3, <1>6, PersistDone
<1>8. KeptInv'
  \* Who is the only one to have saved to a file now has been it before.
  <2>1. ASSUME NEW q \in Procs, NEW u \in Tags,
               Only(savers'[FileOf[u]], q, u)
        PROVE  /\ Only(savers[FileOf[u]], q, u)
               /\ FileOf[u] = f => q = p /\ u = c.tag
    <3>1. FileOf[u] \in Files
      BY TagFile
    <3>2. CASE FileOf[u] = f
      <4>1. savers'[FileOf[u]] = savers[f] \cup {<<p, c.tag>>}
        BY <1>6, <3>1, <3>2
      <4>2. <<p, c.tag>> = <<q, u>> /\ savers[f] \subseteq {<<q, u>>}
        BY <2>1, <4>1 DEF Only
      <4> QED
        BY <3>2, <4>2 DEF Only
    <3>3. CASE FileOf[u] # f
      BY <1>6, <2>1, <3>1, <3>3
    <3> QED
      BY <3>2, <3>3
  <2>2. ASSUME NEW q \in Procs, NEW u \in built'[q],
               Only(savers'[FileOf[u]], q, u),
               NEW i \in DOMAIN journal'[FileOf[u]]
        PROVE  Has(cells'[q][u], i, journal'[FileOf[u]][i].text)
    <3>1. u \in Tags /\ FileOf[u] \in Files /\ u \in built[q]
      BY TagFile DEF ServerInv, TypeInv
    <3>2. Only(savers[FileOf[u]], q, u)
          /\ (FileOf[u] = f => q = p /\ u = c.tag)
      BY <2>1, <2>2, <3>1
    <3>3. CASE FileOf[u] = f
      <4>1. journal'[FileOf[u]] = cells[q][u]
        BY <1>6, <3>1, <3>2, <3>3
      <4> QED
        BY <2>2, <4>1 DEF Has
    <3>4. CASE FileOf[u] # f
      <4>1. journal'[FileOf[u]] = journal[FileOf[u]]
        BY <1>6, <3>1, <3>4
      <4> QED
        BY <2>2, <3>1, <3>2, <4>1 DEF ServerInv, KeptInv
    <3> QED
      BY <3>3, <3>4
  \* What was in a file that has one saver still is.
  <2>3. ASSUME NEW q \in Procs, NEW u \in Tags, NEW id, NEW x,
               InFile(savers[FileOf[u]], journal[FileOf[u]],
                      q, u, id, x)
        PROVE  InFile(savers'[FileOf[u]], journal'[FileOf[u]],
                      q, u, id, x)
    <3>1. FileOf[u] \in Files
      BY TagFile
    <3>2. <<q, u>> \in savers'[FileOf[u]]
      BY <1>6, <2>3, <3>1 DEF InFile
    <3>3. ASSUME Only(savers'[FileOf[u]], q, u)
          PROVE  Has(journal'[FileOf[u]], id, x)
      <4>1. Has(journal[FileOf[u]], id, x)
            /\ Only(savers[FileOf[u]], q, u)
            /\ (FileOf[u] = f => q = p /\ u = c.tag)
        BY <2>1, <2>3, <3>3 DEF InFile
      <4>2. CASE FileOf[u] # f
        BY <1>6, <3>1, <4>1, <4>2
      <4>3. CASE FileOf[u] = f
        <5>1. journal'[FileOf[u]] = cells[p][c.tag]
          BY <1>6, <3>1, <4>3
        <5>2. Has(cells[p][c.tag], id, journal[FileOf[u]][id].text)
          <6>1. u = c.tag /\ u \in built[p] /\ q = p
                /\ id \in DOMAIN journal[FileOf[u]]
            BY <1>1, <4>1, <4>3 DEF Has
          <6> QED
            BY <1>1, <4>1, <6>1 DEF ServerInv, KeptInv
        <5> QED
          BY <4>1, <5>1, <5>2 DEF Has
      <4> QED
        BY <4>2, <4>3
    <3> QED
      BY <3>2, <3>3 DEF InFile
  \* What the client holds is in the file now.
  <2>4. ASSUME NEW id, NEW x, Has(cells[p][c.tag], id, x)
        PROVE  InFile(savers'[FileOf[c.tag]], journal'[FileOf[c.tag]],
                      p, c.tag, id, x)
    BY <1>1, <1>6, <2>4 DEF InFile
  <2>5. ASSUME NEW m \in told'
        PROVE  m \in Promise /\ Kept(m)'
    <3>1. PICK n \in told :
            m = [n EXCEPT !.saved = @ \/ (n.proc = p /\ n.tag = c.tag)]
      BY <1>2 DEF SavedToo
    <3>2. n \in Promise /\ Kept(n)
      BY DEF ServerInv, KeptInv
    <3>3. /\ m \in Promise /\ m.proc = n.proc /\ m.tag = n.tag
          /\ m.text = n.text /\ m.id = n.id /\ m.here = n.here
          /\ m.saved = (n.saved \/ (n.proc = p /\ n.tag = c.tag))
      BY <3>1, <3>2 DEF Promise
    <3>4. m.proc \in Procs /\ m.tag \in Tags
      BY <3>3 DEF Promise
    <3>5. m.here \/ m.saved
      BY <3>2, <3>3 DEF Kept
    <3>6. m.here => /\ m.tag \in built'[m.proc]
                    /\ Has(cells'[m.proc][m.tag], m.id, m.text)
      BY <3>2, <3>3 DEF Kept
    <3>7. ASSUME m.saved
          PROVE  InFile(savers'[FileOf[m.tag]], journal'[FileOf[m.tag]],
                        m.proc, m.tag, m.id, m.text)
      <4>1. CASE n.saved
        <5>1. InFile(savers[FileOf[m.tag]], journal[FileOf[m.tag]],
                     m.proc, m.tag, m.id, m.text)
          BY <3>2, <3>3, <4>1 DEF Kept
        <5> QED
          BY <2>3, <3>4, <5>1
      <4>2. CASE ~n.saved
        <5>1. m.here /\ m.proc = p /\ m.tag = c.tag
          BY <3>2, <3>3, <3>7, <4>2 DEF Kept
        <5>2. Has(cells[p][c.tag], m.id, m.text)
          BY <3>2, <3>3, <5>1 DEF Kept
        <5> QED
          BY <2>4, <5>1, <5>2
      <4> QED
        BY <4>1, <4>2
    <3> QED
      BY <3>3, <3>5, <3>6, <3>7 DEF Kept
  <2>6. ASSUME NEW u \in Threads, HasSaved(call'[u])
        PROVE  CallInFile(u)'
    <3>1. CASE u = t
      <4>1. call'[u].tag = c.tag /\ call'[u].id = c.id
            /\ call'[u].text = c.text
        BY <1>3, <1>4, <3>1
      <4>2. InFile(savers'[FileOf[c.tag]], journal'[FileOf[c.tag]],
                   p, c.tag, c.id, c.text)
        BY <1>1, <2>4 DEF Has
      <4> QED
        BY <3>1, <4>1, <4>2 DEF CallInFile
    <3>2. CASE u # t
      <4> DEFINE e == call[u]
      <4>1. call'[u] = e /\ Home(u) \in Procs /\ Working(e) /\ HasSaved(e)
        BY <1>4, <2>6, <3>2, HomeType DEF HasSaved, Created, Working
      <4>2. e.tag \in Tags
        BY <4>1 DEF ServerInv, TypeInv, Shape
      <4>3. InFile(savers[FileOf[e.tag]], journal[FileOf[e.tag]],
                   Home(u), e.tag, e.id, e.text)
        BY <4>1 DEF ServerInv, KeptInv, CallInFile
      <4> HIDE DEF e
      <4>4. InFile(savers'[FileOf[e.tag]], journal'[FileOf[e.tag]],
                   Home(u), e.tag, e.id, e.text)
        BY <2>3, <4>1, <4>2, <4>3
      <4> QED
        BY <4>1, <4>4 DEF CallInFile
    <3> QED
      BY <3>1, <3>2
  <2> QED
    BY <1>6, <2>2, <2>5, <2>6 DEF KeptInv
<1> QED
  BY <1>7, <1>8 DEF ServerInv

LEMMA PersistStep ==
  ASSUME ServerInv, NEW t \in Threads, IngestPersist(t)
  PROVE  ServerInv'
BY RefusedStep, SavedStep DEF IngestPersist, Persist

LEMMA ForgetStep ==
  ASSUME ServerInv, NEW t \in Threads, Forget(t)
  PROVE  ServerInv'
<1> DEFINE c == call[t]
           p == Home(t)
           store == cells[p][c.tag]
           new == [store EXCEPT ![c.id].live = FALSE]
           d == [c EXCEPT !.pc = "push"]
<1>1. /\ p \in Procs /\ c \in Call /\ c.pc = "forget" /\ Working(c)
      /\ c.type = "memory_forgotten" /\ c.tag \in Tags
      /\ c.tag \in built[p] /\ store \in Store
  BY HomeType, StoreType
  DEF Forget, At, ServerInv, TypeInv, Shape, DoneInv, Ready, Working
<1>2. CASE ~Forgets(store, c.id)
  <2>1. NoCall \in Call /\ NoCall.pc = "idle"
    BY DEF NoCall, Call
  <2>2. /\ call' = [call EXCEPT ![t] = NoCall]
        /\ UNCHANGED <<built, cells, events, seqno, journal, savers, told>>
    BY <1>2 DEF Forget, StoreOf, Answers
  <2> HIDE DEF c, p, store
  <2> QED
    BY <2>1, <2>2, HandlerIdles
<1>3. CASE Forgets(store, c.id)
  <2>1. /\ cells' = [cells EXCEPT ![p][c.tag][c.id].live = FALSE]
        /\ call' = [call EXCEPT ![t] = d]
        /\ UNCHANGED <<built, events, seqno, journal, savers, told>>
    BY <1>3 DEF Forget, StoreOf, GoesTo
  <2>2. c.id \in DOMAIN store /\ store[c.id].live
    BY <1>3 DEF Forgets
  <2>3. /\ new \in Store /\ Continues(store, new)
        /\ c.id \in DOMAIN new /\ ~new[c.id].live
    BY <1>1, <2>2, ForgottenType
  <2>4. /\ d \in Call /\ d.pc = "push" /\ d.type = c.type
        /\ d.tag = c.tag /\ d.id = c.id
    BY <1>1 DEF Call
  <2>5. /\ cells' \in [Procs -> [Tags -> Store]]
        /\ \A q \in Procs : \A u \in Tags :
             cells'[q][u] = IF q = p /\ u = c.tag THEN new ELSE cells[q][u]
    BY <1>1, <2>1, <2>3 DEF ServerInv, TypeInv
  <2> HIDE DEF new, d
  <2>6. /\ call' \in [Threads -> Call]
        /\ \A u \in Threads : call'[u] = IF u = t THEN d ELSE call[u]
    BY <2>1, <2>4 DEF ServerInv, TypeInv
  <2>7. Forgetting(d) /\ ~Created(d) /\ Shape(d)
    BY <1>1, <2>4 DEF Forgetting, Created, Shape, EventType
  <2>8. TypeInv'
    BY <2>1, <2>5, <2>6, <2>7 DEF ServerInv, TypeInv
  <2>9. RingIsNewest'
    BY <2>1 DEF ServerInv, RingIsNewest
  <2>10. Grows
    <3>1. \A q \in Procs : built[q] \subseteq Tags
      BY DEF ServerInv, TypeInv
    <3>2. \A q \in Procs : \A u \in built[q] :
            Continues(cells[q][u], cells'[q][u])
      BY <2>3, <2>5, <3>1 DEF Continues
    <3> QED
      BY <2>1, <3>2 DEF Grows
  <2>11. KeptInv'
    <3>1. \A u \in Threads : HasSaved(call'[u]) => call'[u] = call[u]
      BY <2>6, <2>7 DEF HasSaved
    <3> QED
      BY <2>1, <2>10, <3>1, KeptStays DEF ServerInv
  <2>12. \A u \in Threads : Ready(u)'
    <3>1. Ready(t)'
      BY <1>1, <2>1, <2>3, <2>4, <2>5, <2>6, <2>7 DEF Ready
    <3>2. \A u \in Threads \ {t} : Ready(u)'
      BY <2>6, <2>10, ReadyGrows DEF ServerInv, DoneInv
    <3> QED
      BY <3>1, <3>2
  <2>13. \A q \in Procs : \A i \in DOMAIN events[q] :
           IsDone(q, events[q][i])'
    BY <2>1, <2>10, DoneGrows DEF ServerInv, DoneInv, IsDone
  \* The memory was alive, so nobody has forgotten it before.
  <2>14. Once'
    <3>1. ASSUME NEW i \in DOMAIN events[p],
                 events[p][i].type = "memory_forgotten"
          PROVE  ~Same(events[p][i], d)
      BY <1>1, <2>2, <2>4, <3>1 DEF ServerInv, DoneInv, IsDone, Same
    <3>2. ASSUME NEW u \in Threads, u # t, Home(u) = p, Forgetting(call[u])
          PROVE  ~Same(call[u], d) /\ ~Same(d, call[u])
      BY <1>1, <2>2, <2>4, <3>2 DEF ServerInv, DoneInv, Ready, Same
    <3>3. \A u \in Threads : Forgetting(call'[u]) =>
            \A i \in DOMAIN events[Home(u)] :
              events[Home(u)][i].type = "memory_forgotten" =>
                ~Same(events[Home(u)][i], call'[u])
      BY <2>6, <3>1 DEF ServerInv, DoneInv, Once
    <3>4. \A u, v \in Threads :
            u # v /\ Home(u) = Home(v)
              /\ Forgetting(call'[u]) /\ Forgetting(call'[v]) =>
                ~Same(call'[u], call'[v])
      BY <2>6, <3>2 DEF ServerInv, DoneInv, Once
    <3> QED
      BY <2>1, <3>3, <3>4 DEF ServerInv, DoneInv, Once
  <2> QED
    BY <2>1, <2>8, <2>9, <2>11, <2>12, <2>13, <2>14 DEF ServerInv, DoneInv
<1> QED
  BY <1>2, <1>3

LEMMA PushStep ==
  ASSUME ServerInv, NEW t \in Threads, PushAndAnswer(t)
  PROVE  ServerInv'
<1> DEFINE c == call[t]
           p == Home(t)
           e == [seq |-> seqno[p] + 1, type |-> c.type, tag |-> c.tag,
                 id |-> c.id]
           log == events[p]
           new == Pushed(log, e)
           k == Len(log) + 1 - Len(new)
<1>1. /\ p \in Procs /\ c \in Call /\ c.pc = "push" /\ c.type \in EventType
      /\ log \in Seq(Event) /\ seqno[p] \in Nat
  BY HomeType DEF PushAndAnswer, At, ServerInv, TypeInv, Shape
<1>2. e \in Event
  BY <1>1 DEF Event, Call
<1>3. /\ new \in Seq(Event) /\ k \in Nat
      /\ Len(log) \in Nat /\ Len(new) \in Nat
      /\ Len(new) = IF Ring <= Len(log) + 1 THEN Ring ELSE Len(log) + 1
      /\ \A i \in 1 .. Len(new) :
           new[i] = IF k + i <= Len(log) THEN log[k + i] ELSE e
      /\ DOMAIN new = 1 .. Len(new) /\ DOMAIN log = 1 .. Len(log)
  BY <1>1, <1>2, PushedType, LenProperties
<1>4. /\ events' = [events EXCEPT ![p] = new]
      /\ seqno' = [seqno EXCEPT ![p] = @ + 1]
      /\ call' = [call EXCEPT ![t] = NoCall]
      /\ told' = Told(t)
      /\ UNCHANGED <<built, cells, journal, savers>>
  BY DEF PushAndAnswer, PushEvent, Answers
<1>5. /\ e.seq = seqno[p] + 1 /\ e.type = c.type /\ e.tag = c.tag
      /\ e.id = c.id
  OBVIOUS
<1>6. /\ NoCall \in Call /\ Shape(NoCall) /\ ~Working(NoCall)
      /\ ~Created(NoCall) /\ ~Forgetting(NoCall) /\ NoCall.pc # "persist"
  BY DEF NoCall, Call, Shape, Working, Created, Forgetting
<1> HIDE DEF e, new, k
<1>7. /\ events' \in [Procs -> Seq(Event)]
      /\ \A q \in Procs : events'[q] = IF q = p THEN new ELSE events[q]
      /\ seqno' \in [Procs -> Nat]
      /\ \A q \in Procs : seqno'[q] = IF q = p THEN seqno[p] + 1 ELSE seqno[q]
      /\ call' \in [Threads -> Call]
      /\ \A u \in Threads : call'[u] = IF u = t THEN NoCall ELSE call[u]
  BY <1>1, <1>3, <1>4, <1>6 DEF ServerInv, TypeInv
<1>8. TypeInv'
  BY <1>4, <1>6, <1>7 DEF ServerInv, TypeInv
<1>9. RingIsNewest'
  <2>1. Ring \in Nat /\ Ring > 0
    BY ServerAssumption
  <2>2. /\ Len(log) = IF Ring <= seqno[p] THEN Ring ELSE seqno[p]
        /\ \A i \in DOMAIN log : log[i].seq = seqno[p] - Len(log) + i
    BY <1>1, <2>1, MinOfTwo DEF ServerInv, RingIsNewest
  <2>3. Len(new) = IF Ring <= seqno[p] + 1 THEN Ring ELSE seqno[p] + 1
    BY <1>1, <1>3, <2>1, <2>2
  <2>4. Len(new) = Min({Ring, seqno[p] + 1})
    BY <1>1, <2>1, <2>3, MinOfTwo
  <2>5. ASSUME NEW i \in DOMAIN new
        PROVE  new[i].seq = seqno[p] + 1 - Len(new) + i
    <3>1. i \in 1 .. Len(new) /\ k = Len(log) + 1 - Len(new)
      BY <1>3 DEF k
    <3>2. CASE k + i <= Len(log)
      <4>1. new[i] = log[k + i] /\ k + i \in DOMAIN log
        BY <1>3, <3>1, <3>2
      <4>2. new[i].seq = seqno[p] - Len(log) + (k + i)
        BY <2>2, <4>1
      <4> QED
        BY <1>1, <1>3, <3>1, <4>2
    <3>3. CASE ~(k + i <= Len(log))
      <4>1. new[i] = e /\ i = Len(new)
        BY <1>3, <3>1, <3>3
      <4> QED
        BY <1>1, <1>3, <1>5, <4>1
    <3> QED
      BY <3>2, <3>3
  <2> SUFFICES ASSUME NEW q \in Procs
               PROVE  /\ Len(events'[q]) = Min({Ring, seqno'[q]})
                      /\ \A i \in DOMAIN events'[q] :
                           events'[q][i].seq
                             = seqno'[q] - Len(events'[q]) + i
    BY DEF RingIsNewest
  <2>6. CASE q = p
    <3>1. events'[q] = new /\ seqno'[q] = seqno[p] + 1
      BY <1>7, <2>6
    <3> HIDE DEF p, log
    <3>2. Len(events'[q]) = Len(new)
          /\ Min({Ring, seqno'[q]}) = Min({Ring, seqno[p] + 1})
          /\ DOMAIN events'[q] = DOMAIN new
      BY <3>1, Zenon
    <3>3. ASSUME NEW i \in DOMAIN new
          PROVE  events'[q][i].seq = seqno'[q] - Len(events'[q]) + i
      <4>1. events'[q][i].seq = new[i].seq
        BY <3>1, Zenon
      <4>2. new[i].seq = seqno[p] + 1 - Len(new) + i
        BY <2>5
      <4>3. seqno'[q] - Len(events'[q]) + i = seqno[p] + 1 - Len(new) + i
        <5>1. /\ Len(events'[q]) = Len(new) /\ seqno'[q] = seqno[p] + 1
              /\ Len(new) \in Nat /\ seqno[p] \in Nat /\ i \in Nat
          BY <1>1, <1>3, <3>1
        <5> QED
          BY <5>1
      <4> QED
        BY <4>1, <4>2, <4>3, Zenon
    <3> QED
      BY <2>4, <3>2, <3>3, Zenon
  <2>7. CASE q # p
    BY <1>7, <2>7 DEF ServerInv, RingIsNewest
  <2> QED
    BY <2>6, <2>7
<1>10. \A u \in Threads : Ready(u)'
  BY <1>4, <1>6, <1>7 DEF ServerInv, DoneInv, Ready
\* Each event of the new ring was in the old one, or is the new event.
<1>11. ASSUME NEW i \in DOMAIN new
       PROVE  \/ k + i \in DOMAIN log /\ new[i] = log[k + i]
              \/ k + i = Len(log) + 1 /\ new[i] = e
  BY <1>3, <1>11 DEF k
<1>12. (\A q \in Procs : \A i \in DOMAIN events[q] :
           IsDone(q, events[q][i]))'
  <2>1. IsDone(p, e)
    BY <1>1, <1>5 DEF ServerInv, DoneInv, Ready, IsDone, Working, Created,
                      Forgetting, EventType
  <2>2. \A i \in DOMAIN new : IsDone(p, new[i])
    BY <1>1, <1>11, <2>1 DEF ServerInv, DoneInv
  <2>3. \A q \in Procs : \A i \in DOMAIN events'[q] :
          IsDone(q, events'[q][i])
    BY <1>7, <2>2 DEF ServerInv, DoneInv
  <2> QED
    BY <1>4, <2>3 DEF IsDone
<1>13. Once'
  <2>1. ASSUME c.type = "memory_forgotten",
               NEW i \in DOMAIN log, log[i].type = "memory_forgotten"
        PROVE  ~Same(log[i], e) /\ ~Same(e, log[i])
    BY <1>1, <1>5, <2>1 DEF ServerInv, DoneInv, Once, Forgetting, Same
  <2>2. ASSUME NEW i \in DOMAIN new, NEW j \in DOMAIN new, i # j,
               new[i].type = "memory_forgotten",
               new[j].type = "memory_forgotten"
        PROVE  ~Same(new[i], new[j])
    <3>1. k + i # k + j
      BY <1>3, <2>2
    <3>2. CASE k + i \in DOMAIN log /\ new[i] = log[k + i]
               /\ k + j \in DOMAIN log /\ new[j] = log[k + j]
      BY <1>1, <2>2, <3>1, <3>2 DEF ServerInv, DoneInv, Once
    <3>3. CASE k + i = Len(log) + 1 /\ new[i] = e
               /\ k + j \in DOMAIN log /\ new[j] = log[k + j]
      BY <1>5, <2>1, <2>2, <3>3
    <3>4. CASE k + i \in DOMAIN log /\ new[i] = log[k + i]
               /\ k + j = Len(log) + 1 /\ new[j] = e
      BY <1>5, <2>1, <2>2, <3>4
    <3> QED
      BY <1>11, <3>1, <3>2, <3>3, <3>4
  <2>3. ASSUME NEW u \in Threads, Forgetting(call'[u]),
               NEW i \in DOMAIN events'[Home(u)],
               events'[Home(u)][i].type = "memory_forgotten"
        PROVE  ~Same(events'[Home(u)][i], call'[u])
    <3>1. u # t /\ call'[u] = call[u] /\ Home(u) \in Procs
      BY <1>6, <1>7, <2>3, HomeType
    <3>2. CASE Home(u) # p
      BY <1>7, <2>3, <3>1, <3>2 DEF ServerInv, DoneInv, Once
    <3>3. CASE Home(u) = p /\ k + i \in DOMAIN log /\ new[i] = log[k + i]
      BY <1>7, <2>3, <3>1, <3>3 DEF ServerInv, DoneInv, Once
    <3>4. CASE Home(u) = p /\ k + i = Len(log) + 1 /\ new[i] = e
      <4>1. Forgetting(c) /\ events'[Home(u)][i] = e
        BY <1>1, <1>5, <1>7, <2>3, <3>1, <3>4 DEF Forgetting
      <4>2. ~Same(c, call[u])
        BY <2>3, <3>1, <3>4, <4>1 DEF ServerInv, DoneInv, Once
      <4> QED
        BY <1>5, <3>1, <4>1, <4>2 DEF Same
    <3> QED
      BY <1>7, <1>11, <2>3, <3>1, <3>2, <3>3, <3>4
  <2>4. \A u, v \in Threads :
          u # v /\ Home(u) = Home(v)
            /\ Forgetting(call'[u]) /\ Forgetting(call'[v]) =>
              ~Same(call'[u], call'[v])
    BY <1>6, <1>7 DEF ServerInv, DoneInv, Once
  <2>5. \A q \in Procs : \A i, j \in DOMAIN events'[q] :
          i # j /\ events'[q][i].type = "memory_forgotten"
            /\ events'[q][j].type = "memory_forgotten" =>
              ~Same(events'[q][i], events'[q][j])
    BY <1>7, <2>2 DEF ServerInv, DoneInv, Once
  <2> QED
    BY <2>3, <2>4, <2>5 DEF Once
<1>14. KeptInv'
  <2>1. ASSUME NEW m \in told'
        PROVE  m \in Promise /\ Kept(m)
    <3>1. CASE m \in told
      BY <3>1 DEF ServerInv, KeptInv
    <3>2. CASE m \notin told
      <4>1. /\ c.type = "memory_created"
            /\ m = [proc |-> p, tag |-> c.tag, text |-> c.text, id |-> c.id,
                    saved |-> c.saved, here |-> TRUE]
        BY <1>4, <2>1, <3>2 DEF Told
      <4>2. /\ Created(c) /\ c.tag \in Tags /\ c.text \in Texts /\ c.id \in Nat
            /\ c.saved \in BOOLEAN
        BY <1>1, <4>1
        DEF Created, Call, ServerInv, TypeInv, Shape, Working
      <4>3. m \in Promise
        BY <1>1, <4>1, <4>2 DEF Promise
      <4>4. c.tag \in built[p] /\ Has(cells[p][c.tag], c.id, c.text)
        BY <1>1, <4>1, <4>2
        DEF ServerInv, DoneInv, Ready, Has, Created, Working
      <4>5. c.saved => InFile(savers[FileOf[c.tag]], journal[FileOf[c.tag]],
                              p, c.tag, c.id, c.text)
        BY <4>2 DEF ServerInv, KeptInv, HasSaved, CallInFile
      <4>6. /\ m.proc = p /\ m.tag = c.tag /\ m.text = c.text /\ m.id = c.id
            /\ m.saved = c.saved /\ m.here = TRUE
        BY <4>1
      <4> HIDE DEF c, p
      <4> QED
        BY <4>3, <4>4, <4>5, <4>6 DEF Kept
    <3> QED
      BY <3>1, <3>2
  <2>2. \A m \in told' : Kept(m)'
    BY <1>4, <2>1 DEF Kept, InFile
  <2>3. \A u \in Threads : HasSaved(call'[u]) => call'[u] = call[u]
    BY <1>6, <1>7 DEF HasSaved
  <2>4. \A u \in Threads : HasSaved(call'[u]) =>
          CallInFile(u)'
    BY <1>4, <2>3 DEF ServerInv, KeptInv, CallInFile
  <2> QED
    BY <1>4, <2>1, <2>2, <2>4 DEF ServerInv, KeptInv
<1> QED
  BY <1>8, <1>9, <1>10, <1>12, <1>13, <1>14 DEF ServerInv, DoneInv

LEMMA RestartStep ==
  ASSUME ServerInv, NEW p \in Procs, Restart(p)
  PROVE  ServerInv'
<1>1. /\ built' = [built EXCEPT ![p] = {}]
      /\ cells' = [cells EXCEPT ![p] = [tag \in Tags |-> << >>]]
      /\ events' = [events EXCEPT ![p] = << >>]
      /\ seqno' = [seqno EXCEPT ![p] = 0]
      /\ call' = [t \in Threads |-> IF Home(t) = p THEN NoCall ELSE call[t]]
      /\ told' = Outlives(p)
      /\ UNCHANGED <<journal, savers>>
  BY DEF Restart
<1>2. /\ NoCall \in Call /\ Shape(NoCall) /\ ~Working(NoCall)
      /\ ~Created(NoCall) /\ ~Forgetting(NoCall) /\ NoCall.pc # "persist"
  BY DEF NoCall, Call, Shape, Working, Created, Forgetting
<1>3. << >> \in Store
  BY DEF Store
<1>4. /\ built' \in [Procs -> SUBSET Tags]
      /\ cells' \in [Procs -> [Tags -> Store]]
      /\ events' \in [Procs -> Seq(Event)] /\ seqno' \in [Procs -> Nat]
      /\ call' \in [Threads -> Call]
  BY <1>1, <1>2, <1>3 DEF ServerInv, TypeInv
<1>5. /\ built'[p] = {} /\ events'[p] = << >> /\ seqno'[p] = 0
      /\ \A q \in Procs \ {p} :
           /\ built'[q] = built[q] /\ cells'[q] = cells[q]
           /\ events'[q] = events[q] /\ seqno'[q] = seqno[q]
      /\ \A t \in Threads : call'[t] = IF Home(t) = p THEN NoCall ELSE call[t]
  BY <1>1 DEF ServerInv, TypeInv
<1>6. TypeInv'
  BY <1>1, <1>2, <1>4, <1>5 DEF ServerInv, TypeInv
<1>7. RingIsNewest'
  <2>1. Min({Ring, 0}) = 0
    BY MinOfTwo, ServerAssumption
  <2> SUFFICES ASSUME NEW q \in Procs
               PROVE  /\ Len(events'[q]) = Min({Ring, seqno'[q]})
                      /\ \A i \in DOMAIN events'[q] :
                           events'[q][i].seq
                             = seqno'[q] - Len(events'[q]) + i
    BY DEF RingIsNewest
  <2>2. CASE q = p
    <3>1. Len(events'[q]) = 0 /\ DOMAIN events'[q] = {}
      BY <1>5, <2>2
    <3>2. Min({Ring, seqno'[q]}) = 0
      BY <1>5, <2>1, <2>2
    <3> QED
      BY <3>1, <3>2
  <2>3. CASE q # p
    BY <1>5, <2>3 DEF ServerInv, RingIsNewest
  <2> QED
    BY <2>2, <2>3
<1>8. DoneInv'
  <2>1. \A t \in Threads : Ready(t)'
    BY <1>2, <1>5, HomeType DEF ServerInv, DoneInv, Ready
  <2>2. (\A q \in Procs : \A i \in DOMAIN events[q] :
          IsDone(q, events[q][i]))'
    BY <1>5 DEF ServerInv, DoneInv, IsDone
  <2>3. Once'
    BY <1>2, <1>5, HomeType DEF ServerInv, DoneInv, Once
  <2> QED
    BY <2>1, <2>2, <2>3 DEF DoneInv
<1>9. KeptInv'
  <2>1. \A q \in Procs : \A tag \in built'[q] :
          Only(savers[FileOf[tag]], q, tag) =>
            \A i \in DOMAIN journal[FileOf[tag]] :
              Has(cells'[q][tag], i, journal[FileOf[tag]][i].text)
    BY <1>5 DEF ServerInv, KeptInv
  <2>2. \A t \in Threads : HasSaved(call'[t]) =>
          CallInFile(t)'
    BY <1>1, <1>2, <1>5 DEF ServerInv, KeptInv, HasSaved, CallInFile
  <2>3. ASSUME NEW m \in told'
        PROVE  m \in Promise /\ Kept(m)'
    <3>1. PICK n \in told : /\ n.proc # p \/ n.saved
                            /\ m = [n EXCEPT !.here = @ /\ n.proc # p]
      BY <1>1 DEF Outlives
    <3>2. n \in Promise /\ Kept(n)
      BY DEF ServerInv, KeptInv
    <3>3. /\ m \in Promise /\ m.proc = n.proc /\ m.tag = n.tag
          /\ m.text = n.text /\ m.id = n.id /\ m.saved = n.saved
          /\ m.here = (n.here /\ n.proc # p) /\ n.proc \in Procs
      BY <3>1, <3>2 DEF Promise
    <3>4. m.here \/ m.saved
      BY <3>1, <3>2, <3>3 DEF Kept
    <3>5. ASSUME m.here
          PROVE  /\ m.tag \in built'[m.proc]
                 /\ Has(cells'[m.proc][m.tag], m.id, m.text)
      <4>1. n.here /\ m.proc \in Procs \ {p}
        BY <3>3, <3>5
      <4>2. built'[m.proc] = built[m.proc] /\ cells'[m.proc] = cells[m.proc]
        BY <1>5, <4>1
      <4>3. m.tag \in built[m.proc]
            /\ Has(cells[m.proc][m.tag], m.id, m.text)
        BY <3>2, <3>3, <4>1 DEF Kept
      <4> QED
        BY <4>2, <4>3
    <3>6. m.saved => InFile(savers'[FileOf[m.tag]], journal'[FileOf[m.tag]],
                            m.proc, m.tag, m.id, m.text)
      BY <1>1, <3>2, <3>3 DEF Kept, InFile
    <3> QED
      BY <3>3, <3>4, <3>5, <3>6 DEF Kept
  <2> QED
    BY <1>1, <2>1, <2>2, <2>3 DEF ServerInv, KeptInv
<1> QED
  BY <1>6, <1>7, <1>8, <1>9 DEF ServerInv

----------------------------------------------------------------------------
(* The theorems.                                                           *)

LEMMA InitInv == Init => ServerInv
<1> SUFFICES ASSUME Init PROVE ServerInv
  OBVIOUS
<1>1. << >> \in Store
  BY DEF Store
<1>2. /\ NoCall \in Call /\ Shape(NoCall) /\ ~Working(NoCall)
      /\ ~Created(NoCall) /\ ~Forgetting(NoCall) /\ NoCall.pc # "persist"
  BY DEF NoCall, Call, Shape, Working, Created, Forgetting
<1>3. TypeInv
  BY <1>1, <1>2 DEF Init, TypeInv
<1>4. Min({Ring, 0}) = 0
  BY MinOfTwo, ServerAssumption
<1>5. RingIsNewest
  BY <1>4 DEF Init, RingIsNewest
<1>6. DoneInv
  BY <1>2 DEF Init, DoneInv, Ready, Once
<1>7. KeptInv
  BY <1>2 DEF Init, KeptInv, HasSaved
<1> QED
  BY <1>3, <1>5, <1>6, <1>7 DEF ServerInv

\* Reading requests and tools find or build a client and are answered.
LEMMA ReadsStep ==
  ASSUME ServerInv, NEW t \in Threads, Reads(t)
  PROVE  ServerInv'
<1>1. PICK tag \in Named[Home(t)] : GetClient(Home(t), tag)
  BY DEF Reads
<1>2. tag \in Tags
  BY HomeType, ServerAssumption
<1>3. /\ NoCall \in Call /\ Shape(NoCall) /\ ~Working(NoCall)
      /\ ~Created(NoCall) /\ ~Forgetting(NoCall) /\ NoCall.pc # "persist"
  BY DEF NoCall, Call, Shape, Working, Created, Forgetting
<1>4. call' = [call EXCEPT ![t] = NoCall]
      /\ UNCHANGED <<events, seqno, journal, savers, told>>
  BY DEF Reads, Answers
<1> QED
  BY <1>1, <1>2, <1>3, <1>4, HandlerBegins

\* A request arrives and waits.
LEMMA ArriveStep ==
  ASSUME ServerInv, NEW t \in Callers, Arrive(t)
  PROVE  ServerInv'
<1> DEFINE c == [call[t] EXCEPT !.pc = "waiting"]
<1>1. t \in Threads /\ call[t] \in Call
  BY DEF Threads, ServerInv, TypeInv
<1>2. c \in Call /\ c.pc = "waiting"
  BY <1>1 DEF Call
<1>3. call' = [call EXCEPT ![t] = c]
      /\ UNCHANGED <<built, cells, events, seqno, journal, savers, told>>
  BY DEF Arrive, GoesTo
<1> HIDE DEF c
<1> QED
  BY <1>1, <1>2, <1>3, HandlerIdles

LEMMA ServeStep ==
  ASSUME ServerInv, NEW t \in Callers, Serve(t)
  PROVE  ServerInv'
<1>1. t \in Threads /\ Home(t) = "http" /\ "http" \in Procs
  BY ServerAssumption DEF Threads, Home, Procs
<1>0. call[t] \in Call
  BY <1>1 DEF ServerInv, TypeInv
<1>2. Named["http"] \subseteq Tags /\ Says["http"] \subseteq Texts
  BY <1>1, ServerAssumption
<1>3. CASE GetHealth(t) \/ GetGraph(t) \/ GetProfile(t)
  BY <1>1, <1>3, ReadsStep DEF GetHealth, GetGraph, GetProfile
<1>4. CASE GetMetrics(t)
  <2> DEFINE c == [call[t] EXCEPT !.pc = "measure"]
  <2>1. c \in Call /\ Shape(c) /\ ~Working(c) /\ ~Created(c) /\ ~Forgetting(c)
        /\ c.pc # "persist"
    BY <1>0 DEF Call, Shape, Working, Created, Forgetting
  <2>2. PICK tag \in Named["http"] : GetClient("http", tag)
    BY <1>4 DEF GetMetrics
  <2>3. call' = [call EXCEPT ![t] = c]
        /\ UNCHANGED <<events, seqno, journal, savers, told>>
    BY <1>4 DEF GetMetrics, GoesTo
  <2> HIDE DEF c
  <2> QED
    BY <1>1, <1>2, <2>1, <2>2, <2>3, HandlerBegins
<1>5. CASE GetEvents(t)
  <2> DEFINE c == [call[t] EXCEPT !.pc = "sending"]
  <2>1. c \in Call /\ c.pc = "sending"
    BY <1>0 DEF Call
  <2>2. call' = [call EXCEPT ![t] = c]
        /\ UNCHANGED <<built, cells, events, seqno, journal, savers, told>>
    BY <1>5 DEF GetEvents, GoesTo
  <2> HIDE DEF c
  <2> QED
    BY <1>1, <2>1, <2>2, HandlerIdles
<1>6. CASE Ask(t) \/ Recall(t)
  <2> DEFINE c == [pc |-> "push", type |-> "query_executed", tag |-> "none",
                   text |-> "none", id |-> 0, saved |-> FALSE]
  <2>1. c \in Call /\ Shape(c) /\ ~Working(c) /\ ~Created(c) /\ ~Forgetting(c)
        /\ c.pc # "persist"
    BY DEF Call, EventType, Shape, Working, Created, Forgetting
  <2>2. PICK tag \in Named["http"] : GetClient("http", tag)
    BY <1>6 DEF Ask, Recall
  <2>3. call' = [call EXCEPT ![t] = c]
        /\ UNCHANGED <<events, seqno, journal, savers, told>>
    BY <1>6 DEF Ask, Recall, Begins
  <2> HIDE DEF c
  <2> QED
    BY <1>1, <1>2, <2>1, <2>2, <2>3, HandlerBegins
<1>7. CASE PostMemories(t)
  <2>1. PICK tag \in Named["http"], x \in Says["http"] :
          /\ GetClient("http", tag)
          /\ Begins(t, "ingest", "memory_created", tag, x, 0)
    BY <1>7 DEF PostMemories
  <2> DEFINE c == [pc |-> "ingest", type |-> "memory_created", tag |-> tag,
                   text |-> x, id |-> 0, saved |-> FALSE]
  <2>2. c \in Call /\ Shape(c) /\ ~Created(c) /\ ~Forgetting(c)
        /\ c.pc # "persist" /\ c.tag = tag /\ tag \in Tags
    BY <1>2 DEF Call, EventType, Shape, Working, Created, Forgetting
  <2>3. call' = [call EXCEPT ![t] = c]
        /\ UNCHANGED <<events, seqno, journal, savers, told>>
    BY <1>7, <2>1 DEF PostMemories, Begins
  <2> HIDE DEF c
  <2> QED
    BY <1>1, <2>1, <2>2, <2>3, HandlerBegins
<1>8. CASE PostForget(t)
  <2>0. PICK tag \in Named["http"] :
          /\ GetClient("http", tag)
          /\ \E i \in Ids(cells'["http"][tag]) :
               Begins(t, "forget", "memory_forgotten", tag, "none", i)
    BY <1>8 DEF PostForget
  <2>1. PICK i \in Ids(cells'["http"][tag]) :
          Begins(t, "forget", "memory_forgotten", tag, "none", i)
    BY <2>0
  <2> DEFINE c == [pc |-> "forget", type |-> "memory_forgotten", tag |-> tag,
                   text |-> "none", id |-> i, saved |-> FALSE]
  <2>2. tag \in Tags /\ i \in Nat
    BY <1>2 DEF Ids
  <2>3. c \in Call /\ Shape(c) /\ ~Created(c) /\ ~Forgetting(c)
        /\ c.pc # "persist" /\ c.tag = tag
    BY <2>2 DEF Call, EventType, Shape, Working, Created, Forgetting
  <2>4. call' = [call EXCEPT ![t] = c]
        /\ UNCHANGED <<events, seqno, journal, savers, told>>
    BY <1>8, <2>1 DEF PostForget, Begins
  <2> HIDE DEF c
  <2> QED
    BY <1>1, <2>0, <2>2, <2>3, <2>4, HandlerBegins
<1> QED
  BY <1>3, <1>4, <1>5, <1>6, <1>7, <1>8 DEF Serve

LEMMA LineStep ==
  ASSUME ServerInv, Line
  PROVE  ServerInv'
<1>1. Agent \in Threads /\ Home(Agent) = "mcp" /\ "mcp" \in Procs
  BY DEF Threads, Home, Procs
<1>2. Named["mcp"] \subseteq Tags /\ Says["mcp"] \subseteq Texts
  BY <1>1, ServerAssumption
<1>3. CASE ToolContext \/ ToolProfile \/ ToolTimeline
  BY <1>1, <1>3, ReadsStep DEF ToolContext, ToolProfile, ToolTimeline
<1>4. CASE ToolRecall
  <2> DEFINE c == [pc |-> "push", type |-> "query_executed", tag |-> "none",
                   text |-> "none", id |-> 0, saved |-> FALSE]
  <2>1. c \in Call /\ Shape(c) /\ ~Working(c) /\ ~Created(c) /\ ~Forgetting(c)
        /\ c.pc # "persist"
    BY DEF Call, EventType, Shape, Working, Created, Forgetting
  <2>2. PICK tag \in Named["mcp"] : GetClient("mcp", tag)
    BY <1>4 DEF ToolRecall
  <2>3. call' = [call EXCEPT ![Agent] = c]
        /\ UNCHANGED <<events, seqno, journal, savers, told>>
    BY <1>4 DEF ToolRecall, Begins
  <2> HIDE DEF c
  <2> QED
    BY <1>1, <1>2, <2>1, <2>2, <2>3, HandlerBegins
<1>5. CASE ToolMemory
  <2>1. PICK tag \in Named["mcp"], x \in Says["mcp"] :
          /\ GetClient("mcp", tag)
          /\ Begins(Agent, "ingest", "memory_created", tag, x, 0)
    BY <1>5 DEF ToolMemory
  <2> DEFINE c == [pc |-> "ingest", type |-> "memory_created", tag |-> tag,
                   text |-> x, id |-> 0, saved |-> FALSE]
  <2>2. c \in Call /\ Shape(c) /\ ~Created(c) /\ ~Forgetting(c)
        /\ c.pc # "persist" /\ c.tag = tag /\ tag \in Tags
    BY <1>2 DEF Call, EventType, Shape, Working, Created, Forgetting
  <2>3. call' = [call EXCEPT ![Agent] = c]
        /\ UNCHANGED <<events, seqno, journal, savers, told>>
    BY <1>5, <2>1 DEF ToolMemory, Begins
  <2> HIDE DEF c
  <2> QED
    BY <1>1, <2>1, <2>2, <2>3, HandlerBegins
<1>6. CASE ToolForget
  <2>0. PICK tag \in Named["mcp"] :
          /\ GetClient("mcp", tag)
          /\ \E i \in Ids(cells'["mcp"][tag]) :
               Begins(Agent, "forget", "memory_forgotten", tag, "none", i)
    BY <1>6 DEF ToolForget
  <2>1. PICK i \in Ids(cells'["mcp"][tag]) :
          Begins(Agent, "forget", "memory_forgotten", tag, "none", i)
    BY <2>0
  <2> DEFINE c == [pc |-> "forget", type |-> "memory_forgotten", tag |-> tag,
                   text |-> "none", id |-> i, saved |-> FALSE]
  <2>2. tag \in Tags /\ i \in Nat
    BY <1>2 DEF Ids
  <2>3. c \in Call /\ Shape(c) /\ ~Created(c) /\ ~Forgetting(c)
        /\ c.pc # "persist" /\ c.tag = tag
    BY <2>2 DEF Call, EventType, Shape, Working, Created, Forgetting
  <2>4. call' = [call EXCEPT ![Agent] = c]
        /\ UNCHANGED <<events, seqno, journal, savers, told>>
    BY <1>6, <2>1 DEF ToolForget, Begins
  <2> HIDE DEF c
  <2> QED
    BY <1>1, <2>0, <2>2, <2>3, <2>4, HandlerBegins
<1> QED
  BY <1>3, <1>4, <1>5, <1>6 DEF Line

\* A handler is answered with nothing done.
LEMMA AnswerStep ==
  ASSUME ServerInv, NEW t \in Threads, Answers(t),
         UNCHANGED <<built, cells, events, seqno, journal, savers, told>>
  PROVE  ServerInv'
<1>1. NoCall \in Call /\ NoCall.pc = "idle"
  BY DEF NoCall, Call
<1>2. call' = [call EXCEPT ![t] = NoCall]
  BY DEF Answers
<1> QED
  BY <1>1, <1>2, HandlerIdles

LEMMA InvInductive == ServerInv /\ [Next]_vars => ServerInv'
<1> SUFFICES ASSUME ServerInv, [Next]_vars PROVE ServerInv'
  OBVIOUS
<1>1. ASSUME NEW t \in Callers, Arrive(t) PROVE ServerInv'
  BY <1>1, ArriveStep
<1>7. ASSUME NEW t \in Callers, Serve(t) PROVE ServerInv'
  BY <1>7, ServeStep
<1>2. ASSUME NEW t \in Callers, ClientReads(t) PROVE ServerInv'
  BY <1>2, AnswerStep DEF ClientReads, Threads
<1>3. CASE Line
  BY <1>3, LineStep
<1>4. ASSUME NEW t \in Threads, Handle(t) PROVE ServerInv'
  <2>1. CASE MeasureLatency(t)
    BY <2>1, AnswerStep DEF MeasureLatency
  <2>2. CASE Ingest(t)
    BY <2>2, IngestStep
  <2>3. CASE IngestPersist(t)
    BY <2>3, PersistStep
  <2>4. CASE Forget(t)
    BY <2>4, ForgetStep
  <2>5. CASE PushAndAnswer(t)
    BY <2>5, PushStep
  <2> QED
    BY <1>4, <2>1, <2>2, <2>3, <2>4, <2>5 DEF Handle
<1>5. ASSUME NEW p \in Procs, Restart(p) PROVE ServerInv'
  BY <1>5, RestartStep
<1>6. CASE UNCHANGED vars
  <2>1. Grows /\ TypeInv' /\ \A t \in Threads : GoesOn(t)
    BY <1>6 DEF vars, Grows, Continues, GoesOn, ServerInv, TypeInv
  <2> QED
    BY <1>6, <2>1, InvStays DEF vars
<1> QED
  BY <1>1, <1>2, <1>3, <1>4, <1>5, <1>6, <1>7 DEF Next

LEMMA InvHolds == Spec => []ServerInv
BY InitInv, InvInductive, PTL DEF Spec

\* The ring of events has no gap, whatever threads push at once and however
\* long it is (Server.RingIsNewest).
THEOREM RingHasNoGap == Spec => []RingIsNewest
<1>1. ServerInv => RingIsNewest
  BY DEF ServerInv
<1> QED
  BY <1>1, InvHolds, PTL

\* An event is pushed after what it tells of, and a memory is announced as
\* forgotten once (Server.AnnouncedIsDone).
THEOREM EventsTellWhatIsDone == Spec => []AnnouncedIsDone
<1>1. ServerInv => AnnouncedIsDone
  BY DEF ServerInv, DoneInv, Once, IsDone, Same, AnnouncedIsDone
<1> QED
  BY <1>1, InvHolds, PTL

\* What a server has answered to be stored is in the store under its id for as
\* long as the process runs, even if its save was refused, and, once a save has
\* succeeded, in the journal and in the stores of later processes, as long as
\* no other client saves to that journal (Server.ToldIsKept).
THEOREM WhatIsToldIsKept == Spec => []ToldIsKept
<1>1. ServerInv => ToldIsKept
  <2> SUFFICES ASSUME ServerInv, NEW m \in told
               PROVE  /\ m.here => /\ m.tag \in built[m.proc]
                                   /\ IsIn(cells[m.proc][m.tag], m)
                      /\ m.saved
                         /\ savers[FileOf[m.tag]] = {<<m.proc, m.tag>>} =>
                           /\ IsIn(journal[FileOf[m.tag]], m)
                           /\ m.tag \in built[m.proc] =>
                                IsIn(cells[m.proc][m.tag], m)
    BY DEF ToldIsKept
  <2>1. m.proc \in Procs /\ m.tag \in Tags /\ Kept(m)
    BY DEF ServerInv, KeptInv, Promise
  <2>2. ASSUME m.saved, savers[FileOf[m.tag]] = {<<m.proc, m.tag>>}
        PROVE  /\ Has(journal[FileOf[m.tag]], m.id, m.text)
               /\ m.tag \in built[m.proc] =>
                    Has(cells[m.proc][m.tag], m.id, m.text)
    <3> DEFINE file == journal[FileOf[m.tag]]
    <3>1. Only(savers[FileOf[m.tag]], m.proc, m.tag)
      BY <2>2 DEF Only
    <3>2. Has(file, m.id, m.text)
      BY <2>1, <2>2, <3>1 DEF Kept, InFile
    <3>3. ASSUME m.tag \in built[m.proc]
          PROVE  Has(cells[m.proc][m.tag], m.id, m.text)
      <4>1. \A i \in DOMAIN file :
              Has(cells[m.proc][m.tag], i, file[i].text)
        BY <2>1, <3>1, <3>3 DEF ServerInv, KeptInv
      <4>2. m.id \in DOMAIN file /\ file[m.id].text = m.text
        BY <3>2 DEF Has
      <4> HIDE DEF file
      <4> QED
        BY <4>1, <4>2
    <3> QED
      BY <3>2, <3>3
  <2> QED
    BY <2>1, <2>2 DEF Kept, Has, IsIn
<1> QED
  BY <1>1, InvHolds, PTL

=============================================================================

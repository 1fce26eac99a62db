----------------------------- MODULE JobsProofs -----------------------------
(***************************************************************************)
(* What Jobs' run checks with two callers, one space and two jobs, for any *)
(* number of them: sessions are ingested in order, what is complete and    *)
(* what was told to be complete is kept, and a space that is announced is  *)
(* open or being opened under the lock.                                    *)
(***************************************************************************)
EXTENDS Jobs, SequenceTheorems, WellFoundedInduction, TLAPS

----------------------------------------------------------------------------
(* The invariant.                                                          *)

Working == worker.pc \in {"start", "ingest", "report"}

TablesInv ==
  /\ issued \in Nat /\ DOMAIN jobs \subseteq 1 .. issued
  /\ \A j \in DOMAIN jobs :
       jobs[j] \in [session : Sessions, status : Statuses]
  /\ spaces \subseteq Spaces /\ clients \subseteq Spaces
  /\ told \subseteq Sessions
  /\ DOMAIN store = Spaces /\ DOMAIN journal = Spaces
  /\ failures \in [Spaces -> BOOLEAN]

\* The requests under way: who builds a client has the lock, and a job whose
\* status is about to be read is in the table.
CallsInv ==
  /\ DOMAIN call = Callers
  /\ \A c \in Callers :
       /\ At(c, "open") \/ At(c, "building") => call[c].arg \in Spaces
       /\ At(c, "post") => call[c].arg \in Sessions
       /\ At(c, "read") => call[c].arg \in DOMAIN jobs
       /\ At(c, "building") => lock = c

\* The worker's job is the one that is running, and there is no other.
WorkerInv ==
  /\ worker \in [pc : {"look", "sleep", "start", "ingest", "report"},
                 job : Nat, done : Nat, ending : Finished]
  /\ worker.pc = "sleep" => lock = "worker"
  /\ Working => worker.job \in DOMAIN jobs
  /\ \A j \in DOMAIN jobs :
       jobs[j].status = "running" <=> Working /\ j = worker.job

\* What the worker has done of it: the turns so far are in the store, and at
\* a good end all of them are, and in the journal if the save was not refused.
ProgressInv ==
  /\ \A j \in DOMAIN jobs : SpaceOfJob(j) \in clients
  /\ \A s \in clients : journal[s] \subseteq store[s]
  /\ worker.pc = "ingest" =>
       LET turns == Turns[jobs[worker.job].session]
       IN /\ worker.done <= Len(turns)
          /\ \A i \in 1 .. worker.done :
               turns[i] \in store[SpaceOfJob(worker.job)]
  /\ worker.pc = "report" /\ worker.ending = "complete" =>
       LET s == SpaceOfJob(worker.job)
       IN /\ TurnsOfJob(worker.job) \subseteq store[s]
          /\ failures[s] \/ TurnsOfJob(worker.job) \subseteq journal[s]

JobsInv ==
  /\ TablesInv /\ CallsInv /\ WorkerInv /\ ProgressInv
  /\ IngestInOrder /\ CompleteIsKept /\ ToldIsDurable /\ AnnouncedIsOpen

----------------------------------------------------------------------------
(* Lemmas.                                                                 *)

LEMMA LeastNatural ==
  ASSUME NEW S, S \subseteq Nat, S # {}
  PROVE  \E m \in S : \A n \in S : m <= n
<1> DEFINE R == OpToRel(<, Nat)
<1>1. IsWellFoundedOn(R, Nat)
  BY NatLessThanWellFounded
<1>2. \A m, n \in S : n < m => <<n, m>> \in R
  BY DEF OpToRel
<1> HIDE DEF R
<1>3. PICK m \in S : \A n \in S : ~ (<<n, m>> \in R)
  BY <1>1, WFMin
<1>4. \A n \in S : ~ (n < m)
  BY <1>2, <1>3
<1> QED
  BY <1>4

\* The job the worker takes is queued, and none before it is.
LEMMA FirstIsFirst ==
  ASSUME TablesInv, Queued # {}
  PROVE  /\ FirstOf(Queued) \in DOMAIN jobs /\ FirstOf(Queued) \in Nat
         /\ jobs[FirstOf(Queued)].status = "queued"
         /\ \A j \in DOMAIN jobs :
              j < FirstOf(Queued) => jobs[j].status # "queued"
<1>1. DOMAIN jobs \subseteq Nat /\ Queued \subseteq DOMAIN jobs
  BY DEF TablesInv, Queued
<1>2. \E m \in Queued : \A j \in Queued : m <= j
  BY <1>1, LeastNatural
<1>3. /\ FirstOf(Queued) \in Queued
      /\ \A j \in Queued : FirstOf(Queued) <= j
  BY <1>2 DEF FirstOf, Min
<1>4. \A j \in DOMAIN jobs :
        j < FirstOf(Queued) => jobs[j].status # "queued"
  <2> SUFFICES ASSUME NEW j \in DOMAIN jobs, j < FirstOf(Queued),
                      jobs[j].status = "queued"
               PROVE  FALSE
    OBVIOUS
  <2>1. j \in Queued
    BY DEF Queued
  <2> QED
    BY <1>1, <1>3, <2>1
<1> QED
  BY <1>1, <1>3, <1>4 DEF Queued

LEMMA SessionFacts ==
  ASSUME NEW m \in Sessions
  PROVE  /\ SpaceOf[m] \in Spaces /\ Len(Turns[m]) \in Nat
         /\ ToSet(Turns[m]) = { Turns[m][i] : i \in 1 .. Len(Turns[m]) }
<1>1. Turns[m] \in Seq(ToSet(Turns[m]))
  BY JobsAssumption
<1>2. Len(Turns[m]) \in Nat /\ DOMAIN Turns[m] = 1 .. Len(Turns[m])
  BY <1>1, LenProperties
<1> QED
  BY <1>2, JobsAssumption DEF ToSet

\* A client that is built holds the journal; those there are stay as they are.
LEMMA ClientFacts ==
  ASSUME JobsInv, NEW s \in Spaces, Client(s)
  PROVE  /\ clients' = clients \cup {s} /\ failures' = failures
         /\ clients' \subseteq Spaces /\ DOMAIN store' = Spaces
         /\ \A x \in clients : store'[x] = store[x]
         /\ \A x \in clients' : journal[x] \subseteq store'[x]
BY DEF Client, JobsInv, TablesInv, ProgressInv

----------------------------------------------------------------------------
(* Requests.                                                               *)

\* Steps of requests that leave the server as it is, but for who is told.
LEMMA RequestKeeps ==
  ASSUME JobsInv, NEW c \in Callers, call[c].pc # "building",
         UNCHANGED <<spaces, clients, lock, jobs, issued, worker, store,
                     journal, failures>>,
         CallsInv', told' \subseteq Sessions, ToldIsDurable',
         \A d \in Callers \ {c} : call'[d] = call[d]
  PROVE  JobsInv'
<1>1. TablesInv'
  BY DEF JobsInv, TablesInv
<1>2. WorkerInv'
  BY DEF JobsInv, WorkerInv, Working
<1>3. ProgressInv'
  BY DEF JobsInv, ProgressInv, SpaceOfJob, TurnsOfJob
<1>4. IngestInOrder' /\ CompleteIsKept'
  BY DEF JobsInv, IngestInOrder, CompleteIsKept, SpaceOfJob, TurnsOfJob
<1>5. AnnouncedIsOpen'
  BY DEF JobsInv, AnnouncedIsOpen, At
<1> QED
  BY <1>1, <1>2, <1>3, <1>4, <1>5 DEF JobsInv

LEMMA ArriveKeeps ==
  ASSUME JobsInv, NEW c \in Callers, Arrive(c)
  PROVE  JobsInv'
<1>1. PICK pc, arg :
        /\ GoesTo(c, pc, arg)
        /\ \/ pc = "open" /\ arg \in Spaces
           \/ pc = "post" /\ arg \in Sessions
           \/ pc = "poll"
           \/ pc = "search"
  BY DEF Arrive
<1>2. CallsInv'
  BY <1>1 DEF Arrive, GoesTo, At, JobsInv, CallsInv
<1>3. told' \subseteq Sessions /\ ToldIsDurable'
  BY DEF Arrive, JobsInv, TablesInv, ToldIsDurable
<1>4. \A d \in Callers \ {c} : call'[d] = call[d]
  BY <1>1 DEF GoesTo, JobsInv, CallsInv
<1> QED
  BY <1>2, <1>3, <1>4, RequestKeeps DEF Arrive, At

LEMMA AnnounceKeeps ==
  ASSUME JobsInv, NEW c \in Callers, Announce(c)
  PROVE  JobsInv'
<1>1. call[c].arg \in Spaces
  BY DEF Announce, JobsInv, CallsInv
<1>2. \A d \in Callers : call[d].pc # "building"
  BY JobsAssumption DEF Announce, JobsInv, CallsInv, At, NoBody
<1>3. TablesInv'
  BY <1>1 DEF Announce, JobsInv, TablesInv
<1>4. CallsInv'
  BY <1>1, <1>2 DEF Announce, GoesTo, At, JobsInv, CallsInv
<1>5. WorkerInv'
  BY DEF Announce, NoBody, JobsInv, WorkerInv, Working
<1>6. ProgressInv'
  BY DEF Announce, JobsInv, ProgressInv, SpaceOfJob, TurnsOfJob
<1>7. IngestInOrder' /\ CompleteIsKept' /\ ToldIsDurable'
  BY DEF Announce, JobsInv, IngestInOrder, CompleteIsKept, ToldIsDurable,
         SpaceOfJob, TurnsOfJob
<1>8. AnnouncedIsOpen'
  <2>1. spaces \subseteq clients
    BY <1>2 DEF JobsInv, AnnouncedIsOpen, At
  <2>2. call'[c].pc = "building" /\ call'[c].arg = call[c].arg /\ lock' = c
    BY DEF Announce, GoesTo, JobsInv, CallsInv
  <2> QED
    BY <2>1, <2>2 DEF Announce, AnnouncedIsOpen, At
<1> QED
  BY <1>3, <1>4, <1>5, <1>6, <1>7, <1>8 DEF JobsInv

LEMMA BuildKeeps ==
  ASSUME JobsInv, NEW c \in Callers, Build(c)
  PROVE  JobsInv'
<1> DEFINE s == call[c].arg
<1>1. s \in Spaces /\ lock = c
  BY DEF Build, JobsInv, CallsInv
<1>2. Client(s)
  BY DEF Build
<1>3. /\ clients' = clients \cup {s} /\ failures' = failures
      /\ clients' \subseteq Spaces /\ DOMAIN store' = Spaces
      /\ \A x \in clients : store'[x] = store[x]
      /\ \A x \in clients' : journal[x] \subseteq store'[x]
  BY <1>1, <1>2, ClientFacts
<1>4. TablesInv'
  BY <1>3 DEF Build, JobsInv, TablesInv
<1>5. CallsInv'
  BY <1>1 DEF Build, Answers, NoCall, At, JobsInv, CallsInv
<1>6. WorkerInv'
  BY <1>1, JobsAssumption DEF Build, JobsInv, WorkerInv, Working
<1>7. ProgressInv'
  BY <1>3 DEF Build, JobsInv, WorkerInv, Working, ProgressInv, SpaceOfJob,
              TurnsOfJob
<1>8. IngestInOrder' /\ ToldIsDurable'
  BY DEF Build, JobsInv, IngestInOrder, ToldIsDurable
<1>9. CompleteIsKept'
  BY <1>3 DEF Build, JobsInv, CompleteIsKept, SpaceOfJob, TurnsOfJob
<1>10. AnnouncedIsOpen'
  BY <1>1, <1>3 DEF Build, JobsInv, AnnouncedIsOpen
<1> QED
  BY <1>4, <1>5, <1>6, <1>7, <1>8, <1>9, <1>10 DEF JobsInv

LEMMA EnqueueKeeps ==
  ASSUME JobsInv, NEW c \in Callers, Enqueue(c)
  PROVE  JobsInv'
<1> DEFINE m == call[c].arg
           s == SpaceOf[m]
<1>1. m \in Sessions /\ s \in Spaces
  BY JobsAssumption DEF Enqueue, JobsInv, CallsInv
<1>2. Client(s)
  BY DEF Enqueue
<1>3. /\ clients' = clients \cup {s} /\ failures' = failures
      /\ clients' \subseteq Spaces /\ DOMAIN store' = Spaces
      /\ \A x \in clients : store'[x] = store[x]
      /\ \A x \in clients' : journal[x] \subseteq store'[x]
  BY <1>1, <1>2, ClientFacts
<1>4. /\ DOMAIN jobs' = DOMAIN jobs \cup {NewJob}
      /\ jobs'[NewJob] = [session |-> m, status |-> "queued"]
      /\ \A j \in DOMAIN jobs : jobs'[j] = jobs[j] /\ j < NewJob
      /\ NewJob \notin DOMAIN jobs /\ issued' = NewJob
  BY DEF Enqueue, NewJob, JobsInv, TablesInv
<1> HIDE DEF m, s
<1>5. TablesInv'
  BY <1>1, <1>3, <1>4
  DEF Enqueue, NewJob, Statuses, JobsInv, TablesInv
<1>6. CallsInv'
  BY <1>4 DEF Enqueue, Answers, NoCall, At, JobsInv, CallsInv
<1>7. WorkerInv'
  BY <1>4 DEF Enqueue, JobsInv, WorkerInv, Working
<1>8. ProgressInv'
  BY <1>3, <1>4 DEF Enqueue, JobsInv, WorkerInv, Working, ProgressInv,
                    SpaceOfJob, TurnsOfJob, m, s
<1>9. IngestInOrder' /\ ToldIsDurable'
  BY <1>4 DEF Enqueue, JobsInv, IngestInOrder, ToldIsDurable, TablesInv
<1>10. CompleteIsKept'
  BY <1>3, <1>4 DEF Enqueue, JobsInv, CompleteIsKept, SpaceOfJob, TurnsOfJob
<1>11. AnnouncedIsOpen'
  BY <1>3 DEF Enqueue, Answers, At, JobsInv, CallsInv, AnnouncedIsOpen
<1> QED
  BY <1>5, <1>6, <1>7, <1>8, <1>9, <1>10, <1>11 DEF JobsInv

LEMMA FetchKeeps ==
  ASSUME JobsInv, NEW c \in Callers, Fetch(c)
  PROVE  JobsInv'
<1>1. CallsInv'
  BY DEF Fetch, GoesTo, Answers, NoCall, At, JobsInv, CallsInv
<1>2. told' \subseteq Sessions /\ ToldIsDurable'
  BY DEF Fetch, JobsInv, TablesInv, ToldIsDurable
<1>3. \A d \in Callers \ {c} : call'[d] = call[d]
  BY DEF Fetch, GoesTo, Answers, JobsInv, CallsInv
<1> QED
  BY <1>1, <1>2, <1>3, RequestKeeps DEF Fetch, At

LEMMA ReadStatusKeeps ==
  ASSUME JobsInv, NEW c \in Callers, ReadStatus(c)
  PROVE  JobsInv'
<1> DEFINE j == call[c].arg
<1>1. j \in DOMAIN jobs /\ jobs[j].session \in Sessions
  BY DEF ReadStatus, JobsInv, CallsInv, TablesInv
<1>2. CallsInv'
  BY DEF ReadStatus, Answers, NoCall, At, JobsInv, CallsInv
<1>3. told' \subseteq Sessions
  BY <1>1 DEF ReadStatus, JobsInv, TablesInv
<1>4. ToldIsDurable'
  <2>1. \A m \in told' : m \in told
          \/ (/\ m = jobs[j].session /\ jobs[j].status = "complete"
              /\ ~failures[SpaceOfJob(j)])
    BY DEF ReadStatus
  <2>2. jobs[j].status = "complete" /\ ~failures[SpaceOfJob(j)] =>
          ToSet(Turns[jobs[j].session]) \subseteq
            journal[SpaceOf[jobs[j].session]]
    BY <1>1 DEF JobsInv, CompleteIsKept, SpaceOfJob, TurnsOfJob
  <2>3. journal' = journal
    BY DEF ReadStatus
  <2> HIDE DEF j
  <2> QED
    BY <2>1, <2>2, <2>3 DEF JobsInv, ToldIsDurable
<1>5. \A d \in Callers \ {c} : call'[d] = call[d]
  BY DEF ReadStatus, Answers, JobsInv, CallsInv
<1> QED
  BY <1>2, <1>3, <1>4, <1>5, RequestKeeps DEF ReadStatus, At

LEMMA SearchKeeps ==
  ASSUME JobsInv, NEW c \in Callers, Search(c)
  PROVE  JobsInv'
<1>1. CallsInv'
  BY DEF Search, Answers, NoCall, At, JobsInv, CallsInv
<1>2. told' \subseteq Sessions /\ ToldIsDurable'
  BY DEF Search, JobsInv, TablesInv, ToldIsDurable
<1>3. \A d \in Callers \ {c} : call'[d] = call[d]
  BY DEF Search, Answers, JobsInv, CallsInv
<1> QED
  BY <1>1, <1>2, <1>3, RequestKeeps DEF Search, At

----------------------------------------------------------------------------
(* The worker and the process.                                             *)

\* A step of the worker that leaves the lock and the tables' keys alone.
LEMMA CallersKeep ==
  ASSUME JobsInv, UNCHANGED <<spaces, clients, lock, call>>,
         DOMAIN jobs' = DOMAIN jobs
  PROVE  CallsInv' /\ AnnouncedIsOpen'
BY DEF JobsInv, CallsInv, AnnouncedIsOpen, At

LEMMA TakeKeeps ==
  ASSUME JobsInv, Take
  PROVE  JobsInv'
<1> DEFINE f == FirstOf(Queued)
<1>1. /\ f \in DOMAIN jobs /\ f \in Nat
      /\ jobs[f].status = "queued"
      /\ \A j \in DOMAIN jobs : j < f => jobs[j].status # "queued"
  BY FirstIsFirst DEF Take, JobsInv
<1>2. /\ worker' = [worker EXCEPT !.pc = "start", !.job = f]
      /\ jobs' = [jobs EXCEPT ![f].status = "running"]
      /\ ~Working
  BY DEF Take, Working
<1> HIDE DEF f
<1>3. /\ DOMAIN jobs' = DOMAIN jobs
      /\ \A j \in DOMAIN jobs \ {f} : jobs'[j] = jobs[j]
      /\ jobs'[f].status = "running"
      /\ jobs'[f].session = jobs[f].session
      /\ jobs'[f] \in [session : Sessions, status : Statuses]
  BY <1>1, <1>2 DEF JobsInv, TablesInv, Statuses
<1>4. \A j \in DOMAIN jobs : jobs'[j].session = jobs[j].session
  BY <1>3
<1>5. worker'.pc = "start" /\ worker'.job = f /\ Working'
  BY <1>2 DEF JobsInv, WorkerInv, Working
<1>6. TablesInv'
  BY <1>3 DEF Take, JobsInv, TablesInv
<1>7. CallsInv' /\ AnnouncedIsOpen'
  BY <1>3, CallersKeep DEF Take
<1>8. WorkerInv'
  <2>1. worker' \in [pc : {"look", "sleep", "start", "ingest", "report"},
                     job : Nat, done : Nat, ending : Finished]
    BY <1>1, <1>2 DEF JobsInv, WorkerInv
  <2> QED
    BY <1>1, <1>2, <1>3, <1>5, <2>1 DEF JobsInv, WorkerInv
<1>9. ProgressInv'
  BY <1>3, <1>4, <1>5 DEF Take, JobsInv, ProgressInv, SpaceOfJob
<1>10. IngestInOrder'
  <2> SUFFICES ASSUME NEW i \in DOMAIN jobs, NEW j \in DOMAIN jobs, i < j,
                      jobs'[i].status \notin Finished
               PROVE  jobs'[j].status = "queued"
    BY <1>3 DEF IngestInOrder
  <2>1. \A k \in DOMAIN jobs : k \in Nat
    BY DEF JobsInv, TablesInv
  <2>2. jobs[i].status \notin Finished
    BY <1>1, <1>3 DEF Finished
  <2>3. jobs[j].status = "queued"
    BY <2>2 DEF JobsInv, IngestInOrder
  <2>4. j # f
    <3> SUFFICES ASSUME j = f PROVE FALSE
      OBVIOUS
    <3>1. jobs[i].status \notin {"queued", "running"}
      BY <1>1, <1>2 DEF JobsInv, WorkerInv
    <3> QED
      BY <2>2, <3>1 DEF JobsInv, TablesInv, Statuses, Finished
  <2> QED
    BY <1>3, <2>3, <2>4
<1>11. CompleteIsKept'
  <2> SUFFICES ASSUME NEW j \in DOMAIN jobs', jobs'[j].status = "complete"
      PROVE  /\ SpaceOfJob(j)' \in clients'
             /\ TurnsOfJob(j)' \subseteq store'[SpaceOfJob(j)']
             /\ \/ failures'[SpaceOfJob(j)']
                \/ TurnsOfJob(j)' \subseteq journal'[SpaceOfJob(j)']
    BY DEF CompleteIsKept
  <2>1. j \in DOMAIN jobs /\ jobs[j].status = "complete"
    BY <1>3
  <2>2. SpaceOfJob(j)' = SpaceOfJob(j) /\ TurnsOfJob(j)' = TurnsOfJob(j)
    BY <1>4, <2>1 DEF SpaceOfJob, TurnsOfJob
  <2>3. UNCHANGED <<clients, store, journal, failures>>
    BY DEF Take
  <2> QED
    BY <2>1, <2>2, <2>3 DEF JobsInv, CompleteIsKept
<1>12. ToldIsDurable'
  BY DEF Take, JobsInv, ToldIsDurable
<1> QED
  BY <1>6, <1>7, <1>8, <1>9, <1>10, <1>11, <1>12 DEF JobsInv

LEMMA SleepKeeps ==
  ASSUME JobsInv, Sleep
  PROVE  JobsInv'
<1>1. TablesInv'
  BY DEF Sleep, JobsInv, TablesInv
<1>2. \A c \in Callers : call[c].pc # "building"
  BY JobsAssumption DEF Sleep, JobsInv, CallsInv, At, NoBody
<1>3. CallsInv' /\ AnnouncedIsOpen'
  BY <1>2 DEF Sleep, JobsInv, CallsInv, AnnouncedIsOpen, At
<1>4. worker'.pc = "sleep" /\ ~Working /\ ~Working'
  BY DEF Sleep, JobsInv, WorkerInv, Working
<1>5. WorkerInv'
  <2>1. worker' \in [pc : {"look", "sleep", "start", "ingest", "report"},
                     job : Nat, done : Nat, ending : Finished]
    BY DEF Sleep, JobsInv, WorkerInv
  <2> QED
    BY <1>4, <2>1 DEF Sleep, JobsInv, WorkerInv
<1>6. ProgressInv'
  BY <1>4 DEF Sleep, JobsInv, ProgressInv, SpaceOfJob
<1>7. IngestInOrder' /\ CompleteIsKept' /\ ToldIsDurable'
  BY DEF Sleep, JobsInv, IngestInOrder, CompleteIsKept, ToldIsDurable,
         SpaceOfJob, TurnsOfJob
<1> QED
  BY <1>1, <1>3, <1>5, <1>6, <1>7 DEF JobsInv

LEMMA WakeKeeps ==
  ASSUME JobsInv, Wake
  PROVE  JobsInv'
<1>1. TablesInv'
  BY DEF Wake, JobsInv, TablesInv
<1>2. \A c \in Callers : call[c].pc # "building"
  BY JobsAssumption DEF Wake, JobsInv, CallsInv, WorkerInv, At
<1>3. CallsInv' /\ AnnouncedIsOpen'
  BY <1>2 DEF Wake, JobsInv, CallsInv, AnnouncedIsOpen, At
<1>4. worker'.pc = "look" /\ ~Working /\ ~Working'
  BY DEF Wake, JobsInv, WorkerInv, Working
<1>5. WorkerInv'
  <2>1. worker' \in [pc : {"look", "sleep", "start", "ingest", "report"},
                     job : Nat, done : Nat, ending : Finished]
    BY DEF Wake, JobsInv, WorkerInv
  <2> QED
    BY <1>4, <2>1 DEF Wake, JobsInv, WorkerInv
<1>6. ProgressInv'
  BY <1>4 DEF Wake, JobsInv, ProgressInv, SpaceOfJob
<1>7. IngestInOrder' /\ CompleteIsKept' /\ ToldIsDurable'
  BY DEF Wake, JobsInv, IngestInOrder, CompleteIsKept, ToldIsDurable,
         SpaceOfJob, TurnsOfJob
<1> QED
  BY <1>1, <1>3, <1>5, <1>6, <1>7 DEF JobsInv

LEMMA StartJobKeeps ==
  ASSUME JobsInv, StartJob
  PROVE  JobsInv'
<1>1. TablesInv'
  BY DEF StartJob, JobsInv, TablesInv
<1>2. CallsInv' /\ AnnouncedIsOpen'
  BY CallersKeep DEF StartJob
<1>3. /\ worker'.pc = "ingest" /\ worker'.job = worker.job
      /\ worker'.done = 0 /\ Working /\ Working'
  BY DEF StartJob, JobsInv, WorkerInv, Working
<1>4. WorkerInv'
  <2>1. worker' \in [pc : {"look", "sleep", "start", "ingest", "report"},
                     job : Nat, done : Nat, ending : Finished]
    BY DEF StartJob, JobsInv, WorkerInv
  <2> QED
    BY <1>3, <2>1 DEF StartJob, JobsInv, WorkerInv
<1>5. ProgressInv'
  <2>1. jobs[worker.job].session \in Sessions
    BY <1>3 DEF JobsInv, WorkerInv, TablesInv
  <2>2. Len(Turns[jobs[worker.job].session]) \in Nat
    BY <2>1, SessionFacts
  <2> QED
    BY <1>3, <2>2 DEF StartJob, JobsInv, ProgressInv, SpaceOfJob
<1>6. IngestInOrder' /\ CompleteIsKept' /\ ToldIsDurable'
  BY DEF StartJob, JobsInv, IngestInOrder, CompleteIsKept, ToldIsDurable,
         SpaceOfJob, TurnsOfJob
<1> QED
  BY <1>1, <1>2, <1>4, <1>5, <1>6 DEF JobsInv

LEMMA ReconcileKeeps ==
  ASSUME JobsInv, Reconcile
  PROVE  JobsInv'
<1> DEFINE m == jobs[worker.job].session
           s == SpaceOfJob(worker.job)
<1>1. Working /\ worker.job \in DOMAIN jobs /\ m \in Sessions
  BY DEF Reconcile, Working, JobsInv, WorkerInv, TablesInv
<1>2. s = SpaceOf[m] /\ s \in Spaces /\ Len(Turns[m]) \in Nat
  BY <1>1, SessionFacts DEF SpaceOfJob
<1>3. /\ worker.pc = "ingest" /\ worker'.pc = "ingest"
      /\ worker'.job = worker.job /\ worker'.done = worker.done + 1
      /\ worker.done < Len(Turns[m]) /\ worker.done \in Nat
      /\ worker' \in [pc : {"look", "sleep", "start", "ingest", "report"},
                      job : Nat, done : Nat, ending : Finished]
  BY DEF Reconcile, JobsInv, WorkerInv
<1>4. /\ DOMAIN store' = Spaces
      /\ \A x \in Spaces : store[x] \subseteq store'[x]
      /\ Turns[m][worker.done + 1] \in store'[s]
  BY <1>2 DEF Reconcile, JobsInv, TablesInv
<1>5. TablesInv'
  BY <1>4 DEF Reconcile, JobsInv, TablesInv
<1>6. CallsInv' /\ AnnouncedIsOpen'
  BY CallersKeep DEF Reconcile
<1>7. WorkerInv'
  BY <1>3 DEF Reconcile, JobsInv, WorkerInv, Working
<1>8. ProgressInv'
  <2>1. \A x \in clients : x \in Spaces
    BY DEF JobsInv, TablesInv
  <2>2. \A x \in clients : journal[x] \subseteq store'[x]
    BY <1>4, <2>1 DEF JobsInv, ProgressInv
  <2>3. \A i \in 1 .. worker'.done : Turns[m][i] \in store'[s]
    <3> SUFFICES ASSUME NEW i \in 1 .. worker'.done
                 PROVE  Turns[m][i] \in store'[s]
      OBVIOUS
    <3>1. CASE i = worker.done + 1
      BY <1>4, <3>1
    <3>2. CASE i # worker.done + 1
      <4>1. i \in 1 .. worker.done
        BY <1>3, <3>2
      <4>2. Turns[m][i] \in store[s]
        BY <1>3, <4>1 DEF JobsInv, ProgressInv
      <4> QED
        BY <1>2, <1>4, <4>2
    <3> QED
      BY <3>1, <3>2
  <2>4. worker'.done <= Len(Turns[m])
    BY <1>2, <1>3
  <2>5. \A j \in DOMAIN jobs : SpaceOfJob(j) \in clients
    BY DEF JobsInv, ProgressInv
  <2>6. UNCHANGED <<jobs, clients, journal>>
    BY DEF Reconcile
  <2> QED
    BY <1>3, <2>2, <2>3, <2>4, <2>5, <2>6 DEF ProgressInv, SpaceOfJob
<1>9. IngestInOrder' /\ ToldIsDurable'
  BY DEF Reconcile, JobsInv, IngestInOrder, ToldIsDurable
<1>10. CompleteIsKept'
  <2>1. \A j \in DOMAIN jobs : SpaceOfJob(j) \in Spaces
    BY DEF JobsInv, ProgressInv, TablesInv
  <2> QED
    BY <1>4, <2>1 DEF Reconcile, JobsInv, CompleteIsKept, SpaceOfJob,
                      TurnsOfJob
<1> QED
  BY <1>5, <1>6, <1>7, <1>8, <1>9, <1>10 DEF JobsInv

LEMMA PersistKeeps ==
  ASSUME JobsInv, Persist
  PROVE  JobsInv'
<1> DEFINE m == jobs[worker.job].session
           s == SpaceOfJob(worker.job)
<1>1. Working /\ worker.job \in DOMAIN jobs /\ m \in Sessions
  BY DEF Persist, Working, JobsInv, WorkerInv, TablesInv
<1>2. /\ s = SpaceOf[m] /\ s \in Spaces /\ s \in clients
      /\ Len(Turns[m]) \in Nat
      /\ ToSet(Turns[m]) = { Turns[m][i] : i \in 1 .. Len(Turns[m]) }
  BY <1>1, SessionFacts DEF SpaceOfJob, JobsInv, ProgressInv
<1>3. /\ worker.pc = "ingest" /\ worker'.pc = "report"
      /\ worker'.job = worker.job /\ worker.done = Len(Turns[m])
      /\ worker' \in [pc : {"look", "sleep", "start", "ingest", "report"},
                      job : Nat, done : Nat, ending : Finished]
  BY DEF Persist, Reconciled, Finished, JobsInv, WorkerInv
<1>4. ToSet(Turns[m]) \subseteq store[s]
  BY <1>2, <1>3 DEF JobsInv, ProgressInv
<1>5. /\ DOMAIN journal' = Spaces /\ failures' \in [Spaces -> BOOLEAN]
      /\ \A x \in Spaces : failures[x] => failures'[x]
      /\ \A x \in clients : journal[x] \subseteq journal'[x]
      /\ \A x \in Spaces \ clients : journal'[x] = journal[x]
      /\ \A x \in clients : journal'[x] \subseteq store[x]
      /\ failures'[s] \/ journal'[s] = store[s]
  BY <1>2 DEF Persist, JobsInv, TablesInv, ProgressInv
<1>6. TablesInv'
  BY <1>5 DEF Persist, JobsInv, TablesInv
<1>7. CallsInv' /\ AnnouncedIsOpen'
  BY CallersKeep DEF Persist
<1>8. WorkerInv'
  BY <1>3 DEF Persist, JobsInv, WorkerInv, Working
<1>9. UNCHANGED <<jobs, clients, store, told>>
  BY DEF Persist
<1>10. ProgressInv'
  <2>1. \A j \in DOMAIN jobs : SpaceOfJob(j) \in clients
    BY DEF JobsInv, ProgressInv
  <2>2. ToSet(Turns[m]) \subseteq store[s]
        /\ (failures'[s] \/ ToSet(Turns[m]) \subseteq journal'[s])
    BY <1>4, <1>5
  <2> QED
    BY <1>3, <1>5, <1>9, <2>1, <2>2 DEF ProgressInv, SpaceOfJob, TurnsOfJob
<1>11. IngestInOrder'
  BY <1>9 DEF JobsInv, IngestInOrder
<1>12. CompleteIsKept'
  <2>1. \A j \in DOMAIN jobs : SpaceOfJob(j) \in Spaces
    BY DEF JobsInv, ProgressInv, TablesInv
  <2> QED
    BY <1>5, <1>9, <2>1 DEF JobsInv, CompleteIsKept, SpaceOfJob, TurnsOfJob
<1>13. ToldIsDurable'
  <2>1. \A x \in Spaces : journal[x] \subseteq journal'[x]
    BY <1>5
  <2>2. \A x \in told : SpaceOf[x] \in Spaces
    BY JobsAssumption DEF JobsInv, TablesInv
  <2> QED
    BY <1>9, <2>1, <2>2 DEF JobsInv, ToldIsDurable
<1> QED
  BY <1>6, <1>7, <1>8, <1>10, <1>11, <1>12, <1>13 DEF JobsInv

LEMMA FailKeeps ==
  ASSUME JobsInv, Fail
  PROVE  JobsInv'
<1>1. TablesInv'
  BY DEF Fail, JobsInv, TablesInv
<1>2. CallsInv' /\ AnnouncedIsOpen'
  BY CallersKeep DEF Fail
<1>3. /\ worker'.pc = "report" /\ worker'.job = worker.job
      /\ worker'.ending = "failed" /\ Working /\ Working'
      /\ worker' \in [pc : {"look", "sleep", "start", "ingest", "report"},
                      job : Nat, done : Nat, ending : Finished]
  BY DEF Fail, Finished, JobsInv, WorkerInv, Working
<1>4. WorkerInv'
  BY <1>3 DEF Fail, JobsInv, WorkerInv
<1>5. ProgressInv'
  BY <1>3 DEF Fail, JobsInv, ProgressInv, SpaceOfJob
<1>6. IngestInOrder' /\ CompleteIsKept' /\ ToldIsDurable'
  BY DEF Fail, JobsInv, IngestInOrder, CompleteIsKept, ToldIsDurable,
         SpaceOfJob, TurnsOfJob
<1> QED
  BY <1>1, <1>2, <1>4, <1>5, <1>6 DEF JobsInv

LEMMA ReportKeeps ==
  ASSUME JobsInv, Report
  PROVE  JobsInv'
<1> DEFINE f == worker.job
<1>1. /\ Working /\ f \in DOMAIN jobs /\ jobs[f].status = "running"
      /\ worker.ending \in Finished
  BY DEF Report, Working, JobsInv, WorkerInv
<1>2. worker' = Idle /\ jobs' = [jobs EXCEPT ![f].status = worker.ending]
  BY DEF Report
<1> HIDE DEF f
<1>3. /\ DOMAIN jobs' = DOMAIN jobs
      /\ \A j \in DOMAIN jobs \ {f} : jobs'[j] = jobs[j]
      /\ jobs'[f].status = worker.ending
      /\ jobs'[f].session = jobs[f].session
      /\ jobs'[f] \in [session : Sessions, status : Statuses]
  BY <1>1, <1>2 DEF JobsInv, TablesInv, Statuses, Finished
<1>4. \A j \in DOMAIN jobs : jobs'[j].session = jobs[j].session
  BY <1>3
<1>5. TablesInv'
  BY <1>3 DEF Report, JobsInv, TablesInv
<1>6. CallsInv' /\ AnnouncedIsOpen'
  BY <1>3, CallersKeep DEF Report
<1>7. WorkerInv'
  <2>1. \A j \in DOMAIN jobs : jobs'[j].status # "running"
    BY <1>1, <1>3 DEF JobsInv, WorkerInv, Finished, f
  <2> QED
    BY <1>2, <1>3, <2>1 DEF Idle, Finished, WorkerInv, Working
<1>8. ProgressInv'
  BY <1>2, <1>3, <1>4 DEF Idle, Report, JobsInv, ProgressInv, SpaceOfJob
<1>9. IngestInOrder'
  BY <1>1, <1>3 DEF JobsInv, IngestInOrder, TablesInv, Finished
<1>10. CompleteIsKept'
  <2> SUFFICES ASSUME NEW j \in DOMAIN jobs, jobs'[j].status = "complete"
               PROVE  /\ SpaceOfJob(j) \in clients
                      /\ TurnsOfJob(j) \subseteq store[SpaceOfJob(j)]
                      /\ \/ failures[SpaceOfJob(j)]
                         \/ TurnsOfJob(j) \subseteq journal[SpaceOfJob(j)]
    BY <1>3, <1>4 DEF Report, CompleteIsKept, SpaceOfJob, TurnsOfJob
  <2>1. CASE j = f
    BY <1>1, <1>3, <2>1 DEF Report, JobsInv, ProgressInv, f
  <2>2. CASE j # f
    BY <1>3, <2>2 DEF JobsInv, CompleteIsKept
  <2> QED
    BY <2>1, <2>2
<1>11. ToldIsDurable'
  BY DEF Report, JobsInv, ToldIsDurable
<1> QED
  BY <1>5, <1>6, <1>7, <1>8, <1>9, <1>10, <1>11 DEF JobsInv

\* After a crash nothing is left to hold but for the journals and what was
\* told, which a crash leaves alone.
LEMMA CrashKeeps ==
  ASSUME JobsInv, Crash
  PROVE  JobsInv'
<1>1. jobs' = << >> /\ DOMAIN jobs' = {}
  BY DEF Crash
<1>2. TablesInv'
  BY <1>1 DEF Crash, JobsInv, TablesInv
<1>3. CallsInv'
  BY DEF Crash, CallsInv, At, NoCall
<1>4. WorkerInv'
  BY <1>1 DEF Crash, Idle, Finished, WorkerInv, Working
<1>5. ProgressInv'
  BY <1>1 DEF Crash, Idle, ProgressInv
<1>6. IngestInOrder' /\ CompleteIsKept'
  BY <1>1 DEF IngestInOrder, CompleteIsKept
<1>7. ToldIsDurable' /\ AnnouncedIsOpen'
  BY DEF Crash, JobsInv, ToldIsDurable, AnnouncedIsOpen
<1> QED
  BY <1>2, <1>3, <1>4, <1>5, <1>6, <1>7 DEF JobsInv

LEMMA UnchangedKeeps ==
  ASSUME JobsInv,
         UNCHANGED <<spaces, clients, lock, jobs, issued, worker, store,
                     journal, failures, call, told>>
  PROVE  JobsInv'
<1>1. TablesInv' /\ CallsInv'
  BY DEF JobsInv, TablesInv, CallsInv, At
<1>2. WorkerInv' /\ ProgressInv'
  BY DEF JobsInv, WorkerInv, Working, ProgressInv, SpaceOfJob, TurnsOfJob
<1>3. IngestInOrder' /\ CompleteIsKept'
  BY DEF JobsInv, IngestInOrder, CompleteIsKept, SpaceOfJob, TurnsOfJob
<1>4. ToldIsDurable' /\ AnnouncedIsOpen'
  BY DEF JobsInv, ToldIsDurable, AnnouncedIsOpen, At
<1> QED
  BY <1>1, <1>2, <1>3, <1>4 DEF JobsInv

----------------------------------------------------------------------------
(* Theorems.                                                               *)

LEMMA Invariance == Spec => []JobsInv
<1>1. Init => JobsInv
  BY DEF Init, NoCall, Idle, NoBody, Finished, At, JobsInv, TablesInv,
         CallsInv, WorkerInv, Working, ProgressInv, IngestInOrder,
         CompleteIsKept, ToldIsDurable, AnnouncedIsOpen
<1>2. JobsInv /\ [Next]_vars => JobsInv'
  <2> SUFFICES ASSUME JobsInv, [Next]_vars PROVE JobsInv'
    OBVIOUS
  <2>1. ASSUME NEW c \in Callers, Arrive(c) \/ Serve(c) PROVE JobsInv'
    BY <2>1, ArriveKeeps, AnnounceKeeps, BuildKeeps, EnqueueKeeps, FetchKeeps,
       ReadStatusKeeps, SearchKeeps DEF Serve
  <2>2. CASE Work
    BY <2>2, TakeKeeps, SleepKeeps, WakeKeeps, StartJobKeeps, ReconcileKeeps,
       PersistKeeps, FailKeeps, ReportKeeps DEF Work
  <2>3. CASE Crash
    BY <2>3, CrashKeeps
  <2>4. CASE Start \/ UNCHANGED vars
    BY <2>4, UnchangedKeeps DEF Start, vars
  <2> QED
    BY <2>1, <2>2, <2>3, <2>4 DEF Next
<1> QED
  BY <1>1, <1>2, PTL DEF Spec

\* One job runs at a time and in the order the jobs were queued, whatever
\* requests come between: run_worker takes pending[0] (Jobs.IngestInOrder).
THEOREM SessionsComeInOrder == Spec => []IngestInOrder
BY Invariance, PTL DEF JobsInv

\* What a job is reported complete for is in the store of its space, and in
\* the journal unless a save was refused (Jobs.CompleteIsKept).
THEOREM CompleteJobsAreKept == Spec => []CompleteIsKept
BY Invariance, PTL DEF JobsInv

\* What a poll reported complete is in the journal for good: later saves of
\* the space only add to it, a crash leaves it, and the next process begins
\* with what is in it (Jobs.ToldIsDurable).
THEOREM ToldStaysDurable == Spec => []ToldIsDurable
BY Invariance, PTL DEF JobsInv

\* POST /v1/spaces announces a space before its client is there, but under
\* the lock it builds it with (Jobs.AnnouncedIsOpen).
THEOREM SpacesOpenUnderLock == Spec => []AnnouncedIsOpen
BY Invariance, PTL DEF JobsInv

=============================================================================

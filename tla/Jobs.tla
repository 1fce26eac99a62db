-------------------------------- MODULE Jobs --------------------------------
(***************************************************************************)
(* The benchmark server (benchmarks/cm_server.py): request threads open    *)
(* spaces, queue sessions, poll jobs and search, while one worker thread   *)
(* takes the queued jobs and ingests their sessions (MemoryEngine.ingest). *)
(* _JOBS_LOCK guards the tables, but not every read of them; the process   *)
(* may crash and be started again on the same journals.                    *)
(*                                                                         *)
(* Abstracted: a space's store is the set of turns it holds (MemoryStore   *)
(* has it in detail), its journal the set of turns in the file (Journal    *)
(* has the file), a search returns what it could find.  The order of       *)
(* _JOBS is the order of the job ids.                                      *)
(***************************************************************************)
EXTENDS Naturals, Sequences, SequencesExt, FiniteSetsExt

CONSTANTS
  Callers,     \* the request threads, each with one request at a time
  Spaces,      \* the container tags
  Sessions,    \* the sessions callers post
  SpaceOf,     \* the space of each session
  Turns,       \* the sequence of turns of each session
  MaxJobs,     \* bound on the jobs created in a behaviour
  Outages,     \* bound on the saves the file system refuses
  Crashes      \* bound on the crashes of the process

ASSUME JobsAssumption ==
  /\ SpaceOf \in [Sessions -> Spaces] /\ DOMAIN Turns = Sessions
  /\ \A m \in Sessions : Turns[m] \in Seq(ToSet(Turns[m]))
  /\ {MaxJobs, Outages, Crashes} \subseteq Nat
  /\ {"worker", "nobody"} \cap Callers = {}

VARIABLES
  up,          \* the process runs
  spaces,      \* _SPACES
  clients,     \* the keys of _CLIENTS
  lock,        \* who holds _JOBS_LOCK: a caller, "worker" or "nobody"
  jobs,        \* _JOBS: from job ids to [session, status]
  issued,      \* job ids handed out, also by processes that crashed
  worker,      \* the worker thread: where it stands, its job, turns done
  store,       \* the turns in the store of each space's client
  journal,     \* the turns in the journal of each space
  failures,    \* persist_failures of each space's client is not 0
  call,        \* where the request of each caller stands
  told,        \* sessions whose job a poll reported complete, no save failed
  outages,     \* saves refused so far
  crashes      \* crashes so far

vars == <<up, spaces, clients, lock, jobs, issued, worker, store, journal,
          failures, call, told, outages, crashes>>

NoBody == "nobody"
Statuses == {"queued", "running", "complete", "failed"}
Finished == {"complete", "failed"}

Idle == [pc |-> "look", job |-> 0, done |-> 0, ending |-> "complete"]
NoCall == [pc |-> "none", arg |-> 0]

SpaceOfJob(j) == SpaceOf[jobs[j].session]
TurnsOfJob(j) == ToSet(Turns[jobs[j].session])

Init ==
  /\ up = TRUE
  /\ spaces = {} /\ clients = {}
  /\ lock = NoBody
  /\ jobs = << >> /\ issued = 0
  /\ worker = Idle
  /\ store = [s \in Spaces |-> {}]
  /\ journal = [s \in Spaces |-> {}]
  /\ failures = [s \in Spaces |-> FALSE]
  /\ call = [c \in Callers |-> NoCall]
  /\ told = {}
  /\ outages = 0 /\ crashes = 0

----------------------------------------------------------------------------
(* Requests.                                                               *)

At(c, pc) == call[c].pc = pc

GoesTo(c, pc, arg) == call' = [call EXCEPT ![c] = [pc |-> pc, arg |-> arg]]

Answers(c) == call' = [call EXCEPT ![c] = NoCall]

\* A request arrives.  POST /v1/sessions and /v1/search first look for the
\* space, without the lock; a request for an unknown one is answered 404.
Arrive(c) ==
  /\ up /\ At(c, "none")
  /\ \/ \E s \in Spaces : GoesTo(c, "open", s)
     \/ \E m \in Sessions : SpaceOf[m] \in spaces /\ GoesTo(c, "post", m)
     \/ \E j \in 1 .. issued : GoesTo(c, "poll", j)
     \/ \E s \in spaces : GoesTo(c, "search", s)
  /\ UNCHANGED <<up, spaces, clients, lock, jobs, issued, worker, store,
                 journal, failures, told, outages, crashes>>

\* Mutant of Client: every call builds a client and loads the journal.
ClientAnew(s) ==
  /\ clients' = clients \cup {s}
  /\ store' = [store EXCEPT ![s] = journal[s]]
  /\ failures' = [failures EXCEPT ![s] = FALSE]

\* build_client: the space's client, which loads its journal when it is new.
Client(s) ==
  /\ clients' = clients \cup {s}
  /\ store' = [store EXCEPT ![s] = IF s \in clients THEN @ ELSE journal[s]]
  /\ UNCHANGED failures

\* Mutant of Announce: the client is built without the lock.
AnnounceUnlocked(c) ==
  /\ At(c, "open") /\ lock = NoBody
  /\ spaces' = spaces \cup {call[c].arg}
  /\ GoesTo(c, "building", call[c].arg)
  /\ UNCHANGED <<up, clients, lock, jobs, issued, worker, store, journal,
                 failures, told, outages, crashes>>

\* POST /v1/spaces: the space is announced first, then its client is built.
Announce(c) ==
  /\ At(c, "open") /\ lock = NoBody
  /\ lock' = c
  /\ spaces' = spaces \cup {call[c].arg}
  /\ GoesTo(c, "building", call[c].arg)
  /\ UNCHANGED <<up, clients, jobs, issued, worker, store, journal,
                 failures, told, outages, crashes>>

Build(c) ==
  /\ At(c, "building")
  /\ Client(call[c].arg)
  /\ lock' = NoBody
  /\ Answers(c)
  /\ UNCHANGED <<up, spaces, jobs, issued, worker, journal, told, outages,
                 crashes>>

\* The id of the next job (a uuid in the code: never one used before).
NewJob == issued + 1

\* POST /v1/sessions: the session is queued under a new job id.
Enqueue(c) ==
  /\ At(c, "post") /\ lock = NoBody /\ issued < MaxJobs
  /\ issued' = issued + 1
  /\ jobs' = [j \in DOMAIN jobs \cup {NewJob} |->
                IF j = NewJob
                THEN [session |-> call[c].arg, status |-> "queued"]
                ELSE jobs[j]]
  /\ Client(SpaceOf[call[c].arg])
  /\ Answers(c)
  /\ UNCHANGED <<up, spaces, lock, worker, journal, told, outages, crashes>>

\* GET /v1/jobs: the job is fetched under the lock (or is not there, 404) ...
Fetch(c) ==
  /\ At(c, "poll") /\ lock = NoBody
  /\ IF call[c].arg \in DOMAIN jobs THEN GoesTo(c, "read", call[c].arg)
     ELSE Answers(c)
  /\ UNCHANGED <<up, spaces, clients, lock, jobs, issued, worker, store,
                 journal, failures, told, outages, crashes>>

\* ... and its status read after it.
ReadStatus(c) ==
  /\ At(c, "read")
  /\ LET j == call[c].arg
     IN told' = IF jobs[j].status = "complete" /\ ~failures[SpaceOfJob(j)]
                THEN told \cup {jobs[j].session} ELSE told
  /\ Answers(c)
  /\ UNCHANGED <<up, spaces, clients, lock, jobs, issued, worker, store,
                 journal, failures, outages, crashes>>

\* POST /v1/search: the space's client is looked up, without the lock, and
\* the recall runs on it; without a client the handler dies of a KeyError.
Search(c) ==
  /\ At(c, "search")
  /\ Answers(c)
  /\ UNCHANGED <<up, spaces, clients, lock, jobs, issued, worker, store,
                 journal, failures, told, outages, crashes>>

----------------------------------------------------------------------------
(* The worker.                                                             *)

Queued == { j \in DOMAIN jobs : jobs[j].status = "queued" }

\* Mutant of FirstOf: the newest queued job is taken.
NewestOf(pending) == Max(pending)

\* pending[0]: the first queued job in the order of the table.
FirstOf(pending) == Min(pending)

\* The loop takes the first queued job and marks it running.
Take ==
  /\ up /\ worker.pc = "look" /\ lock = NoBody /\ Queued # {}
  /\ worker' = [worker EXCEPT !.pc = "start", !.job = FirstOf(Queued)]
  /\ jobs' = [jobs EXCEPT ![FirstOf(Queued)].status = "running"]
  /\ UNCHANGED <<up, spaces, clients, lock, issued, store, journal, failures,
                 call, told, outages, crashes>>

\* With nothing to do the worker sleeps, and keeps the lock while it does.
Sleep ==
  /\ up /\ worker.pc = "look" /\ lock = NoBody /\ Queued = {}
  /\ lock' = "worker"
  /\ worker' = [worker EXCEPT !.pc = "sleep"]
  /\ UNCHANGED <<up, spaces, clients, jobs, issued, store, journal, failures,
                 call, told, outages, crashes>>

Wake ==
  /\ up /\ worker.pc = "sleep"
  /\ lock' = NoBody
  /\ worker' = [worker EXCEPT !.pc = "look"]
  /\ UNCHANGED <<up, spaces, clients, jobs, issued, store, journal, failures,
                 call, told, outages, crashes>>

\* run_job fetches the job under the lock.
StartJob ==
  /\ up /\ worker.pc = "start" /\ lock = NoBody
  /\ worker' = [worker EXCEPT !.pc = "ingest", !.done = 0]
  /\ UNCHANGED <<up, spaces, clients, lock, jobs, issued, store, journal,
                 failures, call, told, outages, crashes>>

\* MemoryEngine.ingest reconciles one turn after the other.
Reconcile ==
  /\ up /\ worker.pc = "ingest"
  /\ worker.done < Len(Turns[jobs[worker.job].session])
  /\ worker' = [worker EXCEPT !.done = @ + 1]
  /\ store' = [store EXCEPT ![SpaceOfJob(worker.job)] =
                 @ \cup {Turns[jobs[worker.job].session][worker.done + 1]}]
  /\ UNCHANGED <<up, spaces, clients, lock, jobs, issued, journal, failures,
                 call, told, outages, crashes>>

\* Mutant of Reconciled: the save comes one turn too early.
AlmostReconciled == worker.done + 1 >= Len(Turns[jobs[worker.job].session])

Reconciled == worker.done = Len(Turns[jobs[worker.job].session])

\* ... and then persists the store; a refused save is counted and forgotten.
Persist ==
  /\ up /\ worker.pc = "ingest" /\ Reconciled
  /\ LET s == SpaceOfJob(worker.job)
     IN \/ /\ journal' = [journal EXCEPT ![s] = store[s]]
           /\ UNCHANGED <<failures, outages>>
        \/ /\ outages < Outages /\ outages' = outages + 1
           /\ failures' = [failures EXCEPT ![s] = TRUE]
           /\ UNCHANGED journal
  /\ worker' = [worker EXCEPT !.pc = "report", !.ending = "complete"]
  /\ UNCHANGED <<up, spaces, clients, lock, jobs, issued, store, call,
                 told, crashes>>

\* Mutant of Fail: the worker goes on without reporting the failure.
FailUnreported ==
  /\ up /\ worker.pc = "ingest"
  /\ worker' = Idle
  /\ UNCHANGED <<up, spaces, clients, lock, jobs, issued, store, journal,
                 failures, call, told, outages, crashes>>

\* The body is malformed, or a turn of it is: the job ends where it is.
Fail ==
  /\ up /\ worker.pc = "ingest"
  /\ worker' = [worker EXCEPT !.pc = "report", !.ending = "failed"]
  /\ UNCHANGED <<up, spaces, clients, lock, jobs, issued, store, journal,
                 failures, call, told, outages, crashes>>

\* The outcome is written to the job under the lock.
Report ==
  /\ up /\ worker.pc = "report" /\ lock = NoBody
  /\ jobs' = [jobs EXCEPT ![worker.job].status = worker.ending]
  /\ worker' = Idle
  /\ UNCHANGED <<up, spaces, clients, lock, issued, store, journal, failures,
                 call, told, outages, crashes>>

----------------------------------------------------------------------------
(* The process.                                                            *)

\* Everything in memory is gone; requests under way are never answered.
Crash ==
  /\ up /\ crashes < Crashes
  /\ up' = FALSE /\ crashes' = crashes + 1
  /\ spaces' = {} /\ clients' = {} /\ jobs' = << >>
  /\ lock' = NoBody /\ worker' = Idle
  /\ store' = [s \in Spaces |-> {}]
  /\ failures' = [s \in Spaces |-> FALSE]
  /\ call' = [c \in Callers |-> NoCall]
  /\ UNCHANGED <<issued, journal, told, outages>>

Start ==
  /\ ~up /\ up' = TRUE
  /\ UNCHANGED <<spaces, clients, lock, jobs, issued, worker, store, journal,
                 failures, call, told, outages, crashes>>

\* The steps a request thread takes once it has a request.
Serve(c) ==
  \/ Announce(c) \/ Build(c) \/ Enqueue(c)
  \/ Fetch(c) \/ ReadStatus(c) \/ Search(c)

Work ==
  \/ Take \/ Sleep \/ Wake \/ StartJob
  \/ Reconcile \/ Persist \/ Fail \/ Report

Next ==
  \/ \E c \in Callers : Arrive(c) \/ Serve(c)
  \/ Work \/ Crash \/ Start

\* Threads run.  No request has to come, and the process need not crash.
Fairness == WF_vars(Work) /\ \A c \in Callers : WF_vars(Serve(c))

Spec == Init /\ [][Next]_vars /\ Fairness

\* The worker, which asks for the lock the moment it has released it, gets it
\* sooner or later; about the request threads nothing more is assumed.
FairSpec == Spec /\ SF_vars(Take) /\ SF_vars(StartJob) /\ SF_vars(Report)

----------------------------------------------------------------------------
(* Properties.                                                             *)

\* Sessions are ingested one at a time and in the order their jobs were
\* queued, so a later session of a space never meets a store without the
\* earlier ones: behind a job that has not ended every job is queued.
IngestInOrder ==
  \A i, j \in DOMAIN jobs :
    i < j /\ jobs[i].status \notin Finished => jobs[j].status = "queued"

\* A job that is complete can be relied on: a search finds its session, and
\* unless a save was counted as failed a later process will, too.
CompleteIsKept ==
  \A j \in DOMAIN jobs :
    jobs[j].status = "complete" =>
      /\ SpaceOfJob(j) \in clients
      /\ TurnsOfJob(j) \subseteq store[SpaceOfJob(j)]
      /\ \/ failures[SpaceOfJob(j)]
         \/ TurnsOfJob(j) \subseteq journal[SpaceOfJob(j)]

\* What a poll reported complete, with no save counted as failed, is in the
\* journal of its space, whatever crashes and is posted afterwards.
ToldIsDurable ==
  \A m \in told : ToSet(Turns[m]) \subseteq journal[SpaceOf[m]]

\* A space that is announced has its client, or a request that is still
\* building it: only in that moment can a search of a known space fail.
AnnouncedIsOpen ==
  \A s \in spaces \ clients :
    \E c \in Callers : At(c, "building") /\ call[c].arg = s /\ lock = c

\* A job that is queued ends, unless the process crashes.
JobsEnd ==
  \A j \in 1 .. MaxJobs :
    j \in DOMAIN jobs ~> (j \notin DOMAIN jobs \/ jobs[j].status \in Finished)

=============================================================================

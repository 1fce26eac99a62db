# TLA+ models of contextmemory

contextmemory is a temporal memory layer for agents: a C++ store (ETMC,
"event-time memory cells") that reconciles statements into version chains, a
Python engine that feeds and queries it, and the servers, user interfaces and
benchmark tools around the engine. This directory holds TLA+ modules for it,
TLC configurations that check them on small instances, and theorems that TLAPS
checks for every instance. Paths below are relative to the repository (`src/`),
Python ones to `src/contextmemory` unless they begin with another directory.

- To check a model: `tlc -config MCMemoryStore.cfg MCMemoryStore.tla`
- To check the proofs: `tlapm StoreProofs.tla`, and the same for
  `JournalProofs`, `JobsProofs`, `ServerProofs`, `TuiProofs`, `ChatProofs`,
  `EvalProofs` and `CmBenchProofs`
- `PROJECT.json` lists the runs, the code each definition stands for, the
  hazards, and for each property a mutated definition under which TLC refutes it.

## 1. The system

| Part | Code | State it keeps | Operations |
|---|---|---|---|
| Store, write path | `core/src/store.cpp` | cells, projections, text and entity indexes, edges, episodes, one id counter | `capture_episode`, `reconcile`, `forget` |
| Store, read path | `core/src/store.cpp` | none | `compile`, `search`, `pack`, `profile` |
| Journal | `store.cpp` `save`, `load` | the file `<container>.cm.bin` and its `.tmp` | write all records and rename; parse and rebuild the indexes |
| Lexical and vector index | `core/src/index.cpp` | postings, lengths; vectors, dimension | `add`, `remove`, `top_k` |
| Engine | `engine/memory.py` | the store, failure counters, seen ids | `ingest`, `persist`, `recall`, `answer` |
| Client API | `api.py` | the engine | `add`, `session`, `recall`, `ask` |
| Extractor | `engine/extractor.py` | none | windows, parse, deduplicate, fall back |
| Ollama client, manager | `engine/ollama.py` | HTTP client, child process, filter of a stream | stream, start, stop, list models |
| HTTP server | `server/app.py` | client cache, ring of 1000 events | one thread per request |
| MCP server | `mcp.py` | client cache | tools over stdio |
| Terminal UI | `tui/app.py` | session, client, timeline cache, worker flags | handlers on one thread, demo replay on another |
| Command line | `cli.py` | history of a chat, results file of an evaluation | `chat`, `eval`, `dims`, `bench` and one-call commands |
| Evaluation | `eval/` | a memory system per instance, answers, labels | replay, score, judge |
| Benchmark runner | `scripts/cmbench.py` | datasets on disk, results, report | prepare, download, run suites in child processes |
| Benchmark server | `benchmarks/cm_server.py` | job table, spaces, clients | queue a session, poll it, one worker |
| Web client | `web/src/lib` | polled copy of the server's state | poll, ask, forget |
| The rest | configuration, set-up, observability, proxy, drivers | files and numbers | sequential |

How they interact: front ends hold one `MemoryClient` for each container, a
client has one engine, an engine one store. Threads of a process share the
store, whose recursive mutex covers the whole body of each public method.
Processes share nothing but the journal file: each loads it once, when it
builds its client, and writes its whole store back after each ingest.

Where it is hard:

- *Order of arrival.* Statements arrive in any order of the time they became
  true. A late one must be kept and must not become the current truth.
- *Sequences of calls.* Reassert, forget, replace, forget again: the chain, the
  projection, the text index and the windows are kept up to date separately.
- *Two locks for one question.* `recall` compiles and searches in two locked
  calls; writers run between them.
- *Crashes and several processes.* A save may stop anywhere; two processes use
  the same temporary file; `persist` and `__init__` swallow errors.
- *What is not saved.* The indexes and the id counter are derived again by
  `load`.
- *Threads of the servers.* A handler looks up its client, works on the store,
  saves and announces the event in separate steps under different locks, and one
  handler writes to its client's socket with the global lock held.
- *Two threads of the UI.* The demo replaces the client, and borrows the offline
  flag, of the session in which the user goes on working.
- *Text in pieces.* What a model thinks is hidden from a stream that may be cut
  inside a tag.
- *Runs that stop half way.* Downloads, suites, replays and judges fail or are
  killed; what is on disk must be usable, and a report must not say more than
  was done.

What makes each part correct: the store, that chains, windows, projections and
edges tell one history; the read path, that a question gets the truth of the
time it asks about and nothing that was forgotten and is current or was
replaced by then; the journal, that what was reported as saved is there, whole,
after a crash; load, that it rebuilds what was running; the servers and user
interfaces, that what a caller was told stays with the client that took it and,
once saved, for good, that events and panes tell what is, and that everything
begun ends; the benchmark tools, that a score is of what was really run.

## 2. The modules

| Module | Models | Extends or uses |
|---|---|---|
| `Timeline` | abstract: append-only history of each key, newest truth last | |
| `MemoryStore` | the write path | refines `Timeline` |
| `Recall` | the read path beside the writers | `MemoryStore` |
| `Reload` | what `save` writes and `load` rebuilds | `MemoryStore` |
| `Journal` | the file and its processes: crash, restart, refused save | |
| `Jobs` | the benchmark server: request threads, worker, job table, crash | |
| `Server` | the HTTP server's threads, the MCP server and their journal | |
| `Tui` | the terminal UI: handlers, session, demo thread, restart | |
| `ThinkFilter` | `strip_thinking` and the incremental filter of a stream | |
| `FilterLoops` | the searches of the code behind `ThinkFilter`, on every short text | `ThinkFilter` |
| `Chat` | `cm chat`: Ollama server, rounds of tools, stream, journal | `ThinkFilter` |
| `Eval` | `cm eval`, `dims`, `bench`: replay, judge, results file | |
| `CmBench` | the benchmark runner: preparation, downloads, suites, report | |
| `StoreProofs` | theorems about `MemoryStore`, `Recall` and `Reload` | `Recall`, `Reload` |
| `JournalProofs`, `JobsProofs`, `ServerProofs`, `TuiProofs`, `ChatProofs`, `EvalProofs`, `CmBenchProofs` | theorems | the module they are named for |
| `MC*` | instances for TLC | |

The modules form layers. `MemoryStore`, `Recall` and `Reload` have the cells;
`Journal` has the steps of one save and sees a store as a set of changes; the
modules of the front ends take a save as one step and a store as a set or
sequence of memories, because the modules below show what that leaves out.
Wherever a save is made it may be refused: `persist` counts the failure and
returns (`engine/memory.py:133-137`), and the caller is answered as if it had
been saved. Each module says in its header what it abstracts and what is
external.

**MemoryStore.** `cells` is `cells_` with `id_to_index_`; `projection` is
`projections_`, total over `Keys` with `NoProjection` where the code has none;
`byText` is `content_hash_to_cell_`, the last cell created for a text;
`entityId` and `entityCells` are the entity maps, `nextId` the counter all ids
come from. A public method holds the mutex, so a call is one step:
`CaptureEpisode`, `Reconcile(in)`, `Forget(i)`. `Reconcile` follows the code:
dedup against an active cell (and then changes nothing), the decision whether
the cell supersedes the current one of its key or is late, the new cell with
parent and root, the closed window of the one it replaces, index, projection
with the walk that counts ancestors, entities, and the edges. Abstracted: texts
are compared only for equality; a key is a (subject, predicate) pair, `NoKey`
any pair with an empty part; kind, object, confidence, salience and tags are
carried along and read by nothing on this path. Calls that return without a
change (empty text, forget of an unknown id, a duplicate) are stutters.

**Timeline.** What the store promises: versions of a key are only appended, and
a later version never starts before an earlier one. `RefinesTimeline` maps the
chain of each key (`History`) to it. Late cells, cells without a key and
forgetting are stutters of the timeline.

**Recall.** One reader: `Compile` turns a question into a plan, `Search` uses it
(`active_candidates`, the widened second try, the projection channel, filters,
`add_expanded`, `pack`); any number of writes in between. Which cells match the
words, their ranking and the token budget are choices; which cells may be
candidates, what the projection adds and what is filtered are the code's. Two
history variables record what the status of a cell does not: which cells
somebody has asked to forget (`asked`), and which of them were not the current
ones of their keys then (`buried`).

**Reload.** `Records` is what `save` emits, `Restart` what a new process has
after `load`. Vectors are left out: nothing else in the model reads them.

**Journal.** A store is the set of changes (stored, forgotten) it holds. A save
is four steps, open-and-truncate, write, rename, and the return through
`persist`, each of which a crash (`Stop`) or the file system (`Refuse`) can cut.
The file a process has open is followed through a rename by somebody else:
a file renamed under an open descriptor is still that file. Threads of one
process do not appear: `save` holds the mutex to its end.

**Jobs.** `benchmarks/cm_server.py`. A request thread is a caller with one
request: `open` (announce the space, build its client, both under the lock),
`post` (look for the space without the lock, queue under it), `poll` (fetch the
job under the lock, read its status after it), `search` (look for space and
client without the lock). The worker takes the first queued job or sleeps, in
both cases under the lock; `run_job` is fetch, one step for each turn ingested,
the save, and the report, and may fail at any turn. A crash empties everything
but the journals. A store is the set of turns it holds.

**Server.** Two processes, `http` with a thread for each request in progress and
`mcp` with one. `call[t]` says where a handler stands. A request arrives
(`Arrive`) and then waits for the lock, which every one of them takes first,
for its client or for the ring. What lies between two accesses to shared state
is one step: the client (`GetClient`, test and insertion under the lock),
reconcile (under the store's mutex), the save, which stands or is refused
(`Saved`, `Refused`) and is followed by the event and the answer in either case,
the event (`PushEvent`: number, append and trim under the lock). `GetEvents`
takes the lock and `ClientReads` gives it back, since the code writes the answer
to the socket in between. A journal file can serve two containers (`FileOf`,
because names are cleaned for the file system), and both servers can serve one
container. `Restart` empties a process.

**Tui.** The thread of the handlers runs one handler at a time, so a handler is
a step: `Start`, `AutoConnect`, `Remember`, `Ask`, `SwitchContainer`,
`SelectModel`, `ReplayDemo` and the rest. The demo's thread runs beside it:
`RaiseFlag`, `OpenClient`, `InstallClient`, `SeedCells`, a `DemoStep` for each
line of its script, `EndSteps`, and `FinishDemo`, handed back to the handlers'
thread; at any of its points an exception may end it (`DemoFails`), which skips
the step that puts the session online again. A save of `Remember` or of the demo
may be refused, and what raises before it is `RememberFails`. While the demo's
flag is up a handler that writes to the log calls `call_from_thread` on its own
thread, which raises and ends the program: `Says` leads to `crashed`, and the
next `Start` finds what the journals hold.

**ThinkFilter, Chat.** A text is a sequence of pieces; `<think>` and `</think>`
are two pieces each, so a chunk may end inside a tag. `StripThinking` is the
function on a whole text, `Fed` and `Flushed` what `stream_complete` makes of
one chunk and of the end. The code finds one tag after the other (a regular
expression, a loop); `ThinkFilter` says of each piece whether it is left (it is
no tag and in no thought), which can be reasoned about, and `FilterLoops` has
the searches and assumes, for TLC to check, that both leave the same of every
short text. `Chat` goes on where the command line does: find a server or start
one (the child dies if another got the port), list the models, and for each
prompt store, recall or neither, ask for tool calls (`Route`), run them one by
one, ask again, stream the answer. Requests fail, saves are refused, tools do
not exist, the chat ends or is killed; the next one loads the journal. The
server of the observatory, which the chat starts in its own process
(`cli.py:441`), has a client and a store of its own on the same journal: at any
moment it may save whatever that store holds (`ObservatorySaves`).

**Eval.** A run goes through its instances: a fresh system, the sessions in the
order of their times, each ingested, each question answered; then the scores,
the temporary file row by row, the rename, the judge row by row, the file again,
the second report. `dims` and `bench` share the replay and write no file.
Readers fail, the judge fails for a row, the process is killed anywhere. The
sort of the code is stable: `Chronological` puts at place `n` the session that
has `n - 1` before it, where of two of one time the first comes before the
other. What the code takes for granted of its data is `WellFormed`: questions
tell instances apart and ids the sessions of one, `eval` asks each question
once, and the workload `bench` makes is one instance that is in order.

**CmBench.** The phases of `main` in their order, each with what it can find
(`Prepare`), the downloads into a `.part` file that is renamed when it has the
length announced, and the suites: `_run_one` starts a child, copies its output
to its end, waits. The child ends, closes its output and goes on, or hangs. `at`
is the position in the two loops, over the suites and over what each is run for
(`Lineup`), and `results` the dictionary of the code, by suite and system: a
system named twice is run twice, and its second result takes the place of the
first. `Only` is the comprehension that leaves out elements of a list. What
survives a run, or its being killed, is the data directory.

## 3. The runs

| Run | Bounds | What it shows |
|---|---|---|
| `store` | 2 texts, 1 key and no key, 3 instants, 4 cells, 7 ids | chains, windows, projections, dedup, edges and the refinement, in every order of arrival |
| `recall` | 2 texts, 1 key, 2 instants, 3 cells | a current question gets the newest known version; a question about a day can find the truth it began with; evidence has the time and the status the question asks for |
| `reload` | 2 texts, 1 key, 1 entity, 2 instants, 3 cells, 6 ids | loading gives back the running store |
| `journal` | 1 writer, 1 reader, 2 facts, 2 refused saves | saved changes survive |
| `jobs` | 2 callers, 1 space, 2 sessions that share a turn, 2 jobs, 1 refused save, 1 crash | order of ingestion, what a poll promised, liveness of jobs |
| `server` | 2 request threads and the MCP server, a container and a text each, one journal file for both; 3 requests and calls in all that do more than read, and any number that only read; any save refused; a ring of 2; 1 crash | what was told is kept, events tell what was done, requests end |
| `tui` | 2 containers, 1 fact, 1 model, 2 starts; any save refused, any step of a demo may raise | what the user was told is remembered, the session after a demo that ended or failed, the timeline shown, the end of the demo |
| `chat` | 2 texts, 2 chats of 2 prompts, 2 rounds of tools, 2 replies, any save refused, any save of the observatory; every text of 6 pieces | what `ThinkFilter` leaves of a text, whole or a chunk, is what the code's searches leave (`SearchesAgree`); the stream shows what the whole text would, tool calls are answered, statements are kept, prompts end |
| `eval` | 2 runs of 7 command lines | the sessions behind an answer, the results file, the report |
| `cmbench` | 2 runs of 7 command lines | datasets, the verdict of the report, the end of a run |
| `claim_later_process`, `claim_thoughts` | as small as shows it | a sentence of the code the program does not keep (section 6) |

Why the bounds are enough. Keys do not interact in `reconcile` except through
the text index and the counter, which `NoKey` cells and shared texts exercise;
the theorems cover any number of keys. Four cells allow a chain of three with a
late cell, a forgotten version or a re-asserted text; three instants let a late
cell fall before, at and between versions. Windows of `Recall` need a version
that closes and one that follows, so two instants and three cells. `Reload`
depends on each cell alone and on the highest id. In `Journal`, two outages
allow one to follow another, two facts one saved and one not. In `Jobs` the
order of two jobs, two callers in each other's way and a session posted again
after a crash are there; more spaces would not meet. In `Server` two threads
can build one client, store and forget the same memory and push events in
either order, the ring of two overflows (1000 in the code, which only its length
depends on), and the other process overwrites the file. In `Tui` two containers
let a demo change the client of either, and the second start finds what the
first left. `Chat` has a prompt after one that failed and a chat after one that
was killed; its two replies have a thought between words, a `<` that begins no
tag, a closing tag alone and a thought that never closes; two rounds of tools
(four in the code) let one follow another and the limit be reached. Six pieces
in a text are three tags: a thought opened in a thought, closed twice, left
open after one that was closed, and every pair of tags with a piece cut out.
The command lines of `Eval` have every command, sessions out of order and two of
one time, a window smaller than its instance, one that fits, `--max-instances`
below and above the data, a dataset with a date missing, a workload without
sessions; those of `CmBench` every kind of suite, a system of each rank and one
named twice, names misspelt, `--keep-going` and not, `--check`, and no timeout.
Two runs let the second find what the first left.

`MaxCells`, `MaxId`, `Outages`, `MaxJobs`, `Crashes`, `MaxWork`, `Restarts`,
`Starts`, `Prompts`, `Chats` and `Runs` are the only caps on counters, all
guards. `kMaxChainDepth` keeps its value 128 and `Cap` is 8 in the
configurations, so neither cuts anything there; the cuts are in the model for
larger instances. In `chat`, `AnyCut = FALSE` excludes each cut inside a closing
tag, and each cut inside what looks like an opening one in a chunk that began in
a thought (`CutAt`). All cuts that go wrong (section 6, `claim_thoughts`) are
among these, and so are some that the filter handles; what `chat` and its
theorem say of streams, they say of the others only.

Deadlock is not checked: a model that has used its bounds stops, and so does a
system whose callers stop calling.

Fairness. The core does nothing on its own: `store`, `recall`, `reload`,
`journal` and `eval` assume none and check safety.

- `Jobs`: a thread that can run runs (weak fairness of the worker and of each
  request thread), and the worker gets the lock sooner or later when it asks
  again and again (strong fairness of its three steps that take it): it asks the
  moment it has released it, and loses it only to a request thread that is
  already waiting. Nothing more is assumed of the request threads, because
  `threading.Lock` promises no order; section 6 says what follows.
- `Server`: a request that can go on again and again does, those included that
  wait for the lock (strong fairness of each thread's steps), and the agent's
  call goes on when it can. That a lock which is free again and again is won at
  last is an assumption about `threading.Lock`, which promises no order: it is
  held for a few instructions by everybody but `GetEvents`, and no thread takes
  it in a loop, as the worker of `Jobs` does. Of the clients nothing is assumed:
  that they read the events they asked for (`ClientsRead`) is a condition within
  `RequestsEnd`, as one that does not read stops the server (section 6).
- `Tui`: the handlers queued at start and the demo's thread run. What the user
  does is not fair.
- `Chat`: the steps of a prompt run. A request is answered or times out, and a
  stream comes to its end or fails: the HTTP client has a timeout.
- `CmBench`: the runner's steps run, time passes, and (an assumption about the
  children) a suite comes to the end of its output. Without the last a run need
  not end: the timeout is looked at only after the output (section 6).

No request has to arrive, no user has to act, and no crash to happen.

A note on `reload`. `ReloadIsIdentity` says that in every state the indexes and
the counter are what `load` would derive from the records. A restart therefore
leads to the very state in which the journal was saved, and every invariant of
`MemoryStore` holds across restarts (`ChainsSurviveRestarts`, section 5); they
need no runs of their own.

## 4. The properties

`MemoryStore`
- `ChainLinked`: a version is replaced at most once, by one of its own key,
  starting where its window closes.
- `AsOfAgrees`: at each instant the versions whose window covers it are exactly
  the timeline's truth, so windows neither overlap nor leave gaps.
- `ProjectionNewest`: no cell of a key, late or not, starts after the one its
  projection names.
- `VersionCountExact`: the count found by walking parents is the chain's.
- `DedupComplete`: no two active cells have the same text.
- `EdgesMatchHistory`: the edges are the parent links and one link for each late
  cell.
- `RefinesTimeline`, `EvidenceRetained`: over steps.

`Recall`: what a search returns fits the question it was compiled for, although
writers ran in between.
- `CurrentIsNewestKnown`: a current question gets the newest version that was
  observed by then and is not forgotten, or abstains, as long as the key has no
  more versions than a walk visits.
- `OneTruthPerKey`: besides that version, at most one version of each key.
- `EvidenceFitsQuestion`: nothing that was asked to be forgotten, but for what
  was the current cell of its key then and has been replaced since; and the time
  and status asked for, but for three exceptions, listed with it.
- `DayFindsItsTruth`: the version that was true when the day began is a
  candidate, in a store the cut of the candidates does not reach.

`Reload`: `ReloadIsIdentity`, `StoreContinuesDisk`.

`Journal`: `AckedIsInJournal`, `JournalOnlyGrows`, both for one writer.

`Jobs`: `IngestInOrder`, `CompleteIsKept`, `ToldIsDurable` (what a poll
reported survives a crash unless a save failed), `AnnouncedIsOpen` (the only
moment in which a search can find a space without a client), and the liveness
property `JobsEnd`.

`Server`
- `ToldIsKept`: what was answered to be stored is under the same id in the store
  of its client as long as the process runs, whatever saves were refused; from
  the next save that stands it is in the journal too, and in the store of the
  next process, as long as no other client saves to that file.
- `RingIsNewest`: the ring has no gap, so a poller can tell what it missed.
- `AnnouncedIsDone`: an event comes after what it tells of, and no memory is
  announced as forgotten twice.
- `RequestsEnd`: liveness. A request counts from its arrival, waiting for the
  lock included; those of the HTTP server end if clients read their events, a
  tool call ends in any case.

`Tui`
- `ToldIsRemembered`: what the user was told is remembered is in the client as
  long as the session is on that container and no other client has taken its
  place, and from the next save that stands it is in the journal for good:
  through demos that replace the client, changes of the container, crashes and
  new starts. A fact whose saves were all refused goes with its client.
- `LiveIsOnline`: between demos a session with a model says so, and is online
  unless a demo failed after its model answer and neither a whole demo nor a new
  connection has come since.
- `TimelineIsOfContainer`: the cache never serves another container.
- `DemoEnds`: liveness.

`Chat`: `ShownIsVisible` (the stream shows what `strip_thinking` leaves of the
whole, if the tags of the reply are whole and a `<` that begins none stands
before a word or at the end: `WholeTags`; section 6 says what is dropped
otherwise), `ToolsAnswered` (each tool call of the history is followed by its
result whenever the model is asked), `StatementsAreKept` (a statement is in the
store of the chat until it is forgotten, and in the journal from a save that
stands until the observatory saves over it), `TurnsEnd`.

`Eval`: `OwnSessionsOnly` (an answer has seen the right sessions of its own
instance, and no other), `FileIsWhole` (the results file is at every moment one
whole replay), `ReportMatchesFile` (the scores printed are those of the file).

`CmBench`: `DatasetsAreWhole` (a dataset under its name is not a part of one, if
the server announced its length), `PassIsEarned` (a report that passes ran every
suite for every system, except those listed as skipped and `beam` where pandas
is missing), `RunsEnd` (if suites end their output).

## 5. What is proved

The theorems hold for every value of the constants that satisfies the
assumptions of the module they are about:

- `MemoryStore`, `Recall` and `Reload`: instants are positive numbers below `Never`,
  observed instants are instants, the names `Keys` do not contain `NoKey`,
  entities are a finite set; the caps of `Recall` are positive.
- `Journal`: writers are processes, `Outages` is a number.
- `Jobs`: each session has a space and is a sequence of turns; no request thread
  is called `worker` or `nobody`, the other values of the lock.
- `Server`: each container has a journal, requests name containers, no request
  thread is called like the MCP server's, a ring holds at least one event.
- `Tui`: `NoModel` is no model and `NoTag` no container.
- `Chat`: what a model calls is a sequence of tools, a prompt has at least one
  round, a reply is a sequence of pieces of text.
- `Eval`: each command line with its data is of the shape `Job`, and
  `WellFormed`.
- `CmBench`: a command line is of the shape `Request`.

| Module | Theorems |
|---|---|
| `StoreProofs`, of `MemoryStore` | `TypeCorrect`, `ChainInvariant`, `ChainsAreLinked`, `ProjectionsAreNewest`, `NoActiveDuplicates`, `WindowsAnswerAsOf`, `StoreRefinesTimeline`, `EvidenceIsRetained`, `EdgesTellHistory`, `CountsAreExact` |
| `StoreProofs`, of `Recall` | `CurrentIsNewest`, `OneVersionPerKey`, `EvidenceAlwaysFits`, `DaysFindTheirTruth` |
| `StoreProofs`, of `Reload` | `ReloadsAreIdentical`, `StoresContinueDisks`, `ChainsSurviveRestarts` |
| `JournalProofs` | `TypeCorrect`, `AcknowledgedSavesSurvive`, `JournalNeverShrinks`; the last two assume `OneWriter`, at most one process that ingests, without which they are false (section 6) |
| `JobsProofs` | `SessionsComeInOrder`, `CompleteJobsAreKept`, `ToldStaysDurable`, `SpacesOpenUnderLock` |
| `ServerProofs` | `RingHasNoGap`, `EventsTellWhatIsDone`, `WhatIsToldIsKept` |
| `TuiProofs` | `RememberedStays`, `ModelsAreOnline`, `TimelineFollows` |
| `ChatProofs` | `StatementsSurvive`, `ToolsAreAnswered`, `StreamsShowTheWhole`; the last assumes `~AnyCut`, without which it is false (section 6) |
| `EvalProofs` | `AnswersFromOwnSessions`, `WholeFile`, `ReportOfTheFile` |
| `CmBenchProofs` | `WholeDatasets`, `PassesAreEarned` |

So every safety property of the runs is a theorem.

*The argument for the store.* None of the properties is inductive. That a
version is replaced only once needs to know that only the projection's cell is
open; that windows agree with the timeline needs that the versions are ordered
by id and by start alike; that no cell starts after the current one needs late
cells in the picture. `ChainInv` says these together, for each key
(`ProjectionOf`, `VersionsOf`), for each cell (`ParentOf`) and for each text
(`LastOfText`: only the last cell of a text can be active). `Reconcile` falls
into three cases, the first cell of a key, a late cell and a newer one; a lemma
states for each what happens to the versions of the key, another that other
keys keep theirs. The properties, and each step of the refinement, follow from
`ChainInv` without induction.

The edges of `EdgesMatchHistory` are inductive together with `ChainInv`: a newer
version adds the one edge that its parent link asks for, a late cell the one
edge that makes it late, and a version never stops being one. For
`VersionCountExact` the walk of `update_projection` has to be computed, a least
set closed under parent links. That it contains only versions is clear, since
the versions are closed; that it contains all of them needs an induction, which
is done as a minimal-counterexample argument: of the versions a closed set
misses take the greatest (`GreatestNatural`); the version that replaced it is in
the set, and so it would be too. The count of the new walk is then the count of
versions before, plus one.

*The argument for the read path.* Of the compile only the plan is left when the
search runs, and the search is one step, so its evidence is judged by the chains
of its own state: `ReadInv` is the write path's invariant, the shape of a plan,
and what became of the cells somebody asked to forget (`AskedInv`). No reconcile
makes a cell current that exists already, and none touches one that is not
(`ReconcileCurrent`), so a cell that was replaced or late when it was forgotten
keeps its status for good, and one that was current keeps it as long as it is.
Everything a search can return is either kept or comes by expansion;
`Fits` says what both have in common. A current question has at most one hit of
the projection, the greatest id of the chain that was observed by then and is
not forgotten (`HitOfCurrent`), and ids and starts order a chain alike
(`VersionsInOrder`), so it is the newest; two other versions of a key would have
overlapping windows. For a day `AsOfAgrees` gives the window of the truth.

Two of these properties hold only below a limit of the code, and say so. A walk
along a chain ends after `kMaxChainDepth` versions (`WalkIsWhole`), and
candidates are cut at four times the cap. The proofs showed where each is
needed; without `WalkIsWhole` TLC refutes `CurrentIsNewestKnown` as soon as
`MaxChainDepth` is 1, and with it the property holds there too.

*The argument for load.* The store a fresh process would load from the disk is a
`MemoryStore` as well: `D == INSTANCE MemoryStore WITH cells <- disk.cells, ...`,
with the indexes and the counter given by what `load` derives. The invariant
says of both, the running store and `D`, what is proved of one `MemoryStore`
(`StoreInv`, `DiskInv`), that the running store's indexes are the derived ones
(`IndexInv`), that the ids up to the counter are exactly those in use, so that
the counter can be found again (`IdsOf`), and that the store continues the disk.
A write keeps the first by the lemmas about `MemoryStore`, a save makes the
disk's part the running one, and a restart the running part the disk's.

*The argument for the journal.* With one writer the only file named `.tmp` that
a running save can rename is its own. `DurableInv` says that a save in progress
has `.tmp` open alone, that what it has written is the whole of its store, that
a store of the writer contains the journal, and that the journal is whole and
contains what was acknowledged. A crash leaves `.tmp` behind, and the next open
truncates it.

*The argument for the benchmark server.* Exactly the worker's job is running,
and a job behind one that is not finished is still queued, because the worker
takes the first (`FirstIsFirst`) and keeps it until it reports (`WorkerInv`).
`ProgressInv` follows the job through its steps: its space has a client from the
moment it was queued, the turns up to `done` are in the store, and after a good
end all of them are, and in the journal unless a save was counted as failed. A
poll fetches a job under the lock and reads its status after it: the job stays
in the table, and a status that is complete stays complete (`CallsInv`). Stores
contain their journals, so no later save takes from one what was told.

*The argument for the servers.* `ServerInv` adds to the properties what a
handler has done when it stands between two steps. Stores only grow and a dead
memory stays dead (`Continues`), so a handler that waits to push its event finds
what it did still done (`Ready`), whatever ran in between. No two live memories
of a store have the same text (`Store`), so the id of a duplicate is the one id
of that text. Of two handlers that forget the same memory only one finds it
alive, so at most one event about it is in the ring or on its way (`Once`). And
a client whose journal has no other saver holds all that the journal holds
(`KeptInv`), so that its next save loses nothing and makes safe what it told
after saves that were refused; a refused one changes neither side. A client
built after a crash starts from the journal and so satisfies this again.

*The argument for the terminal UI.* The demo's thread reads the container and
its journal, then builds a client from them, then installs it; in between the
user can do anything. What saves the properties is what ends the program: while
the flag is up (`DemoInv` says at which points of the thread that is), each
handler that would change the container, the model or the journal raises, so
that the client about to be installed is still that of the container on the
screen and holds its journal (`MemoryInv`). After a crash only the journals
count, and they hold all that was told and saved. What was told after a save
that was refused is in the one client there is (`MemoryInv`); a demo that opens
another from the journal takes it away, and with it what the user may rely on. A
session with a model is offline only while the thread answers questions, or
since that ended in an exception (`SessionInv`); else the thread lowers the flag
`offline` before it lowers its own. The theorems would not survive a repair of
the crash that did nothing else.

*The argument for the chat.* While tools run, one message is being answered: the
results that follow it and the calls still pending make up its calls
(`Answering`); every other message is answered. For the statements, what was in
the last save that stands is among what the chat has stored, and a chat without
a client yet finds all of it in the journal (`KeptInv`); a save makes the two the
same, one that is refused leaves both, and after one of the observatory's
nothing of the journal is relied on.

*The argument for the stream.* A place of a reply is `Clean` if no tag and no
`<` ends in its middle there. Whatever chunks have come, the filter is at such a
place, with at most one piece held back behind it (`FilterAt`): it has shown
what is visible of the reply up to there, and knows whether it is in a thought.
A chunk takes it to the next such place (`ChunkOfText`): what is held back of
the buffer is exactly the piece at its end that may begin a tag (`HeldIs`, by
the characters of the tail), from a clean place on the rest of the reply looks
the same as the chunk alone (`ThinkingShift`, `VisibleShift`), its short tail is
never one that would be dropped (`StripsVisible`), and the visible pieces up to
a later place are those up to the earlier one and then those between
(`PiecesJoin`, by the ranks of the places). At the end a `<` may be held back,
which is visible unless it is in a thought (`EndIsVisible`), and the flush shows
it just then.

*The argument for the evaluation.* `EvalInv` follows the replay. The feed of an
instance has each of its sessions once and none before one of an earlier time
(`ChronologicalIs`): the places a session is behind are as many as its rank
says, no two sessions have the same rank, and so each rank up to the number of
sessions is taken. The system holds the last `n` of what it has got (`Fed`), `n`
being its window or all; and the last `n` of a sequence in order are the latest
`n` (`LastAreLatest`). For the file, the answers of `eval` are one for each
instance it has been through, in order (`Placed`); what has gone to the
temporary file is the beginning of what is being written (`Written`); and the
instances are the slice of the data of some command line (`Sliced`), whichever
run wrote the file. For the report, a label leaves the rest of a row as it was
(`Labeled`), so the second file has the scores of the first, and between the
moment a score is printed and the end of the run nothing but the same rows gets
into the file (`Printed`).

*The argument for the benchmark runner.* A suite asked for is still to run, or
listed as skipped, or `beam` without pandas: each phase only moves suites from
one of these to another. Every pair of suite and system before the position of
the loops has a result (`PassInv`), and the two positions pass over none
(`DoneKeeps`); so at the end all have one, and the verdict has looked at all of
them. That a selection (`Only`) and the order of the systems lose nobody is the
same argument by ranks as that of the sort.

Only model-checked: that `FilterLoops` agrees with `ThinkFilter`, which for
every text would need induction over an operator, and the prover's back ends
cannot instantiate that (no theorem uses it); and the liveness properties, for
it does not handle fairness and ENABLED.

## 6. Where the code and its documents disagree

Two runs each refute one sentence (`PROJECT.json`, "findings"):

- `claim_later_process`: "a fresh client in a later process recalls what earlier
  sessions stored" (`api.py:41`). `add` and forget do not save.
- `claim_thoughts`: thinking blocks are suppressed "so Qwen3 reasoning never
  flashes on screen" (`engine/ollama.py:218`). A tag cut at the end of a chunk
  that began in a thought is dropped, and the thought behind it is shown.

What follows was met while modelling. The models follow the code; the
properties are stated so that they hold of it, and no run refutes these.

The store:
- When the current cell of a key is forgotten, the next statement about the key
  sets its status to Superseded (`core/src/store.cpp:654`), and questions about
  the past return it again, although forgetting is to make "active retrieval"
  exclude the cell and "only the read path excludes it"
  (`core/include/cmcore/store.hpp:163-166`). `EvidenceFitsQuestion` has this
  case as its exception and shows that there is no other.
- The chain of a hinted key joins the candidates without the test that it was
  observed by the time asked about (`store.cpp:1088`).
- With the head of a chain forgotten, a current question finds the version
  behind it (`store.cpp:1239`).
- A question walks back at most 128 versions of the hinted key
  (`store.cpp:1231`): when those are forgotten, or were observed too late, older
  ones are not found.
- The walk that counts versions has a "depth guard" in its comment
  (`store.cpp:557`), but the depth is never incremented (`:561`). Only the guard
  against cycles ends it, and the count is exact for chains of any length.
- Asked about the past, a version that has been replaced since is neither active
  nor closed by then, and is left out unless its key is hinted
  (`store.cpp:1043`).
- Two processes with one journal truncate and rename the same `.tmp`
  (`store.cpp:1504`), and each saves its whole store over what the other saved
  (`engine/memory.py:135`); hence `OneWriter`, the condition in `ToldIsKept`,
  and the single chat of `Chat`.
- A save that is refused is counted and nothing else (`engine/memory.py:136`),
  and nobody reads the counter before answering: `POST /v1/memories` and the
  memory tools answer that it is stored, the terminal UI that it is remembered
  (`server/app.py:384`, `mcp.py:158`, `tui/app.py:970`). If no later save of the
  same client stands it is gone with the process, in the UI with the next demo or
  change of container, which builds a new client from the journal.

The servers:
- The idle worker of the benchmark server sleeps with the lock and takes it
  again before a waiting request thread can (`benchmarks/cm_server.py:129`). A
  thread that competes with it for the same lock in CPython 3.11 waited between
  7 and more than 20 seconds.
- The events endpoint writes to the socket with the global lock held and no
  timeout (`server/app.py:282`): a client that does not read keeps every other
  request waiting.

The terminal UI: while a demo runs, a handler that writes to the log or renders
the status goes through `call_from_thread` on the very thread that must not use
it, and the program ends with the exception (`tui/app.py:1150`; the flag is set
at `:994` and is one for all threads). And a demo that raises after its one
answer by the model (`:1042`, caught at `:1046`) leaves a connected session
offline, until a demo runs to its end or the user connects again.

The chat:
- The server of the observatory that the chat starts (`cli.py:441`) saves a store
  of its own over the journal of the chat, as two processes do.
- What follows a `<` that begins no thought is dropped from the stream when the
  chunk ends within seven characters of it, as in `<b>` (`engine/ollama.py:68`).
  A `</think>` cut in two hides the answer behind the thought.
- The messages of tools are filtered out of the prompt of the stream, so the
  model that answers has not seen what the tools returned (`cli.py:478`).
- When the server does not come up or has no model the command returns without
  stopping the server it started (`cli.py:411`).
- A tool that does not exist, or arguments that are not JSON, end the chat.

The benchmark tools:
- The timeout of a suite is looked at only after the suite has ended its output
  (`scripts/cmbench.py:579`, against the help text at `:964`).
- `phase_env` is handed a Boolean for its arguments and ends in an
  AttributeError when the package is not installed.
- Without pandas `beam` leaves the list without appearing among the skipped.
- A reader that fails loses the whole replay; `bench` without a session ends in
  a ValueError.

## 7. Not modelled, and the plan

Left out, and why:

- *Indexes* (`core/src/index.cpp`): sequential and in memory; which cells match
  a question is a free choice in `Recall`, so no property here depends on them.
- In the store: `profile` (a read), embeddings, access heat, `create_cell` and
  `link` (called by tests only), the words of questions, scores.
- Size caps of `load`, damage to a journal from outside, power failure: they are
  listed as hazards, and no model has sizes or a disk that loses writes.
- *Extractor, embedder*: a request and the tolerant parsing of its answer. A
  failure falls back to the turns as they are, and callers see a success.
- *Bindings, configuration, set-up, observability, proxy, web client*:
  conversions, small files, numbers and drawing. That two containers can share a
  journal path is in `Server`.
- In the parts that are modelled partly: what answers and panes list, the
  onboarding screens of the UI, one-call commands, the texts of scenarios and
  prompts, the older drivers under `benchmarks/`.

Planned, in this order:

1. An abstract bounded log, and `Server`'s ring shown to implement it.
2. `Extraction`: windows cover a session, deduplication across windows.
3. `Indexes`: both indexes as functions of the cells they were given.

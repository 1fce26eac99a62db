-------------------------------- MODULE Chat --------------------------------
(***************************************************************************)
(* `contextmemory chat` (cli.py, engine/ollama.py): it finds or starts an  *)
(* Ollama server, then for each prompt stores or recalls, lets the model   *)
(* call the memory tools, and streams the answer.  Chats follow each other *)
(* on one journal; a chat may be killed anywhere.  Beside it stands the    *)
(* observatory's server, which the chat starts in its own process if no    *)
(* other has the port, with a client of its own on the same journal.       *)
(*                                                                         *)
(* External: the model (its tool calls and what it writes), its server and *)
(* what the observatory is asked.                                          *)
(*                                                                         *)
(* Abstracted: the memory is a set of texts, a save is atomic but may be   *)
(* refused, and the observatory's store may be anything (MemoryStore,      *)
(* Journal and Server have these in full); a message is its role and the   *)
(* number of tools it calls; which text a prompt turns into, and what a    *)
(* tool answers, are left out.                                             *)
(***************************************************************************)
EXTENDS ThinkFilter

CONSTANTS
  Texts,       \* what the user states
  Replies,     \* what the model writes, see ThinkFilter
  Calls,       \* the lists of tools it calls
  AnyCut,      \* whether a chunk may end inside any tag
  Limit,       \* rounds of tools for one prompt (4 in the code)
  Prompts,     \* bound on the prompts of a chat
  Chats        \* bound on the chats

Tools == {"memory", "recall", "forget", "unknown"}

ASSUME ChatAssumption ==
  /\ Calls \subseteq Seq(Tools) /\ << >> \in Calls
  /\ Replies \subseteq Seq(STRING)
  /\ AnyCut \in BOOLEAN
  /\ Limit \in Nat \ {0} /\ Prompts \in Nat /\ Chats \in Nat

VARIABLES
  pc,          \* where the chat stands, "off" between chats
  foreign,     \* whether somebody else's Ollama runs
  child,       \* whether the one this chat started does
  messages,    \* the history: [role, calls]
  round,       \* the round of tools of this prompt
  pending,     \* tools still to run in it
  reply,       \* what the model writes in this stream, from its beginning
  at,          \* how much of it has come
  stream,      \* the filter of the stream
  built,       \* whether the chat has its memory client
  store,       \* the texts in its store
  journal,     \* the texts in the journal
  stated,      \* what it has stored and was not asked to forget; history
  safe,        \* of these what was in its last save that stands; history
  prompts, chats

ollama == <<foreign, child>>
turn == <<round, pending, reply, at, stream>>
memory == <<built, store, journal, stated, safe>>
vars == <<pc, ollama, messages, turn, memory, prompts, chats>>

Message(role, calls) == [role |-> role, calls |-> calls]

Init ==
  /\ pc = "off"
  /\ foreign \in BOOLEAN /\ child = FALSE
  /\ messages = << >>
  /\ round = 0 /\ pending = << >>
  /\ reply = << >> /\ at = 0 /\ stream = NoStream
  /\ built = FALSE /\ store = {} /\ journal = {}
  /\ stated = {} /\ safe = {}
  /\ prompts = 0 /\ chats = 0

\* No answer is streamed yet, or no longer.
NoReply == reply' = << >> /\ at' = 0 /\ stream' = NoStream

GoesTo(p) == pc' = p
Says(message) == messages' = Append(messages, message)

----------------------------------------------------------------------------
(* Starting and stopping.                                                  *)

\* The program ends and leaves the server it started, if it did.
Leaves ==
  /\ GoesTo("off")
  /\ foreign' = (foreign \/ child)
  /\ child' = FALSE

\* What the last chat could not save is gone.
Start ==
  /\ pc = "off" /\ chats < Chats
  /\ chats' = chats + 1 /\ prompts' = 0
  /\ built' = FALSE /\ store' = {} /\ stated' = safe
  /\ messages' = << >>
  /\ round' = 0 /\ pending' = << >> /\ NoReply
  /\ GoesTo("probe")
  /\ UNCHANGED <<ollama, journal, safe>>

\* start_managed asks for a server; one that is there may be too slow.
Probe(answers, binary) ==
  /\ pc = "probe"
  /\ answers => foreign
  /\ \/ answers /\ GoesTo("models") /\ UNCHANGED ollama
     \/ /\ ~answers /\ binary
        /\ GoesTo("wait") /\ child' = TRUE /\ UNCHANGED foreign
     \/ ~answers /\ ~binary /\ Leaves
  /\ UNCHANGED <<messages, turn, memory, prompts, chats>>

\* The child gives up when its port is taken.
ChildDies ==
  /\ child /\ foreign
  /\ child' = FALSE
  /\ UNCHANGED <<pc, foreign, messages, turn, memory, prompts, chats>>

\* It waits for the server for a time; without it the chat ends, with no stop.
WaitForServer(answers) ==
  /\ pc = "wait"
  /\ IF answers THEN GoesTo("models") /\ UNCHANGED ollama
     ELSE Leaves
  /\ UNCHANGED <<messages, turn, memory, prompts, chats>>

\* list_models; without a model the chat ends, with no stop.
ListModels(some) ==
  /\ pc = "models"
  /\ IF some
     THEN GoesTo("prompt") /\ Says(Message("system", 0)) /\ UNCHANGED ollama
     ELSE Leaves /\ UNCHANGED messages
  /\ UNCHANGED <<turn, memory, prompts, chats>>

\* stop_managed.
StopManaged == GoesTo("off") /\ child' = FALSE /\ UNCHANGED foreign

\* The chat ends: /exit, the end of the input, or an error it does not catch.
EndChat ==
  /\ pc \in {"prompt", "route", "tools", "stream"}
  /\ StopManaged
  /\ UNCHANGED <<messages, turn, memory, prompts, chats>>

\* The process is killed.
Kill ==
  /\ pc # "off"
  /\ Leaves
  /\ UNCHANGED <<messages, turn, memory, prompts, chats>>

----------------------------------------------------------------------------
(* The memory tools.                                                       *)

\* _client builds the client at the first call, from the journal.
Loaded == IF built THEN store ELSE journal

\* persist: the store saved over the journal, or the save refused, which the
\* engine counts and tells nobody.
Persist ==
  \/ journal' = store' /\ safe' = stated'
  \/ UNCHANGED <<journal, safe>>

\* Mutant of Remember: the store is left to be saved later.
RememberUnsaved(text) ==
  /\ built' = TRUE /\ store' = Loaded \cup {text}
  /\ stated' = stated \cup {text} /\ safe' = stated'
  /\ UNCHANGED journal

\* The memory tool persists the store before it answers.
Remember(text) ==
  /\ built' = TRUE /\ store' = Loaded \cup {text}
  /\ stated' = stated \cup {text}
  /\ Persist

\* forget changes the store only.
Forget(text) ==
  /\ built' = TRUE /\ store' = Loaded \ {text}
  /\ stated' = stated \ {text} /\ safe' = safe \ {text}
  /\ UNCHANGED journal

Recall ==
  /\ built' = TRUE /\ store' = Loaded
  /\ UNCHANGED <<journal, stated, safe>>

\* The observatory stores what it is asked to and saves its whole store: the
\* journal as it was when its client was built, and what it was asked since.
\* Of what the chat has saved nothing need be in it; the chat's store stays.
ObservatorySaves(texts) ==
  /\ journal' = texts
  /\ safe' = {} /\ stated' = IF built THEN stated ELSE {}
  /\ UNCHANGED <<pc, ollama, messages, turn, built, store, prompts, chats>>

Dispatch(tool) ==
  \/ tool = "memory" /\ \E text \in Texts : Remember(text)
  \/ tool = "forget" /\ \E text \in Texts : Forget(text)
  \/ tool = "recall" /\ Recall

----------------------------------------------------------------------------
(* A prompt.                                                               *)

\* A statement is stored before the model sees it, a question carries what is
\* found, anything else goes as it is.
Ask(kind) ==
  /\ pc = "prompt" /\ prompts < Prompts
  /\ prompts' = prompts + 1
  /\ \/ kind = "statement" /\ \E text \in Texts : Remember(text)
     \/ kind = "question" /\ Recall
     \/ kind = "other" /\ UNCHANGED memory
  /\ Says(Message("user", 0))
  /\ round' = 1 /\ pending' = << >>
  /\ NoReply
  /\ GoesTo("route")
  /\ UNCHANGED <<ollama, chats>>

\* chat_with_tools: the message of a model that calls these tools.
ChatWithTools(calls) == Message("assistant", Len(calls))

\* route_tools_fast: the model calls tools, or none: then it is asked again,
\* for the stream.
Route(calls) ==
  /\ pc = "route"
  /\ Says(ChatWithTools(calls))
  /\ pending' = calls
  /\ IF calls = << >>
     THEN /\ GoesTo("stream")
          /\ reply' \in Replies /\ at' = 0 /\ stream' = NoStream
     ELSE GoesTo("tools") /\ UNCHANGED <<reply, at, stream>>
  /\ UNCHANGED <<ollama, round, memory, prompts, chats>>

\* After the last tool the model is asked again, but not for ever.
NextRound ==
  IF round < Limit THEN round' = round + 1 /\ GoesTo("route")
  ELSE GoesTo("prompt") /\ UNCHANGED round

\* A tool runs and its result joins the history.
RunTool ==
  /\ pc = "tools" /\ Dispatch(Head(pending))
  /\ Says(Message("tool", 0))
  /\ pending' = Tail(pending)
  /\ IF pending' = << >> THEN NextRound ELSE UNCHANGED <<pc, round>>
  /\ UNCHANGED <<ollama, reply, at, stream, prompts, chats>>

\* Mutant of UnknownTool: the error is caught like one of the connection.
UnknownToolCaught ==
  /\ pc = "tools" /\ Head(pending) = "unknown"
  /\ GoesTo("prompt")
  /\ UNCHANGED <<ollama, messages, turn, memory, prompts, chats>>

\* Mutant of UnknownTool: the error is swallowed, and the tool stays the next.
UnknownToolAgain ==
  /\ pc = "tools" /\ Head(pending) = "unknown"
  /\ UNCHANGED vars

\* A tool that does not exist, or arguments that are no JSON, end the chat.
UnknownTool ==
  /\ pc = "tools" /\ Head(pending) = "unknown"
  /\ StopManaged
  /\ UNCHANGED <<messages, turn, memory, prompts, chats>>

\* Where a chunk may end: inside no closing tag and, if it began in a thought,
\* inside nothing that looks like an opening one.
CutAt(n) ==
  \/ AnyCut
  \/ reply[n] # Close /\ (stream.inThink => reply[n] \notin {Open, Less})

\* stream_complete yields what is visible of the next chunk.
StreamChunk(n) ==
  /\ pc = "stream" /\ n > at /\ CutAt(n)
  /\ stream' = Fed(stream, SubSeq(reply, at + 1, n))
  /\ at' = n
  /\ UNCHANGED <<pc, ollama, messages, round, pending, reply, memory, prompts,
                 chats>>

\* The stream ends, and the answer joins the history.
StreamEnds ==
  /\ pc = "stream" /\ at = Len(reply)
  /\ stream' = Flushed(stream)
  /\ Says(Message("assistant", 0))
  /\ GoesTo("prompt")
  /\ UNCHANGED <<ollama, round, pending, reply, at, memory, prompts, chats>>

\* An error of the connection or a timeout: the prompt is given up.
RequestFails ==
  /\ pc \in {"route", "stream"}
  /\ NoReply
  /\ GoesTo("prompt")
  /\ UNCHANGED <<ollama, messages, round, pending, memory, prompts, chats>>

----------------------------------------------------------------------------
StartChat ==
  \/ Start
  \/ \E answers, binary \in BOOLEAN : Probe(answers, binary)
  \/ \E answers \in BOOLEAN : WaitForServer(answers)
  \/ \E some \in BOOLEAN : ListModels(some)

User ==
  \/ \E kind \in {"statement", "question", "other"} : Ask(kind)
  \/ EndChat

Turn ==
  \/ RequestFails
  \/ RunTool \/ UnknownTool
  \/ \E calls \in Calls : Route(calls)
  \/ StreamEnds
  \/ \E n \in 1 .. Len(reply) : StreamChunk(n)

Observatory == \E texts \in SUBSET Texts : ObservatorySaves(texts)

Next == StartChat \/ ChildDies \/ User \/ Turn \/ Kill \/ Observatory

Spec == Init /\ [][Next]_vars

\* The program runs; a request is answered or times out.
FairSpec == Spec /\ WF_vars(Turn)

----------------------------------------------------------------------------
(* Properties.                                                             *)

\* What the user has been shown of an answer is what strip_thinking leaves of
\* it, however the stream was cut - where CutAt lets it be cut, and for what a
\* model writes but for markup: of "<b>" the filter may drop what follows "<".
ShownIsVisible ==
  pc = "prompt" /\ reply # << >> /\ WholeTags(reply) =>
    stream.shown = StripThinking(reply)

\* What the model thinks is never shown.  Broken: a tag that begins at the end
\* of a chunk that began in a thought is dropped, and the thought behind it
\* shown.
ThoughtsNeverShown == "thought" \notin Range(stream.shown)

\* Whenever the model is asked, every tool it has called so far, in this
\* prompt or one that failed, is followed by its results.
ToolsAnswered ==
  pc \in {"prompt", "route", "stream"} =>
    \A i \in DOMAIN messages :
      \A j \in i + 1 .. i + messages[i].calls :
        j \in DOMAIN messages /\ messages[j].role = "tool"

\* What the chat has stored is in its store until it is forgotten, whatever
\* saves were refused and whatever the observatory saved.  What was in a save
\* that succeeded is in the journal, and in the store of every later chat,
\* whatever becomes of the prompt, the chat and the next ones - until the
\* observatory saves over it; and the chat's next save makes good even that.
StatementsAreKept ==
  safe \subseteq journal /\ (built => stated \subseteq store)

\* Every prompt comes to its end.
TurnsEnd == pc \in {"route", "tools", "stream"} ~> pc \in {"prompt", "off"}

=============================================================================

----------------------------- MODULE ChatProofs -----------------------------
(***************************************************************************)
(* What Chat's run checks with two texts, two chats, two rounds and a few  *)
(* replies, for any number of them: statements are kept, whenever the      *)
(* model is asked its tool calls have been answered, and a stream, however *)
(* it is cut, shows what is visible of the whole reply.                    *)
(*                                                                         *)
(* For the stream: texts by the places of their pieces, what is thought    *)
(* and visible in a part of a text, what the filter holds back, and at     *)
(* last the places between which the filter moves (FilterAt).              *)
(***************************************************************************)
EXTENDS Chat, SequenceTheorems, FiniteSetTheorems, TLAPS

----------------------------------------------------------------------------
(* Statements.                                                             *)

\* Before the client is built the journal holds what it is to have.
KeptInv ==
  /\ built \in BOOLEAN /\ StatementsAreKept
  /\ ~built => stated \subseteq journal

LEMMA LoadedHasStated ==
  ASSUME KeptInv
  PROVE  stated \subseteq Loaded
BY DEF KeptInv, StatementsAreKept, Loaded

LEMMA RememberKeeps ==
  ASSUME KeptInv, NEW text, Remember(text)
  PROVE  KeptInv'
<1>1. built' = TRUE /\ store' = Loaded \cup {text}
      /\ stated' = stated \cup {text}
  BY DEF Remember
<1>2. stated' \subseteq store'
  BY <1>1, LoadedHasStated
<1>3. safe' \subseteq journal'
  BY <1>2 DEF Remember, Persist, KeptInv, StatementsAreKept
<1> QED
  BY <1>1, <1>2, <1>3 DEF KeptInv, StatementsAreKept

LEMMA ForgetKeeps ==
  ASSUME KeptInv, NEW text, Forget(text)
  PROVE  KeptInv'
BY LoadedHasStated DEF Forget, KeptInv, StatementsAreKept

LEMMA RecallKeeps ==
  ASSUME KeptInv, Recall
  PROVE  KeptInv'
BY LoadedHasStated DEF Recall, KeptInv, StatementsAreKept

LEMMA DispatchKeeps ==
  ASSUME KeptInv, NEW tool, Dispatch(tool)
  PROVE  KeptInv'
BY RememberKeeps, ForgetKeeps, RecallKeeps DEF Dispatch

LEMMA UnchangedKeeps ==
  ASSUME KeptInv, UNCHANGED memory
  PROVE  KeptInv'
BY DEF memory, KeptInv, StatementsAreKept

LEMMA ObservatoryKeeps ==
  ASSUME KeptInv, NEW texts, ObservatorySaves(texts)
  PROVE  KeptInv'
BY DEF ObservatorySaves, KeptInv, StatementsAreKept

\* A statement of the user stays in the store of the chat until it is
\* forgotten, though saves may be refused and the observatory saves its own
\* store; and once saved it is in the journal and in the store of every later
\* chat, until the observatory saves over it (Chat.StatementsAreKept).
THEOREM StatementsSurvive == Spec => []StatementsAreKept
<1>1. Init => KeptInv
  BY DEF Init, KeptInv, StatementsAreKept
<1>2. KeptInv /\ [Next]_vars => KeptInv'
  <2> SUFFICES ASSUME KeptInv, [Next]_vars PROVE KeptInv'
    OBVIOUS
  <2>1. CASE Start
    BY <2>1 DEF Start, KeptInv, StatementsAreKept
  <2>2. ASSUME NEW answers \in BOOLEAN, NEW binary \in BOOLEAN,
               Probe(answers, binary)
        PROVE  KeptInv'
    BY <2>2, UnchangedKeeps DEF Probe
  <2>3. ASSUME NEW answers \in BOOLEAN, WaitForServer(answers) PROVE KeptInv'
    BY <2>3, UnchangedKeeps DEF WaitForServer
  <2>4. ASSUME NEW some \in BOOLEAN, ListModels(some) PROVE KeptInv'
    BY <2>4, UnchangedKeeps DEF ListModels
  <2>5. CASE ChildDies
    BY <2>5, UnchangedKeeps DEF ChildDies
  <2>6. ASSUME NEW kind \in {"statement", "question", "other"}, Ask(kind)
        PROVE  KeptInv'
    BY <2>6, RememberKeeps, RecallKeeps, UnchangedKeeps DEF Ask
  <2>7. CASE EndChat
    BY <2>7, UnchangedKeeps DEF EndChat
  <2>8. CASE Kill
    BY <2>8, UnchangedKeeps DEF Kill
  <2>9. CASE RequestFails
    BY <2>9, UnchangedKeeps DEF RequestFails
  <2>10. CASE RunTool
    BY <2>10, DispatchKeeps DEF RunTool
  <2>11. CASE UnknownTool
    BY <2>11, UnchangedKeeps DEF UnknownTool
  <2>12. ASSUME NEW calls \in Calls, Route(calls) PROVE KeptInv'
    BY <2>12, UnchangedKeeps DEF Route
  <2>13. CASE StreamEnds
    BY <2>13, UnchangedKeeps DEF StreamEnds
  <2>14. ASSUME NEW n \in 1 .. Len(reply), StreamChunk(n) PROVE KeptInv'
    BY <2>14, UnchangedKeeps DEF StreamChunk
  <2>15. CASE UNCHANGED vars
    BY <2>15, UnchangedKeeps DEF vars
  <2>16. CASE Observatory
    BY <2>16, ObservatoryKeeps DEF Observatory
  <2> QED
    BY <2>1, <2>2, <2>3, <2>4, <2>5, <2>6, <2>7, <2>8, <2>9, <2>10, <2>11,
       <2>12, <2>13, <2>14, <2>15, <2>16 DEF Next, StartChat, User, Turn
<1>3. KeptInv => StatementsAreKept
  BY DEF KeptInv
<1> QED
  BY <1>1, <1>2, <1>3, PTL DEF Spec

----------------------------------------------------------------------------
(* Tools.                                                                  *)

\* The i-th message of a history is followed by the results of its tools.
Answered(history, i) ==
  \A j \in i + 1 .. i + history[i].calls :
    j \in DOMAIN history /\ history[j].role = "tool"

\* The k-th message calls the tools that are running: some have been answered,
\* some are left.
Answering(history, left, k) ==
  /\ history[k].calls = Len(history) - k + Len(left)
  /\ \A j \in k + 1 .. Len(history) : history[j].role = "tool"
  /\ \A i \in DOMAIN history \ {k} : Answered(history, i)

Messages ==
  [role : {"system", "user", "tool", "assistant"}, calls : Nat]

\* While tools run, one message is being answered; between chats nothing is
\* promised; else every message has been.
ToolsInv ==
  /\ messages \in Seq(Messages)
  /\ pending \in Seq(Tools)
  /\ pc = "tools" =>
       pending # << >> /\ \E k \in DOMAIN messages :
                            Answering(messages, pending, k)
  /\ pc \notin {"tools", "off"} =>
       \A i \in DOMAIN messages : Answered(messages, i)

\* A message that calls nothing leaves answered what was.
LEMMA AppendAnswered ==
  ASSUME NEW history \in Seq(Messages), NEW m \in Messages,
         NEW i \in DOMAIN history, Answered(history, i)
  PROVE  Answered(Append(history, m), i)
<1>1. \A j \in DOMAIN history : j \in DOMAIN Append(history, m)
                                /\ Append(history, m)[j] = history[j]
  BY AppendProperties
<1>2. Append(history, m)[i].calls = history[i].calls
  BY <1>1
<1> QED
  BY <1>1, <1>2 DEF Answered

LEMMA QuietAnswered ==
  ASSUME NEW history \in Seq(Messages), NEW m \in Messages, m.calls = 0,
         \A i \in DOMAIN history : Answered(history, i)
  PROVE  /\ Append(history, m) \in Seq(Messages)
         /\ \A i \in DOMAIN Append(history, m) :
              Answered(Append(history, m), i)
<1>1. /\ Append(history, m) \in Seq(Messages)
      /\ DOMAIN Append(history, m) = 1 .. Len(history) + 1
      /\ Append(history, m)[Len(history) + 1] = m
      /\ Len(history) \in Nat /\ DOMAIN history = 1 .. Len(history)
  BY AppendProperties
<1>2. Answered(Append(history, m), Len(history) + 1)
  BY <1>1 DEF Answered
<1>3. \A i \in DOMAIN history : Answered(Append(history, m), i)
  BY AppendAnswered
<1> QED
  BY <1>1, <1>2, <1>3

\* The result of a tool: the next is running, or none is left.
LEMMA ResultAnswers ==
  ASSUME NEW history \in Seq(Messages), NEW left \in Seq(Tools),
         left # << >>, NEW k \in DOMAIN history, Answering(history, left, k)
  PROVE  LET after == Append(history, Message("tool", 0))
         IN /\ after \in Seq(Messages) /\ k \in DOMAIN after
            /\ Tail(left) \in Seq(Tools)
            /\ Answering(after, Tail(left), k)
            /\ Tail(left) = << >> =>
                 \A i \in DOMAIN after : Answered(after, i)
<1> DEFINE m == Message("tool", 0)
           after == Append(history, m)
<1>1. m \in Messages /\ m.calls = 0 /\ m.role = "tool"
  BY DEF Message, Messages
<1>2. /\ after \in Seq(Messages) /\ Len(after) = Len(history) + 1
      /\ DOMAIN after = 1 .. Len(history) + 1
      /\ after[Len(history) + 1] = m
      /\ \A j \in 1 .. Len(history) : after[j] = history[j]
      /\ Len(history) \in Nat /\ DOMAIN history = 1 .. Len(history)
  BY <1>1, AppendProperties
<1>3. Tail(left) \in Seq(Tools) /\ Len(left) = Len(Tail(left)) + 1
      /\ Len(Tail(left)) \in Nat
  BY HeadTailProperties, LenProperties
<1>4. after[k] = history[k] /\ k \in 1 .. Len(history)
  BY <1>2
<1> HIDE DEF after, m
<1>5. after[k].calls = Len(after) - k + Len(Tail(left))
  <2>1. history[k].calls = Len(history) - k + Len(left)
    BY DEF Answering
  <2>2. after[k].calls = Len(history) - k + Len(left)
    BY <2>1, <1>4
  <2> QED
    BY <2>2, <1>2, <1>3, <1>4
<1>6. \A j \in k + 1 .. Len(after) : after[j].role = "tool"
  <2>1. \A j \in k + 1 .. Len(history) : after[j].role = "tool"
    BY <1>2, <1>4 DEF Answering
  <2> QED
    BY <2>1, <1>1, <1>2, <1>4
<1>7. \A i \in DOMAIN after \ {k} : Answered(after, i)
  <2>1. \A i \in DOMAIN history \ {k} : Answered(after, i)
    BY <1>1, AppendAnswered DEF Answering, after
  <2>2. Answered(after, Len(history) + 1)
    BY <1>1, <1>2 DEF Answered
  <2> QED
    BY <2>1, <2>2, <1>2
<1>8. Answering(after, Tail(left), k)
  BY <1>5, <1>6, <1>7 DEF Answering
<1>9. ASSUME Tail(left) = << >> PROVE Answered(after, k)
  <2>1. after[k].calls = Len(after) - k
    BY <1>5, <1>9, <1>2, <1>4
  <2> QED
    BY <2>1, <1>2, <1>4, <1>6 DEF Answered
<1> QED
  BY <1>2, <1>3, <1>4, <1>7, <1>8, <1>9 DEF after, m

\* Whenever the model is asked, each tool it has called is followed by its
\* results, whatever failed in between (Chat.ToolsAnswered).
THEOREM ToolsAreAnswered == Spec => []ToolsAnswered
<1> USE ChatAssumption
<1>1. Init => ToolsInv
  <2> SUFFICES ASSUME Init PROVE ToolsInv
    OBVIOUS
  <2>1. messages = << >> /\ pending = << >> /\ pc = "off"
    BY DEF Init
  <2> QED
    BY <2>1 DEF ToolsInv
<1>2. ToolsInv /\ [Next]_vars => ToolsInv'
  <2> SUFFICES ASSUME ToolsInv, [Next]_vars PROVE ToolsInv'
    OBVIOUS
  <2>1. CASE Start
    <3>1. messages' = << >> /\ pending' = << >> /\ pc' = "probe"
      BY <2>1 DEF Start, GoesTo
    <3> QED
      BY <3>1 DEF ToolsInv
  <2>2. ASSUME NEW answers \in BOOLEAN, NEW binary \in BOOLEAN,
               Probe(answers, binary)
        PROVE  ToolsInv'
    BY <2>2 DEF Probe, GoesTo, Leaves, turn, ToolsInv
  <2>3. ASSUME NEW answers \in BOOLEAN, WaitForServer(answers) PROVE ToolsInv'
    BY <2>3 DEF WaitForServer, GoesTo, Leaves, turn, ToolsInv
  <2>4. ASSUME NEW some \in BOOLEAN, ListModels(some) PROVE ToolsInv'
    <3>1. Message("system", 0) \in Messages /\ Message("system", 0).calls = 0
      BY DEF Message, Messages
    <3>2. CASE some
      BY <2>4, <3>1, <3>2, QuietAnswered
      DEF ListModels, GoesTo, Says, turn, ToolsInv
    <3>3. CASE ~some
      BY <2>4, <3>3 DEF ListModels, GoesTo, Leaves, turn, ToolsInv
    <3> QED
      BY <3>2, <3>3
  <2>5. CASE ChildDies
    BY <2>5 DEF ChildDies, turn, ToolsInv
  <2>6. ASSUME NEW kind \in {"statement", "question", "other"}, Ask(kind)
        PROVE  ToolsInv'
    <3>1. Message("user", 0) \in Messages /\ Message("user", 0).calls = 0
      BY DEF Message, Messages
    <3> QED
      BY <2>6, <3>1, QuietAnswered DEF Ask, GoesTo, Says, ToolsInv
  <2>7. CASE EndChat
    BY <2>7 DEF EndChat, StopManaged, GoesTo, turn, ToolsInv
  <2>8. CASE Kill
    BY <2>8 DEF Kill, Leaves, GoesTo, turn, ToolsInv
  <2>9. CASE RequestFails
    BY <2>9 DEF RequestFails, GoesTo, ToolsInv
  <2>10. CASE RunTool
    <3>1. /\ pc = "tools" /\ pending # << >>
          /\ messages' = Append(messages, Message("tool", 0))
          /\ pending' = Tail(pending)
      BY <2>10 DEF RunTool, Says, ToolsInv
    <3>2. PICK k \in DOMAIN messages : Answering(messages, pending, k)
      BY <3>1 DEF ToolsInv
    <3>3. /\ messages' \in Seq(Messages) /\ k \in DOMAIN messages'
          /\ pending' \in Seq(Tools)
          /\ Answering(messages', pending', k)
          /\ pending' = << >> =>
               \A i \in DOMAIN messages' : Answered(messages', i)
      BY <3>1, <3>2, ResultAnswers DEF ToolsInv
    <3>4. IF pending' = << >> THEN pc' \in {"route", "prompt"}
          ELSE pc' = "tools"
      BY <2>10, <3>1 DEF RunTool, NextRound, GoesTo
    <3> QED
      BY <3>3, <3>4 DEF ToolsInv
  <2>11. CASE UnknownTool
    BY <2>11 DEF UnknownTool, StopManaged, GoesTo, turn, ToolsInv
  <2>12. ASSUME NEW calls \in Calls, Route(calls) PROVE ToolsInv'
    <3>1. calls \in Seq(Tools) /\ Len(calls) \in Nat
      BY LenProperties
    <3>2. /\ pc = "route" /\ pending' = calls
          /\ messages' = Append(messages, Message("assistant", Len(calls)))
          /\ pc' = IF calls = << >> THEN "stream" ELSE "tools"
      BY <2>12 DEF Route, Says, ChatWithTools, GoesTo
    <3>3. Message("assistant", Len(calls)) \in Messages
          /\ Message("assistant", Len(calls)).calls = Len(calls)
      BY <3>1 DEF Message, Messages
    <3>4. CASE calls = << >>
      BY <3>1, <3>2, <3>3, <3>4, QuietAnswered DEF ToolsInv
    <3>5. CASE calls # << >>
      <4> DEFINE k == Len(messages) + 1
      <4>1. /\ messages' \in Seq(Messages) /\ Len(messages') = k
            /\ DOMAIN messages' = 1 .. k /\ Len(messages) \in Nat
            /\ DOMAIN messages = 1 .. Len(messages)
            /\ messages'[k].calls = Len(calls)
        BY <3>2, <3>3, AppendProperties DEF ToolsInv
      <4>2. \A i \in DOMAIN messages : Answered(messages', i)
        BY <3>2, <3>3, AppendAnswered DEF ToolsInv
      <4>3. Answering(messages', pending', k)
        BY <3>1, <3>2, <4>1, <4>2 DEF Answering
      <4>4. k \in DOMAIN messages' /\ pending' \in Seq(Tools)
            /\ pending' # << >> /\ pc' = "tools"
        BY <3>1, <3>2, <3>5, <4>1
      <4> QED
        BY <4>1, <4>3, <4>4 DEF ToolsInv
    <3> QED
      BY <3>4, <3>5
  <2>13. CASE StreamEnds
    <3>1. Message("assistant", 0) \in Messages
          /\ Message("assistant", 0).calls = 0
      BY DEF Message, Messages
    <3> QED
      BY <2>13, <3>1, QuietAnswered DEF StreamEnds, GoesTo, Says, ToolsInv
  <2>14. ASSUME NEW n \in 1 .. Len(reply), StreamChunk(n) PROVE ToolsInv'
    BY <2>14 DEF StreamChunk, ToolsInv
  <2>15. CASE UNCHANGED vars
    BY <2>15 DEF vars, turn, ToolsInv
  <2>16. CASE Observatory
    BY <2>16 DEF Observatory, ObservatorySaves, turn, ToolsInv
  <2> QED
    BY <2>1, <2>2, <2>3, <2>4, <2>5, <2>6, <2>7, <2>8, <2>9, <2>10, <2>11,
       <2>12, <2>13, <2>14, <2>15, <2>16 DEF Next, StartChat, User, Turn
<1>3. ToolsInv => ToolsAnswered
  BY DEF ToolsInv, Answered, ToolsAnswered
<1> QED
  BY <1>1, <1>2, <1>3, PTL DEF Spec

----------------------------------------------------------------------------
(* Pieces of a text by their places.                                       *)

\* How many of some places are before one, and the place with n - 1 before it.
Rank(places, p) == Cardinality({ q \in places : q < p })
Place(places, n) == CHOOSE p \in places : Rank(places, p) = n - 1

\* Each of a finite set of places has a rank of its own, and no rank is left
\* out.
LEMMA Places ==
  ASSUME NEW P, P \subseteq Nat, IsFiniteSet(P)
  PROVE  /\ Cardinality(P) \in Nat
         /\ \A n \in 1 .. Cardinality(P) :
              Place(P, n) \in P /\ Rank(P, Place(P, n)) = n - 1
         /\ \A p \in P : /\ Rank(P, p) \in 0 .. Cardinality(P) - 1
                         /\ Place(P, Rank(P, p) + 1) = p
         /\ \A p, q \in P : p < q => Rank(P, p) < Rank(P, q)
<1> DEFINE before(p) == { q \in P : q < p }
           size == Cardinality(P)
           place == [p \in P |-> Cardinality(before(p)) + 1]
<1>1. size \in Nat
  BY FS_CardinalityType
<1>2. \A p \in P : before(p) \subseteq P /\ p \notin before(p)
  OBVIOUS
<1>3. \A p, q \in P : p < q => before(p) \subseteq before(q) /\ p \in before(q)
  <2> SUFFICES ASSUME NEW p \in P, NEW q \in P, p < q, NEW r \in P, r < p
               PROVE  r < q
    OBVIOUS
  <2> QED
    OBVIOUS
<1>4. \A p, q \in P : p < q \/ q < p \/ p = q
  OBVIOUS
<1> HIDE DEF before, size
<1>5. \A p \in P : IsFiniteSet(before(p)) /\ Cardinality(before(p)) \in Nat
  BY <1>2, FS_Subset, FS_CardinalityType
<1>6. \A p \in P : Cardinality(before(p)) < size
  <2> TAKE p \in P
  <2>1. Cardinality(before(p)) <= size /\ Cardinality(before(p)) # size
    BY <1>2, FS_Subset DEF size
  <2> QED
    BY <1>1, <1>5, <2>1
<1>7. \A p, q \in P : p < q => Cardinality(before(p)) < Cardinality(before(q))
  <2> SUFFICES ASSUME NEW p \in P, NEW q \in P, p < q
               PROVE  Cardinality(before(p)) < Cardinality(before(q))
    OBVIOUS
  <2>1. before(p) \subseteq before(q) /\ before(p) # before(q)
    BY <1>2, <1>3
  <2>2. /\ Cardinality(before(p)) <= Cardinality(before(q))
        /\ Cardinality(before(p)) # Cardinality(before(q))
    BY <1>5, <2>1, FS_Subset
  <2> QED
    BY <1>5, <2>2
<1>8. \A p, q \in P : Cardinality(before(p)) = Cardinality(before(q)) => p = q
  BY <1>4, <1>5, <1>7
<1>9. \A p \in P : Cardinality(before(p)) + 1 \in 1 .. size
  BY <1>1, <1>5, <1>6
<1>10. place \in Injection(P, 1 .. size)
  BY <1>5, <1>8, <1>9 DEF Injection, IsInjective
<1>11. IsFiniteSet(1 .. size) /\ Cardinality(1 .. size) = size
  BY <1>1, FS_Interval
<1>12. place \in Surjection(P, 1 .. size)
  BY <1>10, <1>11, FS_Injection DEF size
<1>13. \A n \in 1 .. size : \E p \in P : place[p] = n
  BY <1>12 DEF Surjection
<1>14. \A p \in P : Rank(P, p) = Cardinality(before(p))
  BY DEF Rank, before
<1>15. \A n \in 1 .. size : \E p \in P : Rank(P, p) = n - 1
  <2> SUFFICES ASSUME NEW n \in 1 .. size
               PROVE  \E p \in P : Rank(P, p) = n - 1
    OBVIOUS
  <2>1. PICK p \in P : place[p] = n
    BY <1>13
  <2>2. Cardinality(before(p)) + 1 = n
    BY <2>1
  <2> QED
    BY <1>1, <1>5, <1>14, <2>2
<1>16. \A n \in 1 .. size : Place(P, n) \in P /\ Rank(P, Place(P, n)) = n - 1
  BY <1>15 DEF Place
<1>17. \A p \in P : Rank(P, p) \in 0 .. size - 1 /\ Rank(P, p) \in Nat
  BY <1>1, <1>5, <1>6, <1>14
<1>18. ASSUME NEW p \in P
       PROVE  Place(P, Rank(P, p) + 1) = p
  <2> DEFINE n == Rank(P, p) + 1
  <2>1. n \in 1 .. size /\ n - 1 = Rank(P, p)
    BY <1>1, <1>17
  <2>2. Place(P, n) \in P /\ Rank(P, Place(P, n)) = Rank(P, p)
    BY <1>16, <2>1
  <2> HIDE DEF n
  <2>3. Place(P, n) = p
    BY <1>8, <1>14, <2>2
  <2> QED
    BY <2>3 DEF n
<1>19. \A p, q \in P : p < q => Rank(P, p) < Rank(P, q)
  BY <1>7, <1>14
<1> QED
  BY <1>1, <1>16, <1>17, <1>18, <1>19 DEF size

\* A finite set of numbers that is not empty has a greatest.
LEMMA Greatest ==
  ASSUME NEW P, P \subseteq Nat, IsFiniteSet(P), P # {}
  PROVE  Max(P) \in P /\ \A p \in P : p <= Max(P)
<1>1. Cardinality(P) \in Nat /\ Cardinality(P) # 0
  BY FS_EmptySet, FS_CardinalityType
<1>2. Cardinality(P) \in 1 .. Cardinality(P)
  BY <1>1
<1> DEFINE m == Place(P, Cardinality(P))
<1>3. m \in P /\ Rank(P, m) = Cardinality(P) - 1
  BY <1>2, Places
<1> HIDE DEF m
<1>4. \A p \in P : m >= p
  <2> SUFFICES ASSUME NEW p \in P, p > m
               PROVE  FALSE
    BY <1>3
  <2>1. Rank(P, m) < Rank(P, p) /\ Rank(P, p) \in 0 .. Cardinality(P) - 1
    BY <1>3, Places
  <2> QED
    BY <1>1, <1>3, <2>1
<1>5. Max(P) \in P /\ \A p \in P : Max(P) >= p
  BY <1>3, <1>4 DEF Max
<1> QED
  BY <1>5

LEMMA PiecesAreOf ==
  ASSUME NEW S, NEW t \in Seq(S), NEW P \in SUBSET (1 .. Len(t))
  PROVE  /\ PiecesAt(t, P) = [n \in 1 .. Cardinality(P) |-> t[Place(P, n)]]
         /\ PiecesAt(t, P) \in Seq(S)
         /\ Len(PiecesAt(t, P)) = Cardinality(P)
         /\ P \subseteq Nat /\ IsFiniteSet(P) /\ Cardinality(P) \in Nat
<1>1. Len(t) \in Nat /\ \A i \in 1 .. Len(t) : t[i] \in S
  BY LenProperties, ElementOfSeq
<1>2. P \subseteq Nat
  BY <1>1
<1>3. IsFiniteSet(1 .. Len(t))
  BY <1>1, FS_Interval
<1>4. IsFiniteSet(P)
  BY <1>3, FS_Subset
<1>5. Cardinality(P) \in Nat
  BY <1>4, FS_CardinalityType
<1>6. PiecesAt(t, P) = [n \in 1 .. Cardinality(P) |-> t[Place(P, n)]]
  BY DEF PiecesAt, Place, Rank
<1>7. \A n \in 1 .. Cardinality(P) : t[Place(P, n)] \in S
  BY <1>1, <1>2, <1>4, Places
<1> DEFINE pieces == [n \in 1 .. Cardinality(P) |-> t[Place(P, n)]]
<1>8. pieces \in Seq(S) /\ Len(pieces) = Cardinality(P)
  BY <1>5, <1>7
<1> QED
  BY <1>2, <1>4, <1>5, <1>6, <1>8

\* As many numbers stay as many when they are shifted.
LEMMA ShiftedCount ==
  ASSUME NEW a \in Nat, NEW P, P \subseteq Nat, IsFiniteSet(P)
  PROVE  /\ IsFiniteSet({ a + p : p \in P })
         /\ Cardinality({ a + p : p \in P }) = Cardinality(P)
<1> DEFINE Q == { a + p : p \in P }
           f == [p \in P |-> a + p]
<1>1. f \in [P -> Q] /\ \A p, q \in P : f[p] = f[q] => p = q
  OBVIOUS
<1>2. \A x \in Q : \E p \in P : f[p] = x
  OBVIOUS
<1> HIDE DEF f, Q
<1>3. f \in Injection(P, Q) /\ f \in Surjection(P, Q)
  BY <1>1, <1>2 DEF Injection, IsInjective, Surjection
<1>4. IsFiniteSet(Q) /\ Cardinality(Q) = Cardinality(P)
  BY <1>3, FS_Surjection
<1> QED
  BY <1>4 DEF Q

\* Some places up to a, and those after it counted from a on, up to b.
UpTo(places, a) == places \cap 1 .. a
Between(places, a, b) == { p \in 1 .. b - a : a + p \in places }

\* The pieces up to b are those up to a and then those of what lies between.
LEMMA PiecesJoin ==
  ASSUME NEW S, NEW t \in Seq(S), NEW P,
         NEW a \in 0 .. Len(t), NEW b \in a .. Len(t)
  PROVE  PiecesAt(t, UpTo(P, b))
           = PiecesAt(t, UpTo(P, a))
               \o PiecesAt(SubSeq(t, a + 1, b), Between(P, a, b))
<1> DEFINE A == P \cap 1 .. a
           B == { p \in 1 .. b - a : a + p \in P }
           C == P \cap 1 .. b
           v == SubSeq(t, a + 1, b)
<1>1. /\ Len(t) \in Nat /\ a \in Nat /\ b \in Nat /\ a <= b /\ b <= Len(t)
      /\ b - a \in Nat
  BY LenProperties
<1>2. v \in Seq(S) /\ Len(v) = b - a /\ \A p \in 1 .. b - a : v[p] = t[a + p]
  BY <1>1
<1>3. /\ A \in SUBSET (1 .. Len(t)) /\ C \in SUBSET (1 .. Len(t))
      /\ B \in SUBSET (1 .. Len(v))
  BY <1>1, <1>2
<1>4. /\ A \subseteq C /\ \A q \in A : q <= a
      /\ \A p \in B : a + p \in C
      /\ C = A \cup { a + p : p \in B }
      /\ A \cap { a + p : p \in B } = {}
  <2>1. \A q \in C : q \notin A => q - a \in B /\ q = a + (q - a)
    BY <1>1
  <2>2. \A p \in B : a + p \in C /\ a + p \notin A
    BY <1>1
  <2>3. A \subseteq C /\ \A q \in A : q <= a
    BY <1>1
  <2> HIDE DEF A, B, C
  <2> QED
    BY <2>1, <2>2, <2>3
<1> HIDE DEF A, B, C, v
<1>5. /\ PiecesAt(t, A) = [n \in 1 .. Cardinality(A) |-> t[Place(A, n)]]
      /\ A \subseteq Nat /\ IsFiniteSet(A) /\ Cardinality(A) \in Nat
      /\ PiecesAt(t, A) \in Seq(S) /\ Len(PiecesAt(t, A)) = Cardinality(A)
  BY <1>3, PiecesAreOf
<1>6. /\ PiecesAt(v, B) = [n \in 1 .. Cardinality(B) |-> v[Place(B, n)]]
      /\ B \subseteq Nat /\ IsFiniteSet(B) /\ Cardinality(B) \in Nat
      /\ PiecesAt(v, B) \in Seq(S) /\ Len(PiecesAt(v, B)) = Cardinality(B)
  BY <1>2, <1>3, PiecesAreOf
<1>7. /\ PiecesAt(t, C) = [n \in 1 .. Cardinality(C) |-> t[Place(C, n)]]
      /\ C \subseteq Nat /\ IsFiniteSet(C) /\ Cardinality(C) \in Nat
      /\ PiecesAt(t, C) \in Seq(S) /\ Len(PiecesAt(t, C)) = Cardinality(C)
  BY <1>3, PiecesAreOf
<1>8. Cardinality(C) = Cardinality(A) + Cardinality(B)
  <2>1. /\ IsFiniteSet({ a + p : p \in B })
        /\ Cardinality({ a + p : p \in B }) = Cardinality(B)
    BY <1>1, <1>6, ShiftedCount
  <2> DEFINE shifted == { a + p : p \in B }
  <2> HIDE DEF shifted
  <2>2. Cardinality(A \cup shifted)
          = Cardinality(A) + Cardinality(shifted) - Cardinality(A \cap shifted)
    BY <1>5, <2>1, FS_Union DEF shifted
  <2>3. Cardinality(A \cap shifted) = 0
    BY <1>4, FS_EmptySet DEF shifted
  <2>4. Cardinality(shifted) = Cardinality(B) /\ C = A \cup shifted
    BY <1>4, <2>1 DEF shifted
  <2> QED
    BY <1>5, <1>6, <2>2, <2>3, <2>4
<1>9. \A q \in A : Rank(C, q) = Rank(A, q)
  <2> SUFFICES ASSUME NEW q \in A
               PROVE  { x \in C : x < q } = { x \in A : x < q }
    BY DEF Rank
  <2>1. \A p \in B : p > 0 /\ ~(a + p < q)
    BY <1>1, <1>4, <1>5 DEF B
  <2> QED
    BY <1>4, <2>1
<1>10. \A p \in B : Rank(C, a + p) = Cardinality(A) + Rank(B, p)
  <2> TAKE p \in B
  <2> DEFINE low == { q \in B : q < p }
             up == { a + q : q \in low }
  <2>1. low \subseteq Nat /\ IsFiniteSet(low)
    BY <1>6, FS_Subset
  <2>2. IsFiniteSet(up) /\ Cardinality(up) = Cardinality(low)
    <3> HIDE DEF low
    <3> QED
      BY <1>1, <2>1, ShiftedCount
  <2>3. { x \in C : x < a + p } = A \cup up
    <3>1. \A x \in A : x < a + p
      <4>1. p \in Nat /\ p > 0
        BY <1>1 DEF B
      <4>2. a < a + p
        BY <1>1, <4>1
      <4> QED
        BY <1>1, <1>4, <1>5, <4>1, <4>2
    <3>2. \A q \in B : a + q < a + p <=> q < p
      BY <1>1, <1>6
    <3> QED
      BY <1>4, <3>1, <3>2
  <2>4. A \cap up = {}
    BY <1>4
  <2> HIDE DEF up, low
  <2>5. Cardinality(A \cup up)
          = Cardinality(A) + Cardinality(up) - Cardinality(A \cap up)
    BY <1>5, <2>2, FS_Union
  <2>6. Cardinality(A \cap up) = 0
    BY <2>4, FS_EmptySet
  <2>7. Cardinality(low) \in Nat
    BY <2>1, FS_CardinalityType
  <2>8. Cardinality(A \cup up) = Cardinality(A) + Cardinality(low)
    BY <1>5, <2>2, <2>5, <2>6, <2>7
  <2> QED
    BY <2>3, <2>8 DEF Rank, low
<1>11. /\ \A n \in 1 .. Cardinality(A) :
            Place(A, n) \in A /\ Rank(A, Place(A, n)) = n - 1
       /\ \A n \in 1 .. Cardinality(B) :
            Place(B, n) \in B /\ Rank(B, Place(B, n)) = n - 1
       /\ \A q \in C : Place(C, Rank(C, q) + 1) = q
  BY <1>5, <1>6, <1>7, Places
<1>12. \A n \in 1 .. Cardinality(A) : Place(C, n) = Place(A, n)
  <2> TAKE n \in 1 .. Cardinality(A)
  <2>1. Place(A, n) \in C /\ Rank(C, Place(A, n)) = n - 1
    BY <1>4, <1>9, <1>11
  <2>2. Place(C, (n - 1) + 1) = Place(A, n)
    BY <1>11, <2>1
  <2>3. (n - 1) + 1 = n
    BY <1>5
  <2> QED
    BY <2>2, <2>3
<1>13. \A n \in 1 .. Cardinality(B) :
         Place(C, Cardinality(A) + n) = a + Place(B, n)
  <2> TAKE n \in 1 .. Cardinality(B)
  <2>1. /\ a + Place(B, n) \in C
        /\ Rank(C, a + Place(B, n)) = Cardinality(A) + (n - 1)
    BY <1>4, <1>10, <1>11
  <2>2. Place(C, (Cardinality(A) + (n - 1)) + 1) = a + Place(B, n)
    BY <1>11, <2>1
  <2>3. (Cardinality(A) + (n - 1)) + 1 = Cardinality(A) + n
    BY <1>5, <1>6
  <2> QED
    BY <2>2, <2>3
<1> DEFINE both == PiecesAt(t, A) \o PiecesAt(v, B)
<1>14. /\ both \in Seq(S) /\ Len(both) = Cardinality(A) + Cardinality(B)
       /\ \A n \in 1 .. Cardinality(A) + Cardinality(B) :
            both[n] = IF n <= Cardinality(A) THEN PiecesAt(t, A)[n]
                      ELSE PiecesAt(v, B)[n - Cardinality(A)]
  BY <1>5, <1>6, ConcatProperties
<1> HIDE DEF both
<1>15. ASSUME NEW n \in 1 .. Cardinality(A) + Cardinality(B)
       PROVE  both[n] = PiecesAt(t, C)[n]
  <2>1. PiecesAt(t, C)[n] = t[Place(C, n)]
    BY <1>7, <1>8
  <2>2. CASE n <= Cardinality(A)
    <3>1. n \in 1 .. Cardinality(A)
      BY <1>5, <1>6, <2>2
    <3>2. both[n] = t[Place(A, n)]
      BY <1>5, <1>14, <2>2, <3>1
    <3> QED
      BY <1>12, <2>1, <3>1, <3>2
  <2>3. CASE ~(n <= Cardinality(A))
    <3> DEFINE m == n - Cardinality(A)
    <3>1. m \in 1 .. Cardinality(B) /\ n = Cardinality(A) + m
      BY <1>5, <1>6, <2>3
    <3>2. both[n] = PiecesAt(v, B)[m]
      BY <1>14, <2>3
    <3> HIDE DEF m
    <3>3. both[n] = v[Place(B, m)]
      BY <1>6, <3>1, <3>2
    <3>4. Place(B, m) \in 1 .. b - a
      BY <1>11, <3>1 DEF B
    <3>5. both[n] = t[a + Place(B, m)]
      BY <1>2, <3>3, <3>4
    <3> QED
      BY <1>13, <2>1, <3>1, <3>5
  <2> QED
    BY <2>2, <2>3
<1>16. both = PiecesAt(t, C)
  <2>1. Len(both) = Len(PiecesAt(t, C))
    BY <1>7, <1>8, <1>14
  <2>2. \A n \in 1 .. Len(both) : both[n] = PiecesAt(t, C)[n]
    BY <1>14, <1>15
  <2> QED
    BY <1>7, <1>14, <2>1, <2>2, SeqEqual
<1> QED
  BY <1>16 DEF both, A, B, C, v, UpTo, Between

----------------------------------------------------------------------------
(* Tails.                                                                  *)

LEMMA Widths == \A x : Width(x) \in 1 .. 9
BY DEF Width

\* The characters of one piece of a text.
LEMMA CharsOfPiece ==
  ASSUME NEW i, NEW x
  PROVE  /\ IsFiniteSet({i} \X (1 .. Width(x)))
         /\ Cardinality({i} \X (1 .. Width(x))) = Width(x)
<1>1. Width(x) \in Nat /\ Width(x) >= 1 /\ Width(x) \in Int
  BY Widths
<1> DEFINE w == Width(x)
<1> HIDE DEF w
<1>2. IsFiniteSet(1 .. w) /\ Cardinality(1 .. w) = w
  BY <1>1, FS_Interval DEF w
<1>3. IsFiniteSet({i}) /\ Cardinality({i}) = 1
  BY FS_Singleton
<1>4. IsFiniteSet({i} \X (1 .. w))
      /\ Cardinality({i} \X (1 .. w)) = Cardinality({i}) * Cardinality(1 .. w)
  BY <1>2, <1>3, FS_Product
<1> QED
  BY <1>1, <1>2, <1>3, <1>4 DEF w

LEMMA CharsOfOne ==
  ASSUME NEW t, Len(t) = 1, DOMAIN t = {1}
  PROVE  Chars(t) = Width(t[1])
<1>1. UNION { {i} \X (1 .. Width(t[i])) : i \in DOMAIN t }
        = {1} \X (1 .. Width(t[1]))
  OBVIOUS
<1> QED
  BY <1>1, CharsOfPiece DEF Chars

\* A longer text has at least those of its first two pieces.
LEMMA CharsOfTwo ==
  ASSUME NEW S, NEW t \in Seq(S), Len(t) >= 2
  PROVE  Chars(t) \in Nat /\ Chars(t) >= Width(t[1]) + Width(t[2])
<1> DEFINE of(i) == {i} \X (1 .. Width(t[i]))
           all == { of(i) : i \in DOMAIN t }
           f == [i \in DOMAIN t |-> of(i)]
<1>1. Len(t) \in Nat /\ DOMAIN t = 1 .. Len(t)
  BY LenProperties
<1>2. 1 \in DOMAIN t /\ 2 \in DOMAIN t
  BY <1>1
<1>3. \A i \in DOMAIN t :
        IsFiniteSet(of(i)) /\ Cardinality(of(i)) = Width(t[i])
  BY CharsOfPiece
<1>4. of(1) \cap of(2) = {}
  OBVIOUS
<1>5. IsFiniteSet(UNION all)
  <2>1. IsFiniteSet(DOMAIN t)
    BY <1>1, FS_Interval
  <2>2. f \in Surjection(DOMAIN t, all)
    BY DEF Surjection
  <2>3. IsFiniteSet(all)
    <3> HIDE DEF all, f
    <3> QED
      BY <2>1, <2>2, FS_Surjection
  <2>4. \A T \in all : IsFiniteSet(T)
    BY <1>3
  <2> HIDE DEF all
  <2> QED
    BY <2>3, <2>4, FS_UNION
<1>6. of(1) \cup of(2) \subseteq UNION all
  BY <1>2
<1>7. Chars(t) = Cardinality(UNION all)
  BY DEF Chars
<1>8. Width(t[1]) \in Nat /\ Width(t[2]) \in Nat
  BY Widths
<1> HIDE DEF of, all, f
<1>9. /\ IsFiniteSet(of(1) \cup of(2))
      /\ Cardinality(of(1) \cup of(2))
           = Cardinality(of(1)) + Cardinality(of(2)) - Cardinality({})
  BY <1>2, <1>3, <1>4, FS_Union
<1>10. Cardinality(of(1) \cup of(2)) = Width(t[1]) + Width(t[2])
  <2>1. Cardinality({}) = 0
    BY FS_EmptySet
  <2> QED
    BY <1>2, <1>3, <1>8, <1>9, <2>1
<1>11. Cardinality(of(1) \cup of(2)) <= Cardinality(UNION all)
  BY <1>5, <1>6, FS_Subset
<1>12. Cardinality(UNION all) \in Nat
  BY <1>5, FS_CardinalityType
<1> QED
  BY <1>7, <1>8, <1>10, <1>11, <1>12

Marks == {Open, Close, Markup, Less}

\* The last tail begins at the last mark, if there is one.
LEMMA LastTailIs ==
  ASSUME NEW S, NEW t \in Seq(S)
  PROVE  \/ LastTail(t) = << >> /\ \A i \in 1 .. Len(t) : t[i] \notin Marks
         \/ \E m \in 1 .. Len(t) :
              /\ t[m] \in Marks /\ \A i \in m + 1 .. Len(t) : t[i] \notin Marks
              /\ LastTail(t) = SubSeq(t, m, Len(t))
<1> DEFINE tails == { i \in DOMAIN t : t[i] \in Marks }
<1>1. Len(t) \in Nat /\ DOMAIN t = 1 .. Len(t)
  BY LenProperties
<1>2. LastTail(t) = IF tails = {} THEN << >>
                    ELSE SubSeq(t, Max(tails), Len(t))
  BY DEF LastTail, Marks
<1>3. CASE tails = {}
  BY <1>1, <1>2, <1>3
<1>4. CASE tails # {}
  <2>1. tails \subseteq Nat /\ tails \subseteq 1 .. Len(t)
    BY <1>1
  <2>2. IsFiniteSet(1 .. Len(t))
    BY <1>1, FS_Interval
  <2>3. IsFiniteSet(tails)
    BY <2>1, <2>2, FS_Subset
  <2>4. Max(tails) \in tails /\ \A i \in tails : i <= Max(tails)
    <3> HIDE DEF tails
    <3> QED
      BY <1>4, <2>1, <2>3, Greatest
  <2>5. PICK m : m = Max(tails)
    OBVIOUS
  <2>6. m \in 1 .. Len(t) /\ t[m] \in Marks
    BY <1>1, <2>4, <2>5
  <2>7. ASSUME NEW i \in m + 1 .. Len(t), t[i] \in Marks
        PROVE  FALSE
    <3>1. i \in tails
      BY <1>1, <2>6, <2>7
    <3>2. i <= m /\ i > m
      BY <1>1, <2>4, <2>5, <2>6, <3>1
    <3> QED
      BY <1>1, <2>6, <3>2
  <2>8. LastTail(t) = SubSeq(t, m, Len(t))
    BY <1>2, <1>4, <2>5
  <2> QED
    BY <2>6, <2>7, <2>8
<1> QED
  BY <1>3, <1>4

\* A place where a text may be cut: no tag and no "<" ends there.
Clean(t, a) ==
  a \in 0 .. Len(t) /\ (a = 0 \/ t[a] \notin {Open, Close, Less})

\* What lies between two such places, and what may be held back of it: where a
\* mark is the last but not the last piece, a tag or a word follows.
LEMMA TailOfWhole ==
  ASSUME NEW S, NEW t \in Seq(S), WholeTags(t),
         NEW a \in 0 .. Len(t), NEW b \in a .. Len(t)
  PROVE  LET v == SubSeq(t, a + 1, b)
             tail == LastTail(v)
         IN \/ tail = << >> /\ (b = a \/ t[b] \notin Marks)
            \/ /\ b > a /\ t[b] \in {Open, Close, Less}
               /\ tail = << t[b] >> /\ Chars(tail) = Width(t[b])
               /\ Len(tail) = 1
            \/ /\ Len(tail) >= 2 /\ t[b] \notin Marks /\ b > a
               /\ \E m \in a + 1 .. b - 1 :
                    /\ tail[1] = t[m] /\ tail[2] = t[m + 1]
                    /\ t[m] \in {Open, Close, Less}
                    /\ \A i \in m + 1 .. b : t[i] \notin Marks
                    /\ Chars(tail) \in Nat
                    /\ Chars(tail) >= Width(t[m]) + Width(t[m + 1])
<1> DEFINE v == SubSeq(t, a + 1, b)
           tail == LastTail(v)
<1>1. /\ Len(t) \in Nat /\ a \in Nat /\ b \in Nat /\ a <= b /\ b <= Len(t)
      /\ DOMAIN t = 1 .. Len(t)
  BY LenProperties
<1>2. v \in Seq(S) /\ Len(v) = b - a /\ \A i \in 1 .. b - a : v[i] = t[a + i]
  BY <1>1
<1> HIDE DEF v
<1>3. CASE tail = << >> /\ \A i \in 1 .. Len(v) : v[i] \notin Marks
  <2>1. ASSUME b # a PROVE t[b] \notin Marks
    <3>1. b - a \in 1 .. b - a /\ a + (b - a) = b
      BY <1>1, <2>1
    <3>2. v[b - a] = t[b]
      BY <1>2, <3>1
    <3> QED
      BY <1>2, <1>3, <3>1, <3>2
  <2> QED
    BY <1>3, <2>1 DEF v
<1>4. ASSUME NEW n \in 1 .. Len(v), v[n] \in Marks,
             \A i \in n + 1 .. Len(v) : v[i] \notin Marks,
             tail = SubSeq(v, n, Len(v))
      PROVE  \/ /\ b > a /\ t[b] \in {Open, Close, Less}
                /\ tail = << t[b] >> /\ Chars(tail) = Width(t[b])
                /\ Len(tail) = 1
             \/ /\ Len(tail) >= 2 /\ t[b] \notin Marks /\ b > a
                /\ \E m \in a + 1 .. b - 1 :
                     /\ tail[1] = t[m] /\ tail[2] = t[m + 1]
                     /\ t[m] \in {Open, Close, Less}
                     /\ \A i \in m + 1 .. b : t[i] \notin Marks
                     /\ Chars(tail) \in Nat
                     /\ Chars(tail) >= Width(t[m]) + Width(t[m + 1])
  <2> DEFINE m == a + n
  <2>1. m \in a + 1 .. b /\ v[n] = t[m] /\ n = m - a /\ n \in Nat
    BY <1>1, <1>2, <1>4
  <2>2. t[m] \in {Open, Close, Less}
    BY <1>1, <1>4, <2>1 DEF WholeTags, Marks
  <2>3. /\ tail \in Seq(S) /\ Len(tail) = (b - m) + 1
        /\ \A i \in 1 .. (b - m) + 1 : tail[i] = v[(n + i) - 1]
    BY <1>1, <1>2, <1>4, <2>1
  <2> HIDE DEF m, tail
  <2>4. CASE m = b
    <3>1. tail[1] = t[b] /\ Len(tail) = 1 /\ DOMAIN tail = {1}
      <4>1. Len(tail) = 1 /\ 1 \in 1 .. (b - m) + 1 /\ (n + 1) - 1 = n
        BY <1>1, <2>1, <2>3, <2>4
      <4>2. tail[1] = v[n]
        BY <2>3, <4>1
      <4>3. DOMAIN tail = 1 .. 1
        BY <2>3, <4>1, LenProperties
      <4> QED
        BY <2>1, <2>4, <4>1, <4>2, <4>3
    <3>2. tail = << t[b] >>
      <4> DEFINE one == << t[b] >>
      <4>1. t[b] \in S
        BY <1>1, <2>1, <2>4, ElementOfSeq
      <4>2. one \in Seq(S) /\ Len(one) = 1 /\ one[1] = t[b]
        BY <4>1
      <4> HIDE DEF one
      <4>3. Len(tail) = Len(one) /\ \A i \in 1 .. Len(tail) : tail[i] = one[i]
        BY <3>1, <4>2
      <4>4. tail = one
        BY <2>3, <4>2, <4>3, SeqEqual
      <4> QED
        BY <4>4 DEF one
    <3>3. Chars(tail) = Width(t[b])
      BY <3>1, CharsOfOne
    <3> QED
      BY <1>1, <2>1, <2>2, <2>4, <3>1, <3>2, <3>3
  <2>5. CASE m # b
    <3>1. m \in a + 1 .. b - 1 /\ m \in Nat /\ m < b /\ b > a
      BY <1>1, <2>1, <2>5
    <3>2. Len(tail) >= 2 /\ 1 \in 1 .. (b - m) + 1 /\ 2 \in 1 .. (b - m) + 1
      BY <1>1, <2>3, <3>1
    <3>3. tail[1] = t[m]
      <4>1. tail[1] = v[(n + 1) - 1] /\ (n + 1) - 1 = n
        BY <2>1, <2>3, <3>2
      <4> QED
        BY <2>1, <4>1
    <3>4. tail[2] = t[m + 1]
      <4>1. tail[2] = v[(n + 2) - 1] /\ (n + 2) - 1 = n + 1
        BY <2>1, <2>3, <3>2
      <4>2. n + 1 \in 1 .. b - a /\ a + (n + 1) = m + 1
        BY <1>1, <2>1, <3>1
      <4> QED
        BY <1>2, <4>1, <4>2
    <3>5. \A i \in m + 1 .. b : t[i] \notin Marks
      <4> TAKE i \in m + 1 .. b
      <4>1. /\ i - a \in n + 1 .. Len(v) /\ i - a \in 1 .. b - a
            /\ a + (i - a) = i
        BY <1>1, <1>2, <2>1, <3>1
      <4> QED
        BY <1>2, <1>4, <4>1
    <3>6. t[b] \notin Marks
      BY <1>1, <3>1, <3>5
    <3>7. /\ Chars(tail) \in Nat
          /\ Chars(tail) >= Width(t[m]) + Width(t[m + 1])
      BY <2>3, <3>2, <3>3, <3>4, CharsOfTwo
    <3> QED
      BY <2>2, <3>1, <3>2, <3>3, <3>4, <3>5, <3>6, <3>7
  <2> QED
    BY <2>4, <2>5
<1>5. \/ tail = << >> /\ \A i \in 1 .. Len(v) : v[i] \notin Marks
      \/ \E n \in 1 .. Len(v) :
           /\ v[n] \in Marks /\ \A i \in n + 1 .. Len(v) : v[i] \notin Marks
           /\ tail = SubSeq(v, n, Len(v))
  BY <1>2, LastTailIs
<1> HIDE DEF tail
<1>6. CASE \E n \in 1 .. Len(v) :
             /\ v[n] \in Marks /\ \A i \in n + 1 .. Len(v) : v[i] \notin Marks
             /\ tail = SubSeq(v, n, Len(v))
  BY <1>4, <1>6 DEF tail, v
<1> QED
  BY <1>3, <1>5, <1>6 DEF tail, v

----------------------------------------------------------------------------
(* Thoughts, seen from a place where the text may be cut.                  *)

LEMMA CleanHasNoTag ==
  ASSUME NEW S, NEW t \in Seq(S), NEW a, Clean(t, a),
         NEW half \in {Open, Close}
  PROVE  ~IsTag(t, half, a)
BY DEF Clean, IsTag

\* A tag is in a part of the text just when it is at the same place of it.
LEMMA TagsShift ==
  ASSUME NEW S, NEW t \in Seq(S), NEW a, Clean(t, a), NEW b, Clean(t, b),
         a <= b, NEW half \in {Open, Close}, NEW i \in 0 .. b - a
  PROVE  IsTag(SubSeq(t, a + 1, b), half, i) <=> IsTag(t, half, a + i)
<1> DEFINE v == SubSeq(t, a + 1, b)
<1>1. /\ Len(t) \in Nat /\ a \in Nat /\ b \in Nat /\ b <= Len(t)
      /\ b - a \in Nat /\ i \in Nat
  BY LenProperties DEF Clean
<1>2. v \in Seq(S) /\ Len(v) = b - a /\ \A p \in 1 .. b - a : v[p] = t[a + p]
  BY <1>1
<1> HIDE DEF v
<1>3. CASE i = 0
  <2>1. ~IsTag(v, half, i)
    BY <1>2, <1>3 DEF IsTag
  <2>2. a + i = a
    BY <1>1, <1>3
  <2> QED
    BY <2>1, <2>2, CleanHasNoTag DEF v
<1>4. CASE i = b - a
  <2>1. ~IsTag(v, half, i)
    BY <1>1, <1>2, <1>4 DEF IsTag
  <2>2. a + i = b
    BY <1>1, <1>4
  <2> QED
    BY <2>1, <2>2, CleanHasNoTag DEF v
<1>5. CASE i # 0 /\ i # b - a
  <2>1. /\ i \in 1 .. Len(v) - 1 /\ a + i \in 1 .. Len(t) - 1
        /\ i \in 1 .. b - a /\ i + 1 \in 1 .. b - a
    BY <1>1, <1>2, <1>5
  <2>2. v[i] = t[a + i] /\ v[i + 1] = t[a + (i + 1)]
    BY <1>2, <2>1
  <2>3. a + (i + 1) = (a + i) + 1
    BY <1>1
  <2>4. v[i + 1] = t[(a + i) + 1]
    BY <2>2, <2>3
  <2> QED
    BY <2>1, <2>2, <2>4 DEF IsTag, v
<1> QED
  BY <1>3, <1>4, <1>5

\* A thought goes on through such a place.
LEMMA ThinkingShift ==
  ASSUME NEW S, NEW t \in Seq(S), NEW a, Clean(t, a), NEW b, Clean(t, b),
         a <= b, NEW p \in 0 .. b - a, NEW began,
         began <=> Thinking(t, FALSE, a)
  PROVE  Thinking(SubSeq(t, a + 1, b), began, p) <=> Thinking(t, FALSE, a + p)
<1> DEFINE v == SubSeq(t, a + 1, b)
           open(i) == IsTag(t, Open, i)
           close(i) == IsTag(t, Close, i)
<1>1. /\ Len(t) \in Nat /\ a \in Nat /\ b \in Nat /\ b <= Len(t)
      /\ b - a \in Nat /\ p \in Nat /\ p <= b - a
  BY LenProperties DEF Clean
<1>2. \A i \in 1 .. p - 1 : /\ IsTag(v, Open, i) <=> open(a + i)
                            /\ IsTag(v, Close, i) <=> close(a + i)
  <2> TAKE i \in 1 .. p - 1
  <2>1. i \in 0 .. b - a
    BY <1>1
  <2> QED
    BY <2>1, TagsShift
<1>3. ~open(a) /\ ~close(a)
  BY CleanHasNoTag
<1> HIDE DEF v, open, close
<1>4. began <=> \E i \in 1 .. a - 1 :
                  open(i) /\ ~ \E j \in i + 1 .. a - 1 : close(j)
  BY DEF Thinking, open, close
<1>5. Thinking(t, FALSE, a + p)
        <=> \E i \in 1 .. (a + p) - 1 :
              open(i) /\ ~ \E j \in i + 1 .. (a + p) - 1 : close(j)
  BY DEF Thinking, open, close
<1>6. Thinking(v, began, p)
        <=> \/ began /\ ~ \E j \in 1 .. p - 1 : close(a + j)
            \/ \E i \in 1 .. p - 1 :
                 open(a + i) /\ ~ \E j \in i + 1 .. p - 1 : close(a + j)
  <2>1. (\E j \in 0 + 1 .. p - 1 : IsTag(v, Close, j))
          <=> \E j \in 1 .. p - 1 : close(a + j)
    BY <1>2
  <2>2. \A i \in 1 .. p - 1 :
          (\E j \in i + 1 .. p - 1 : IsTag(v, Close, j))
            <=> \E j \in i + 1 .. p - 1 : close(a + j)
    <3> TAKE i \in 1 .. p - 1
    <3>1. \A j \in i + 1 .. p - 1 : j \in 1 .. p - 1
      BY <1>1
    <3> QED
      BY <1>2, <3>1
  <2> QED
    BY <1>2, <2>1, <2>2 DEF Thinking
<1>7. ASSUME NEW i \in 1 .. a - 1
      PROVE  (\E j \in i + 1 .. (a + p) - 1 : close(j))
               <=> \/ \E j \in i + 1 .. a - 1 : close(j)
                   \/ \E j \in 1 .. p - 1 : close(a + j)
  <2>1. ASSUME NEW j \in i + 1 .. (a + p) - 1, close(j)
        PROVE  \/ j \in i + 1 .. a - 1
               \/ j - a \in 1 .. p - 1 /\ a + (j - a) = j
    <3>1. j # a /\ j \in Nat
      BY <1>1, <1>3, <2>1
    <3> QED
      BY <1>1, <3>1
  <2>2. \A j \in i + 1 .. a - 1 : j \in i + 1 .. (a + p) - 1
    BY <1>1
  <2>3. \A j \in 1 .. p - 1 : a + j \in i + 1 .. (a + p) - 1
    BY <1>1
  <2>4. ASSUME NEW j \in i + 1 .. (a + p) - 1, close(j)
        PROVE  \/ \E m \in i + 1 .. a - 1 : close(m)
               \/ \E m \in 1 .. p - 1 : close(a + m)
    BY <2>1, <2>4
  <2> QED
    BY <2>2, <2>3, <2>4
<1>8. ASSUME NEW i \in 1 .. p - 1
      PROVE  (\E j \in (a + i) + 1 .. (a + p) - 1 : close(j))
               <=> \E j \in i + 1 .. p - 1 : close(a + j)
  <2>1. \A j \in (a + i) + 1 .. (a + p) - 1 :
          j - a \in i + 1 .. p - 1 /\ a + (j - a) = j
    BY <1>1
  <2>2. \A j \in i + 1 .. p - 1 : a + j \in (a + i) + 1 .. (a + p) - 1
    BY <1>1
  <2> QED
    BY <2>1, <2>2
<1>9. ASSUME Thinking(v, began, p)
      PROVE  Thinking(t, FALSE, a + p)
  <2>1. CASE began /\ ~ \E j \in 1 .. p - 1 : close(a + j)
    <3>1. PICK i \in 1 .. a - 1 :
                 open(i) /\ ~ \E j \in i + 1 .. a - 1 : close(j)
      BY <1>4, <2>1
    <3>2. i \in 1 .. (a + p) - 1
      BY <1>1
    <3>3. ~ \E j \in i + 1 .. (a + p) - 1 : close(j)
      BY <1>7, <2>1, <3>1
    <3> QED
      BY <1>5, <3>1, <3>2, <3>3
  <2>2. CASE \E i \in 1 .. p - 1 :
               open(a + i) /\ ~ \E j \in i + 1 .. p - 1 : close(a + j)
    <3>1. PICK i \in 1 .. p - 1 :
                 open(a + i) /\ ~ \E j \in i + 1 .. p - 1 : close(a + j)
      BY <2>2
    <3>2. a + i \in 1 .. (a + p) - 1
      BY <1>1
    <3>3. ~ \E j \in (a + i) + 1 .. (a + p) - 1 : close(j)
      BY <1>8, <3>1
    <3> QED
      BY <1>5, <3>1, <3>2, <3>3
  <2> QED
    BY <1>6, <1>9, <2>1, <2>2
<1>10. ASSUME Thinking(t, FALSE, a + p)
       PROVE  Thinking(v, began, p)
  <2>1. PICK i \in 1 .. (a + p) - 1 :
               open(i) /\ ~ \E j \in i + 1 .. (a + p) - 1 : close(j)
    BY <1>5, <1>10
  <2>2. i # a /\ i \in Nat
    BY <1>3, <2>1
  <2>3. CASE i < a
    <3>1. i \in 1 .. a - 1
      BY <1>1, <2>2, <2>3
    <3>2. began
      BY <1>4, <1>7, <2>1, <3>1
    <3>3. ~ \E j \in 1 .. p - 1 : close(a + j)
      BY <1>7, <2>1, <3>1
    <3> QED
      BY <1>6, <3>2, <3>3
  <2>4. CASE i > a
    <3> DEFINE m == i - a
    <3>1. m \in 1 .. p - 1 /\ i = a + m
      BY <1>1, <2>2, <2>4
    <3> HIDE DEF m
    <3>2. open(a + m) /\ ~ \E j \in m + 1 .. p - 1 : close(a + j)
      BY <1>8, <2>1, <3>1
    <3> QED
      BY <1>6, <3>1, <3>2
  <2> QED
    BY <1>1, <2>2, <2>3, <2>4
<1> QED
  BY <1>9, <1>10 DEF v

LEMMA VisibleShift ==
  ASSUME NEW S, NEW t \in Seq(S), NEW a, Clean(t, a), NEW b, Clean(t, b),
         a <= b, NEW began, began <=> Thinking(t, FALSE, a)
  PROVE  Visible(SubSeq(t, a + 1, b), began)
           = { p \in 1 .. b - a : a + p \in Visible(t, FALSE) }
<1> DEFINE v == SubSeq(t, a + 1, b)
<1>1. /\ Len(t) \in Nat /\ a \in Nat /\ b \in Nat /\ b <= Len(t)
      /\ b - a \in Nat /\ DOMAIN t = 1 .. Len(t)
  BY LenProperties DEF Clean
<1>2. v \in Seq(S) /\ Len(v) = b - a /\ DOMAIN v = 1 .. b - a
  BY <1>1
<1>3. ASSUME NEW p \in 1 .. b - a
      PROVE  p \in Visible(v, began) <=> a + p \in Visible(t, FALSE)
  <2>1. /\ p \in 0 .. b - a /\ p - 1 \in 0 .. b - a
        /\ a + (p - 1) = (a + p) - 1 /\ a + p \in 1 .. Len(t)
    BY <1>1
  <2>2. Thinking(v, began, p) <=> Thinking(t, FALSE, a + p)
    BY <2>1, ThinkingShift
  <2>3. /\ IsTag(v, Open, p) <=> IsTag(t, Open, a + p)
        /\ IsTag(v, Close, p) <=> IsTag(t, Close, a + p)
    BY <2>1, TagsShift
  <2>4. IsTag(v, Close, p - 1) <=> IsTag(t, Close, a + (p - 1))
    BY <2>1, TagsShift
  <2>5. IsTag(v, Close, p - 1) <=> IsTag(t, Close, (a + p) - 1)
    BY <2>1, <2>4
  <2>6. InTag(v, Close, p) <=> InTag(t, Close, a + p)
    BY <2>3, <2>5 DEF InTag
  <2> HIDE DEF v
  <2> QED
    BY <1>1, <1>2, <2>1, <2>2, <2>3, <2>6 DEF Visible
<1>4. \A p \in Visible(v, began) : p \in 1 .. b - a
  BY <1>2 DEF Visible
<1> HIDE DEF v
<1>5. Visible(v, began) = { p \in 1 .. b - a : a + p \in Visible(t, FALSE) }
  BY <1>3, <1>4
<1> QED
  BY <1>5 DEF v

\* The filter of a chunk, of a text with whole tags and between two such
\* places, shows what is visible of it: no short tail ends there.
LEMMA StripsVisible ==
  ASSUME NEW S, NEW t \in Seq(S), WholeTags(t), NEW a, Clean(t, a),
         NEW b, Clean(t, b), a <= b, NEW began \in BOOLEAN,
         began <=> Thinking(t, FALSE, a)
  PROVE  LET step == StripIncremental(SubSeq(t, a + 1, b), began)
         IN /\ step.inThink \in BOOLEAN
            /\ step.inThink <=> Thinking(t, FALSE, b)
            /\ step.out = PiecesAt(SubSeq(t, a + 1, b),
                                   Between(Visible(t, FALSE), a, b))
<1> DEFINE v == SubSeq(t, a + 1, b)
           tail == LastTail(v)
           thinks == Thinking(v, began, Len(v))
<1>1. /\ Len(t) \in Nat /\ a \in Nat /\ b \in Nat /\ b <= Len(t)
      /\ b - a \in Nat /\ DOMAIN t = 1 .. Len(t)
  BY LenProperties DEF Clean
<1>2. v \in Seq(S) /\ Len(v) = b - a
  BY <1>1
<1>3. thinks <=> Thinking(t, FALSE, b)
  <2>1. b - a \in 0 .. b - a /\ a + (b - a) = b
    BY <1>1
  <2>2. Thinking(v, began, b - a) <=> Thinking(t, FALSE, a + (b - a))
    BY <2>1, ThinkingShift
  <2> HIDE DEF v
  <2> QED
    BY <1>2, <2>1, <2>2
<1>4. Visible(v, began) = Between(Visible(t, FALSE), a, b)
  BY VisibleShift DEF Between
<1> HIDE DEF v, tail
<1>5. ~(~thinks /\ tail # << >> /\ Chars(tail) <= 7)
  <2> SUFFICES ASSUME ~thinks, tail # << >>, Chars(tail) <= 7
               PROVE  FALSE
    OBVIOUS
  <2>1. a \in 0 .. Len(t) /\ b \in a .. Len(t)
    BY <1>1
  <2>2. \/ tail = << >> /\ (b = a \/ t[b] \notin Marks)
        \/ /\ b > a /\ t[b] \in {Open, Close, Less}
           /\ tail = << t[b] >> /\ Chars(tail) = Width(t[b])
           /\ Len(tail) = 1
        \/ /\ Len(tail) >= 2 /\ t[b] \notin Marks /\ b > a
           /\ \E m \in a + 1 .. b - 1 :
                /\ tail[1] = t[m] /\ tail[2] = t[m + 1]
                /\ t[m] \in {Open, Close, Less}
                /\ \A i \in m + 1 .. b : t[i] \notin Marks
                /\ Chars(tail) \in Nat
                /\ Chars(tail) >= Width(t[m]) + Width(t[m + 1])
    BY <2>1, TailOfWhole DEF tail, v
  <2>3. b = a \/ t[b] \notin {Open, Close, Less}
    BY <1>1 DEF Clean
  <2>4. PICK m \in a + 1 .. b - 1 :
               /\ t[m] \in {Open, Close, Less}
               /\ \A i \in m + 1 .. b : t[i] \notin Marks
               /\ Chars(tail) \in Nat
               /\ Chars(tail) >= Width(t[m]) + Width(t[m + 1])
    BY <1>1, <2>2, <2>3
  <2>5. m \in DOMAIN t /\ m # Len(t) /\ m \in 1 .. b - 1 /\ m \in Nat
    <3>1. m \in Nat /\ 1 <= m /\ m <= b - 1
      BY <1>1
    <3>2. m < Len(t)
      BY <1>1, <3>1
    <3>3. m \in 1 .. Len(t)
      BY <1>1, <3>1, <3>2
    <3>4. ASSUME m = Len(t) PROVE FALSE
      BY <1>1, <3>1, <3>2, <3>4
    <3>5. m \in 1 .. b - 1
      BY <1>1, <3>1
    <3>6. m \in DOMAIN t
      BY <1>1, <3>3
    <3> QED
      BY <3>1, <3>4, <3>5, <3>6
  <2>6. CASE t[m] = Open
    <3>1. t[m + 1] = TagEnd /\ m \in 1 .. Len(t) - 1
      BY <1>1, <2>5, <2>6 DEF WholeTags
    <3>2. IsTag(t, Open, m)
      BY <2>6, <3>1 DEF IsTag
    <3>3. \A j \in m + 1 .. b - 1 : ~IsTag(t, Close, j)
      <4> TAKE j \in m + 1 .. b - 1
      <4>1. j \in m + 1 .. b
        BY <1>1, <2>5
      <4> QED
        BY <2>4, <4>1 DEF IsTag, Marks
    <3>4. Thinking(t, FALSE, b)
      BY <2>5, <3>2, <3>3 DEF Thinking
    <3> QED
      BY <1>3, <3>4
  <2>7. CASE t[m] = Close
    <3>1. t[m + 1] = TagEnd
      BY <2>5, <2>7 DEF WholeTags
    <3>2. Width(t[m]) = 7 /\ Width(t[m + 1]) = 1
      BY <2>7, <3>1 DEF Width, Open, Close, TagEnd, Less, Markup
    <3> QED
      BY <2>4, <3>2
  <2>8. CASE t[m] = Less
    <3>1. t[m + 1] \notin {Open, Close, TagEnd, Markup, Less}
      BY <2>5, <2>8 DEF WholeTags
    <3>2. Width(t[m]) = 1 /\ Width(t[m + 1]) = 9
      BY <2>8, <3>1 DEF Width
    <3> QED
      BY <2>4, <3>2
  <2> QED
    BY <2>4, <2>6, <2>7, <2>8
<1>6. StripIncremental(v, began)
        = [out |-> PiecesAt(v, Visible(v, began)), inThink |-> thinks]
  BY <1>5 DEF StripIncremental, tail
<1>7. thinks \in BOOLEAN
  BY DEF Thinking
<1> HIDE DEF thinks
<1>8. /\ StripIncremental(v, began).inThink = thinks
      /\ StripIncremental(v, began).out = PiecesAt(v, Visible(v, began))
  BY <1>6
<1>9. /\ StripIncremental(v, began).inThink \in BOOLEAN
      /\ StripIncremental(v, began).inThink <=> Thinking(t, FALSE, b)
  BY <1>3, <1>7, <1>8
<1> QED
  BY <1>4, <1>8, <1>9 DEF v

----------------------------------------------------------------------------
(* What is held back.                                                      *)

LEMMA SubSeqJoin ==
  ASSUME NEW S, NEW t \in Seq(S), NEW a \in 0 .. Len(t), NEW b \in a .. Len(t),
         NEW c \in b .. Len(t)
  PROVE  SubSeq(t, a + 1, b) \o SubSeq(t, b + 1, c) = SubSeq(t, a + 1, c)
<1> DEFINE u == SubSeq(t, a + 1, b)
           v == SubSeq(t, b + 1, c)
           w == SubSeq(t, a + 1, c)
<1>1. /\ Len(t) \in Nat /\ a \in Nat /\ b \in Nat /\ c \in Nat
      /\ a <= b /\ b <= c /\ c <= Len(t)
  BY LenProperties
<1>2. u \in Seq(S) /\ Len(u) = b - a /\ \A i \in 1 .. b - a : u[i] = t[a + i]
  BY <1>1
<1>3. v \in Seq(S) /\ Len(v) = c - b /\ \A i \in 1 .. c - b : v[i] = t[b + i]
  BY <1>1
<1>4. w \in Seq(S) /\ Len(w) = c - a /\ \A i \in 1 .. c - a : w[i] = t[a + i]
  BY <1>1
<1> HIDE DEF u, v, w
<1>5. /\ u \o v \in Seq(S) /\ Len(u \o v) = Len(u) + Len(v)
      /\ \A i \in 1 .. Len(u) + Len(v) :
           (u \o v)[i] = IF i <= Len(u) THEN u[i] ELSE v[i - Len(u)]
  BY <1>2, <1>3, ConcatProperties
<1>6. Len(u) + Len(v) = c - a
  BY <1>1, <1>2, <1>3
<1>7. \A i \in 1 .. c - a : (u \o v)[i] = w[i]
  <2> TAKE i \in 1 .. c - a
  <2>1. CASE i <= b - a
    <3>1. i \in 1 .. b - a
      BY <1>1, <2>1
    <3> QED
      BY <1>2, <1>4, <1>5, <1>6, <2>1, <3>1
  <2>2. CASE ~(i <= b - a)
    <3>1. i - (b - a) \in 1 .. c - b /\ b + (i - (b - a)) = a + i
      BY <1>1, <2>2
    <3>2. (u \o v)[i] = v[i - (b - a)]
      BY <1>2, <1>5, <1>6, <2>2
    <3> QED
      BY <1>3, <1>4, <3>1, <3>2
  <2> QED
    BY <2>1, <2>2
<1>8. u \o v = w
  BY <1>4, <1>5, <1>6, <1>7, SeqEqual
<1> QED
  BY <1>8 DEF u, v, w

LEMMA SubSeqPart ==
  ASSUME NEW S, NEW t \in Seq(S), NEW a \in 0 .. Len(t), NEW b \in a .. Len(t),
         NEW c \in b .. Len(t)
  PROVE  SubSeq(SubSeq(t, a + 1, c), 1, b - a) = SubSeq(t, a + 1, b)
<1> DEFINE u == SubSeq(t, a + 1, c)
           v == SubSeq(t, a + 1, b)
           w == SubSeq(u, 1, b - a)
<1>1. /\ Len(t) \in Nat /\ a \in Nat /\ b \in Nat /\ c \in Nat
      /\ a <= b /\ b <= c /\ c <= Len(t)
  BY LenProperties
<1>2. u \in Seq(S) /\ Len(u) = c - a /\ \A i \in 1 .. c - a : u[i] = t[a + i]
  BY <1>1
<1>3. v \in Seq(S) /\ Len(v) = b - a /\ \A i \in 1 .. b - a : v[i] = t[a + i]
  BY <1>1
<1> HIDE DEF u, v
<1>4. w \in Seq(S) /\ Len(w) = b - a /\ \A i \in 1 .. b - a : w[i] = u[i]
  BY <1>1, <1>2
<1> HIDE DEF w
<1>5. \A i \in 1 .. b - a : w[i] = v[i]
  <2> TAKE i \in 1 .. b - a
  <2>1. i \in 1 .. c - a
    BY <1>1
  <2> QED
    BY <1>2, <1>3, <1>4, <2>1
<1>6. w = v
  BY <1>3, <1>4, <1>5, SeqEqual
<1> QED
  BY <1>6 DEF u, v, w

\* Of the buffer with the pieces of a text after d up to n, those after e are
\* held back.
HeldFrom(t, d, n, inThink, e) ==
  LET buf == SubSeq(t, d + 1, n)
  IN /\ Clean(t, e) /\ n <= e + 1
     /\ n # e => t[n] \in {Open, Less}
     /\ Held(buf, inThink) = SubSeq(t, e + 1, n)
     /\ WithoutTail(buf, Held(buf, inThink)) = SubSeq(t, d + 1, e)

\* Nothing is held back of a buffer that ends at such a place, and else the one
\* piece that begins a tag or may begin one: the rest ends at such a place.
LEMMA HeldIs ==
  ASSUME NEW S, NEW t \in Seq(S), WholeTags(t), NEW d, Clean(t, d),
         NEW n \in d + 1 .. Len(t), NEW inThink \in BOOLEAN,
         t[n] # Close, inThink => t[n] \notin {Open, Less}
  PROVE  \E e \in d .. n : HeldFrom(t, d, n, inThink, e)
<1> DEFINE u == SubSeq(t, d + 1, n)
           tail == LastTail(u)
           hold == Held(u, inThink)
<1>1. /\ Len(t) \in Nat /\ d \in Nat /\ n \in Nat /\ d < n /\ n <= Len(t)
      /\ d \in 0 .. Len(t) /\ n \in d .. Len(t) /\ n \in 1 .. Len(t)
      /\ DOMAIN t = 1 .. Len(t)
  BY LenProperties DEF Clean
<1>2. u \in Seq(S) /\ Len(u) = n - d
  BY <1>1
<1>3. \/ tail = << >> /\ t[n] \notin Marks
      \/ /\ t[n] \in {Open, Less}
         /\ tail = << t[n] >> /\ Chars(tail) = Width(t[n])
         /\ Len(tail) = 1
      \/ /\ Len(tail) >= 2 /\ t[n] \notin Marks
         /\ \E m \in d + 1 .. n - 1 :
              /\ tail[2] = t[m + 1] /\ t[m] \in {Open, Close, Less}
              /\ Chars(tail) \in Nat
              /\ Chars(tail) >= Width(t[m]) + Width(t[m + 1])
  <2>1. n # d
    BY <1>1
  <2> QED
    BY <1>1, <2>1, TailOfWhole
<1>4. hold = IF ~inThink /\ ~Contains(tail, TagEnd) /\ ~Contains(tail, Markup)
                /\ Chars(tail) <= 8
             THEN tail ELSE << >>
  BY DEF Held
<1> HIDE DEF u, tail, hold
<1>5. CASE hold = << >> /\ t[n] \notin {Open, Less}
  <2>1. Clean(t, n)
    BY <1>1, <1>5 DEF Clean
  <2>2. SubSeq(t, n + 1, n) = << >>
    BY <1>1, SubSeqEmpty
  <2>3. WithoutTail(u, hold) = u
    <3>1. WithoutTail(u, hold) = SubSeq(u, 1, Len(u))
      BY <1>2, <1>5 DEF WithoutTail
    <3> QED
      BY <1>2, <3>1, SubSeqFull
  <2>4. n \in d .. n /\ n <= n + 1
    BY <1>1
  <2> QED
    BY <1>5, <2>1, <2>2, <2>3, <2>4 DEF u, hold, HeldFrom
<1>6. CASE hold = << t[n] >> /\ t[n] \in {Open, Less}
  <2> DEFINE e == n - 1
  <2>1. e \in d .. n /\ n <= e + 1 /\ e \in Nat /\ e + 1 = n
        /\ e \in 0 .. Len(t) /\ e \in d .. Len(t) /\ n \in e .. Len(t)
    BY <1>1
  <2>2. Clean(t, e)
    <3> SUFFICES ASSUME e # 0, t[e] \in {Open, Close, Less}
                 PROVE  FALSE
      BY <2>1 DEF Clean
    <3>1. e \in DOMAIN t /\ t[e + 1] = t[n]
      BY <1>1, <2>1
    <3>2. ASSUME e = Len(t) PROVE FALSE
      BY <1>1, <2>1, <3>2
    <3>3. t[n] = TagEnd \/ t[n] \notin {Open, Close, TagEnd, Markup, Less}
      BY <3>1, <3>2 DEF WholeTags
    <3> QED
      BY <1>6, <3>3 DEF Open, Less, TagEnd
  <2> HIDE DEF e
  <2>3. SubSeq(t, e + 1, n) = << t[n] >>
    <3>1. t[n] \in S
      BY <1>1, ElementOfSeq
    <3> DEFINE one == << t[n] >>
               last == SubSeq(t, e + 1, n)
    <3>2. one \in Seq(S) /\ Len(one) = 1 /\ one[1] = t[n]
      BY <3>1
    <3>3. last \in Seq(S) /\ Len(last) = 1 /\ last[1] = t[n]
      BY <1>1, <2>1
    <3> HIDE DEF one, last
    <3>4. last = one
      BY <3>2, <3>3, SeqEqual
    <3> QED
      BY <3>4 DEF one, last
  <2>4. WithoutTail(u, hold) = SubSeq(u, 1, e - d)
    <3>1. Len(hold) = 1
      BY <1>6
    <3>2. Len(u) - Len(hold) = e - d
      BY <1>1, <1>2, <2>1, <3>1
    <3> QED
      BY <3>2 DEF WithoutTail
  <2>5. SubSeq(u, 1, e - d) = SubSeq(t, d + 1, e)
    BY <1>1, <2>1, SubSeqPart DEF u
  <2> QED
    BY <1>6, <2>1, <2>2, <2>3, <2>4, <2>5 DEF u, hold, HeldFrom
<1>7. CASE tail = << >> /\ t[n] \notin Marks
  <2>1. hold = << >> /\ t[n] \notin {Open, Less}
    BY <1>4, <1>7 DEF Marks
  <2> QED
    BY <1>5, <2>1
<1>8. CASE /\ t[n] \in {Open, Less}
           /\ tail = << t[n] >> /\ Chars(tail) = Width(t[n]) /\ Len(tail) = 1
  <2>1. ~inThink
    BY <1>8
  <2>2. ~Contains(tail, TagEnd) /\ ~Contains(tail, Markup)
    <3>1. tail[1] = t[n] /\ Len(tail) = 1
      BY <1>8
    <3>2. \A i \in 1 .. Len(tail) : tail[i] = t[n]
      BY <3>1
    <3>3. t[n] # TagEnd /\ t[n] # Markup
      BY <1>8 DEF Open, Less, TagEnd, Markup
    <3> QED
      BY <3>2, <3>3 DEF Contains
  <2>3. Chars(tail) <= 8
    BY <1>8 DEF Width, Open, Close, Less, TagEnd, Markup
  <2>4. hold = << t[n] >>
    BY <1>4, <1>8, <2>1, <2>2, <2>3
  <2> QED
    BY <1>6, <1>8, <2>4
<1>9. ASSUME Len(tail) >= 2, t[n] \notin Marks,
             NEW m \in d + 1 .. n - 1, tail[2] = t[m + 1],
             t[m] \in {Open, Close, Less}, Chars(tail) \in Nat,
             Chars(tail) >= Width(t[m]) + Width(t[m + 1])
      PROVE  hold = << >> /\ t[n] \notin {Open, Less}
  <2>1. m \in DOMAIN t
    BY <1>1
  <2>2. ASSUME m = Len(t) PROVE FALSE
    BY <1>1, <2>2
  <2>3. CASE t[m] \in {Open, Close}
    <3>1. tail[2] = TagEnd
      BY <1>9, <2>1, <2>3 DEF WholeTags
    <3>2. 2 \in 1 .. Len(tail)
      <4>1. tail \in Seq(S)
        <5>1. \/ tail = << >>
              \/ \E k \in 1 .. Len(u) : tail = SubSeq(u, k, Len(u))
          BY <1>2, LastTailIs DEF tail
        <5>2. ASSUME NEW k \in 1 .. Len(u), tail = SubSeq(u, k, Len(u))
              PROVE  tail \in Seq(S)
          BY <1>2, <5>2
        <5>3. tail # << >>
          BY <1>9
        <5> QED
          BY <5>1, <5>2, <5>3
      <4>2. Len(tail) \in Nat
        BY <4>1, LenProperties
      <4> QED
        BY <1>9, <4>2
    <3>3. Contains(tail, TagEnd)
      BY <3>1, <3>2 DEF Contains
    <3> QED
      BY <1>4, <1>9, <3>3 DEF Marks
  <2>4. CASE t[m] = Less
    <3>1. t[m + 1] \notin {Open, Close, TagEnd, Markup, Less}
      BY <2>1, <2>2, <2>4 DEF WholeTags
    <3>2. Width(t[m]) = 1 /\ Width(t[m + 1]) = 9
      BY <2>4, <3>1 DEF Width
    <3>3. ~(Chars(tail) <= 8)
      BY <1>9, <3>2
    <3> QED
      BY <1>4, <1>9, <3>3 DEF Marks
  <2> QED
    BY <1>9, <2>3, <2>4
<1>10. CASE /\ Len(tail) >= 2 /\ t[n] \notin Marks
            /\ \E m \in d + 1 .. n - 1 :
                 /\ tail[2] = t[m + 1] /\ t[m] \in {Open, Close, Less}
                 /\ Chars(tail) \in Nat
                 /\ Chars(tail) >= Width(t[m]) + Width(t[m + 1])
  <2>1. hold = << >> /\ t[n] \notin {Open, Less}
    BY <1>9, <1>10
  <2> QED
    BY <1>5, <2>1
<1> QED
  BY <1>3, <1>7, <1>8, <1>10

----------------------------------------------------------------------------
(* The stream.                                                             *)

\* The filter has come to d, a place where the reply may be cut: it has shown
\* what is visible up to there, knows whether it is in a thought, and holds
\* back at most the one piece after it.
FilterAt(d) ==
  /\ Clean(reply, d) /\ at \in d .. Len(reply) /\ at <= d + 1
  /\ at # d => reply[at] \in {Open, Less}
  /\ stream \in [shown : Seq(STRING), buf : Seq(STRING), inThink : BOOLEAN]
  /\ stream.buf = SubSeq(reply, d + 1, at)
  /\ stream.inThink <=> Thinking(reply, FALSE, d)
  /\ stream.shown = PiecesAt(reply, UpTo(Visible(reply, FALSE), d))

StreamInv ==
  /\ reply \in Seq(STRING)
  /\ pc \in {"probe", "wait", "models", "route", "tools"} => reply = << >>
  /\ pc = "stream" /\ WholeTags(reply) => \E d \in Nat : FilterAt(d)
  /\ ShownIsVisible

\* Where a stream begins.
LEMMA FilterBegins ==
  ASSUME NEW t \in Seq(STRING)
  PROVE  /\ Clean(t, 0) /\ ~Thinking(t, FALSE, 0)
         /\ SubSeq(t, 1, 0) = << >>
         /\ PiecesAt(t, UpTo(Visible(t, FALSE), 0)) = << >>
<1>1. Len(t) \in Nat
  BY LenProperties
<1>2. UpTo(Visible(t, FALSE), 0) = {}
  BY DEF UpTo
<1>3. PiecesAt(t, {}) \in Seq(STRING) /\ Len(PiecesAt(t, {})) = 0
  BY PiecesAreOf, FS_EmptySet
<1>4. PiecesAt(t, {}) = << >>
  BY <1>3
<1>5. PiecesAt(t, UpTo(Visible(t, FALSE), 0)) = << >>
  BY <1>2, <1>4
<1>6. Clean(t, 0) /\ ~Thinking(t, FALSE, 0)
  BY <1>1 DEF Clean, Thinking
<1>7. SubSeq(t, 1, 0) = << >>
  BY <1>1, SubSeqEmpty
<1> QED
  BY <1>5, <1>6, <1>7

\* A chunk takes the filter from one such place of a text to another.
LEMMA ChunkOfText ==
  ASSUME NEW S, NEW t \in Seq(S), WholeTags(t), NEW d \in Nat, Clean(t, d),
         NEW n \in d + 1 .. Len(t), NEW began \in BOOLEAN,
         began <=> Thinking(t, FALSE, d),
         t[n] # Close, began => t[n] \notin {Open, Less}
  PROVE  LET u == SubSeq(t, d + 1, n)
             hold == Held(u, began)
             step == StripIncremental(WithoutTail(u, hold), began)
             V == Visible(t, FALSE)
         IN \E e \in d .. n :
              /\ Clean(t, e) /\ n <= e + 1
              /\ n # e => t[n] \in {Open, Less}
              /\ hold = SubSeq(t, e + 1, n) /\ hold \in Seq(S)
              /\ step.inThink \in BOOLEAN
              /\ step.inThink <=> Thinking(t, FALSE, e)
              /\ PiecesAt(t, UpTo(V, e))
                   = PiecesAt(t, UpTo(V, d)) \o step.out
              /\ PiecesAt(t, UpTo(V, e)) \in Seq(S)
<1> DEFINE u == SubSeq(t, d + 1, n)
           hold == Held(u, began)
           rest == WithoutTail(u, hold)
           step == StripIncremental(rest, began)
           V == Visible(t, FALSE)
<1>1. /\ Len(t) \in Nat /\ d \in Nat /\ n \in Nat /\ d < n /\ n <= Len(t)
      /\ d \in 0 .. Len(t) /\ n \in d .. Len(t)
  BY LenProperties
<1>2. PICK e \in d .. n : HeldFrom(t, d, n, began, e)
  BY HeldIs
<1>3. /\ Clean(t, e) /\ n <= e + 1
      /\ n # e => t[n] \in {Open, Less}
      /\ hold = SubSeq(t, e + 1, n)
      /\ rest = SubSeq(t, d + 1, e)
  BY <1>2 DEF HeldFrom
<1>4. /\ e \in Nat /\ d <= e /\ e <= n /\ e \in d .. Len(t)
      /\ n \in e .. Len(t)
  BY <1>1, <1>3
<1> HIDE DEF u, hold, rest, V
<1>5. /\ step.inThink \in BOOLEAN
      /\ step.inThink <=> Thinking(t, FALSE, e)
      /\ step.out = PiecesAt(rest, Between(V, d, e))
  BY <1>3, <1>4, StripsVisible DEF V
<1> HIDE DEF step
<1>6. PiecesAt(t, UpTo(V, e)) = PiecesAt(t, UpTo(V, d)) \o step.out
  <2>1. PiecesAt(t, UpTo(V, e))
          = PiecesAt(t, UpTo(V, d))
              \o PiecesAt(SubSeq(t, d + 1, e), Between(V, d, e))
    BY <1>1, <1>4, PiecesJoin
  <2> QED
    BY <1>3, <1>5, <2>1
<1>7. PiecesAt(t, UpTo(V, e)) \in Seq(S)
  <2>1. UpTo(V, e) \in SUBSET (1 .. Len(t))
    BY <1>1, <1>4 DEF UpTo
  <2> QED
    BY <2>1, PiecesAreOf
<1>8. hold \in Seq(S)
  BY <1>1, <1>3, <1>4
<1> QED
  BY <1>3, <1>5, <1>6, <1>7, <1>8 DEF u, hold, rest, step, V

LEMMA ChunkKeeps ==
  ASSUME ~AnyCut, reply \in Seq(STRING), WholeTags(reply),
         NEW d \in Nat, FilterAt(d), NEW n \in 1 .. Len(reply), StreamChunk(n)
  PROVE  \E e \in Nat : FilterAt(e)'
<1> DEFINE u == SubSeq(reply, d + 1, n)
           began == stream.inThink
           hold == Held(u, began)
           step == StripIncremental(WithoutTail(u, hold), began)
           V == Visible(reply, FALSE)
<1>1. /\ Len(reply) \in Nat /\ d \in Nat /\ at \in Nat /\ n \in Nat
      /\ d <= at /\ at < n /\ n <= Len(reply) /\ d \in 0 .. Len(reply)
      /\ at \in d .. Len(reply) /\ n \in at .. Len(reply)
      /\ n \in d + 1 .. Len(reply)
  BY LenProperties DEF FilterAt, StreamChunk
<1>2. began \in BOOLEAN /\ (began <=> Thinking(reply, FALSE, d))
      /\ Clean(reply, d) /\ stream.shown \in Seq(STRING)
      /\ stream.shown = PiecesAt(reply, UpTo(V, d))
  BY DEF FilterAt
<1>3. reply[n] # Close /\ (began => reply[n] \notin {Open, Less})
  BY DEF StreamChunk, CutAt
<1>4. stream.buf \o SubSeq(reply, at + 1, n) = u
  BY <1>1, SubSeqJoin DEF FilterAt
<1>5. /\ stream' = [shown |-> stream.shown \o step.out, buf |-> hold,
                    inThink |-> step.inThink]
      /\ at' = n /\ reply' = reply
  BY <1>4 DEF StreamChunk, Fed
<1>6. PICK e \in d .. n :
             /\ Clean(reply, e) /\ n <= e + 1
             /\ n # e => reply[n] \in {Open, Less}
             /\ hold = SubSeq(reply, e + 1, n) /\ hold \in Seq(STRING)
             /\ step.inThink \in BOOLEAN
             /\ step.inThink <=> Thinking(reply, FALSE, e)
             /\ PiecesAt(reply, UpTo(V, e))
                  = PiecesAt(reply, UpTo(V, d)) \o step.out
             /\ PiecesAt(reply, UpTo(V, e)) \in Seq(STRING)
  <2>1. PICK t : t = reply
    OBVIOUS
  <2>2. PICK S : S = STRING
    OBVIOUS
  <2>3. PICK b : b = began
    OBVIOUS
  <2>4. /\ t \in Seq(S) /\ WholeTags(t) /\ Clean(t, d)
        /\ n \in d + 1 .. Len(t) /\ b \in BOOLEAN
        /\ b <=> Thinking(t, FALSE, d)
        /\ t[n] # Close /\ (b => t[n] \notin {Open, Less})
    BY <1>1, <1>2, <1>3, <2>1, <2>2, <2>3, Zenon
  <2> HIDE DEF began
  <2>5. \E e \in d .. n :
          LET v == SubSeq(t, d + 1, n)
              kept == Held(v, b)
              strip == StripIncremental(WithoutTail(v, kept), b)
              W == Visible(t, FALSE)
          IN /\ Clean(t, e) /\ n <= e + 1
             /\ n # e => t[n] \in {Open, Less}
             /\ kept = SubSeq(t, e + 1, n) /\ kept \in Seq(S)
             /\ strip.inThink \in BOOLEAN
             /\ strip.inThink <=> Thinking(t, FALSE, e)
             /\ PiecesAt(t, UpTo(W, e))
                  = PiecesAt(t, UpTo(W, d)) \o strip.out
             /\ PiecesAt(t, UpTo(W, e)) \in Seq(S)
    BY ONLY d \in Nat, <2>4, ChunkOfText
  <2> QED
    BY ONLY <2>1, <2>2, <2>3, <2>5, Zenon
<1> HIDE DEF hold, step, V
<1>7. e \in Nat /\ e <= n /\ n \in e .. Len(reply)
  BY <1>1, <1>6
<1>8. stream' \in [shown : Seq(STRING), buf : Seq(STRING), inThink : BOOLEAN]
  BY <1>2, <1>5, <1>6
<1>9. /\ stream'.buf = hold /\ stream'.inThink = step.inThink
      /\ stream'.shown = PiecesAt(reply, UpTo(V, e))
  BY <1>2, <1>5, <1>6
<1>10. PICK f \in Nat : f = e
  BY <1>7
<1>11. FilterAt(f)'
  BY <1>5, <1>6, <1>7, <1>8, <1>9, <1>10 DEF FilterAt, V
<1> QED
  BY <1>11

\* A reply with whole tags ends in no half of one, and what is held back at its
\* end is visible unless it is in a thought.
LEMMA EndIsVisible ==
  ASSUME NEW S, NEW t \in Seq(S), WholeTags(t), NEW d \in Nat,
         Clean(t, d), Len(t) = d + 1, t[Len(t)] \in {Open, Less}
  PROVE  /\ t[Len(t)] = Less
         /\ Len(t) \in Visible(t, FALSE) <=> ~Thinking(t, FALSE, d)
<1> DEFINE n == Len(t)
<1>1. n \in Nat /\ DOMAIN t = 1 .. n /\ n \in DOMAIN t /\ d = n - 1 /\ n >= 1
  BY LenProperties
<1>2. t[n] = Less
  BY <1>1 DEF WholeTags
<1>3. ~IsTag(t, Close, n) /\ ~IsTag(t, Open, n)
  BY <1>1 DEF IsTag
<1>4. ~IsTag(t, Close, n - 1) /\ ~IsTag(t, Open, n - 1)
  <2>1. ~IsTag(t, Close, d) /\ ~IsTag(t, Open, d)
    BY CleanHasNoTag
  <2> QED
    BY <1>1, <2>1
<1>5. Thinking(t, FALSE, n) <=> Thinking(t, FALSE, d)
  <2> DEFINE open(i) == IsTag(t, Open, i)
             close(i) == IsTag(t, Close, i)
  <2>1. ~open(d) /\ ~close(d)
    BY CleanHasNoTag
  <2> HIDE DEF n, open, close
  <2>2. Thinking(t, FALSE, n)
          <=> \E i \in 1 .. n - 1 :
                open(i) /\ ~ \E j \in i + 1 .. n - 1 : close(j)
    BY DEF Thinking, open, close
  <2>3. Thinking(t, FALSE, d)
          <=> \E i \in 1 .. d - 1 :
                open(i) /\ ~ \E j \in i + 1 .. d - 1 : close(j)
    BY DEF Thinking, open, close
  <2>4. \A i \in 1 .. n - 1 : open(i) => i \in 1 .. d - 1
    BY <1>1, <2>1
  <2>5. \A i \in 1 .. d - 1 : i \in 1 .. n - 1
    BY <1>1
  <2>6. ASSUME NEW i \in 1 .. d - 1
        PROVE  (\E j \in i + 1 .. n - 1 : close(j))
                 <=> \E j \in i + 1 .. d - 1 : close(j)
    <3>1. \A j \in i + 1 .. n - 1 : close(j) => j \in i + 1 .. d - 1
      BY <1>1, <2>1
    <3>2. \A j \in i + 1 .. d - 1 : j \in i + 1 .. n - 1
      BY <1>1
    <3> QED
      BY <3>1, <3>2
  <2> QED
    BY <2>2, <2>3, <2>4, <2>5, <2>6
<1> QED
  BY <1>1, <1>2, <1>3, <1>4, <1>5 DEF Visible, InTag

LEMMA FlushOfText ==
  ASSUME NEW S, NEW t \in Seq(S), WholeTags(t), NEW d \in Nat, Clean(t, d),
         Len(t) <= d + 1, Len(t) # d => t[Len(t)] \in {Open, Less},
         NEW began \in BOOLEAN, began <=> Thinking(t, FALSE, d),
         NEW shown \in Seq(S),
         shown = PiecesAt(t, UpTo(Visible(t, FALSE), d))
  PROVE  LET buf == SubSeq(t, d + 1, Len(t))
         IN StripThinking(t) = IF ~began /\ ~Contains(buf, Open)
                               THEN shown \o DropCloseTags(buf) ELSE shown
<1> DEFINE n == Len(t)
           V == Visible(t, FALSE)
           buf == SubSeq(t, d + 1, n)
<1>1. /\ n \in Nat /\ DOMAIN t = 1 .. n /\ d \in 0 .. n /\ n <= d + 1
      /\ n # d => t[n] \in {Open, Less}
  BY LenProperties DEF Clean
<1>2. UpTo(V, n) = V /\ StripThinking(t) = PiecesAt(t, V)
  BY <1>1 DEF Visible, StripThinking, UpTo
<1> HIDE DEF V
<1>3. CASE d = n
  <2>1. buf = << >>
    BY <1>1, <1>3, SubSeqEmpty
  <2>2. DropCloseTags(<< >>) = << >>
    <3>1. << >> \in Seq(S) /\ Len(<< >>) = 0
      OBVIOUS
    <3>2. DropCloseTags(<< >>) = PiecesAt(<< >>, {})
      BY DEF DropCloseTags
    <3>3. PiecesAt(<< >>, {}) \in Seq(S) /\ Len(PiecesAt(<< >>, {})) = 0
      BY <3>1, PiecesAreOf, FS_EmptySet
    <3> QED
      BY <3>2, <3>3
  <2>3. shown \o << >> = shown
    BY ConcatEmptySeq
  <2>4. shown = PiecesAt(t, V)
    BY <1>2, <1>3 DEF V
  <2> QED
    BY <1>2, <2>1, <2>2, <2>3, <2>4
<1>4. CASE d # n
  <2>1. n = d + 1 /\ n \in d .. n /\ n - d = 1
    <3> HIDE DEF n
    <3>1. n \in Nat /\ d \in Nat /\ d <= n /\ n <= d + 1
      BY <1>1
    <3> QED
      BY <1>4, <3>1
  <2>2. t[n] = Less /\ (n \in V <=> ~Thinking(t, FALSE, d))
    <3>1. Len(t) = d + 1 /\ t[Len(t)] \in {Open, Less}
      BY <1>1, <1>4, <2>1
    <3> QED
      BY <3>1, EndIsVisible DEF V
  <2>3. /\ buf \in Seq(S) /\ Len(buf) = 1 /\ buf[1] = Less
        /\ DOMAIN buf = 1 .. 1
    BY <1>1, <2>1, <2>2, LenProperties
  <2>4. ~Contains(buf, Open)
    BY <2>3 DEF Contains, Open, Less
  <2>5. PiecesAt(t, UpTo(V, n))
          = PiecesAt(t, UpTo(V, d))
              \o PiecesAt(buf, Between(V, d, n))
    BY <1>1, <2>1, PiecesJoin
  <2> HIDE DEF buf
  <2>6. CASE began
    <3>1. UpTo(V, n) = UpTo(V, d)
      <4>1. n \notin V
        BY <2>2, <2>6
      <4>2. \A p \in 1 .. n : p = n \/ p \in 1 .. d
        BY <1>1, <2>1
      <4>3. \A p \in 1 .. d : p \in 1 .. n
        BY <1>1, <2>1
      <4> QED
        BY <4>1, <4>2, <4>3 DEF UpTo
    <3> QED
      BY <1>2, <2>6, <3>1 DEF V, buf
  <2>7. CASE ~began
    <3>1. n \in V
      BY <2>2, <2>7
    <3>2. Between(V, d, n) = {1}
      BY <2>1, <3>1 DEF Between
    <3>3. { p \in DOMAIN buf : ~InTag(buf, Close, p) } = {1}
      <4>1. ~InTag(buf, Close, 1)
        BY <2>3 DEF InTag, IsTag
      <4> QED
        BY <2>3, <4>1
    <3>4. DropCloseTags(buf) = PiecesAt(buf, {1})
      BY <3>3 DEF DropCloseTags
    <3>5. StripThinking(t) = shown \o DropCloseTags(buf)
      BY <1>2, <2>5, <3>2, <3>4 DEF V
    <3> QED
      BY <2>4, <2>7, <3>5 DEF buf
  <2> QED
    BY <2>6, <2>7
<1> QED
  BY <1>3, <1>4

LEMMA FlushShows ==
  ASSUME reply \in Seq(STRING), WholeTags(reply), NEW d \in Nat, FilterAt(d),
         at = Len(reply)
  PROVE  Flushed(stream).shown = StripThinking(reply)
<1>1. /\ Clean(reply, d) /\ Len(reply) <= d + 1
      /\ Len(reply) # d => reply[Len(reply)] \in {Open, Less}
      /\ stream.buf = SubSeq(reply, d + 1, Len(reply))
      /\ stream.inThink \in BOOLEAN
      /\ stream.inThink <=> Thinking(reply, FALSE, d)
      /\ stream.shown = PiecesAt(reply, UpTo(Visible(reply, FALSE), d))
      /\ stream.shown \in Seq(STRING)
  BY DEF FilterAt
<1>2. Flushed(stream).shown
        = IF ~stream.inThink /\ ~Contains(stream.buf, Open)
          THEN stream.shown \o DropCloseTags(stream.buf) ELSE stream.shown
  BY DEF Flushed, FilterAt
<1>3. PICK t : t = reply
  OBVIOUS
<1>4. PICK S : S = STRING
  OBVIOUS
<1>5. PICK b : b = stream.inThink
  OBVIOUS
<1>6. PICK s : s = stream.shown
  OBVIOUS
<1>7. /\ t \in Seq(S) /\ WholeTags(t) /\ Clean(t, d) /\ Len(t) <= d + 1
      /\ Len(t) # d => t[Len(t)] \in {Open, Less}
      /\ b \in BOOLEAN /\ (b <=> Thinking(t, FALSE, d)) /\ s \in Seq(S)
      /\ s = PiecesAt(t, UpTo(Visible(t, FALSE), d))
  BY <1>1, <1>3, <1>4, <1>5, <1>6, Zenon
<1>8. StripThinking(t)
        = IF ~b /\ ~Contains(SubSeq(t, d + 1, Len(t)), Open)
          THEN s \o DropCloseTags(SubSeq(t, d + 1, Len(t))) ELSE s
  BY ONLY d \in Nat, <1>7, FlushOfText
<1> QED
  BY ONLY <1>1, <1>2, <1>3, <1>5, <1>6, <1>8, Zenon

\* Steps that leave the reply and its stream as they are.
LEMMA StreamStays ==
  ASSUME StreamInv, UNCHANGED <<reply, at, stream>>,
         pc' = pc \/ pc' = "off"
  PROVE  StreamInv'
BY DEF StreamInv, FilterAt, ShownIsVisible

\* Steps at which no reply is there.
LEMMA StreamStarts ==
  ASSUME reply' = << >>, pc' # "stream"
  PROVE  StreamInv'
BY DEF StreamInv, ShownIsVisible

\* What the user has been shown of an answer is what is visible of the whole of
\* it, however the stream was cut, for every reply with whole tags; AnyCut
\* allows the cuts inside a tag, of which this is not true (ShownIsVisible of
\* Chat).
THEOREM StreamsShowTheWhole ==
  ASSUME ~AnyCut
  PROVE  Spec => []ShownIsVisible
<1>1. Init => StreamInv
  BY DEF Init, StreamInv, ShownIsVisible
<1>2. StreamInv /\ [Next]_vars => StreamInv'
  <2> SUFFICES ASSUME StreamInv, [Next]_vars PROVE StreamInv'
    OBVIOUS
  <2>1. CASE Start
    BY <2>1, StreamStarts DEF Start, NoReply, GoesTo
  <2>2. ASSUME NEW answers \in BOOLEAN, NEW binary \in BOOLEAN,
               Probe(answers, binary)
        PROVE  StreamInv'
    BY <2>2, StreamStarts DEF Probe, GoesTo, Leaves, turn, StreamInv
  <2>3. ASSUME NEW answers \in BOOLEAN, WaitForServer(answers)
        PROVE  StreamInv'
    BY <2>3, StreamStarts DEF WaitForServer, GoesTo, Leaves, turn, StreamInv
  <2>4. ASSUME NEW some \in BOOLEAN, ListModels(some) PROVE StreamInv'
    BY <2>4, StreamStarts DEF ListModels, GoesTo, Leaves, turn, StreamInv
  <2>5. CASE ChildDies
    BY <2>5, StreamStays DEF ChildDies, turn
  <2>6. ASSUME NEW kind \in {"statement", "question", "other"}, Ask(kind)
        PROVE  StreamInv'
    BY <2>6, StreamStarts DEF Ask, NoReply, GoesTo
  <2>7. CASE EndChat \/ UnknownTool
    BY <2>7, StreamStays DEF EndChat, UnknownTool, StopManaged, GoesTo, turn
  <2>8. CASE Kill
    BY <2>8, StreamStays DEF Kill, Leaves, GoesTo, turn
  <2>9. CASE RequestFails
    BY <2>9, StreamStarts DEF RequestFails, NoReply, GoesTo
  <2>10. CASE RunTool
    BY <2>10, StreamStarts DEF RunTool, NextRound, GoesTo, StreamInv
  <2>11. ASSUME NEW calls \in Calls, Route(calls) PROVE StreamInv'
    <3>1. CASE calls = << >>
      <4>1. /\ pc' = "stream" /\ reply' \in Seq(STRING) /\ at' = 0
            /\ stream' = NoStream
        BY <2>11, <3>1, ChatAssumption DEF Route, GoesTo
      <4>2. FilterAt(0)'
        <5>1. /\ Clean(reply', 0) /\ ~Thinking(reply', FALSE, 0)
              /\ SubSeq(reply', 1, 0) = << >>
              /\ PiecesAt(reply', UpTo(Visible(reply', FALSE), 0)) = << >>
          BY <4>1, FilterBegins
        <5>2. /\ stream'.shown = << >> /\ stream'.buf = << >>
              /\ stream'.inThink = FALSE
              /\ stream' \in [shown : Seq(STRING), buf : Seq(STRING),
                              inThink : BOOLEAN]
          BY <4>1 DEF NoStream
        <5>3. at' \in 0 .. Len(reply') /\ at' <= 0 + 1 /\ at' = 0
              /\ SubSeq(reply', 0 + 1, at') = << >>
          BY <4>1, <5>1, LenProperties
        <5> QED
          BY <5>1, <5>2, <5>3 DEF FilterAt
      <4> QED
        BY <4>1, <4>2 DEF StreamInv, ShownIsVisible
    <3>2. CASE calls # << >>
      BY <2>11, <3>2, StreamStarts DEF Route, GoesTo, StreamInv
    <3> QED
      BY <3>1, <3>2
  <2>12. CASE StreamEnds
    <3>1. /\ pc = "stream" /\ at = Len(reply) /\ reply' = reply
          /\ stream' = Flushed(stream) /\ pc' = "prompt"
      BY <2>12 DEF StreamEnds, GoesTo
    <3>2. ASSUME WholeTags(reply) PROVE stream'.shown = StripThinking(reply)
      BY <3>1, <3>2, FlushShows DEF StreamInv
    <3> QED
      BY <3>1, <3>2 DEF StreamInv, ShownIsVisible
  <2>13. ASSUME NEW n \in 1 .. Len(reply), StreamChunk(n) PROVE StreamInv'
    <3>1. pc = "stream" /\ pc' = pc /\ reply' = reply
      BY <2>13 DEF StreamChunk
    <3>2. ASSUME WholeTags(reply) PROVE \E e \in Nat : FilterAt(e)'
      <4>1. PICK d \in Nat : FilterAt(d)
        BY <3>1, <3>2 DEF StreamInv
      <4> QED
        BY <2>13, <3>2, <4>1, ChunkKeeps DEF StreamInv
    <3> QED
      BY <3>1, <3>2 DEF StreamInv, ShownIsVisible
  <2>14. CASE UNCHANGED vars
    BY <2>14, StreamStays DEF vars, turn
  <2>15. CASE Observatory
    BY <2>15, StreamStays DEF Observatory, ObservatorySaves, turn
  <2> QED
    BY <2>1, <2>2, <2>3, <2>4, <2>5, <2>6, <2>7, <2>8, <2>9, <2>10, <2>11,
       <2>12, <2>13, <2>14, <2>15 DEF Next, StartChat, User, Turn
<1>3. StreamInv => ShownIsVisible
  BY DEF StreamInv
<1> QED
  BY <1>1, <1>2, <1>3, PTL DEF Spec

=============================================================================

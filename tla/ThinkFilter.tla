---------------------------- MODULE ThinkFilter ----------------------------
(***************************************************************************)
(* How the chat client hides what a model thinks (engine/ollama.py):       *)
(* strip_thinking of a whole text, and the filter of a stream that comes   *)
(* in pieces.                                                              *)
(*                                                                         *)
(* A text is a sequence of pieces of one or more characters.  The tags     *)
(* <think> and </think> are two pieces each, so that a stream can be cut   *)
(* inside a tag, before its end; the filter's limits count the characters, *)
(* as the code does.  White space around an answer is left out.            *)
(*                                                                         *)
(* The code searches for one tag after the other; here it is said of each  *)
(* piece whether it is left.  FilterLoops has the searches.                *)
(***************************************************************************)
EXTENDS Naturals, Sequences, FiniteSets, SequencesExt

Open == "<think"
Close == "</think"
TagEnd == ">"
Markup == "<b>"
Less == "<"

\* How many characters a piece has; words have more than a tag.
Width(piece) ==
  IF piece \in {Less, TagEnd} THEN 1
  ELSE IF piece = Markup THEN 3
  ELSE IF piece = Open THEN 6
  ELSE IF piece = Close THEN 7
  ELSE 9

\* How many a text has, each named by its piece and its place in it.
Chars(text) ==
  Cardinality(UNION { {i} \X (1 .. Width(text[i])) : i \in DOMAIN text })

\* The pieces of a text at some places, in their order: the one at n has n - 1
\* of them before it.
PiecesAt(text, places) ==
  [n \in 1 .. Cardinality(places) |->
     text[CHOOSE p \in places :
            Cardinality({ q \in places : q < p }) = n - 1]]

\* The text from the last "<" on, or nothing.
LastTail(text) ==
  LET tails == { i \in DOMAIN text : text[i] \in {Open, Close, Markup, Less} }
  IN IF tails = {} THEN << >> ELSE SubSeq(text, Max(tails), Len(text))

WithoutTail(text, tail) == SubSeq(text, 1, Len(text) - Len(tail))

\* The tag that begins with this piece is at p.
IsTag(text, half, p) ==
  p \in 1 .. Len(text) - 1 /\ text[p] = half /\ text[p + 1] = TagEnd

InTag(text, half, p) == IsTag(text, half, p) \/ IsTag(text, half, p - 1)

\* Whether the first p pieces of a text leave it in a thought: one it began in,
\* or one that is opened in it, has not been closed since.
Thinking(text, began, p) ==
  LET closedAfter(i) == \E j \in i + 1 .. p - 1 : IsTag(text, Close, j)
  IN \/ began /\ ~closedAfter(0)
     \/ \E i \in 1 .. p - 1 : IsTag(text, Open, i) /\ ~closedAfter(i)

\* The places outside the thoughts and the tags.
Visible(text, began) ==
  { p \in DOMAIN text : /\ ~Thinking(text, began, p)
                        /\ ~IsTag(text, Open, p) /\ ~InTag(text, Close, p) }

\* text.replace("</think>", "").
DropCloseTags(text) ==
  PiecesAt(text, { p \in DOMAIN text : ~InTag(text, Close, p) })

\* strip_thinking: closed thoughts, an unclosed one and lone closing tags go.
StripThinking(text) == PiecesAt(text, Visible(text, FALSE))

\* The places after the last thought.
AfterThoughts(text, began) ==
  { p \in DOMAIN text : \A q \in (p - 1) .. Len(text) :
                          ~Thinking(text, began, q) }

\* _strip_think_incremental: what is visible of a chunk, and whether its end is
\* in a thought.  A short tail that could begin a tag is dropped, although the
\* caller has kept its own copy of such tails only; the closing tags before it
\* then stay.
StripIncremental(text, inThink) ==
  LET tail == LastTail(text)
      thinks == Thinking(text, inThink, Len(text))
  IN [out |-> PiecesAt(text,
                IF ~thinks /\ tail # << >> /\ Chars(tail) <= 7
                THEN (Visible(text, inThink) \cup AfterThoughts(text, inThink))
                       \cap 1 .. Len(text) - Len(tail)
                ELSE Visible(text, inThink)),
      inThink |-> thinks]

\* A text in which every tag is whole, and what follows any other "<" is a word
\* or the end.
WholeTags(text) ==
  \A i \in DOMAIN text :
    LET ends == i = Len(text)
    IN /\ text[i] # Markup
       /\ text[i] \in {Open, Close} => ~ends /\ text[i + 1] = TagEnd
       /\ text[i] = Less =>
            ends \/ text[i + 1] \notin {Open, Close, TagEnd, Markup, Less}

\* The filter of a stream: the text it has yielded, the tail it holds back, and
\* whether it is in a thought.
NoStream == [shown |-> << >>, buf |-> << >>, inThink |-> FALSE]

\* Mutant of Held: a tail is never held back.
HeldNever(buf, inThink) == << >>

\* What is held back of the buffer: the beginning of a tag, outside a thought.
Held(buf, inThink) ==
  LET tail == LastTail(buf)
  IN IF ~inThink /\ ~Contains(tail, TagEnd) /\ ~Contains(tail, Markup)
        /\ Chars(tail) <= 8
     THEN tail ELSE << >>

\* stream_complete takes a chunk ...
Fed(stream, chunk) ==
  LET buf == stream.buf \o chunk
      hold == Held(buf, stream.inThink)
      step == StripIncremental(WithoutTail(buf, hold), stream.inThink)
  IN [shown |-> stream.shown \o step.out, buf |-> hold,
      inThink |-> step.inThink]

\* ... and flushes what it has held back at the end, unless it opens a thought.
Flushed(stream) ==
  [stream EXCEPT !.buf = << >>,
                 !.shown = IF ~stream.inThink /\ ~Contains(stream.buf, Open)
                           THEN @ \o DropCloseTags(stream.buf) ELSE @]

=============================================================================

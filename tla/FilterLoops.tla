---------------------------- MODULE FilterLoops ----------------------------
(***************************************************************************)
(* The searches of engine/ollama.py that ThinkFilter describes by what     *)
(* they leave: the substitution of strip_thinking, and the loop of         *)
(* _strip_think_incremental.  That both leave the same is checked as an    *)
(* assumption, over every short text.                                      *)
(***************************************************************************)
EXTENDS ThinkFilter

\* str.find of the tag that begins with this piece, 0 if there is none.
Find(t, half) ==
  LET places == { i \in DOMAIN t : IsTag(t, half, i) }
  IN IF places = {} THEN 0 ELSE Min(places)

Before(t, i) == SubSeq(t, 1, i - 1)
After(t, i) == SubSeq(t, i + 2, Len(t))
LastOf(t, n) == SubSeq(t, Len(t) - n + 1, Len(t))

\* text.replace("</think>", ""), from the left.
Replaced(t) ==
  LET replace[n \in 0 .. Len(t)] ==      \* of the first n pieces
        IF n = 0 THEN << >>
        ELSE IF n >= 2 /\ IsTag(t, Close, n - 1) THEN replace[n - 2]
        ELSE Append(replace[n - 1], t[n])
  IN replace[Len(t)]

\* _THINK_BLOCK.sub("", text): <think>.*?</think>, <think>.*$ or </think>, at
\* the first place where one of them matches, and on from its end.
Substituted(t) ==
  LET sub[n \in 0 .. Len(t)] ==          \* of the last n pieces
        LET u == LastOf(t, n)
            open == Find(u, Open)
            close == Find(After(u, open), Close)
        IN IF open = 0 THEN Replaced(u)
           ELSE Replaced(Before(u, open))
                \o IF close = 0 THEN << >> ELSE sub[n - open - close - 2]
  IN sub[Len(t)]

\* The loop of _strip_think_incremental.
Looped(t, began) ==
  LET loop[n \in 0 .. Len(t), thinking \in BOOLEAN] ==
        LET u == LastOf(t, n)
            i == Find(u, IF thinking THEN Close ELSE Open)
            tail == LastTail(u)
            rest == loop[n - i - 1, ~thinking]
        IN IF i # 0 /\ thinking THEN rest
           ELSE IF i # 0
           THEN [rest EXCEPT !.out = Replaced(Before(u, i)) \o @]
           ELSE [out |-> IF thinking THEN << >>
                         ELSE IF tail # << >> /\ Chars(tail) <= 7
                         THEN WithoutTail(u, tail)
                         ELSE Replaced(u),
                 inThink |-> thinking]
  IN loop[Len(t), began]

----------------------------------------------------------------------------
\* Every text of up to six pieces: three tags, or tags cut in two and words.
MaxPieces == 6
ShortTexts == SeqOf({Open, Close, TagEnd, Markup, Less, "word"}, MaxPieces)

\* What ThinkFilter says is left of a text, of a whole one and of a chunk of a
\* stream, is what the code's searches leave of it: thoughts opened in
\* thoughts, closed twice or never, and tags cut in two included.
ASSUME SearchesAgree ==
  \A text \in ShortTexts :
    /\ DropCloseTags(text) = Replaced(text)
    /\ StripThinking(text) = Substituted(text)
    /\ \A began \in BOOLEAN :
         StripIncremental(text, began) = Looped(text, began)

=============================================================================

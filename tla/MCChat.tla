------------------------------- MODULE MCChat -------------------------------
(* Instances of Chat for TLC, which checks what FilterLoops assumes.  No   *)
(* symmetry: liveness is checked.                                          *)
EXTENDS Chat, FilterLoops

CONSTANTS t1, t2

MCTexts == {t1, t2}

\* A thought between two words and a "<" at the end; a lone closing tag and a
\* thought that is not closed.
MCReplies ==
  { <<"word", Open, TagEnd, "thought", Close, TagEnd, Less, "word", Less>>,
    <<Close, TagEnd, "word", Open, TagEnd, "thought">> }

\* Two thoughts and a word between them.
MCThoughts ==
  { <<Open, TagEnd, "thought", Close, TagEnd, "word", Open, TagEnd,
      "thought", Close, TagEnd>> }

MCCalls == { << >>, <<"memory">>, <<"forget">>, <<"recall", "unknown">> }

=============================================================================

\* Two texts, two chats of two prompts, two rounds of tools.
SPECIFICATION FairSpec
CONSTANTS
  t1 = t1
  t2 = t2
  Texts <- MCTexts
  Replies <- MCReplies
  Calls <- MCCalls
  AnyCut = FALSE
  Limit = 2
  Prompts = 2
  Chats = 2
INVARIANTS
  ShownIsVisible
  ToolsAnswered
  StatementsAreKept
PROPERTIES
  TurnsEnd
CHECK_DEADLOCK FALSE

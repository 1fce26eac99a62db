\* One prompt, answered with two thoughts; chunks end anywhere.
SPECIFICATION Spec
CONSTANTS
  t1 = t1
  t2 = t2
  Texts <- MCTexts
  Replies <- MCThoughts
  Calls <- MCCalls
  AnyCut = TRUE
  Limit = 1
  Prompts = 1
  Chats = 1
INVARIANTS
  ThoughtsNeverShown
CHECK_DEADLOCK FALSE

\* Two request threads of the HTTP server and the MCP server, each with a
\* container of its own and both containers in one journal file; a text each;
\* three requests and calls in all that do more than read; a ring of two
\* events; one crash.
SPECIFICATION FairSpec
CONSTANTS
  c1 = c1
  c2 = c2
  a = a
  b = b
  x = x
  y = y
  Callers <- MCCallers
  Tags <- MCTags
  FileOf <- MCFileOf
  Texts <- MCTexts
  Named <- MCNamed
  Says <- MCSays
  Ring = 2
  MaxWork = 3
  Restarts = 1
INVARIANTS
  ToldIsKept
  RingIsNewest
  AnnouncedIsDone
PROPERTIES
  RequestsEnd
CHECK_DEADLOCK FALSE

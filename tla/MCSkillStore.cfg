SPECIFICATION Spec
CONSTANTS
  agent = agent
  tool = tool
  server = server
  cli = cli
  None = None
  Engines <- MCEngines
  Processes = {server, cli}
  Owner <- MCOwner
  MaxVersion = 4
  MaxTexts = 2
  MaxCrashes = 1
INVARIANTS
  TypeOK
  CacheIsCurrent
  MarkdownAgrees
  HistoryComplete
  DeletedStaysDeleted
\* The callers may stop calling: here, when the texts are used up.
CHECK_DEADLOCK FALSE

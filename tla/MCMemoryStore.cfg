SPECIFICATION Spec
CONSTANTS
  agent = agent
  request = request
  other = other
  server = server
  tui = tui
  a = a
  b = b
  both = both
  Stores <- MCStores
  Processes = {server, tui}
  Owner <- MCOwner
  Strategies = {agent, other}
  Requests = {request}
  Limit <- MCLimit
  Texts <- MCTexts
  Strip <- MCStrip
  Pieces <- MCPieces
  Length <- MCLength
  Old <- MCOld
  MaxCalls = 3
  MaxCrashes = 1
INVARIANTS
  TypeOK
  CacheIsFileUnlessBehind
  SearchIsExact
PROPERTIES
  WritesAreFaithful
SYMMETRY MCSymmetry
CHECK_DEADLOCK FALSE

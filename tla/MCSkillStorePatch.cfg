SPECIFICATION Spec
CONSTANTS
  agent = agent
  tool = tool
  server = server
  cli = cli
  None = None
  Engines = {agent}
  Processes = {server}
  Owner <- MCOne
  MaxVersion = 3
  MaxTexts = 3
  MaxCrashes = 0
INVARIANT PatchKeepsOldText
\* The callers may stop calling: here, when the texts are used up.
CHECK_DEADLOCK FALSE

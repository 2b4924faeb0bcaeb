\* The terminal waits for its user when all tasks are over.
CONSTANTS
  StepsCap = 2
  MaxTasks = 2
  MaxLines = 3
SPECIFICATION TerminalSpec
INVARIANTS MessagesAreExact InterruptIsHeard
PROPERTY SpinnerStops
CHECK_DEADLOCK FALSE

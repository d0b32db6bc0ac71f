CONSTANTS
  Fd <- MCFd
  MAX_CONN = 2
  HEADER = 1
  CHUNK = 2
  MaxFile = 2
  MaxOpen = 1
SPECIFICATION Spec
INVARIANTS TypeOK OpenAreListed InOrder ExitCloses
PROPERTIES AnswerWhole AnswerEnds
CHECK_DEADLOCK FALSE

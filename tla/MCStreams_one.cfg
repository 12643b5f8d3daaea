CONSTANTS
  Procs = {p1}
  Files = {p1}
  IDX = 4
  QSIZE = 2
  MaxRefusals = 1
  MaxTimeouts = 1
  Text <- MCText
  STREAM_READ_CHUNK = 2
  WRITE_BUF = 2
  STREAM_STRING_OUTPUT_CAP = 2
  MaxOps = 4
  MaxOpsBeyond = 2
SPECIFICATION Spec
INVARIANTS AnswerIsOwn FidsAccounted
PROPERTIES ImplementsCursor OperationsEnd
CHECK_DEADLOCK FALSE

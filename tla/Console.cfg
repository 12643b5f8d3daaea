SPECIFICATION Spec
CONSTANTS
  Procs = {1, 2}
  StdinReaders = {2}
  Chars = {"a"}
  PROCESS_STDIN_BUF_SIZE = 3
  MaxKeys = 3
INVARIANTS
  LinesInOrder
  PromptBeforeWait
PROPERTY
  LineIsRead
CHECK_DEADLOCK FALSE

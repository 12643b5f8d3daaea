SPECIFICATION Spec
CONSTANTS
  PROCESS_COUNT = 4
  stack_usable_base <- MCStackBase
  STACK_SIZE = 4
  STACK_GUARD_MARGIN = 2
  FRAME = 1
INVARIANTS
  RingShape
  SuspendedStacksSound
  StackLowIsCurrents
PROPERTY
  EveryProcessRuns
CHECK_DEADLOCK FALSE

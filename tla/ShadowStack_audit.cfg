SPECIFICATION Spec
CONSTANTS
  Procs = {0, 1}
  MaxDepth = 2
INVARIANT
  AuditCountsFirst

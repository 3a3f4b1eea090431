SPECIFICATION Spec
CONSTANTS
  t1 = t1
  t2 = t2
  t3 = t3
  none = none
  NoThread = none
  ProcOf <- MCProcOf
  Threads = {t1, t2, t3}
  Procs = {t1, t2, t3}
  Handles = {"created"}
  Faults <- KnownChip
PROPERTIES
  ImplementsExclusiveChip
INVARIANTS
  ParkedBetweenSessions
  ChipInv

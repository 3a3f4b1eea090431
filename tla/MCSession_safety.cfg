SPECIFICATION Spec
CONSTANTS
  t1 = t1
  t2 = t2
  t3 = t3
  none = none
  Threads = {t1, t2, t3}
  NoThread = none
  Procs = {t1, t2, t3}
  ProcOf <- MCProcOf
  Handles = {"NULL", "created"}
  Faults <- EveryFault
SYMMETRY Symmetry
INVARIANTS
  TypeOK
  MutualExclusion
  NothingLeftBehind
  StateIsOurs
  ResyncBeforeUse
  SessionInv

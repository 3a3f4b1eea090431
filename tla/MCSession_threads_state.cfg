SPECIFICATION Spec
CONSTANTS
  t1 = t1
  t2 = t2
  t3 = t3
  none = none
  NoThread = none
  ProcOf <- MCOneProcess
  Threads = {t1, t2}
  Procs = {t1}
  Handles = {"created"}
  Faults <- NoFaults
INVARIANTS
  StateIsOurs

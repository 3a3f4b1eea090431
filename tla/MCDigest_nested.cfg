SPECIFICATION Spec
CONSTANTS
  t1 = t1
  t2 = t2
  none = none
  c1 = c1
  c2 = c2
  NoThread = none
  ProcOf <- MCProcOf
  Threads = {t1, t2}
  Procs = {t1, t2}
  Handles = {"created"}
  Faults <- DigestFaults
  Contexts = {c1, c2}
SYMMETRY Symmetry
INVARIANTS
  TypeOK
  NoSelfDeadlock
  DigestsLeaveNothing

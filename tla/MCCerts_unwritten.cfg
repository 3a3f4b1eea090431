SPECIFICATION Spec
CONSTANTS
  t1 = t1
  t2 = t2
  none = none
  NoThread = none
  ProcOf <- MCProcOf
  Threads = {t1}
  Procs = {t1}
  Handles = {"created"}
  Faults = {"release"}
  HostFaults = {}
INVARIANT SuccessMeansWritten

SPECIFICATION Spec
CONSTANTS
  t1 = t1
  t2 = t2
  none = none
  NoThread = none
  ProcOf <- MCProcOf
  Threads = {t1, t2}
  Procs = {t1, t2}
  Handles = {"created"}
  Faults <- DrawFaults
  SeedOnly = {t2}
  BlockSize = 2
  MaxRandBytes = 3
  Requests = {1, 2, 5}
INVARIANTS
  TypeOK
  SuccessFillsBuffer
  NothingLeftBehind
  ReseededInTime

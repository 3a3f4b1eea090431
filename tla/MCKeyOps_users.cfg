SPECIFICATION FairSpec
CONSTANTS
  t1 = t1
  t2 = t2
  none = none
  NoThread = none
  ProcOf <- MCProcOf
  Threads = {t1, t2}
  Procs = {t1, t2}
  Handles = {"created"}
  Faults <- SessionFaults
  Operations = {"load", "keygen"}
  Passwords = {TRUE}
  HostFaults = {"convert", "set_public_key", "derive", "atcah"}
  MaxKeys = 1
INVARIANTS
  HealthFailureIsCured
PROPERTIES
  ImplementsSessionUser
  SessionsEnd

SPECIFICATION Spec
CONSTANTS
  t1 = t1
  t2 = t2
  none = none
  NoThread = none
  ProcOf <- MCProcOf
  Threads = {t1, t2}
  Procs = {t1, t2}
  Handles = {"created"}
  Faults <- ChipFaults
  Operations = {"sign", "load", "reload", "keygen", "verify"}
  Passwords = {FALSE}
  HostFaults = {"bignum", "malloc"}
  MaxKeys = 2
SYMMETRY Symmetry
INVARIANTS
  TypeOK
  KeyStableInSession
  ResultsAreWhole
  NothingProducedIsLost
PROPERTIES
  VerdictIsTheChips

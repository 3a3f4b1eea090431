SPECIFICATION Spec
CONSTANTS
  t1 = t1
  t2 = t2
  none = none
  NoThread = none
  ProcOf <- MCProcOf
  Threads = {t1, t2}
  Procs = {t1, t2}
  Handles = {"created"}
  Faults <- SessionFaults
  HostFaults = {"memory", "open", "write", "close", "parse", "pubkey"}
SYMMETRY Symmetry
INVARIANTS
  TypeOK
  CertBuiltWithItsIssuer
  ReleasedBeforeOutput
  HandshakeGetsCertOrFailure

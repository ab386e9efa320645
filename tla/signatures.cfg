SPECIFICATION Spec
CONSTANTS
  Pids = {p1}
  Nonces = {n1, n2}
  Keys = {k1}
  Expiry = 3
  FaultSets = {{"save", "ledger"}, {"crash", "ledger"}}
  NoApproval = NoApproval
  MaxTime = 5
  MaxAccepts = 2
INVARIANTS 
  ReplayDenied
  AckedNonceKept
  SignatureSpentOnce

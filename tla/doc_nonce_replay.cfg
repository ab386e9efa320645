SPECIFICATION Spec
CONSTANTS
  Pids = {p1}
  Nonces = {n1}
  Keys = {k1}
  Expiry = 3
  FaultSets = {{"save","crash"}}
  NoApproval = NoApproval
  MaxTime = 5
  MaxAccepts = 2
INVARIANTS 
  SignatureSpentOnce

SPECIFICATION Spec
CONSTANTS
  Pids = {p1, p2}
  TTL = 1
  Expiry = 1
  FaultSets = {{"save", "ledger"}, {"crash", "load"}, {"save", "ledger", "crash", "load"}}
  NoApproval = NoApproval
  MaxTime = 2
  MaxGrants = 2
INVARIANTS
  AtMostOncePerApproval
  OneActionPerProposal
  AckedApprovalsSurvive
PROPERTIES
  DurableLockdownNeedsReset
  ExpiredNeverReturns

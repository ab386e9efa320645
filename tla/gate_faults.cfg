SPECIFICATION Spec
CONSTANTS
  Pids = {p1}
  Actors = {a1}
  Approvers = {o1}
  Allowlist = {}
  Threshold = 1
  MaxAttempts = 1
  Lockout = 2
  Expiry = 0
  LedgerRequired = TRUE
  FaultSets = {{"crash", "save", "ledger", "load"}}
  NoApproval = NoApproval
  MaxTime = 1
  MaxGrants = 2

INVARIANTS AtMostOncePerApproval DurableApprovals ThresholdLocks SpentRowsAreUsed
PROPERTIES DurableLockdownNeedsReset ImplementsOneShot

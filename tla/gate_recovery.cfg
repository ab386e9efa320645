SPECIFICATION Spec
CONSTANTS
  Pids = {p1, p2}
  Actors = {}
  Approvers = {o1}
  Allowlist = {}
  Threshold = 1
  MaxAttempts = 1
  Lockout = 2
  Expiry = 1
  LedgerRequired = TRUE
  FaultSets = {{"crash"}, {"ledger"}}
  NoApproval = NoApproval
  MaxTime = 2
  MaxGrants = 2
SYMMETRY Symmetry
INVARIANTS OneActionPerProposal AckedApprovalsSurvive DecidedStaysDecided ApprovalLoggedBeforeEffect
PROPERTIES LimitedNeverExecutes

SPECIFICATION FairSpec
CONSTANTS
  Requests = {r1, r2, r3, r4}
  Pids = {p1}
  MaxRetries = 1
  NoRecord = NoRecord
  Nobody = Nobody
INVARIANTS AckedApprovalCarriesPayload DraftsBoundedByRetries
PROPERTIES EveryRequestAnswered ImplementsOneShot
CHECK_DEADLOCK FALSE

SPECIFICATION Spec
CONSTANTS
  Brokers = {b1, b2}
  Writers = {b1}
  Pids = {p1, p2}
  Approved = {p1}
  NoApproval = NoApproval
  NoBroker = NoBroker
  MaxGrants = 1
  MaxSpends = 2
  MaxCrashes = 0
INVARIANTS ConsumedOnce

SPECIFICATION FairSpec
CONSTANTS
  Brokers = {b1, b2}
  Writers = {b1, b2}
  Pids = {p1, p2}
  Approved = {p1}
  NoApproval = NoApproval
  NoBroker = NoBroker
  MaxGrants = 2
  MaxSpends = 5
  MaxCrashes = 2
INVARIANTS SecondConsumeNeedsStaleSave OncePerProcess
PROPERTIES EveryRequestAnswered
CHECK_DEADLOCK FALSE

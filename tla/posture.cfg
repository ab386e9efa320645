SPECIFICATION WatchSpec
CONSTANTS
  Backups = 2
  Rotation = TRUE
  Keys = {k1, k2}
  FaultSets = {{"crash"}, {"rekey"}, {"crash", "error", "rotation", "loss", "rekey"}}
  NoHead = NoHead
  MaxWrites = 3
  Deployments <- MCDeployments
SYMMETRY Symmetry
INVARIANTS IntactReportIsSnapshot QuietReadIsIntact ReadyOnlyWhenOperative
PROPERTIES ImplementsChain

SPECIFICATION Spec
CONSTANTS
  Backups = 2
  Rotation = TRUE
  Keys = {k1, k2}
  FaultSets = {{"crash"}, {"rekey"}, {"crash", "error", "rotation", "loss", "rekey"}}
  NoHead = NoHead
  MaxWrites = 4
INVARIANTS HeadsFormChain HeadBehindLedger IntactMeansComplete IntactUntilPruned
PROPERTIES RecoveryExtendsIntact

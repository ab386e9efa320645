SPECIFICATION Spec
CONSTANTS
  a1 = a1
  o1 = o1
  o2 = o2
  p1 = p1
  p2 = p2
  p3 = p3
  home = home
  away = away
  NoDomain = NoDomain
  OtherCase = {"SEND"}
  None = None
  Domains <- MCDomains
  BulkLimit = 1
  Actors <- MCActors
  Approvers <- MCApprovers
  Pids <- MCPids
  Requests <- MCRequests
  Files <- MCFiles
  MaxEvents = 3
SYMMETRY Symmetry
INVARIANT DecisionsRecorded

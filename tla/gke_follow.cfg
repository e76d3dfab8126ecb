SPECIFICATION FairSpec
CONSTANTS
  p1 = p1
  p2 = p2
  g1 = g1
  Procs = {p1, p2}
  NoProc = NoProc
  Clusters = {g1}
  NoHost = NoHost
  BadCA = BadCA
  SystemRoots = SystemRoots
  History <- OffAndOn
  Remotes <- Named
  TTL = 2
  Timeout = 2
  MaxFailures = 2
INVARIANT TypeOK
INVARIANT BuiltOnce
PROPERTY StalenessBounded
PROPERTY Converges
PROPERTY NobodyStarves

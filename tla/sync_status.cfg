\* --sync-mode status: the destination object is created by somebody else.
SPECIFICATION FairSpec
CONSTANTS
  a = a  b = b  n1 = n1  r1 = r1  r2 = r2  s1 = s1  s2 = s2  r3 = r3  s3 = s3
  p1 = p1  p2 = p2  Pods = {p1}  InitPods = {p1}
  NoNs = NoNs  Local = Local  NoSyncer = NoSyncer
  Objects = {a}
  NsOf <- InN1
  Namespaces = {n1}
  Remotes = {r1}
  Watchers <- OnePull
  Workers = {1, 2}
  WatcherOf <- AllOnePull
  Syncers = {s1}
  SyncerSpecs <- StatusSpecs
  InitSyncers <- OneStatus
  MaxRules = 2
  Shapes <- AllShapes
  Down = {}
  Incomplete = {}
  MaxRev = 2
  Budget <- FaultEditCreateCrash
  SyncPeriod = FALSE
INVARIANT SuccessMeansApplied
PROPERTY NoStaleOverwrite
PROPERTY StatusModeNeverCreates
PROPERTY UpdatesReflected
PROPERTY FailuresSettle
CHECK_DEADLOCK FALSE

\* push to three remotes: one never answers, one is referenced incompletely
SPECIFICATION FairSpec
CONSTANTS
  a = a  b = b  n1 = n1  r1 = r1  r2 = r2  s1 = s1  s2 = s2  r3 = r3  s3 = s3
  p1 = p1  p2 = p2  Pods = {p1}  InitPods = {p1}
  NoNs = NoNs  Local = Local  NoSyncer = NoSyncer
  Objects = {a}
  NsOf <- ClusterScoped
  Namespaces = {n1}
  Remotes = {r1, r2, r3}
  Watchers <- OnePush
  Workers = {1}
  WatcherOf <- AllOnePush
  Syncers = {s1, s2, s3}
  SyncerSpecs <- PushSpecs
  InitSyncers <- ThreePushes
  MaxRules = 1
  Shapes <- WholeOnly
  Down = {r2}
  Incomplete = {r3}
  MaxRev = 3
  Budget <- TwoFaults
  SyncPeriod = FALSE
INVARIANTS
  TypeOK
  GaugeCountsFailing
PROPERTIES
  UpdatesReflected
  DeletionsPropagate
  FailuresSettle
CHECK_DEADLOCK FALSE

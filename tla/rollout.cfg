\* a rolling update with --sync-period: two controllers write to one destination
SPECIFICATION FairSpec
CONSTANTS
  a = a  b = b  n1 = n1  r1 = r1  r2 = r2  s1 = s1  s2 = s2  r3 = r3  s3 = s3
  p1 = p1  p2 = p2  Pods = {p1, p2}  InitPods = {p1}
  NoNs = NoNs  Local = Local  NoSyncer = NoSyncer
  Objects = {a}
  NsOf <- InN1
  Namespaces = {n1}
  Remotes = {r1}
  Watchers <- PullInEach
  Workers = {p1, p2}
  WatcherOf <- OneInEach
  Syncers = {s1}
  SyncerSpecs <- FullSpecs
  InitSyncers <- OnePaused
  MaxRules = 1
  Shapes <- NotYetReconciled
  Down = {}
  Incomplete = {}
  MaxRev = 2
  Budget <- EditRemoveRollout
  SyncPeriod = TRUE
PROPERTIES
  UpdatesReflected
CHECK_DEADLOCK FALSE

\* finding: status mode creates a stub
SPECIFICATION Spec
CONSTANTS
  a = a  b = b  n1 = n1  r1 = r1  r2 = r2  s1 = s1  s2 = s2  r3 = r3  s3 = s3
  p1 = p1  p2 = p2  Pods = {p1}  InitPods = {p1}
  NoNs = NoNs  Local = Local  NoSyncer = NoSyncer
  Objects = {a}
  NsOf <- InN1
  Namespaces = {n1}
  Remotes = {r1}
  Watchers <- OnePull
  Workers = {1}
  WatcherOf <- AllOnePull
  Syncers = {s1}
  SyncerSpecs <- StatusSpecs
  InitSyncers <- OneStatus
  MaxRules = 2
  Shapes <- WholeOnly
  Down = {}
  Incomplete = {}
  MaxRev = 1
  Budget <- CreateRemove
  SyncPeriod = FALSE
PROPERTIES
  StatusModeNeverCreates
CHECK_DEADLOCK FALSE

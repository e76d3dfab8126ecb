\* --sync-mode full: two objects of one namespace, two workers; calls fail and the
\* controller restarts.
SPECIFICATION Spec
CONSTANTS
  a = a  b = b  n1 = n1  r1 = r1  r2 = r2  s1 = s1  s2 = s2  r3 = r3  s3 = s3
  p1 = p1  p2 = p2  Pods = {p1}  InitPods = {p1}
  NoNs = NoNs  Local = Local  NoSyncer = NoSyncer
  Objects = {a, b}
  NsOf <- InN1
  Namespaces = {n1}
  Remotes = {r1}
  Watchers <- OnePull
  Workers = {1, 2}
  WatcherOf <- AllOnePull
  Syncers = {s1}
  SyncerSpecs <- FullSpecs
  InitSyncers <- OneFull
  MaxRules = 1
  Shapes <- WholeOnly
  Down = {}
  Incomplete = {}
  MaxRev = 2
  Budget <- FaultCrash
  SyncPeriod = FALSE
INVARIANTS
  FailedIsRetried
  SuccessMeansApplied
  FailureHasCause
CHECK_DEADLOCK FALSE

SPECIFICATION FairSpec
CONSTANTS
  s1 = s1
  s2 = s2  r3 = r3  s3 = s3
  local = local
  r1 = r1
  Syncers = {s1, s2}
  NoSyncer = NoSyncer
  Local = local
  Remotes = {r1}
  NoKey = NoKey
  SyncerSpecs <- AllSpecs
  InitSyncers <- FirstPulls
  Resources <- Catalog
  InitServed <- ServeTopics
  Budget <- Disturbed
  SyncPeriod = TRUE
INVARIANT SuccessMeansWatched
INVARIANT FailedIsRetried
INVARIANT GaugeCountsFailing
PROPERTY RulesWatched
PROPERTY SetupSettles
CHECK_DEADLOCK FALSE

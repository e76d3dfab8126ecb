-------------------------- MODULE SyncerSetupProofs --------------------------
(****************************************************************************)
(* What the setup controller guarantees for any KRMSyncers, rules, clusters *)
(* and resources, and any amount of interference.                           *)
(****************************************************************************)
EXTENDS SyncerSetup, RulesProofs, FiniteSetTheorems, TLAPS

FTP == INSTANCE FailureTrackerProofs WITH
         Trackers <- {"setup"}, Keys <- Syncers, Gauges <- {"syncer_setup_failed"},
         GaugeOf <- [t \in {"setup"} |-> "syncer_setup_failed"]

Specs == SyncerSpecs \cup {NoSyncer}
Conditions == {"Active", "Suspended", "InvalidRule"}

\* every kind that a rule names or discovery may list
Kinds ==
  {GVK(r) : r \in Resources}
    \cup UNION {{GVK(spec.rules[n]) : n \in DOMAIN spec.rules} : spec \in SyncerSpecs}
Targets == (Clusters \cup {NoKey}) \X Kinds

Attempts ==
  [pc : {"idle", "get", "discover", "rule", "watch", "status"}, key : Syncers, spec : Specs,
   conds : SUBSET Conditions, found : SUBSET Resources, rule : Nat \ {0},
   todo : SUBSET Targets, err : BOOLEAN, fresh : BOOLEAN]

\* the phases in which the attempt has read its KRMSyncer
SetupPhases == {"discover", "rule", "watch", "status"}

SetupTypeOK ==
  /\ syncers \in [Syncers -> Specs]
  /\ conds \in [Syncers -> SUBSET Conditions]
  /\ served \in [Clusters -> SUBSET Resources]
  /\ queue \in Queues(Syncers)
  /\ cur \in Attempts
  /\ cur.pc \in SetupPhases => cur.spec \in SyncerSpecs
  /\ cur.pc = "discover" => ~cur.spec.suspend
  /\ failed \in [{"setup"} -> SUBSET Syncers]
------------------------------------------------------------------------------
(****************************************************************************)
(* Types.                                                                   *)
(****************************************************************************)

LEMMA IdleType == Idle \in Attempts /\ Idle.pc = "idle" /\ Idle.rule = 1
<1>1. (CHOOSE s \in Syncers : TRUE) \in Syncers
  BY SetupAssumption
<1> QED BY <1>1 DEF Idle, Attempts, Specs

LEMMA QueueOps ==
  ASSUME NEW q \in Queues(Syncers), NEW s \in Syncers
  PROVE  /\ Add(q, s) \in Queues(Syncers)
         /\ Take(q, s) \in Queues(Syncers)
         /\ Done(q, s) \in Queues(Syncers)
         /\ Retry(q, s) \in Queues(Syncers)
         /\ Expire(q, s) \in Queues(Syncers)
BY DEF Queues, Add, Take, Done, Retry, Expire

\* the watchers of a rule are targets
LEMMA WatchersType ==
  ASSUME NEW spec \in SyncerSpecs, NEW n \in DOMAIN spec.rules,
         NEW resources \in SUBSET Resources
  PROVE  WatchersOf(spec, spec.rules[n], resources) \in SUBSET Targets
<1>1. SourceOf(spec) \in Clusters \cup {NoKey}
  BY SetupAssumption DEF SourceOf, Clusters
<1>2. GVK(spec.rules[n]) \in Kinds
  BY DEF Kinds
<1>3. \A r \in Resources : GVK(r) \in Kinds
  BY DEF Kinds
<1>4. expandRule(spec.rules[n], resources) \subseteq Kinds
  BY <1>2, <1>3 DEF expandRule
<1> QED BY <1>1, <1>4 DEF WatchersOf, Targets

LEMMA MarkType ==
  ASSUME failed \in [{"setup"} -> SUBSET Syncers], NEW s \in Syncers,
         FT!markFailed("setup", s) \/ FT!markSucceeded("setup", s) \/ UNCHANGED trackVars
  PROVE  failed' \in [{"setup"} -> SUBSET Syncers]
BY DEF FT!markFailed, FT!markSucceeded, FT!trackerVars, trackVars

\* what each step makes of the attempt
LEMMA CurType ==
  ASSUME SetupTypeOK, Next
  PROVE  /\ cur' \in Attempts
         /\ cur'.pc \in SetupPhases => cur'.spec \in SyncerSpecs
         /\ cur'.pc = "discover" => ~cur'.spec.suspend
<1> USE DEF SetupPhases
<1>0. /\ cur \in Attempts /\ syncers \in [Syncers -> Specs]
      /\ cur.pc \in SetupPhases => cur.spec \in SyncerSpecs
  BY DEF SetupTypeOK
<1>1. CASE cur' = Idle
  BY <1>1, IdleType
<1>2. ASSUME NEW s \in Syncers, TakeItem(s)
      PROVE  cur' \in Attempts /\ cur'.pc = "get"
  BY <1>2, IdleType DEF TakeItem, Attempts
<1>3. CASE GetSyncer
  <2> DEFINE spec == syncers[cur.key]
  <2>1. spec \in Specs /\ conds[cur.key] \in SUBSET Conditions
    BY <1>0 DEF Attempts, SetupTypeOK
  <2>2. CASE spec = NoSyncer
    BY <1>1, <1>3, <2>2 DEF GetSyncer, Return
  <2>3. CASE spec # NoSyncer /\ spec.suspend
    <3>1. cur' = [cur EXCEPT !.pc = "status", !.spec = spec,
                             !.conds = conds[cur.key] \cup {"Suspended"}]
      BY <1>3, <2>3 DEF GetSyncer
    <3>2. spec \in SyncerSpecs
      BY <2>1, <2>3 DEF Specs
    <3> HIDE DEF spec
    <3> QED BY <1>0, <2>1, <3>1, <3>2 DEF Attempts, Conditions
  <2>4. CASE spec # NoSyncer /\ ~spec.suspend
    <3>1. PICK ph \in {"discover", "rule"} :
            cur' = [cur EXCEPT !.pc = ph, !.spec = spec, !.conds = conds[cur.key] \cup {"Active"}]
      BY <1>3, <2>4 DEF GetSyncer
    <3>2. spec \in SyncerSpecs
      BY <2>1, <2>4 DEF Specs
    <3> HIDE DEF spec
    <3> QED BY <1>0, <2>1, <2>4, <3>1, <3>2 DEF Attempts, Conditions
  <2> QED BY <2>2, <2>3, <2>4
<1>4. CASE GetFails
  BY <1>1, <1>4 DEF GetFails, Return
<1>5. CASE Discover \/ DiscoverSome
  <2>1. cur.spec \in SyncerSpecs /\ cur.pc = "discover" /\ SourceOf(cur.spec) # NoKey
    BY <1>0, <1>5 DEF Discover, DiscoverSome
  <2>2. SourceOf(cur.spec) \in Clusters
    BY <2>1, SetupAssumption DEF SourceOf, Clusters
  <2>3. served[SourceOf(cur.spec)] \in SUBSET Resources
    BY <2>2 DEF SetupTypeOK
  <2>4. PICK found \in SUBSET Resources : cur' = [cur EXCEPT !.pc = "rule", !.found = found]
    BY <1>5, <2>3 DEF Discover, DiscoverSome
  <2> QED BY <1>0, <2>1, <2>4 DEF Attempts
<1>6. CASE DiscoverFails
  BY <1>0, <1>6 DEF DiscoverFails, EndSetup, Attempts
<1>7. CASE ExpandRule
  <2>1. CASE validateRule(cur.spec.rules[cur.rule])
    <3> DEFINE T == WatchersOf(cur.spec, cur.spec.rules[cur.rule], cur.found)
    <3>1. T \in SUBSET Targets
      BY <1>0, <1>7, WatchersType DEF ExpandRule, Attempts
    <3>2. cur' = [cur EXCEPT !.pc = "watch", !.todo = T]
      BY <1>7, <2>1 DEF ExpandRule
    <3>3. cur.pc = "rule"
      BY <1>7 DEF ExpandRule
    <3> HIDE DEF T
    <3>4. cur' \in Attempts
      BY <1>0, <3>1, <3>2 DEF Attempts
    <3>5. cur'.pc = "watch" /\ cur'.spec = cur.spec
      BY <1>0, <3>2 DEF Attempts
    <3> QED BY <1>0, <3>3, <3>4, <3>5
  <2>2. CASE ~validateRule(cur.spec.rules[cur.rule])
    <3>1. cur' = [cur EXCEPT !.err = TRUE, !.conds = @ \cup {"InvalidRule"}, !.pc = "status"]
      BY <1>7, <2>2 DEF ExpandRule, EndSetup
    <3>2. cur.pc = "rule"
      BY <1>7 DEF ExpandRule
    <3> QED BY <1>0, <3>1, <3>2 DEF Attempts, Conditions
  <2> QED BY <2>1, <2>2
<1>8. ASSUME NEW w, StartWatch(w) \/ SkipWatch(w) \/ WatchFails(w)
      PROVE  cur' \in Attempts /\ cur'.pc = "watch" /\ cur'.spec = cur.spec /\ cur.pc = "watch"
  <2> DEFINE T == cur.todo \ {w}
  <2>1. T \in SUBSET Targets
    BY <1>0 DEF Attempts
  <2>2. cur' = [cur EXCEPT !.todo = T] \/ cur' = [cur EXCEPT !.todo = T, !.err = TRUE]
    BY <1>8 DEF StartWatch, SkipWatch, WatchFails
  <2>3. cur.pc = "watch"
    BY <1>8 DEF StartWatch, SkipWatch, WatchFails
  <2> HIDE DEF T
  <2>4. cur' \in Attempts
    BY <1>0, <2>1, <2>2 DEF Attempts
  <2> QED BY <1>0, <2>2, <2>3, <2>4 DEF Attempts
<1>9. CASE NextRule
  <2> DEFINE n == cur.rule + 1
  <2>1. n \in Nat \ {0}
    BY <1>0 DEF Attempts
  <2>2. cur' = [cur EXCEPT !.pc = "rule", !.rule = n] /\ cur.pc = "watch"
    BY <1>9 DEF NextRule
  <2> HIDE DEF n
  <2>3. cur' \in Attempts
    BY <1>0, <2>1, <2>2 DEF Attempts
  <2>4. cur'.pc = "rule" /\ cur'.spec = cur.spec
    BY <1>0, <2>2 DEF Attempts
  <2> QED BY <1>0, <2>2, <2>3, <2>4
<1>10. CASE FinishSetup
  BY <1>0, <1>10 DEF FinishSetup, EndSetup, Attempts
<1>11. CASE UpdateStatus
  BY <1>1, <1>11 DEF UpdateStatus, Return
<1>12. ASSUME NEW s, NEW spec, EditSyncer(s, spec)
       PROVE  cur' \in Attempts /\ cur'.pc = cur.pc /\ cur'.spec = cur.spec
  BY <1>0, <1>12 DEF EditSyncer, Attempts
<1>13. CASE Crash
  BY <1>1, <1>13 DEF Crash
<1>14. CASE UNCHANGED cur
  BY <1>0, <1>14 DEF SetupTypeOK
<1> QED BY <1>0, <1>2, <1>3, <1>4, <1>5, <1>6, <1>7, <1>8, <1>9, <1>10, <1>11, <1>12, <1>13, <1>14
      DEF Next, Reconcile, Environment, BackoffExpires, Resync, Serve, SetupTypeOK

\* the outcome of an attempt, and the status update that may follow it
LEMMA OutcomeType ==
  ASSUME SetupTypeOK
  PROVE  /\ Outcome \in Queues(Syncers)
         /\ Add(Outcome, cur.key) \in Queues(Syncers)
BY QueueOps DEF SetupTypeOK, Outcome, Attempts

LEMMA StepKeepsTypes ==
  ASSUME SetupTypeOK, [Next]_vars
  PROVE  SetupTypeOK'
<1>1. CASE UNCHANGED vars
  BY <1>1 DEF vars, SetupTypeOK
<1>2. CASE Next
  <2>0. cur.key \in Syncers /\ queue \in Queues(Syncers)
    BY DEF SetupTypeOK, Attempts
  <2>1. syncers' \in [Syncers -> Specs]
    BY <1>2 DEF SetupTypeOK, Specs, Next, TakeItem, BackoffExpires, Resync, Reconcile, GetSyncer,
       GetFails, Discover, DiscoverSome, DiscoverFails, ExpandRule, NextRule, FinishSetup,
       UpdateStatus, StartWatch, SkipWatch, WatchFails, Environment, EditSyncer, Serve, Crash,
       clusterVars
  <2>2. served' \in [Clusters -> SUBSET Resources]
    BY <1>2 DEF SetupTypeOK, Next, TakeItem, BackoffExpires, Resync, Reconcile, GetSyncer,
       GetFails, Discover, DiscoverSome, DiscoverFails, ExpandRule, NextRule, FinishSetup,
       UpdateStatus, StartWatch, SkipWatch, WatchFails, Environment, EditSyncer, Serve, Crash,
       clusterVars
  <2>3. conds' \in [Syncers -> SUBSET Conditions]
    <3>1. CASE UpdateStatus
      BY <3>1 DEF UpdateStatus, SetupTypeOK, Attempts
    <3>2. CASE Environment
      BY <3>2 DEF Environment, EditSyncer, Serve, Crash, clusterVars, SetupTypeOK
    <3> QED BY <1>2, <3>1, <3>2 DEF SetupTypeOK, Next, TakeItem, BackoffExpires, Resync,
         Reconcile, GetSyncer, GetFails, Discover, DiscoverSome, DiscoverFails, ExpandRule,
         NextRule, FinishSetup, StartWatch, SkipWatch, WatchFails, clusterVars
  <2>4. queue' \in Queues(Syncers)
    <3>1. CASE Crash
      BY <3>1 DEF Crash, EmptyQueue, Queues
    <3>2. CASE UpdateStatus
      BY <3>2, OutcomeType DEF UpdateStatus, Return
    <3>3. ASSUME NEW s \in Syncers, TakeItem(s) \/ BackoffExpires(s) \/ Resync(s)
          PROVE  queue' \in Queues(Syncers)
      BY <2>0, <3>3, QueueOps DEF TakeItem, BackoffExpires, Resync
    <3>4. ASSUME NEW s \in Syncers, NEW spec, EditSyncer(s, spec)
          PROVE  queue' \in Queues(Syncers)
      BY <2>0, <3>4, QueueOps DEF EditSyncer
    <3>5. CASE GetSyncer \/ GetFails
      BY <2>0, <3>5, QueueOps DEF GetSyncer, GetFails, Return
    <3>6. CASE UNCHANGED queue
      BY <2>0, <3>6
    <3> QED BY <1>2, <3>1, <3>2, <3>3, <3>4, <3>5, <3>6 DEF Next, Reconcile, Discover,
         DiscoverSome, DiscoverFails, ExpandRule, NextRule, FinishSetup, StartWatch, SkipWatch,
         WatchFails, Environment, Serve
  <2>5. failed' \in [{"setup"} -> SUBSET Syncers]
    <3>1. CASE Crash
      BY <3>1 DEF Crash, FT!TrackerRestart
    <3>2. CASE DiscoverFails \/ ExpandRule \/ FinishSetup
      <4>1. \A a : EndSetup(a) => FT!markFailed("setup", a.key) \/ FT!markSucceeded("setup", a.key)
        BY DEF EndSetup
      <4>2. /\ [cur EXCEPT !.err = TRUE].key = cur.key
            /\ [cur EXCEPT !.err = TRUE, !.conds = @ \cup {"InvalidRule"}].key = cur.key
        BY DEF SetupTypeOK, Attempts
      <4>3. \/ FT!markFailed("setup", cur.key) \/ FT!markSucceeded("setup", cur.key)
            \/ UNCHANGED trackVars
        BY <3>2, <4>1, <4>2 DEF DiscoverFails, ExpandRule, FinishSetup
      <4> QED BY <2>0, <4>3, MarkType DEF SetupTypeOK
    <3> QED BY <1>2, <2>0, <3>1, <3>2, MarkType DEF SetupTypeOK, Next, TakeItem, BackoffExpires,
         Resync, Reconcile, GetSyncer, GetFails, Discover, DiscoverSome, NextRule,
         UpdateStatus, StartWatch, SkipWatch, WatchFails, Environment, EditSyncer, Serve
  <2> QED BY <1>2, <2>1, <2>2, <2>3, <2>4, <2>5, CurType DEF SetupTypeOK
<1> QED BY <1>1, <1>2

LEMMA InitTyped == Init => SetupTypeOK
BY IdleType, SetupAssumption DEF Init, SetupTypeOK, SetupPhases, Specs, EmptyQueue, Queues,
   FT!TrackerInit

\* the type invariant of the setup controller
LEMMA SetupTypes == Spec => []SetupTypeOK
BY InitTyped, StepKeepsTypes, PTL DEF Spec
------------------------------------------------------------------------------
(****************************************************************************)
(* A setup that reports success has started every watcher.                  *)
(****************************************************************************)

\* the watchers of the rules before rule n run
WatchedBefore(n) ==
  \A m \in DOMAIN cur.spec.rules :
    m < n => WatchersOf(cur.spec, cur.spec.rules[m], cur.found) \subseteq controllers

\* What an attempt has achieved when it is at a step: no target is dropped unless it
\* is watched or an error is remembered.
SetupProgress ==
  /\ watched = controllers
  /\ cur.pc \in {"get", "discover"} => cur.rule = 1
  /\ cur.pc = "rule" => cur.err \/ WatchedBefore(cur.rule)
  /\ cur.pc = "watch" =>
       \/ cur.err
       \/ /\ WatchedBefore(cur.rule)
          /\ cur.rule \in DOMAIN cur.spec.rules
          /\ WatchersOf(cur.spec, cur.spec.rules[cur.rule], cur.found)
               \subseteq controllers \cup cur.todo
  /\ cur.pc = "status" => \/ cur.err \/ cur.spec.suspend
                          \/ \A n \in Nat : WatchedBefore(n)

LEMMA InitProgress == Init => SetupProgress
BY IdleType DEF Init, SetupProgress

\* the attempt and what runs stay as they are
LEMMA ProgressSame ==
  ASSUME SetupProgress, UNCHANGED watchVars,
         cur'.pc = cur.pc, cur'.err = cur.err, cur'.rule = cur.rule, cur'.spec = cur.spec,
         cur'.found = cur.found, cur'.todo = cur.todo
  PROVE  SetupProgress'
BY DEF SetupProgress, WatchedBefore, watchVars

LEMMA ProgressIdle ==
  ASSUME cur'.pc = "idle", watched' = controllers'
  PROVE  SetupProgress'
BY DEF SetupProgress

LEMMA ProgressStep ==
  ASSUME SetupTypeOK, SetupProgress, [Next]_vars
  PROVE  SetupProgress'
<1>0. cur \in Attempts
  BY DEF SetupTypeOK
<1>a. watched = controllers
  BY DEF SetupProgress
<1>1. ASSUME NEW s \in Syncers, TakeItem(s) PROVE SetupProgress'
  <2>1. cur'.pc = "get" /\ cur'.rule = 1
    BY <1>1, IdleType DEF TakeItem, Attempts
  <2> QED BY <1>1, <1>a, <2>1 DEF TakeItem, SetupProgress, watchVars
<1>2. CASE GetSyncer
  <2>1. UNCHANGED watchVars /\ cur.rule = 1
    BY <1>2 DEF GetSyncer, SetupProgress
  <2>2. \/ cur'.pc = "idle"
        \/ cur'.pc = "status" /\ cur'.spec.suspend
        \/ cur'.pc \in {"discover", "rule"} /\ cur'.rule = 1
    BY <1>0, <1>2, <2>1, IdleType DEF GetSyncer, Return, Attempts
  <2>3. \A m \in DOMAIN cur'.spec.rules : cur'.pc \in {"discover", "rule"} => ~(m < 1)
    <3>1. cur'.pc \in {"discover", "rule"} => cur'.spec \in SyncerSpecs
      BY <1>2, CurType DEF Next, Reconcile, SetupPhases
    <3> QED BY <3>1, SetupAssumption
  <2> QED BY <1>a, <2>1, <2>2, <2>3 DEF SetupProgress, WatchedBefore, watchVars
<1>3. CASE Discover \/ DiscoverSome
  <2>1. UNCHANGED watchVars /\ cur.rule = 1 /\ cur.pc = "discover"
    BY <1>3 DEF Discover, DiscoverSome, SetupProgress
  <2>2. cur'.pc = "rule" /\ cur'.rule = 1 /\ cur'.spec = cur.spec
    BY <1>0, <1>3, <2>1 DEF Discover, DiscoverSome, Attempts
  <2>3. \A m \in DOMAIN cur.spec.rules : ~(m < 1)
    BY <2>1, SetupAssumption DEF SetupTypeOK, SetupPhases
  <2> QED BY <1>a, <2>1, <2>2, <2>3 DEF SetupProgress, WatchedBefore, watchVars
<1>4. CASE DiscoverFails
  <2>1. cur'.pc = "status" /\ cur'.err /\ UNCHANGED watchVars
    BY <1>0, <1>4 DEF DiscoverFails, EndSetup, Attempts
  <2> QED BY <1>a, <2>1 DEF SetupProgress, watchVars
<1>5. CASE ExpandRule
  <2>1. UNCHANGED watchVars /\ cur.pc = "rule" /\ cur.rule \in DOMAIN cur.spec.rules
    BY <1>5 DEF ExpandRule
  <2>2. CASE validateRule(cur.spec.rules[cur.rule])
    <3> DEFINE T == WatchersOf(cur.spec, cur.spec.rules[cur.rule], cur.found)
    <3>1. cur' = [cur EXCEPT !.pc = "watch", !.todo = T]
      BY <1>5, <2>2 DEF ExpandRule
    <3> HIDE DEF T
    <3>2. /\ cur'.pc = "watch" /\ cur'.todo = T /\ cur'.rule = cur.rule /\ cur'.spec = cur.spec
          /\ cur'.found = cur.found /\ cur'.err = cur.err
      BY <1>0, <3>1 DEF Attempts
    <3> QED BY <1>a, <2>1, <3>2 DEF SetupProgress, WatchedBefore, watchVars, T
  <2>3. CASE ~validateRule(cur.spec.rules[cur.rule])
    <3>1. cur'.pc = "status" /\ cur'.err
      BY <1>0, <1>5, <2>3 DEF ExpandRule, EndSetup, Attempts
    <3> QED BY <1>a, <2>1, <3>1 DEF SetupProgress, watchVars
  <2> QED BY <2>2, <2>3
<1>6. ASSUME NEW w, StartWatch(w) \/ SkipWatch(w) \/ WatchFails(w) PROVE SetupProgress'
  <2>1. /\ cur.pc = "watch" /\ watched' = controllers' /\ controllers \subseteq controllers'
        /\ w \in controllers' \/ cur'.err
    BY <1>0, <1>6, <1>a DEF StartWatch, SkipWatch, WatchFails, RecordWatch, watchVars, Attempts
  <2>2. /\ cur'.pc = "watch" /\ cur'.todo = cur.todo \ {w} /\ cur'.rule = cur.rule
        /\ cur'.spec = cur.spec /\ cur'.found = cur.found /\ (cur.err => cur'.err)
    BY <1>0, <1>6, <2>1 DEF StartWatch, SkipWatch, WatchFails, Attempts
  <2> DEFINE T == WatchersOf(cur.spec, cur.spec.rules[cur.rule], cur.found)
  <2>3. cur'.err \/ (WatchedBefore(cur.rule) /\ T \subseteq controllers \cup cur.todo)
    BY <2>1, <2>2 DEF SetupProgress
  <2>4. cur'.err \/ (WatchedBefore(cur.rule)' /\ T \subseteq controllers' \cup cur'.todo)
    <3>1. WatchedBefore(cur.rule) => WatchedBefore(cur.rule)'
      BY <2>1, <2>2 DEF WatchedBefore
    <3>2. T \subseteq controllers \cup cur.todo => cur'.err \/ T \subseteq controllers' \cup cur'.todo
      <4> HIDE DEF T
      <4> QED BY <2>1, <2>2
    <3> QED BY <2>3, <3>1, <3>2
  <2>5. cur'.err \/ cur'.rule \in DOMAIN cur'.spec.rules
    BY <2>1, <2>2 DEF SetupProgress
  <2>6. T = WatchersOf(cur'.spec, cur'.spec.rules[cur'.rule], cur'.found)
    BY <2>2
  <2> HIDE DEF T
  <2> QED BY <2>1, <2>2, <2>4, <2>5, <2>6 DEF SetupProgress
<1>7. CASE NextRule
  <2>1. UNCHANGED watchVars /\ cur.pc = "watch" /\ cur.todo = {}
    BY <1>7 DEF NextRule
  <2> DEFINE n == cur.rule + 1
  <2>2. cur' = [cur EXCEPT !.pc = "rule", !.rule = n]
    BY <1>7 DEF NextRule
  <2> HIDE DEF n
  <2>3. /\ cur'.pc = "rule" /\ cur'.rule = n /\ cur'.spec = cur.spec
        /\ cur'.found = cur.found /\ cur'.err = cur.err
    BY <1>0, <2>2 DEF Attempts
  <2>4. cur.rule \in Nat /\ DOMAIN cur.spec.rules \subseteq Nat
    BY <1>0, <2>1, SetupAssumption DEF Attempts, SetupTypeOK, SetupPhases
  <2>5. \A m \in DOMAIN cur.spec.rules : m < n => m < cur.rule \/ m = cur.rule
    BY <2>4 DEF n
  <2> QED BY <1>a, <2>1, <2>3, <2>5 DEF SetupProgress, WatchedBefore, watchVars
<1>8. CASE FinishSetup
  <2>1. /\ UNCHANGED watchVars /\ cur.pc = "rule" /\ cur.rule \notin DOMAIN cur.spec.rules
        /\ cur' = [cur EXCEPT !.pc = "status"]
    BY <1>8 DEF FinishSetup, EndSetup
  <2>2. /\ cur'.pc = "status" /\ cur'.spec = cur.spec
        /\ cur'.found = cur.found /\ cur'.err = cur.err
    BY <1>0, <2>1 DEF Attempts
  <2>3. \E k \in Nat : DOMAIN cur.spec.rules = 1..k
    BY <2>1, SetupAssumption DEF SetupTypeOK, SetupPhases
  <2>4. cur.rule \in Nat \ {0}
    BY <1>0 DEF Attempts
  <2>5. ASSUME WatchedBefore(cur.rule), NEW n \in Nat PROVE WatchedBefore(n)'
    <3>1. \A m \in DOMAIN cur.spec.rules : m < cur.rule
      <4>1. PICK k \in Nat : DOMAIN cur.spec.rules = 1..k
        BY <2>3
      <4> QED BY <2>1, <2>4, <4>1
    <3> QED BY <2>1, <2>2, <2>5, <3>1 DEF WatchedBefore, watchVars
  <2> QED BY <1>a, <2>1, <2>2, <2>5 DEF SetupProgress, watchVars
<1>9. CASE GetFails \/ UpdateStatus
  BY <1>9, <1>a, IdleType, ProgressIdle DEF GetFails, UpdateStatus, Return, watchVars
<1>10. CASE Crash
  BY <1>10, IdleType, ProgressIdle DEF Crash
<1>11. ASSUME NEW s, NEW spec, EditSyncer(s, spec) PROVE SetupProgress'
  <2>1. /\ cur'.pc = cur.pc /\ cur'.err = cur.err /\ cur'.rule = cur.rule /\ cur'.spec = cur.spec
        /\ cur'.found = cur.found /\ cur'.todo = cur.todo /\ UNCHANGED watchVars
    BY <1>0, <1>11 DEF EditSyncer, Attempts
  <2> QED BY <2>1, ProgressSame
<1>12. CASE UNCHANGED <<cur, watchVars>>
  BY <1>12, ProgressSame
<1> QED BY <1>1, <1>2, <1>3, <1>4, <1>5, <1>6, <1>7, <1>8, <1>9, <1>10, <1>11, <1>12
      DEF Next, Reconcile, Environment, BackoffExpires, Resync, Serve, vars, watchVars

\* When a setup attempt ends without error, every kind of the source that the
\* rules would sync and every kind that a rule names has a watcher that runs:
\* whatever failed, changed or was restarted on the way.
THEOREM SetupSuccessMeansWatched == Spec => []SuccessMeansWatched
<1>1. ASSUME SetupTypeOK, SetupProgress PROVE SuccessMeansWatched
  <2> SUFFICES ASSUME cur.pc = "status", ~cur.err, ~cur.spec.suspend,
                      NEW n \in DOMAIN cur.spec.rules
               PROVE  LET rule == cur.spec.rules[n]
                          synced == {GVK(r) : r \in {x \in cur.found :
                                       ~x.subresource /\ ruleMatchesGVK(rule, GVK(x))}}
                          named == IF HasGlob(rule) THEN {} ELSE {GVK(rule)}
                      IN  {SourceOf(cur.spec)} \X (synced \cup named) \subseteq controllers
    BY DEF SuccessMeansWatched
  <2> DEFINE rule == cur.spec.rules[n]
             selected == expandRule(rule, cur.found)
  <2>1. {SourceOf(cur.spec)} \X selected \subseteq controllers
    <3>1. n \in Nat
      BY <1>1, SetupAssumption DEF SetupTypeOK, SetupPhases
    <3>2. n + 1 \in Nat /\ n < n + 1
      BY <3>1
    <3>3. WatchedBefore(n + 1)
      BY <1>1, <3>2 DEF SetupProgress
    <3> QED BY <3>2, <3>3 DEF WatchedBefore, WatchersOf
  <2>2. \A x \in cur.found : ~x.subresource /\ ruleMatchesGVK(rule, GVK(x)) => GVK(x) \in selected
    BY RuleReadingsAgree
  <2>3. ~HasGlob(rule) => GVK(rule) \in selected
    BY DEF HasGlob, HasStar, IsKCCGlob, expandRule
  <2> HIDE DEF rule, selected
  <2>4. {GVK(r) : r \in {x \in cur.found : ~x.subresource /\ ruleMatchesGVK(rule, GVK(x))}}
          \cup (IF HasGlob(rule) THEN {} ELSE {GVK(rule)}) \subseteq selected
    BY <2>2, <2>3
  <2>5. {SourceOf(cur.spec)} \X
          ({GVK(r) : r \in {x \in cur.found : ~x.subresource /\ ruleMatchesGVK(rule, GVK(x))}}
             \cup (IF HasGlob(rule) THEN {} ELSE {GVK(rule)})) \subseteq controllers
    BY <2>1, <2>4
  <2> QED BY <2>5 DEF rule
<1>2. SetupTypeOK /\ SetupProgress /\ [Next]_vars => SetupProgress'
  BY ProgressStep
<1> QED BY <1>1, <1>2, InitProgress, SetupTypes, PTL DEF Spec
------------------------------------------------------------------------------
(****************************************************************************)
(* A failed setup is tried again.                                           *)
(****************************************************************************)

\* The key of a running attempt is held by the queue, and an attempt that is about
\* to return no error has cleared its key: nothing else takes a key out for good.
RetryInv ==
  /\ cur.pc # "idle" => cur.key \in queue.processing
  /\ cur.pc = "status" /\ ~cur.err => cur.key \notin failed["setup"]
  /\ FailedIsRetried

LEMMA ScheduledOps ==
  ASSUME NEW q \in Queues(Syncers), NEW s \in Syncers
  PROVE  /\ Scheduled(q) \subseteq Scheduled(Add(q, s))
         /\ Scheduled(q) \subseteq Scheduled(Take(q, s))
         /\ Scheduled(q) \subseteq Scheduled(Retry(q, s))
         /\ Scheduled(q) \subseteq Scheduled(Expire(q, s))
         /\ Scheduled(q) \ {s} \subseteq Scheduled(Done(q, s))
         /\ Add(q, s).processing = q.processing
         /\ Expire(q, s).processing = q.processing
         /\ s \in Take(q, s).processing
BY DEF Queues, Scheduled, Add, Take, Retry, Expire, Done

\* what a recorded outcome does to the set of failing KRMSyncers
LEMMA MarkEffect ==
  ASSUME SetupTypeOK, NEW s \in Syncers
  PROVE  /\ FT!markFailed("setup", s) => failed'["setup"] = failed["setup"] \cup {s}
         /\ FT!markSucceeded("setup", s) => failed'["setup"] = failed["setup"] \ {s}
BY DEF SetupTypeOK, FT!markFailed, FT!markSucceeded, FT!trackerVars

LEMMA InitRetry == Init => RetryInv
BY IdleType DEF Init, RetryInv, FailedIsRetried, FT!TrackerInit

\* a step that keeps the attempt where it is, or moves it on without ending it
LEMMA RetryKept ==
  ASSUME RetryInv, UNCHANGED failed,
         cur'.key = cur.key, cur.pc # "idle" \/ cur'.pc = cur.pc, cur'.err = cur.err,
         cur'.pc = "status" => cur.pc = "status",
         queue.processing \subseteq queue'.processing, Scheduled(queue) \subseteq Scheduled(queue')
  PROVE  RetryInv'
BY DEF RetryInv, FailedIsRetried

LEMMA RetryStep ==
  ASSUME SetupTypeOK, RetryInv, [Next]_vars
  PROVE  RetryInv'
<1>0. cur \in Attempts /\ cur.key \in Syncers /\ queue \in Queues(Syncers)
  BY DEF SetupTypeOK, Attempts
<1>1. ASSUME NEW s \in Syncers, TakeItem(s) PROVE RetryInv'
  <2>1. cur'.pc = "get" /\ cur'.key = s /\ UNCHANGED failed /\ queue' = Take(queue, s)
    BY <1>1, IdleType DEF TakeItem, trackVars, Attempts
  <2> QED BY <1>0, <2>1, ScheduledOps DEF RetryInv, FailedIsRetried
<1>2. CASE GetSyncer
  <2>0. cur.pc = "get" /\ cur.key \in queue.processing
    BY <1>2 DEF GetSyncer, RetryInv
  <2>1. CASE syncers[cur.key] = NoSyncer
    <3>1. cur' = Idle /\ queue' = Done(queue, cur.key) /\ FT!markSucceeded("setup", cur.key)
      BY <1>2, <2>1 DEF GetSyncer, Return
    <3>2. failed'["setup"] = failed["setup"] \ {cur.key}
      BY <1>0, <3>1, MarkEffect
    <3> QED BY <1>0, <3>1, <3>2, IdleType, ScheduledOps DEF RetryInv, FailedIsRetried
  <2>2. CASE syncers[cur.key] # NoSyncer /\ syncers[cur.key].suspend
    <3>1. FT!markSucceeded("setup", cur.key) /\ UNCHANGED queue /\ cur'.key = cur.key
      BY <1>0, <1>2, <2>2 DEF GetSyncer, Attempts
    <3>2. failed'["setup"] = failed["setup"] \ {cur.key}
      BY <1>0, <3>1, MarkEffect
    <3> QED BY <2>0, <3>1, <3>2 DEF RetryInv, FailedIsRetried
  <2>3. CASE syncers[cur.key] # NoSyncer /\ ~syncers[cur.key].suspend
    <3>1. cur'.pc \in {"discover", "rule"} /\ cur'.key = cur.key /\ cur'.err = cur.err
      BY <1>0, <1>2, <2>3 DEF GetSyncer, Attempts
    <3>2. UNCHANGED <<queue, failed>>
      BY <1>2, <2>3 DEF GetSyncer, trackVars
    <3> QED BY <2>0, <3>1, <3>2, RetryKept
  <2> QED BY <2>1, <2>2, <2>3
<1>3. CASE GetFails
  BY <1>0, <1>3, IdleType, ScheduledOps DEF GetFails, Return, trackVars, RetryInv, FailedIsRetried
<1>4. CASE DiscoverFails \/ ExpandRule \/ FinishSetup
  <2>1. cur.pc # "idle" /\ cur.key \in queue.processing /\ UNCHANGED queue
    BY <1>4 DEF DiscoverFails, ExpandRule, FinishSetup, RetryInv
  <2>2. ASSUME NEW a \in Attempts, a.key = cur.key, EndSetup(a) PROVE RetryInv'
    <3>1. cur'.key = cur.key /\ cur'.err = a.err
      BY <2>2 DEF EndSetup, Attempts
    <3>2. failed'["setup"] = IF a.err THEN failed["setup"] \cup {cur.key}
                                      ELSE failed["setup"] \ {cur.key}
      BY <1>0, <2>2, MarkEffect DEF EndSetup
    <3> QED BY <2>1, <3>1, <3>2 DEF RetryInv, FailedIsRetried, Scheduled
  <2>3. /\ [cur EXCEPT !.err = TRUE] \in Attempts
        /\ [cur EXCEPT !.err = TRUE].key = cur.key
        /\ [cur EXCEPT !.err = TRUE, !.conds = @ \cup {"InvalidRule"}] \in Attempts
        /\ [cur EXCEPT !.err = TRUE, !.conds = @ \cup {"InvalidRule"}].key = cur.key
    BY <1>0 DEF Attempts, Conditions
  <2>4. CASE DiscoverFails
    BY <2>2, <2>3, <2>4 DEF DiscoverFails
  <2>5. CASE FinishSetup
    BY <1>0, <2>2, <2>5 DEF FinishSetup
  <2>6. CASE ExpandRule
    <3>1. CASE validateRule(cur.spec.rules[cur.rule])
      <4>1. UNCHANGED failed
        BY <2>6, <3>1 DEF ExpandRule, trackVars
      <4>2. cur'.pc = "watch" /\ cur'.key = cur.key /\ cur'.err = cur.err
        BY <1>0, <2>6, <3>1 DEF ExpandRule, Attempts
      <4> QED BY <2>1, <4>1, <4>2, RetryKept
    <3>2. CASE ~validateRule(cur.spec.rules[cur.rule])
      BY <2>2, <2>3, <2>6, <3>2 DEF ExpandRule
    <3> QED BY <3>1, <3>2
  <2> QED BY <1>4, <2>4, <2>5, <2>6
<1>5. CASE Discover \/ DiscoverSome \/ NextRule
  <2>1. UNCHANGED <<failed, queue>> /\ cur.pc # "idle"
    BY <1>5 DEF Discover, DiscoverSome, NextRule, trackVars
  <2>2. cur'.pc = "rule" /\ cur'.key = cur.key /\ cur'.err = cur.err
    BY <1>0, <1>5 DEF Discover, DiscoverSome, NextRule, Attempts
  <2> QED BY <2>1, <2>2, RetryKept
<1>6. ASSUME NEW w, StartWatch(w) \/ SkipWatch(w) \/ WatchFails(w) PROVE RetryInv'
  <2>1. UNCHANGED <<failed, queue>> /\ cur.pc = "watch"
    BY <1>6 DEF StartWatch, SkipWatch, WatchFails, trackVars
  <2>2. cur'.pc = "watch" /\ cur'.key = cur.key
    BY <1>0, <1>6 DEF StartWatch, SkipWatch, WatchFails, Attempts
  <2> QED BY <2>1, <2>2 DEF RetryInv, FailedIsRetried
<1>7. CASE UpdateStatus
  <2>1. cur' = Idle /\ UNCHANGED failed /\ cur.pc = "status"
    BY <1>7 DEF UpdateStatus, Return, trackVars
  <2>2. queue' \in {Outcome, Add(Outcome, cur.key)}
    BY <1>7 DEF UpdateStatus, Return
  <2>3. failed["setup"] \subseteq Scheduled(Outcome)
    BY <1>0, <2>1, ScheduledOps DEF RetryInv, FailedIsRetried, Outcome
  <2>4. Scheduled(Outcome) \subseteq Scheduled(Add(Outcome, cur.key))
    BY <1>0, ScheduledOps, OutcomeType
  <2> QED BY <2>1, <2>2, <2>3, <2>4, IdleType DEF RetryInv, FailedIsRetried
<1>8. ASSUME NEW s \in Syncers, BackoffExpires(s) \/ Resync(s) PROVE RetryInv'
  <2>1. queue' \in {Expire(queue, s), Add(queue, s)} /\ UNCHANGED <<cur, failed>>
    BY <1>8 DEF BackoffExpires, Resync, trackVars
  <2> QED BY <1>0, <2>1, ScheduledOps DEF RetryInv, FailedIsRetried
<1>9. ASSUME NEW s \in Syncers, NEW spec, EditSyncer(s, spec) PROVE RetryInv'
  <2>1. queue' = Add(queue, s) /\ UNCHANGED failed
    BY <1>9 DEF EditSyncer, trackVars
  <2>2. cur'.pc = cur.pc /\ cur'.key = cur.key /\ cur'.err = cur.err
    BY <1>0, <1>9 DEF EditSyncer, Attempts
  <2> QED BY <1>0, <2>1, <2>2, ScheduledOps DEF RetryInv, FailedIsRetried
<1>10. CASE Crash
  BY <1>10, IdleType DEF Crash, FT!TrackerRestart, RetryInv, FailedIsRetried
<1>11. CASE UNCHANGED <<cur, queue, trackVars>>
  BY <1>11 DEF RetryInv, FailedIsRetried, trackVars
<1> QED BY <1>1, <1>2, <1>3, <1>4, <1>5, <1>6, <1>7, <1>8, <1>9, <1>10, <1>11
      DEF Next, Reconcile, Environment, Serve, vars, trackVars

\* A KRMSyncer whose last setup failed is never lost: it is queued, with the worker
\* or in backoff, whatever is edited or fails next.
THEOREM FailedSetupIsRetried == Spec => []FailedIsRetried
<1>1. SetupTypeOK /\ RetryInv /\ [Next]_vars => RetryInv'
  BY RetryStep
<1>2. RetryInv => FailedIsRetried
  BY DEF RetryInv
<1> QED BY <1>1, <1>2, InitRetry, SetupTypes, PTL DEF Spec
------------------------------------------------------------------------------
(****************************************************************************)
(* syncer_setup_failed.                                                     *)
(****************************************************************************)

\* every step is a step of the failure tracker or leaves it alone
LEMMA SetupTrackerStep ==
  ASSUME SetupTypeOK, [Next]_vars
  PROVE  [FT!TrackerNext]_(FT!trackerVars)
<1>0. cur.key \in Syncers
  BY DEF SetupTypeOK, Attempts
<1>1. (\E s \in Syncers : FT!markFailed("setup", s) \/ FT!markSucceeded("setup", s))
        => FT!TrackerNext
  BY DEF FT!TrackerNext
<1>2. CASE Crash
  BY <1>2 DEF Crash, FT!TrackerNext
<1>3. CASE DiscoverFails \/ ExpandRule \/ FinishSetup
  <2>1. /\ [cur EXCEPT !.err = TRUE].key = cur.key
        /\ [cur EXCEPT !.err = TRUE, !.conds = @ \cup {"InvalidRule"}].key = cur.key
    BY DEF SetupTypeOK, Attempts
  <2>2. \A a : EndSetup(a) => FT!markFailed("setup", a.key) \/ FT!markSucceeded("setup", a.key)
    BY DEF EndSetup
  <2>3. \/ FT!markFailed("setup", cur.key) \/ FT!markSucceeded("setup", cur.key)
        \/ UNCHANGED trackVars
    BY <1>3, <2>1, <2>2 DEF DiscoverFails, ExpandRule, FinishSetup
  <2> QED BY <1>0, <1>1, <2>3 DEF trackVars, FT!trackerVars
<1>4. CASE GetSyncer
  <2>1. FT!markSucceeded("setup", cur.key) \/ UNCHANGED trackVars
    BY <1>4 DEF GetSyncer
  <2> QED BY <1>0, <1>1, <2>1 DEF trackVars, FT!trackerVars
<1>5. CASE UNCHANGED trackVars
  BY <1>5 DEF trackVars, FT!trackerVars
<1> QED BY <1>2, <1>3, <1>4, <1>5 DEF Next, Reconcile, Environment, TakeItem, BackoffExpires,
      Resync, GetFails, Discover, DiscoverSome, NextRule, UpdateStatus, StartWatch, SkipWatch,
      WatchFails, EditSyncer, Serve, vars, trackVars

\* The setup controller uses setupFailures as the failure tracker allows.
THEOREM SetupImplementsTracker == Spec => FT!TrackerSpec
<1>1. Init => FT!TrackerInit
  BY DEF Init
<1>2. SetupTypeOK /\ [Next]_vars => [FT!TrackerNext]_(FT!trackerVars)
  BY SetupTrackerStep
<1> QED BY <1>1, <1>2, SetupTypes, PTL DEF Spec, FT!TrackerSpec

\* syncer_setup_failed is the number of KRMSyncers held as failing, after any
\* sequence of failed and repeated attempts, edits and restarts.
THEOREM SetupGaugeIsRight == Spec => []GaugeCountsFailing
<1>1. FTP!TrackerConstants
  <2>1. \A S : FTP!IsFiniteSet(S) <=> IsFiniteSet(S)
    BY DEF FTP!IsFiniteSet, IsFiniteSet
  <2>2. IsFiniteSet({"setup"})
    BY FS_Singleton
  <2> QED BY <2>1, <2>2, SetupAssumption DEF FTP!TrackerConstants
<1>2. FTP!TrackerSpec => [](FTP!TrackerTypeOK /\ FTP!GaugeCountsFailing)
  BY <1>1, FTP!GaugeCorrect
<1>3. FT!TrackerInit => FTP!TrackerInit
  BY DEF FT!TrackerInit, FTP!TrackerInit
<1>4. [FT!TrackerNext]_(FT!trackerVars) => [FTP!TrackerNext]_(FTP!trackerVars)
  BY DEF FT!TrackerNext, FTP!TrackerNext, FT!trackerVars, FTP!trackerVars,
         FT!markFailed, FTP!markFailed, FT!markSucceeded, FTP!markSucceeded,
         FT!TrackerRestart, FTP!TrackerRestart
<1>5. FTP!GaugeCountsFailing => GaugeCountsFailing
  <2>1. \A S : FTP!Cardinality(S) = FT!Cardinality(S)
    BY DEF FTP!Cardinality, FT!Cardinality
  <2> QED BY <2>1 DEF FT!GaugeCountsFailing, FTP!GaugeCountsFailing, FT!FailingOn,
                      FTP!FailingOn, GaugeCountsFailing
<1> QED BY <1>2, <1>3, <1>4, <1>5, SetupImplementsTracker, PTL
        DEF FT!TrackerSpec, FTP!TrackerSpec
==============================================================================

----------------------------- MODULE SyncerSetup -----------------------------
(****************************************************************************)
(* KRMSyncerReconciler: for every KRMSyncer, discover what the source       *)
(* serves, expand the rules into GVKs, and start one watcher (controller)   *)
(* for each GVK that has none yet.  It has a single worker, so one attempt  *)
(* runs at a time; users and clusters move between any two of its steps.    *)
(* Watchers are never stopped.                                              *)
(****************************************************************************)
EXTENDS Integers, FiniteSets, Rules, WorkQueue

CONSTANTS
  Syncers,      \* names of KRMSyncers
  NoSyncer,     \* a KRMSyncer that does not exist
  SyncerSpecs,  \* the specs a KRMSyncer may be given
  InitSyncers,  \* the KRMSyncers at the start
  Local,        \* the cluster the controller runs in
  Remotes,      \* remote clusters, by connection key
  NoKey,        \* spec.remote of which Key makes no connection key
  Resources,    \* what API discovery may list
  InitServed,   \* what each cluster serves at the start
  Budget,       \* how often the environment may interfere, by kind
  SyncPeriod    \* whether --sync-period enables the periodic resync

Clusters == {Local} \cup Remotes
Disturbances == {"fault", "partial", "edit", "serve", "crash"}

ASSUME SetupAssumption ==
  /\ IsFiniteSet(Syncers) /\ Syncers # {}
  /\ NoSyncer \notin SyncerSpecs
  /\ \A spec \in SyncerSpecs :
       /\ spec.remote \in Remotes \cup {NoKey}
       /\ Len(spec.rules) \in Nat /\ DOMAIN spec.rules = 1..Len(spec.rules)
  /\ InitSyncers \in [Syncers -> SyncerSpecs \cup {NoSyncer}]
  /\ NoKey \notin Clusters
  /\ InitServed \in [Clusters -> SUBSET Resources]
  /\ Budget \in [Disturbances -> Nat]

VARIABLES
  syncers,  \* the KRMSyncers
  conds,    \* conds[s]: the conditions in the status of s that are True
  served,   \* served[c]: what cluster c serves, in preferred versions
  queue,    \* the work queue of the controller
  cur,      \* what its worker is doing
  watched,  \* WatchedGVKs and WatchedRemoteGVKs: <<source cluster, gvk>>
  remotes,  \* RemoteClusters
  controllers,    \* the watchers that run in the manager, by their name
  failed, gauge,  \* setupFailures and syncer_setup_failed
  budget    \* how often the environment may still interfere

vars == <<syncers, conds, served, queue, cur, watched, remotes, controllers,
          failed, gauge, budget>>

FT == INSTANCE FailureTracker WITH
        Trackers <- {"setup"}, Keys <- Syncers, Gauges <- {"syncer_setup_failed"},
        GaugeOf <- [t \in {"setup"} |-> "syncer_setup_failed"]

EffectiveMode(spec) == IF spec.mode = "" THEN "pull" ELSE spec.mode
SourceOf(spec) == IF EffectiveMode(spec) = "pull" THEN spec.remote ELSE Local
NeedsExpansion(spec) == \E n \in DOMAIN spec.rules : HasGlob(spec.rules[n])

\* the watchers that a rule needs, given what discovery returned
WatchersOf(spec, rule, resources) ==
  {SourceOf(spec)} \X expandRule(rule, resources)

Idle == [pc |-> "idle", key |-> CHOOSE s \in Syncers : TRUE, spec |-> NoSyncer,
         conds |-> {}, found |-> {}, rule |-> 1, todo |-> {}, err |-> FALSE,
         fresh |-> TRUE]

Init ==
  /\ syncers = InitSyncers
  /\ conds = [s \in Syncers |-> {}]
  /\ served = InitServed
  /\ queue = [EmptyQueue EXCEPT !.dirty = {s \in Syncers : InitSyncers[s] # NoSyncer}]
  /\ cur = Idle
  /\ watched = {}
  /\ remotes = {}
  /\ controllers = {}
  /\ FT!TrackerInit
  /\ budget = Budget

watchVars == <<watched, remotes, controllers>>
clusterVars == <<syncers, conds, served>>
trackVars == <<failed, gauge>>

Spend(kind) == budget[kind] > 0 /\ budget' = [budget EXCEPT ![kind] = @ - 1]
------------------------------------------------------------------------------
(****************************************************************************)
(* Reconcile.                                                               *)
(****************************************************************************)

TakeItem(s) ==
  /\ cur.pc = "idle"
  /\ CanTake(queue, s)
  /\ queue' = Take(queue, s)
  /\ cur' = [Idle EXCEPT !.pc = "get", !.key = s]
  /\ UNCHANGED <<clusterVars, watchVars, trackVars, budget>>

Return(q) == cur' = Idle /\ queue' = q

\* A deleted or suspended KRMSyncer is not failing; otherwise setup starts.
GetSyncer ==
  LET s == cur.key  spec == syncers[s] IN
  /\ cur.pc = "get"
  /\ IF spec = NoSyncer THEN FT!markSucceeded("setup", s) /\ Return(Done(queue, s))
     ELSE IF spec.suspend
     THEN /\ FT!markSucceeded("setup", s)
          /\ cur' = [cur EXCEPT !.pc = "status", !.spec = spec,
                                !.conds = conds[s] \cup {"Suspended"}]
          /\ UNCHANGED queue
     ELSE /\ cur' = [cur EXCEPT !.pc = IF NeedsExpansion(spec) THEN "discover" ELSE "rule",
                                !.spec = spec, !.conds = conds[s] \cup {"Active"}]
          /\ UNCHANGED <<queue, trackVars>>
  /\ UNCHANGED <<clusterVars, watchVars, budget>>

\* Get returns another error: it is returned, nothing is recorded
GetFails ==
  /\ cur.pc = "get"
  /\ Spend("fault")
  /\ Return(Retry(queue, cur.key))
  /\ UNCHANGED <<clusterVars, watchVars, trackVars>>

\* reconcile returns: the outcome is recorded, then the status is updated
EndSetup(with) ==
  /\ IF with.err THEN FT!markFailed("setup", with.key) ELSE FT!markSucceeded("setup", with.key)
  /\ cur' = [with EXCEPT !.pc = "status"]

\* getDiscoveryClient and ServerPreferredResources
Discover ==
  LET c == SourceOf(cur.spec) IN
  /\ cur.pc = "discover"
  /\ c # NoKey
  /\ cur' = [cur EXCEPT !.pc = "rule", !.found = served[c]]
  /\ UNCHANGED <<clusterVars, queue, watchVars, trackVars, budget>>

\* the groups whose discovery failed are left out, and setup goes on
DiscoverSome ==
  LET c == SourceOf(cur.spec) IN
  /\ cur.pc = "discover"
  /\ c # NoKey
  /\ Spend("partial")
  /\ \E r \in served[c] :
       cur' = [cur EXCEPT !.pc = "rule", !.found = {x \in served[c] : x.group # r.group}]
  /\ UNCHANGED <<clusterVars, queue, watchVars, trackVars>>

DiscoverFails ==
  /\ cur.pc = "discover"
  /\ IF SourceOf(cur.spec) = NoKey THEN UNCHANGED budget ELSE Spend("fault")
  /\ EndSetup([cur EXCEPT !.err = TRUE])
  /\ UNCHANGED <<clusterVars, queue, watchVars>>

\* Expand the next rule.  An invalid one ends the attempt: the rules after it are
\* not looked at.
ExpandRule ==
  LET rules == cur.spec.rules IN
  /\ cur.pc = "rule"
  /\ cur.rule \in DOMAIN rules
  /\ IF validateRule(rules[cur.rule])
     THEN /\ cur' = [cur EXCEPT !.pc = "watch",
                       !.todo = WatchersOf(cur.spec, rules[cur.rule], cur.found)]
          /\ UNCHANGED trackVars
     ELSE EndSetup([cur EXCEPT !.err = TRUE, !.conds = @ \cup {"InvalidRule"}])
  /\ UNCHANGED <<clusterVars, queue, watchVars, budget>>

\* mutant: a watcher that was started is not remembered
RecordWatchForgets(w) == UNCHANGED watched

RecordWatch(w) == watched' = watched \cup {w}

\* startWatcher or startRemoteWatcher for a watcher that does not run yet
StartWatch(w) ==
  /\ cur.pc = "watch"
  /\ w \in cur.todo \ watched
  /\ w[1] # NoKey
  /\ w \notin controllers
  /\ controllers' = controllers \cup {w}
  /\ remotes' = remotes \cup ({w[1]} \ {Local})
  /\ RecordWatch(w)
  /\ cur' = [cur EXCEPT !.todo = @ \ {w}]
  /\ UNCHANGED <<clusterVars, queue, trackVars, budget>>

SkipWatch(w) ==
  /\ cur.pc = "watch"
  /\ w \in cur.todo \cap watched
  /\ cur' = [cur EXCEPT !.todo = @ \ {w}]
  /\ UNCHANGED <<clusterVars, queue, watchVars, trackVars, budget>>

\* mutant: the error is logged only
WatchFailsQuietly(w) ==
  /\ cur.pc = "watch"
  /\ w \in cur.todo \ watched
  /\ IF w[1] = NoKey \/ w \in controllers THEN UNCHANGED budget ELSE Spend("fault")
  /\ remotes' \in {remotes, remotes \cup ({w[1]} \ {Local, NoKey})}
  /\ cur' = [cur EXCEPT !.todo = @ \ {w}]
  /\ UNCHANGED <<clusterVars, queue, watched, controllers, trackVars>>

\* There is no key, the cluster cannot be connected to, or the controller cannot
\* be created (two of them cannot have one name), which leaves the cluster
\* connected: the other watchers are still tried.
WatchFails(w) ==
  /\ cur.pc = "watch"
  /\ w \in cur.todo \ watched
  /\ IF w[1] = NoKey \/ w \in controllers THEN UNCHANGED budget ELSE Spend("fault")
  /\ remotes' \in {remotes, remotes \cup ({w[1]} \ {Local, NoKey})}
  /\ cur' = [cur EXCEPT !.todo = @ \ {w}, !.err = TRUE]
  /\ UNCHANGED <<clusterVars, queue, watched, controllers, trackVars>>

NextRule ==
  /\ cur.pc = "watch"
  /\ cur.todo = {}
  /\ cur' = [cur EXCEPT !.pc = "rule", !.rule = @ + 1]
  /\ UNCHANGED <<clusterVars, queue, watchVars, trackVars, budget>>

FinishSetup ==
  /\ cur.pc = "rule"
  /\ cur.rule \notin DOMAIN cur.spec.rules
  /\ EndSetup(cur)
  /\ UNCHANGED <<clusterVars, queue, watchVars, budget>>

\* mutant: a failed setup is recorded but not retried
OutcomeQuiet == Done(queue, cur.key)

\* an error makes the controller retry with backoff
Outcome == IF cur.err THEN Retry(queue, cur.key) ELSE Done(queue, cur.key)

\* The deferred Status().Update.  It is refused if the KRMSyncer was changed since
\* it was read, and may fail; that is logged only.  A changed status is an event
\* of its own.
UpdateStatus ==
  LET s == cur.key IN
  /\ cur.pc = "status"
  /\ \/ /\ cur.fresh
        /\ conds' = [conds EXCEPT ![s] = cur.conds]
        /\ Return(IF cur.conds = conds[s] THEN Outcome ELSE Add(Outcome, s))
        /\ UNCHANGED budget
     \/ /\ IF cur.fresh THEN Spend("fault") ELSE UNCHANGED budget
        /\ Return(Outcome)
        /\ UNCHANGED conds
  /\ UNCHANGED <<syncers, served, watchVars, trackVars>>

Reconcile ==
  \/ GetSyncer \/ GetFails \/ Discover \/ DiscoverSome \/ DiscoverFails
  \/ ExpandRule \/ NextRule \/ FinishSetup \/ UpdateStatus
  \/ \E w \in cur.todo : StartWatch(w) \/ SkipWatch(w) \/ WatchFails(w)
------------------------------------------------------------------------------
(****************************************************************************)
(* Events and the environment.                                              *)
(****************************************************************************)

BackoffExpires(s) ==
  /\ s \in queue.delayed
  /\ queue' = Expire(queue, s)
  /\ UNCHANGED <<clusterVars, cur, watchVars, trackVars, budget>>

\* mutant: the sync period is not passed on to the manager's cache
ResyncNever(s) == FALSE /\ UNCHANGED vars

\* --sync-period: every KRMSyncer is enqueued again
Resync(s) ==
  /\ SyncPeriod
  /\ syncers[s] # NoSyncer
  /\ s \notin queue.dirty
  /\ queue' = Add(queue, s)
  /\ UNCHANGED <<clusterVars, cur, watchVars, trackVars, budget>>

\* a user creates, edits, suspends, resumes or deletes a KRMSyncer
EditSyncer(s, spec) ==
  /\ Spend("edit")
  /\ spec # syncers[s]
  /\ syncers' = [syncers EXCEPT ![s] = spec]
  /\ conds' = [conds EXCEPT ![s] = IF spec = NoSyncer THEN {} ELSE @]
  /\ queue' = Add(queue, s)
  /\ cur' = [cur EXCEPT !.fresh = @ /\ (s # cur.key \/ cur.pc = "get")]
  /\ UNCHANGED <<served, watchVars, trackVars>>

\* a CRD is installed on a cluster
Serve(c, r) ==
  /\ Spend("serve")
  /\ r \notin served[c]
  /\ served' = [served EXCEPT ![c] = @ \cup {r}]
  /\ UNCHANGED <<syncers, conds, queue, cur, watchVars, trackVars>>

\* the controller dies and is started again: it is told of every KRMSyncer
Crash ==
  /\ Spend("crash")
  /\ queue' = [EmptyQueue EXCEPT !.dirty = {s \in Syncers : syncers[s] # NoSyncer}]
  /\ cur' = Idle
  /\ watched' = {}
  /\ remotes' = {}
  /\ controllers' = {}
  /\ FT!TrackerRestart({"syncer_setup_failed"})
  /\ UNCHANGED clusterVars

Environment ==
  \/ \E s \in Syncers, spec \in SyncerSpecs \cup {NoSyncer} : EditSyncer(s, spec)
  \/ \E c \in Clusters, r \in Resources : Serve(c, r)
  \/ Crash

Next ==
  \/ \E s \in Syncers : TakeItem(s) \/ BackoffExpires(s) \/ Resync(s)
  \/ Reconcile
  \/ Environment

Spec == Init /\ [][Next]_vars

\* The worker runs, the queue is first in first out, backoffs end and, if enabled,
\* the resync timer fires.
Fairness ==
  /\ WF_vars(Reconcile)
  /\ \A s \in Syncers :
       SF_vars(TakeItem(s)) /\ WF_vars(BackoffExpires(s)) /\ WF_vars(Resync(s))

FairSpec == Spec /\ Fairness
------------------------------------------------------------------------------
(****************************************************************************)
(* Properties.                                                              *)
(****************************************************************************)

Active(s) == syncers[s] # NoSyncer /\ ~syncers[s].suspend

\* the rules that setup reaches: those before the first invalid one
RulesInForce(spec) ==
  {n \in DOMAIN spec.rules : \A m \in 1..n : validateRule(spec.rules[m])}

\* every GVK that the rules of KRMSyncer s select on its source is watched
AllWatched(s) ==
  LET spec == syncers[s] IN
  SourceOf(spec) # NoKey =>
    \A n \in RulesInForce(spec) :
      WatchersOf(spec, spec.rules[n], served[SourceOf(spec)]) \subseteq watched

\* When an attempt has ended without error, there is a watcher for every kind of
\* the source whose objects the rules would sync (ruleMatchesGVK, which the
\* watchers evaluate on their own) and for every kind a rule names: no failed
\* start is passed over, and the two readings of a rule do not drift apart.
SuccessMeansWatched ==
  cur.pc = "status" /\ ~cur.err /\ ~cur.spec.suspend =>
    \A n \in DOMAIN cur.spec.rules :
      LET rule == cur.spec.rules[n]
          synced == {GVK(r) : r \in {x \in cur.found :
                       ~x.subresource /\ ruleMatchesGVK(rule, GVK(x))}}
          named == IF HasGlob(rule) THEN {} ELSE {GVK(rule)}
      IN  {SourceOf(cur.spec)} \X (synced \cup named) \subseteq controllers

\* A KRMSyncer counted as failing is queued, being set up or in backoff.
FailedIsRetried == failed["setup"] \subseteq Scheduled(queue)

\* syncer_setup_failed is the number of KRMSyncers held as failing.
GaugeCountsFailing == FT!GaugeCountsFailing

\* Every active KRMSyncer ends up with a watcher for all its rules select, through
\* failed starts, edits, status conflicts and restarts.
RulesWatched == <>[](\A s \in Syncers : Active(s) => AllWatched(s))

\* In the end exactly the KRMSyncers that cannot be set up are counted: a rule is
\* invalid or the remote has no key.  A watcher is never started a second time,
\* which would fail for ever.
SetupSettles ==
  <>[](\A s \in Syncers :
         s \in failed["setup"] <=>
           /\ Active(s)
           /\ \/ RulesInForce(syncers[s]) # DOMAIN syncers[s].rules
              \/ SourceOf(syncers[s]) = NoKey /\ syncers[s].rules # <<>>)
==============================================================================

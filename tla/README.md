# Verification of kube-etl

TLA+ models of [kube-etl](../src): model-checked with TLC, and proved about with TLAPS
where a property holds for every value of the constants. Everything is translated from the
source; `PROJECT.json` maps every definition to the lines it stands for, lists the runs, the
mutants that show each property can fail, the findings, the hazards and the theorems.

## 1. The system

kube-etl has two programs. `kube-etl export` writes all objects of a cluster into a zip file.
The **syncer** (`syncer/`), the larger part and the only concurrent one, replicates objects
between Kubernetes clusters as told by `KRMSyncer` objects. Around it are shell scripts that
provision it on GKE.

| Component | State | Operations | Interacts with |
|---|---|---|---|
| Setup controller, `KRMSyncerReconciler` | `WatchedGVKs`, `WatchedRemoteGVKs`, `RemoteClusters`, its failure tracker; one worker | get a `KRMSyncer`, discover APIs, expand rules, start watchers, record the outcome, update the status | starts object watchers; uses the GKE provider |
| Object watchers, `DynamicResourceReconciler` | none per object; a work queue, an informer cache and a failure tracker per watcher; up to `--max-concurrent-reconciles` workers | read the source object, list the `KRMSyncer`s, for every matching rule: get a client, delete, check, create the namespace, apply, apply the status; record the outcome | all API servers, client cache, metrics |
| Rules | none | `validateRule`, `expandRule`, `ruleMatchesGVK`, namespace test, `isFullSync`, `filterFields` | evaluated by both controllers, independently |
| Failure metrics, `failureTracker` | a set of failing keys per tracker, a gauge shared by the trackers of a GVK | `markFailed`, `markSucceeded` | called by both controllers |
| Client cache, `remoteClientCache` | a client per connection key, a mutex | `get` | called by push workers; calls the provider with the mutex held |
| GKE provider, `GKEConfigProvider` | token source, cluster cache with a TTL, a mutex that is not held during a fetch | `Key`, `RESTConfig`, `cluster`, `fetchCluster` | the GKE API |
| `rotatingTransport` | host, CA and transport of a connection | look up, switch, send | provider; every request of every client |
| Work queue and informers (controller-runtime) | queued, processed and delayed keys; cached objects | hand out, retry with backoff, resync | between clusters and workers |
| `main.go`, API types, templates | flags, `KRMSyncer` specs | start, restart | configuration |
| Export command and zip sink | a zip file, a list of errors | discover, list, write, close | one cluster |
| `deploy.sh`, `cleanup.sh`, `lib.sh` | IAM bindings, service account, manifests | preflight, grant, build, deploy; find unused grants, revoke | Google Cloud, the destination cluster |

What is hard here is in the interleavings: workers of one watcher and of several watchers,
users who edit `KRMSyncer`s and destination objects between two calls of a reconcile, calls
that fail in the middle of a series, restarts that lose everything in memory, events that are
consumed without effect, concurrent cluster lookups whose answers overtake each other, a mutex
held across a network call, two pods that both write during a rollout. The programs around the
syncer are sequential, but each is a long series of calls that can stop anywhere and is then
run again. `PROJECT.json` lists these hazards line by line.

What makes each part correct:

* *Object watchers*: what the source has reaches every destination that can be reached; a
  deletion too; an attempt counts as success only if everything was written; a failing object is
  retried until it succeeds; reconciles of one object never overlap, so nothing older replaces
  something newer; status mode creates nothing.
* *Setup*: every kind the rules select is watched in the end, once; exactly the `KRMSyncer`s that
  cannot be set up are counted as failing.
* *Metrics*: a gauge is the number of failing keys, always.
* *Connections*: one client per key; requests follow a rotated CA or address within a bounded
  time and without a restart; nobody waits for ever.
* *Rules*: the two evaluations of a rule, at setup and in the watchers, select the same kinds.
* *Export*: success means a complete, readable archive; otherwise the errors name what is missing.
* *Scripts*: a deploy that succeeds leaves everything the controller needs, one that fails can be
  repeated until it succeeds; a cleanup revokes nothing in use and hides no failure.

## 2. Modules

| Module | Models | Kind |
|---|---|---|
| `Rules` | the rule functions of `krmsyncer_controller.go` | pure operators |
| `WorkQueue` | controller-runtime's work queue (external) | operators on queue records |
| `FailureTracker` | `metrics.go` | state machine; the abstract specification of failure counting |
| `ObjectSync` | `DynamicResourceReconciler` with queue, informer, destinations | state machine over `Rules`, `WorkQueue`, `FailureTracker` |
| `SyncerSetup` | `KRMSyncerReconciler` | state machine over the same |
| `GKEConnection` | `remote_clients.go`, `remote_cluster.go`, `rotating_transport.go` | state machine with time |
| `Export` | `export.go`, `zip.go`, `main.go` | state machine |
| `Provision` | `deploy.sh`, `cleanup.sh`, `lib.sh` | state machine |
| `ObjectSyncProofs`, `ObjectSyncWriteProofs` (which extends the former) | | theorems about `ObjectSync`: queue, tracker and types; what is written |
| `SyncerSetupProofs`, `GKEConnectionProofs`, `FailureTrackerProofs`, `RulesProofs`, `ExportProofs`, `ProvisionProofs` | | theorems about the module of that name |
| `MCObjectSync`, `MCSyncerSetup`, `MCGKEConnection`, `MCExport`, `MCProvision` | | instances for TLC |

Definitions named `...Always`, `...Forgets`, `...Quietly` and the like, marked "mutant" in a
comment, are deliberate errors; no specification uses them. `PROJECT.json` names the definition
each one replaces and the property that must then fail.

### Rules

The code compares strings. A group of the model is a record of its name and of the outcome of
the tests the code makes on it (`dotted`, `suffixed`, `star`), versions and kinds are names or
globs. Objects are abstracted to three leaves: `body` (labels, annotations, and the spec without
`resourceID`), `resourceID` and `status`; these are what the sync fields of the CRD
(`spec`, `spec.resourceID`, `status`) tell apart.

### ObjectSync

One step per call to an API server, with the code between two calls attached to the step before:
`TakeItem`, `GetSource`, `ListSyncers` (which also selects the matching rules), `BeginRule`,
`GetClient` (push), `DeleteDest`, `CheckExists` (status mode), `GetNamespace`, `CreateNamespace`,
`PatchObject`, `PatchStatus`, `Finish`. Each call may fail: at random, as long as the fault
budget lasts, or always if the cluster is in `Down`. A write that fails changed nothing, or it
took effect and its reply was lost (`ReplyLost`); the code cannot tell the two apart. A remote in
`Incomplete` (no kubeconfig secret, no full GKE reference) has no connection key, so it has no watcher
and no client. `work[i]` holds the local variables of
worker `i`: what it read (`snap`), the list of `KRMSyncer`s, the rules left (`todo`) and whether
an error was collected (`errs`).

* Reads of unstructured objects go to the cluster and not to the cache (the default of the
  client that the code uses), so `GetSource` reads `source`; `view` is what the last watch event
  had, and only decides which events and resyncs there are.
* The namespace of a destination is a typed object, which in pull mode is read from the manager's
  cache: it may be missing there although it has been created. One that is still in the
  cache although it has been removed has the outcome of a removal right after the read, which is
  modelled.
* `syncers` is the list as the controller's own cache holds it. The cache lists the `KRMSyncer`s
  in no fixed order, the rules of one are applied in order (`NextTasks`).
* `Deliver` merges the events an object had since the last one, as an informer may. An object
  that appears and disappears unseen causes no event.
* Server-side apply (external) with one field manager and force: fields sent are set and owned,
  fields owned and no longer sent are removed, others are left alone (`Applied`). The status
  subresource has an ownership of its own (`StatusApplied`).
* Every watcher belongs to a pod (`w.pod`). `Crash` loses the pod's queues, views, clients, trackers
  and gauges; the clusters stay as they are. A rollout starts a second pod (`Start`) and then stops
  the first one at any step (`Stop`): there is no leader election (`main.go:84`), so both write
  meanwhile, each with queues and counters of its own. What the pods cache of the `KRMSyncer`s is
  one variable.
* All watchers of an instance watch one kind, so an object name means the same everywhere.
* The environment writes and deletes source objects (up to `MaxRev` revisions), edits, suspends,
  adds and deletes `KRMSyncer`s, creates and removes destination objects and namespaces, and
  crashes the controller; `Budget` bounds how often.

### SyncerSetup

The controller of `KRMSyncer`s has one worker (the library's default), so `cur` is the one
attempt under way: `GetSyncer` or `GetFails`, `Discover`, `DiscoverSome` (some groups failed) or
`DiscoverFails`, `ExpandRule` per rule, `StartWatch`, `SkipWatch` or `WatchFails` per kind,
`FinishSetup`, `UpdateStatus` (the deferred update, refused if the object changed since it was
read; a change of the status is an event). `watched` is what the reconciler remembers,
`controllers` what runs in the manager, which refuses a second controller of the same name:
if the two disagree, setup fails for ever. A failed start may leave the remote cluster
connected. What happens inside the library when a watched kind is not served is not modelled.

### GKEConnection

Goroutines ask for a client (`Ask`, `LockClients`, then building it with the mutex held) and
send a request (`Lookup`, `Answer` and `Store`, or `FetchFails`; `Update` or `UpdateFails`; `Send`).
When the client or the transport cannot be made for settings that were found (`UpdateFails`), a
transport in use keeps the old ones, and the new client's is dropped. The read of
the cluster's state (`Answer`) and its storing (`Store`) are separate, as the network and other
goroutines come in between. `History` is the series of states of a cluster, `truth` the current
one. Time is discrete and kept as ages: of the cache entry, of a call, and of the states left.
It passes (`Tick`) only while all goroutines wait, since computing takes no time compared with a
TTL of ten minutes and a timeout of thirty seconds; a request takes at least one tick.

### Export

One step per call: `OpenSink`, `Configure`, `Discover` (which may lose any of the groups), `ListKind` per kind, `WriteItem` per object,
`CloseSink` (deferred). `errs` is the set of what the collected errors are about. The output file is
a set of entries and whether the archive can be read (`final`); a write that fails breaks the writer
for good (`broken`), as the buffered writer inside `archive/zip` remembers its error. Objects come
and go during a run; the histories `always` and `seen` say which were there all the time and at
some time. A run can be killed and repeated with the same file.

### Provision

`d` is the run of `deploy.sh` with its flags and the call it is at, `c` that of `cleanup.sh`. One
step per call that changes something; the read-only preflight is one step, whose only lasting
result is `GSA_EXISTS`. With `errexit` a failing call ends the script (`CallFails`), except in
`grant_image_pull_access` and in the loop of `revoke`; it changed nothing, or it took effect and
the reply was lost. A new service account is `hidden` at first: lookups and bindings may then fail
or succeed, until `Propagate`. `kubectl apply` of several objects may fail for any of them
(`ApplyManifests`). Pods run as the account only if they were started after the annotation, and the
rollout succeeds only if the image was pushed and the nodes can pull it (`Pullable`). Another
destination cluster may take the account's name while it is free, also between the preflight and
the creation (`AnotherDeploys`), with grants of its own. Users create, edit and delete `KRMSyncer`s
and the CRD at any time. The histories `free`, `undone` and `regranted` record what one script did
to the other meanwhile, so that the properties can say who is to blame.

Assumed of the operator: `cleanup.sh` and `deploy.sh` may overlap, two deploys of one cluster do not; the
service account is deleted last, as the syncer's README asks for, and not while a script runs.

### FailureTracker

`markFailed` and `markSucceeded` are atomic (they hold the tracker's mutex, a gauge is atomic).
Trackers of one GVK share a gauge. `TrackerSpec` is what both controllers must implement;
for `ObjectSync` and `SyncerSetup` this is proved.

## 3. Runs

Bounds are per run; all are constants of the configuration. "Budget" is how often calls fail at
random, a `KRMSyncer` is edited, and so on.

| Run | Instance | Shows |
|---|---|---|
| `sync_full` | 2 objects in one namespace, 2 workers, 2 revisions, one failing call, one restart | `FailedIsRetried`, `SuccessMeansApplied`, `FailureHasCause` |
| `sync_status` | 1 object of 3 shapes, 2 workers, 2 rules as deployed, failing call, edit, foreign create, restart; fairness | `SuccessMeansApplied`, `NoStaleOverwrite`, `StatusModeNeverCreates`, `UpdatesReflected`, `FailuresSettle` |
| `live_push` | push to 3 remotes, one never answers and one has an incomplete reference, cluster-scoped object, 3 revisions, 2 failing calls; fairness | `TypeOK`, `GaugeCountsFailing`, `UpdatesReflected`, `DeletionsPropagate`, `FailuresSettle` |
| `rollout` | 2 pods with a worker each, a `KRMSyncer` that is resumed, a removed destination object, sync period on; fairness | `UpdatesReflected` |
| `gke_follow` | 2 goroutines, 1 connection named in two ways, IP endpoint off and on again with a new CA, TTL 2, timeout 2, 2 failing calls; fairness | `TypeOK`, `BuiltOnce`, `StalenessBounded`, `Converges`, `NobodyStarves` |
| `setup` | 2 `KRMSyncer`s, 7 specs, sync period on; a failing call, partial discovery, edit, kind served late, restart; fairness | `SuccessMeansWatched`, `FailedIsRetried`, `GaugeCountsFailing`, `RulesWatched`, `SetupSettles` |
| `export` | 2 runs, 5 kinds (a subresource and one that cannot be listed among them) in 3 groups, 2 names; 2 failing calls, a disk failure, a kill, a change | `SuccessMeansComplete`, `NothingLostSilently`, `NothingStale` |
| `provision` | 2 projects, 2 namespaces, 2 deploys (one without a build), 1 cleanup (dry or of both projects), 2 attempts (the code has 7), a failing call or lost reply, a kill, and one of: an overlap, a user's change, another cluster that takes the name; fairness | `TypeOK`, `ForeignUntouched`, `DeployedIsReady`, `DeployHeals`, `RevokedWasFree`, `CleanupIsComplete` |

The bounds suffice for what is asked: two workers and two objects are enough for every race
between reconciles (of the same and of different objects); one fault can hit any call of any
attempt, two (`live_push`, `gke_follow`, `export`) allow a retry to fail too; two revisions make an old and a new value; two rules are
what is deployed; TTL and timeout of two ticks let a lookup overlap both a rotation and another
lookup; two runs of the export make the file of one the input of the other; two projects and two
namespaces are needed for a switch of the source, two attempts for a binding that fails, is retried
and is given up. The proofs remove the bounds for the properties they cover;
that watchers of several clusters share a gauge is covered by the proof of `GaugesAreRight`
(`live_push` has one watcher, whose attempts fail again and again).

Deadlock checking is off everywhere but in `GKEConnection`: once the bounded environment has
used up its budget and the system has done its work, it rightly stops. In
`GKEConnection` time never ends. No symmetry is used: liveness is checked, and idle
records pick a fixed object.

**Fairness.** Goroutines that can run do (`WF` on a worker's steps); watches deliver; backoffs
end; the resync timer fires if it is enabled. `SF` on taking an object or a `KRMSyncer` from its
queue, since the queue is first in first out and an item that waits again and again is taken.
`SF` on the mutex of the client cache: Go's mutex hands over to a waiter in starvation mode. Time
passes. In `Provision` a script that runs goes on, a service account becomes visible in the end, and
an operator runs a failed deploy again (`RetryDeploy`): that is what `DeployHeals` is about, and the
only fairness asked of people. It promises nothing where running the script again cannot help
(`Hopeless`): the account's name is another's, or `--skip-build` is used and no image was ever
pushed. A missing pull grant is no such case: it ends the rollout, and the next run grants it. Nothing is assumed of users, clusters, or of calls succeeding, beyond that random
failures end (their budget is finite).

### Findings

Runs that are expected to fail: the code does something else than a text in the repository says.

| Run | What it shows |
|---|---|
| `stub` | status mode checks that the destination object exists and then applies it: deleted in between, it is created as a stub |
| `resource_id` | with the wildcard rule first, each further sync still drops `spec.resourceID` before writing it again |
| `deletion_restart` | a deletion while the controller is down never reaches the destination |
| `revoke_in_use` | `cleanup.sh:174` takes any failure of the check for the CRD as "not installed" and revokes projects in use |

In the passing run `provision` this check does not fail for other reasons (budget `crd` is 0).
There, `RevokedWasFree` is what holds of the README's "never revokes a project in use" when others
act at the same time: the project was unused at some time during the cleanup. A `KRMSyncer` created
between the listing and the revocation loses its access.

Also seen, without a run of their own:

* an error of listing the `KRMSyncer`s is retried without the object being counted
  (`krmsyncer_controller.go:479-480`; `metrics.go:27-29` says an object is counted "from its first
  failed attempt");
* a deletion at the source while the `KRMSyncer` is suspended is consumed without effect and not
  repeated on resuming (`krmsyncer_controller.go:485`), as in `deletion_restart`;
* without rules nothing is synced (`krmsyncer_controller.go:263`; `krmsyncer_types.go:114` says
  "If unset, sync all resources by default");
* the conditions `Suspended`, `Active` and `InvalidRule` are set to True and never cleared
  (`krmsyncer_controller.go:113,126,267`);
* the "Namespace Mapping" feature in `syncer/README.md` has no code;
* `export.go:106` returns no error when the discovery of some groups failed (`SuccessMeansComplete`
  leaves these groups out);
* `export.go:75` drops the error of `Close` when there is another error: the archive is then
  unreadable although the errors name a few objects only ("its error matters", line 73);
* without `--sync-period`, a rollout can leave a destination stale for ever: the old pod reads
  revision 1, the new pod writes revision 2, the old pod writes revision 1 and is stopped (the mutant
  of `rollout` without resync shows it; `syncer/README.md:290` says changes "should reflect in the
  Destination cluster");
* a changed endpoint is picked up within the TTL plus one API call, because an answer is dated when it
  is stored (`remote_cluster.go:201`); lines 64-66 say within the TTL. `StalenessBounded` is the bound
  that holds;
* partial discovery leaves kinds unwatched and does not count as a failed setup
  (`krmsyncer_controller.go:255` against `metrics.go:38-40`); only the periodic resync repairs it, as
  the mutant of `setup` without resync shows;
* `deploy.sh:359-366`: when listing the node pools fails and describing the cluster does not, the
  accounts of the pools get no pull grant and no warning is printed.

## 4. Proofs

**`FailureTrackerProofs`.** `GaugeCorrect`: `TrackerSpec => []GaugeCountsFailing`, for any finite
sets of trackers and keys and any assignment of gauges (`TrackerConstants`, the hypothesis of the
theorem, which `ObjectSyncProofs` discharges). The invariant is inductive together with
the type invariant; the argument is that a call adds or removes exactly one pair
⟨tracker, key⟩ of the set behind one gauge, and leaves the sets behind the others alone
(lemmas on `FailingOn`, cardinality facts of the library).

**`ObjectSyncProofs`.** For all values of the constants that satisfy `SyncAssumption`:

* `TypeCorrect`: `Spec => []TypeOK`.
* `FailingIsScheduled`: `Spec => []FailedIsRetried`.
* `ImplementsTracker`: `Spec => FT!TrackerSpec`, the refinement: every step of the system is a
  step of the abstract trackers or leaves them alone.
* `GaugesAreRight`: `Spec => []GaugeCountsFailing`, by refinement from `GaugeCorrect` and not by
  a second induction.

They rest on the inductive invariant `IndInv` (`IndInvHolds`): `TypeOK` and `TasksExist`, which
ties the local state of a worker to its program counter: the rules it still has to apply belong
to `KRMSyncer`s that exist in its list, and a worker in the namespace steps holds an object that
has a namespace. Without the latter, creating a namespace would not preserve `TypeOK`.
`ReconcileShape` then says what any step of a reconcile may do to the queue and to the tracker:
go on with the same object, return it with an error (retry, counted or not), or return it as
done and not failing. `FailedIsRetried` is inductive relative to `IndInv`, with `ReconcileShape` in
place of a case for each call; the refinement of the tracker follows from the same lemma. So does
the lemma `ReconcilesNeverOverlap` (`OneWorkerPerObject`, what the library's queue guarantees), which the
next module needs. There is one type lemma per action.

**`ObjectSyncWriteProofs`.** What the workers write. These properties are false when two watchers
write to one destination (a rollout, several remotes pulled from), so the theorems assume
`SingleWriter`: the destinations of two watchers of the kind are disjoint. Each names what else it
needs, as definitions on the constants; the instance of the run that checks the property satisfies
them all.

* `CopiesNeverGoBack`: `Spec => NoStaleOverwrite`. `FreshInv`: no field of a watcher's destinations
  is newer than its source (`NotAhead`), and none of the copies of a worker's object is newer than
  what the worker has read (`UpToRead`). The second part survives the steps of others because no two
  workers hold the object (`ReconcilesNeverOverlap`) and nobody else writes there (`Undisturbed`).
* `NoStubIsCreated`: `Spec => StatusModeNeverCreates`, if every source object has a body (`HasBody`)
  and nobody deletes objects of the destinations (`Budget["remove"] = 0`; the run `stub` shows what
  happens otherwise). `FitsInv` says what an attempt knows at each phase: its rules match, it deletes
  only what was gone and checks for the copy in status mode only. `ReadyInv`: what it found stays
  true while it goes on, so that between check and patch the copy and the namespace are still there,
  and between the two patches the copy has what the first one sent.
* `SuccessIsApplied`: `Spec => [](NothingRemoved => SuccessMeansApplied)`, for one `KRMSyncer`
  (`OneSyncer`) or any number of them that sync whole objects (`FullSyncOnly`): two that select
  different fields take them away from each other. `SuccessMeansApplied` speaks about the end of an
  attempt; `HeldInv` says of every last rule that the worker is through with that its destination
  has what it was to write. It needs `OrderInv`, the rules of a `KRMSyncer` are applied in order, so no
  earlier rule is applied after the last one; and `FullSyncsAgree`, a full sync leaves what another
  one wrote.
* `FailuresHaveCauses`: `Spec => []FailureHasCause`, with destinations that can be reached (`Down` and
  `Incomplete` empty), full syncs, and fields that can be filtered (`NothingRefused`). `CauseInv`: as long as no
  call failed and nothing was removed, no attempt has an error and nothing counts as failing;
  every way to fail is closed by `FitsInv` or `ReadyInv` (`NoRuleFails`).

`FitsInv`, `OrderInv` and the budgets' `BudgetInv` hold in every deployment. All these invariants were
checked with TLC on the instances of `sync_full` and `sync_status`, and on one with two `KRMSyncer`s,
before they were proved.

**`SyncerSetupProofs`.** For any `KRMSyncer`s, specs, served kinds and interference (`SetupAssumption`:
among other things a spec's rules are a sequence):

* `SetupSuccessMeansWatched`: `Spec => []SuccessMeansWatched`. It speaks about the end of an attempt;
  `SetupProgress` says that before that, an attempt without error has a running watcher for everything
  the rules before the current one select, and for all of the current one but `todo`; and that what
  the reconciler believes to be watched is what runs (`watched = controllers`).
* `FailedSetupIsRetried`: `Spec => []FailedIsRetried`, from `RetryInv`: the worker's item is held by the
  queue, and an attempt recorded as a success is not counted while its status is being updated, when
  a failing update may still return the item for a retry.
* `SetupImplementsTracker`: `Spec => FT!TrackerSpec`, and by it `SetupGaugeIsRight`:
  `Spec => []GaugeCountsFailing`.

**`GKEConnectionProofs`.** For any clusters, remotes, histories, TTL, timeout and number of goroutines
(`ConnectionAssumption`: among other things some remote is complete): `ConnectionTypes`
(`Spec => []TypeOK`), `OneClientPerKey` (`Spec => []BuiltOnce`) and `RequestsAreCurrent`
(`Spec => StalenessBounded`). `ConnInv` follows a state of a cluster on its way into a request:
an answer under way was current when the call was made, so its state was left no longer ago than the
call has lasted; a cache entry was left at most its age and one timeout ago, because it is dated when
it is stored; hence a transport that was just updated from it is within the bound. Whoever
builds a client holds the mutex, and the client was not built before.

**`RulesProofs`.** `RuleReadingsAgree`, `WatchedIsMatched` and `GlobsStayInConfigConnector`, about the
operators alone and for any rule, kind and list of resources: what setup selects is what the watchers
recognise, and a valid glob stays within Config Connector groups (given that a group ending in
`.cnrm.cloud.google.com` ends in `cnrm.cloud.google.com`, `SuffixesNest`).

**`ExportProofs`.** `ExportInvariant`: `Spec => []ExportInv`, and from it `ExportSuccessMeansComplete`,
`ExportLosesNothingSilently` and `ExportNothingStale`, for any kinds, objects, changes, faults and
number of runs. None of the three is inductive: they speak about the end of a run. `ExportInv` adds
what holds on the way (`Progress`): an object that existed all along and whose group was discovered
is still to be listed, or listed and still to be written, or in the archive, or an error accounts
for it; and `Histories`: while a run lasts, the objects of `always` exist, so a listing finds them,
and what is listed or written was seen. There is one lemma per part of the invariant with one step
per action.

**`ProvisionProofs`.** For any projects, namespaces and flags and any number of runs, faults, kills and
changes by others:

* `ProvisionTypes`: `Spec => []TypeOK`.
* `ForeignIsUntouched`: `Spec => ForeignUntouched`. The account is ours from its creation on in a deploy
  (`HasAccount`, part of `DeployInv`) and from `resolve_gsa` on in a cleanup (`OwnInv`). That is inductive
  because a name that is taken cannot be created again and an account that is ours is not replaced
  while a script runs; so no binding is added or removed while the account is another's.
* `DeployLeavesReady`: `Spec => DeployedIsReady`, from `DeployInv`, which ties each call of `deploy.sh` to what must be in place by then (the
  account, the grant, the binding, the annotation, and once the rollout is through new pods with an
  image that can be pulled). It is inductive because
  nothing else takes these away while the script runs, but for the grant, which an overlapping
  cleanup may revoke and which is then in `undone`.
* `CleanupForgetsNothing`: `Spec => CleanupIsComplete`, from `CleanupInv`: every candidate is still to be
  examined, or in use, or without the grant, or marked for revocation, or granted again since, or a
  failure is remembered (`CleanupEnds`: success is reported in two places only).
* `RevokesWhatWasFree`: `Spec => RevokedWasFree`, under the assumption that the check for the CRD
  does not fail (`Budget["crd"] = 0`; the run `revoke_in_use` shows what happens otherwise).
  `FreeInv`: without the CRD there are no `KRMSyncer`s, what is unused while the cleanup runs is in
  `free`, and so is what the list leaves out and what is marked for revocation.

Only model-checked: everything with fairness (`UpdatesReflected`, `DeletionsPropagate`,
`FailuresSettle`, `Converges`, `NobodyStarves`, `RulesWatched`, `SetupSettles`, `DeployHeals`), which is
out of the prover's reach. Every invariant and every action property of the passing runs is proved,
those of `ObjectSyncWriteProofs` for the deployments named there.

## 5. Not modelled, and the plan

Not modelled: contents and formats of objects, logging and wording of errors, flag parsing,
generated code, RBAC and manifests, the contents of HTTP requests, timeouts inside
controller-runtime (a rule for a kind that is not served).

In `Export`, group versions that do not parse (the group is reported and passed over); in `Provision`,
custom images (`--image`), which skip the repository and the pull grants, the rendering of the
manifests, and the choice of the account's name (`gsa_name`, of which only a collision matters: the
account is then `foreign`). Of the flags of the scripts and the syncer, only their values are inputs
of the models; how they are parsed and completed is not modelled.

Next: `ResourceIDKept` for the deployments in which it holds (one rule per `KRMSyncer`, all of the same
fields), and the safety half of the liveness properties, such as that an update which is not yet
reflected is always scheduled.

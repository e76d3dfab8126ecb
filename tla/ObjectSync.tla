----------------------------- MODULE ObjectSync -----------------------------
(****************************************************************************)
(* The object watchers of the syncer: DynamicResourceReconciler, run by the *)
(* workers of one controller per watched GVK (push) or per remote cluster   *)
(* and GVK (pull).  A watcher turns events of its source cluster into work  *)
(* items; a worker takes an object, reads it from the source, lists the     *)
(* KRMSyncers, and applies every matching rule, in order, to the rule's     *)
(* destination: one step per call to an API server, any of which may fail,  *)
(* with the environment moving between any two of them.                     *)
(*                                                                          *)
(* All watchers of an instance watch the same kind (possibly in several     *)
(* versions or from several clusters), so an object name identifies the     *)
(* same object on every cluster.                                            *)
(*                                                                          *)
(* There is no leader election: while a new version is rolled out two       *)
(* controller processes (pods) run side by side, each with watchers of its  *)
(* own, and neither knows of the other.                                     *)
(****************************************************************************)
EXTENDS Integers, FiniteSets, Rules, WorkQueue

CONSTANTS
  Objects,      \* the objects of the watched kind, by name
  NsOf,         \* the namespace of each object, NoNs if it is cluster scoped
  NoNs,
  Namespaces,
  Local,        \* the cluster the controller runs in
  Remotes,      \* remote clusters, by connection key
  Pods,         \* controller processes, by name
  InitPods,     \* the ones that run at the start
  Watchers,     \* records of a pod, a mode, a cluster (pull) and a gvk
  Workers,      \* MaxConcurrentReconciles workers for each watcher
  WatcherOf,    \* the watcher each worker belongs to
  Syncers,      \* names of KRMSyncers
  NoSyncer,     \* a KRMSyncer that does not exist
  SyncerSpecs,  \* the specs a KRMSyncer may be given
  InitSyncers,  \* the KRMSyncers at the start
  MaxRules,     \* bound on the rules of a KRMSyncer
  Shapes,       \* what a source object may look like
  Down,         \* clusters that cannot be reached at all
  Incomplete,   \* remotes without all of a kubeconfig or GKE reference: no key
  MaxRev,       \* bound on the revisions of a source object
  Budget,       \* how often the environment may interfere, by kind
  SyncPeriod    \* whether --sync-period enables the periodic resync

Clusters == {Local} \cup Remotes
Disturbances == {"fault", "edit", "create", "remove", "crash", "rollout"}
Tasks == Syncers \X (1..MaxRules)

ASSUME SyncAssumption ==
  /\ IsFiniteSet(Objects) /\ Objects # {}
  /\ NoNs \notin Namespaces
  /\ NsOf \in [Objects -> Namespaces \cup {NoNs}]
  /\ IsFiniteSet(Watchers)
  /\ InitPods \subseteq Pods
  /\ Incomplete \subseteq Remotes
  /\ \A w \in Watchers :
       /\ w.pod \in Pods /\ w.mode \in {"push", "pull"}
       /\ w.cluster \in Clusters \ Incomplete
  /\ WatcherOf \in [Workers -> Watchers]
  /\ Syncers # {} /\ MaxRules \in Nat \ {0}
  /\ NoSyncer \notin SyncerSpecs
  /\ \A spec \in SyncerSpecs : spec.remote \in Remotes
  /\ InitSyncers \in [Syncers -> SyncerSpecs \cup {NoSyncer}]
  /\ \A shape \in Shapes : shape.leaves \subseteq Leaves /\ shape.scalarSpec \in BOOLEAN
  /\ MaxRev \in Nat
  /\ Budget \in [Disturbances -> Nat]

Unset == -1    \* a destination field without value
Foreign == 0   \* a value written by somebody else than the syncer

VARIABLES
  source,   \* source[c][o]: the object on a source cluster
  view,     \* view[w][o]: the object as the last event of the watch had it
  queue,    \* queue[w]: the watcher's work queue
  syncers,  \* the KRMSyncers as the controllers' caches have them
  pods,     \* the controller processes that run
  work,     \* work[i]: what worker i is doing
  clients,  \* the remotes a pod built a push client for: <<pod, remote>>
  dest,     \* dest[d][o]: the object on a destination cluster
  nss,      \* nss[d]: the namespaces of a destination cluster
  failed,   \* failed[w]: the watcher's failure tracker
  gauge,    \* gauge[g]: syncer_failed_objects of a pod and GVK
  budget    \* how often the environment may still interfere

vars == <<source, view, queue, syncers, pods, work, clients, dest, nss, failed, gauge, budget>>

\* each pod exports a gauge for each GVK that it watches
Gauges == {<<w.pod, w.gvk>> : w \in Watchers}
FT == INSTANCE FailureTracker WITH
        Trackers <- Watchers, Keys <- Objects, Gauges <- Gauges,
        GaugeOf <- [w \in Watchers |-> <<w.pod, w.gvk>>]

NeverSeen == [rev |-> 0, live |-> FALSE, leaves |-> {}, scalarSpec |-> FALSE]
Gone == [live |-> FALSE, val |-> [f \in Leaves |-> Unset], mine |-> {}]
SourceOf(w) == IF w.mode = "pull" THEN w.cluster ELSE Local

Sources == {SourceOf(w) : w \in Watchers}
Destinations ==
  UNION {IF w.mode = "push" THEN Remotes \ Incomplete ELSE {Local} : w \in Watchers}

Phases == {"idle", "get", "list", "next", "client", "delete", "exists",
           "nsget", "nscreate", "patch", "status"}

SourceObjects ==
  [rev : 0..MaxRev, live : BOOLEAN, leaves : SUBSET Leaves, scalarSpec : BOOLEAN]
DestObjects ==
  [live : BOOLEAN, val : [Leaves -> Unset..MaxRev], mine : SUBSET Leaves]
WorkStates ==
  [pc : Phases, obj : Objects, snap : SourceObjects,
   list : [Syncers -> SyncerSpecs \cup {NoSyncer}],
   todo : SUBSET Tasks, task : Tasks, errs : BOOLEAN]

\* A worker without an item.  No rule comes after its task, so an attempt may start
\* with any KRMSyncer (NextTasks); the other fields are reset, not read.
Idle ==
  [pc |-> "idle", obj |-> CHOOSE o \in Objects : TRUE, snap |-> NeverSeen,
   list |-> InitSyncers, todo |-> {}, task |-> <<CHOOSE s \in Syncers : TRUE, MaxRules>>,
   errs |-> FALSE]

Init ==
  /\ source = [c \in Clusters |-> [o \in Objects |-> NeverSeen]]
  /\ view = [w \in Watchers |-> [o \in Objects |-> NeverSeen]]
  /\ queue = [w \in Watchers |-> EmptyQueue]
  /\ syncers = InitSyncers
  /\ pods = InitPods
  /\ work = [i \in Workers |-> Idle]
  /\ clients = {}
  /\ dest = [d \in Clusters |-> [o \in Objects |-> Gone]]
  /\ nss = [d \in Clusters |-> {}]
  /\ FT!TrackerInit
  /\ budget = Budget
------------------------------------------------------------------------------
(****************************************************************************)
(* Which rules a reconcile applies.                                         *)
(****************************************************************************)

\* the mode of a KRMSyncer: unset means pull
EffectiveMode(spec) == IF spec.mode = "" THEN "pull" ELSE spec.mode

\* the rules of the listed KRMSyncers that apply to object o of watcher w
Matching(w, o, list) ==
  {t \in Tasks :
     LET spec == list[t[1]] IN
     /\ spec # NoSyncer
     /\ ~spec.suspend
     /\ EffectiveMode(spec) = w.mode
     /\ w.mode = "pull" => spec.remote = w.cluster
     /\ t[2] \in DOMAIN spec.rules
     /\ ruleMatchesGVK(spec.rules[t[2]], w.gvk)
     /\ NamespaceMatches(spec.rules[t[2]], NsOf[o])}

\* mutant: the rules of a KRMSyncer are applied last to first
NextTasksReversed(wk) ==
  LET last == {t \in wk.todo : \A u \in wk.todo : u[1] = t[1] => t[2] >= u[2]}
      same == {t \in last : t[1] = wk.task[1] /\ t[2] < wk.task[2]}
  IN  IF same # {} THEN same ELSE last

\* The rules that may be applied next: those of one KRMSyncer in order, and the
\* KRMSyncers in any order (the cache lists them in no particular one).
NextTasks(wk) ==
  LET first == {t \in wk.todo : \A u \in wk.todo : u[1] = t[1] => t[2] <= u[2]}
      same == {t \in first : t[1] = wk.task[1] /\ t[2] > wk.task[2]}
  IN  IF same # {} THEN same ELSE first

RuleOf(wk) == wk.list[wk.task[1]].rules[wk.task[2]]
DestOf(w, spec) == IF w.mode = "push" THEN spec.remote ELSE Local
DestOfWorker(i) == DestOf(WatcherOf[i], work[i].list[work[i].task[1]])

\* what the rule copies of the object the worker read
Payload(wk) == filterFields(wk.snap.leaves, RuleOf(wk).fields)

\* mutant: the namespace is looked up for cluster scoped objects too
ApplyPhaseAlwaysNs(o) == "nsget"

\* the first call of applyToDestination: the namespace, if there is one
ApplyPhase(o) == IF NsOf[o] = NoNs THEN "patch" ELSE "nsget"

Spend(kind) == budget[kind] > 0 /\ budget' = [budget EXCEPT ![kind] = @ - 1]

\* a call to cluster d returns an error that the cluster's state does not explain
CallFails(d) == IF d \in Down THEN UNCHANGED budget ELSE Spend("fault")
CallSucceeds(d) == d \notin Down /\ UNCHANGED budget

\* a call to cluster d returns an error although it took effect
ReplyLost(d) == d \notin Down /\ Spend("fault")

Goto(i, phase) == work' = [work EXCEPT ![i].pc = phase]

\* mutant: the first error ends the reconcile, the remaining rules are not tried
RuleFailsFast(i) ==
  work' = [work EXCEPT ![i].pc = "next", ![i].errs = TRUE, ![i].todo = {}]

\* mutant: the error is logged only
RuleFailsLogged(i) == work' = [work EXCEPT ![i].pc = "next"]

\* syncErrors = append(syncErrors, err); continue
RuleFails(i) == work' = [work EXCEPT ![i].pc = "next", ![i].errs = TRUE]

\* the worker gives the item back to the queue
Return(i, q) ==
  /\ work' = [work EXCEPT ![i] = Idle]
  /\ queue' = [queue EXCEPT ![WatcherOf[i]] = q]

clusterVars == <<dest, nss>>
inputVars == <<source, view, syncers, pods>>
trackVars == <<failed, gauge>>
------------------------------------------------------------------------------
(****************************************************************************)
(* DynamicResourceReconciler.Reconcile, one step per call.                  *)
(****************************************************************************)

TakeItem(i, o) ==
  LET w == WatcherOf[i] IN
  /\ work[i].pc = "idle"
  /\ CanTake(queue[w], o)
  /\ queue' = [queue EXCEPT ![w] = Take(@, o)]
  /\ work' = [work EXCEPT ![i] = [Idle EXCEPT !.pc = "get", !.obj = o]]
  /\ UNCHANGED <<inputVars, clients, clusterVars, trackVars, budget>>

\* RemoteClient.Get, which reads unstructured objects from the cluster and not from
\* the cache: a missing object is a deletion, any other error a failure.
GetSource(i) ==
  LET w == WatcherOf[i]  o == work[i].obj IN
  /\ work[i].pc = "get"
  /\ \/ /\ CallSucceeds(SourceOf(w))
        /\ work' = [work EXCEPT ![i].snap = source[SourceOf(w)][o], ![i].pc = "list"]
        /\ UNCHANGED <<queue, trackVars>>
     \/ /\ CallFails(SourceOf(w))
        /\ FT!markFailed(w, o)
        /\ Return(i, Retry(queue[w], o))
  /\ UNCHANGED <<inputVars, clients, clusterVars>>

\* LocalClient.List: an error is returned without being recorded
ListSyncers(i) ==
  LET w == WatcherOf[i]  o == work[i].obj IN
  /\ work[i].pc = "list"
  /\ \/ /\ CallSucceeds(Local)
        /\ work' = [work EXCEPT ![i].list = syncers,
                                ![i].todo = Matching(w, o, syncers),
                                ![i].pc = "next"]
        /\ UNCHANGED queue
     \/ /\ CallFails(Local)
        /\ Return(i, Retry(queue[w], o))
  /\ UNCHANGED <<inputVars, clients, clusterVars, trackVars>>

\* mutant: the existence check of status mode is left out
StartRuleUnchecked(i, wk) ==
  work' = [work EXCEPT ![i] =
             IF ~wk.snap.live THEN [wk EXCEPT !.pc = "delete"]
             ELSE IF filterFieldsFails(wk.snap.scalarSpec, RuleOf(wk).fields)
             THEN [wk EXCEPT !.pc = "next", !.errs = TRUE]
             ELSE [wk EXCEPT !.pc = ApplyPhase(wk.obj)]]

\* mutant: an object missing at the source is skipped
StartRuleNoDelete(i, wk) ==
  work' = [work EXCEPT ![i] =
             IF ~wk.snap.live THEN [wk EXCEPT !.pc = "next"]
             ELSE IF isFullSync(RuleOf(wk).fields)
             THEN [wk EXCEPT !.pc = ApplyPhase(wk.obj)]
             ELSE [wk EXCEPT !.pc = "exists"]]

\* Where the body of the rule loop goes once it has a client: delete, fail to
\* filter, or apply, with the existence check of status mode before it.
StartRule(i, wk) ==
  LET fields == RuleOf(wk).fields IN
  work' = [work EXCEPT ![i] =
             IF ~wk.snap.live THEN [wk EXCEPT !.pc = "delete"]
             ELSE IF filterFieldsFails(wk.snap.scalarSpec, fields)
             THEN [wk EXCEPT !.pc = "next", !.errs = TRUE]
             ELSE IF isFullSync(fields) THEN [wk EXCEPT !.pc = ApplyPhase(wk.obj)]
             ELSE [wk EXCEPT !.pc = "exists"]]

BeginRule(i) ==
  /\ work[i].pc = "next"
  /\ \E t \in NextTasks(work[i]) :
       LET wk == [work[i] EXCEPT !.todo = @ \ {t}, !.task = t] IN
       IF WatcherOf[i].mode = "push"
       THEN work' = [work EXCEPT ![i] = [wk EXCEPT !.pc = "client"]]
       ELSE StartRule(i, wk)
  /\ UNCHANGED <<inputVars, queue, clients, clusterVars, trackVars, budget>>

\* getRemoteClient: clients are cached by remote, failures are not.  A remote without
\* a key fails every time.
GetClient(i) ==
  LET d == DestOfWorker(i)  client == <<WatcherOf[i].pod, d>> IN
  /\ work[i].pc = "client"
  /\ \/ /\ d \notin Incomplete
        /\ UNCHANGED budget
        /\ clients' = clients \cup {client}
        /\ StartRule(i, work[i])
     \/ /\ client \notin clients
        /\ IF d \in Incomplete THEN UNCHANGED budget ELSE Spend("fault")
        /\ RuleFails(i)
        /\ UNCHANGED clients
  /\ UNCHANGED <<inputVars, queue, clusterVars, trackVars>>

\* a missing object is not an error
DeleteDest(i) ==
  LET d == DestOfWorker(i) IN
  /\ work[i].pc = "delete"
  /\ \/ /\ dest' = [dest EXCEPT ![d][work[i].obj] = Gone]
        /\ \/ CallSucceeds(d) /\ Goto(i, "next")
           \/ ReplyLost(d) /\ RuleFails(i)
     \/ /\ CallFails(d)
        /\ RuleFails(i)
        /\ UNCHANGED dest
  /\ UNCHANGED <<inputVars, queue, clients, nss, trackVars>>

destinationExists(d, o) == dest[d][o].live

\* mutant: in status mode a missing destination object is skipped, not an error
CheckExistsSkips(i) ==
  LET d == DestOfWorker(i)  o == work[i].obj IN
  /\ work[i].pc = "exists"
  /\ \/ /\ CallSucceeds(d)
        /\ Goto(i, IF destinationExists(d, o) THEN ApplyPhase(o) ELSE "next")
     \/ /\ CallFails(d)
        /\ RuleFails(i)
  /\ UNCHANGED <<inputVars, queue, clients, clusterVars, trackVars>>

\* status mode updates objects that exist; a missing one is an error
CheckExists(i) ==
  LET d == DestOfWorker(i)  o == work[i].obj IN
  /\ work[i].pc = "exists"
  /\ \/ /\ CallSucceeds(d)
        /\ IF destinationExists(d, o) THEN Goto(i, ApplyPhase(o)) ELSE RuleFails(i)
     \/ /\ CallFails(d)
        /\ RuleFails(i)
  /\ UNCHANGED <<inputVars, queue, clients, clusterVars, trackVars>>

\* applyToDestination: does the namespace exist?  In pull mode the client of the
\* manager reads it from a cache, which may be behind.
GetNamespace(i) ==
  LET d == DestOfWorker(i)  o == work[i].obj IN
  /\ work[i].pc = "nsget"
  /\ \/ /\ CallSucceeds(d)
        /\ \/ NsOf[o] \in nss[d] /\ Goto(i, "patch")
           \/ /\ NsOf[o] \notin nss[d] \/ WatcherOf[i].mode = "pull"
              /\ Goto(i, "nscreate")
     \/ /\ CallFails(d)
        /\ RuleFails(i)
  /\ UNCHANGED <<inputVars, queue, clients, clusterVars, trackVars>>

\* mutant: AlreadyExists is an error
CreateNamespaceStrict(i) ==
  LET d == DestOfWorker(i)  o == work[i].obj IN
  /\ work[i].pc = "nscreate"
  /\ IF NsOf[o] \in nss[d]
     THEN RuleFails(i) /\ UNCHANGED <<nss, budget>>
     ELSE \/ /\ CallSucceeds(d)
             /\ nss' = [nss EXCEPT ![d] = @ \cup {NsOf[o]}]
             /\ Goto(i, "patch")
          \/ CallFails(d) /\ RuleFails(i) /\ UNCHANGED nss
  /\ UNCHANGED <<inputVars, queue, clients, dest, trackVars>>

\* applyToDestination: create it; AlreadyExists is ignored
CreateNamespace(i) ==
  LET d == DestOfWorker(i)  o == work[i].obj IN
  /\ work[i].pc = "nscreate"
  /\ \/ /\ nss' = [nss EXCEPT ![d] = @ \cup {NsOf[o]}]
        /\ \/ CallSucceeds(d) /\ Goto(i, "patch")
           \/ ReplyLost(d) /\ RuleFails(i)
     \/ /\ CallFails(d)
        /\ RuleFails(i)
        /\ UNCHANGED nss
  /\ UNCHANGED <<inputVars, queue, clients, dest, trackVars>>

\* Server-side apply of the object by field manager krm-syncer with force: the
\* fields sent are set and owned, the fields owned and not sent are removed, the
\* rest is left alone.  An absent object is created.  The API server ignores
\* status here: it belongs to the status subresource.
Applied(old, sent, rev) ==
  LET dropped == old.mine \ (sent \cup {"status"}) IN
  [live |-> TRUE,
   val  |-> [f \in Leaves |-> IF f \in sent THEN rev
                              ELSE IF f \in dropped THEN Unset ELSE old.val[f]],
   mine |-> sent \cup (old.mine \cap {"status"})]

\* server-side apply of the status subresource of an existing object
StatusApplied(old, rev) ==
  [old EXCEPT !.val = [@ EXCEPT !["status"] = rev], !.mine = @ \cup {"status"}]

PatchObject(i) ==
  LET d == DestOfWorker(i)  wk == work[i]  o == wk.obj
      nsMissing == NsOf[o] # NoNs /\ NsOf[o] \notin nss[d]
      sent == Payload(wk) \ {"status"}
  IN
  /\ wk.pc = "patch"
  /\ \/ /\ ~nsMissing
        /\ dest' = [dest EXCEPT ![d][o] = Applied(@, sent, wk.snap.rev)]
        /\ \/ /\ CallSucceeds(d)
              /\ Goto(i, IF "status" \in Payload(wk) THEN "status" ELSE "next")
           \/ ReplyLost(d) /\ RuleFails(i)
     \/ /\ (nsMissing /\ CallSucceeds(d)) \/ CallFails(d)
        /\ RuleFails(i)
        /\ UNCHANGED dest
  /\ UNCHANGED <<inputVars, queue, clients, nss, trackVars>>

\* mutant: an error of the status patch is dropped
PatchStatusLenient(i) ==
  LET d == DestOfWorker(i)  wk == work[i]  o == wk.obj IN
  /\ wk.pc = "status"
  /\ \/ /\ CallSucceeds(d)
        /\ dest[d][o].live
        /\ dest' = [dest EXCEPT ![d][o] = StatusApplied(@, wk.snap.rev)]
     \/ /\ (~dest[d][o].live /\ CallSucceeds(d)) \/ CallFails(d)
        /\ UNCHANGED dest
  /\ Goto(i, "next")
  /\ UNCHANGED <<inputVars, queue, clients, nss, trackVars>>

PatchStatus(i) ==
  LET d == DestOfWorker(i)  wk == work[i]  o == wk.obj IN
  /\ wk.pc = "status"
  /\ \/ /\ dest[d][o].live
        /\ dest' = [dest EXCEPT ![d][o] = StatusApplied(@, wk.snap.rev)]
        /\ \/ CallSucceeds(d) /\ Goto(i, "next")
           \/ ReplyLost(d) /\ RuleFails(i)
     \/ /\ (~dest[d][o].live /\ CallSucceeds(d)) \/ CallFails(d)
        /\ RuleFails(i)
        /\ UNCHANGED dest
  /\ UNCHANGED <<inputVars, queue, clients, nss, trackVars>>

\* mutant: the errors are recorded but not returned, so nothing is retried
FinishSwallows(i) ==
  LET w == WatcherOf[i]  o == work[i].obj IN
  /\ work[i].pc = "next"
  /\ work[i].todo = {}
  /\ IF work[i].errs THEN FT!markFailed(w, o) ELSE FT!markSucceeded(w, o)
  /\ Return(i, Done(queue[w], o))
  /\ UNCHANGED <<inputVars, clients, clusterVars, budget>>

\* all rules are done: record the outcome, and return the joined errors if any
Finish(i) ==
  LET w == WatcherOf[i]  o == work[i].obj IN
  /\ work[i].pc = "next"
  /\ work[i].todo = {}
  /\ IF work[i].errs
     THEN FT!markFailed(w, o) /\ Return(i, Retry(queue[w], o))
     ELSE FT!markSucceeded(w, o) /\ Return(i, Done(queue[w], o))
  /\ UNCHANGED <<inputVars, clients, clusterVars, budget>>

Reconcile(i) ==
  \/ GetSource(i) \/ ListSyncers(i) \/ BeginRule(i) \/ GetClient(i)
  \/ DeleteDest(i) \/ CheckExists(i) \/ GetNamespace(i) \/ CreateNamespace(i)
  \/ PatchObject(i) \/ PatchStatus(i) \/ Finish(i)
------------------------------------------------------------------------------
(****************************************************************************)
(* The watch and the queue (controller-runtime), and the environment.       *)
(****************************************************************************)

systemVars == <<pods, queue, work, clients, failed, gauge>>

\* The cache catches up with its source and the event enqueues the object.  What
\* is absent from both is no event: a deletion the cache never saw as an object
\* is not delivered.
Deliver(w, o) ==
  LET now == source[SourceOf(w)][o] IN
  /\ w.pod \in pods
  /\ view[w][o] # now
  /\ view[w][o].live \/ now.live
  /\ view' = [view EXCEPT ![w][o] = now]
  /\ queue' = [queue EXCEPT ![w] = Add(@, o)]
  /\ UNCHANGED <<source, syncers, pods, work, clients, clusterVars, trackVars, budget>>

\* mutant: the sync period is not passed on to the cache
ResyncNever(w, o) == FALSE /\ UNCHANGED vars

\* --sync-period: every object in the cache is enqueued again
Resync(w, o) ==
  /\ SyncPeriod
  /\ view[w][o].live
  /\ o \notin queue[w].dirty
  /\ queue' = [queue EXCEPT ![w] = Add(@, o)]
  /\ UNCHANGED <<inputVars, work, clients, clusterVars, trackVars, budget>>

BackoffExpires(w, o) ==
  /\ o \in queue[w].delayed
  /\ queue' = [queue EXCEPT ![w] = Expire(@, o)]
  /\ UNCHANGED <<inputVars, work, clients, clusterVars, trackVars, budget>>

SourceWrite(c, o, shape) ==
  /\ source[c][o].rev < MaxRev
  /\ source' = [source EXCEPT ![c][o] =
                  [rev |-> @.rev + 1, live |-> TRUE,
                   leaves |-> shape.leaves, scalarSpec |-> shape.scalarSpec]]
  /\ UNCHANGED <<view, syncers, systemVars, clusterVars, budget>>

SourceDelete(c, o) ==
  /\ source[c][o].live
  /\ source[c][o].rev < MaxRev
  /\ source' = [source EXCEPT ![c][o] = [NeverSeen EXCEPT !.rev = source[c][o].rev + 1]]
  /\ UNCHANGED <<view, syncers, systemVars, clusterVars, budget>>

\* a KRMSyncer is created, suspended, resumed, edited or deleted
EditSyncer(s, spec) ==
  /\ Spend("edit")
  /\ spec # syncers[s]
  /\ syncers' = [syncers EXCEPT ![s] = spec]
  /\ UNCHANGED <<source, view, systemVars, clusterVars>>

\* somebody else creates the object on a destination, with its namespace
DestCreate(d, o) ==
  /\ Spend("create")
  /\ ~dest[d][o].live
  /\ dest' = [dest EXCEPT ![d][o] = [Gone EXCEPT !.live = TRUE, !.val["body"] = Foreign]]
  /\ nss' = [nss EXCEPT ![d] = @ \cup ({NsOf[o]} \ {NoNs})]
  /\ UNCHANGED <<inputVars, systemVars>>

DestDelete(d, o) ==
  /\ Spend("remove")
  /\ dest[d][o].live
  /\ dest' = [dest EXCEPT ![d][o] = Gone]
  /\ UNCHANGED <<inputVars, systemVars, nss>>

DestNamespaceDelete(d, n) ==
  /\ Spend("remove")
  /\ n \in nss[d]
  /\ nss' = [nss EXCEPT ![d] = @ \ {n}]
  /\ dest' = [dest EXCEPT ![d] = [o \in Objects |-> IF NsOf[o] = n THEN Gone ELSE @[o]]]
  /\ UNCHANGED <<inputVars, systemVars>>

\* a controller process ends: all it knew was in memory
Forget(p) ==
  /\ view' = [w \in Watchers |->
                IF w.pod = p THEN [o \in Objects |-> NeverSeen] ELSE view[w]]
  /\ queue' = [w \in Watchers |-> IF w.pod = p THEN EmptyQueue ELSE queue[w]]
  /\ work' = [i \in Workers |-> IF WatcherOf[i].pod = p THEN Idle ELSE work[i]]
  /\ clients' = {c \in clients : c[1] # p}
  /\ FT!TrackerRestart({g \in Gauges : g[1] = p})

\* it dies and is started again
Crash(p) ==
  /\ p \in pods
  /\ Spend("crash")
  /\ Forget(p)
  /\ UNCHANGED <<source, syncers, pods, clusterVars>>

\* A rolling update of the Deployment starts the new pod first and stops the old
\* one once it runs, at whatever step its workers are.
Start(p) ==
  /\ p \notin pods
  /\ Spend("rollout")
  /\ pods' = pods \cup {p}
  /\ UNCHANGED <<source, view, syncers, queue, work, clients, trackVars, clusterVars>>

Stop(p) ==
  /\ p \in pods
  /\ pods # {p}
  /\ pods' = pods \ {p}
  /\ Forget(p)
  /\ UNCHANGED <<source, syncers, clusterVars, budget>>

Environment ==
  \/ \E c \in Sources, o \in Objects, shape \in Shapes : SourceWrite(c, o, shape)
  \/ \E c \in Sources, o \in Objects : SourceDelete(c, o)
  \/ \E s \in Syncers, spec \in SyncerSpecs \cup {NoSyncer} : EditSyncer(s, spec)
  \/ \E d \in Destinations, o \in Objects : DestCreate(d, o) \/ DestDelete(d, o)
  \/ \E d \in Destinations, n \in Namespaces : DestNamespaceDelete(d, n)
  \/ \E p \in Pods : Crash(p) \/ Start(p) \/ Stop(p)

Machinery ==
  \E w \in Watchers, o \in Objects : Deliver(w, o) \/ Resync(w, o) \/ BackoffExpires(w, o)

Next ==
  \/ \E i \in Workers, o \in Objects : TakeItem(i, o)
  \/ \E i \in Workers : Reconcile(i)
  \/ Machinery
  \/ Environment

Spec == Init /\ [][Next]_vars

\* Goroutines run, the watch delivers, backoffs end and, if enabled, the resync
\* timer fires.  The queue is first in first out, so an object that is waiting
\* again and again is taken (strong fairness).  Nothing is assumed of the
\* environment.
Fairness ==
  /\ \A i \in Workers : WF_vars(Reconcile(i))
  /\ \A w \in Watchers, o \in Objects :
       /\ SF_vars(\E i \in Workers : WatcherOf[i] = w /\ TakeItem(i, o))
       /\ WF_vars(Deliver(w, o))
       /\ WF_vars(Resync(w, o))
       /\ WF_vars(BackoffExpires(w, o))

FairSpec == Spec /\ Fairness
------------------------------------------------------------------------------
(****************************************************************************)
(* Properties.                                                              *)
(****************************************************************************)

\* Every variable has its type; in particular a worker that looks up or creates a
\* namespace (applyToDestination) has one, so nss holds namespaces only.
TypeOK ==
  /\ source \in [Clusters -> [Objects -> SourceObjects]]
  /\ view \in [Watchers -> [Objects -> SourceObjects]]
  /\ queue \in [Watchers -> Queues(Objects)]
  /\ syncers \in [Syncers -> SyncerSpecs \cup {NoSyncer}]
  /\ work \in [Workers -> WorkStates]
  /\ pods \in SUBSET Pods
  /\ clients \in SUBSET (Pods \X Clusters)
  /\ dest \in [Clusters -> [Objects -> DestObjects]]
  /\ nss \in [Clusters -> SUBSET Namespaces]
  /\ failed \in [Watchers -> SUBSET Objects]
  /\ gauge \in [Gauges -> Int]
  /\ budget \in [Disturbances -> Nat]

\* An object counted as failing is always scheduled for another attempt: it is
\* queued, being reconciled or in backoff, so it cannot stay counted for ever
\* with nobody looking at it.
FailedIsRetried == \A w \in Watchers : failed[w] \subseteq Scheduled(queue[w])

\* syncer_failed_objects of a GVK is the number of objects that the pod's watchers
\* of this GVK (one per remote cluster) hold as failing.
GaugeCountsFailing == FT!GaugeCountsFailing

\* the last rule of KRMSyncer s that worker i applies to its object
LastRule(i, s) ==
  LET wk == work[i]
      m == {t \in Matching(WatcherOf[i], wk.obj, wk.list) : t[1] = s}
  IN  {t \in m : \A u \in m : u[2] <= t[2]}

\* When an attempt is about to be recorded as a success, every destination holds
\* what the rules were to write: nothing of the syncer's is left if the source was
\* gone, else each field of a KRMSyncer's last rule has the value that was read.
\* A failure of one call among several is never reported as success.
SuccessMeansApplied ==
  \A i \in Workers :
    LET wk == work[i]  w == WatcherOf[i] IN
    wk.pc = "next" /\ wk.todo = {} /\ ~wk.errs =>
      \A s \in Syncers : \A t \in LastRule(i, s) :
        LET spec == wk.list[s]  copy == dest[DestOf(w, spec)][wk.obj] IN
        IF wk.snap.live
        THEN /\ copy.live
             /\ \A f \in filterFields(wk.snap.leaves, spec.rules[t[2]].fields) :
                  copy.val[f] = wk.snap.rev
        ELSE copy.mine = {}

\* A full sync only ever fails because a call failed or somebody else changed the
\* destination: workers that race to create the namespace of their objects do
\* not make each other fail.
FailureHasCause ==
  (\E i \in Workers : work[i].errs) \/ (\E w \in Watchers : failed[w] # {})
    => \E k \in {"fault", "create", "remove"} : budget[k] < Budget[k]

\* The syncer never replaces a destination field by an older revision of the
\* source: reads of one object are ordered by the queue, and a worker writes
\* only what it read in this attempt.
NoStaleOverwrite ==
  [][\A d \in Clusters, o \in Objects, f \in Leaves :
       dest[d][o].val[f] > Foreign /\ dest'[d][o].val[f] > Foreign
         => dest'[d][o].val[f] >= dest[d][o].val[f]]_vars

\* An object appears on the destination with a body only, written by a full sync
\* or by somebody else: in status mode the syncer "must not create a stub".
StatusModeNeverCreates ==
  [][\A d \in Clusters, o \in Objects :
       ~dest[d][o].live /\ dest'[d][o].live => dest'[d][o].val["body"] # Unset]_vars

\* A resource ID the syncer copied is not taken away from an object that is kept
\* on the destination.
ResourceIDKept ==
  [][\A d \in Clusters, o \in Objects :
       dest[d][o].val["resourceID"] > Foreign /\ dest'[d][o].live
         => dest'[d][o].val["resourceID"] # Unset]_vars

\* the destinations that a worker has no way to reach
Unreachable == Down \cup Incomplete

\* the rules in force for object o of watcher w that reach a live cluster
Reaching(w, o) ==
  {t \in Matching(w, o, syncers) : DestOf(w, syncers[t[1]]) \notin Unreachable}

LastReaching(w, o) ==
  {t \in Reaching(w, o) : \A u \in Reaching(w, o) : u[1] = t[1] => u[2] <= t[2]}

Copy(w, o, t) == dest[DestOf(w, syncers[t[1]])][o]

\* the destination of rule t has the source's current fields
UpToDate(w, o, t) ==
  LET now == source[SourceOf(w)][o] IN
  \A f \in filterFields(now.leaves, syncers[t[1]].rules[t[2]].fields) :
    Copy(w, o, t).val[f] = now.rev

\* filterFields refuses the object as it is now
Refused(w, o, t) ==
  filterFieldsFails(source[SourceOf(w)][o].scalarSpec, syncers[t[1]].rules[t[2]].fields)

\* Once the source stops changing, every object of the source reaches every
\* destination that can be reached, whatever failed on the way: with its current
\* fields, unless they cannot be filtered, and in status mode if the destination
\* has the object at all.
UpdatesReflected ==
  <>[](\A w \in Watchers, o \in Objects : source[SourceOf(w)][o].live =>
         \A t \in LastReaching(w, o) :
           /\ ~Refused(w, o, t)
           /\ isFullSync(syncers[t[1]].rules[t[2]].fields) \/ Copy(w, o, t).live
           => Copy(w, o, t).live /\ UpToDate(w, o, t))

\* An object deleted from the source is eventually gone from the destinations.
DeletionsPropagate ==
  <>[](\A w \in Watchers, o \in Objects :
         source[SourceOf(w)][o].rev > 0 /\ ~source[SourceOf(w)][o].live =>
           \A t \in LastReaching(w, o) : ~Copy(w, o, t).live)

\* When calls stop failing at random, the objects counted as failing are exactly
\* those the syncer can do nothing about: a destination cannot be reached, the
\* fields cannot be filtered, or in status mode the destination lacks the object.
\* These stay counted.
FailuresSettle ==
  <>[](\A w \in Watchers, o \in Objects : w.pod \in pods =>
         (o \in failed[w] <=>
           \E t \in Matching(w, o, syncers) :
             IF DestOf(w, syncers[t[1]]) \in Unreachable
             THEN view[w][o] # NeverSeen
             ELSE /\ source[SourceOf(w)][o].live
                  /\ Refused(w, o, t) \/ ~Copy(w, o, t).live))
==============================================================================

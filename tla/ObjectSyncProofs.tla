-------------------------- MODULE ObjectSyncProofs --------------------------
(****************************************************************************)
(* Invariants of ObjectSync, for any number of objects, watchers, workers,  *)
(* KRMSyncers and rules, and any amount of interference.                    *)
(****************************************************************************)
EXTENDS ObjectSync, FiniteSetTheorems, TLAPS

FTP == INSTANCE FailureTrackerProofs WITH
         Trackers <- Watchers, Keys <- Objects, Gauges <- Gauges,
         GaugeOf <- [w \in Watchers |-> <<w.pod, w.gvk>>]

\* the phases in which a worker is applying a rule
RulePhases == {"client", "delete", "exists", "nsget", "nscreate", "patch", "status"}

\* a worker only ever applies rules of KRMSyncers it listed, and looks for the
\* namespace of namespaced objects only
TaskExists(wk) ==
  /\ \A t \in wk.todo : wk.list[t[1]] # NoSyncer
  /\ wk.pc \in RulePhases => wk.list[wk.task[1]] # NoSyncer
  /\ wk.pc \in {"nsget", "nscreate"} => NsOf[wk.obj] # NoNs
TasksExist == \A i \in Workers : TaskExists(work[i])

WorkOK == work \in [Workers -> WorkStates] /\ TasksExist

LEMMA IdleType == Idle \in WorkStates
<1>1. (CHOOSE o \in Objects : TRUE) \in Objects
  BY SyncAssumption
<1>2. (CHOOSE s \in Syncers : TRUE) \in Syncers /\ MaxRules \in 1..MaxRules
  BY SyncAssumption
<1>3. <<CHOOSE s \in Syncers : TRUE, MaxRules>> \in Tasks
  BY <1>2 DEF Tasks
<1>4. NeverSeen \in SourceObjects
  BY SyncAssumption DEF NeverSeen, SourceObjects
<1> QED BY <1>1, <1>3, <1>4, SyncAssumption DEF Idle, WorkStates, Phases

LEMMA GoneType == Gone \in DestObjects
BY SyncAssumption DEF Gone, DestObjects, Unset

LEMMA AppliedType ==
  ASSUME NEW old \in DestObjects, NEW sent \in SUBSET Leaves, NEW rev \in 0..MaxRev
  PROVE  Applied(old, sent, rev) \in DestObjects
BY SyncAssumption DEF Applied, DestObjects, Unset

LEMMA StatusAppliedType ==
  ASSUME NEW old \in DestObjects, NEW rev \in 0..MaxRev
  PROVE  StatusApplied(old, rev) \in DestObjects
<1>1. "status" \in Leaves
  BY DEF Leaves
<1>2. rev \in Unset..MaxRev
  BY SyncAssumption DEF Unset
<1>3. [old.val EXCEPT !["status"] = rev] \in [Leaves -> Unset..MaxRev]
  BY <1>2 DEF DestObjects
<1>4. old.mine \cup {"status"} \in SUBSET Leaves
  BY <1>1 DEF DestObjects
<1> QED BY <1>3, <1>4 DEF StatusApplied, DestObjects

LEMMA UpdateType ==
  ASSUME NEW A, NEW B, NEW T, NEW f \in [A -> [B -> T]],
         NEW x \in A, NEW y \in B, NEW v \in T
  PROVE  [f EXCEPT ![x][y] = v] \in [A -> [B -> T]]
OBVIOUS

LEMMA SourceOfType ==
  ASSUME NEW w \in Watchers
  PROVE  SourceOf(w) \in Clusters
BY SyncAssumption DEF SourceOf, Clusters

LEMMA InitType == Init => TypeOK
<1> SUFFICES ASSUME Init PROVE TypeOK
  OBVIOUS
<1>1. NeverSeen \in SourceObjects
  BY SyncAssumption DEF NeverSeen, SourceObjects
<1>2. EmptyQueue \in Queues(Objects)
  BY DEF EmptyQueue, Queues
<1> QED BY <1>1, <1>2, IdleType, GoneType, SyncAssumption
        DEF Init, TypeOK, FT!TrackerInit

\* the ways a step changes the state of a worker keep its type
LEMMA WorkUpdate ==
  ASSUME WorkOK, NEW i \in Workers, NEW wk \in WorkStates, TaskExists(wk),
         work' = [work EXCEPT ![i] = wk]
  PROVE  WorkOK'
BY DEF WorkOK, TasksExist, TaskExists

LEMMA IdleOK == TaskExists(Idle)
BY DEF TaskExists, Idle, RulePhases

LEMMA GotoOK ==
  ASSUME WorkOK, NEW i \in Workers, NEW phase \in Phases, Goto(i, phase),
         phase \in RulePhases => work[i].pc \in RulePhases,
         phase \in {"nsget", "nscreate"} => NsOf[work[i].obj] # NoNs
  PROVE  WorkOK'
<1> DEFINE wk == [work[i] EXCEPT !.pc = phase]
<1>1. wk \in WorkStates
  BY DEF WorkOK, WorkStates
<1>2. TaskExists(work[i])
  BY DEF WorkOK, TasksExist
<1>3. /\ wk.pc = phase /\ wk.todo = work[i].todo /\ wk.obj = work[i].obj
      /\ wk.list = work[i].list /\ wk.task = work[i].task
  BY DEF WorkOK, WorkStates
<1>4. TaskExists(wk)
  BY <1>2, <1>3 DEF TaskExists
<1>5. work' = [work EXCEPT ![i] = wk]
  BY DEF Goto
<1> QED BY <1>1, <1>4, <1>5, WorkUpdate

LEMMA RuleFailsOK ==
  ASSUME WorkOK, NEW i \in Workers, RuleFails(i)
  PROVE  WorkOK'
<1> DEFINE wk == [work[i] EXCEPT !.pc = "next", !.errs = TRUE]
<1>1. wk \in WorkStates
  BY DEF WorkOK, WorkStates, Phases
<1>2. TaskExists(work[i])
  BY DEF WorkOK, TasksExist
<1>3. /\ wk.pc = "next" /\ wk.todo = work[i].todo /\ wk.list = work[i].list
  BY DEF WorkOK, WorkStates
<1>4. TaskExists(wk)
  BY <1>2, <1>3 DEF TaskExists, RulePhases
<1>5. work' = [work EXCEPT ![i] = wk]
  BY DEF RuleFails, WorkOK, WorkStates
<1> QED BY <1>1, <1>4, <1>5, WorkUpdate

LEMMA ApplyPhaseType ==
  ASSUME NEW o
  PROVE  /\ ApplyPhase(o) \in {"patch", "nsget"}
         /\ ApplyPhase(o) = "nsget" => NsOf[o] # NoNs
BY DEF ApplyPhase

LEMMA StartRuleOK ==
  ASSUME WorkOK, NEW i \in Workers, NEW wk \in WorkStates, StartRule(i, wk),
         \A t \in wk.todo : wk.list[t[1]] # NoSyncer,
         wk.list[wk.task[1]] # NoSyncer
  PROVE  WorkOK'
<1>1. PICK phase \in {"delete", "next", "patch", "nsget", "exists"}, e \in BOOLEAN :
        /\ work' = [work EXCEPT ![i] = [wk EXCEPT !.pc = phase, !.errs = e]]
        /\ phase = "nsget" => NsOf[wk.obj] # NoNs
  <2>1. wk.errs \in BOOLEAN /\ \A ph : [wk EXCEPT !.pc = ph]
                                    = [wk EXCEPT !.pc = ph, !.errs = wk.errs]
    BY DEF WorkStates
  <2>2. CASE ~wk.snap.live
    BY <2>1, <2>2 DEF StartRule
  <2>3. CASE wk.snap.live /\ filterFieldsFails(wk.snap.scalarSpec, RuleOf(wk).fields)
    BY <2>3 DEF StartRule
  <2>4. CASE /\ wk.snap.live /\ isFullSync(RuleOf(wk).fields)
             /\ ~filterFieldsFails(wk.snap.scalarSpec, RuleOf(wk).fields)
    <3>1. work' = [work EXCEPT ![i] = [wk EXCEPT !.pc = ApplyPhase(wk.obj)]]
      BY <2>4 DEF StartRule
    <3>2. /\ ApplyPhase(wk.obj) \in {"patch", "nsget"}
          /\ ApplyPhase(wk.obj) = "nsget" => NsOf[wk.obj] # NoNs
      BY ApplyPhaseType
    <3> QED BY <2>1, <3>1, <3>2
  <2>5. CASE /\ wk.snap.live /\ ~isFullSync(RuleOf(wk).fields)
             /\ ~filterFieldsFails(wk.snap.scalarSpec, RuleOf(wk).fields)
    BY <2>1, <2>5 DEF StartRule
  <2> QED BY <2>2, <2>3, <2>4, <2>5
<1> DEFINE new == [wk EXCEPT !.pc = phase, !.errs = e]
<1>2. new \in WorkStates
  BY DEF WorkStates, Phases
<1>3. /\ new.todo = wk.todo /\ new.list = wk.list /\ new.task = wk.task
      /\ new.pc = phase /\ new.obj = wk.obj
  BY DEF WorkStates
<1>4. TaskExists(new)
  BY <1>1, <1>3 DEF TaskExists
<1> QED BY <1>1, <1>2, <1>4, WorkUpdate

LEMMA ReturnOK ==
  ASSUME WorkOK, NEW i \in Workers, NEW q, Return(i, q)
  PROVE  WorkOK'
BY WorkUpdate, IdleType, IdleOK DEF Return
------------------------------------------------------------------------------
(****************************************************************************)
(* Type correctness.                                                        *)
(****************************************************************************)

IndInv == TypeOK /\ TasksExist

LEMMA IndInvFacts ==
  ASSUME IndInv, NEW i \in Workers
  PROVE  /\ WorkOK
         /\ WatcherOf[i] \in Watchers
         /\ work[i] \in WorkStates
         /\ TaskExists(work[i])
         /\ queue[WatcherOf[i]] \in Queues(Objects)
         /\ work[i].obj \in Objects
BY SyncAssumption DEF IndInv, TypeOK, TasksExist, WorkOK, WorkStates

LEMMA QueueOps ==
  ASSUME NEW q \in Queues(Objects), NEW o \in Objects
  PROVE  /\ Add(q, o) \in Queues(Objects)
         /\ Take(q, o) \in Queues(Objects)
         /\ Done(q, o) \in Queues(Objects)
         /\ Retry(q, o) \in Queues(Objects)
         /\ Expire(q, o) \in Queues(Objects)
BY DEF Queues, Add, Take, Done, Retry, Expire

\* the failure tracker operations keep the types of failed and gauge
LEMMA MarkType ==
  ASSUME TypeOK, NEW w \in Watchers, NEW o \in Objects,
         FT!markFailed(w, o) \/ FT!markSucceeded(w, o)
  PROVE  failed' \in [Watchers -> SUBSET Objects] /\ gauge' \in [Gauges -> Int]
<1>1. failed' \in [Watchers -> SUBSET Objects]
  BY DEF TypeOK, FT!markFailed, FT!markSucceeded, FT!trackerVars
<1>2. PICK n \in Int : gauge' = [gauge EXCEPT ![<<w.pod, w.gvk>>] = n]
  <2> DEFINE g == <<w.pod, w.gvk>>
  <2>1. gauge \in [Gauges -> Int] /\ g \in Gauges
    BY DEF TypeOK, Gauges
  <2>2. gauge[g] \in Int /\ gauge[g] + 1 \in Int /\ gauge[g] - 1 \in Int
    BY <2>1
  <2>3. gauge = [gauge EXCEPT ![g] = gauge[g]]
    BY <2>1
  <2>4. \/ UNCHANGED gauge
        \/ gauge' = [gauge EXCEPT ![g] = gauge[g] + 1]
        \/ gauge' = [gauge EXCEPT ![g] = gauge[g] - 1]
    BY DEF FT!markFailed, FT!markSucceeded, FT!trackerVars
  <2> QED BY <2>2, <2>3, <2>4
<1>3. gauge' \in [Gauges -> Int]
  BY <1>2 DEF TypeOK
<1> QED BY <1>1, <1>3

LEMMA SpendType ==
  ASSUME TypeOK, NEW kind \in Disturbances, Spend(kind)
  PROVE  budget' \in [Disturbances -> Nat]
<1>1. budget[kind] \in Nat /\ budget[kind] > 0
  BY DEF TypeOK, Spend
<1>2. budget[kind] - 1 \in Nat
  BY <1>1
<1> QED BY <1>2 DEF Spend, TypeOK

LEMMA CallType ==
  ASSUME TypeOK, NEW d, CallFails(d) \/ CallSucceeds(d) \/ ReplyLost(d)
  PROVE  budget' \in [Disturbances -> Nat]
<1>1. "fault" \in Disturbances
  BY DEF Disturbances
<1> QED BY <1>1, SpendType DEF CallFails, CallSucceeds, ReplyLost, TypeOK

\* In a rule phase the worker has a destination.
LEMMA DestOfWorkerType ==
  ASSUME IndInv, NEW i \in Workers, work[i].pc \in RulePhases
  PROVE  DestOfWorker(i) \in Clusters
<1>1. work[i].list[work[i].task[1]] # NoSyncer
  BY IndInvFacts DEF TaskExists
<1>2. work[i].task[1] \in Syncers /\ work[i].list \in [Syncers -> SyncerSpecs \cup {NoSyncer}]
  BY IndInvFacts DEF WorkStates, Tasks
<1>3. work[i].list[work[i].task[1]] \in SyncerSpecs
  BY <1>1, <1>2
<1>4. work[i].list[work[i].task[1]].remote \in Remotes
  BY <1>3, SyncAssumption
<1> QED BY <1>4 DEF DestOfWorker, DestOf, Clusters

LEMMA TakeItemType ==
  ASSUME IndInv, NEW i \in Workers, NEW o \in Objects, TakeItem(i, o)
  PROVE  IndInv'
<1> DEFINE wk == [Idle EXCEPT !.pc = "get", !.obj = o]
<1>1. wk \in WorkStates
  BY IdleType DEF WorkStates, Phases
<1>2. TaskExists(wk)
  BY DEF TaskExists, Idle, RulePhases
<1>3. WorkOK'
  BY <1>1, <1>2, WorkUpdate, IndInvFacts DEF TakeItem
<1>4. queue' \in [Watchers -> Queues(Objects)]
  BY QueueOps, IndInvFacts DEF TakeItem, IndInv, TypeOK
<1> QED BY <1>3, <1>4 DEF TakeItem, IndInv, TypeOK, WorkOK,
           inputVars, clusterVars, trackVars

LEMMA GetSourceType ==
  ASSUME IndInv, NEW i \in Workers, GetSource(i)
  PROVE  IndInv'
<1> DEFINE w == WatcherOf[i]
           o == work[i].obj
<1>1. budget' \in [Disturbances -> Nat]
  BY CallType DEF GetSource, IndInv
<1>2. CASE /\ work' = [work EXCEPT ![i].snap = source[SourceOf(w)][o], ![i].pc = "list"]
           /\ UNCHANGED <<queue, trackVars>>
  <2> DEFINE wk == [work[i] EXCEPT !.snap = source[SourceOf(w)][o], !.pc = "list"]
  <2>1. source[SourceOf(w)][o] \in SourceObjects
    BY IndInvFacts, SourceOfType DEF IndInv, TypeOK
  <2>2. wk \in WorkStates
    BY <2>1, IndInvFacts DEF WorkStates, Phases
  <2>3. wk.todo = work[i].todo /\ wk.list = work[i].list /\ wk.pc = "list"
    BY IndInvFacts DEF WorkStates
  <2>4. TaskExists(wk)
    BY <2>3, IndInvFacts DEF TaskExists, RulePhases
  <2>5. work' = [work EXCEPT ![i] = wk]
    BY <1>2, IndInvFacts DEF WorkStates
  <2>6. WorkOK'
    BY <2>2, <2>4, <2>5, WorkUpdate, IndInvFacts
  <2> QED BY <1>1, <1>2, <2>6 DEF GetSource, IndInv, TypeOK, WorkOK,
             inputVars, clusterVars, trackVars
<1>3. CASE FT!markFailed(w, o) /\ Return(i, Retry(queue[w], o))
  <2>1. WorkOK'
    BY <1>3, ReturnOK, IndInvFacts
  <2>2. queue' \in [Watchers -> Queues(Objects)]
    BY <1>3, QueueOps, IndInvFacts DEF Return, IndInv, TypeOK
  <2>3. failed' \in [Watchers -> SUBSET Objects] /\ gauge' \in [Gauges -> Int]
    BY <1>3, MarkType, IndInvFacts DEF IndInv
  <2> QED BY <1>1, <2>1, <2>2, <2>3 DEF GetSource, IndInv, TypeOK, WorkOK,
             inputVars, clusterVars
<1> QED BY <1>2, <1>3 DEF GetSource

LEMMA MatchingExists ==
  ASSUME NEW w, NEW o, NEW list, NEW t \in Matching(w, o, list)
  PROVE  t \in Tasks /\ list[t[1]] # NoSyncer
BY DEF Matching

LEMMA ListSyncersType ==
  ASSUME IndInv, NEW i \in Workers, ListSyncers(i)
  PROVE  IndInv'
<1> DEFINE w == WatcherOf[i]
           o == work[i].obj
<1>1. budget' \in [Disturbances -> Nat]
  BY CallType DEF ListSyncers, IndInv
<1>2. CASE /\ work' = [work EXCEPT ![i].list = syncers,
                                   ![i].todo = Matching(w, o, syncers),
                                   ![i].pc = "next"]
           /\ UNCHANGED queue
  <2> DEFINE wk == [work[i] EXCEPT !.list = syncers,
                                   !.todo = Matching(w, o, syncers), !.pc = "next"]
  <2>1. Matching(w, o, syncers) \in SUBSET Tasks
    BY MatchingExists
  <2>2. wk \in WorkStates
    BY <2>1, IndInvFacts DEF WorkStates, Phases, IndInv, TypeOK
  <2>3. wk.todo = Matching(w, o, syncers) /\ wk.list = syncers /\ wk.pc = "next"
    BY IndInvFacts DEF WorkStates
  <2>4. TaskExists(wk)
    BY <2>3, MatchingExists DEF TaskExists, RulePhases
  <2>5. work' = [work EXCEPT ![i] = wk]
    BY <1>2, IndInvFacts DEF WorkStates
  <2>6. WorkOK'
    BY <2>2, <2>4, <2>5, WorkUpdate, IndInvFacts
  <2> QED BY <1>1, <1>2, <2>6 DEF ListSyncers, IndInv, TypeOK, WorkOK,
             inputVars, clusterVars, trackVars
<1>3. CASE Return(i, Retry(queue[w], o))
  <2>1. WorkOK'
    BY <1>3, ReturnOK, IndInvFacts
  <2>2. queue' \in [Watchers -> Queues(Objects)]
    BY <1>3, QueueOps, IndInvFacts DEF Return, IndInv, TypeOK
  <2> QED BY <1>1, <2>1, <2>2 DEF ListSyncers, IndInv, TypeOK, WorkOK,
             inputVars, clusterVars, trackVars
<1> QED BY <1>2, <1>3 DEF ListSyncers

LEMMA NextTasksType ==
  ASSUME NEW wk \in WorkStates, NEW t \in NextTasks(wk)
  PROVE  t \in wk.todo
BY DEF NextTasks

LEMMA BeginRuleType ==
  ASSUME IndInv, NEW i \in Workers, BeginRule(i)
  PROVE  IndInv'
<1>1. PICK t \in NextTasks(work[i]) :
        LET wk == [work[i] EXCEPT !.todo = @ \ {t}, !.task = t] IN
        IF WatcherOf[i].mode = "push"
        THEN work' = [work EXCEPT ![i] = [wk EXCEPT !.pc = "client"]]
        ELSE StartRule(i, wk)
  BY DEF BeginRule
<1> DEFINE wk == [work[i] EXCEPT !.todo = @ \ {t}, !.task = t]
<1>2. t \in work[i].todo /\ t \in Tasks
  BY NextTasksType, IndInvFacts DEF WorkStates
<1>3. wk \in WorkStates
  BY <1>2, IndInvFacts DEF WorkStates
<1>4. wk.todo = work[i].todo \ {t} /\ wk.task = t /\ wk.list = work[i].list
  BY IndInvFacts DEF WorkStates
<1>5. \A u \in work[i].todo : work[i].list[u[1]] # NoSyncer
  BY IndInvFacts DEF TaskExists
<1>6. /\ \A u \in wk.todo : wk.list[u[1]] # NoSyncer
      /\ wk.list[wk.task[1]] # NoSyncer
  BY <1>2, <1>4, <1>5
<1>7. ASSUME WatcherOf[i].mode = "push" PROVE WorkOK'
  <2> DEFINE new == [wk EXCEPT !.pc = "client"]
  <2>1. new \in WorkStates
    BY <1>3 DEF WorkStates, Phases
  <2>2. /\ new.todo = wk.todo /\ new.list = wk.list /\ new.task = wk.task
        /\ new.pc = "client"
    BY <1>3 DEF WorkStates
  <2>3. TaskExists(new)
    BY <1>6, <2>2 DEF TaskExists
  <2>4. work' = [work EXCEPT ![i] = new]
    BY <1>1, <1>7
  <2>5. WorkOK
    BY IndInvFacts
  <2> HIDE DEF new
  <2> QED BY <2>1, <2>3, <2>4, <2>5, WorkUpdate
<1>8. ASSUME WatcherOf[i].mode # "push" PROVE WorkOK'
  <2>1. StartRule(i, wk)
    BY <1>1, <1>8
  <2>2. WorkOK
    BY IndInvFacts
  <2> HIDE DEF wk
  <2> QED BY <1>3, <1>6, <2>1, <2>2, StartRuleOK
<1>9. WorkOK'
  BY <1>7, <1>8
<1> QED BY <1>9 DEF BeginRule, IndInv, TypeOK, WorkOK,
           inputVars, clusterVars, trackVars

LEMMA GetClientType ==
  ASSUME IndInv, NEW i \in Workers, GetClient(i)
  PROVE  IndInv'
<1>1. work[i].pc \in RulePhases
  BY DEF GetClient, RulePhases
<1>2. DestOfWorker(i) \in Clusters
  BY <1>1, DestOfWorkerType
<1>3. WorkOK'
  <2>1. CASE StartRule(i, work[i])
    BY <1>1, <2>1, StartRuleOK, IndInvFacts DEF TaskExists
  <2>2. CASE RuleFails(i)
    BY <2>2, RuleFailsOK, IndInvFacts
  <2> QED BY <2>1, <2>2 DEF GetClient
<1>4. budget' \in [Disturbances -> Nat]
  <2>1. "fault" \in Disturbances
    BY DEF Disturbances
  <2> QED BY <2>1, SpendType DEF GetClient, IndInv, TypeOK
<1>5. clients' \in SUBSET (Pods \X Clusters)
  BY <1>2, IndInvFacts, SyncAssumption DEF GetClient, IndInv, TypeOK
<1> QED BY <1>3, <1>4, <1>5 DEF GetClient, IndInv, TypeOK, WorkOK,
           inputVars, clusterVars, trackVars

LEMMA DeleteDestType ==
  ASSUME IndInv, NEW i \in Workers, DeleteDest(i)
  PROVE  IndInv'
<1>1. WorkOK'
  BY GotoOK, RuleFailsOK, IndInvFacts DEF DeleteDest, Phases, RulePhases
<1>2. budget' \in [Disturbances -> Nat]
  BY CallType DEF DeleteDest, IndInv
<1>3. dest' \in [Clusters -> [Objects -> DestObjects]]
  <2>1. DestOfWorker(i) \in Clusters /\ work[i].obj \in Objects
    BY DestOfWorkerType, IndInvFacts DEF DeleteDest, RulePhases
  <2>2. [dest EXCEPT ![DestOfWorker(i)][work[i].obj] = Gone]
          \in [Clusters -> [Objects -> DestObjects]]
    BY <2>1, GoneType, UpdateType DEF IndInv, TypeOK
  <2> QED BY <2>2 DEF DeleteDest, IndInv, TypeOK
<1> QED BY <1>1, <1>2, <1>3 DEF DeleteDest, IndInv, TypeOK, WorkOK,
           inputVars, trackVars

LEMMA CheckExistsType ==
  ASSUME IndInv, NEW i \in Workers, CheckExists(i)
  PROVE  IndInv'
<1>1. work[i].pc \in RulePhases
  BY DEF CheckExists, RulePhases
<1>2. /\ ApplyPhase(work[i].obj) \in {"patch", "nsget"}
      /\ ApplyPhase(work[i].obj) = "nsget" => NsOf[work[i].obj] # NoNs
      /\ {"patch", "nsget"} \subseteq Phases
  BY ApplyPhaseType DEF Phases
<1>3. WorkOK'
  BY <1>1, <1>2, GotoOK, RuleFailsOK, IndInvFacts DEF CheckExists
<1>4. budget' \in [Disturbances -> Nat]
  BY CallType DEF CheckExists, IndInv
<1> QED BY <1>3, <1>4 DEF CheckExists, IndInv, TypeOK, WorkOK,
           inputVars, clusterVars, trackVars

LEMMA GetNamespaceType ==
  ASSUME IndInv, NEW i \in Workers, GetNamespace(i)
  PROVE  IndInv'
<1>1. work[i].pc \in RulePhases
  BY DEF GetNamespace, RulePhases
<1>2. "patch" \in Phases /\ "nscreate" \in Phases
  BY DEF Phases
<1>3. WorkOK'
  BY <1>1, <1>2, GotoOK, RuleFailsOK, IndInvFacts DEF GetNamespace, TaskExists
<1>4. budget' \in [Disturbances -> Nat]
  BY CallType DEF GetNamespace, IndInv
<1> QED BY <1>3, <1>4 DEF GetNamespace, IndInv, TypeOK, WorkOK,
           inputVars, clusterVars, trackVars

LEMMA CreateNamespaceType ==
  ASSUME IndInv, NEW i \in Workers, CreateNamespace(i)
  PROVE  IndInv'
<1>1. WorkOK'
  BY GotoOK, RuleFailsOK, IndInvFacts DEF CreateNamespace, Phases, RulePhases
<1>2. budget' \in [Disturbances -> Nat]
  BY CallType DEF CreateNamespace, IndInv
<1>3. NsOf[work[i].obj] \in Namespaces
  BY IndInvFacts, SyncAssumption DEF CreateNamespace, TaskExists
<1>4. nss' \in [Clusters -> SUBSET Namespaces]
  <2> DEFINE d == DestOfWorker(i)
  <2>1. d \in Clusters
    BY DestOfWorkerType DEF CreateNamespace, RulePhases
  <2>2. nss[d] \cup {NsOf[work[i].obj]} \in SUBSET Namespaces
    BY <1>3, <2>1 DEF IndInv, TypeOK
  <2>3. [nss EXCEPT ![d] = nss[d] \cup {NsOf[work[i].obj]}] \in [Clusters -> SUBSET Namespaces]
    BY <2>1, <2>2 DEF IndInv, TypeOK
  <2> QED BY <2>3 DEF CreateNamespace, IndInv, TypeOK
<1> QED BY <1>1, <1>2, <1>4 DEF CreateNamespace, IndInv, TypeOK, WorkOK,
           inputVars, trackVars

LEMMA PatchObjectType ==
  ASSUME IndInv, NEW i \in Workers, PatchObject(i)
  PROVE  IndInv'
<1> DEFINE d == DestOfWorker(i)
           o == work[i].obj
           sent == Payload(work[i]) \ {"status"}
<1>1. WorkOK'
  BY GotoOK, RuleFailsOK, IndInvFacts DEF PatchObject, Phases, RulePhases
<1>2. budget' \in [Disturbances -> Nat]
  BY CallType DEF PatchObject, IndInv
<1>3. work[i].snap.rev \in 0..MaxRev /\ work[i].snap.leaves \in SUBSET Leaves
  BY IndInvFacts DEF WorkStates, SourceObjects
<1>4. sent \in SUBSET Leaves
  BY <1>3 DEF Payload, filterFields
<1>5. dest' \in [Clusters -> [Objects -> DestObjects]]
  <2>1. d \in Clusters /\ o \in Objects
    BY DestOfWorkerType, IndInvFacts DEF PatchObject, RulePhases
  <2>2. dest[d][o] \in DestObjects
    BY <2>1 DEF IndInv, TypeOK
  <2>3. Applied(dest[d][o], sent, work[i].snap.rev) \in DestObjects
    BY <1>3, <1>4, <2>2, AppliedType
  <2>4. [dest EXCEPT ![d][o] = Applied(dest[d][o], sent, work[i].snap.rev)]
          \in [Clusters -> [Objects -> DestObjects]]
    BY <2>1, <2>3, UpdateType DEF IndInv, TypeOK
  <2> QED BY <2>4 DEF PatchObject, IndInv, TypeOK
<1> QED BY <1>1, <1>2, <1>5 DEF PatchObject, IndInv, TypeOK, WorkOK,
           inputVars, trackVars

LEMMA PatchStatusType ==
  ASSUME IndInv, NEW i \in Workers, PatchStatus(i)
  PROVE  IndInv'
<1> DEFINE d == DestOfWorker(i)
           o == work[i].obj
<1>1. WorkOK'
  BY GotoOK, RuleFailsOK, IndInvFacts DEF PatchStatus, Phases, RulePhases
<1>2. budget' \in [Disturbances -> Nat]
  BY CallType DEF PatchStatus, IndInv
<1>3. work[i].snap.rev \in 0..MaxRev
  BY IndInvFacts DEF WorkStates, SourceObjects
<1>4. dest' \in [Clusters -> [Objects -> DestObjects]]
  <2>1. d \in Clusters /\ o \in Objects
    BY DestOfWorkerType, IndInvFacts DEF PatchStatus, RulePhases
  <2>2. dest[d][o] \in DestObjects
    BY <2>1 DEF IndInv, TypeOK
  <2>3. StatusApplied(dest[d][o], work[i].snap.rev) \in DestObjects
    BY <1>3, <2>2, StatusAppliedType
  <2>4. [dest EXCEPT ![d][o] = StatusApplied(dest[d][o], work[i].snap.rev)]
          \in [Clusters -> [Objects -> DestObjects]]
    BY <2>1, <2>3, UpdateType DEF IndInv, TypeOK
  <2> QED BY <2>4 DEF PatchStatus, IndInv, TypeOK
<1> QED BY <1>1, <1>2, <1>4 DEF PatchStatus, IndInv, TypeOK, WorkOK,
           inputVars, trackVars

LEMMA FinishType ==
  ASSUME IndInv, NEW i \in Workers, Finish(i)
  PROVE  IndInv'
<1> DEFINE w == WatcherOf[i]
           o == work[i].obj
<1>1. PICK q \in {Retry(queue[w], o), Done(queue[w], o)} : Return(i, q)
  BY DEF Finish
<1>2. WorkOK'
  BY <1>1, ReturnOK, IndInvFacts
<1>3. queue' \in [Watchers -> Queues(Objects)]
  BY <1>1, QueueOps, IndInvFacts DEF Return, IndInv, TypeOK
<1>4. failed' \in [Watchers -> SUBSET Objects] /\ gauge' \in [Gauges -> Int]
  BY MarkType, IndInvFacts DEF Finish, IndInv
<1> QED BY <1>2, <1>3, <1>4 DEF Finish, IndInv, TypeOK, WorkOK,
           inputVars, clusterVars

LEMMA ReconcileType ==
  ASSUME IndInv, NEW i \in Workers, Reconcile(i)
  PROVE  IndInv'
BY GetSourceType, ListSyncersType, BeginRuleType, GetClientType, DeleteDestType,
   CheckExistsType, GetNamespaceType, CreateNamespaceType, PatchObjectType,
   PatchStatusType, FinishType DEF Reconcile

LEMMA MachineryType ==
  ASSUME IndInv, Machinery
  PROVE  IndInv'
<1>1. PICK w \in Watchers, o \in Objects : Deliver(w, o) \/ Resync(w, o) \/ BackoffExpires(w, o)
  BY DEF Machinery
<1>2. queue[w] \in Queues(Objects)
  BY DEF IndInv, TypeOK
<1>3. queue' \in [Watchers -> Queues(Objects)]
  BY <1>1, <1>2, QueueOps DEF Deliver, Resync, BackoffExpires, IndInv, TypeOK
<1>4. view' \in [Watchers -> [Objects -> SourceObjects]]
  <2>1. CASE Deliver(w, o)
    <3>1. source[SourceOf(w)][o] \in SourceObjects
      BY SourceOfType DEF IndInv, TypeOK
    <3>2. [view EXCEPT ![w][o] = source[SourceOf(w)][o]]
            \in [Watchers -> [Objects -> SourceObjects]]
      BY <3>1, UpdateType DEF IndInv, TypeOK
    <3> QED BY <2>1, <3>2 DEF Deliver
  <2>2. CASE Resync(w, o) \/ BackoffExpires(w, o)
    BY <2>2 DEF Resync, BackoffExpires, inputVars, IndInv, TypeOK
  <2> QED BY <1>1, <2>1, <2>2
<1>5. UNCHANGED <<source, syncers, pods, work, clients, clusterVars, trackVars, budget>>
  BY <1>1 DEF Deliver, Resync, BackoffExpires, inputVars
<1> QED BY <1>3, <1>4, <1>5 DEF IndInv, TypeOK, TasksExist, clusterVars, trackVars

LEMMA SourceStepType ==
  ASSUME IndInv, NEW c \in Clusters, NEW o \in Objects,
         (\E shape \in Shapes : SourceWrite(c, o, shape)) \/ SourceDelete(c, o)
  PROVE  IndInv'
<1>1. source[c][o] \in SourceObjects
  BY DEF IndInv, TypeOK
<1>2. PICK new \in SourceObjects : source' = [source EXCEPT ![c][o] = new]
  <2>1. ASSUME NEW shape \in Shapes, SourceWrite(c, o, shape)
        PROVE  \E new \in SourceObjects : source' = [source EXCEPT ![c][o] = new]
    <3>1. source[c][o].rev + 1 \in 0..MaxRev
      BY <1>1, <2>1, SyncAssumption DEF SourceWrite, SourceObjects
    <3>2. [rev |-> source[c][o].rev + 1, live |-> TRUE, leaves |-> shape.leaves,
           scalarSpec |-> shape.scalarSpec] \in SourceObjects
      BY <3>1, SyncAssumption DEF SourceObjects
    <3> QED BY <2>1, <3>2 DEF SourceWrite
  <2>2. ASSUME SourceDelete(c, o)
        PROVE  \E new \in SourceObjects : source' = [source EXCEPT ![c][o] = new]
    <3>1. source[c][o].rev + 1 \in 0..MaxRev
      BY <1>1, <2>2, SyncAssumption DEF SourceDelete, SourceObjects
    <3>2. [NeverSeen EXCEPT !.rev = source[c][o].rev + 1] \in SourceObjects
      BY <3>1 DEF SourceObjects, NeverSeen
    <3> QED BY <2>2, <3>2 DEF SourceDelete
  <2> QED BY <2>1, <2>2
<1>3. source' \in [Clusters -> [Objects -> SourceObjects]]
  BY <1>2, UpdateType DEF IndInv, TypeOK
<1>4. UNCHANGED <<view, syncers, systemVars, clusterVars, budget>>
  BY DEF SourceWrite, SourceDelete
<1> QED BY <1>3, <1>4 DEF IndInv, TypeOK, TasksExist, systemVars, clusterVars

LEMMA DestStepType ==
  ASSUME IndInv, NEW d \in Clusters,
         \/ \E o \in Objects : DestCreate(d, o) \/ DestDelete(d, o)
         \/ \E n \in Namespaces : DestNamespaceDelete(d, n)
  PROVE  IndInv'
<1>1. budget' \in [Disturbances -> Nat]
  <2>1. "create" \in Disturbances /\ "remove" \in Disturbances
    BY DEF Disturbances
  <2> QED BY <2>1, SpendType DEF DestCreate, DestDelete, DestNamespaceDelete, IndInv
<1>2. ASSUME NEW o \in Objects, DestCreate(d, o)
      PROVE  /\ dest' \in [Clusters -> [Objects -> DestObjects]]
             /\ nss' \in [Clusters -> SUBSET Namespaces]
  <2> DEFINE new == [Gone EXCEPT !.live = TRUE, !.val["body"] = Foreign]
  <2>1. new \in DestObjects
    <3>1. Foreign \in Unset..MaxRev
      BY SyncAssumption DEF Foreign, Unset
    <3> QED BY <3>1, GoneType DEF DestObjects, Gone
  <2>2. [dest EXCEPT ![d][o] = new] \in [Clusters -> [Objects -> DestObjects]]
    BY <2>1, UpdateType DEF IndInv, TypeOK
  <2>3. {NsOf[o]} \ {NoNs} \in SUBSET Namespaces
    BY SyncAssumption
  <2> QED BY <1>2, <2>2, <2>3 DEF DestCreate, IndInv, TypeOK
<1>3. ASSUME NEW o \in Objects, DestDelete(d, o)
      PROVE  /\ dest' \in [Clusters -> [Objects -> DestObjects]]
             /\ nss' \in [Clusters -> SUBSET Namespaces]
  <2>1. [dest EXCEPT ![d][o] = Gone] \in [Clusters -> [Objects -> DestObjects]]
    BY GoneType, UpdateType DEF IndInv, TypeOK
  <2> QED BY <1>3, <2>1 DEF DestDelete, IndInv, TypeOK
<1>4. ASSUME NEW n \in Namespaces, DestNamespaceDelete(d, n)
      PROVE  /\ dest' \in [Clusters -> [Objects -> DestObjects]]
             /\ nss' \in [Clusters -> SUBSET Namespaces]
  <2>1. [o \in Objects |-> IF NsOf[o] = n THEN Gone ELSE dest[d][o]]
          \in [Objects -> DestObjects]
    BY GoneType DEF IndInv, TypeOK
  <2> QED BY <1>4, <2>1 DEF DestNamespaceDelete, IndInv, TypeOK
<1>5. UNCHANGED <<inputVars, systemVars>>
  BY DEF DestCreate, DestDelete, DestNamespaceDelete
<1>6. /\ dest' \in [Clusters -> [Objects -> DestObjects]]
      /\ nss' \in [Clusters -> SUBSET Namespaces]
  BY <1>2, <1>3, <1>4
<1> QED BY <1>1, <1>5, <1>6 DEF IndInv, TypeOK, TasksExist, inputVars, systemVars

LEMMA EditSyncerType ==
  ASSUME IndInv, NEW s \in Syncers, NEW spec \in SyncerSpecs \cup {NoSyncer},
         EditSyncer(s, spec)
  PROVE  IndInv'
<1>1. budget' \in [Disturbances -> Nat]
  <2>1. "edit" \in Disturbances
    BY DEF Disturbances
  <2> QED BY <2>1, SpendType DEF EditSyncer, IndInv
<1>2. syncers' \in [Syncers -> SyncerSpecs \cup {NoSyncer}]
  BY DEF EditSyncer, IndInv, TypeOK
<1> QED BY <1>1, <1>2 DEF EditSyncer, IndInv, TypeOK, TasksExist, systemVars, clusterVars

\* what the other pods know, and what the clusters hold, is not touched
LEMMA ForgetType ==
  ASSUME IndInv, NEW p \in Pods, Forget(p), pods' \in SUBSET Pods,
         UNCHANGED <<source, syncers, clusterVars>>, budget' \in [Disturbances -> Nat]
  PROVE  IndInv'
<1>1. NeverSeen \in SourceObjects
  BY SyncAssumption DEF NeverSeen, SourceObjects
<1>2. EmptyQueue \in Queues(Objects)
  BY DEF EmptyQueue, Queues
<1>3. view' \in [Watchers -> [Objects -> SourceObjects]]
  BY <1>1 DEF Forget, IndInv, TypeOK
<1>4. queue' \in [Watchers -> Queues(Objects)]
  BY <1>2 DEF Forget, IndInv, TypeOK
<1>5. work' \in [Workers -> WorkStates]
  BY IdleType DEF Forget, IndInv, TypeOK
<1>6. TasksExist'
  <2>1. \A i \in Workers : work'[i] = Idle \/ work'[i] = work[i]
    BY DEF Forget
  <2>2. \A i \in Workers : TaskExists(work'[i])
    BY <2>1, IdleOK DEF IndInv, TasksExist
  <2> QED BY <2>2 DEF TasksExist, TaskExists
<1>7. /\ failed' \in [Watchers -> SUBSET Objects]
      /\ gauge' \in [Gauges -> Int]
      /\ clients' \in SUBSET (Pods \X Clusters)
  BY DEF Forget, FT!TrackerRestart, IndInv, TypeOK
<1> QED BY <1>3, <1>4, <1>5, <1>6, <1>7 DEF IndInv, TypeOK, clusterVars

LEMMA PodStepType ==
  ASSUME IndInv, NEW p \in Pods, Crash(p) \/ Start(p) \/ Stop(p)
  PROVE  IndInv'
<1>1. "crash" \in Disturbances /\ "rollout" \in Disturbances
  BY DEF Disturbances
<1>2. CASE Crash(p)
  BY <1>1, <1>2, SpendType, ForgetType DEF Crash, IndInv, TypeOK
<1>3. CASE Stop(p)
  BY <1>3, ForgetType DEF Stop, IndInv, TypeOK
<1>4. CASE Start(p)
  BY <1>1, <1>4, SpendType DEF Start, IndInv, TypeOK, TasksExist, trackVars, clusterVars
<1> QED BY <1>2, <1>3, <1>4

LEMMA SourcesSubset == Sources \subseteq Clusters /\ Destinations \subseteq Clusters
BY SourceOfType, SyncAssumption DEF Sources, Destinations, Clusters

LEMMA StepType ==
  ASSUME IndInv, [Next]_vars
  PROVE  IndInv'
<1>1. ASSUME Environment PROVE IndInv'
  BY <1>1, SourcesSubset, SourceStepType, EditSyncerType, DestStepType, PodStepType
     DEF Environment
<1>2. ASSUME UNCHANGED vars PROVE IndInv'
  BY <1>2 DEF vars, IndInv, TypeOK, TasksExist
<1> QED BY <1>1, <1>2, TakeItemType, ReconcileType, MachineryType DEF Next

LEMMA InitIndInv == Init => IndInv
BY InitType, IdleOK DEF Init, IndInv, TasksExist

\* the inductive invariant behind type correctness
THEOREM IndInvHolds == Spec => []IndInv
BY InitIndInv, StepType, PTL DEF Spec

\* Every variable of the object watchers keeps its type: in particular a worker
\* never runs a rule of a KRMSyncer that its list did not contain, and never
\* creates a namespace for a cluster scoped object.
THEOREM TypeCorrect == Spec => []TypeOK
BY IndInvHolds, PTL DEF IndInv
------------------------------------------------------------------------------
(****************************************************************************)
(* What a step of a reconcile does to the queue and the tracker: it goes on *)
(* with the same object, or it returns the object, to be retried unless the *)
(* tracker has it as succeeded.                                             *)
(****************************************************************************)

GoesOn(i) ==
  /\ UNCHANGED <<queue, trackVars>>
  /\ work'[i].pc # "idle"
  /\ work'[i].obj = work[i].obj
  /\ \A j \in Workers : j # i => work'[j] = work[j]

ReturnsError(i) ==
  LET w == WatcherOf[i]  o == work[i].obj IN
  /\ Return(i, Retry(queue[w], o))
  /\ FT!markFailed(w, o) \/ UNCHANGED trackVars

ReturnsSuccess(i) ==
  LET w == WatcherOf[i]  o == work[i].obj IN
  /\ Return(i, Done(queue[w], o))
  /\ FT!markSucceeded(w, o)

LEMMA GotoGoesOn ==
  ASSUME IndInv, NEW i \in Workers, NEW phase, Goto(i, phase) \/ RuleFails(i),
         phase # "idle", UNCHANGED <<queue, trackVars>>
  PROVE  GoesOn(i)
BY IndInvFacts DEF Goto, RuleFails, GoesOn, WorkStates, WorkOK

LEMMA StartRuleGoesOn ==
  ASSUME IndInv, NEW i \in Workers, NEW wk \in WorkStates, StartRule(i, wk),
         wk.obj = work[i].obj, UNCHANGED <<queue, trackVars>>
  PROVE  GoesOn(i)
<1>1. ApplyPhase(wk.obj) # "idle"
  BY ApplyPhaseType
<1>2. work \in [Workers -> WorkStates]
  BY IndInvFacts DEF WorkOK
<1>3. PICK new \in WorkStates :
        /\ work' = [work EXCEPT ![i] = new]
        /\ new.pc # "idle" /\ new.obj = wk.obj
  <2>1. \A ph \in Phases : [wk EXCEPT !.pc = ph] \in WorkStates
    BY DEF WorkStates
  <2>2. \A ph \in Phases : [wk EXCEPT !.pc = ph].pc = ph /\ [wk EXCEPT !.pc = ph].obj = wk.obj
    BY DEF WorkStates
  <2>3. /\ [wk EXCEPT !.pc = "next", !.errs = TRUE] \in WorkStates
        /\ [wk EXCEPT !.pc = "next", !.errs = TRUE].pc = "next"
        /\ [wk EXCEPT !.pc = "next", !.errs = TRUE].obj = wk.obj
    BY DEF WorkStates, Phases
  <2>4. {"delete", "exists", ApplyPhase(wk.obj)} \subseteq Phases
    BY ApplyPhaseType DEF Phases
  <2>5. \/ \E ph \in {"delete", "exists", ApplyPhase(wk.obj)} :
             work' = [work EXCEPT ![i] = [wk EXCEPT !.pc = ph]]
        \/ work' = [work EXCEPT ![i] = [wk EXCEPT !.pc = "next", !.errs = TRUE]]
    BY DEF StartRule
  <2>6. ASSUME NEW ph \in {"delete", "exists", ApplyPhase(wk.obj)},
               work' = [work EXCEPT ![i] = [wk EXCEPT !.pc = ph]]
        PROVE  \E new \in WorkStates : /\ work' = [work EXCEPT ![i] = new]
                                       /\ new.pc # "idle" /\ new.obj = wk.obj
    <3> DEFINE n == [wk EXCEPT !.pc = ph]
    <3>1. ph \in Phases /\ ph # "idle"
      BY <1>1, <2>4
    <3>2. n \in WorkStates /\ n.pc = ph /\ n.obj = wk.obj /\ work' = [work EXCEPT ![i] = n]
      BY <2>1, <2>2, <2>6, <3>1
    <3> HIDE DEF n
    <3> QED BY <3>1, <3>2
  <2>7. ASSUME work' = [work EXCEPT ![i] = [wk EXCEPT !.pc = "next", !.errs = TRUE]]
        PROVE  \E new \in WorkStates : /\ work' = [work EXCEPT ![i] = new]
                                       /\ new.pc # "idle" /\ new.obj = wk.obj
    <3> DEFINE n == [wk EXCEPT !.pc = "next", !.errs = TRUE]
    <3>1. n \in WorkStates /\ n.pc = "next" /\ n.obj = wk.obj /\ work' = [work EXCEPT ![i] = n]
      BY <2>3, <2>7
    <3> HIDE DEF n
    <3> QED BY <3>1
  <2> QED BY <2>5, <2>6, <2>7
<1> QED BY <1>2, <1>3 DEF GoesOn

LEMMA ReconcileShape ==
  ASSUME IndInv, NEW i \in Workers, Reconcile(i)
  PROVE  /\ work[i].pc # "idle"
         /\ GoesOn(i) \/ ReturnsError(i) \/ ReturnsSuccess(i)
<1> DEFINE w == WatcherOf[i]
           o == work[i].obj
<1>0. work[i] \in WorkStates /\ work \in [Workers -> WorkStates]
  BY IndInvFacts DEF WorkOK
<1>1. CASE GetSource(i)
  <2>1. CASE /\ work' = [work EXCEPT ![i].snap = source[SourceOf(w)][o], ![i].pc = "list"]
             /\ UNCHANGED <<queue, trackVars>>
    <3>1. GoesOn(i)
      BY <1>0, <2>1 DEF GoesOn, WorkStates
    <3> QED BY <1>1, <3>1 DEF GetSource
  <2>2. CASE FT!markFailed(w, o) /\ Return(i, Retry(queue[w], o))
    BY <1>1, <2>2 DEF GetSource, ReturnsError
  <2> QED BY <1>1, <2>1, <2>2 DEF GetSource
<1>2. CASE ListSyncers(i)
  <2>1. CASE /\ work' = [work EXCEPT ![i].list = syncers,
                                     ![i].todo = Matching(w, o, syncers),
                                     ![i].pc = "next"]
             /\ UNCHANGED queue
    <3>1. GoesOn(i)
      BY <1>0, <1>2, <2>1 DEF ListSyncers, GoesOn, WorkStates
    <3> QED BY <1>2, <3>1 DEF ListSyncers
  <2>2. CASE Return(i, Retry(queue[w], o))
    BY <1>2, <2>2 DEF ListSyncers, ReturnsError
  <2> QED BY <1>2, <2>1, <2>2 DEF ListSyncers
<1>3. CASE BeginRule(i)
  <2>1. PICK t \in NextTasks(work[i]) :
          LET wk == [work[i] EXCEPT !.todo = @ \ {t}, !.task = t] IN
          IF WatcherOf[i].mode = "push"
          THEN work' = [work EXCEPT ![i] = [wk EXCEPT !.pc = "client"]]
          ELSE StartRule(i, wk)
    BY <1>3 DEF BeginRule
  <2> DEFINE wk == [work[i] EXCEPT !.todo = @ \ {t}, !.task = t]
  <2>2. wk \in WorkStates /\ wk.obj = o
    BY <1>0, NextTasksType DEF WorkStates
  <2>3. UNCHANGED <<queue, trackVars>> /\ work[i].pc # "idle"
    BY <1>3 DEF BeginRule
  <2>4. CASE WatcherOf[i].mode = "push"
    <3>1. work' = [work EXCEPT ![i] = [wk EXCEPT !.pc = "client"]]
      BY <2>1, <2>4
    <3>2. [wk EXCEPT !.pc = "client"].pc = "client" /\ [wk EXCEPT !.pc = "client"].obj = o
      BY <2>2 DEF WorkStates
    <3> HIDE DEF wk
    <3> QED BY <1>0, <2>3, <3>1, <3>2 DEF GoesOn
  <2>5. CASE WatcherOf[i].mode # "push"
    <3>1. StartRule(i, wk)
      BY <2>1, <2>5
    <3> HIDE DEF wk
    <3> QED BY <2>2, <2>3, <3>1, StartRuleGoesOn
  <2> QED BY <2>4, <2>5
<1>4. CASE GetClient(i)
  BY <1>0, <1>4, StartRuleGoesOn, GotoGoesOn DEF GetClient
<1>5. CASE DeleteDest(i)
  BY <1>5, GotoGoesOn DEF DeleteDest
<1>6. CASE CheckExists(i)
  BY <1>6, GotoGoesOn, ApplyPhaseType DEF CheckExists
<1>7. CASE GetNamespace(i)
  BY <1>7, GotoGoesOn DEF GetNamespace
<1>8. CASE CreateNamespace(i)
  BY <1>8, GotoGoesOn DEF CreateNamespace
<1>9. CASE PatchObject(i)
  BY <1>9, GotoGoesOn DEF PatchObject
<1>10. CASE PatchStatus(i)
  BY <1>10, GotoGoesOn DEF PatchStatus
<1>11. CASE Finish(i)
  BY <1>11 DEF Finish, ReturnsError, ReturnsSuccess
<1> QED BY <1>1, <1>2, <1>3, <1>4, <1>5, <1>6, <1>7, <1>8, <1>9, <1>10, <1>11
        DEF Reconcile

\* the environment leaves queues, workers and trackers alone unless a pod ends
LEMMA EnvironmentShape ==
  ASSUME Environment
  PROVE  (\E p \in Pods : Forget(p)) \/ UNCHANGED <<queue, work, trackVars>>
BY DEF Environment, SourceWrite, SourceDelete, EditSyncer, DestCreate, DestDelete,
       DestNamespaceDelete, Crash, Start, Stop, systemVars, trackVars
------------------------------------------------------------------------------
(****************************************************************************)
(* No two workers hold the same object.                                     *)
(****************************************************************************)

Busy(w) == {i \in Workers : WatcherOf[i] = w /\ work[i].pc # "idle"}

\* The items a queue has handed out are those of the watcher's busy workers, and no
\* two of these hold the same object.  The queue (controller-runtime) sees to that;
\* what the watchers make of it rests on it.
OneWorkerPerObject ==
  \A w \in Watchers :
    /\ queue[w].processing = {work[i].obj : i \in Busy(w)}
    /\ \A i, j \in Busy(w) : work[i].obj = work[j].obj => i = j

LEMMA OneWorkerTake ==
  ASSUME IndInv, OneWorkerPerObject, NEW i \in Workers, NEW o \in Objects, TakeItem(i, o)
  PROVE  OneWorkerPerObject'
<1> DEFINE v == WatcherOf[i]
<1>1. v \in Watchers /\ queue \in [Watchers -> Queues(Objects)]
  BY SyncAssumption DEF IndInv, TypeOK
<1>2. /\ work'[i].pc = "get" /\ work'[i].obj = o
      /\ \A j \in Workers : j # i => work'[j] = work[j]
  BY DEF TakeItem, IndInv, TypeOK, Idle
<1>3. /\ queue'[v].processing = queue[v].processing \cup {o}
      /\ \A w \in Watchers : w # v => queue'[w] = queue[w]
  BY <1>1 DEF TakeItem, Take, Queues
<1>4. work[i].pc = "idle" /\ o \notin queue[v].processing
  BY DEF TakeItem, CanTake
<1>5. ASSUME NEW w \in Watchers
      PROVE  /\ queue'[w].processing = {work'[j].obj : j \in Busy(w)'}
             /\ \A j, k \in Busy(w)' : work'[j].obj = work'[k].obj => j = k
  <2>1. CASE w = v
    <3>1. Busy(w)' = Busy(w) \cup {i} /\ i \notin Busy(w)
      BY <1>2, <1>4, <2>1 DEF Busy
    <3>2. \A j \in Busy(w) : j # i /\ work'[j].obj = work[j].obj
      BY <1>2, <3>1 DEF Busy
    <3>3. queue[w].processing = {work[j].obj : j \in Busy(w)}
      BY DEF OneWorkerPerObject
    <3> QED BY <1>2, <1>3, <1>4, <2>1, <3>1, <3>2, <3>3 DEF OneWorkerPerObject
  <2>2. CASE w # v
    <3>1. Busy(w)' = Busy(w)
      BY <1>2, <1>4, <2>2 DEF Busy
    <3>2. \A j \in Busy(w) : work'[j].obj = work[j].obj
      BY <1>2, <2>2 DEF Busy
    <3> QED BY <1>3, <2>2, <3>1, <3>2 DEF OneWorkerPerObject
  <2> QED BY <2>1, <2>2
<1> QED BY <1>5 DEF OneWorkerPerObject

LEMMA OneWorkerGoesOn ==
  ASSUME OneWorkerPerObject, NEW i \in Workers, work[i].pc # "idle", GoesOn(i)
  PROVE  OneWorkerPerObject'
<1>1. \A j \in Workers : /\ work'[j].obj = work[j].obj
                         /\ work'[j].pc # "idle" <=> work[j].pc # "idle"
  BY DEF GoesOn
<1>2. ASSUME NEW w \in Watchers
      PROVE  /\ queue'[w].processing = {work'[j].obj : j \in Busy(w)'}
             /\ \A j, k \in Busy(w)' : work'[j].obj = work'[k].obj => j = k
  <2>1. Busy(w)' = Busy(w)
    BY <1>1 DEF Busy
  <2>2. \A j \in Busy(w) : work'[j].obj = work[j].obj
    BY <1>1 DEF Busy
  <2>3. queue'[w] = queue[w]
    BY DEF GoesOn
  <2> QED BY <2>1, <2>2, <2>3 DEF OneWorkerPerObject
<1> QED BY <1>2 DEF OneWorkerPerObject

LEMMA OneWorkerReturn ==
  ASSUME IndInv, OneWorkerPerObject, NEW i \in Workers, work[i].pc # "idle",
         \/ Return(i, Retry(queue[WatcherOf[i]], work[i].obj))
         \/ Return(i, Done(queue[WatcherOf[i]], work[i].obj))
  PROVE  OneWorkerPerObject'
<1> DEFINE v == WatcherOf[i]
<1>1. v \in Watchers /\ queue \in [Watchers -> Queues(Objects)]
  BY SyncAssumption DEF IndInv, TypeOK
<1>2. /\ work'[i].pc = "idle"
      /\ \A j \in Workers : j # i => work'[j] = work[j]
  BY DEF Return, IndInv, TypeOK, Idle
<1>3. /\ queue'[v].processing = queue[v].processing \ {work[i].obj}
      /\ \A w \in Watchers : w # v => queue'[w] = queue[w]
  BY <1>1 DEF Return, Retry, Done, Queues
<1>4. ASSUME NEW w \in Watchers
      PROVE  /\ queue'[w].processing = {work'[j].obj : j \in Busy(w)'}
             /\ \A j, k \in Busy(w)' : work'[j].obj = work'[k].obj => j = k
  <2>1. Busy(w)' = Busy(w) \ {i}
    BY <1>2 DEF Busy
  <2>2. \A j \in Busy(w)' : work'[j].obj = work[j].obj
    BY <1>2, <2>1 DEF Busy
  <2>3. CASE w = v
    <3>1. i \in Busy(w)
      BY <2>3 DEF Busy
    <3>2. \A j \in Busy(w) : work[j].obj = work[i].obj => j = i
      BY <3>1 DEF OneWorkerPerObject
    <3>3. queue[w].processing = {work[j].obj : j \in Busy(w)}
      BY DEF OneWorkerPerObject
    <3> QED BY <1>3, <2>1, <2>2, <2>3, <3>1, <3>2, <3>3 DEF OneWorkerPerObject
  <2>4. CASE w # v
    <3>1. i \notin Busy(w)
      BY <2>4 DEF Busy
    <3> QED BY <1>3, <2>1, <2>2, <2>4, <3>1 DEF OneWorkerPerObject
  <2> QED BY <2>3, <2>4
<1> QED BY <1>4 DEF OneWorkerPerObject

\* steps that leave the workers and what they process alone
LEMMA OneWorkerSame ==
  ASSUME OneWorkerPerObject, UNCHANGED work,
         \A w \in Watchers : queue'[w].processing = queue[w].processing
  PROVE  OneWorkerPerObject'
BY DEF OneWorkerPerObject, Busy

LEMMA OneWorkerStep ==
  ASSUME IndInv, OneWorkerPerObject, [Next]_vars
  PROVE  OneWorkerPerObject'
<1>1. ASSUME NEW i \in Workers, Reconcile(i) PROVE OneWorkerPerObject'
  BY <1>1, ReconcileShape, OneWorkerGoesOn, OneWorkerReturn DEF ReturnsError, ReturnsSuccess
<1>2. ASSUME Machinery PROVE OneWorkerPerObject'
  <2>1. UNCHANGED work
    BY <1>2 DEF Machinery, Deliver, Resync, BackoffExpires
  <2>2. \A w \in Watchers : queue'[w].processing = queue[w].processing
    <3>1. PICK v \in Watchers, o \in Objects : Deliver(v, o) \/ Resync(v, o) \/ BackoffExpires(v, o)
      BY <1>2 DEF Machinery
    <3>2. queue' = [queue EXCEPT ![v] = Add(queue[v], o)]
            \/ queue' = [queue EXCEPT ![v] = Expire(queue[v], o)]
      BY <3>1 DEF Deliver, Resync, BackoffExpires
    <3>3. /\ queue \in [Watchers -> Queues(Objects)]
          /\ queue[v] \in Queues(Objects)
      BY DEF IndInv, TypeOK
    <3>4. /\ Add(queue[v], o).processing = queue[v].processing
          /\ Expire(queue[v], o).processing = queue[v].processing
      BY <3>3 DEF Add, Expire, Queues
    <3> QED BY <3>2, <3>3, <3>4
  <2> QED BY <2>1, <2>2, OneWorkerSame
<1>3. ASSUME NEW p \in Pods, Forget(p) PROVE OneWorkerPerObject'
  <2>1. ASSUME NEW w \in Watchers
        PROVE  /\ queue'[w].processing = {work'[i].obj : i \in Busy(w)'}
               /\ \A i, j \in Busy(w)' : work'[i].obj = work'[j].obj => i = j
    <3>1. CASE w.pod = p
      <4>1. Busy(w)' = {}
        BY <1>3, <3>1 DEF Forget, Busy, Idle
      <4>2. queue'[w].processing = {}
        BY <1>3, <3>1 DEF Forget, EmptyQueue
      <4> QED BY <4>1, <4>2
    <3>2. CASE w.pod # p
      <4>1. \A i \in Workers : WatcherOf[i] = w => work'[i] = work[i]
        BY <1>3, <3>2 DEF Forget
      <4>2. Busy(w)' = Busy(w) /\ \A i \in Busy(w) : work'[i].obj = work[i].obj
        BY <4>1 DEF Busy
      <4>3. queue'[w] = queue[w]
        BY <1>3, <3>2 DEF Forget
      <4> QED BY <4>2, <4>3 DEF OneWorkerPerObject
    <3> QED BY <3>1, <3>2
  <2> QED BY <2>1 DEF OneWorkerPerObject
<1>4. ASSUME Environment PROVE OneWorkerPerObject'
  BY <1>3, <1>4, EnvironmentShape, OneWorkerSame
<1>5. ASSUME UNCHANGED vars PROVE OneWorkerPerObject'
  BY <1>5, OneWorkerSame DEF vars
<1> QED BY <1>1, <1>2, <1>4, <1>5, OneWorkerTake DEF Next

LEMMA ReconcilesNeverOverlap == Spec => []OneWorkerPerObject
<1>1. Init => OneWorkerPerObject
  BY DEF Init, OneWorkerPerObject, Busy, Idle, EmptyQueue
<1>2. IndInv /\ OneWorkerPerObject /\ [Next]_vars => OneWorkerPerObject'
  BY OneWorkerStep
<1> QED BY <1>1, <1>2, IndInvHolds, PTL DEF Spec
------------------------------------------------------------------------------
(****************************************************************************)
(* What the trackers hold as failing is scheduled for another attempt.      *)
(****************************************************************************)

\* what the operations of a queue do to the keys it will still hand out
LEMMA QueueSchedules ==
  ASSUME NEW q \in Queues(Objects), NEW o \in Objects
  PROVE  /\ Scheduled(Add(q, o)) = Scheduled(q) \cup {o}
         /\ Scheduled(Take(q, o)) = Scheduled(q) \cup {o}
         /\ Scheduled(Expire(q, o)) = Scheduled(q) \cup {o}
         /\ Scheduled(Retry(q, o)) = Scheduled(q) \cup {o}
         /\ Scheduled(q) \ {o} \subseteq Scheduled(Done(q, o))
BY DEF Scheduled, Add, Take, Expire, Retry, Done, Queues

\* a step that only adds to the keys a queue will hand out
LEMMA RetriedGrows ==
  ASSUME IndInv, FailedIsRetried, NEW v \in Watchers, NEW q,
         queue' = [queue EXCEPT ![v] = q], Scheduled(queue[v]) \subseteq Scheduled(q),
         UNCHANGED trackVars
  PROVE  FailedIsRetried'
BY DEF FailedIsRetried, IndInv, TypeOK, trackVars

LEMMA RetriedTake ==
  ASSUME IndInv, FailedIsRetried, NEW i \in Workers, NEW o \in Objects, TakeItem(i, o)
  PROVE  FailedIsRetried'
<1> DEFINE v == WatcherOf[i]
<1>1. v \in Watchers /\ queue[v] \in Queues(Objects)
  BY SyncAssumption DEF IndInv, TypeOK
<1>2. queue' = [queue EXCEPT ![v] = Take(queue[v], o)] /\ UNCHANGED trackVars
  BY DEF TakeItem
<1>3. Scheduled(queue[v]) \subseteq Scheduled(Take(queue[v], o))
  BY <1>1, QueueSchedules
<1> HIDE DEF v
<1> QED BY <1>1, <1>2, <1>3, RetriedGrows

LEMMA RetriedMachinery ==
  ASSUME IndInv, FailedIsRetried, Machinery
  PROVE  FailedIsRetried'
<1>1. PICK v \in Watchers, o \in Objects : Deliver(v, o) \/ Resync(v, o) \/ BackoffExpires(v, o)
  BY DEF Machinery
<1>2. UNCHANGED trackVars
  BY <1>1 DEF Deliver, Resync, BackoffExpires
<1>3. PICK q \in {Add(queue[v], o), Expire(queue[v], o)} : queue' = [queue EXCEPT ![v] = q]
  BY <1>1 DEF Deliver, Resync, BackoffExpires
<1>4. queue[v] \in Queues(Objects)
  BY DEF IndInv, TypeOK
<1>5. Scheduled(queue[v]) \subseteq Scheduled(q)
  BY <1>3, <1>4, QueueSchedules
<1> QED BY <1>2, <1>3, <1>5, RetriedGrows

LEMMA RetriedReconcile ==
  ASSUME IndInv, FailedIsRetried, NEW i \in Workers, Reconcile(i)
  PROVE  FailedIsRetried'
<1> DEFINE v == WatcherOf[i]
           o == work[i].obj
<1>1. /\ v \in Watchers /\ o \in Objects
      /\ queue \in [Watchers -> Queues(Objects)]
      /\ failed \in [Watchers -> SUBSET Objects]
  BY SyncAssumption DEF IndInv, TypeOK, WorkStates
<1>2. /\ Scheduled(Retry(queue[v], o)) = Scheduled(queue[v]) \cup {o}
      /\ Scheduled(queue[v]) \ {o} \subseteq Scheduled(Done(queue[v], o))
  BY <1>1, QueueSchedules
<1>3. CASE GoesOn(i)
  BY <1>3 DEF GoesOn, FailedIsRetried, trackVars
<1>4. CASE ReturnsError(i)
  <2>1. queue' = [queue EXCEPT ![v] = Retry(queue[v], o)]
    BY <1>4 DEF ReturnsError, Return
  <2>2. \A w \in Watchers : failed'[w] \subseteq IF w = v THEN failed[w] \cup {o} ELSE failed[w]
    BY <1>1, <1>4 DEF ReturnsError, FT!markFailed, FT!trackerVars, trackVars
  <2> HIDE DEF v, o
  <2> QED BY <1>1, <1>2, <2>1, <2>2 DEF FailedIsRetried
<1>5. CASE ReturnsSuccess(i)
  <2>1. queue' = [queue EXCEPT ![v] = Done(queue[v], o)]
    BY <1>5 DEF ReturnsSuccess, Return
  <2>2. \A w \in Watchers : failed'[w] \subseteq IF w = v THEN failed[w] \ {o} ELSE failed[w]
    BY <1>1, <1>5 DEF ReturnsSuccess, FT!markSucceeded, FT!trackerVars, trackVars
  <2> HIDE DEF v, o
  <2> QED BY <1>1, <1>2, <2>1, <2>2 DEF FailedIsRetried
<1> QED BY <1>3, <1>4, <1>5, ReconcileShape

LEMMA RetriedStep ==
  ASSUME IndInv, FailedIsRetried, [Next]_vars
  PROVE  FailedIsRetried'
<1>1. ASSUME Environment PROVE FailedIsRetried'
  <2>1. ASSUME NEW p \in Pods, Forget(p) PROVE FailedIsRetried'
    <3>1. \A w \in Watchers : <<w.pod, w.gvk>> \in {g \in Gauges : g[1] = p} <=> w.pod = p
      BY DEF Gauges
    <3>2. \A w \in Watchers :
            IF w.pod = p THEN failed'[w] = {} ELSE failed'[w] = failed[w] /\ queue'[w] = queue[w]
      BY <2>1, <3>1 DEF Forget, FT!TrackerRestart
    <3> QED BY <3>2 DEF FailedIsRetried
  <2>2. ASSUME UNCHANGED <<queue, work, trackVars>> PROVE FailedIsRetried'
    BY <2>2 DEF FailedIsRetried, trackVars
  <2> QED BY <1>1, <2>1, <2>2, EnvironmentShape
<1>2. ASSUME UNCHANGED vars PROVE FailedIsRetried'
  BY <1>2 DEF vars, FailedIsRetried
<1> QED BY <1>1, <1>2, RetriedTake, RetriedReconcile, RetriedMachinery DEF Next

\* An object the metrics show as failing is always queued, being reconciled or in
\* backoff: no interleaving of workers, events, errors and restarts strands it.
THEOREM FailingIsScheduled == Spec => []FailedIsRetried
<1>1. Init => FailedIsRetried
  BY DEF Init, FT!TrackerInit, FailedIsRetried
<1>2. IndInv /\ FailedIsRetried /\ [Next]_vars => FailedIsRetried'
  BY RetriedStep
<1> QED BY <1>1, <1>2, IndInvHolds, PTL DEF Spec
------------------------------------------------------------------------------
(****************************************************************************)
(* The watchers use their trackers as FailureTracker specifies, so its      *)
(* theorem carries over: the gauges are right in ObjectSync too.            *)
(****************************************************************************)

LEMMA TrackerStep ==
  ASSUME IndInv, [Next]_vars
  PROVE  [FT!TrackerNext]_(FT!trackerVars)
<1>1. ASSUME NEW i \in Workers, Reconcile(i) PROVE [FT!TrackerNext]_(FT!trackerVars)
  <2>1. WatcherOf[i] \in Watchers /\ work[i].obj \in Objects
    BY SyncAssumption DEF IndInv, TypeOK, WorkStates
  <2>2. CASE GoesOn(i) \/ UNCHANGED trackVars
    BY <2>2 DEF GoesOn, trackVars, FT!trackerVars
  <2>3. CASE FT!markFailed(WatcherOf[i], work[i].obj) \/ FT!markSucceeded(WatcherOf[i], work[i].obj)
    BY <2>1, <2>3 DEF FT!TrackerNext
  <2> QED BY <1>1, <2>2, <2>3, ReconcileShape DEF ReturnsError, ReturnsSuccess
<1>2. ASSUME Environment PROVE [FT!TrackerNext]_(FT!trackerVars)
  <2>1. ASSUME NEW p \in Pods, Forget(p) PROVE FT!TrackerNext
    <3>1. {g \in Gauges : g[1] = p} \in SUBSET Gauges
      OBVIOUS
    <3> QED BY <2>1, <3>1 DEF Forget, FT!TrackerNext
  <2>2. ASSUME UNCHANGED <<queue, work, trackVars>> PROVE UNCHANGED FT!trackerVars
    BY <2>2 DEF trackVars, FT!trackerVars
  <2> QED BY <1>2, <2>1, <2>2, EnvironmentShape
<1>3. ASSUME UNCHANGED vars \/ Machinery \/ \E i \in Workers, o \in Objects : TakeItem(i, o)
      PROVE  UNCHANGED FT!trackerVars
  BY <1>3 DEF vars, Machinery, Deliver, Resync, BackoffExpires, TakeItem, trackVars, FT!trackerVars
<1> QED BY <1>1, <1>2, <1>3 DEF Next

\* The object watchers implement the failure tracker: whatever the workers
\* interleave, the trackers and gauges move as FailureTracker allows.
THEOREM ImplementsTracker == Spec => FT!TrackerSpec
<1>1. Init => FT!TrackerInit
  BY DEF Init
<1>2. IndInv /\ [Next]_vars => [FT!TrackerNext]_(FT!trackerVars)
  BY TrackerStep
<1> QED BY <1>1, <1>2, IndInvHolds, PTL DEF Spec, FT!TrackerSpec

\* In every pod syncer_failed_objects of a GVK is the number of objects that its
\* watchers of the GVK hold as failing, with any number of them sharing the gauge
\* and pods that come and go.
THEOREM GaugesAreRight == Spec => []GaugeCountsFailing
<1>1. FTP!TrackerConstants
  <2>1. \A S : FTP!IsFiniteSet(S) <=> IsFiniteSet(S)
    BY DEF FTP!IsFiniteSet, IsFiniteSet
  <2> QED BY <2>1, SyncAssumption DEF FTP!TrackerConstants, Gauges
<1>2. FTP!TrackerSpec => [](FTP!TrackerTypeOK /\ FTP!GaugeCountsFailing)
  BY <1>1, FTP!GaugeCorrect
<1>3. FT!TrackerInit => FTP!TrackerInit
  BY DEF FT!TrackerInit, FTP!TrackerInit
<1>4. [FT!TrackerNext]_(FT!trackerVars) => [FTP!TrackerNext]_(FTP!trackerVars)
  BY DEF FT!TrackerNext, FTP!TrackerNext, FT!trackerVars, FTP!trackerVars,
         FT!markFailed, FTP!markFailed, FT!markSucceeded, FTP!markSucceeded,
         FT!TrackerRestart, FTP!TrackerRestart
<1>5. FTP!GaugeCountsFailing => GaugeCountsFailing
  <2>1. \A S : FTP!Cardinality(S) = FT!Cardinality(S)
    BY DEF FTP!Cardinality, FT!Cardinality
  <2> QED BY <2>1 DEF FT!GaugeCountsFailing, FTP!GaugeCountsFailing, FT!FailingOn,
                      FTP!FailingOn, GaugeCountsFailing
<1> QED BY <1>2, <1>3, <1>4, <1>5, ImplementsTracker, PTL
        DEF FT!TrackerSpec, FTP!TrackerSpec
==============================================================================

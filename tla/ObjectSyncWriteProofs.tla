------------------------ MODULE ObjectSyncWriteProofs ------------------------
(****************************************************************************)
(* What the object watchers write: invariants of ObjectSync that relate a   *)
(* destination to what a worker has read.  Where two watchers write to one  *)
(* destination (several remotes pulled from, a rollout) they do not hold,   *)
(* so the theorems name the deployments they are about.                     *)
(****************************************************************************)
EXTENDS ObjectSyncProofs

\* where a watcher's workers may write
DestsOf(w) == IF w.mode = "push" THEN Remotes ELSE {Local}

\* no destination is written by two watchers of the kind
SingleWriter == \A w, x \in Watchers : DestsOf(w) \cap DestsOf(x) # {} => w = x

\* the steps of a worker that write an object
Writes(i) == DeleteDest(i) \/ PatchObject(i) \/ PatchStatus(i)

\* nobody has deleted anything on a destination so far
NothingRemoved == budget["remove"] = Budget["remove"]

\* what somebody else may create
Stub == [Gone EXCEPT !.live = TRUE, !.val["body"] = Foreign]
------------------------------------------------------------------------------
(****************************************************************************)
(* What a step does to the budgets, the destinations and the workers.       *)
(****************************************************************************)

LEMMA SpendEffect ==
  ASSUME IndInv, NEW kind \in Disturbances, Spend(kind)
  PROVE  /\ \A k \in Disturbances : budget'[k] <= budget[k]
         /\ budget'[kind] < budget[kind]
<1>1. budget \in [Disturbances -> Nat] /\ budget[kind] > 0
  BY DEF IndInv, TypeOK, Spend
<1>2. \A k \in Disturbances : budget'[k] = IF k = kind THEN budget[k] - 1 ELSE budget[k]
  BY <1>1 DEF Spend
<1> QED BY <1>1, <1>2

LEMMA CallEffect ==
  ASSUME IndInv, NEW d, CallFails(d) \/ CallSucceeds(d) \/ ReplyLost(d)
  PROVE  \A k \in Disturbances : budget'[k] <= budget[k]
<1>1. "fault" \in Disturbances /\ budget \in [Disturbances -> Nat]
  BY DEF Disturbances, IndInv, TypeOK
<1> QED BY <1>1, SpendEffect DEF CallFails, CallSucceeds, ReplyLost

\* no budget ever grows
LEMMA BudgetStep ==
  ASSUME IndInv, [Next]_vars
  PROVE  \A k \in Disturbances : budget'[k] <= budget[k]
<1>0. budget \in [Disturbances -> Nat]
  BY DEF IndInv, TypeOK
<1>1. CASE UNCHANGED budget
  BY <1>0, <1>1
<1>2. CASE \E kind \in Disturbances : Spend(kind)
  BY <1>2, SpendEffect
<1>3. CASE \E d : CallFails(d) \/ CallSucceeds(d) \/ ReplyLost(d)
  BY <1>3, CallEffect
<1>4. ASSUME NEW i \in Workers, Reconcile(i)
      PROVE  \/ UNCHANGED budget \/ (\E kind \in Disturbances : Spend(kind))
             \/ \E d : CallFails(d) \/ CallSucceeds(d) \/ ReplyLost(d)
  BY <1>4 DEF Reconcile, GetSource, ListSyncers, BeginRule, GetClient, DeleteDest, CheckExists,
     GetNamespace, CreateNamespace, PatchObject, PatchStatus, Finish, Disturbances
<1>5. ASSUME Environment
      PROVE  UNCHANGED budget \/ \E kind \in Disturbances : Spend(kind)
  BY <1>5 DEF Environment, SourceWrite, SourceDelete, EditSyncer, DestCreate, DestDelete,
     DestNamespaceDelete, Crash, Start, Stop, Disturbances
<1>6. ASSUME UNCHANGED vars \/ Machinery \/ \E i \in Workers, o \in Objects : TakeItem(i, o)
      PROVE  UNCHANGED budget
  BY <1>6 DEF vars, Machinery, Deliver, Resync, BackoffExpires, TakeItem
<1> QED BY <1>1, <1>2, <1>3, <1>4, <1>5, <1>6 DEF Next

\* A worker writes to a destination of its watcher.
LEMMA DestInDests ==
  ASSUME IndInv, NEW i \in Workers, work[i].pc \in RulePhases
  PROVE  DestOfWorker(i) \in DestsOf(WatcherOf[i]) /\ DestOfWorker(i) \in Clusters
<1>1. work[i].list[work[i].task[1]] # NoSyncer
  BY IndInvFacts DEF TaskExists
<1>2. work[i].task[1] \in Syncers /\ work[i].list \in [Syncers -> SyncerSpecs \cup {NoSyncer}]
  BY IndInvFacts DEF WorkStates, Tasks
<1>3. work[i].list[work[i].task[1]].remote \in Remotes
  BY <1>1, <1>2, SyncAssumption
<1> QED BY <1>3 DEF DestOfWorker, DestOf, DestsOf, Clusters

\* An object of a destination stays, is created or removed by somebody else, or is
\* written by a worker that has it.
LEMMA DestStep ==
  ASSUME IndInv, [Next]_vars, NEW d \in Clusters, NEW o \in Objects
  PROVE  \/ dest'[d][o] = dest[d][o]
         \/ ~dest[d][o].live /\ dest'[d][o] = Stub
         \/ dest'[d][o] = Gone /\ budget'["remove"] < budget["remove"]
         \/ \E i \in Workers : Writes(i) /\ d = DestOfWorker(i) /\ o = work[i].obj
<1>0. dest \in [Clusters -> [Objects -> DestObjects]]
  BY DEF IndInv, TypeOK
<1>1. CASE UNCHANGED dest
  BY <1>1
<1>2. ASSUME NEW i \in Workers, Writes(i), d # DestOfWorker(i) \/ o # work[i].obj
      PROVE  dest'[d][o] = dest[d][o]
  <2>1. UNCHANGED dest \/ \E v : dest' = [dest EXCEPT ![DestOfWorker(i)][work[i].obj] = v]
    BY <1>2 DEF Writes, DeleteDest, PatchObject, PatchStatus
  <2> QED BY <1>0, <1>2, <2>1
<1>3. ASSUME NEW i \in Workers, Reconcile(i)
      PROVE  Writes(i) \/ UNCHANGED dest
  BY <1>3 DEF Reconcile, Writes, GetSource, ListSyncers, BeginRule, GetClient, CheckExists,
     GetNamespace, CreateNamespace, Finish, clusterVars
<1>4. ASSUME NEW e \in Destinations, NEW x \in Objects, DestCreate(e, x)
      PROVE  \/ dest'[d][o] = dest[d][o]
             \/ ~dest[d][o].live /\ dest'[d][o] = Stub
  <2>1. ~dest[e][x].live /\ dest' = [dest EXCEPT ![e][x] = Stub]
    BY <1>4 DEF DestCreate, Stub
  <2> QED BY <1>0, <2>1
<1>5. ASSUME NEW e \in Destinations, NEW x \in Objects, DestDelete(e, x)
      PROVE  \/ dest'[d][o] = dest[d][o]
             \/ dest'[d][o] = Gone /\ budget'["remove"] < budget["remove"]
  <2>1. dest' = [dest EXCEPT ![e][x] = Gone] /\ Spend("remove")
    BY <1>5 DEF DestDelete
  <2>2. budget'["remove"] < budget["remove"]
    BY <2>1, SpendEffect DEF Disturbances
  <2> QED BY <1>0, <2>1, <2>2
<1>6. ASSUME NEW e \in Destinations, NEW n \in Namespaces, DestNamespaceDelete(e, n)
      PROVE  \/ dest'[d][o] = dest[d][o]
             \/ dest'[d][o] = Gone /\ budget'["remove"] < budget["remove"]
  <2>1. /\ dest' = [dest EXCEPT ![e] = [x \in Objects |-> IF NsOf[x] = n THEN Gone ELSE @[x]]]
        /\ Spend("remove")
    BY <1>6 DEF DestNamespaceDelete
  <2>2. budget'["remove"] < budget["remove"]
    BY <2>1, SpendEffect DEF Disturbances
  <2>3. dest'[d][o] = IF d = e /\ NsOf[o] = n THEN Gone ELSE dest[d][o]
    BY <1>0, <2>1
  <2> QED BY <2>2, <2>3
<1>7. ASSUME Environment
      PROVE  \/ UNCHANGED dest
             \/ \E e \in Destinations, x \in Objects : DestCreate(e, x) \/ DestDelete(e, x)
             \/ \E e \in Destinations, n \in Namespaces : DestNamespaceDelete(e, n)
  BY <1>7 DEF Environment, SourceWrite, SourceDelete, EditSyncer, Crash, Start, Stop, clusterVars
<1>8. ASSUME UNCHANGED vars \/ Machinery \/ \E i \in Workers, x \in Objects : TakeItem(i, x)
      PROVE  UNCHANGED dest
  BY <1>8 DEF vars, Machinery, Deliver, Resync, BackoffExpires, TakeItem, clusterVars
<1> QED BY <1>1, <1>2, <1>3, <1>4, <1>5, <1>6, <1>7, <1>8 DEF Next

\* namespaces of destinations are only lost when somebody removes them
LEMMA NamespaceStep ==
  ASSUME IndInv, [Next]_vars, NEW d \in Clusters
  PROVE  nss[d] \subseteq nss'[d] \/ budget'["remove"] < budget["remove"]
<1>0. nss \in [Clusters -> SUBSET Namespaces]
  BY DEF IndInv, TypeOK
<1>1. ASSUME UNCHANGED nss \/ \E e, N : nss' = [nss EXCEPT ![e] = @ \cup N]
      PROVE  nss[d] \subseteq nss'[d]
  BY <1>0, <1>1
<1>2. ASSUME NEW i \in Workers, Reconcile(i)
      PROVE  UNCHANGED nss \/ \E e, N : nss' = [nss EXCEPT ![e] = @ \cup N]
  BY <1>2 DEF Reconcile, GetSource, ListSyncers, BeginRule, GetClient, DeleteDest, CheckExists,
     GetNamespace, CreateNamespace, PatchObject, PatchStatus, Finish, clusterVars
<1>3. ASSUME Environment
      PROVE  \/ UNCHANGED nss \/ \E e, N : nss' = [nss EXCEPT ![e] = @ \cup N]
             \/ Spend("remove")
  BY <1>3 DEF Environment, SourceWrite, SourceDelete, EditSyncer, DestCreate, DestDelete,
     DestNamespaceDelete, Crash, Start, Stop, clusterVars
<1>4. ASSUME UNCHANGED vars \/ Machinery \/ \E i \in Workers, o \in Objects : TakeItem(i, o)
      PROVE  UNCHANGED nss
  BY <1>4 DEF vars, Machinery, Deliver, Resync, BackoffExpires, TakeItem, clusterVars
<1>5. Spend("remove") => budget'["remove"] < budget["remove"]
  BY SpendEffect DEF Disturbances
<1> QED BY <1>1, <1>2, <1>3, <1>4, <1>5 DEF Next

\* A worker is where it was, loses or gets an item, or takes a step.
LEMMA WorkerStep ==
  ASSUME IndInv, [Next]_vars, NEW i \in Workers
  PROVE  \/ work'[i] = work[i]
         \/ work'[i] = Idle
         \/ \E o \in Objects : work'[i] = [Idle EXCEPT !.pc = "get", !.obj = o]
         \/ Reconcile(i)
<1>0. work \in [Workers -> WorkStates]
  BY DEF IndInv, TypeOK
<1>1. ASSUME NEW j \in Workers, NEW o \in Objects, TakeItem(j, o)
      PROVE  work'[i] = work[i] \/ work'[i] = [Idle EXCEPT !.pc = "get", !.obj = o]
  BY <1>0, <1>1 DEF TakeItem
<1>2. ASSUME NEW j \in Workers, Reconcile(j), j # i
      PROVE  work'[i] = work[i]
  <2>1. GoesOn(j) \/ \E q : Return(j, q)
    BY <1>2, ReconcileShape DEF ReturnsError, ReturnsSuccess
  <2> QED BY <1>0, <1>2, <2>1 DEF GoesOn, Return
<1>3. ASSUME Environment
      PROVE  work'[i] = work[i] \/ work'[i] = Idle
  <2>1. (\E p \in Pods : Forget(p)) \/ UNCHANGED work
    BY <1>3, EnvironmentShape
  <2> QED BY <2>1 DEF Forget
<1>4. ASSUME UNCHANGED vars \/ Machinery
      PROVE  work'[i] = work[i]
  BY <1>4 DEF vars, Machinery, Deliver, Resync, BackoffExpires
<1> QED BY <1>1, <1>2, <1>3, <1>4 DEF Next

\* While worker i has an object, nobody but somebody else touches its copies.
LEMMA Undisturbed ==
  ASSUME IndInv, OneWorkerPerObject, SingleWriter, [Next]_vars,
         NEW i \in Workers, work[i].pc # "idle", ~Writes(i),
         NEW d \in DestsOf(WatcherOf[i]), d \in Clusters
  PROVE  LET o == work[i].obj IN
         \/ dest'[d][o] = dest[d][o]
         \/ ~dest[d][o].live /\ dest'[d][o] = Stub
         \/ dest'[d][o] = Gone /\ budget'["remove"] < budget["remove"]
<1> DEFINE o == work[i].obj
<1>1. o \in Objects /\ WatcherOf[i] \in Watchers
  BY IndInvFacts
<1>2. ASSUME NEW j \in Workers, Writes(j), d = DestOfWorker(j), o = work[j].obj
      PROVE  FALSE
  <2>1. work[j].pc \in RulePhases
    BY <1>2 DEF Writes, DeleteDest, PatchObject, PatchStatus, RulePhases
  <2>2. d \in DestsOf(WatcherOf[j]) /\ WatcherOf[j] \in Watchers
    BY <1>2, <2>1, DestInDests, IndInvFacts
  <2>3. WatcherOf[i] = WatcherOf[j]
    BY <1>1, <2>2 DEF SingleWriter
  <2>4. i \in Busy(WatcherOf[i]) /\ j \in Busy(WatcherOf[i])
    BY <2>1, <2>3 DEF Busy, RulePhases
  <2>5. i = j
    BY <1>1, <1>2, <2>4 DEF OneWorkerPerObject
  <2> QED BY <1>2, <2>5
<1> QED BY <1>1, <1>2, DestStep
------------------------------------------------------------------------------
(****************************************************************************)
(* What a step of a reconcile does to the attempt.                          *)
(****************************************************************************)

\* the attempt of worker i goes on, at another phase
Continues(i, phase, e) ==
  /\ work'[i].pc = phase /\ work'[i].errs = e
  /\ work'[i].obj = work[i].obj /\ work'[i].snap = work[i].snap
  /\ work'[i].list = work[i].list
  /\ work'[i].todo = work[i].todo /\ work'[i].task = work[i].task

\* where StartRule leaves worker i
AtStart(i) ==
  LET wk == work[i]  fields == RuleOf(wk).fields
      refused == filterFieldsFails(wk.snap.scalarSpec, fields)
  IN
  \/ ~wk.snap.live /\ wk.pc = "delete"
  \/ wk.snap.live /\ refused /\ wk.pc = "next" /\ wk.errs
  \/ wk.snap.live /\ ~refused /\ isFullSync(fields) /\ wk.pc = ApplyPhase(wk.obj)
  \/ wk.snap.live /\ ~refused /\ ~isFullSync(fields) /\ wk.pc = "exists"

\* worker i turns to rule t
TurnsTo(i, t) ==
  /\ work'[i].obj = work[i].obj /\ work'[i].snap = work[i].snap
  /\ work'[i].list = work[i].list /\ work'[i].task = t
  /\ work'[i].errs = work[i].errs \/ (work'[i].pc = "next" /\ work'[i].errs)

LEMMA GotoEffect ==
  ASSUME IndInv, NEW i \in Workers, NEW phase
  PROVE  /\ Goto(i, phase) => Continues(i, phase, work[i].errs)
         /\ RuleFails(i) => Continues(i, "next", TRUE)
<1>1. work[i] \in WorkStates /\ work \in [Workers -> WorkStates]
  BY IndInvFacts DEF WorkOK
<1> QED BY <1>1 DEF Goto, RuleFails, Continues, WorkStates

LEMMA StartEffect ==
  ASSUME IndInv, NEW i \in Workers, NEW wk \in WorkStates, StartRule(i, wk),
         wk.obj = work[i].obj, wk.snap = work[i].snap, wk.list = work[i].list,
         wk.errs = work[i].errs
  PROVE  TurnsTo(i, wk.task) /\ work'[i].todo = wk.todo /\ AtStart(i)'
<1>0. work \in [Workers -> WorkStates]
  BY IndInvFacts DEF WorkOK
<1> DEFINE fields == RuleOf(wk).fields
           refused == filterFieldsFails(wk.snap.scalarSpec, fields)
<1>1. ASSUME NEW new, work' = [work EXCEPT ![i] = new], new.obj = wk.obj, new.snap = wk.snap,
             new.list = wk.list, new.todo = wk.todo, new.task = wk.task,
             new.errs = wk.errs \/ (new.pc = "next" /\ new.errs),
             \/ ~wk.snap.live /\ new.pc = "delete"
             \/ wk.snap.live /\ refused /\ new.pc = "next" /\ new.errs
             \/ wk.snap.live /\ ~refused /\ isFullSync(fields) /\ new.pc = ApplyPhase(wk.obj)
             \/ wk.snap.live /\ ~refused /\ ~isFullSync(fields) /\ new.pc = "exists"
      PROVE  TurnsTo(i, wk.task) /\ work'[i].todo = wk.todo /\ AtStart(i)'
  <2>1. work'[i] = new
    BY <1>0, <1>1
  <2>2. RuleOf(new) = RuleOf(wk)
    BY <1>1 DEF RuleOf
  <2> QED BY <1>1, <2>1, <2>2 DEF TurnsTo, AtStart
<1>2. \A ph : LET new == [wk EXCEPT !.pc = ph] IN
              /\ new.pc = ph /\ new.obj = wk.obj /\ new.snap = wk.snap /\ new.list = wk.list
              /\ new.todo = wk.todo /\ new.task = wk.task /\ new.errs = wk.errs
  BY DEF WorkStates
<1>3. LET new == [wk EXCEPT !.pc = "next", !.errs = TRUE] IN
      /\ new.pc = "next" /\ new.obj = wk.obj /\ new.snap = wk.snap /\ new.list = wk.list
      /\ new.todo = wk.todo /\ new.task = wk.task /\ new.errs
  BY DEF WorkStates
<1>4. CASE ~wk.snap.live
  <2>1. work' = [work EXCEPT ![i] = [wk EXCEPT !.pc = "delete"]]
    BY <1>4 DEF StartRule
  <2> QED BY <1>1, <1>2, <1>4, <2>1
<1>5. CASE wk.snap.live /\ refused
  <2>1. work' = [work EXCEPT ![i] = [wk EXCEPT !.pc = "next", !.errs = TRUE]]
    BY <1>5 DEF StartRule
  <2> QED BY <1>1, <1>3, <1>5, <2>1
<1>6. CASE wk.snap.live /\ ~refused /\ isFullSync(fields)
  <2>1. work' = [work EXCEPT ![i] = [wk EXCEPT !.pc = ApplyPhase(wk.obj)]]
    BY <1>6 DEF StartRule
  <2> QED BY <1>1, <1>2, <1>6, <2>1
<1>7. CASE wk.snap.live /\ ~refused /\ ~isFullSync(fields)
  <2>1. work' = [work EXCEPT ![i] = [wk EXCEPT !.pc = "exists"]]
    BY <1>7 DEF StartRule
  <2> QED BY <1>1, <1>2, <1>7, <2>1
<1> QED BY <1>4, <1>5, <1>6, <1>7

LEMMA BeginEffect ==
  ASSUME IndInv, NEW i \in Workers, BeginRule(i)
  PROVE  \E t \in NextTasks(work[i]) :
           /\ TurnsTo(i, t) /\ work'[i].todo = work[i].todo \ {t}
           /\ work'[i].pc = "client" \/ AtStart(i)'
<1>0. work[i] \in WorkStates /\ work \in [Workers -> WorkStates]
  BY IndInvFacts DEF WorkOK
<1>1. PICK t \in NextTasks(work[i]) :
        LET wk == [work[i] EXCEPT !.todo = @ \ {t}, !.task = t] IN
        IF WatcherOf[i].mode = "push"
        THEN work' = [work EXCEPT ![i] = [wk EXCEPT !.pc = "client"]]
        ELSE StartRule(i, wk)
  BY DEF BeginRule
<1> DEFINE wk == [work[i] EXCEPT !.todo = @ \ {t}, !.task = t]
<1>2. t \in Tasks
  BY <1>0, NextTasksType DEF WorkStates
<1>3. /\ wk \in WorkStates /\ wk.obj = work[i].obj /\ wk.snap = work[i].snap
      /\ wk.list = work[i].list /\ wk.errs = work[i].errs
      /\ wk.todo = work[i].todo \ {t} /\ wk.task = t
  BY <1>0, <1>2 DEF WorkStates
<1>4. CASE WatcherOf[i].mode = "push"
  <2>1. work' = [work EXCEPT ![i] = [wk EXCEPT !.pc = "client"]]
    BY <1>1, <1>4
  <2> HIDE DEF wk
  <2> QED BY <1>0, <1>3, <2>1 DEF TurnsTo, WorkStates
<1>5. CASE WatcherOf[i].mode # "push"
  <2>1. StartRule(i, wk)
    BY <1>1, <1>5
  <2> HIDE DEF wk
  <2> QED BY <1>3, <2>1, StartEffect
<1> QED BY <1>4, <1>5

LEMMA ClientEffect ==
  ASSUME IndInv, NEW i \in Workers, GetClient(i)
  PROVE  \/ TurnsTo(i, work[i].task) /\ work'[i].todo = work[i].todo /\ AtStart(i)'
         \/ /\ Continues(i, "next", TRUE)
            /\ Spend("fault") \/ DestOfWorker(i) \in Incomplete
BY StartEffect, GotoEffect, IndInvFacts DEF GetClient

LEMMA ListEffect ==
  ASSUME IndInv, NEW i \in Workers, ListSyncers(i)
  PROVE  \/ work'[i] = Idle
         \/ /\ work'[i].pc = "next" /\ work'[i].errs = work[i].errs
            /\ work'[i].obj = work[i].obj /\ work'[i].snap = work[i].snap
            /\ work'[i].list = syncers
            /\ work'[i].todo = Matching(WatcherOf[i], work[i].obj, syncers)
<1>0. work[i] \in WorkStates /\ work \in [Workers -> WorkStates]
  BY IndInvFacts DEF WorkOK
<1> DEFINE m == Matching(WatcherOf[i], work[i].obj, syncers)
<1>1. \/ work' = [work EXCEPT ![i] = Idle]
      \/ work' = [work EXCEPT ![i].list = syncers, ![i].todo = m, ![i].pc = "next"]
  BY DEF ListSyncers, Return
<1> HIDE DEF m
<1>2. \/ work'[i] = Idle
      \/ /\ work'[i].pc = "next" /\ work'[i].errs = work[i].errs
         /\ work'[i].obj = work[i].obj /\ work'[i].snap = work[i].snap
         /\ work'[i].list = syncers /\ work'[i].todo = m
  BY <1>0, <1>1 DEF WorkStates
<1> QED BY <1>2 DEF m

\* a rule is under way and stays so, or ends with or without an error
LEMMA CallsContinue ==
  ASSUME IndInv, NEW i \in Workers,
         DeleteDest(i) \/ CheckExists(i) \/ GetNamespace(i) \/ CreateNamespace(i)
           \/ PatchObject(i) \/ PatchStatus(i)
  PROVE  /\ work[i].pc \in RulePhases
         /\ \/ Continues(i, "next", TRUE)
            \/ \E phase \in {"next", "nsget", "nscreate", "patch", "status"} :
                 Continues(i, phase, work[i].errs)
<1>1. work[i].pc \in RulePhases
  BY DEF DeleteDest, CheckExists, GetNamespace, CreateNamespace, PatchObject, PatchStatus,
     RulePhases
<1>2. \/ RuleFails(i)
      \/ \E phase \in {"next", "nsget", "nscreate", "patch", "status"} : Goto(i, phase)
  BY ApplyPhaseType DEF DeleteDest, CheckExists, GetNamespace, CreateNamespace, PatchObject,
     PatchStatus
<1> QED BY <1>1, <1>2, GotoEffect

LEMMA ReadKept ==
  ASSUME IndInv, NEW i \in Workers, Reconcile(i), ~GetSource(i)
  PROVE  \/ work'[i] = Idle
         \/ /\ work[i].pc \notin {"idle", "get"}
            /\ work'[i].obj = work[i].obj /\ work'[i].snap = work[i].snap
<1>1. CASE ListSyncers(i)
  BY <1>1, ListEffect DEF ListSyncers
<1>2. CASE BeginRule(i)
  BY <1>2, BeginEffect DEF TurnsTo, BeginRule
<1>3. CASE GetClient(i)
  BY <1>3, ClientEffect DEF TurnsTo, Continues, GetClient
<1>4. CASE \/ DeleteDest(i) \/ CheckExists(i) \/ GetNamespace(i) \/ CreateNamespace(i)
           \/ PatchObject(i) \/ PatchStatus(i)
  BY <1>4, CallsContinue DEF Continues, RulePhases
<1>5. CASE Finish(i)
  BY <1>5 DEF Finish, Return, IndInv, TypeOK
<1> QED BY <1>1, <1>2, <1>3, <1>4, <1>5 DEF Reconcile
------------------------------------------------------------------------------
(****************************************************************************)
(* No destination field goes back to an older revision of the source.       *)
(****************************************************************************)

\* the phases in which a worker has read its object
HasRead(wk) == wk.pc \notin {"idle", "get"}

\* what a watcher writes is not newer than its source
NotAhead(w) ==
  \A d \in DestsOf(w), o \in Objects, f \in Leaves :
    dest[d][o].val[f] <= source[SourceOf(w)][o].rev

\* what a worker has read is not older than any copy of its object
UpToRead(i) ==
  LET wk == work[i]  w == WatcherOf[i] IN
  HasRead(wk) =>
    /\ wk.snap.rev <= source[SourceOf(w)][wk.obj].rev
    /\ \A d \in DestsOf(w), f \in Leaves : dest[d][wk.obj].val[f] <= wk.snap.rev

FreshInv ==
  /\ \A w \in Watchers : NotAhead(w)
  /\ \A i \in Workers : UpToRead(i)

LEMMA DestsInClusters ==
  ASSUME NEW w \in Watchers
  PROVE  DestsOf(w) \subseteq Clusters
BY DEF DestsOf, Clusters

LEMMA StubValues ==
  \A f \in Leaves : Gone.val[f] = Unset /\ Stub.val[f] \in {Unset, Foreign}
BY DEF Gone, Stub, Leaves

LEMMA SourceStep ==
  ASSUME IndInv, [Next]_vars, NEW c \in Clusters, NEW o \in Objects
  PROVE  source[c][o].rev <= source'[c][o].rev /\ source'[c][o].rev \in Nat
<1>0. source \in [Clusters -> [Objects -> SourceObjects]] /\ source[c][o].rev \in Nat
  BY SyncAssumption DEF IndInv, TypeOK, SourceObjects
<1>1. ASSUME NEW e, NEW x, NEW v, source' = [source EXCEPT ![e][x] = v],
             e \in Clusters, x \in Objects, v.rev = source[e][x].rev + 1
      PROVE  source[c][o].rev <= source'[c][o].rev /\ source'[c][o].rev \in Nat
  <2>1. source'[c][o] = IF c = e /\ o = x THEN v ELSE source[c][o]
    BY <1>0, <1>1
  <2> QED BY <1>0, <1>1, <2>1
<1>2. ASSUME NEW e \in Sources, NEW x \in Objects, NEW shape \in Shapes, SourceWrite(e, x, shape)
      PROVE  source[c][o].rev <= source'[c][o].rev /\ source'[c][o].rev \in Nat
  <2> DEFINE v == [rev |-> source[e][x].rev + 1, live |-> TRUE,
                   leaves |-> shape.leaves, scalarSpec |-> shape.scalarSpec]
  <2>1. source' = [source EXCEPT ![e][x] = v] /\ v.rev = source[e][x].rev + 1
    BY <1>2 DEF SourceWrite
  <2> HIDE DEF v
  <2> QED BY <1>1, <2>1, SourcesSubset
<1>3. ASSUME NEW e \in Sources, NEW x \in Objects, SourceDelete(e, x)
      PROVE  source[c][o].rev <= source'[c][o].rev /\ source'[c][o].rev \in Nat
  <2> DEFINE v == [NeverSeen EXCEPT !.rev = source[e][x].rev + 1]
  <2>1. source' = [source EXCEPT ![e][x] = v] /\ v.rev = source[e][x].rev + 1
    BY <1>3 DEF SourceDelete, NeverSeen
  <2> HIDE DEF v
  <2> QED BY <1>1, <2>1, SourcesSubset
<1>4. CASE UNCHANGED source
  BY <1>0, <1>4
<1>5. ASSUME NEW i \in Workers, Reconcile(i) PROVE UNCHANGED source
  BY <1>5 DEF Reconcile, GetSource, ListSyncers, BeginRule, GetClient, DeleteDest, CheckExists,
     GetNamespace, CreateNamespace, PatchObject, PatchStatus, Finish, inputVars
<1>6. ASSUME UNCHANGED vars \/ Machinery \/ \E i \in Workers, x \in Objects : TakeItem(i, x)
      PROVE  UNCHANGED source
  BY <1>6 DEF vars, Machinery, Deliver, Resync, BackoffExpires, TakeItem, inputVars
<1>7. ASSUME Environment
      PROVE  \/ UNCHANGED source
             \/ \E e \in Sources, x \in Objects, shape \in Shapes : SourceWrite(e, x, shape)
             \/ \E e \in Sources, x \in Objects : SourceDelete(e, x)
  BY <1>7 DEF Environment, EditSyncer, DestCreate, DestDelete, DestNamespaceDelete, Crash, Start,
     Stop, inputVars
<1> QED BY <1>2, <1>3, <1>4, <1>5, <1>6, <1>7 DEF Next

\* a worker writes what it has read, takes a field away or leaves it
LEMMA WrittenValues ==
  ASSUME IndInv, NEW i \in Workers, Writes(i), NEW f \in Leaves
  PROVE  LET d == DestOfWorker(i)  o == work[i].obj IN
         dest'[d][o].val[f] \in {dest[d][o].val[f], Unset, work[i].snap.rev}
<1> DEFINE d == DestOfWorker(i)
           o == work[i].obj
           old == dest[d][o]
           rev == work[i].snap.rev
<1>1. work[i].pc \in {"delete", "patch", "status"}
  BY DEF Writes, DeleteDest, PatchObject, PatchStatus
<1>2. d \in Clusters /\ o \in Objects /\ dest \in [Clusters -> [Objects -> DestObjects]]
  BY <1>1, DestInDests, IndInvFacts DEF RulePhases, IndInv, TypeOK
<1>3. \/ UNCHANGED dest
      \/ dest' = [dest EXCEPT ![d][o] = Gone]
      \/ \E sent : dest' = [dest EXCEPT ![d][o] = Applied(old, sent, rev)]
      \/ dest' = [dest EXCEPT ![d][o] = StatusApplied(old, rev)]
  BY DEF Writes, DeleteDest, PatchObject, PatchStatus
<1>4. old \in DestObjects
  BY <1>2
<1> HIDE DEF d, o, old, rev
<1>5. Gone.val[f] = Unset
  BY StubValues
<1>6. \A sent : Applied(old, sent, rev).val[f] \in {old.val[f], Unset, rev}
  BY DEF Applied
<1>7. StatusApplied(old, rev).val[f] \in {old.val[f], rev}
  BY <1>4 DEF StatusApplied, DestObjects
<1>8. ASSUME NEW v, dest' = [dest EXCEPT ![d][o] = v] PROVE dest'[d][o] = v
  BY <1>2, <1>8
<1>9. dest'[d][o].val[f] \in {old.val[f], Unset, rev}
  <2>1. CASE UNCHANGED dest
    BY <2>1 DEF old
  <2>2. CASE dest' = [dest EXCEPT ![d][o] = Gone]
    BY <1>5, <1>8, <2>2
  <2>3. ASSUME NEW sent, dest' = [dest EXCEPT ![d][o] = Applied(old, sent, rev)]
        PROVE  dest'[d][o].val[f] \in {old.val[f], Unset, rev}
    BY <1>6, <1>8, <2>3
  <2>4. CASE dest' = [dest EXCEPT ![d][o] = StatusApplied(old, rev)]
    BY <1>7, <1>8, <2>4
  <2> QED BY <1>3, <2>1, <2>2, <2>3, <2>4
<1> QED BY <1>9 DEF d, o, old, rev

\* the values and revisions that are compared are numbers
LEMMA ValueTypes ==
  ASSUME IndInv
  PROVE  /\ \A d \in Clusters, o \in Objects, f \in Leaves : dest[d][o].val[f] \in Int
         /\ \A c \in Clusters, o \in Objects : source[c][o].rev \in Nat
         /\ \A i \in Workers : work[i].snap.rev \in Nat
<1>1. ASSUME NEW d \in Clusters, NEW o \in Objects, NEW f \in Leaves PROVE dest[d][o].val[f] \in Int
  <2>1. dest[d][o] \in DestObjects
    BY DEF IndInv, TypeOK
  <2>2. dest[d][o].val[f] \in Unset..MaxRev
    BY <2>1 DEF DestObjects
  <2> QED BY <2>2, SyncAssumption DEF Unset
<1>2. \A x \in SourceObjects : x.rev \in Nat
  BY SyncAssumption DEF SourceObjects
<1>3. \A c \in Clusters, o \in Objects : source[c][o] \in SourceObjects
  BY DEF IndInv, TypeOK
<1>4. \A i \in Workers : work[i].snap \in SourceObjects
  BY IndInvFacts DEF WorkStates
<1> QED BY <1>1, <1>2, <1>3, <1>4

\* a write goes to the writer's destinations, from its source
LEMMA WriteFresh ==
  ASSUME IndInv, SingleWriter, FreshInv, [Next]_vars, NEW w \in Watchers
  PROVE  NotAhead(w)'
<1> SUFFICES ASSUME NEW d \in DestsOf(w), NEW o \in Objects, NEW f \in Leaves
             PROVE  dest'[d][o].val[f] <= source'[SourceOf(w)][o].rev
  BY DEF NotAhead
<1>1. d \in Clusters /\ SourceOf(w) \in Clusters
  BY DestsInClusters, SourceOfType
<1>2. /\ source[SourceOf(w)][o].rev \in Nat /\ source'[SourceOf(w)][o].rev \in Nat
      /\ source[SourceOf(w)][o].rev <= source'[SourceOf(w)][o].rev
  BY <1>1, ValueTypes, SourceStep
<1>3. dest[d][o].val[f] \in Int /\ dest[d][o].val[f] <= source[SourceOf(w)][o].rev
  BY <1>1, ValueTypes DEF FreshInv, NotAhead
<1>4. ASSUME NEW i \in Workers, Writes(i), d = DestOfWorker(i), o = work[i].obj
      PROVE  dest'[d][o].val[f] <= source'[SourceOf(w)][o].rev
  <2>1. work[i].pc \in RulePhases /\ HasRead(work[i])
    BY <1>4 DEF Writes, DeleteDest, PatchObject, PatchStatus, RulePhases, HasRead
  <2>2. WatcherOf[i] = w
    BY <1>4, <2>1, DestInDests, IndInvFacts DEF SingleWriter
  <2>3. work[i].snap.rev <= source[SourceOf(w)][o].rev /\ work[i].snap.rev \in Nat
    BY <1>4, <2>1, <2>2, ValueTypes DEF FreshInv, UpToRead
  <2>4. dest'[d][o].val[f] \in {dest[d][o].val[f], Unset, work[i].snap.rev}
    BY <1>4, WrittenValues
  <2> QED BY <1>2, <1>3, <2>3, <2>4 DEF Unset
<1>5. CASE dest'[d][o] = dest[d][o]
  BY <1>2, <1>3, <1>5
<1>6. CASE dest'[d][o] \in {Gone, Stub}
  BY <1>2, <1>6, StubValues DEF Unset, Foreign
<1> QED BY <1>1, <1>4, <1>5, <1>6, DestStep

LEMMA ReadFresh ==
  ASSUME IndInv, OneWorkerPerObject, SingleWriter, FreshInv, [Next]_vars, NEW i \in Workers
  PROVE  UpToRead(i)'
<1> DEFINE w == WatcherOf[i]
           o == work[i].obj
           c == SourceOf(w)
<1>0. w \in Watchers /\ o \in Objects /\ c \in Clusters /\ DestsOf(w) \subseteq Clusters
  BY IndInvFacts, SourceOfType, DestsInClusters
<1>1. /\ source[c][o].rev \in Nat /\ source'[c][o].rev \in Nat
      /\ source[c][o].rev <= source'[c][o].rev /\ work[i].snap.rev \in Nat
  BY <1>0, ValueTypes, SourceStep
\* the attempt goes on with what it has read
<1>2. ASSUME HasRead(work[i]), work'[i].obj = o, work'[i].snap = work[i].snap
      PROVE  UpToRead(i)'
  <2>1. /\ work[i].snap.rev <= source[c][o].rev
        /\ \A d \in DestsOf(w), f \in Leaves : dest[d][o].val[f] <= work[i].snap.rev
    BY <1>2 DEF FreshInv, UpToRead
  <2>2. ASSUME NEW d \in DestsOf(w), NEW f \in Leaves
        PROVE  dest'[d][o].val[f] <= work[i].snap.rev
    <3>1. d \in Clusters
      BY <1>0
    <3>2. dest[d][o].val[f] \in Int
      BY <1>0, <3>1, ValueTypes
    <3>3. CASE dest'[d][o] = dest[d][o]
      BY <2>1, <3>3
    <3>4. CASE dest'[d][o] \in {Gone, Stub}
      BY <1>1, <3>4, StubValues DEF Unset, Foreign
    <3>5. CASE Writes(i) /\ d = DestOfWorker(i)
      <4>1. dest'[d][o].val[f] \in {dest[d][o].val[f], Unset, work[i].snap.rev}
        BY <3>5, WrittenValues
      <4> QED BY <1>1, <2>1, <3>2, <4>1 DEF Unset
    <3>6. CASE ~Writes(i)
      BY <1>2, <3>1, <3>3, <3>4, <3>6, Undisturbed DEF HasRead
    <3>7. CASE Writes(i) /\ d # DestOfWorker(i)
      <4>1. UNCHANGED dest \/ \E v : dest' = [dest EXCEPT ![DestOfWorker(i)][o] = v]
        BY <3>7 DEF Writes, DeleteDest, PatchObject, PatchStatus
      <4>2. dest'[d][o] = dest[d][o]
        BY <1>0, <3>1, <3>7, <4>1 DEF IndInv, TypeOK
      <4> QED BY <3>3, <4>2
    <3> QED BY <3>5, <3>6, <3>7
  <2>3. work'[i].snap.rev <= source'[c][o].rev
    BY <1>1, <1>2, <2>1
  <2> QED BY <1>2, <2>2, <2>3 DEF UpToRead
\* GetSource: whatever was written is not newer than the source
<1>3. ASSUME GetSource(i) PROVE UpToRead(i)'
  <2>1. CASE work'[i] = Idle
    BY <2>1 DEF UpToRead, HasRead, Idle
  <2>2. CASE work' = [work EXCEPT ![i].snap = source[c][o], ![i].pc = "list"]
    <3>1. work'[i].snap = source[c][o] /\ work'[i].obj = o
      BY <2>2, IndInvFacts DEF WorkStates, WorkOK
    <3>2. UNCHANGED <<dest, source>>
      BY <1>3 DEF GetSource, clusterVars, inputVars
    <3>3. \A d \in DestsOf(w), f \in Leaves : dest[d][o].val[f] <= source[c][o].rev
      BY <1>0 DEF FreshInv, NotAhead
    <3> QED BY <1>1, <3>1, <3>2, <3>3 DEF UpToRead
  <2>3. ASSUME NEW q, Return(i, q) PROVE work'[i] = Idle
    BY <2>3 DEF Return, IndInv, TypeOK
  <2> QED BY <1>3, <2>1, <2>2, <2>3 DEF GetSource
<1>4. ASSUME Reconcile(i), ~GetSource(i)
      PROVE  \/ work'[i] = Idle
             \/ HasRead(work[i]) /\ work'[i].obj = o /\ work'[i].snap = work[i].snap
  BY <1>4, ReadKept DEF HasRead
<1>5. CASE work'[i] = Idle
  BY <1>5 DEF UpToRead, HasRead, Idle
<1>6. ASSUME NEW x \in Objects, work'[i] = [Idle EXCEPT !.pc = "get", !.obj = x]
      PROVE  UpToRead(i)'
  BY <1>6 DEF UpToRead, HasRead, Idle
<1>7. CASE work'[i] = work[i]
  <2>1. HasRead(work[i])' => HasRead(work[i])
    BY <1>7 DEF HasRead
  <2> QED BY <1>2, <1>7, <2>1 DEF UpToRead
<1> QED BY <1>2, <1>3, <1>4, <1>5, <1>6, <1>7, WorkerStep

LEMMA FreshStep ==
  ASSUME IndInv, OneWorkerPerObject, SingleWriter, FreshInv, [Next]_vars
  PROVE  FreshInv'
BY WriteFresh, ReadFresh DEF FreshInv

LEMMA InitFresh == Init => FreshInv
<1> SUFFICES ASSUME Init PROVE FreshInv
  OBVIOUS
<1>1. \A w \in Watchers : SourceOf(w) \in Clusters /\ DestsOf(w) \subseteq Clusters
  BY SourceOfType, DestsInClusters
<1>2. \A i \in Workers : ~HasRead(work[i])
  BY DEF Init, HasRead, Idle
<1>3. ASSUME NEW d \in Clusters, NEW c \in Clusters, NEW o \in Objects, NEW f \in Leaves
      PROVE  dest[d][o].val[f] <= source[c][o].rev
  <2>1. dest[d][o] = Gone /\ source[c][o].rev = 0
    BY DEF Init, NeverSeen
  <2> QED BY <2>1, StubValues DEF Unset
<1> QED BY <1>1, <1>2, <1>3 DEF FreshInv, NotAhead, UpToRead

\* Where every destination is written by one watcher only, no field that was copied
\* is ever replaced by an older revision of the source: with any number of workers,
\* rules, failed calls, restarts and edits in between.
THEOREM CopiesNeverGoBack ==
  ASSUME SingleWriter
  PROVE  Spec => NoStaleOverwrite
<1>1. ASSUME IndInv, OneWorkerPerObject, FreshInv, [Next]_vars
      PROVE  [\A d \in Clusters, o \in Objects, f \in Leaves :
                dest[d][o].val[f] > Foreign /\ dest'[d][o].val[f] > Foreign
                  => dest'[d][o].val[f] >= dest[d][o].val[f]]_vars
  <2> SUFFICES ASSUME NEW d \in Clusters, NEW o \in Objects, NEW f \in Leaves,
                      dest[d][o].val[f] > Foreign, dest'[d][o].val[f] > Foreign
               PROVE  dest'[d][o].val[f] >= dest[d][o].val[f]
    OBVIOUS
  <2>0. dest[d][o].val[f] \in Int
    BY <1>1, ValueTypes
  <2>1. CASE dest'[d][o] = dest[d][o]
    BY <2>0, <2>1
  <2>2. dest'[d][o] \notin {Gone, Stub}
    BY StubValues DEF Unset, Foreign
  <2>3. ASSUME NEW i \in Workers, Writes(i), d = DestOfWorker(i), o = work[i].obj
        PROVE  dest'[d][o].val[f] >= dest[d][o].val[f]
    <3>1. work[i].pc \in RulePhases /\ HasRead(work[i])
      BY <2>3 DEF Writes, DeleteDest, PatchObject, PatchStatus, RulePhases, HasRead
    <3>2. d \in DestsOf(WatcherOf[i])
      BY <1>1, <2>3, <3>1, DestInDests
    <3>3. dest[d][o].val[f] <= work[i].snap.rev /\ work[i].snap.rev \in Nat
      BY <1>1, <2>3, <3>1, <3>2, ValueTypes DEF FreshInv, UpToRead
    <3>4. dest'[d][o].val[f] \in {dest[d][o].val[f], Unset, work[i].snap.rev}
      BY <1>1, <2>3, WrittenValues
    <3> QED BY <2>0, <3>3, <3>4 DEF Unset, Foreign
  <2> QED BY <1>1, <2>1, <2>2, <2>3, DestStep
<1>2. IndInv /\ OneWorkerPerObject /\ FreshInv /\ [Next]_vars => FreshInv'
  BY FreshStep
<1> QED BY <1>1, <1>2, InitFresh, IndInvHolds, ReconcilesNeverOverlap, PTL
        DEF Spec, NoStaleOverwrite
------------------------------------------------------------------------------
(****************************************************************************)
(* What is known of an attempt at each of its phases.                       *)
(****************************************************************************)

\* an object of the source looks as somebody wrote it
Shaped(x) ==
  x.live => \E shape \in Shapes : x.leaves = shape.leaves /\ x.scalarSpec = shape.scalarSpec

\* the rules worker i has to apply
ToApply(i) == Matching(WatcherOf[i], work[i].obj, work[i].list)

\* The worker applies rules that match, deletes only what was gone and applies only
\* what was there, and looks for the copy in status mode only.
Fits(i) ==
  LET wk == work[i] IN
  /\ wk.todo \subseteq ToApply(i)
  /\ wk.pc \in RulePhases => wk.task \in ToApply(i)
  /\ Shaped(wk.snap)
  /\ wk.pc = "delete" => ~wk.snap.live
  /\ wk.pc \in {"exists", "nsget", "nscreate", "patch", "status"} => wk.snap.live
  /\ wk.pc = "exists" => ~isFullSync(RuleOf(wk).fields)

FitsInv ==
  /\ \A c \in Clusters, o \in Objects : Shaped(source[c][o])
  /\ \A i \in Workers : Fits(i)

LEMMA IdleFacts ==
  /\ Idle.pc = "idle" /\ Idle.todo = {} /\ ~Idle.snap.live /\ ~Idle.errs
  /\ \A o : LET new == [Idle EXCEPT !.pc = "get", !.obj = o] IN
            new.pc = "get" /\ new.todo = {} /\ ~new.snap.live /\ ~new.errs
BY DEF Idle, NeverSeen

\* a worker is where it was, has nothing read yet, or takes a step
LEMMA WorkerMoves ==
  ASSUME IndInv, [Next]_vars, NEW i \in Workers
  PROVE  \/ work'[i] = work[i]
         \/ /\ work'[i].pc = "idle" \/ work'[i].pc = "get"
            /\ work'[i].todo = {} /\ ~work'[i].snap.live /\ ~work'[i].errs
         \/ Reconcile(i)
<1>1. ASSUME NEW o, work'[i] = [Idle EXCEPT !.pc = "get", !.obj = o]
      PROVE  work'[i].pc = "get" /\ work'[i].todo = {} /\ ~work'[i].snap.live /\ ~work'[i].errs
  BY <1>1, IdleFacts
<1>2. ASSUME work'[i] = Idle
      PROVE  work'[i].pc = "idle" /\ work'[i].todo = {} /\ ~work'[i].snap.live /\ ~work'[i].errs
  BY <1>2, IdleFacts
<1> QED BY <1>1, <1>2, WorkerStep

LEMMA GetEffect ==
  ASSUME IndInv, NEW i \in Workers, GetSource(i)
  PROVE  LET w == WatcherOf[i] IN
         \/ work'[i] = Idle /\ CallFails(SourceOf(w))
         \/ /\ work'[i].pc = "list" /\ work'[i].errs = work[i].errs
            /\ work'[i].obj = work[i].obj /\ work'[i].snap = source[SourceOf(w)][work[i].obj]
            /\ work'[i].list = work[i].list /\ work'[i].todo = work[i].todo
            /\ UNCHANGED trackVars
<1>0. work[i] \in WorkStates /\ work \in [Workers -> WorkStates]
  BY IndInvFacts DEF WorkOK
<1> DEFINE x == source[SourceOf(WatcherOf[i])][work[i].obj]
<1>1. CASE CallFails(SourceOf(WatcherOf[i])) /\ work' = [work EXCEPT ![i] = Idle]
  BY <1>0, <1>1
<1>2. CASE work' = [work EXCEPT ![i].snap = x, ![i].pc = "list"] /\ UNCHANGED trackVars
  <2> HIDE DEF x
  <2>1. /\ work'[i].pc = "list" /\ work'[i].errs = work[i].errs
        /\ work'[i].obj = work[i].obj /\ work'[i].snap = x
        /\ work'[i].list = work[i].list /\ work'[i].todo = work[i].todo
    BY <1>0, <1>2 DEF WorkStates
  <2> QED BY <1>2, <2>1 DEF x
<1> QED BY <1>1, <1>2 DEF GetSource, Return

LEMMA FitsSource ==
  ASSUME IndInv, FitsInv, [Next]_vars, NEW c \in Clusters, NEW o \in Objects
  PROVE  Shaped(source'[c][o])
<1>0. source \in [Clusters -> [Objects -> SourceObjects]] /\ Shaped(source[c][o])
  BY DEF IndInv, TypeOK, FitsInv
<1>1. ASSUME NEW e, NEW x, NEW v, source' = [source EXCEPT ![e][x] = v], Shaped(v)
      PROVE  Shaped(source'[c][o])
  <2>1. source'[c][o] = v \/ source'[c][o] = source[c][o]
    BY <1>0, <1>1
  <2> QED BY <1>0, <1>1, <2>1
<1>2. ASSUME NEW e, NEW x, NEW shape \in Shapes, SourceWrite(e, x, shape)
      PROVE  Shaped(source'[c][o])
  <2> DEFINE v == [rev |-> source[e][x].rev + 1, live |-> TRUE,
                   leaves |-> shape.leaves, scalarSpec |-> shape.scalarSpec]
  <2>1. source' = [source EXCEPT ![e][x] = v]
    BY <1>2 DEF SourceWrite
  <2>2. Shaped(v)
    BY DEF Shaped
  <2> HIDE DEF v
  <2> QED BY <1>1, <2>1, <2>2
<1>3. ASSUME NEW e, NEW x, SourceDelete(e, x)
      PROVE  Shaped(source'[c][o])
  <2> DEFINE v == [NeverSeen EXCEPT !.rev = source[e][x].rev + 1]
  <2>1. source' = [source EXCEPT ![e][x] = v]
    BY <1>3 DEF SourceDelete
  <2>2. Shaped(v)
    BY DEF Shaped, NeverSeen
  <2> HIDE DEF v
  <2> QED BY <1>1, <2>1, <2>2
<1>4. CASE UNCHANGED source
  BY <1>0, <1>4
<1>5. ASSUME NEW i \in Workers, Reconcile(i) PROVE UNCHANGED source
  BY <1>5 DEF Reconcile, GetSource, ListSyncers, BeginRule, GetClient, DeleteDest, CheckExists,
     GetNamespace, CreateNamespace, PatchObject, PatchStatus, Finish, inputVars
<1>6. ASSUME UNCHANGED vars \/ Machinery \/ \E i \in Workers, x \in Objects : TakeItem(i, x)
      PROVE  UNCHANGED source
  BY <1>6 DEF vars, Machinery, Deliver, Resync, BackoffExpires, TakeItem, inputVars
<1>7. ASSUME Environment
      PROVE  \/ UNCHANGED source
             \/ \E e \in Sources, x \in Objects, shape \in Shapes : SourceWrite(e, x, shape)
             \/ \E e \in Sources, x \in Objects : SourceDelete(e, x)
  BY <1>7 DEF Environment, EditSyncer, DestCreate, DestDelete, DestNamespaceDelete, Crash, Start,
     Stop, inputVars
<1> QED BY <1>2, <1>3, <1>4, <1>5, <1>6, <1>7 DEF Next

LEMMA FitsReconcile ==
  ASSUME IndInv, FitsInv, NEW i \in Workers, Reconcile(i)
  PROVE  Fits(i)'
<1>0. Fits(i)
  BY DEF FitsInv
<1>1. ASSUME work'[i] = Idle PROVE Fits(i)'
  BY <1>1, IdleFacts DEF Fits, RulePhases, Shaped
<1>2. CASE GetSource(i)
  <2>1. WatcherOf[i] \in Watchers /\ work[i].obj \in Objects
    BY IndInvFacts
  <2>2. Shaped(source[SourceOf(WatcherOf[i])][work[i].obj])
    BY <2>1, SourceOfType DEF FitsInv
  <2> QED BY <1>0, <1>1, <1>2, <2>2, GetEffect DEF Fits, ToApply, RulePhases
<1>3. CASE ListSyncers(i)
  BY <1>0, <1>1, <1>3, ListEffect DEF Fits, ToApply, RulePhases
<1>4. ASSUME NEW t \in ToApply(i), TurnsTo(i, t), work'[i].todo \subseteq work[i].todo,
             work'[i].pc = "client" \/ AtStart(i)'
      PROVE  Fits(i)'
  <2>1. ToApply(i)' = ToApply(i)
    BY <1>4 DEF TurnsTo, ToApply
  <2>2. ApplyPhase(work'[i].obj) \in {"patch", "nsget"}
    BY ApplyPhaseType
  <2>3. /\ work'[i].todo \subseteq ToApply(i)' /\ work'[i].task \in ToApply(i)'
        /\ Shaped(work'[i].snap)
    BY <1>0, <1>4, <2>1 DEF TurnsTo, Fits
  <2>4. /\ work'[i].pc = "delete" => ~work'[i].snap.live
        /\ work'[i].pc \in {"exists", "nsget", "nscreate", "patch", "status"} => work'[i].snap.live
        /\ work'[i].pc = "exists" => ~isFullSync(RuleOf(work'[i]).fields)
    BY <1>4, <2>2 DEF AtStart
  <2> QED BY <2>3, <2>4 DEF Fits
<1>5. CASE BeginRule(i)
  <2>1. PICK t \in NextTasks(work[i]) :
          /\ TurnsTo(i, t) /\ work'[i].todo = work[i].todo \ {t}
          /\ work'[i].pc = "client" \/ AtStart(i)'
    BY <1>5, BeginEffect
  <2>2. t \in ToApply(i)
    BY <1>0, NextTasksType, IndInvFacts DEF Fits
  <2> QED BY <1>4, <2>1, <2>2
<1>6. ASSUME NEW phase, NEW e, Continues(i, phase, e), work[i].pc \in RulePhases,
             \/ phase = "next"
             \/ phase \in {"nsget", "nscreate", "patch", "status"} /\ work[i].snap.live
      PROVE  Fits(i)'
  <2>1. ToApply(i)' = ToApply(i)
    BY <1>6 DEF Continues, ToApply
  <2> QED BY <1>0, <1>6, <2>1 DEF Continues, Fits, RulePhases
<1>7. CASE GetClient(i)
  <2>1. work[i].pc = "client" /\ work[i].pc \in RulePhases /\ work[i].task \in ToApply(i)
    BY <1>0, <1>7 DEF GetClient, Fits, RulePhases
  <2> QED BY <1>4, <1>6, <1>7, <2>1, ClientEffect
<1>8. CASE DeleteDest(i)
  BY <1>6, <1>8, GotoEffect DEF DeleteDest, RulePhases
<1>9. CASE \/ CheckExists(i) \/ GetNamespace(i) \/ CreateNamespace(i)
           \/ PatchObject(i) \/ PatchStatus(i)
  <2>1. work[i].snap.live
    BY <1>0, <1>9 DEF Fits, CheckExists, GetNamespace, CreateNamespace, PatchObject, PatchStatus
  <2> QED BY <1>6, <1>9, <2>1, CallsContinue
<1>10. CASE Finish(i)
  BY <1>1, <1>10 DEF Finish, Return, IndInv, TypeOK
<1> QED BY <1>2, <1>3, <1>5, <1>7, <1>8, <1>9, <1>10 DEF Reconcile

LEMMA FitsStep ==
  ASSUME IndInv, FitsInv, [Next]_vars
  PROVE  FitsInv'
<1>1. ASSUME NEW i \in Workers PROVE Fits(i)'
  <2>1. CASE work'[i] = work[i]
    BY <2>1 DEF FitsInv, Fits, ToApply
  <2>2. CASE /\ work'[i].pc = "idle" \/ work'[i].pc = "get"
             /\ work'[i].todo = {} /\ ~work'[i].snap.live
    BY <2>2 DEF Fits, RulePhases, Shaped
  <2> QED BY <2>1, <2>2, FitsReconcile, WorkerMoves
<1> QED BY <1>1, FitsSource DEF FitsInv

LEMMA InitFits == Init => FitsInv
<1> SUFFICES ASSUME Init PROVE FitsInv
  OBVIOUS
<1>1. \A i \in Workers : work[i] = Idle
  BY DEF Init
<1>2. \A c \in Clusters, o \in Objects : ~source[c][o].live
  BY DEF Init, NeverSeen
<1> QED BY <1>1, <1>2, IdleFacts DEF FitsInv, Fits, RulePhases, Shaped

\* holds in every deployment
LEMMA FitsHolds == Spec => []FitsInv
<1>1. IndInv /\ FitsInv /\ [Next]_vars => FitsInv'
  BY FitsStep
<1> QED BY <1>1, InitFits, IndInvHolds, PTL DEF Spec
------------------------------------------------------------------------------
(****************************************************************************)
(* What a worker found or did on its destination stays so until it goes on, *)
(* as long as nobody removes anything there.                                *)
(****************************************************************************)

BudgetInv == \A k \in Disturbances : budget[k] <= Budget[k]

LEMMA BudgetHolds == Spec => []BudgetInv
<1>1. Init => BudgetInv
  BY SyncAssumption DEF Init, BudgetInv
<1>2. ASSUME IndInv, BudgetInv, [Next]_vars PROVE BudgetInv'
  <2>1. IndInv'
    BY <1>2, StepType
  <2>2. budget \in [Disturbances -> Nat] /\ budget' \in [Disturbances -> Nat]
    BY <1>2, <2>1 DEF IndInv, TypeOK
  <2>3. \A k \in Disturbances :
          budget'[k] <= budget[k] /\ budget[k] <= Budget[k] /\ Budget[k] \in Nat
    BY <1>2, BudgetStep, SyncAssumption DEF BudgetInv
  <2> QED BY <2>2, <2>3 DEF BudgetInv
<1> QED BY <1>1, <1>2, IndInvHolds, PTL DEF Spec

\* nothing removed by the end of a step: nothing before it, nothing in it
LEMMA NotRemoved ==
  ASSUME IndInv, BudgetInv, [Next]_vars, NothingRemoved'
  PROVE  NothingRemoved /\ ~(budget'["remove"] < budget["remove"])
<1>1. "remove" \in Disturbances
  BY DEF Disturbances
<1>2. /\ budget["remove"] \in Nat /\ Budget["remove"] \in Nat
      /\ budget["remove"] <= Budget["remove"] /\ budget'["remove"] <= budget["remove"]
  BY <1>1, BudgetStep, SyncAssumption DEF IndInv, TypeOK, BudgetInv
<1> QED BY <1>2 DEF NothingRemoved

\* A worker that is past the checks of applyToDestination still passes them: in
\* status mode the copy is there, the namespace is there, and between the two
\* patches the copy has what the first one sent.
Ready(i) ==
  LET wk == work[i]  d == DestOfWorker(i)  copy == dest[d][wk.obj] IN
  /\ wk.pc \in {"nsget", "nscreate", "patch"} => isFullSync(RuleOf(wk).fields) \/ copy.live
  /\ wk.pc = "patch" => NsOf[wk.obj] = NoNs \/ NsOf[wk.obj] \in nss[d]
  /\ wk.pc = "status" =>
       /\ copy.live /\ "status" \in Payload(wk)
       /\ \A f \in Payload(wk) \ {"status"} : copy.val[f] = wk.snap.rev

ReadyInv == NothingRemoved => \A i \in Workers : Ready(i)

\* the steps that write take the worker to another phase
LEMMA WritesMove ==
  ASSUME IndInv, NEW i \in Workers, Writes(i)
  PROVE  work'[i].pc # work[i].pc
<1>1. \/ work[i].pc # "next" /\ (Goto(i, "next") \/ RuleFails(i))
      \/ work[i].pc # "status" /\ Goto(i, "status")
  BY DEF Writes, DeleteDest, PatchObject, PatchStatus
<1>2. Goto(i, "next") \/ RuleFails(i) => work'[i].pc = "next"
  BY GotoEffect DEF Continues
<1>3. Goto(i, "status") => work'[i].pc = "status"
  BY GotoEffect DEF Continues
<1> QED BY <1>1, <1>2, <1>3

LEMMA ReadyKept ==
  ASSUME IndInv, OneWorkerPerObject, SingleWriter, [Next]_vars, NEW i \in Workers, Ready(i),
         work'[i] = work[i], ~(budget'["remove"] < budget["remove"])
  PROVE  Ready(i)'
<1> DEFINE d == DestOfWorker(i)
           o == work[i].obj
<1>1. CASE work[i].pc \notin RulePhases
  BY <1>1 DEF Ready, RulePhases
<1>2. CASE work[i].pc \in RulePhases
  <2>1. d \in DestsOf(WatcherOf[i]) /\ d \in Clusters /\ work[i].pc # "idle" /\ ~Writes(i)
    BY <1>2, DestInDests, WritesMove DEF RulePhases
  <2>2. dest'[d][o] = dest[d][o] \/ ~dest[d][o].live
    BY <2>1, Undisturbed
  <2>3. nss[d] \subseteq nss'[d]
    BY <2>1, NamespaceStep
  <2>4. DestOfWorker(i)' = d /\ work'[i].obj = o /\ RuleOf(work'[i]) = RuleOf(work[i])
        /\ Payload(work'[i]) = Payload(work[i])
    BY DEF DestOfWorker
  <2>5. /\ work[i].pc \in {"nsget", "nscreate", "patch"} =>
             isFullSync(RuleOf(work[i]).fields) \/ dest[d][o].live
        /\ work[i].pc = "patch" => NsOf[o] = NoNs \/ NsOf[o] \in nss[d]
        /\ work[i].pc = "status" =>
             /\ dest[d][o].live /\ "status" \in Payload(work[i])
             /\ \A f \in Payload(work[i]) \ {"status"} : dest[d][o].val[f] = work[i].snap.rev
    BY DEF Ready
  <2> HIDE DEF d, o
  <2> QED BY <2>2, <2>3, <2>4, <2>5 DEF Ready
<1> QED BY <1>1, <1>2

LEMMA ReadyReconcile ==
  ASSUME IndInv, NEW i \in Workers, Reconcile(i), Ready(i)
  PROVE  Ready(i)'
<1> DEFINE d == DestOfWorker(i)
           o == work[i].obj
<1>1. ASSUME work'[i].pc \notin {"nsget", "nscreate", "patch", "status"} PROVE Ready(i)'
  BY <1>1 DEF Ready
<1>2. CASE GetSource(i) \/ ListSyncers(i) \/ Finish(i)
  <2>1. work'[i] = Idle \/ work'[i].pc \in {"list", "next"}
    BY <1>2, GetEffect, ListEffect DEF Finish, Return, IndInv, TypeOK
  <2> QED BY <1>1, <2>1, IdleFacts
<1>3. ASSUME AtStart(i)' PROVE Ready(i)'
  <2>1. CASE work'[i].pc = ApplyPhase(work'[i].obj) /\ isFullSync(RuleOf(work'[i]).fields)
    <3>1. /\ work'[i].pc \in {"patch", "nsget"}
          /\ work'[i].pc = "patch" => NsOf[work'[i].obj] = NoNs
      BY <2>1 DEF ApplyPhase
    <3> QED BY <2>1, <3>1 DEF Ready
  <2> QED BY <1>1, <1>3, <2>1 DEF AtStart
<1>4. CASE BeginRule(i)
  BY <1>1, <1>3, <1>4, BeginEffect
<1>5. CASE GetClient(i)
  BY <1>1, <1>3, <1>5, ClientEffect DEF Continues
<1>6. RuleFails(i) \/ Goto(i, "next") => Ready(i)'
  <2>1. RuleFails(i) \/ Goto(i, "next") => work'[i].pc = "next"
    BY GotoEffect DEF Continues
  <2> QED BY <1>1, <2>1
<1>7. CASE DeleteDest(i) \/ PatchStatus(i)
  BY <1>6, <1>7 DEF DeleteDest, PatchStatus
<1>8. ASSUME NEW phase, Continues(i, phase, work[i].errs)
      PROVE  /\ DestOfWorker(i)' = d /\ work'[i].obj = o /\ RuleOf(work'[i]) = RuleOf(work[i])
             /\ Payload(work'[i]) = Payload(work[i]) /\ work'[i].snap = work[i].snap
             /\ work'[i].pc = phase
  BY <1>8 DEF Continues, DestOfWorker, RuleOf, Payload
<1>9. CASE CheckExists(i)
  <2>1. CASE dest[d][o].live /\ Goto(i, ApplyPhase(o)) /\ UNCHANGED dest
    <3>1. Continues(i, ApplyPhase(o), work[i].errs)
      BY <2>1, GotoEffect
    <3>2. ApplyPhase(o) \in {"patch", "nsget"} /\ (ApplyPhase(o) = "patch" => NsOf[o] = NoNs)
      BY DEF ApplyPhase
    <3> HIDE DEF d, o
    <3> QED BY <1>8, <2>1, <3>1, <3>2 DEF Ready
  <2> QED BY <1>6, <1>9, <2>1 DEF CheckExists, destinationExists, clusterVars
<1>10. CASE GetNamespace(i)
  <2>1. work[i].pc = "nsget" /\ UNCHANGED <<dest, nss>>
    BY <1>10 DEF GetNamespace, clusterVars
  <2>2. isFullSync(RuleOf(work[i]).fields) \/ dest[d][o].live
    BY <2>1 DEF Ready
  <2>3. ASSUME NEW phase, Goto(i, phase),
               phase = "nscreate" \/ (phase = "patch" /\ NsOf[o] \in nss[d])
        PROVE  Ready(i)'
    <3>1. Continues(i, phase, work[i].errs)
      BY <2>3, GotoEffect
    <3> HIDE DEF d, o
    <3> QED BY <1>8, <2>1, <2>2, <2>3, <3>1 DEF Ready
  <2>4. \/ RuleFails(i) \/ Goto(i, "nscreate")
        \/ NsOf[o] \in nss[d] /\ Goto(i, "patch")
    BY <1>10 DEF GetNamespace
  <2> QED BY <1>6, <2>3, <2>4
<1>11. CASE CreateNamespace(i)
  <2>1. work[i].pc = "nscreate" /\ UNCHANGED dest
    BY <1>11 DEF CreateNamespace
  <2>2. isFullSync(RuleOf(work[i]).fields) \/ dest[d][o].live
    BY <2>1 DEF Ready
  <2>3. ASSUME Goto(i, "patch"), nss' = [nss EXCEPT ![d] = @ \cup {NsOf[o]}]
        PROVE  Ready(i)'
    <3>1. Continues(i, "patch", work[i].errs)
      BY <2>3, GotoEffect
    <3>2. d \in Clusters /\ nss \in [Clusters -> SUBSET Namespaces]
      BY <2>1, DestInDests DEF RulePhases, IndInv, TypeOK
    <3>3. NsOf[o] \in nss'[d]
      BY <2>3, <3>2
    <3> HIDE DEF d, o
    <3> QED BY <1>8, <2>1, <2>2, <3>1, <3>3 DEF Ready
  <2> QED BY <1>6, <1>11, <2>3 DEF CreateNamespace
<1>12. CASE PatchObject(i)
  <2> DEFINE sent == Payload(work[i]) \ {"status"}
             rev == work[i].snap.rev
             copy == Applied(dest[d][o], sent, rev)
  <2>1. ASSUME Goto(i, "status"), "status" \in Payload(work[i]),
               dest' = [dest EXCEPT ![d][o] = copy]
        PROVE  Ready(i)'
    <3>1. Continues(i, "status", work[i].errs)
      BY <2>1, GotoEffect
    <3>2. /\ d \in Clusters /\ o \in Objects /\ dest \in [Clusters -> [Objects -> DestObjects]]
      BY <1>12, DestInDests, IndInvFacts DEF PatchObject, RulePhases, IndInv, TypeOK
    <3>3. copy.live /\ \A f \in sent : copy.val[f] = rev
      BY DEF Applied, Payload, filterFields, Leaves
    <3> HIDE DEF d, o, copy
    <3>4. dest'[d][o] = copy
      BY <2>1, <3>2
    <3> QED BY <1>8, <2>1, <3>1, <3>3, <3>4 DEF Ready
  <2> QED BY <1>6, <1>12, <2>1 DEF PatchObject
<1> QED BY <1>2, <1>4, <1>5, <1>7, <1>9, <1>10, <1>11, <1>12 DEF Reconcile

LEMMA ReadyStep ==
  ASSUME IndInv, OneWorkerPerObject, SingleWriter, BudgetInv, ReadyInv, [Next]_vars
  PROVE  ReadyInv'
<1> SUFFICES ASSUME NothingRemoved', NEW i \in Workers PROVE Ready(i)'
  BY DEF ReadyInv
<1>1. Ready(i) /\ ~(budget'["remove"] < budget["remove"])
  BY NotRemoved DEF ReadyInv
<1>2. CASE work'[i].pc = "idle" \/ work'[i].pc = "get"
  BY <1>2 DEF Ready
<1>3. CASE work'[i] = work[i]
  BY <1>1, <1>3, ReadyKept
<1>4. CASE Reconcile(i)
  BY <1>1, <1>4, ReadyReconcile
<1> QED BY <1>2, <1>3, <1>4, WorkerMoves

\* holds wherever no two watchers share a destination
LEMMA ReadyHolds ==
  ASSUME SingleWriter
  PROVE  Spec => []ReadyInv
<1>1. Init => ReadyInv
  <2>1. Init => \A i \in Workers : work[i] = Idle
    BY DEF Init
  <2> QED BY <2>1, IdleFacts DEF ReadyInv, Ready
<1>2. IndInv /\ OneWorkerPerObject /\ BudgetInv /\ ReadyInv /\ [Next]_vars => ReadyInv'
  BY ReadyStep
<1> QED BY <1>1, <1>2, IndInvHolds, ReconcilesNeverOverlap, BudgetHolds, PTL DEF Spec

------------------------------------------------------------------------------
(****************************************************************************)
(* In status mode nothing is created.                                       *)
(****************************************************************************)

\* every object of the source has labels, annotations or a spec
HasBody == \A shape \in Shapes : "body" \in shape.leaves

LEMMA RemovalsExcluded ==
  ASSUME IndInv, BudgetInv, Budget["remove"] = 0
  PROVE  NothingRemoved
<1>1. "remove" \in Disturbances
  BY DEF Disturbances
<1>2. budget["remove"] \in Nat /\ budget["remove"] <= Budget["remove"]
  BY <1>1 DEF IndInv, TypeOK, BudgetInv
<1> QED BY <1>2 DEF NothingRemoved

\* what a write makes of an object
LEMMA WriteEffect ==
  ASSUME IndInv, NEW i \in Workers, Writes(i)
  PROVE  LET d == DestOfWorker(i)  wk == work[i]  o == wk.obj
             old == dest[d][o]  rev == wk.snap.rev  sent == Payload(wk) \ {"status"}
         IN  \/ dest'[d][o] = old /\ Continues(i, "next", TRUE)
             \/ /\ wk.pc = "delete" /\ dest'[d][o] = Gone
                /\ Continues(i, "next", wk.errs) \/ Continues(i, "next", TRUE)
             \/ /\ wk.pc = "patch" /\ dest'[d][o] = Applied(old, sent, rev)
                /\ \/ Continues(i, IF "status" \in Payload(wk) THEN "status" ELSE "next", wk.errs)
                   \/ Continues(i, "next", TRUE)
             \/ /\ wk.pc = "status" /\ old.live /\ dest'[d][o] = StatusApplied(old, rev)
                /\ Continues(i, "next", wk.errs) \/ Continues(i, "next", TRUE)
<1> DEFINE d == DestOfWorker(i)
           wk == work[i]
           o == wk.obj
           old == dest[d][o]
           rev == wk.snap.rev
           sent == Payload(wk) \ {"status"}
           after == IF "status" \in Payload(wk) THEN "status" ELSE "next"
<1>1. work[i].pc \in {"delete", "patch", "status"}
  BY DEF Writes, DeleteDest, PatchObject, PatchStatus
<1>2. d \in Clusters /\ o \in Objects /\ dest \in [Clusters -> [Objects -> DestObjects]]
  BY <1>1, DestInDests, IndInvFacts DEF RulePhases, IndInv, TypeOK
<1>3. \/ UNCHANGED dest /\ RuleFails(i)
      \/ /\ wk.pc = "delete" /\ dest' = [dest EXCEPT ![d][o] = Gone]
         /\ Goto(i, "next") \/ RuleFails(i)
      \/ /\ wk.pc = "patch" /\ dest' = [dest EXCEPT ![d][o] = Applied(old, sent, rev)]
         /\ Goto(i, after) \/ RuleFails(i)
      \/ /\ wk.pc = "status" /\ old.live
         /\ dest' = [dest EXCEPT ![d][o] = StatusApplied(old, rev)]
         /\ Goto(i, "next") \/ RuleFails(i)
  BY DEF Writes, DeleteDest, PatchObject, PatchStatus
<1>4. ASSUME NEW v, dest' = [dest EXCEPT ![d][o] = v] PROVE dest'[d][o] = v
  BY <1>2, <1>4
<1>5. \A phase : Goto(i, phase) => Continues(i, phase, wk.errs)
  BY GotoEffect
<1>6. RuleFails(i) => Continues(i, "next", TRUE)
  BY GotoEffect
<1> HIDE DEF after, sent, rev, d, o, wk
<1>7. \/ dest'[d][o] = old /\ Continues(i, "next", TRUE)
      \/ /\ wk.pc = "delete" /\ dest'[d][o] = Gone
         /\ Continues(i, "next", wk.errs) \/ Continues(i, "next", TRUE)
      \/ /\ wk.pc = "patch" /\ dest'[d][o] = Applied(old, sent, rev)
         /\ Continues(i, after, wk.errs) \/ Continues(i, "next", TRUE)
      \/ /\ wk.pc = "status" /\ old.live /\ dest'[d][o] = StatusApplied(old, rev)
         /\ Continues(i, "next", wk.errs) \/ Continues(i, "next", TRUE)
  BY <1>3, <1>4, <1>5, <1>6
<1> QED BY <1>7 DEF after, sent, rev, d, o, wk

\* Where nobody deletes objects behind the syncer's back and one watcher writes to
\* each destination, an object appears there with its body only: the existence check
\* of status mode is still true when the patch is sent, however many calls, faults,
\* restarts and edits lie between, so no stub is created.
THEOREM NoStubIsCreated ==
  ASSUME SingleWriter, HasBody, Budget["remove"] = 0
  PROVE  Spec => StatusModeNeverCreates
<1>1. ASSUME IndInv, FitsInv, BudgetInv, ReadyInv, [Next]_vars
      PROVE  [\A d \in Clusters, o \in Objects :
                ~dest[d][o].live /\ dest'[d][o].live => dest'[d][o].val["body"] # Unset]_vars
  <2> SUFFICES ASSUME NEW d \in Clusters, NEW o \in Objects, ~dest[d][o].live, dest'[d][o].live
               PROVE  dest'[d][o].val["body"] # Unset
    OBVIOUS
  <2>1. dest'[d][o] # Gone
    BY DEF Gone
  <2>2. CASE dest'[d][o] = Stub
    BY <2>2 DEF Stub, Gone, Foreign, Unset, Leaves
  <2>3. ASSUME NEW i \in Workers, Writes(i), d = DestOfWorker(i), o = work[i].obj
        PROVE  dest'[d][o].val["body"] # Unset
    <3> DEFINE sent == Payload(work[i]) \ {"status"}
               rev == work[i].snap.rev
    <3>1. work[i].pc = "patch" /\ dest'[d][o] = Applied(dest[d][o], sent, rev)
      BY <1>1, <2>1, <2>3, WriteEffect
    <3>2. Ready(i) /\ Fits(i)
      BY <1>1, RemovalsExcluded DEF ReadyInv, FitsInv
    <3>3. isFullSync(RuleOf(work[i]).fields)
      BY <2>3, <3>1, <3>2 DEF Ready
    <3>4. "body" \in work[i].snap.leaves
      BY <3>1, <3>2 DEF Fits, Shaped, HasBody
    <3>5. "body" \in sent /\ "body" \in Leaves
      BY <3>3, <3>4 DEF Payload, filterFields, Leaves
    <3>6. rev \in Nat
      BY <1>1, ValueTypes
    <3> HIDE DEF sent, rev
    <3>7. Applied(dest[d][o], sent, rev).val["body"] = rev
      BY <3>5 DEF Applied
    <3> QED BY <3>1, <3>6, <3>7 DEF Unset
  <2> QED BY <1>1, <2>1, <2>2, <2>3, DestStep
<1> QED BY <1>1, IndInvHolds, FitsHolds, BudgetHolds, ReadyHolds, PTL
        DEF Spec, StatusModeNeverCreates

------------------------------------------------------------------------------
(****************************************************************************)
(* What is recorded as a success has been applied.                          *)
(****************************************************************************)

OneSyncer == \A s, t \in Syncers : s = t
FullSyncOnly ==
  \A spec \in SyncerSpecs : \A k \in DOMAIN spec.rules : isFullSync(spec.rules[k].fields)

\* The rules of a KRMSyncer are applied in order: what is left of them is a tail,
\* and comes after the rule under way.
InOrder(i) ==
  LET wk == work[i]  m == ToApply(i) IN
  wk.pc \in {"next"} \cup RulePhases =>
    /\ \A t \in m, u \in wk.todo : t[1] = u[1] /\ t[2] >= u[2] => t \in wk.todo
    /\ wk.pc \in RulePhases =>
         \A t \in m : t[1] = wk.task[1] /\ t[2] > wk.task[2] => t \in wk.todo

OrderInv == \A i \in Workers : InOrder(i)

LEMMA ToApplyTasks ==
  ASSUME NEW i \in Workers, NEW t \in ToApply(i)
  PROVE  t \in Tasks /\ t[2] \in Nat
BY SyncAssumption DEF ToApply, Matching, Tasks

LEMMA NextTasksFirst ==
  ASSUME NEW wk, NEW t \in NextTasks(wk)
  PROVE  t \in wk.todo /\ \A u \in wk.todo : u[1] = t[1] => t[2] <= u[2]
BY DEF NextTasks

LEMMA OrderReconcile ==
  ASSUME IndInv, FitsInv, NEW i \in Workers, Reconcile(i), InOrder(i)
  PROVE  InOrder(i)'
<1>0. Fits(i)
  BY DEF FitsInv
<1>1. CASE GetSource(i) \/ Finish(i)
  <2>1. work'[i].pc \in {"idle", "list"}
    <3>1. Finish(i) => work'[i] = Idle
      BY DEF Finish, Return, IndInv, TypeOK
    <3> QED BY <1>1, <3>1, GetEffect, IdleFacts
  <2> QED BY <2>1 DEF InOrder, RulePhases
<1>2. CASE ListSyncers(i)
  <2>1. CASE work'[i] = Idle
    BY <2>1, IdleFacts DEF InOrder, RulePhases
  <2>2. CASE work'[i].pc = "next" /\ work'[i].todo = ToApply(i)'
    BY <2>2 DEF InOrder, RulePhases
  <2> QED BY <1>2, <2>1, <2>2, ListEffect DEF ToApply
<1>3. ASSUME work[i].pc \in RulePhases, work'[i].todo = work[i].todo, work'[i].task = work[i].task,
             work'[i].obj = work[i].obj, work'[i].list = work[i].list
      PROVE  InOrder(i)'
  <2>1. ToApply(i)' = ToApply(i)
    BY <1>3 DEF ToApply
  <2> QED BY <1>3, <2>1 DEF InOrder
<1>4. CASE BeginRule(i)
  <2>1. PICK t \in NextTasks(work[i]) : TurnsTo(i, t) /\ work'[i].todo = work[i].todo \ {t}
    BY <1>4, BeginEffect
  <2>2. ToApply(i)' = ToApply(i) /\ work'[i].task = t
    BY <2>1 DEF ToApply, TurnsTo
  <2>3. t \in work[i].todo /\ \A u \in work[i].todo : u[1] = t[1] => t[2] <= u[2]
    BY NextTasksFirst
  <2>4. /\ \A x \in ToApply(i), u \in work[i].todo :
             x[1] = u[1] /\ x[2] >= u[2] => x \in work[i].todo
        /\ work[i].todo \subseteq ToApply(i)
    BY <1>0, <1>4 DEF InOrder, BeginRule, Fits
  <2>5. \A x, y \in ToApply(i) : x[1] = y[1] /\ x[2] = y[2] => x = y
    <3>1. \A x, y \in Tasks : x[1] = y[1] /\ x[2] = y[2] => x = y
      BY DEF Tasks
    <3> QED BY <3>1, ToApplyTasks
  <2>6. \A x \in ToApply(i) : x[2] \in Nat
    BY ToApplyTasks
  <2>7. ASSUME NEW x \in ToApply(i), NEW u \in work[i].todo \ {t}, x[1] = u[1], x[2] >= u[2]
        PROVE  x \in work[i].todo \ {t}
    <3>1. x \in work[i].todo
      BY <2>4, <2>7
    <3>2. x # t
      BY <2>3, <2>4, <2>5, <2>6, <2>7
    <3> QED BY <3>1, <3>2
  <2>8. ASSUME NEW x \in ToApply(i), x[1] = t[1], x[2] > t[2]
        PROVE  x \in work[i].todo \ {t}
    <3>1. x[2] \in Nat /\ t[2] \in Nat
      BY <2>3, <2>4, <2>6
    <3>2. x[2] >= t[2] /\ x # t
      BY <2>8, <3>1
    <3> QED BY <2>3, <2>4, <2>8, <3>2
  <2> QED BY <2>1, <2>2, <2>7, <2>8 DEF InOrder
<1>5. CASE GetClient(i)
  BY <1>3, <1>5, ClientEffect DEF GetClient, RulePhases, TurnsTo, Continues
<1>6. CASE \/ DeleteDest(i) \/ CheckExists(i) \/ GetNamespace(i) \/ CreateNamespace(i)
           \/ PatchObject(i) \/ PatchStatus(i)
  BY <1>3, <1>6, CallsContinue DEF Continues
<1> QED BY <1>1, <1>2, <1>4, <1>5, <1>6 DEF Reconcile

\* holds in every deployment
LEMMA OrderHolds == Spec => []OrderInv
<1>1. Init => OrderInv
  <2>1. Init => \A i \in Workers : work[i] = Idle
    BY DEF Init
  <2> QED BY <2>1, IdleFacts DEF OrderInv, InOrder, RulePhases
<1>2. ASSUME IndInv, FitsInv, OrderInv, [Next]_vars PROVE OrderInv'
  <2> SUFFICES ASSUME NEW i \in Workers PROVE InOrder(i)'
    BY DEF OrderInv
  <2>1. CASE work'[i] = work[i]
    BY <1>2, <2>1 DEF OrderInv, InOrder, ToApply
  <2>2. CASE work'[i].pc = "idle" \/ work'[i].pc = "get"
    BY <2>2 DEF InOrder, RulePhases
  <2>3. CASE Reconcile(i)
    BY <1>2, <2>3, OrderReconcile DEF OrderInv
  <2> QED BY <1>2, <2>1, <2>2, <2>3, WorkerMoves
<1> QED BY <1>1, <1>2, IndInvHolds, FitsHolds, PTL DEF Spec

\* the copy has what a rule with these fields was to write of the object
Holds(copy, x, fields) ==
  IF x.live
  THEN copy.live /\ \A f \in filterFields(x.leaves, fields) : copy.val[f] = x.rev
  ELSE copy.mine = {}

\* the destination of rule t has what it was to write
Held(i, t) ==
  LET wk == work[i]  spec == wk.list[t[1]] IN
  Holds(dest[DestOf(WatcherOf[i], spec)][wk.obj], wk.snap, spec.rules[t[2]].fields)

\* worker i is through with rule t, and nothing has failed
Through(i, t) ==
  LET wk == work[i] IN
  /\ wk.pc \in {"next"} \cup RulePhases
  /\ ~wk.errs
  /\ t \notin wk.todo
  /\ wk.pc \in RulePhases => wk.task # t

\* the last rules of the KRMSyncers that worker i applies
LastRules(i) == {t \in ToApply(i) : \A u \in ToApply(i) : u[1] = t[1] => u[2] <= t[2]}

HeldInv ==
  NothingRemoved => \A i \in Workers : \A t \in LastRules(i) : Through(i, t) => Held(i, t)

\* where a rule that applies goes
LEMMA RuleDest ==
  ASSUME IndInv, NEW i \in Workers, NEW t \in ToApply(i)
  PROVE  LET spec == work[i].list[t[1]] IN
         /\ spec \in SyncerSpecs /\ t[2] \in DOMAIN spec.rules
         /\ DestOf(WatcherOf[i], spec) \in DestsOf(WatcherOf[i])
         /\ DestOf(WatcherOf[i], spec) \in Clusters
<1>1. t[1] \in Syncers /\ work[i].list[t[1]] # NoSyncer /\ t[2] \in DOMAIN work[i].list[t[1]].rules
  BY DEF ToApply, Matching, Tasks
<1>2. work[i].list[t[1]] \in SyncerSpecs
  BY <1>1, IndInvFacts DEF WorkStates
<1>3. work[i].list[t[1]].remote \in Remotes
  BY <1>2, SyncAssumption
<1> QED BY <1>1, <1>2, <1>3 DEF DestOf, DestsOf, Clusters

\* Held in the state after a step
LEMMA HeldNext ==
  ASSUME NEW i \in Workers, NEW t, NEW d, NEW o, NEW x, NEW fields,
         work'[i].obj = o, work'[i].snap = x, work'[i].list[t[1]].rules[t[2]].fields = fields,
         DestOf(WatcherOf[i], work'[i].list[t[1]]) = d, Holds(dest'[d][o], x, fields)
  PROVE  Held(i, t)'
<1> DEFINE spec == work'[i].list[t[1]]
           copy == dest'[DestOf(WatcherOf[i], spec)][work'[i].obj]
           obj == work'[i].snap
           sync == spec.rules[t[2]].fields
<1>1. copy = dest'[d][o] /\ obj = x /\ sync = fields
  OBVIOUS
<1>2. Held(i, t)' <=> Holds(copy, obj, sync)
  BY DEF Held, Holds, DestOf, filterFields, isFullSync
<1> HIDE DEF copy, obj, sync
<1> QED BY <1>1, <1>2

\* what a rule has written stays while the worker does not write
LEMMA HeldKept ==
  ASSUME IndInv, OneWorkerPerObject, SingleWriter, [Next]_vars, NEW i \in Workers,
         NEW t \in ToApply(i), Held(i, t), work[i].pc # "idle", ~Writes(i),
         ~(budget'["remove"] < budget["remove"]),
         work'[i].obj = work[i].obj, work'[i].snap = work[i].snap, work'[i].list = work[i].list
  PROVE  Held(i, t)'
<1> DEFINE spec == work[i].list[t[1]]
           d == DestOf(WatcherOf[i], spec)
           o == work[i].obj
           x == work[i].snap
           fields == spec.rules[t[2]].fields
<1>1. d \in DestsOf(WatcherOf[i]) /\ d \in Clusters
  BY RuleDest
<1>2. dest'[d][o] = dest[d][o] \/ (~dest[d][o].live /\ dest'[d][o] = Stub)
  BY <1>1, Undisturbed
<1>3. Holds(dest[d][o], x, fields)
  BY DEF Held
<1>4. /\ work'[i].obj = o /\ work'[i].snap = x /\ work'[i].list[t[1]].rules[t[2]].fields = fields
      /\ DestOf(WatcherOf[i], work'[i].list[t[1]]) = d
  OBVIOUS
<1> HIDE DEF d, o, x, fields
<1>5. Holds(dest'[d][o], x, fields)
  BY <1>2, <1>3 DEF Holds, Stub, Gone
<1> QED BY <1>4, <1>5, HeldNext

\* what the calls leave of a copy
LEMMA PatchedHolds ==
  ASSUME NEW old \in DestObjects, NEW x, NEW fields
  PROVE  LET p == filterFields(x.leaves, fields)  rev == x.rev IN
         /\ ~x.live => Holds(Gone, x, fields)
         /\ x.live /\ "status" \notin p => Holds(Applied(old, p \ {"status"}, rev), x, fields)
         /\ x.live /\ old.live /\ (\A f \in p \ {"status"} : old.val[f] = rev)
              => Holds(StatusApplied(old, rev), x, fields)
<1> DEFINE p == filterFields(x.leaves, fields)
           rev == x.rev
<1>1. p \subseteq Leaves
  BY DEF filterFields, Leaves
<1>2. ~x.live => Holds(Gone, x, fields)
  BY DEF Holds, Gone
<1>3. ASSUME x.live, "status" \notin p
      PROVE  Holds(Applied(old, p \ {"status"}, rev), x, fields)
  <2>1. p \ {"status"} = p
    BY <1>3
  <2> HIDE DEF p
  <2>2. Applied(old, p, rev).live /\ \A f \in p : Applied(old, p, rev).val[f] = rev
    BY <1>1 DEF Applied
  <2> QED BY <1>3, <2>1, <2>2 DEF Holds, p
<1>4. ASSUME x.live, old.live, \A f \in p \ {"status"} : old.val[f] = rev
      PROVE  Holds(StatusApplied(old, rev), x, fields)
  <2> HIDE DEF p
  <2>1. /\ StatusApplied(old, rev).live
        /\ \A f \in p : StatusApplied(old, rev).val[f] = rev
    BY <1>1, <1>4 DEF StatusApplied, DestObjects
  <2> QED BY <1>4, <2>1 DEF Holds, p
<1> QED BY <1>2, <1>3, <1>4

\* a full sync leaves what another one has written
LEMMA FullSyncsAgree ==
  ASSUME NEW old \in DestObjects, NEW x, x.live, NEW fields, NEW other,
         isFullSync(fields), isFullSync(other), Holds(old, x, fields)
  PROVE  /\ Holds(Applied(old, filterFields(x.leaves, other) \ {"status"}, x.rev), x, fields)
         /\ Holds(StatusApplied(old, x.rev), x, fields)
<1> DEFINE p == filterFields(x.leaves, fields)
           sent == filterFields(x.leaves, other) \ {"status"}
           rev == x.rev
<1>1. p \subseteq Leaves /\ (\A f \in p : f \in sent \/ f = "status") /\ "status" \notin sent
  BY DEF filterFields, Leaves, isFullSync
<1>2. old.live /\ \A f \in p : old.val[f] = rev
  BY DEF Holds
<1> HIDE DEF p, sent, rev
<1>3. Applied(old, sent, rev).live /\ \A f \in p : Applied(old, sent, rev).val[f] = rev
  <2>1. \A f \in Leaves : f \in sent => Applied(old, sent, rev).val[f] = rev
    BY DEF Applied
  <2>2. Applied(old, sent, rev).val["status"] = old.val["status"]
    BY <1>1 DEF Applied, Leaves
  <2>3. Applied(old, sent, rev).live
    BY DEF Applied
  <2> QED BY <1>1, <1>2, <2>1, <2>2, <2>3
<1>4. StatusApplied(old, rev).live /\ \A f \in p : StatusApplied(old, rev).val[f] = rev
  BY <1>1, <1>2 DEF StatusApplied, DestObjects
<1> QED BY <1>3, <1>4 DEF Holds, p, sent, rev

\* a rule that ends without an error has written what it was to write
LEMMA HeldByWrite ==
  ASSUME IndInv, FitsInv, NEW i \in Workers, Writes(i), Ready(i),
         work'[i].pc = "next", ~work'[i].errs, NEW t, t = work[i].task
  PROVE  Held(i, t)'
<1> DEFINE d == DestOfWorker(i)
           old == dest[d][work[i].obj]
           new == dest'[d][work[i].obj]
           x == work[i].snap
           fields == RuleOf(work[i]).fields
           p == filterFields(x.leaves, fields)
<1>1. work[i].pc \in {"delete", "patch", "status"} /\ Fits(i)
  BY DEF Writes, DeleteDest, PatchObject, PatchStatus, FitsInv
<1>2. old \in DestObjects
  BY <1>1, DestInDests, IndInvFacts DEF RulePhases, IndInv, TypeOK
<1>3. /\ work'[i].obj = work[i].obj /\ work'[i].snap = x /\ work'[i].list = work[i].list
      /\ work'[i].task = work[i].task
      /\ \/ work[i].pc = "delete" /\ new = Gone
         \/ work[i].pc = "patch" /\ "status" \notin p /\ new = Applied(old, p \ {"status"}, x.rev)
         \/ work[i].pc = "status" /\ new = StatusApplied(old, x.rev)
  BY WriteEffect DEF Continues, Payload
<1>4. /\ work[i].pc = "delete" => ~x.live
      /\ work[i].pc \in {"patch", "status"} => x.live
      /\ work[i].pc = "status" => old.live /\ \A f \in p \ {"status"} : old.val[f] = x.rev
  BY <1>1 DEF Fits, Ready, Payload
<1>5. Holds(new, x, fields)
  <2> HIDE DEF old, new, x, fields
  <2> QED BY <1>2, <1>3, <1>4, PatchedHolds
<1>6. work'[i].obj = work[i].obj /\ work'[i].snap = x /\ work'[i].list = work[i].list
  BY <1>3
<1>7. work'[i].list[t[1]].rules[t[2]].fields = fields
  BY <1>6 DEF RuleOf
<1>8. DestOf(WatcherOf[i], work'[i].list[t[1]]) = d
  BY <1>6 DEF DestOfWorker
<1> HIDE DEF d, x, fields
<1> QED BY <1>5, <1>6, <1>7, <1>8, HeldNext

\* a later full sync by another KRMSyncer leaves what a full sync has written
LEMMA HeldByOthers ==
  ASSUME IndInv, FitsInv, FullSyncOnly, NEW i \in Workers, Writes(i), ~work'[i].errs,
         NEW t \in ToApply(i), Held(i, t)
  PROVE  Held(i, t)'
<1> DEFINE d == DestOfWorker(i)
           spec == work[i].list[t[1]]
           e == DestOf(WatcherOf[i], spec)
           o == work[i].obj
           x == work[i].snap
           fields == spec.rules[t[2]].fields
           other == RuleOf(work[i]).fields
           sent == filterFields(x.leaves, other) \ {"status"}
<1>1. work[i].pc \in {"delete", "patch", "status"} /\ Fits(i) /\ work[i].pc \in RulePhases
  BY DEF Writes, DeleteDest, PatchObject, PatchStatus, FitsInv, RulePhases
<1>2. /\ d \in Clusters /\ e \in Clusters /\ o \in Objects
      /\ dest \in [Clusters -> [Objects -> DestObjects]]
  BY <1>1, RuleDest, DestInDests, IndInvFacts DEF IndInv, TypeOK
<1>3. /\ work'[i].obj = o /\ work'[i].snap = x /\ work'[i].list = work[i].list
      /\ \/ work[i].pc = "delete" /\ dest'[d][o] = Gone
         \/ work[i].pc = "patch" /\ dest'[d][o] = Applied(dest[d][o], sent, x.rev)
         \/ work[i].pc = "status" /\ dest'[d][o] = StatusApplied(dest[d][o], x.rev)
  BY WriteEffect DEF Continues, Payload
<1>4. Holds(dest[e][o], x, fields)
  BY DEF Held
<1>5. /\ work[i].pc = "delete" => ~x.live
      /\ work[i].pc \in {"patch", "status"} => x.live
  BY <1>1 DEF Fits
<1>6. isFullSync(other) /\ isFullSync(fields)
  <2>1. work[i].task \in ToApply(i)
    BY <1>1 DEF Fits
  <2> QED BY <2>1, RuleDest DEF FullSyncOnly, RuleOf
<1>7. /\ work'[i].list[t[1]].rules[t[2]].fields = fields
      /\ DestOf(WatcherOf[i], work'[i].list[t[1]]) = e
  BY <1>3
<1>8. CASE d # e
  <2>1. UNCHANGED dest \/ \E v : dest' = [dest EXCEPT ![d][o] = v]
    BY DEF Writes, DeleteDest, PatchObject, PatchStatus
  <2>2. dest'[e][o] = dest[e][o]
    <3> HIDE DEF d, e, o
    <3> QED BY <1>2, <1>8, <2>1
  <2> HIDE DEF e, o, x, fields
  <2> QED BY <1>3, <1>4, <1>7, <2>2, HeldNext
<1>9. CASE d = e
  <2>1. dest[d][o] \in DestObjects
    BY <1>2
  <2>2. Holds(dest'[d][o], x, fields)
    <3> HIDE DEF d, e, o, x, fields, other
    <3>1. CASE work[i].pc = "delete"
      BY <1>3, <1>5, <2>1, <3>1, PatchedHolds
    <3>2. CASE work[i].pc = "patch"
      BY <1>3, <1>4, <1>5, <1>6, <1>9, <2>1, <3>2, FullSyncsAgree
    <3>3. CASE work[i].pc = "status"
      BY <1>3, <1>4, <1>5, <1>6, <1>9, <2>1, <3>3, FullSyncsAgree
    <3> QED BY <1>1, <3>1, <3>2, <3>3
  <2> HIDE DEF d, e, o, x, fields
  <2> QED BY <1>3, <1>7, <1>9, <2>2, HeldNext
<1> QED BY <1>8, <1>9

\* the calls before the patches end in an error, or lead to the next call
LEMMA ChecksContinue ==
  ASSUME IndInv, NEW i \in Workers, CheckExists(i) \/ GetNamespace(i) \/ CreateNamespace(i)
  PROVE  /\ work[i].pc \in {"exists", "nsget", "nscreate"}
         /\ \/ Continues(i, "next", TRUE)
            \/ \E phase \in {"nsget", "nscreate", "patch"} : Continues(i, phase, work[i].errs)
<1>1. work[i].pc \in {"exists", "nsget", "nscreate"}
  BY DEF CheckExists, GetNamespace, CreateNamespace
<1>2. \/ RuleFails(i)
      \/ \E phase \in {"nsget", "nscreate", "patch"} : Goto(i, phase)
  BY ApplyPhaseType DEF CheckExists, GetNamespace, CreateNamespace
<1> QED BY <1>1, <1>2, GotoEffect

LEMMA HeldStep ==
  ASSUME IndInv, OneWorkerPerObject, SingleWriter, FitsInv, BudgetInv, ReadyInv, OrderInv,
         HeldInv, OneSyncer \/ FullSyncOnly, [Next]_vars
  PROVE  HeldInv'
<1> SUFFICES ASSUME NothingRemoved', NEW i \in Workers, NEW t, t \in LastRules(i)', Through(i, t)'
             PROVE  Held(i, t)'
  BY DEF HeldInv
<1>0. /\ ~(budget'["remove"] < budget["remove"]) /\ Ready(i) /\ Fits(i) /\ InOrder(i)
      /\ \A u \in LastRules(i) : Through(i, u) => Held(i, u)
  BY NotRemoved DEF ReadyInv, FitsInv, OrderInv, HeldInv
<1>1. /\ work'[i].pc \in {"next"} \cup RulePhases /\ ~work'[i].errs
      /\ t \notin work'[i].todo /\ (work'[i].pc \in RulePhases => work'[i].task # t)
  BY DEF Through
<1>2. ASSUME work'[i].obj = work[i].obj, work'[i].list = work[i].list
      PROVE  t \in LastRules(i) /\ t \in ToApply(i)
  BY <1>2 DEF LastRules, ToApply
\* the worker has not written: what was there still is
<1>3. ASSUME work'[i].obj = work[i].obj, work'[i].snap = work[i].snap,
             work'[i].list = work[i].list, Through(i, t), ~Writes(i)
      PROVE  Held(i, t)'
  <2>1. t \in ToApply(i) /\ Held(i, t)
    BY <1>0, <1>2, <1>3
  <2>2. work[i].pc # "idle"
    BY <1>3 DEF Through, RulePhases
  <2> QED BY <1>0, <1>3, <2>1, <2>2, HeldKept
<1>4. CASE work'[i] = work[i]
  <2>1. ~Writes(i)
    BY <1>4, WritesMove
  <2>2. Through(i, t)
    BY <1>1, <1>4 DEF Through
  <2> QED BY <1>3, <1>4, <2>1, <2>2
<1>5. CASE GetSource(i) \/ Finish(i)
  <2>1. Finish(i) => work'[i] = Idle
    BY DEF Finish, Return, IndInv, TypeOK
  <2>2. work'[i].pc \in {"idle", "list"}
    BY <1>5, <2>1, GetEffect, IdleFacts
  <2> QED BY <1>1, <2>2 DEF RulePhases
<1>6. CASE ListSyncers(i)
  <2>1. t \in ToApply(i)'
    BY DEF LastRules
  <2>2. work'[i] # Idle
    BY <1>1, IdleFacts DEF RulePhases
  <2>3. work'[i].todo = ToApply(i)'
    BY <1>6, <2>2, ListEffect DEF ToApply
  <2> QED BY <1>1, <2>1, <2>3
\* a rule that was just begun is under way, or has failed
<1>7. ASSUME work'[i].task = t, work'[i].pc = "client" \/ AtStart(i)'
      PROVE  FALSE
  <2>1. ApplyPhase(work'[i].obj) \in {"patch", "nsget"}
    BY ApplyPhaseType
  <2> QED BY <1>1, <1>7, <2>1 DEF AtStart, RulePhases
<1>8. CASE BeginRule(i)
  <2>1. PICK u \in NextTasks(work[i]) :
          /\ TurnsTo(i, u) /\ work'[i].todo = work[i].todo \ {u}
          /\ work'[i].pc = "client" \/ AtStart(i)'
    BY <1>8, BeginEffect
  <2>2. t # u /\ ~work[i].errs
    BY <1>1, <1>7, <2>1 DEF TurnsTo
  <2>3. work[i].pc = "next" /\ ~Writes(i)
    BY <1>8 DEF BeginRule, Writes, DeleteDest, PatchObject, PatchStatus
  <2>4. Through(i, t)
    BY <1>1, <2>1, <2>2, <2>3 DEF Through, RulePhases
  <2> QED BY <1>3, <2>1, <2>3, <2>4 DEF TurnsTo
<1>9. CASE GetClient(i)
  <2>1. TurnsTo(i, work[i].task) /\ work'[i].todo = work[i].todo /\ AtStart(i)'
    BY <1>1, <1>9, ClientEffect DEF Continues
  <2>2. t # work[i].task /\ ~work[i].errs
    BY <1>1, <1>7, <2>1 DEF TurnsTo
  <2>3. work[i].pc = "client" /\ ~Writes(i)
    BY <1>9 DEF GetClient, Writes, DeleteDest, PatchObject, PatchStatus
  <2>4. Through(i, t)
    BY <1>1, <2>1, <2>2, <2>3 DEF Through, RulePhases
  <2> QED BY <1>3, <2>1, <2>3, <2>4 DEF TurnsTo
<1>10. CASE CheckExists(i) \/ GetNamespace(i) \/ CreateNamespace(i)
  <2>1. PICK phase \in {"nsget", "nscreate", "patch"} : Continues(i, phase, work[i].errs)
    BY <1>1, <1>10, ChecksContinue DEF Continues
  <2>2. work[i].pc \in {"exists", "nsget", "nscreate"} /\ ~Writes(i)
    BY <1>10, ChecksContinue DEF Writes, DeleteDest, PatchObject, PatchStatus
  <2>3. Through(i, t)
    BY <1>1, <2>1, <2>2 DEF Through, RulePhases, Continues
  <2> QED BY <1>3, <2>1, <2>2, <2>3 DEF Continues
<1>11. CASE Writes(i)
  <2>1. PICK phase \in {"status", "next"} : Continues(i, phase, work[i].errs)
    BY <1>1, <1>11, WriteEffect DEF Continues
  <2>2. work[i].pc \in RulePhases
    BY <1>11 DEF Writes, DeleteDest, PatchObject, PatchStatus, RulePhases
  <2>3. t \in LastRules(i) /\ t \in ToApply(i) /\ work[i].task \in ToApply(i)
    BY <1>0, <1>2, <2>1, <2>2 DEF Continues, Fits
  <2>4. CASE t = work[i].task
    <3>1. work'[i].pc = "next"
      BY <1>1, <2>1, <2>4 DEF Continues, RulePhases
    <3> QED BY <1>0, <1>1, <1>11, <2>4, <3>1, HeldByWrite
  <2>5. CASE t # work[i].task /\ OneSyncer
    <3>1. t \in Tasks /\ work[i].task \in Tasks /\ t[2] \in Nat /\ work[i].task[2] \in Nat
      BY <2>3, ToApplyTasks
    <3>2. t[1] = work[i].task[1]
      BY <2>5, <3>1 DEF OneSyncer, Tasks
    <3>3. t[2] # work[i].task[2]
      BY <2>5, <3>1, <3>2 DEF Tasks
    <3>4. work[i].task[2] <= t[2]
      BY <2>3, <3>2 DEF LastRules
    <3>5. t[2] > work[i].task[2]
      BY <3>1, <3>3, <3>4
    <3>6. t \in work[i].todo
      BY <1>0, <2>2, <2>3, <3>2, <3>5 DEF InOrder
    <3> QED BY <1>1, <2>1, <3>6 DEF Continues
  <2>6. CASE t # work[i].task /\ FullSyncOnly
    <3>1. Through(i, t)
      BY <1>1, <2>1, <2>2, <2>6 DEF Through, Continues
    <3> QED BY <1>0, <1>1, <1>11, <2>3, <2>6, <3>1, HeldByOthers
  <2> QED BY <2>4, <2>5, <2>6
<1>12. CASE Reconcile(i)
  BY <1>5, <1>6, <1>8, <1>9, <1>10, <1>11, <1>12 DEF Reconcile, Writes
<1>13. CASE work'[i].pc = "idle" \/ work'[i].pc = "get"
  BY <1>1, <1>13 DEF RulePhases
<1> QED BY <1>4, <1>12, <1>13, WorkerMoves

LEMMA HeldMeansApplied ==
  ASSUME HeldInv, NothingRemoved
  PROVE  SuccessMeansApplied
<1> SUFFICES ASSUME NEW i \in Workers, work[i].pc = "next", work[i].todo = {}, ~work[i].errs,
                    NEW s \in Syncers, NEW t \in LastRule(i, s)
             PROVE  Holds(dest[DestOf(WatcherOf[i], work[i].list[s])][work[i].obj],
                          work[i].snap, work[i].list[s].rules[t[2]].fields)
  BY DEF SuccessMeansApplied, Holds
<1>1. t \in LastRules(i) /\ t[1] = s
  BY DEF LastRule, LastRules, ToApply
<1>2. Through(i, t)
  BY DEF Through, RulePhases
<1> QED BY <1>1, <1>2 DEF HeldInv, Held

\* When an attempt is recorded as a success, each KRMSyncer's last rule has been
\* applied and its destination still has what it wrote, whatever failed, restarted or
\* was edited in between: with one KRMSyncer for the kind, or any number that sync
\* whole objects, and as long as nobody deletes things on the destination.
THEOREM SuccessIsApplied ==
  ASSUME SingleWriter, OneSyncer \/ FullSyncOnly
  PROVE  Spec => [](NothingRemoved => SuccessMeansApplied)
<1>1. Init => HeldInv
  <2>1. Init => \A i \in Workers : work[i] = Idle
    BY DEF Init
  <2> QED BY <2>1, IdleFacts DEF HeldInv, Through, RulePhases
<1>2. IndInv /\ OneWorkerPerObject /\ FitsInv /\ BudgetInv /\ ReadyInv /\ OrderInv /\ HeldInv
        /\ [Next]_vars => HeldInv'
  BY HeldStep
<1>3. HeldInv => (NothingRemoved => SuccessMeansApplied)
  BY HeldMeansApplied
<1> QED BY <1>1, <1>2, <1>3, IndInvHolds, ReconcilesNeverOverlap, FitsHolds, BudgetHolds,
           ReadyHolds, OrderHolds, PTL DEF Spec

------------------------------------------------------------------------------
(****************************************************************************)
(* A full sync fails only for a reason outside the syncer.                  *)
(****************************************************************************)

\* the fields of every object can be filtered by every rule
NothingRefused ==
  \A shape \in Shapes, spec \in SyncerSpecs : \A k \in DOMAIN spec.rules :
    ~filterFieldsFails(shape.scalarSpec, spec.rules[k].fields)

\* no call has failed and nothing was removed so far
Unspent == budget["fault"] = Budget["fault"] /\ NothingRemoved

CauseInv ==
  Unspent => /\ \A i \in Workers : ~work[i].errs
             /\ \A w \in Watchers : failed[w] = {}

LEMMA NotSpent ==
  ASSUME IndInv, BudgetInv, [Next]_vars, Unspent'
  PROVE  Unspent /\ ~Spend("fault")
<1>1. "fault" \in Disturbances
  BY DEF Disturbances
<1>2. /\ budget["fault"] \in Nat /\ Budget["fault"] \in Nat
      /\ budget["fault"] <= Budget["fault"] /\ budget'["fault"] <= budget["fault"]
      /\ budget'["fault"] = Budget["fault"]
  BY <1>1, BudgetStep, SyncAssumption DEF IndInv, TypeOK, BudgetInv, Unspent
<1>3. budget["fault"] = Budget["fault"] /\ ~(budget'["fault"] < budget["fault"])
  BY <1>2
<1>4. NothingRemoved
  BY NotRemoved DEF Unspent
<1> QED BY <1>1, <1>3, <1>4, SpendEffect DEF Unspent

\* an attempt that has not failed does not fail in this step
LEMMA NoRuleFails ==
  ASSUME IndInv, FitsInv, NEW i \in Workers, Reconcile(i), Ready(i), ~work[i].errs,
         ~Spend("fault"), Down = {}, Incomplete = {}, FullSyncOnly, NothingRefused
  PROVE  ~work'[i].errs
<1>0. Fits(i)
  BY DEF FitsInv
<1>1. \A d : ~CallFails(d) /\ ~ReplyLost(d)
  BY DEF CallFails, ReplyLost
<1>2. CASE GetSource(i) \/ ListSyncers(i) \/ Finish(i)
  <2>1. Finish(i) => work'[i] = Idle
    BY DEF Finish, Return, IndInv, TypeOK
  <2> QED BY <1>2, <2>1, GetEffect, ListEffect, IdleFacts
<1>3. ASSUME NEW t \in ToApply(i), TurnsTo(i, t), work'[i].pc = "client" \/ AtStart(i)'
      PROVE  ~work'[i].errs
  <2>1. t[2] \in DOMAIN work[i].list[t[1]].rules /\ work[i].list[t[1]] \in SyncerSpecs
    BY RuleDest
  <2>2. ASSUME work[i].snap.live
        PROVE  ~filterFieldsFails(work[i].snap.scalarSpec, work[i].list[t[1]].rules[t[2]].fields)
    <3>1. PICK shape \in Shapes : work[i].snap.scalarSpec = shape.scalarSpec
      BY <1>0, <2>2 DEF Fits, Shaped
    <3> QED BY <2>1, <3>1 DEF NothingRefused
  <2>3. /\ work'[i].snap = work[i].snap
        /\ RuleOf(work'[i]).fields = work[i].list[t[1]].rules[t[2]].fields
    BY <1>3 DEF TurnsTo, RuleOf
  <2>4. ~(/\ work'[i].snap.live
          /\ filterFieldsFails(work'[i].snap.scalarSpec, RuleOf(work'[i]).fields))
    BY <2>2, <2>3
  <2>5. ApplyPhase(work'[i].obj) \in {"patch", "nsget"}
    BY ApplyPhaseType
  <2>6. work'[i].pc # "next"
    BY <1>3, <2>4, <2>5 DEF AtStart
  <2> QED BY <1>3, <2>6 DEF TurnsTo
<1>4. CASE BeginRule(i)
  <2>1. PICK t \in NextTasks(work[i]) : TurnsTo(i, t) /\ (work'[i].pc = "client" \/ AtStart(i)')
    BY <1>4, BeginEffect
  <2>2. t \in ToApply(i)
    BY <1>0, NextTasksFirst DEF Fits
  <2> QED BY <1>3, <2>1, <2>2
<1>5. CASE GetClient(i)
  <2>1. work[i].task \in ToApply(i)
    BY <1>0, <1>5 DEF GetClient, Fits, RulePhases
  <2> QED BY <1>3, <1>5, <2>1, ClientEffect
<1>6. ASSUME NEW phase, Goto(i, phase) PROVE ~work'[i].errs
  BY <1>6, GotoEffect DEF Continues
<1>7. CASE DeleteDest(i)
  BY <1>1, <1>6, <1>7 DEF DeleteDest
<1>8. CASE CheckExists(i)
  <2>1. work[i].task \in ToApply(i) /\ ~isFullSync(RuleOf(work[i]).fields)
    BY <1>0, <1>8 DEF CheckExists, Fits, RulePhases
  <2>2. /\ work[i].list[work[i].task[1]] \in SyncerSpecs
        /\ work[i].task[2] \in DOMAIN work[i].list[work[i].task[1]].rules
    BY <2>1, RuleDest
  <2>3. isFullSync(RuleOf(work[i]).fields)
    BY <2>2 DEF FullSyncOnly, RuleOf
  <2> QED BY <2>1, <2>3
<1>9. CASE GetNamespace(i)
  BY <1>1, <1>6, <1>9 DEF GetNamespace
<1>10. CASE CreateNamespace(i)
  BY <1>1, <1>6, <1>10 DEF CreateNamespace
<1>11. CASE PatchObject(i)
  <2>1. NsOf[work[i].obj] = NoNs \/ NsOf[work[i].obj] \in nss[DestOfWorker(i)]
    BY <1>11 DEF PatchObject, Ready
  <2>2. \E phase : Goto(i, phase)
    BY <1>1, <1>11, <2>1 DEF PatchObject
  <2> QED BY <1>6, <2>2
<1>12. CASE PatchStatus(i)
  <2>1. dest[DestOfWorker(i)][work[i].obj].live
    BY <1>12 DEF PatchStatus, Ready
  <2>2. Goto(i, "next")
    BY <1>1, <1>12, <2>1 DEF PatchStatus
  <2> QED BY <1>6, <2>2
<1> QED BY <1>2, <1>4, <1>5, <1>7, <1>8, <1>9, <1>10, <1>11, <1>12 DEF Reconcile

\* a watcher counts a new failure only when a call or an attempt has failed
LEMMA FailedStep ==
  ASSUME IndInv, [Next]_vars, NEW w \in Watchers
  PROVE  \/ failed'[w] \subseteq failed[w]
         \/ \E d : CallFails(d)
         \/ \E i \in Workers : work[i].errs
<1>0. failed \in [Watchers -> SUBSET Objects]
  BY DEF IndInv, TypeOK
<1>1. CASE UNCHANGED failed
  BY <1>1
<1>2. ASSUME NEW x \in Watchers, NEW o, FT!markSucceeded(x, o)
      PROVE  failed'[w] \subseteq failed[w]
  BY <1>0, <1>2 DEF FT!markSucceeded, FT!trackerVars
<1>3. ASSUME NEW p, Forget(p) PROVE failed'[w] \subseteq failed[w]
  BY <1>3 DEF Forget, FT!TrackerRestart
<1>4. ASSUME NEW i \in Workers, Reconcile(i)
      PROVE  \/ UNCHANGED failed
             \/ \E d : CallFails(d)
             \/ work[i].errs
             \/ \E o : FT!markSucceeded(WatcherOf[i], o)
  <2>1. CASE GetSource(i)
    BY <2>1 DEF GetSource, trackVars
  <2>2. CASE Finish(i)
    BY <2>2 DEF Finish
  <2>3. CASE ListSyncers(i) \/ CheckExists(i) \/ GetNamespace(i)
    BY <2>3 DEF ListSyncers, CheckExists, GetNamespace, trackVars
  <2>4. CASE GetClient(i) \/ DeleteDest(i) \/ CreateNamespace(i)
    BY <2>4 DEF GetClient, DeleteDest, CreateNamespace, trackVars
  <2>5. CASE PatchObject(i) \/ PatchStatus(i)
    BY <2>5 DEF PatchObject, PatchStatus, trackVars
  <2>6. CASE BeginRule(i)
    BY <2>6 DEF BeginRule, trackVars
  <2> QED BY <1>4, <2>1, <2>2, <2>3, <2>4, <2>5, <2>6 DEF Reconcile
<1>5. ASSUME Environment PROVE UNCHANGED failed \/ \E p \in Pods : Forget(p)
  BY <1>5 DEF Environment, SourceWrite, SourceDelete, EditSyncer, DestCreate, DestDelete,
     DestNamespaceDelete, Crash, Start, Stop, systemVars, trackVars
<1>6. ASSUME UNCHANGED vars \/ Machinery \/ \E i \in Workers, o \in Objects : TakeItem(i, o)
      PROVE  UNCHANGED failed
  <2>1. CASE UNCHANGED vars
    BY <2>1 DEF vars
  <2>2. CASE Machinery
    BY <2>2 DEF Machinery, Deliver, Resync, BackoffExpires, trackVars
  <2>3. CASE \E i \in Workers, o \in Objects : TakeItem(i, o)
    BY <2>3 DEF TakeItem, trackVars
  <2> QED BY <1>6, <2>1, <2>2, <2>3
<1>7. ASSUME NEW i \in Workers PROVE WatcherOf[i] \in Watchers
  BY IndInvFacts
<1> QED BY <1>1, <1>2, <1>3, <1>4, <1>5, <1>6, <1>7 DEF Next

\* With destinations that can be reached, full syncs and objects whose fields can be
\* filtered, nothing the syncer does to itself makes an attempt fail or an object
\* count as failing: workers that race for a namespace, one object's rules, restarts
\* and edits do not.  Only a failing call, or somebody else, does.
THEOREM FailuresHaveCauses ==
  ASSUME SingleWriter, Down = {}, Incomplete = {}, FullSyncOnly, NothingRefused
  PROVE  Spec => []FailureHasCause
<1>1. Init => CauseInv
  <2>1. Init => (\A i \in Workers : work[i] = Idle) /\ \A w \in Watchers : failed[w] = {}
    BY DEF Init, FT!TrackerInit
  <2> QED BY <2>1, IdleFacts DEF CauseInv
<1>2. ASSUME IndInv, FitsInv, BudgetInv, ReadyInv, CauseInv, [Next]_vars PROVE CauseInv'
  <2> SUFFICES ASSUME Unspent'
               PROVE  /\ \A i \in Workers : ~work'[i].errs
                      /\ \A w \in Watchers : failed'[w] = {}
    BY DEF CauseInv
  <2>1. Unspent /\ ~Spend("fault")
    BY <1>2, NotSpent
  <2>2. (\A i \in Workers : ~work[i].errs /\ Ready(i)) /\ \A w \in Watchers : failed[w] = {}
    BY <1>2, <2>1 DEF CauseInv, Unspent, ReadyInv
  <2>3. \A d : ~CallFails(d)
    BY <2>1 DEF CallFails
  <2>4. ASSUME NEW i \in Workers PROVE ~work'[i].errs
    <3>1. CASE Reconcile(i)
      BY <1>2, <2>1, <2>2, <3>1, NoRuleFails
    <3> QED BY <1>2, <2>2, <3>1, WorkerMoves
  <2>5. ASSUME NEW w \in Watchers PROVE failed'[w] = {}
    BY <1>2, <2>2, <2>3, FailedStep
  <2> QED BY <2>4, <2>5
<1>3. ASSUME IndInv, BudgetInv, CauseInv PROVE FailureHasCause
  <2>1. ASSUME NEW k \in {"fault", "remove"}
        PROVE  budget[k] = Budget[k] \/ budget[k] < Budget[k]
    <3>1. k \in Disturbances
      BY DEF Disturbances
    <3>2. budget[k] \in Nat /\ Budget[k] \in Nat /\ budget[k] <= Budget[k]
      BY <1>3, <3>1, SyncAssumption DEF IndInv, TypeOK, BudgetInv
    <3> QED BY <3>2
  <2> QED BY <1>3, <2>1 DEF CauseInv, Unspent, NothingRemoved, FailureHasCause
<1>4. IndInv /\ FitsInv /\ BudgetInv /\ ReadyInv /\ CauseInv /\ [Next]_vars => CauseInv'
  BY <1>2
<1>5. IndInv /\ BudgetInv /\ CauseInv => FailureHasCause
  BY <1>3
<1> QED BY <1>1, <1>4, <1>5, IndInvHolds, FitsHolds, BudgetHolds, ReadyHolds, PTL DEF Spec
==============================================================================

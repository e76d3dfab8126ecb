---------------------------- MODULE ExportProofs ----------------------------
(****************************************************************************)
(* What a run of the export command leaves behind, for any cluster, any     *)
(* number of runs and any faults.                                           *)
(****************************************************************************)
EXTENDS Export, TLAPS

\* the export ended before it came to the objects
Aborted == errs \cap {<<"sink">>, <<"config">>, <<"discovery">>} # {}

\* x is in the archive or an error accounts for it
Covered(x) ==
  x \in file.entries \/ <<"list", x[1]>> \in errs \/ <<"object", x>> \in errs \/ Aborted

\* while the command runs, an object that existed all along is still to be listed or
\* to be written, or it is covered
Progress ==
  /\ pc = "list" => \A x \in Expected : x[1] \in todo \/ x \in items \/ Covered(x)
  /\ pc = "close" => \A x \in Expected : Covered(x)

\* what the histories record
Histories ==
  /\ pc # "idle" => always \subseteq cluster /\ cluster \subseteq seen
  /\ items \subseteq seen
  /\ file.entries \subseteq seen

Running == pc # "idle" => exit = "running"

ExportInv ==
  /\ TypeOK
  /\ Histories
  /\ Progress
  /\ Running
  /\ SuccessMeansComplete
  /\ NothingLostSilently

LEMMA InitExport == Init => ExportInv
<1> SUFFICES ASSUME Init PROVE ExportInv
  OBVIOUS
<1>1. TypeOK
  BY ExportAssumption DEF Init, TypeOK, NoFile
<1>2. Histories /\ Progress /\ Running
  BY DEF Init, Histories, Progress, Running, NoFile
<1>3. SuccessMeansComplete /\ NothingLostSilently
  BY DEF Init, SuccessMeansComplete, NothingLostSilently
<1> QED BY <1>1, <1>2, <1>3 DEF ExportInv

LEMMA SpendKeeps ==
  ASSUME TypeOK, NEW kinds \in SUBSET Disturbances, Spend(kinds)
  PROVE  budget' \in [Disturbances -> Nat]
<1>1. \A k \in kinds : budget[k] \in Nat /\ budget[k] > 0 => budget[k] - 1 \in Nat
  OBVIOUS
<1> QED BY <1>1 DEF Spend, TypeOK

LEMMA KindsOfDisturbance ==
  \A S \in {{"run"}, {"run", "fault"}, {"fault"}, {"disk"}, {"kill"}, {"change"}} :
    S \in SUBSET Disturbances
BY DEF Disturbances

\* one step keeps the types
LEMMA StepKeepsTypes ==
  ASSUME TypeOK, Next
  PROVE  TypeOK'
<1>1. budget' \in [Disturbances -> Nat]
  BY SpendKeeps, KindsOfDisturbance DEF Next, Command, OpenSink, Configure, Discover,
     ListKind, WriteItem, SinkWrite, AllListed, CloseSink, Kill, Change, TypeOK
<1>2. CASE OpenSink
  <2>1. file' \in [entries : SUBSET Items, final : BOOLEAN]
    <3>1. file' = file \/ file' = [entries |-> {}, final |-> FALSE]
      BY <1>2 DEF OpenSink, OpenFile, NoFile, sinkVars
    <3>2. [entries |-> {}, final |-> FALSE] \in [entries : SUBSET Items, final : BOOLEAN]
      <4>1. {} \in SUBSET Items /\ FALSE \in BOOLEAN
        OBVIOUS
      <4> QED BY <4>1
    <3>3. file \in [entries : SUBSET Items, final : BOOLEAN]
      BY DEF TypeOK
    <3> QED BY <3>1, <3>2, <3>3, Zenon
  <2>2. broken' \in BOOLEAN
    BY <1>2 DEF OpenSink, TypeOK, sinkVars
  <2>3. errs' \in SUBSET Errors
    BY <1>2 DEF OpenSink, Errors
  <2> QED BY <1>1, <1>2, <2>1, <2>2, <2>3 DEF OpenSink, TypeOK, sinkVars
<1>3. CASE Configure
  BY <1>1, <1>3 DEF Configure, TypeOK, clusterVars, sinkVars, Errors
<1>4. CASE Discover
  <2>1. todo' \in SUBSET Kinds /\ dropped' \in SUBSET {k.group : k \in Kinds}
    BY <1>4 DEF Discover, TypeOK
  <2>2. errs' \in SUBSET Errors /\ pc' \in {"list", "close"}
    BY <1>4 DEF Discover, TypeOK, Errors
  <2> QED BY <1>1, <1>4, <2>1, <2>2 DEF Discover, TypeOK, clusterVars, sinkVars
<1>5. ASSUME NEW k \in Kinds, ListKind(k) PROVE TypeOK'
  BY <1>1, <1>5 DEF ListKind, ListFails, TypeOK, clusterVars, sinkVars, Errors
<1>6. ASSUME NEW x \in Items, WriteItem(x) PROVE TypeOK'
  <2>1. errs' \in SUBSET Errors
    BY <1>6 DEF WriteItem, SinkWrite, TypeOK, Errors
  <2>2. file' \in [entries : SUBSET Items, final : BOOLEAN]
    <3>1. file' = file \/ file' = [file EXCEPT !.entries = @ \cup {x}]
      BY <1>6 DEF WriteItem, SinkWrite, sinkVars
    <3> QED BY <3>1, x \in Items DEF TypeOK
  <2>3. broken' \in BOOLEAN
    BY <1>6 DEF WriteItem, SinkWrite, TypeOK, sinkVars
  <2> QED BY <1>1, <1>6, <2>1, <2>2, <2>3 DEF WriteItem, TypeOK, clusterVars
<1>7. CASE AllListed
  BY <1>1, <1>7 DEF AllListed, TypeOK, clusterVars, sinkVars
<1>8. CASE CloseSink
  BY <1>1, <1>8 DEF CloseSink, Exit, retErr, TypeOK, clusterVars, Errors
<1>9. CASE Kill
  BY <1>1, <1>9 DEF Kill, TypeOK, clusterVars, sinkVars
<1>10. ASSUME NEW x \in Items, Change(x) PROVE TypeOK'
  BY <1>1, <1>10 DEF Change, TypeOK, sinkVars
<1> QED BY <1>2, <1>3, <1>4, <1>5, <1>6, <1>7, <1>8, <1>9, <1>10 DEF Next, Command

\* the histories go on recording
LEMMA StepKeepsHistories ==
  ASSUME ExportInv, Next
  PROVE  Histories' /\ Running'
<1> USE DEF ExportInv, TypeOK, Histories, Running
<1>1. CASE OpenSink
  BY <1>1 DEF OpenSink, OpenFile, NoFile, sinkVars
<1>2. CASE Configure \/ Discover \/ AllListed
  BY <1>2 DEF Configure, Discover, AllListed, clusterVars, sinkVars
<1>3. ASSUME NEW k \in Kinds, ListKind(k) PROVE Histories' /\ Running'
  BY <1>3 DEF ListKind, ListFails, clusterVars, sinkVars
<1>4. ASSUME NEW x \in Items, WriteItem(x) PROVE Histories' /\ Running'
  <2>1. file'.entries \subseteq file.entries \cup {x}
    BY <1>4 DEF WriteItem, SinkWrite, sinkVars
  <2> QED BY <1>4, <2>1 DEF WriteItem, clusterVars
<1>5. CASE CloseSink
  <2>1. file'.entries = file.entries
    BY <1>5 DEF CloseSink
  <2> QED BY <1>5, <2>1 DEF CloseSink, Exit, clusterVars
<1>6. CASE Kill
  BY <1>6 DEF Kill, clusterVars, sinkVars
<1>7. ASSUME NEW x \in Items, Change(x) PROVE Histories' /\ Running'
  BY <1>7 DEF Change, sinkVars
<1> QED BY <1>1, <1>2, <1>3, <1>4, <1>5, <1>6, <1>7 DEF Next, Command

\* what is covered stays covered while the archive and the errors grow
LEMMA CoveredStays ==
  ASSUME file.entries \subseteq file'.entries, errs \subseteq errs'
  PROVE  \A x : Covered(x) => Covered(x)'
BY DEF Covered, Aborted

\* no object falls out between listing, writing and reporting
LEMMA StepKeepsProgress ==
  ASSUME ExportInv, Next
  PROVE  Progress'
<1>1. CASE OpenSink
  BY <1>1 DEF OpenSink, Progress
<1>2. CASE Configure
  BY <1>2 DEF Configure, Progress, Covered, Aborted
<1>3. CASE Discover
  <2>1. CASE errs' = {<<"discovery">>}
    BY <2>1 DEF Progress, Covered, Aborted
  <2>2. CASE pc' = "list" /\ \A x \in Kinds : x.group \notin dropped' => x \in todo'
    <3>1. \A x \in Expected' : x[1] \in Kinds /\ x[1].group \notin dropped'
      BY <1>3 DEF Discover, Expected, ExportInv, TypeOK, Items, clusterVars
    <3> QED BY <2>2, <3>1 DEF Progress
  <2>3. ASSUME todo' = Kinds, pc' = "list" PROVE Progress'
    BY <2>2, <2>3
  <2>4. ASSUME NEW lost, dropped' = lost, pc' = "list",
               todo' = {x \in Kinds : x.group \notin lost}
        PROVE  Progress'
    BY <2>2, <2>4
  <2> QED BY <1>3, <2>1, <2>3, <2>4 DEF Discover
<1>4. ASSUME NEW k \in Kinds, ListKind(k) PROVE Progress'
  <2>1. /\ pc = "list" /\ pc' = "list" /\ Expected' = Expected
        /\ file' = file /\ errs \subseteq errs' /\ items = {} /\ todo' = todo \ {k}
    BY <1>4 DEF ListKind, ListFails, Expected, clusterVars, sinkVars
  <2>2. \A x : Covered(x) => Covered(x)'
    BY <2>1, CoveredStays
  <2>3. ASSUME NEW x \in Expected, x[1] = k PROVE x \in items' \/ Covered(x)'
    <3>1. x \in cluster /\ Exported(k)
      BY <2>1, <2>3 DEF ExportInv, TypeOK, Histories, Items, Expected
    <3> QED BY <1>4, <2>3, <3>1 DEF ListKind, ListFails, Covered
  <2> QED BY <2>1, <2>2, <2>3 DEF ExportInv, Progress
<1>5. ASSUME NEW y \in Items, WriteItem(y) PROVE Progress'
  <2>1. /\ pc = "list" /\ pc' = "list" /\ Expected' = Expected /\ todo' = todo
        /\ errs \subseteq errs' /\ items' = items \ {y}
    BY <1>5 DEF WriteItem, SinkWrite, Expected, clusterVars
  <2>2. file.entries \subseteq file'.entries
    BY <1>5 DEF WriteItem, SinkWrite, sinkVars, ExportInv, TypeOK
  <2>3. Covered(y)'
    BY <1>5 DEF WriteItem, SinkWrite, sinkVars, Covered, ExportInv, TypeOK
  <2>4. \A x : Covered(x) => Covered(x)'
    BY <2>1, <2>2, CoveredStays
  <2> QED BY <2>1, <2>3, <2>4 DEF ExportInv, Progress
<1>6. CASE AllListed
  <2>1. \A x : Covered(x) => Covered(x)'
    BY <1>6, CoveredStays DEF AllListed, sinkVars
  <2> QED BY <1>6, <2>1 DEF AllListed, ExportInv, Progress, Expected, clusterVars
<1>7. CASE CloseSink \/ Kill
  BY <1>7 DEF CloseSink, Exit, Kill, Progress
<1>8. ASSUME NEW y \in Items, Change(y) PROVE Progress'
  <2>1. /\ pc' = pc /\ todo' = todo /\ items' = items
        /\ (pc # "idle" => Expected' \subseteq Expected)
    BY <1>8 DEF Change, Expected
  <2>2. \A x : Covered(x) => Covered(x)'
    BY <1>8, CoveredStays DEF Change, sinkVars
  <2> QED BY <2>1, <2>2 DEF ExportInv, Progress
<1> QED BY <1>1, <1>2, <1>3, <1>4, <1>5, <1>6, <1>7, <1>8 DEF Next, Command

\* a run that ends leaves what it says
LEMMA StepKeepsPromises ==
  ASSUME ExportInv, Next
  PROVE  SuccessMeansComplete' /\ NothingLostSilently'
<1>1. CASE OpenSink
  BY <1>1 DEF OpenSink, SuccessMeansComplete, NothingLostSilently
<1>2. CASE pc # "idle" /\ pc' # "idle" /\ exit' = exit
  BY <1>2 DEF ExportInv, Running, SuccessMeansComplete, NothingLostSilently
<1>3. CASE Configure \/ Discover \/ AllListed
  BY <1>2, <1>3 DEF Configure, Discover, AllListed
<1>4. ASSUME NEW k \in Kinds, ListKind(k)
      PROVE  SuccessMeansComplete' /\ NothingLostSilently'
  BY <1>2, <1>4 DEF ListKind
<1>5. ASSUME NEW x \in Items, WriteItem(x)
      PROVE  SuccessMeansComplete' /\ NothingLostSilently'
  BY <1>2, <1>5 DEF WriteItem
<1>6. CASE CloseSink
  <2>1. /\ \A x \in Expected : Covered(x)
        /\ Expected' = Expected
    BY <1>6 DEF CloseSink, ExportInv, Progress, Expected, clusterVars
  <2>2. CASE broken'
    <3>1. Exit(retErr) \/ (errs' = errs /\ ~broken /\ broken' = broken)
      BY <1>6 DEF CloseSink, Exit
    <3>2. Exit(retErr)
      BY <2>2, <3>1
    <3> QED BY <2>2, <3>2 DEF Exit, retErr, SuccessMeansComplete, NothingLostSilently
  <2>3. CASE ~broken'
    <3>1. Exit(errs) /\ file' = [file EXCEPT !.final = TRUE]
      BY <1>6, <2>3 DEF CloseSink
    <3>2. file'.final /\ file'.entries = file.entries
      BY <3>1 DEF ExportInv, TypeOK
    <3>3. SuccessMeansComplete'
      BY <2>1, <3>1, <3>2 DEF Exit, Covered, Aborted, SuccessMeansComplete
    <3>4. NothingLostSilently'
      BY <2>1, <3>1, <3>2 DEF Exit, Covered, Aborted, NothingLostSilently
    <3> QED BY <3>3, <3>4
  <2> QED BY <2>2, <2>3
<1>7. CASE Kill
  BY <1>7 DEF Kill, SuccessMeansComplete, NothingLostSilently
<1>8. ASSUME NEW x \in Items, Change(x)
      PROVE  SuccessMeansComplete' /\ NothingLostSilently'
  <2>1. CASE pc # "idle"
    BY <1>2, <1>8, <2>1 DEF Change
  <2>2. CASE pc = "idle"
    <3>1. /\ exit' = exit /\ pc' = pc /\ errs' = errs /\ file' = file /\ broken' = broken
          /\ Expected' = Expected
      BY <1>8, <2>2 DEF Change, Expected, sinkVars
    <3> QED BY <3>1 DEF ExportInv, SuccessMeansComplete, NothingLostSilently
  <2> QED BY <2>1, <2>2
<1> QED BY <1>1, <1>3, <1>4, <1>5, <1>6, <1>7, <1>8 DEF Next, Command

\* a step that changes nothing keeps the invariant
LEMMA ExportStutters ==
  ASSUME ExportInv, UNCHANGED vars
  PROVE  ExportInv'
BY DEF vars, ExportInv, TypeOK, Histories, Progress, Running, SuccessMeansComplete,
       NothingLostSilently, Expected, Covered, Aborted

\* The invariant holds in every state of the export command.
THEOREM ExportInvariant == Spec => []ExportInv
<1>1. ExportInv /\ [Next]_vars => ExportInv'
  <2>1. ASSUME ExportInv, Next PROVE ExportInv'
    <3>1. TypeOK'
      BY <2>1, StepKeepsTypes DEF ExportInv
    <3>2. Histories' /\ Running' /\ Progress'
      BY <2>1, StepKeepsHistories, StepKeepsProgress
    <3>3. SuccessMeansComplete' /\ NothingLostSilently'
      BY <2>1, StepKeepsPromises
    <3> QED BY <3>1, <3>2, <3>3 DEF ExportInv
  <2> QED BY <2>1, ExportStutters
<1> QED BY InitExport, <1>1, PTL DEF Spec

\* A run that exits without error leaves a complete, readable archive, whatever
\* else happened: retErr and the deferred Close of RunExport, for any cluster.
THEOREM ExportSuccessMeansComplete == Spec => []SuccessMeansComplete
<1>1. ExportInv => SuccessMeansComplete
  BY DEF ExportInv
<1> QED BY <1>1, ExportInvariant, PTL

\* A run that ends with an error accounts for every object it lost, as long as the
\* disk did not fail: the loop of RunExport goes on after what it could not export.
THEOREM ExportLosesNothingSilently == Spec => []NothingLostSilently
<1>1. ExportInv => NothingLostSilently
  BY DEF ExportInv
<1> QED BY <1>1, ExportInvariant, PTL

\* A readable archive holds objects of its own run only (os.Create truncates).
THEOREM ExportNothingStale == Spec => []NothingStale
<1>1. ExportInv => NothingStale
  BY DEF ExportInv, Histories, NothingStale
<1> QED BY <1>1, ExportInvariant, PTL
==============================================================================

--------------------------- MODULE ProvisionProofs ---------------------------
(****************************************************************************)
(* What deploy.sh and cleanup.sh leave behind, for any projects, namespaces *)
(* and flags and any number of runs, faults and changes by others.          *)
(****************************************************************************)
EXTENDS Provision, TLAPS

DeployAction ==
  (\E flags \in Requests : StartDeploy(flags)) \/ RetryDeploy \/ DeployStep \/ KillDeploy

CleanupAction ==
  (\E flags \in Cleanups : StartCleanup(flags)) \/ CleanupStep \/ KillCleanup

WorldAction ==
  \/ Propagate \/ AnotherDeploys \/ DeleteGSA \/ DeleteCRD
  \/ \E n \in Namespaces, p \in Projects \cup {NoProject} : UserEdits(n, p)

LEMMA NextSplits == Next <=> DeployAction \/ CleanupAction \/ WorldAction
BY DEF Next, DeployAction, CleanupAction, WorldAction

LEMMA SpendKeeps ==
  ASSUME TypeOK, NEW kinds \in SUBSET Disturbances, Spend(kinds)
  PROVE  budget' \in [Disturbances -> Nat]
<1>1. \A k \in kinds : budget[k] \in Nat /\ budget[k] > 0 => budget[k] - 1 \in Nat
  OBVIOUS
<1> QED BY <1>1 DEF Spend, TypeOK

LEMMA KindsOfDisturbance ==
  /\ {"deploy"} \cup {} \in SUBSET Disturbances
  /\ {"deploy"} \cup {"others"} \in SUBSET Disturbances
  /\ {"cleanup"} \cup {} \in SUBSET Disturbances
  /\ {"cleanup"} \cup {"others"} \in SUBSET Disturbances
  /\ {"kill"} \in SUBSET Disturbances
  /\ {"fault"} \in SUBSET Disturbances
  /\ {"crd"} \in SUBSET Disturbances
  /\ {"others"} \in SUBSET Disturbances
BY DEF Disturbances

\* budgets stay natural numbers
LEMMA BudgetTyped ==
  ASSUME TypeOK, Next
  PROVE  budget' \in [Disturbances -> Nat]
<1>1. CASE DeployAction
  BY <1>1, SpendKeeps, KindsOfDisturbance DEF DeployAction, StartDeploy, RetryDeploy,
     KillDeploy, DeployStep, Preflight, CreateGSA, GrantViewer, BindWorkloadIdentity,
     BuildAndPush, GrantPull, ApplyManifests, Annotate, WaitForCRD, RestartController,
     DeploySyncConfig, CallFails, TypeOK
<1>2. CASE CleanupAction
  BY <1>2, SpendKeeps, KindsOfDisturbance DEF CleanupAction, StartCleanup, KillCleanup,
     CleanupStep, ResolveGSA, FindCRD, FindProjectsInUse, FindCandidate, DecideRevoke,
     Revoke, Removed, FinishCleanup, QueryFails, TypeOK
<1>3. CASE WorldAction
  BY <1>3, SpendKeeps, KindsOfDisturbance DEF WorldAction, Propagate, AnotherDeploys, DeleteGSA,
     DeleteCRD, UserEdits, TypeOK
<1> QED BY <1>1, <1>2, <1>3, NextSplits

\* what a step may make of the run of deploy.sh
LEMMA DeployTyped ==
  ASSUME TypeOK, Next
  PROVE  d' \in DeployRuns
<1> USE DEF DeployRuns, DeploySteps, Exits
<1>0. 1 \in 1..Attempts /\ d \in DeployRuns
  BY ProvisionAssumption DEF TypeOK
<1>1. ASSUME NEW exit \in Exits, End(exit) PROVE d' \in DeployRuns
  BY <1>0, <1>1 DEF End
<1>2. ASSUME NEW step \in DeploySteps, Goto(step) PROVE d' \in DeployRuns
  BY <1>0, <1>2 DEF Goto
<1>3. ASSUME NEW flags \in Requests, Run(flags) PROVE d' \in DeployRuns
  BY <1>0, <1>3 DEF Run
<1>4. ASSUME NEW next \in DeploySteps, retry_gsa_not_found(next) PROVE d' \in DeployRuns
  <2>1. CASE Die
    BY <1>1, <2>1 DEF Die
  <2>2. CASE d.attempt < Attempts /\ d' = [d EXCEPT !.attempt = @ + 1]
    <3>1. d.attempt + 1 \in 1..Attempts
      BY <1>0, <2>2, ProvisionAssumption
    <3> QED BY <1>0, <2>2, <3>1
  <2> QED BY <1>4, <2>1, <2>2 DEF retry_gsa_not_found
<1>5. ASSUME Preflight PROVE d' \in DeployRuns
  <2>1. CASE Die
    BY <1>1, <2>1 DEF Die
  <2>2. ASSUME NEW found \in Lookup,
               d' = [d EXCEPT !.pc = "create", !.exists = GSA_EXISTS(found)]
        PROVE  d' \in DeployRuns
    BY <1>0, <2>2 DEF GSA_EXISTS
  <2> QED BY <1>5, <2>1, <2>2 DEF Preflight, CallFails
<1>6. CASE DeployAction
  <2>1. d.flags \in Requests
    BY <1>0
  <2> QED BY <1>1, <1>2, <1>3, <1>4, <1>5, <1>6, <2>1, <1>0 DEF DeployAction, StartDeploy, RetryDeploy,
     KillDeploy, DeployStep, CreateGSA, GrantViewer, BindWorkloadIdentity,
     BuildAndPush, GrantPull, ApplyManifests, Annotate, WaitForCRD, RestartController,
     DeploySyncConfig, CallFails, Die
<1>7. CASE CleanupAction \/ WorldAction
  BY <1>0, <1>7 DEF CleanupAction, StartCleanup, KillCleanup, CleanupStep, ResolveGSA,
     FindCRD, FindProjectsInUse, FindCandidate, DecideRevoke, Revoke, Removed, FinishCleanup,
     WorldAction, Propagate, AnotherDeploys, DeleteGSA, DeleteCRD, UserEdits
<1> QED BY <1>6, <1>7, NextSplits

\* what a step may make of the run of cleanup.sh
LEMMA CleanupTyped ==
  ASSUME TypeOK, Next
  PROVE  c' \in CleanupRuns
<1> USE DEF CleanupRuns, CleanupSteps, Exits
<1>0. c \in CleanupRuns
  BY DEF TypeOK
<1>1. ASSUME NEW exit \in Exits, Quit(exit) PROVE c' \in CleanupRuns
  BY <1>0, <1>1 DEF Quit
<1>2. ASSUME NEW flags \in Cleanups, StartCleanup(flags) PROVE c' \in CleanupRuns
  BY <1>2, ProvisionAssumption DEF StartCleanup
<1>3. ASSUME NEW step \in CleanupSteps, c' = [c EXCEPT !.pc = step] PROVE c' \in CleanupRuns
  BY <1>0, <1>3
<1>4. CASE FindProjectsInUse
  <2>1. listed \in SUBSET Projects
    BY DEF listed, TypeOK
  <2>2. CASE c' = [c EXCEPT !.pc = "candidates", !.inUse = listed]
    BY <1>0, <2>1, <2>2
  <2> QED BY <1>1, <1>4, <2>2 DEF FindProjectsInUse, QueryFails
<1>5. ASSUME NEW p \in Projects, FindCandidate(p) PROVE c' \in CleanupRuns
  <2>1. ASSUME NEW R \in SUBSET Projects, c' = [c EXCEPT !.left = @ \ {p}, !.revoke = R]
        PROVE  c' \in CleanupRuns
    BY <1>0, <2>1
  <2>2. c.revoke \cup {p} \in SUBSET Projects /\ c.revoke \in SUBSET Projects
    BY <1>0
  <2>3. QueryFails \/ \E R \in SUBSET Projects : c' = [c EXCEPT !.left = @ \ {p}, !.revoke = R]
    BY <1>5, <2>2 DEF FindCandidate
  <2> QED BY <1>1, <2>1, <2>3 DEF QueryFails
<1>6. ASSUME NEW p \in Projects, Revoke(p) PROVE c' \in CleanupRuns
  <2>1. ASSUME NEW f \in BOOLEAN, c' = [c EXCEPT !.revoke = @ \ {p}, !.failed = f]
        PROVE  c' \in CleanupRuns
    BY <1>0, <2>1
  <2>2. revokedFailed(TRUE) \in BOOLEAN /\ revokedFailed(FALSE) \in BOOLEAN
    BY DEF revokedFailed
  <2> QED BY <1>6, <2>1, <2>2 DEF Revoke
<1>7. CASE DecideRevoke
  BY <1>1, <1>3, <1>7 DEF DecideRevoke
<1>8. CASE FinishCleanup
  BY <1>1, <1>8 DEF FinishCleanup
<1>9. CASE ResolveGSA \/ FindCRD \/ KillCleanup
  BY <1>1, <1>3, <1>9 DEF ResolveGSA, FindCRD, KillCleanup, QueryFails
<1>10. CASE DeployAction \/ WorldAction
  BY <1>0, <1>10 DEF DeployAction, StartDeploy, Run, RetryDeploy, KillDeploy, DeployStep,
     Preflight, CreateGSA, GrantViewer, BindWorkloadIdentity, BuildAndPush, GrantPull,
     ApplyManifests, Annotate, WaitForCRD, RestartController, DeploySyncConfig,
     WorldAction, Propagate, AnotherDeploys, DeleteGSA, DeleteCRD, UserEdits
<1> QED BY <1>2, <1>4, <1>5, <1>6, <1>7, <1>8, <1>9, <1>10, NextSplits
      DEF CleanupAction, CleanupStep

\* the image and the destination cluster keep their types
LEMMA PlacesTyped ==
  ASSUME TypeOK, Next
  PROVE  /\ image' \in [repository : BOOLEAN, pushed : BOOLEAN, pull : BOOLEAN]
         /\ dest' \in [crd : BOOLEAN, annotated : BOOLEAN, pods : {"none", "bare", "gsa"}]
<1> USE DEF TypeOK
<1>1. CASE BuildAndPush \/ GrantPull
  BY <1>1 DEF BuildAndPush, GrantPull, ensure_image_repository
<1>2. CASE ApplyManifests
  <2>1. ASSUME NEW b \in BOOLEAN, NEW pods \in {"none", "bare", "gsa"},
               dest' = [dest EXCEPT !.crd = b, !.pods = pods]
        PROVE  dest' \in [crd : BOOLEAN, annotated : BOOLEAN, pods : {"none", "bare", "gsa"}]
    BY <2>1
  <2>2. \E b \in BOOLEAN, pods \in {"none", "bare", "gsa"} :
          dest' = [dest EXCEPT !.crd = b, !.pods = pods]
    BY <1>2 DEF ApplyManifests
  <2> QED BY <1>2, <2>1, <2>2 DEF ApplyManifests, cloud
<1>3. CASE Annotate \/ RestartController
  BY <1>3 DEF Annotate, RestartController, restarted, cloud
<1>4. CASE DeleteCRD
  BY <1>4 DEF DeleteCRD, cloud
<1>5. CASE UNCHANGED <<image, dest>>
  BY <1>5
<1> QED BY <1>1, <1>2, <1>3, <1>4, <1>5, NextSplits DEF DeployAction, StartDeploy, Run,
     RetryDeploy, KillDeploy, DeployStep, Preflight, CreateGSA, GrantViewer,
     BindWorkloadIdentity, WaitForCRD, DeploySyncConfig, CleanupAction, StartCleanup,
     KillCleanup, CleanupStep, ResolveGSA, FindCRD, FindProjectsInUse, FindCandidate,
     DecideRevoke, Revoke, Removed, FinishCleanup, WorldAction, Propagate, AnotherDeploys, DeleteGSA, UserEdits, cloud

\* so do the account, its grants, the CRs and the histories
LEMMA GrantsTyped ==
  ASSUME TypeOK, Next
  PROVE  /\ gsa' \in Accounts /\ viewer' \in SUBSET Projects /\ wi' \in BOOLEAN
         /\ crs' \in [Namespaces -> Projects \cup {NoProject}]
         /\ free' \in SUBSET Projects /\ undone' \in SUBSET Projects
         /\ regranted' \in SUBSET Projects
<1>0. d.flags.project \in Projects /\ d.flags.namespace \in Namespaces
  BY ProvisionAssumption DEF TypeOK, DeployRuns
<1>1. CASE DeployAction
  BY <1>0, <1>1 DEF TypeOK, Accounts, DeployAction, StartDeploy, Run, RetryDeploy, KillDeploy,
     DeployStep, Preflight, CreateGSA, GrantViewer, BindWorkloadIdentity, BuildAndPush,
     GrantPull, ApplyManifests, Annotate, WaitForCRD, RestartController, DeploySyncConfig,
     SeenUnused, Unused, cloud, histories
<1>2. CASE CleanupAction
  BY <1>2 DEF TypeOK, CleanupAction, StartCleanup, KillCleanup, CleanupStep, ResolveGSA,
     FindCRD, FindProjectsInUse, FindCandidate, DecideRevoke, Revoke, Removed, FinishCleanup, Unused,
     cloud, histories
<1>3. CASE WorldAction
  BY <1>3 DEF TypeOK, Accounts, WorldAction, Propagate, AnotherDeploys, DeleteGSA, DeleteCRD, UserEdits,
     SeenUnused, Unused, cloud, histories
<1> QED BY <1>1, <1>2, <1>3, NextSplits

LEMMA StepKeepsTypes ==
  ASSUME TypeOK, Next
  PROVE  TypeOK'
BY BudgetTyped, DeployTyped, CleanupTyped, PlacesTyped, GrantsTyped DEF TypeOK

LEMMA InitTyped == Init => TypeOK
<1> SUFFICES ASSUME Init PROVE TypeOK
  OBVIOUS
<1>1. d \in DeployRuns
  <2>1. 1 \in 1..Attempts
    BY ProvisionAssumption
  <2> QED BY <2>1 DEF Init, DeployRuns, DeploySteps, Exits
<1>2. c \in CleanupRuns
  BY DEF Init, CleanupRuns, CleanupSteps, Exits
<1>3. /\ image \in [repository : BOOLEAN, pushed : BOOLEAN, pull : BOOLEAN]
      /\ dest \in [crd : BOOLEAN, annotated : BOOLEAN, pods : {"none", "bare", "gsa"}]
  BY DEF Init
<1> QED BY <1>1, <1>2, <1>3, ProvisionAssumption DEF Init, TypeOK, Accounts

\* Type correctness of both scripts and of what they work on.
THEOREM ProvisionTypes == Spec => []TypeOK
<1>1. TypeOK /\ [Next]_vars => TypeOK'
  BY StepKeepsTypes DEF TypeOK, vars
<1> QED BY InitTyped, <1>1, PTL DEF Spec
------------------------------------------------------------------------------
(****************************************************************************)
(* deploy.sh.                                                               *)
(****************************************************************************)

\* What a deploy has left behind when it is at a call: the steps that come after
\* each of the things it sets up.
HasAccount ==
  \/ d.pc \in DeploySteps \ {"idle", "preflight", "create"}
  \/ d.pc = "create" /\ d.exists

AfterViewer == DeploySteps \ {"idle", "preflight", "create", "viewer"}
AfterBinding == AfterViewer \ {"impersonate"}
AfterAnnotate == {"wait", "restart", "configure"}

DeployInv ==
  /\ HasAccount => gsa \in {"hidden", "ours"}
  /\ d.pc \in AfterViewer => d.flags.project \in viewer \cup undone
  /\ d.pc \in AfterBinding => wi
  /\ d.pc \in AfterAnnotate => dest.annotated
  /\ d.pc = "configure" => dest.pods = "gsa" /\ Pullable

LEMMA InitDeploy == Init => DeployInv
BY DEF Init, DeployInv, HasAccount, AfterViewer, AfterBinding, AfterAnnotate, DeploySteps

\* each call of deploy.sh leaves what it is there for
LEMMA DeployKeepsDeploy ==
  ASSUME TypeOK, DeployInv, DeployAction
  PROVE  DeployInv'
<1> USE DEF DeployInv, HasAccount, AfterViewer, AfterBinding, AfterAnnotate, DeploySteps, Pullable
<1>0. d \in DeployRuns
  BY DEF TypeOK
<1>1. ASSUME End("ok") \/ End("failed") PROVE DeployInv'
  BY <1>0, <1>1 DEF End, DeployRuns
<1>2. CASE (\E flags \in Requests : StartDeploy(flags)) \/ RetryDeploy
  BY <1>0, <1>2 DEF StartDeploy, RetryDeploy, Run, cloud
<1>3. CASE KillDeploy
  BY <1>1, <1>3 DEF KillDeploy, Die, cloud
<1>4. CASE Preflight
  <2>1. UNCHANGED <<gsa, viewer, wi, image, dest, undone>>
    BY <1>4 DEF Preflight, cloud, histories
  <2>2. ASSUME NEW found \in Lookup, belongs(found),
               d' = [d EXCEPT !.pc = "create", !.exists = GSA_EXISTS(found)]
        PROVE  DeployInv'
    <3>1. d'.pc = "create" /\ d'.exists = GSA_EXISTS(found)
      BY <1>0, <2>2 DEF DeployRuns
    <3>2. GSA_EXISTS(found) => gsa \in {"hidden", "ours"}
      BY <2>2 DEF Lookup, belongs, GSA_EXISTS, TypeOK, Accounts
    <3> QED BY <2>1, <3>1, <3>2
  <2>3. Die \/ \E found \in Lookup :
          belongs(found) /\ d' = [d EXCEPT !.pc = "create", !.exists = GSA_EXISTS(found)]
    BY <1>4 DEF Preflight, CallFails
  <2> QED BY <1>1, <2>1, <2>2, <2>3 DEF Die
<1>a. ASSUME Die PROVE DeployInv'
  BY <1>1, <1>a DEF Die
<1>5. CASE CreateGSA
  <2>1. ASSUME gsa' \in {"hidden", "ours"}, Goto("viewer") PROVE DeployInv'
    BY <1>0, <2>1 DEF Goto, DeployRuns
  <2>2. CASE d.exists /\ Goto("viewer") /\ UNCHANGED gsa
    BY <1>5, <2>1, <2>2 DEF CreateGSA
  <2>3. CASE gsa' = "hidden" /\ Goto("viewer")
    BY <2>1, <2>3
  <2> QED BY <1>a, <1>5, <2>2, <2>3 DEF CreateGSA, CallFails
<1>6. CASE GrantViewer
  <2>1. gsa \in {"hidden", "ours"} /\ UNCHANGED <<gsa, wi, image, dest>>
    BY <1>6 DEF GrantViewer
  <2>2. CASE viewer' = viewer \cup {d.flags.project} /\ Goto("impersonate")
    <3>1. d'.pc = "impersonate" /\ d'.flags = d.flags
      BY <1>0, <2>2 DEF Goto, DeployRuns
    <3> QED BY <2>1, <2>2, <3>1
  <2>3. CASE viewer' = viewer /\ d' = [d EXCEPT !.attempt = @ + 1]
    <3>1. d'.pc = "viewer"
      BY <1>0, <1>6, <2>3 DEF GrantViewer, DeployRuns
    <3> QED BY <2>1, <2>3, <3>1
  <2> QED BY <1>a, <1>6, <2>2, <2>3 DEF GrantViewer, CallFails, retry_gsa_not_found
<1>7. CASE BindWorkloadIdentity
  <2>1. /\ gsa \in {"hidden", "ours"} /\ UNCHANGED <<gsa, viewer, image, dest, undone>>
        /\ d.pc = "impersonate" /\ d.flags.project \in viewer \cup undone
    BY <1>7 DEF BindWorkloadIdentity, histories
  <2>2. CASE wi' = TRUE /\ Goto("build")
    <3>1. d'.pc = "build" /\ d'.flags = d.flags
      BY <1>0, <2>2 DEF Goto, DeployRuns
    <3> QED BY <2>1, <2>2, <3>1
  <2>3. CASE d' = [d EXCEPT !.attempt = @ + 1]
    <3>1. d'.pc = "impersonate" /\ d'.flags = d.flags
      BY <1>0, <2>1, <2>3 DEF DeployRuns
    <3> QED BY <2>1, <3>1
  <2> QED BY <1>a, <1>7, <2>2, <2>3 DEF BindWorkloadIdentity, CallFails, retry_gsa_not_found
<1>8. CASE BuildAndPush \/ GrantPull
  BY <1>0, <1>1, <1>8 DEF BuildAndPush, GrantPull, ensure_image_repository, CallFails, Die,
     Goto, DeployRuns, histories, TypeOK
<1>9. CASE ApplyManifests
  BY <1>0, <1>1, <1>9 DEF ApplyManifests, CallFails, Die, Goto, DeployRuns, histories, cloud
<1>10. CASE Annotate \/ WaitForCRD \/ RestartController
  BY <1>0, <1>1, <1>10 DEF Annotate, WaitForCRD, RestartController, restarted, CallFails, Die,
     Goto, DeployRuns, histories, cloud, TypeOK
<1>11. CASE DeploySyncConfig
  BY <1>1, <1>11 DEF DeploySyncConfig, CallFails, Die, cloud
<1> QED BY <1>2, <1>3, <1>4, <1>5, <1>6, <1>7, <1>8, <1>9, <1>10, <1>11
      DEF DeployAction, DeployStep

\* nobody else takes it away, but for a grant that is then recorded as undone
LEMMA OthersKeepDeploy ==
  ASSUME TypeOK, DeployInv, CleanupAction \/ WorldAction
  PROVE  DeployInv'
<1> USE DEF DeployInv, HasAccount, AfterViewer, AfterBinding, AfterAnnotate, DeploySteps, Pullable
<1>1. ASSUME NEW p \in Projects, Revoke(p) PROVE DeployInv'
  BY <1>1 DEF Revoke, Removed
<1>2. CASE DeleteGSA \/ DeleteCRD \/ Propagate \/ AnotherDeploys
  BY <1>2 DEF DeleteGSA, DeleteCRD, Propagate, AnotherDeploys, cloud, histories, TypeOK
<1>3. CASE UNCHANGED <<cloud, dest, d, undone>>
  BY <1>3 DEF cloud
<1> QED BY <1>1, <1>2, <1>3 DEF CleanupAction, StartCleanup, KillCleanup, CleanupStep,
     ResolveGSA, FindCRD, FindProjectsInUse, FindCandidate, DecideRevoke, Removed, FinishCleanup,
     WorldAction, UserEdits, histories

LEMMA DeployInvariant == Spec => [](TypeOK /\ DeployInv)
<1>1. Init => TypeOK /\ DeployInv
  BY InitTyped, InitDeploy
<1>2. TypeOK /\ DeployInv /\ [Next]_vars => (TypeOK /\ DeployInv)'
  <2>1. ASSUME TypeOK, DeployInv, Next PROVE (TypeOK /\ DeployInv)'
    BY <2>1, StepKeepsTypes, DeployKeepsDeploy, OthersKeepDeploy, NextSplits
  <2>2. ASSUME TypeOK, DeployInv, UNCHANGED vars PROVE (TypeOK /\ DeployInv)'
    BY <2>2 DEF vars, TypeOK, DeployInv, HasAccount, Pullable
  <2> QED BY <2>1, <2>2
<1> QED BY <1>1, <1>2, PTL DEF Spec

\* A deploy.sh that succeeds leaves everything the controller needs, whatever
\* earlier runs left half done.
THEOREM DeployLeavesReady == Spec => DeployedIsReady
<1> DEFINE Done == d.exit = "running" /\ d'.exit = "ok" => Ready(d.flags)'
<1>1. ASSUME TypeOK, DeployInv, Next PROVE Done
  <2>0. d \in DeployRuns
    BY <1>1 DEF TypeOK
  <2>1. CASE DeploySyncConfig
    <3>1. d.pc = "configure" /\ UNCHANGED <<cloud, dest, undone>>
      BY <2>1 DEF DeploySyncConfig
    <3>2. d'.exit = "ok" => dest.crd /\ crs' = [crs EXCEPT ![d.flags.namespace] = d.flags.project]
      BY <2>0, <2>1 DEF DeploySyncConfig, End, Die, CallFails, DeployRuns
    <3>3. d.flags.namespace \in Namespaces
      BY <2>0, ProvisionAssumption DEF DeployRuns
    <3>4. /\ gsa \in {"hidden", "ours"} /\ wi /\ d.flags.project \in viewer \cup undone
          /\ Pullable /\ dest.annotated /\ dest.pods = "gsa"
      BY <1>1, <3>1 DEF DeployInv, HasAccount, AfterViewer, AfterBinding, AfterAnnotate,
         DeploySteps
    <3>5. d'.exit = "ok" => crs'[d.flags.namespace] = d.flags.project
      BY <1>1, <3>2, <3>3 DEF TypeOK
    <3>6. d'.flags = d.flags
      BY <2>0, <2>1 DEF DeploySyncConfig, End, Die, CallFails, DeployRuns
    <3> QED BY <3>1, <3>2, <3>4, <3>5, <3>6 DEF Ready, Pullable, cloud
  <2>2. CASE ~DeploySyncConfig
    <3>1. CASE CleanupAction \/ WorldAction
      BY <3>1 DEF CleanupAction, StartCleanup, KillCleanup, CleanupStep, ResolveGSA, FindCRD,
         FindProjectsInUse, FindCandidate, DecideRevoke, Revoke, Removed, FinishCleanup,
         WorldAction, Propagate, AnotherDeploys, DeleteGSA, DeleteCRD, UserEdits
    <3>2. CASE DeployAction
      <4>1. ASSUME Die \/ \E step : Goto(step) PROVE Done
        BY <2>0, <4>1 DEF Die, End, Goto, DeployRuns
      <4>2. ASSUME NEW next, retry_gsa_not_found(next) PROVE Done
        BY <2>0, <4>1, <4>2 DEF retry_gsa_not_found, DeployRuns
      <4>3. ASSUME NEW flags, Run(flags) PROVE Done
        BY <4>3 DEF Run
      <4>4. CASE Preflight
        BY <2>0, <4>1, <4>4 DEF Preflight, CallFails, DeployRuns
      <4> QED BY <2>2, <3>2, <4>1, <4>2, <4>3, <4>4 DEF DeployAction, StartDeploy, RetryDeploy,
         KillDeploy, DeployStep, CreateGSA, GrantViewer, BindWorkloadIdentity,
         BuildAndPush, GrantPull, ApplyManifests, Annotate, WaitForCRD, RestartController,
         CallFails
    <3> QED BY <1>1, <3>1, <3>2, NextSplits
  <2> QED BY <2>1, <2>2
<1>2. TypeOK /\ DeployInv /\ [Next]_vars => [Done]_vars
  BY <1>1
<1> QED BY <1>2, DeployInvariant, PTL DEF Spec, DeployedIsReady
------------------------------------------------------------------------------
(****************************************************************************)
(* cleanup.sh.                                                              *)
(****************************************************************************)

\* what is known of a candidate once it has been examined
Handled(p) == p \in c.inUse \/ p \notin viewer \/ p \in c.revoke \/ p \in regranted

CleanupInv ==
  /\ c.pc \in {"account", "crd", "list"} => c.left = c.flags.candidates
  /\ c.pc \in {"account", "crd", "list", "candidates"} => ~c.failed
  /\ c.pc \in {"candidates", "revoke"} =>
       \A p \in c.flags.candidates \ c.left : Handled(p) \/ c.failed
  /\ c.pc = "revoke" => c.left = {}

LEMMA InitCleanup == Init => CleanupInv
BY DEF Init, CleanupInv

\* past resolve_gsa the account is one that deploy.sh made for this cluster
OwnInv == c.pc \in {"crd", "list", "candidates", "revoke"} => gsa \in {"hidden", "ours"}

LEMMA StepKeepsOwn ==
  ASSUME TypeOK, OwnInv, Next
  PROVE  OwnInv'
<1>0. c \in CleanupRuns
  BY DEF TypeOK
<1>1. ASSUME NEW exit, Quit(exit) PROVE OwnInv'
  BY <1>0, <1>1 DEF Quit, CleanupRuns, OwnInv
<1>2. CASE ResolveGSA
  <2>1. ASSUME NEW found \in Lookup, found = "ours", c' = [c EXCEPT !.pc = "crd"]
        PROVE  OwnInv'
    BY <1>2, <2>1 DEF Lookup, OwnInv, ResolveGSA, cloud
  <2> QED BY <1>1, <1>2, <2>1 DEF ResolveGSA, QueryFails
<1>3. ASSUME NEW flags \in Cleanups, StartCleanup(flags) PROVE OwnInv'
  BY <1>3 DEF StartCleanup, OwnInv
<1>4. ASSUME UNCHANGED gsa,
             c.pc \in {"crd", "list", "candidates", "revoke"} PROVE OwnInv'
  BY <1>4 DEF OwnInv
<1>5. CASE CleanupAction
  BY <1>1, <1>2, <1>3, <1>4, <1>5 DEF CleanupAction, CleanupStep, KillCleanup, FindCRD,
     FindProjectsInUse, FindCandidate, DecideRevoke, Revoke, FinishCleanup, cloud
<1>6. CASE DeployAction
  BY <1>6 DEF OwnInv, DeployAction, StartDeploy, Run, RetryDeploy, KillDeploy, DeployStep,
     Preflight, CreateGSA, GrantViewer, BindWorkloadIdentity, BuildAndPush, GrantPull,
     ApplyManifests, Annotate, WaitForCRD, RestartController, DeploySyncConfig, cloud
<1>7. CASE WorldAction
  BY <1>7 DEF OwnInv, WorldAction, Propagate, AnotherDeploys, DeleteGSA, DeleteCRD,
     UserEdits, cloud
<1> QED BY <1>5, <1>6, <1>7, NextSplits

LEMMA OwnInvariant == Spec => [](TypeOK /\ OwnInv)
<1>1. Init => TypeOK /\ OwnInv
  <2>1. Init => OwnInv
    BY DEF Init, OwnInv
  <2> QED BY InitTyped, <2>1
<1>2. TypeOK /\ OwnInv /\ [Next]_vars => (TypeOK /\ OwnInv)'
  <2>1. ASSUME TypeOK, OwnInv, UNCHANGED vars PROVE (TypeOK /\ OwnInv)'
    BY <2>1 DEF vars, TypeOK, OwnInv
  <2> QED BY <2>1, StepKeepsTypes, StepKeepsOwn
<1> QED BY <1>1, <1>2, PTL DEF Spec

\* The account of another destination cluster keeps its grants through everything
\* deploy.sh and cleanup.sh do, also when it takes the name after a check found it free.
THEOREM ForeignIsUntouched == Spec => ForeignUntouched
<1> DEFINE Same == gsa = "foreign" => UNCHANGED <<viewer, wi>>
<1>1. ASSUME TypeOK, DeployInv, OwnInv, Next, gsa = "foreign" PROVE UNCHANGED <<viewer, wi>>
  <2>1. d.pc \notin {"viewer", "impersonate"} /\ c.pc # "revoke"
    BY <1>1 DEF DeployInv, HasAccount, DeploySteps, OwnInv
  <2>2. CASE DeployAction
    BY <2>1, <2>2 DEF DeployAction, StartDeploy, Run, RetryDeploy, KillDeploy, DeployStep,
       Preflight, CreateGSA, GrantViewer, BindWorkloadIdentity, BuildAndPush, GrantPull,
       ApplyManifests, Annotate, WaitForCRD, RestartController, DeploySyncConfig, cloud
  <2>3. CASE CleanupAction
    BY <2>1, <2>3 DEF CleanupAction, StartCleanup, KillCleanup, CleanupStep, ResolveGSA,
       FindCRD, FindProjectsInUse, FindCandidate, DecideRevoke, Revoke, FinishCleanup, cloud
  <2>4. CASE WorldAction
    BY <1>1, <2>4 DEF WorldAction, Propagate, AnotherDeploys, DeleteGSA, DeleteCRD,
       UserEdits, cloud
  <2> QED BY <1>1, <2>2, <2>3, <2>4, NextSplits
<1>2. (TypeOK /\ DeployInv) /\ (TypeOK /\ OwnInv) /\ [Next]_vars => [Same]_vars
  BY <1>1
<1> QED BY <1>2, DeployInvariant, OwnInvariant, PTL DEF Spec, ForeignUntouched

\* a deploy that grants a project again is remembered, and nobody else grants
LEMMA OthersKeepCleanup ==
  ASSUME TypeOK, OwnInv, CleanupInv, DeployAction \/ WorldAction
  PROVE  CleanupInv'
<1>1. CASE GrantViewer
  BY <1>1 DEF GrantViewer, CleanupInv, Handled
<1>2. CASE DeleteGSA \/ AnotherDeploys
  BY <1>2 DEF DeleteGSA, AnotherDeploys, OwnInv, CleanupInv, histories
<1>3. CASE UNCHANGED <<viewer, c, regranted>>
  BY <1>3 DEF CleanupInv, Handled
<1> QED BY <1>1, <1>2, <1>3 DEF DeployAction, StartDeploy, Run, RetryDeploy, KillDeploy,
     DeployStep, Preflight, CreateGSA, BindWorkloadIdentity, BuildAndPush, GrantPull,
     ApplyManifests, Annotate, WaitForCRD, RestartController, DeploySyncConfig,
     WorldAction, Propagate, AnotherDeploys, DeleteCRD, UserEdits, cloud, histories

\* cleanup.sh drops no candidate on its way
LEMMA CleanupKeepsCleanup ==
  ASSUME TypeOK, CleanupInv, CleanupAction
  PROVE  CleanupInv'
<1>0. c \in CleanupRuns
  BY DEF TypeOK
<1>1. ASSUME NEW exit, Quit(exit) PROVE CleanupInv'
  <2>1. c'.pc = "idle"
    BY <1>0, <1>1 DEF Quit, CleanupRuns
  <2> QED BY <2>1 DEF CleanupInv
<1>2. ASSUME NEW flags \in Cleanups, StartCleanup(flags) PROVE CleanupInv'
  <2>1. c'.pc = "account" /\ c'.left = c'.flags.candidates /\ ~c'.failed
    BY <1>2 DEF StartCleanup
  <2> QED BY <2>1 DEF CleanupInv
<1>3. CASE ResolveGSA
  <2>1. CASE c' = [c EXCEPT !.pc = "crd"]
    BY <1>0, <1>3, <2>1 DEF ResolveGSA, CleanupInv, CleanupRuns
  <2> QED BY <1>1, <1>3, <2>1 DEF ResolveGSA, QueryFails
<1>4. CASE FindCRD
  BY <1>0, <1>4 DEF FindCRD, CleanupInv, CleanupRuns
<1>5. CASE FindProjectsInUse
  <2>1. CASE c' = [c EXCEPT !.pc = "candidates", !.inUse = listed]
    <3>1. /\ c'.pc = "candidates" /\ c'.left = c.left /\ c'.flags = c.flags
          /\ c'.failed = c.failed
      BY <1>0, <2>1 DEF CleanupRuns
    <3> QED BY <1>5, <3>1 DEF FindProjectsInUse, CleanupInv
  <2> QED BY <1>1, <1>5, <2>1 DEF FindProjectsInUse, QueryFails
<1>6. ASSUME NEW p \in Projects, FindCandidate(p) PROVE CleanupInv'
  <2>1. CASE c' = [c EXCEPT !.left = @ \ {p},
                            !.revoke = IF p \notin c.inUse /\ p \in viewer
                                       THEN @ \cup {p} ELSE @]
    <3>1. /\ c'.pc = c.pc /\ c'.left = c.left \ {p} /\ c'.flags = c.flags
          /\ c'.failed = c.failed /\ c'.inUse = c.inUse /\ c.revoke \subseteq c'.revoke
          /\ p \in c.inUse \/ p \notin viewer \/ p \in c'.revoke
      BY <1>0, <2>1 DEF CleanupRuns
    <3>2. c.pc = "candidates" /\ UNCHANGED <<viewer, regranted>>
      BY <1>6 DEF FindCandidate, cloud, histories
    <3> QED BY <3>1, <3>2 DEF CleanupInv, Handled
  <2> QED BY <1>1, <1>6, <2>1 DEF FindCandidate, QueryFails
<1>7. CASE DecideRevoke
  <2>1. CASE c' = [c EXCEPT !.pc = "revoke"]
    <3>1. /\ c'.pc = "revoke" /\ c'.left = c.left /\ c'.flags = c.flags
          /\ c'.failed = c.failed /\ c'.inUse = c.inUse /\ c'.revoke = c.revoke
      BY <1>0, <2>1 DEF CleanupRuns
    <3>2. c.pc = "candidates" /\ c.left = {} /\ UNCHANGED <<viewer, regranted>>
      BY <1>7 DEF DecideRevoke, cloud, histories
    <3> QED BY <3>1, <3>2 DEF CleanupInv, Handled
  <2> QED BY <1>1, <1>7, <2>1 DEF DecideRevoke
<1>8. ASSUME NEW p \in Projects, Revoke(p) PROVE CleanupInv'
  <2>1. PICK ok \in BOOLEAN :
          /\ c' = [c EXCEPT !.revoke = @ \ {p}, !.failed = revokedFailed(ok)]
          /\ \/ viewer' = viewer \ {p} /\ regranted' = regranted \ {p}
             \/ ~ok /\ UNCHANGED <<viewer, regranted>>
    BY <1>8 DEF Revoke, Removed
  <2>2. /\ c'.pc = c.pc /\ c'.left = c.left /\ c'.flags = c.flags
        /\ c'.failed = (c.failed \/ ~ok) /\ c'.inUse = c.inUse /\ c'.revoke = c.revoke \ {p}
    BY <1>0, <2>1 DEF CleanupRuns, revokedFailed
  <2>3. c.pc = "revoke"
    BY <1>8 DEF Revoke
  <2> QED BY <2>1, <2>2, <2>3 DEF CleanupInv, Handled
<1> QED BY <1>1, <1>2, <1>3, <1>4, <1>5, <1>6, <1>7, <1>8
      DEF CleanupAction, CleanupStep, KillCleanup, FinishCleanup

LEMMA CleanupInvariant == Spec => [](TypeOK /\ CleanupInv)
<1>1. Init => TypeOK /\ CleanupInv
  BY InitTyped, InitCleanup
<1>2. (TypeOK /\ OwnInv) /\ CleanupInv /\ [Next]_vars => (TypeOK /\ CleanupInv)'
  <2>1. ASSUME TypeOK, OwnInv, CleanupInv, Next PROVE (TypeOK /\ CleanupInv)'
    BY <2>1, StepKeepsTypes, CleanupKeepsCleanup, OthersKeepCleanup, NextSplits
  <2>2. ASSUME TypeOK, CleanupInv, UNCHANGED vars PROVE (TypeOK /\ CleanupInv)'
    BY <2>2 DEF vars, TypeOK, CleanupInv, Handled
  <2> QED BY <2>1, <2>2
<1> QED BY <1>1, <1>2, OwnInvariant, PTL DEF Spec

\* the exit of cleanup.sh is set when it ends, and success only by the two ways out
LEMMA CleanupEnds ==
  ASSUME TypeOK, Next, c.exit = "running", c'.exit = "ok"
  PROVE  \/ DecideRevoke /\ (c.revoke = {} \/ c.flags.dry)
         \/ FinishCleanup /\ ~c.failed
<1>0. c \in CleanupRuns
  BY DEF TypeOK
<1>1. ASSUME NEW exit, Quit(exit) PROVE c'.exit = exit
  BY <1>0, <1>1 DEF Quit, CleanupRuns
<1>2. CASE DecideRevoke
  BY <1>0, <1>2 DEF DecideRevoke, CleanupRuns
<1>3. CASE FinishCleanup
  <2>1. CASE c.failed
    BY <1>1, <1>3, <2>1 DEF FinishCleanup
  <2> QED BY <1>3, <2>1
<1>4. CASE ResolveGSA \/ FindCRD \/ FindProjectsInUse \/ KillCleanup
  BY <1>0, <1>1, <1>4 DEF ResolveGSA, FindCRD, FindProjectsInUse, KillCleanup, QueryFails,
     CleanupRuns
<1>5. ASSUME NEW p \in Projects, FindCandidate(p) \/ Revoke(p) PROVE FALSE
  BY <1>0, <1>1, <1>5 DEF FindCandidate, Revoke, QueryFails, CleanupRuns
<1>6. ASSUME NEW flags \in Cleanups, StartCleanup(flags) PROVE FALSE
  BY <1>6 DEF StartCleanup
<1>7. CASE DeployAction \/ WorldAction
  BY <1>7 DEF DeployAction, StartDeploy, Run, RetryDeploy, KillDeploy, DeployStep, Preflight,
     CreateGSA, GrantViewer, BindWorkloadIdentity, BuildAndPush, GrantPull, ApplyManifests,
     Annotate, WaitForCRD, RestartController, DeploySyncConfig, WorldAction, Propagate, AnotherDeploys,
     DeleteGSA, DeleteCRD, UserEdits
<1> QED BY <1>2, <1>3, <1>4, <1>5, <1>6, <1>7, NextSplits DEF CleanupAction, CleanupStep

\* A cleanup.sh that reports success has dealt with every candidate: none keeps its
\* grant unless a KRMSyncer used it or a deploy granted it meanwhile.
THEOREM CleanupForgetsNothing == Spec => CleanupIsComplete
<1> DEFINE Done ==
      c.exit = "running" /\ c'.exit = "ok" /\ ~c.flags.dry =>
        c.flags.candidates \cap viewer' \subseteq c.inUse \cup regranted'
<1>1. ASSUME TypeOK, CleanupInv, Next PROVE Done
  <2> SUFFICES ASSUME c.exit = "running", c'.exit = "ok", ~c.flags.dry
               PROVE  c.flags.candidates \cap viewer' \subseteq c.inUse \cup regranted'
    OBVIOUS
  <2>1. /\ c.pc \in {"candidates", "revoke"} /\ c.left = {} /\ c.revoke = {} /\ ~c.failed
        /\ UNCHANGED <<viewer, regranted>>
    BY <1>1, CleanupEnds DEF DecideRevoke, Removed, FinishCleanup, CleanupInv, cloud, histories
  <2> QED BY <1>1, <2>1 DEF CleanupInv, Handled
<1>2. ASSUME TypeOK, CleanupInv, UNCHANGED vars PROVE Done
  BY <1>2 DEF vars
<1>3. TypeOK /\ CleanupInv /\ [Next]_vars => [Done]_vars
  BY <1>1, <1>2
<1> QED BY <1>3, CleanupInvariant, PTL DEF Spec, CleanupIsComplete

\* What the list of KRMSyncers says of a project, while nothing masks a failed check
\* for the CRD: a project that is not in use was free after the cleanup started.
FreeInv ==
  /\ budget["crd"] = 0
  /\ ~dest.crd => \A n \in Namespaces : crs[n] = NoProject
  /\ c.pc # "idle" => Unused \subseteq free
  /\ c.pc \in {"account", "crd", "list"} => c.revoke = {}
  /\ c.pc = "candidates" => Projects \ c.inUse \subseteq free
  /\ c.pc \in {"candidates", "revoke"} => c.revoke \subseteq free

LEMMA InitFree == ASSUME Budget["crd"] = 0 PROVE Init => FreeInv
BY DEF Init, FreeInv

\* the budget for failed checks of the CRD stays spent
LEMMA NoCRDFault ==
  ASSUME TypeOK, Next, budget["crd"] = 0
  PROVE  budget'["crd"] = 0
<1>1. ASSUME NEW kinds, Spend(kinds) PROVE budget'["crd"] = 0
  <2>1. "crd" \in Disturbances
    BY DEF Disturbances
  <2>2. "crd" \notin kinds
    BY <1>1 DEF Spend
  <2> QED BY <1>1, <2>1, <2>2 DEF Spend
<1>2. CASE DeployAction
  BY <1>1, <1>2 DEF DeployAction, StartDeploy, RetryDeploy, KillDeploy, DeployStep,
     Preflight, CreateGSA, GrantViewer, BindWorkloadIdentity, BuildAndPush, GrantPull,
     ApplyManifests, Annotate, WaitForCRD, RestartController, DeploySyncConfig, CallFails
<1>3. CASE CleanupAction
  BY <1>1, <1>3 DEF CleanupAction, StartCleanup, KillCleanup, CleanupStep, ResolveGSA,
     FindCRD, FindProjectsInUse, FindCandidate, DecideRevoke, Revoke, Removed, FinishCleanup, QueryFails
<1>4. CASE WorldAction
  BY <1>1, <1>4 DEF WorldAction, Propagate, AnotherDeploys, DeleteGSA, DeleteCRD, UserEdits
<1> QED BY <1>2, <1>3, <1>4, NextSplits

\* CRs come and go: what is free meanwhile is remembered
LEMMA OthersKeepFree ==
  ASSUME TypeOK, FreeInv, DeployAction \/ WorldAction
  PROVE  FreeInv'
<1>0. budget'["crd"] = 0
  BY NoCRDFault, NextSplits DEF FreeInv
<1>1. ASSUME UNCHANGED c, SeenUnused,
             ~dest'.crd => \A n \in Namespaces : crs'[n] = NoProject
      PROVE  FreeInv'
  <2>1. free \subseteq free' /\ (c'.pc # "idle" => Unused' \subseteq free')
    BY <1>1 DEF SeenUnused
  <2> QED BY <1>0, <1>1, <2>1 DEF FreeInv
<1>2. ASSUME UNCHANGED <<crs, c, free>>, dest.crd => dest'.crd PROVE FreeInv'
  BY <1>0, <1>2 DEF FreeInv, Unused, InUse
<1>3. CASE DeploySyncConfig
  <2>1. UNCHANGED <<c, dest>>
    BY <1>3 DEF DeploySyncConfig
  <2> QED BY <1>1, <1>2, <1>3, <2>1 DEF DeploySyncConfig
<1>4. ASSUME NEW n \in Namespaces, NEW p \in Projects \cup {NoProject}, UserEdits(n, p)
      PROVE  FreeInv'
  BY <1>1, <1>4 DEF UserEdits
<1>5. CASE DeleteCRD
  BY <1>1, <1>5 DEF DeleteCRD
<1>6. CASE ApplyManifests
  <2>1. dest.crd => dest'.crd
    <3>1. dest \in [crd : BOOLEAN, annotated : BOOLEAN, pods : {"none", "bare", "gsa"}]
      BY DEF TypeOK
    <3>2. \E b \in BOOLEAN, pods \in {"none", "bare", "gsa"} :
            dest' = [dest EXCEPT !.crd = @ \/ b, !.pods = pods]
      BY <1>6, <3>1 DEF ApplyManifests
    <3> QED BY <3>1, <3>2
  <2> QED BY <1>2, <1>6, <2>1 DEF ApplyManifests, histories
<1>7. CASE Annotate \/ RestartController
  BY <1>2, <1>7 DEF Annotate, RestartController, histories, TypeOK
<1> QED BY <1>2, <1>3, <1>4, <1>5, <1>6, <1>7 DEF DeployAction, StartDeploy, Run, RetryDeploy,
     KillDeploy, DeployStep, Preflight, CreateGSA, GrantViewer, BindWorkloadIdentity,
     BuildAndPush, GrantPull, WaitForCRD, WorldAction, Propagate, AnotherDeploys, DeleteGSA, cloud, histories

\* cleanup.sh marks for revocation what was free
LEMMA CleanupKeepsFree ==
  ASSUME TypeOK, FreeInv, CleanupAction
  PROVE  FreeInv'
<1>0. budget'["crd"] = 0 /\ c \in CleanupRuns /\ Next
  BY NoCRDFault, NextSplits DEF FreeInv, TypeOK
<1>a. ASSUME UNCHANGED <<dest, crs>> PROVE Unused' = Unused
  BY <1>a DEF Unused, InUse
<1>1. ASSUME NEW exit, Quit(exit), UNCHANGED <<dest, crs>> PROVE FreeInv'
  <2>1. c'.pc = "idle"
    BY <1>0, <1>1 DEF Quit, CleanupRuns
  <2> QED BY <1>0, <1>1, <2>1 DEF FreeInv
<1>2. ASSUME NEW flags \in Cleanups, StartCleanup(flags) PROVE FreeInv'
  <2>1. c'.pc = "account" /\ c'.revoke = {} /\ free' = Unused /\ UNCHANGED <<dest, crs>>
    BY <1>2 DEF StartCleanup
  <2> QED BY <1>0, <1>a, <2>1 DEF FreeInv
<1>3. CASE ResolveGSA
  <2>1. UNCHANGED <<dest, crs, free>> /\ c.pc = "account"
    BY <1>3 DEF ResolveGSA, histories
  <2>2. CASE c' = [c EXCEPT !.pc = "crd"]
    <3>1. c'.pc = "crd" /\ c'.revoke = c.revoke
      BY <1>0, <2>2 DEF CleanupRuns
    <3> QED BY <1>0, <1>a, <2>1, <3>1 DEF FreeInv
  <2> QED BY <1>1, <1>3, <2>1, <2>2 DEF ResolveGSA, QueryFails
<1>4. CASE FindCRD
  <2>1. UNCHANGED <<dest, crs, free>> /\ c.pc = "crd"
    BY <1>4 DEF FindCRD, histories
  <2>2. ~Spend({"crd"})
    BY DEF Spend, FreeInv
  <2>3. c' = [c EXCEPT !.pc = IF dest.crd THEN "list" ELSE "candidates"]
    BY <1>4, <2>2 DEF FindCRD
  <2>4. c'.revoke = {} /\ c'.pc = IF dest.crd THEN "list" ELSE "candidates"
    BY <1>0, <2>1, <2>3 DEF CleanupRuns, FreeInv
  <2>5. ~dest.crd => Projects \subseteq Unused
    BY ProvisionAssumption DEF FreeInv, Unused, InUse
  <2> QED BY <1>0, <1>a, <2>1, <2>4, <2>5 DEF FreeInv
<1>5. CASE FindProjectsInUse
  <2>1. UNCHANGED <<dest, crs, free>> /\ c.pc = "list"
    BY <1>5 DEF FindProjectsInUse, histories
  <2>2. CASE c' = [c EXCEPT !.pc = "candidates", !.inUse = listed]
    <3>1. c'.pc = "candidates" /\ c'.inUse = listed /\ c'.revoke = {}
      BY <1>0, <2>1, <2>2 DEF CleanupRuns, FreeInv
    <3>2. Projects \ listed \subseteq Unused
      BY ProvisionAssumption DEF listed, Unused, InUse
    <3> QED BY <1>0, <1>a, <2>1, <3>1, <3>2 DEF FreeInv
  <2> QED BY <1>1, <1>5, <2>1, <2>2 DEF FindProjectsInUse, QueryFails
<1>6. ASSUME NEW p \in Projects, FindCandidate(p) PROVE FreeInv'
  <2>1. UNCHANGED <<dest, crs, free>> /\ c.pc = "candidates"
    BY <1>6 DEF FindCandidate, histories
  <2>2. CASE c' = [c EXCEPT !.left = @ \ {p},
                            !.revoke = IF p \notin c.inUse /\ p \in viewer
                                       THEN @ \cup {p} ELSE @]
    <3>1. /\ c'.pc = "candidates" /\ c'.inUse = c.inUse
          /\ c'.revoke \subseteq c.revoke \cup (Projects \ c.inUse)
      BY <1>0, <2>1, <2>2 DEF CleanupRuns
    <3> QED BY <1>0, <1>a, <2>1, <3>1 DEF FreeInv
  <2> QED BY <1>1, <1>6, <2>1, <2>2 DEF FindCandidate, QueryFails
<1>7. CASE DecideRevoke
  <2>1. UNCHANGED <<dest, crs, free>> /\ c.pc = "candidates"
    BY <1>7 DEF DecideRevoke, histories
  <2>2. CASE c' = [c EXCEPT !.pc = "revoke"]
    <3>1. c'.pc = "revoke" /\ c'.revoke = c.revoke
      BY <1>0, <2>2 DEF CleanupRuns
    <3> QED BY <1>0, <1>a, <2>1, <3>1 DEF FreeInv
  <2> QED BY <1>1, <1>7, <2>1, <2>2 DEF DecideRevoke
<1>8. ASSUME NEW p \in Projects, Revoke(p) PROVE FreeInv'
  <2>1. UNCHANGED <<dest, crs, free>> /\ c.pc = "revoke"
    BY <1>8 DEF Revoke
  <2>2. c'.pc = "revoke" /\ c'.revoke = c.revoke \ {p}
    BY <1>0, <1>8 DEF Revoke, CleanupRuns
  <2> QED BY <1>0, <1>a, <2>1, <2>2 DEF FreeInv
<1>9. CASE FinishCleanup \/ KillCleanup
  BY <1>1, <1>9 DEF FinishCleanup, KillCleanup
<1> QED BY <1>2, <1>3, <1>4, <1>5, <1>6, <1>7, <1>8, <1>9 DEF CleanupAction, CleanupStep

\* cleanup.sh revokes a project only if no KRMSyncer referenced it at some time since
\* it started, as long as its check for the CRD does not fail (a failure there counts
\* as a cluster without KRMSyncers).
THEOREM RevokesWhatWasFree ==
  ASSUME Budget["crd"] = 0
  PROVE  Spec => RevokedWasFree
<1> DEFINE Safe == \A p \in viewer \ viewer' : c.pc = "revoke" => p \in free
<1>1. Init => TypeOK /\ FreeInv
  BY InitTyped, InitFree
<1>2. TypeOK /\ FreeInv /\ [Next]_vars => (TypeOK /\ FreeInv)'
  <2>1. ASSUME TypeOK, FreeInv, Next PROVE (TypeOK /\ FreeInv)'
    BY <2>1, StepKeepsTypes, CleanupKeepsFree, OthersKeepFree, NextSplits
  <2>2. ASSUME TypeOK, FreeInv, UNCHANGED vars PROVE (TypeOK /\ FreeInv)'
    BY <2>2 DEF vars, TypeOK, FreeInv, Unused, InUse
  <2> QED BY <2>1, <2>2
<1>3. ASSUME TypeOK, OwnInv, FreeInv, Next PROVE Safe
  <2>1. ASSUME NEW p \in Projects, Revoke(p) PROVE Safe
    BY <1>3, <2>1 DEF Revoke, Removed, FreeInv
  <2>2. CASE DeleteGSA \/ AnotherDeploys
    BY <1>3, <2>2 DEF DeleteGSA, AnotherDeploys, OwnInv
  <2>3. CASE viewer \subseteq viewer'
    BY <2>3
  <2> QED BY <1>3, <2>1, <2>2, <2>3 DEF Next, StartDeploy, Run, RetryDeploy, KillDeploy,
     DeployStep, Preflight, CreateGSA, GrantViewer, BindWorkloadIdentity, BuildAndPush,
     GrantPull, ApplyManifests, Annotate, WaitForCRD, RestartController, DeploySyncConfig,
     StartCleanup, KillCleanup, CleanupStep, ResolveGSA, FindCRD, FindProjectsInUse,
     FindCandidate, DecideRevoke, Removed, FinishCleanup, Propagate, DeleteCRD, UserEdits, cloud
<1>4. (TypeOK /\ OwnInv) /\ FreeInv /\ [Next]_vars => [Safe]_vars
  BY <1>3
<1> QED BY <1>1, <1>2, <1>4, OwnInvariant, PTL DEF Spec, RevokedWasFree
==============================================================================

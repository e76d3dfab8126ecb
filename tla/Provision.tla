------------------------------ MODULE Provision ------------------------------
(****************************************************************************)
(* deploy.sh and cleanup.sh: what they create in Google Cloud and in the    *)
(* destination cluster for one destination cluster, one call after the      *)
(* other, while any call may fail, either script is killed at any point and *)
(* run again, a call takes effect although its reply is lost, new service   *)
(* accounts become visible late, the two scripts may overlap, users create, *)
(* edit and delete KRMSyncers, and another destination cluster may take the *)
(* name of the service account.                                             *)
(****************************************************************************)
EXTENDS Naturals, FiniteSets

CONSTANTS
  Projects,   \* source projects
  Namespaces, \* namespaces of KRMSyncer CRs in the destination cluster
  NoProject,  \* no CR in a namespace
  Requests,   \* flags of deploy.sh: source project, namespace of the CR, build or not
  Cleanups,   \* flags of cleanup.sh: the projects to revoke, dry run or not
  Attempts,   \* how often an IAM call is tried while the GSA is not visible
  InitGSAs,   \* what may own the name of the service account at the start
  Budget      \* how often the environment may interfere, by kind

Disturbances == {"deploy", "cleanup", "kill", "fault", "crd", "others"}
Accounts == {"absent", "hidden", "ours", "foreign"}

ASSUME ProvisionAssumption ==
  /\ NoProject \notin Projects
  /\ Requests # {}
  /\ Requests \subseteq [project : Projects, namespace : Namespaces, build : BOOLEAN]
  /\ Cleanups \subseteq [candidates : (SUBSET Projects) \ {{}}, dry : BOOLEAN]
  /\ Attempts \in Nat \ {0}
  /\ InitGSAs \subseteq {"absent", "foreign"}
  /\ Budget \in [Disturbances -> Nat]

VARIABLES
  gsa,    \* the service account: absent, ours and not visible yet, ours, another's
  viewer, \* the projects on which this account has roles/container.viewer
  wi,     \* the controller's Kubernetes ServiceAccount may impersonate it
  image,  \* the Artifact Registry repository: is it there, the image, can nodes pull
  dest,   \* the destination cluster: CRD, annotation, what the pods run as
  crs,    \* the project each KRMSyncer CR references, by namespace
  d,      \* the run of deploy.sh
  c,      \* the run of cleanup.sh
  free,   \* history: projects without a CR at some time during the cleanup
  undone, \* history: projects revoked during the deploy
  regranted, \* history: projects granted during the cleanup
  budget  \* how often the environment may still interfere

vars == <<gsa, viewer, wi, image, dest, crs, d, c, free, undone, regranted, budget>>
cloud == <<gsa, viewer, wi, image>>
histories == <<free, undone, regranted>>

Init ==
  /\ gsa \in InitGSAs
  /\ viewer \in IF gsa = "foreign" THEN SUBSET Projects ELSE {{}}
  /\ wi \in IF gsa = "foreign" THEN BOOLEAN ELSE {FALSE}
  /\ image \in [repository : {FALSE}, pushed : {FALSE}, pull : BOOLEAN]
  /\ dest = [crd |-> FALSE, annotated |-> FALSE, pods |-> "none"]
  /\ crs = [n \in Namespaces |-> NoProject]
  /\ d \in [pc : {"idle"}, flags : Requests, exists : {FALSE}, attempt : {1}, exit : {"none"}]
  /\ c = [pc |-> "idle", flags |-> [candidates |-> {}, dry |-> FALSE], left |-> {},
          inUse |-> {}, revoke |-> {}, failed |-> FALSE, exit |-> "none"]
  /\ free = {} /\ undone = {} /\ regranted = {}
  /\ budget = Budget

\* the environment interferes, once for each of the kinds
Spend(kinds) ==
  /\ \A k \in kinds : budget[k] > 0
  /\ budget' = [k \in Disturbances |-> IF k \in kinds THEN budget[k] - 1 ELSE budget[k]]

InUse(p) == \E n \in Namespaces : crs[n] = p
Unused == {p \in Projects : ~InUse(p)}

\* history: a running cleanup could have seen these unused
SeenUnused == free' = IF c.pc = "idle" THEN free ELSE free \cup Unused'
------------------------------------------------------------------------------
(****************************************************************************)
(* deploy.sh.  errexit: a call that fails ends the script.                  *)
(****************************************************************************)

\* the script goes on with the next call
Goto(step) == d' = [d EXCEPT !.pc = step, !.attempt = 1]
End(exit) == d' = [d EXCEPT !.pc = "idle", !.exists = FALSE, !.attempt = 1, !.exit = exit]
Die == End("failed")

\* A call returns an error.  It changed nothing, or it did and the reply was lost.
CallFails == Spend({"fault"}) /\ Die

\* the operator runs the script
Run(flags) ==
  /\ d.pc = "idle"
  /\ d' = [pc |-> "preflight", flags |-> flags, exists |-> FALSE, attempt |-> 1,
           exit |-> "running"]
  /\ undone' = {}
  /\ UNCHANGED <<cloud, dest, crs, c, free, regranted>>

StartDeploy(flags) ==
  /\ Spend({"deploy"} \cup IF c.pc = "idle" THEN {} ELSE {"others"})
  /\ Run(flags)

\* once more, with the same flags, when it failed and no cleanup is under way
RetryDeploy ==
  /\ d.exit = "failed"
  /\ c.pc = "idle"
  /\ Run(d.flags)
  /\ UNCHANGED budget

\* check_gsa: the description says for which destination cluster it was created
belongs(account) == account # "foreign"

\* mutant: the flag is set in a subshell and lost
GSA_EXISTSLost(found) == FALSE

\* what check_gsa remembers
GSA_EXISTS(found) == found # "absent"

\* what a lookup of the account may find
Lookup == IF gsa = "hidden" THEN {"absent", "ours"} ELSE {gsa}

\* preflight_checks: read-only.  Only what check_gsa finds is used later.
Preflight ==
  /\ d.pc = "preflight"
  /\ \/ /\ \E found \in Lookup :
             IF belongs(found)
             THEN d' = [d EXCEPT !.pc = "create", !.exists = GSA_EXISTS(found)]
             ELSE Die
        /\ UNCHANGED budget
     \/ CallFails
  /\ UNCHANGED <<cloud, dest, crs, c, histories>>

\* mutant: the account is there when it should be created, so it is used
CreateGSATolerant ==
  /\ d.pc = "create"
  /\ \/ /\ d.exists \/ gsa # "absent"
        /\ Goto("viewer")
        /\ UNCHANGED gsa
     \/ /\ ~d.exists /\ gsa = "absent"
        /\ gsa' = "hidden"
        /\ Goto("viewer")
  /\ UNCHANGED <<viewer, wi, image, dest, crs, c, histories, budget>>

\* configure_workload_identity: the account is created with its description and is not
\* visible at once; one that exists cannot be created again
CreateGSA ==
  /\ d.pc = "create"
  /\ \/ /\ d.exists
        /\ Goto("viewer")
        /\ UNCHANGED <<gsa, budget>>
     \/ /\ ~d.exists /\ gsa = "absent"
        /\ gsa' = "hidden"
        /\ (Goto("viewer") /\ UNCHANGED budget) \/ CallFails
     \/ /\ ~d.exists /\ gsa # "absent"
        /\ Die
        /\ UNCHANGED <<gsa, budget>>
     \/ /\ ~d.exists
        /\ CallFails
        /\ UNCHANGED gsa
  /\ UNCHANGED <<viewer, wi, image, dest, crs, c, histories>>

\* mutant: one attempt too many
retry_gsa_not_foundMore(next) ==
  IF d.attempt <= Attempts THEN d' = [d EXCEPT !.attempt = @ + 1] ELSE Die

\* mutant: after the last attempt the script goes on without the binding
retry_gsa_not_foundGoesOn(next) ==
  d' = IF d.attempt < Attempts THEN [d EXCEPT !.attempt = @ + 1]
       ELSE [d EXCEPT !.pc = next, !.attempt = 1]

\* retry_gsa_not_found: tried again while the account is not visible, then given up
retry_gsa_not_found(next) ==
  IF d.attempt < Attempts THEN d' = [d EXCEPT !.attempt = @ + 1] ELSE Die

GrantViewer ==
  /\ d.pc = "viewer"
  /\ \/ /\ viewer' = viewer \cup {d.flags.project}
        /\ regranted' = IF c.pc = "idle" THEN regranted ELSE regranted \cup {d.flags.project}
        /\ undone' = undone \ {d.flags.project}
        /\ (Goto("impersonate") /\ UNCHANGED budget) \/ CallFails
     \/ /\ gsa = "hidden"
        /\ retry_gsa_not_found("impersonate")
        /\ UNCHANGED <<viewer, regranted, undone, budget>>
     \/ /\ CallFails
        /\ UNCHANGED <<viewer, regranted, undone>>
  /\ UNCHANGED <<gsa, wi, image, dest, crs, c, free>>

BindWorkloadIdentity ==
  /\ d.pc = "impersonate"
  /\ \/ /\ wi' = TRUE
        /\ (Goto("build") /\ UNCHANGED budget) \/ CallFails
     \/ /\ gsa = "hidden"
        /\ retry_gsa_not_found("build")
        /\ UNCHANGED <<wi, budget>>
     \/ CallFails /\ UNCHANGED wi
  /\ UNCHANGED <<gsa, viewer, image, dest, crs, c, histories>>

\* created if missing
ensure_image_repository == [image EXCEPT !.repository = TRUE]

\* build_and_push_image: the push may fail when the repository has been created
BuildAndPush ==
  LET built == [ensure_image_repository EXCEPT !.pushed = TRUE] IN
  /\ d.pc = "build"
  /\ \/ /\ image' = IF d.flags.build THEN built ELSE image
        /\ Goto("pull")
        /\ UNCHANGED budget
     \/ /\ d.flags.build
        /\ CallFails
        /\ image' \in {image, ensure_image_repository, built}
  /\ UNCHANGED <<gsa, viewer, wi, dest, crs, c, histories>>

\* grant_image_pull_access: nodes that run as a minimal service account need the
\* grant, others can pull without it.  Whatever fails here is a warning.
GrantPull ==
  /\ d.pc = "pull"
  /\ Goto("apply")
  /\ \/ image' = [image EXCEPT !.pull = @ \/ image.repository] /\ UNCHANGED budget
     \/ Spend({"fault"}) /\ UNCHANGED image
  /\ UNCHANGED <<gsa, viewer, wi, dest, crs, c, histories>>

\* deploy_controller, kubectl apply: objects are applied one by one, the others
\* also when one of them fails.  The first pods run without an identity.
ApplyManifests ==
  /\ d.pc = "apply"
  /\ LET applied(crd, deployment) ==
           [dest EXCEPT !.crd = @ \/ crd,
                        !.pods = IF deployment /\ @ = "none"
                                 THEN IF dest.annotated THEN "gsa" ELSE "bare" ELSE @]
     IN  \/ /\ dest' = applied(TRUE, TRUE)
            /\ Goto("annotate")
            /\ UNCHANGED budget
         \/ /\ CallFails
            /\ \E crd, deployment \in BOOLEAN : dest' = applied(crd, deployment)
  /\ UNCHANGED <<cloud, crs, c, histories>>

Annotate ==
  /\ d.pc = "annotate"
  /\ \/ /\ dest' = [dest EXCEPT !.annotated = TRUE]
        /\ (Goto("wait") /\ UNCHANGED budget) \/ CallFails
     \/ CallFails /\ UNCHANGED dest
  /\ UNCHANGED <<cloud, crs, c, histories>>

WaitForCRD ==
  /\ d.pc = "wait"
  /\ \/ dest.crd /\ Goto("restart") /\ UNCHANGED budget
     \/ ~dest.crd /\ Die /\ UNCHANGED budget
     \/ CallFails
  /\ UNCHANGED <<cloud, dest, crs, c, histories>>

\* mutant: pods that run are left alone
restartedOnly(pods) == IF pods = "none" THEN "gsa" ELSE pods

\* new pods pick up the annotation
restarted(pods) == "gsa"

\* the nodes can start the controller
Pullable == image.pushed /\ image.pull

\* rollout restart, rollout status: pods whose image cannot be pulled never become
\* ready, others may not become ready in time
RestartController ==
  /\ d.pc = "restart"
  /\ \/ /\ dest' = [dest EXCEPT !.pods = restarted(@)]
        /\ \/ Pullable /\ Goto("configure") /\ UNCHANGED budget
           \/ ~Pullable /\ Die /\ UNCHANGED budget
           \/ CallFails
     \/ CallFails /\ UNCHANGED dest
  /\ UNCHANGED <<cloud, crs, c, histories>>

\* deploy_sync_config: the namespace and the CR
DeploySyncConfig ==
  /\ d.pc = "configure"
  /\ \/ /\ dest.crd
        /\ crs' = [crs EXCEPT ![d.flags.namespace] = d.flags.project]
        /\ SeenUnused
        /\ (End("ok") /\ UNCHANGED budget) \/ CallFails
     \/ ~dest.crd /\ Die /\ UNCHANGED <<crs, free, budget>>
     \/ CallFails /\ UNCHANGED <<crs, free>>
  /\ UNCHANGED <<cloud, dest, c, undone, regranted>>

KillDeploy ==
  /\ d.pc # "idle"
  /\ Spend({"kill"})
  /\ Die
  /\ UNCHANGED <<cloud, dest, crs, c, histories>>

DeployStep ==
  \/ Preflight \/ CreateGSA \/ GrantViewer \/ BindWorkloadIdentity \/ BuildAndPush
  \/ GrantPull \/ ApplyManifests \/ Annotate \/ WaitForCRD \/ RestartController
  \/ DeploySyncConfig
------------------------------------------------------------------------------
(****************************************************************************)
(* cleanup.sh.                                                              *)
(****************************************************************************)

Quit(exit) ==
  c' = [c EXCEPT !.pc = "idle", !.left = {}, !.inUse = {}, !.revoke = {}, !.failed = FALSE,
                 !.exit = exit]
QueryFails == Spend({"fault"}) /\ Quit("failed")

StartCleanup(flags) ==
  /\ c.pc = "idle"
  /\ Spend({"cleanup"} \cup IF d.pc = "idle" THEN {} ELSE {"others"})
  /\ c' = [pc |-> "account", flags |-> flags, left |-> flags.candidates, inUse |-> {},
           revoke |-> {}, failed |-> FALSE, exit |-> "running"]
  /\ free' = Unused
  /\ regranted' = {}
  /\ UNCHANGED <<cloud, dest, crs, d, undone>>

\* mutant: any account of that name will do
ResolveGSAAny ==
  /\ c.pc = "account"
  /\ \E found \in Lookup :
       IF found # "absent" THEN c' = [c EXCEPT !.pc = "crd"] ELSE Quit("failed")
  /\ UNCHANGED <<cloud, dest, crs, d, histories, budget>>

\* resolve_defaults, resolve_gsa: an account that is missing or not ours is refused
ResolveGSA ==
  /\ c.pc = "account"
  /\ \/ /\ \E found \in Lookup :
             IF found = "ours" THEN c' = [c EXCEPT !.pc = "crd"] ELSE Quit("failed")
        /\ UNCHANGED budget
     \/ QueryFails
  /\ UNCHANGED <<cloud, dest, crs, d, histories>>

\* find_projects_in_use: a check for the CRD that fails counts as no CRD
FindCRD ==
  /\ c.pc = "crd"
  /\ \/ c' = [c EXCEPT !.pc = IF dest.crd THEN "list" ELSE "candidates"] /\ UNCHANGED budget
     \/ c' = [c EXCEPT !.pc = "candidates"] /\ Spend({"crd"})
  /\ UNCHANGED <<cloud, dest, crs, d, histories>>

\* mutant: only the CRs of the namespace that deploy.sh was last told are listed
listedHere == {crs[d.flags.namespace]} \ {NoProject}

\* the projects of the CRs in all namespaces
listed == {crs[n] : n \in Namespaces} \ {NoProject}

FindProjectsInUse ==
  /\ c.pc = "list"
  /\ \/ dest.crd /\ c' = [c EXCEPT !.pc = "candidates", !.inUse = listed] /\ UNCHANGED budget
     \/ ~dest.crd /\ Quit("failed") /\ UNCHANGED budget
     \/ QueryFails
  /\ UNCHANGED <<cloud, dest, crs, d, histories>>

\* find_candidates: one project; has_viewer_binding reads its IAM policy
FindCandidate(p) ==
  /\ c.pc = "candidates"
  /\ p \in c.left
  /\ \/ /\ c' = [c EXCEPT !.left = @ \ {p},
                          !.revoke = IF p \notin c.inUse /\ p \in viewer THEN @ \cup {p} ELSE @]
        /\ UNCHANGED budget
     \/ p \notin c.inUse /\ QueryFails
  /\ UNCHANGED <<cloud, dest, crs, d, histories>>

\* all candidates are examined: nothing is revoked in a dry run
DecideRevoke ==
  /\ c.pc = "candidates"
  /\ c.left = {}
  /\ IF c.revoke = {} \/ c.flags.dry THEN Quit("ok") ELSE c' = [c EXCEPT !.pc = "revoke"]
  /\ UNCHANGED <<cloud, dest, crs, d, histories, budget>>

\* mutant: the flag holds the outcome of the last project only
revokedLast(ok) == ~ok

\* one failure is remembered until the end
revokedFailed(ok) == c.failed \/ ~ok

\* the binding of project p is removed
Removed(p) ==
  /\ viewer' = viewer \ {p}
  /\ undone' = IF d.pc = "idle" THEN undone ELSE undone \cup {p}
  /\ regranted' = regranted \ {p}

\* revoke: one project.  A failure does not keep the others from being revoked.
Revoke(p) ==
  /\ c.pc = "revoke"
  /\ p \in c.revoke
  /\ \/ /\ c' = [c EXCEPT !.revoke = @ \ {p}, !.failed = revokedFailed(TRUE)]
        /\ Removed(p)
        /\ UNCHANGED budget
     \/ /\ c' = [c EXCEPT !.revoke = @ \ {p}, !.failed = revokedFailed(FALSE)]
        /\ Removed(p) \/ UNCHANGED <<viewer, undone, regranted>>
        /\ Spend({"fault"})
  /\ UNCHANGED <<gsa, wi, image, dest, crs, d, free>>

FinishCleanup ==
  /\ c.pc = "revoke"
  /\ c.revoke = {}
  /\ Quit(IF c.failed THEN "failed" ELSE "ok")
  /\ UNCHANGED <<cloud, dest, crs, d, histories, budget>>

KillCleanup ==
  /\ c.pc # "idle"
  /\ Spend({"kill"})
  /\ Quit("failed")
  /\ UNCHANGED <<cloud, dest, crs, d, histories>>

CleanupStep ==
  \/ ResolveGSA \/ FindCRD \/ FindProjectsInUse \/ DecideRevoke \/ FinishCleanup
  \/ \E p \in Projects : FindCandidate(p) \/ Revoke(p)
------------------------------------------------------------------------------
\* a new service account becomes visible everywhere
Propagate ==
  /\ gsa = "hidden"
  /\ gsa' = "ours"
  /\ UNCHANGED <<viewer, wi, image, dest, crs, d, c, histories, budget>>

\* The account of another destination cluster gets the name while it is free: the
\* names are cut short and hashed (gsa_name).  It has grants of its own.
AnotherDeploys ==
  /\ gsa = "absent"
  /\ Spend({"others"})
  /\ gsa' = "foreign"
  /\ viewer' \in SUBSET Projects /\ wi' \in BOOLEAN
  /\ UNCHANGED <<image, dest, crs, d, c, histories>>

\* users create, edit and delete KRMSyncers of their own
UserEdits(n, p) ==
  /\ dest.crd
  /\ crs[n] # p
  /\ Spend({"others"})
  /\ crs' = [crs EXCEPT ![n] = p]
  /\ SeenUnused
  /\ UNCHANGED <<cloud, dest, d, c, undone, regranted>>

\* removing KRMSyncer: the service account goes last, and its bindings with it
DeleteGSA ==
  /\ d.pc = "idle" /\ c.pc = "idle"
  /\ \A n \in Namespaces : crs[n] = NoProject
  /\ gsa = "ours"
  /\ Spend({"others"})
  /\ gsa' = "absent" /\ viewer' = {} /\ wi' = FALSE
  /\ UNCHANGED <<image, dest, crs, d, c, histories>>

\* removing the CRD removes the CRs
DeleteCRD ==
  /\ dest.crd
  /\ Spend({"others"})
  /\ dest' = [dest EXCEPT !.crd = FALSE]
  /\ crs' = [n \in Namespaces |-> NoProject]
  /\ SeenUnused
  /\ UNCHANGED <<cloud, d, c, undone, regranted>>

Next ==
  \/ \E flags \in Requests : StartDeploy(flags)
  \/ RetryDeploy \/ DeployStep \/ KillDeploy
  \/ \E flags \in Cleanups : StartCleanup(flags)
  \/ CleanupStep \/ KillCleanup
  \/ Propagate \/ AnotherDeploys \/ DeleteGSA \/ DeleteCRD
  \/ \E n \in Namespaces, p \in Projects \cup {NoProject} : UserEdits(n, p)

\* Scripts that run get on, accounts become visible, and an operator runs a deploy
\* that failed again.
Fairness ==
  /\ WF_vars(RetryDeploy) /\ WF_vars(DeployStep) /\ WF_vars(CleanupStep)
  /\ WF_vars(Propagate)

Spec == Init /\ [][Next]_vars /\ Fairness
------------------------------------------------------------------------------
(****************************************************************************)
(* Properties.                                                              *)
(****************************************************************************)

DeploySteps ==
  {"idle", "preflight", "create", "viewer", "impersonate", "build", "pull", "apply",
   "annotate", "wait", "restart", "configure"}
CleanupSteps == {"idle", "account", "crd", "list", "candidates", "revoke"}
Exits == {"none", "running", "ok", "failed"}

DeployRuns ==
  [pc : DeploySteps, flags : Requests, exists : BOOLEAN, attempt : 1..Attempts, exit : Exits]

CleanupRuns ==
  [pc : CleanupSteps, flags : [candidates : SUBSET Projects, dry : BOOLEAN],
   left : SUBSET Projects, inUse : SUBSET Projects, revoke : SUBSET Projects,
   failed : BOOLEAN, exit : Exits]

\* Every variable has its type.
TypeOK ==
  /\ gsa \in Accounts
  /\ viewer \in SUBSET Projects
  /\ wi \in BOOLEAN
  /\ image \in [repository : BOOLEAN, pushed : BOOLEAN, pull : BOOLEAN]
  /\ dest \in [crd : BOOLEAN, annotated : BOOLEAN, pods : {"none", "bare", "gsa"}]
  /\ crs \in [Namespaces -> Projects \cup {NoProject}]
  /\ d \in DeployRuns
  /\ c \in CleanupRuns
  /\ free \in SUBSET Projects /\ undone \in SUBSET Projects /\ regranted \in SUBSET Projects
  /\ budget \in [Disturbances -> Nat]

\* the controller runs and can reach the clusters of the project it is told to pull from
Ready(flags) ==
  /\ gsa \in {"hidden", "ours"} /\ wi
  /\ flags.project \in viewer \cup undone
  /\ Pullable
  /\ dest.crd /\ dest.annotated /\ dest.pods = "gsa"
  /\ crs[flags.namespace] = flags.project

\* A deploy that succeeds leaves everything the controller needs to pull from the
\* source project, whatever earlier runs left half done: the account, both IAM
\* bindings, an image that the nodes can pull although a failing grant is only a
\* warning, the CRD, the annotation, pods that were started after it, and the CR.
\* Only a cleanup that overlapped can have taken the grant away again.
DeployedIsReady ==
  [][d.exit = "running" /\ d'.exit = "ok" => Ready(d.flags)']_vars

\* The account of another destination cluster keeps its grants as they are, also
\* when it takes the name after a preflight (check_gsa) found it free: neither
\* script binds anything to it or revokes anything from it.  cleanup.sh "refuses to
\* touch a GSA that deploy.sh did not create for this destination cluster".
ForeignUntouched == [][gsa = "foreign" => UNCHANGED <<viewer, wi>>]_vars

\* running the script again with the same flags cannot help: the name of the account
\* is another's, or nothing is built (--skip-build) and nothing was ever pushed
Hopeless == gsa = "foreign" \/ ~(d.flags.build \/ image.pushed)

\* A deploy that failed can be run again until it succeeds: nothing that an aborted
\* run leaves (an account, a repository, a missing pull grant, half of the manifests)
\* makes every later run fail, unless it is hopeless.
DeployHeals == d.exit = "failed" ~> (d.exit = "ok" \/ Hopeless)

\* A project is revoked only if, at some time during the cleanup, no KRMSyncer in
\* any namespace referenced it.
RevokedWasFree == [][\A p \in viewer \ viewer' : c.pc = "revoke" => p \in free]_vars

\* A cleanup that reports success leaves the account without the candidates' grants,
\* except where a KRMSyncer was using the project or a deploy granted it meanwhile:
\* a project that could not be revoked is not forgotten when a later one could.
CleanupIsComplete ==
  [][c.exit = "running" /\ c'.exit = "ok" /\ ~c.flags.dry =>
       c.flags.candidates \cap viewer' \subseteq c.inUse \cup regranted']_vars

\* cleanup.sh "never revokes a project that a KRMSyncer CR in the destination
\* cluster still references" (README.md).
NeverRevokesInUse == [][\A p \in viewer \ viewer' : c.pc = "revoke" => ~InUse(p)]_vars
==============================================================================

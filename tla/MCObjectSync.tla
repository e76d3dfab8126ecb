---------------------------- MODULE MCObjectSync ----------------------------
(****************************************************************************)
(* Small instances of ObjectSync.                                           *)
(****************************************************************************)
EXTENDS ObjectSync

CONSTANTS a, b, n1, r1, r2, r3, s1, s2, s3, p1, p2

Pubsub == [name |-> "pubsub.cnrm", dotted |-> TRUE, suffixed |-> TRUE, star |-> FALSE]
Topic == [group |-> Pubsub, version |-> "v1beta1", kind |-> "PubSubTopic"]

Rule(group, version, kind, namespaces, fields) ==
  [group |-> group, version |-> version, kind |-> kind,
   namespaces |-> namespaces, fields |-> fields]
Wildcard(fields) == Rule(StarKCC, Star, Star, {}, fields)
TopicRule(fields) == Rule(Pubsub, "v1beta1", "PubSubTopic", {n1}, fields)

Syncer(suspend, mode, remote, rules) ==
  [suspend |-> suspend, mode |-> mode, remote |-> remote, rules |-> rules]

\* what deploy.sh applies: --sync-mode full and --sync-mode status
FullRules == <<Wildcard({"spec", "status"})>>
StatusRules == <<Wildcard({"status"}), TopicRule({"status", "spec.resourceID"})>>

PullFull == Syncer(FALSE, "pull", r1, FullRules)
PullStatus == Syncer(FALSE, "pull", r1, StatusRules)
Paused == [PullFull EXCEPT !.suspend = TRUE]
PushFull(r) == Syncer(FALSE, "push", r, FullRules)

\* watchers
PullWatcher(p) == [pod |-> p, mode |-> "pull", cluster |-> r1, gvk |-> Topic]
PushWatcher(p) == [pod |-> p, mode |-> "push", cluster |-> Local, gvk |-> Topic]
OnePull == {PullWatcher(p1)}
OnePush == {PushWatcher(p1)}
PullInEach == {PullWatcher(p) : p \in Pods}
AllOnePull == [i \in Workers |-> PullWatcher(p1)]
AllOnePush == [i \in Workers |-> PushWatcher(p1)]
OneInEach == [i \in Workers |-> PullWatcher(i)]

\* objects
InN1 == [o \in Objects |-> n1]
ClusterScoped == [o \in Objects |-> NoNs]
Whole == [leaves |-> Leaves, scalarSpec |-> FALSE]
NoStatusYet == [leaves |-> Leaves \ {"status"}, scalarSpec |-> FALSE]
ScalarSpec == [leaves |-> {"body", "status"}, scalarSpec |-> TRUE]
WholeOnly == {Whole}
NotYetReconciled == {NoStatusYet}
AllShapes == {Whole, NoStatusYet, ScalarSpec}

\* KRMSyncers
OneFull == [s \in Syncers |-> PullFull]
OnePaused == [s \in Syncers |-> Paused]
OneStatus == [s \in Syncers |-> PullStatus]
FullSpecs == {PullFull, Paused}
StatusSpecs == {PullStatus}
RemoteOf(s) == CASE s = s1 -> r1 [] s = s2 -> r2 [] s = s3 -> r3
ThreePushes == [s \in Syncers |-> PushFull(RemoteOf(s))]
PushSpecs == {PushFull(r) : r \in Remotes}

\* how often the environment interferes
Times(fault, edit, create, remove, crash, rollout) ==
  [k \in Disturbances |-> CASE k = "fault" -> fault [] k = "edit" -> edit
                            [] k = "create" -> create [] k = "remove" -> remove
                            [] k = "crash" -> crash [] k = "rollout" -> rollout]
TwoFaults == Times(2, 0, 0, 0, 0, 0)
FaultCrash == Times(1, 0, 0, 0, 1, 0)
FaultEditCreateCrash == Times(1, 1, 1, 0, 1, 0)
CreateRemove == Times(0, 0, 1, 1, 0, 0)
OneCreate == Times(0, 0, 1, 0, 0, 0)
OneCrash == Times(0, 0, 0, 0, 1, 0)
EditRemoveRollout == Times(0, 1, 0, 1, 0, 1)
==============================================================================

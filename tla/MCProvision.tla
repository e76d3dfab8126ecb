----------------------------- MODULE MCProvision -----------------------------
(* Instances of Provision for TLC. *)
EXTENDS Provision

CONSTANTS p1, p2, n1, n2

Times(deploy, cleanup, kill, fault, crd, others) ==
  [k \in Disturbances |->
     CASE k = "deploy" -> deploy [] k = "cleanup" -> cleanup [] k = "kill" -> kill
       [] k = "fault" -> fault [] k = "crd" -> crd [] k = "others" -> others]

Request(p, n, build) == [project |-> p, namespace |-> n, build |-> build]
TwoProjects == {Request(p1, n1, TRUE), Request(p2, n2, FALSE)}
Cleanup(projects, dry) == [candidates |-> projects, dry |-> dry]
OneOrBoth == {Cleanup({p1}, TRUE), Cleanup({p1, p2}, FALSE)}

AnyOwner == {"absent", "foreign"}
NoOwner == {"absent"}

\* a switch from one source project to another, with everything that may interfere
Switch == Times(2, 1, 1, 1, 0, 1)
\* one deploy and one cleanup, undisturbed but for the check of the CRD
CheckFails == Times(1, 1, 0, 0, 1, 0)
==============================================================================

------------------------------ MODULE MCExport ------------------------------
(* An instance of Export for TLC. *)
EXTENDS Export

CONSTANTS a, b

Kind(group, name, list, subresource) ==
  [group |-> group, name |-> name, list |-> list, subresource |-> subresource]
Secrets == Kind("core", "secrets", TRUE, FALSE)
Pods == Kind("core", "pods", TRUE, FALSE)
PodStatus == Kind("core", "pods/status", TRUE, TRUE)
Topics == Kind("pubsub.cnrm", "pubsubtopics", TRUE, FALSE)
Reviews == Kind("authorization.k8s.io", "subjectaccessreviews", FALSE, FALSE)

Catalog == {Secrets, Pods, PodStatus, Topics, Reviews}
AtStart == {<<Secrets, a>>, <<Topics, a>>, <<Topics, b>>}

Interfere ==
  [k \in Disturbances |-> CASE k = "run" -> 2 [] k = "kill" -> 1 [] k = "fault" -> 2
                            [] k = "disk" -> 1 [] k = "change" -> 1]
==============================================================================

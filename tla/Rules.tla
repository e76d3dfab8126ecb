-------------------------------- MODULE Rules --------------------------------
(****************************************************************************)
(* The resource rules of a KRMSyncer: which GVKs a rule selects and which   *)
(* fields of an object it copies.  All of it is pure: the setup controller  *)
(* (expandRule) and the object reconcilers (ruleMatchesGVK, filterFields)   *)
(* evaluate it independently.                                               *)
(*                                                                          *)
(* The code tests strings; the model keeps exactly the tests.  A group is a *)
(* record of its name and of the three string predicates the code applies:  *)
(*   dotted    strings.HasSuffix(g, ".cnrm.cloud.google.com")               *)
(*   suffixed  strings.HasSuffix(g, "cnrm.cloud.google.com")                *)
(*   star      strings.Contains(g, "*")                                     *)
(****************************************************************************)
EXTENDS Naturals, Sequences

StarKCC == [name |-> "*.cnrm", dotted |-> TRUE, suffixed |-> TRUE, star |-> TRUE]
KCCRoot == [name |-> "cnrm", dotted |-> FALSE, suffixed |-> TRUE, star |-> FALSE]

Star == "*"
\* a version or kind that contains "*" without being "*", such as "v1*"
PartialGlob == "x*"
HasStar(name) == name \in {Star, PartialGlob}

\* the paths a rule may list in syncFields
SyncPaths == {"spec", "spec.resourceID", "status"}

\* The parts of an object the reconcilers can tell apart: "body" is the labels,
\* the annotations and the spec without resourceID.
Leaves == {"body", "resourceID", "status"}

\* the group condition of a KCC rule
IsKCCGroup(group) ==
  \/ group = StarKCC
  \/ group.dotted
  \/ group = KCCRoot

HasGlob(rule) == rule.group.star \/ HasStar(rule.version) \/ HasStar(rule.kind)

\* validateRule: a glob is only allowed for a KCC group with version and kind "*"
validateRule(rule) ==
  HasGlob(rule) => /\ IsKCCGroup(rule.group)
                   /\ rule.version = Star
                   /\ rule.kind = Star

IsKCCGlob(rule) ==
  /\ IsKCCGroup(rule.group)
  /\ rule.version = Star
  /\ rule.kind = Star

\* the group comparison of expandRule for a KCC glob
GlobMatchesGroup(rule, group) ==
  IF rule.group = StarKCC THEN group.suffixed ELSE group = rule.group

GVK(x) == [group |-> x.group, version |-> x.version, kind |-> x.kind]

\* mutant: the wildcard only selects groups below cnrm.cloud.google.com
expandRuleDotted(rule, resources) ==
  IF IsKCCGlob(rule)
  THEN {GVK(r) : r \in {x \in resources : ~x.subresource /\ x.group.dotted}}
  ELSE {GVK(rule)}

\* expandRule: the GVKs a valid rule stands for.  resources is what discovery
\* returned: records of a group, a version, a kind and whether the entry is a
\* subresource (its name contains "/").
expandRule(rule, resources) ==
  IF IsKCCGlob(rule)
  THEN {GVK(r) : r \in {x \in resources : ~x.subresource /\ GlobMatchesGroup(rule, x.group)}}
  ELSE {GVK(rule)}

\* DynamicResourceReconciler.ruleMatchesGVK
ruleMatchesGVK(rule, gvk) ==
  \/ /\ IsKCCGlob(rule)
     /\ IF rule.group = StarKCC THEN gvk.group.suffixed ELSE gvk.group = rule.group
  \/ /\ ~IsKCCGlob(rule)
     /\ rule.group = gvk.group
     /\ rule.version = gvk.version
     /\ rule.kind = gvk.kind

\* the namespace test of DynamicResourceReconciler.Reconcile: an empty list
\* selects every namespace
NamespaceMatches(rule, ns) == rule.namespaces = {} \/ ns \in rule.namespaces

\* isFullSync: the rule syncs the whole spec; otherwise it is in status mode
isFullSync(fields) == "spec" \in fields

\* filterFields: the leaves of an object with the given leaves that the rule
\* copies.  Labels and annotations (part of "body") go with the full spec only.
filterFields(leaves, fields) ==
  leaves \cap ((IF isFullSync(fields) THEN {"body", "resourceID"} ELSE {})
               \cup (IF "spec.resourceID" \in fields THEN {"resourceID"} ELSE {})
               \cup (IF "status" \in fields THEN {"status"} ELSE {}))

\* filterFields returns an error when a path runs through a value that is not a
\* map: here spec.resourceID of an object whose spec is a scalar.
filterFieldsFails(scalarSpec, fields) == scalarSpec /\ "spec.resourceID" \in fields
==============================================================================

----------------------------- MODULE RulesProofs -----------------------------
(****************************************************************************)
(* What the two readings of a resource rule have in common, for any rule    *)
(* and whatever discovery returned.                                         *)
(****************************************************************************)
EXTENDS Rules, TLAPS

\* Setup starts a watcher for a discovered kind exactly if the watcher will then
\* sync its objects: expandRule (the setup controller) and ruleMatchesGVK (the
\* object watchers) are written separately and select the same kinds.
THEOREM RuleReadingsAgree ==
  ASSUME NEW rule, NEW resources, NEW r \in resources, ~r.subresource
  PROVE  GVK(r) \in expandRule(rule, resources) <=> ruleMatchesGVK(rule, GVK(r))
<1>1. CASE IsKCCGlob(rule)
  <2>1. \A x : GVK(x).group = x.group
    BY DEF GVK
  <2>2. GVK(r) \in expandRule(rule, resources) <=> GlobMatchesGroup(rule, r.group)
    <3>1. ASSUME GVK(r) \in expandRule(rule, resources)
          PROVE  GlobMatchesGroup(rule, r.group)
      <4>1. PICK x \in resources : GlobMatchesGroup(rule, x.group) /\ GVK(r) = GVK(x)
        BY <1>1, <3>1 DEF expandRule
      <4>2. x.group = r.group
        BY <2>1, <4>1
      <4> QED BY <4>1, <4>2
    <3>2. ASSUME GlobMatchesGroup(rule, r.group)
          PROVE  GVK(r) \in expandRule(rule, resources)
      BY <1>1, <3>2 DEF expandRule
    <3> QED BY <3>1, <3>2
  <2>3. ruleMatchesGVK(rule, GVK(r)) <=> GlobMatchesGroup(rule, r.group)
    BY <1>1, <2>1 DEF ruleMatchesGVK, GlobMatchesGroup
  <2> QED BY <2>2, <2>3
<1>2. CASE ~IsKCCGlob(rule)
  BY <1>2 DEF expandRule, ruleMatchesGVK, GVK
<1> QED BY <1>1, <1>2

\* No watcher is started in vain: every kind that setup watches for a rule is one
\* that the watchers recognise as the rule's.
THEOREM WatchedIsMatched ==
  ASSUME NEW rule, NEW resources, NEW gvk \in expandRule(rule, resources)
  PROVE  ruleMatchesGVK(rule, gvk)
<1>1. CASE IsKCCGlob(rule)
  <2>1. PICK x \in resources : GlobMatchesGroup(rule, x.group) /\ gvk = GVK(x)
    BY <1>1 DEF expandRule
  <2>2. gvk.group = x.group
    BY <2>1 DEF GVK
  <2> QED BY <1>1, <2>1, <2>2 DEF ruleMatchesGVK, GlobMatchesGroup
<1>2. CASE ~IsKCCGlob(rule)
  BY <1>2 DEF expandRule, ruleMatchesGVK, GVK
<1> QED BY <1>1, <1>2

\* what the two suffix tests have to do with each other
SuffixesNest(group) == group.dotted => group.suffixed

\* A glob that passes validateRule never reaches a kind outside Config Connector:
\* whatever is synced without being named is in a group that ends in
\* cnrm.cloud.google.com.
THEOREM GlobsStayInConfigConnector ==
  ASSUME NEW rule, NEW gvk, SuffixesNest(rule.group),
         HasGlob(rule), validateRule(rule), ruleMatchesGVK(rule, gvk)
  PROVE  gvk.group.suffixed
<1>1. IsKCCGlob(rule)
  BY DEF validateRule, IsKCCGlob
<1>2. CASE rule.group = StarKCC
  BY <1>1, <1>2 DEF ruleMatchesGVK
<1>3. CASE rule.group # StarKCC
  <2>1. gvk.group = rule.group
    BY <1>1, <1>3 DEF ruleMatchesGVK
  <2>2. CASE rule.group.dotted
    BY <2>1, <2>2 DEF SuffixesNest
  <2>3. CASE rule.group = KCCRoot
    <3>1. KCCRoot.suffixed
      BY DEF KCCRoot
    <3> QED BY <2>1, <2>3, <3>1
  <2> QED BY <1>1, <1>3, <2>2, <2>3 DEF IsKCCGlob, IsKCCGroup
<1> QED BY <1>2, <1>3
==============================================================================

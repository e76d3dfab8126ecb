--------------------------- MODULE MCSyncerSetup ---------------------------
(* Instances of SyncerSetup for TLC. *)
EXTENDS SyncerSetup

CONSTANTS s1, s2, local, r1

Pubsub == [name |-> "pubsub.cnrm", dotted |-> TRUE, suffixed |-> TRUE, star |-> FALSE]
Core == [name |-> "core", dotted |-> FALSE, suffixed |-> FALSE, star |-> FALSE]

Resource(group, kind) ==
  [group |-> group, version |-> "v1", kind |-> kind, subresource |-> FALSE]
Topic == Resource(Pubsub, "Topic")
Root == Resource(KCCRoot, "ConfigConnector")
TopicStatus == [Topic EXCEPT !.subresource = TRUE]
Catalog == {Topic, Root, TopicStatus}

Rule(group, version, kind) ==
  [group |-> group, version |-> version, kind |-> kind, namespaces |-> {}, fields |-> {"status"}]
Wildcard == Rule(StarKCC, Star, Star)
TopicRule == Rule(Pubsub, "v1", "Topic")
SecretRule == Rule(Core, "v1", "Secret")
BadRule == Rule(Core, "v1", PartialGlob)

SpecOf(mode, remote, rules) ==
  [mode |-> mode, remote |-> remote, suspend |-> FALSE, rules |-> rules]
PullAll == SpecOf("", r1, <<Wildcard, TopicRule>>)
PushSecrets == SpecOf("push", r1, <<SecretRule>>)
PushTopics == SpecOf("push", r1, <<TopicRule, Wildcard>>)
Broken == SpecOf("pull", r1, <<SecretRule, BadRule, TopicRule>>)
Keyless == SpecOf("pull", NoKey, <<SecretRule>>)
KeylessGlob == SpecOf("pull", NoKey, <<Wildcard>>)
Paused(spec) == [spec EXCEPT !.suspend = TRUE]

AllSpecs == {PullAll, PushSecrets, PushTopics, Broken, Keyless, KeylessGlob, Paused(PullAll)}

\* the second KRMSyncer is created later, if at all
FirstPulls == [s \in Syncers |-> IF s = s1 THEN PullAll ELSE NoSyncer]

ServeTopics == [c \in Clusters |-> {Topic, TopicStatus}]

Interfere(fault, partial, edit, serve, crash) ==
  [k \in Disturbances |->
     CASE k = "fault" -> fault [] k = "partial" -> partial [] k = "edit" -> edit
       [] k = "serve" -> serve [] k = "crash" -> crash]
Disturbed == Interfere(1, 1, 1, 1, 1)
==============================================================================

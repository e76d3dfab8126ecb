------------------------ MODULE FailureTrackerProofs ------------------------
(****************************************************************************)
(* The gauges of the failure trackers always equal the number of failing    *)
(* keys, for any number of trackers, keys and gauges and any sharing.       *)
(****************************************************************************)
EXTENDS FailureTracker, FiniteSetTheorems, TLAPS

\* the failing keys of a gauge are a finite set
LEMMA FailingFinite ==
  ASSUME TrackerConstants, NEW g
  PROVE  IsFiniteSet(FailingOn(g))
<1>1. IsFiniteSet(Trackers \X Keys)
  BY FS_Product DEF TrackerConstants
<1>2. FailingOn(g) \subseteq Trackers \X Keys
  BY DEF FailingOn
<1> QED BY <1>1, <1>2, FS_Subset

\* markFailed keeps the gauges equal to the counts
LEMMA markFailedCounts ==
  ASSUME TrackerConstants, TrackerTypeOK, GaugeCountsFailing,
         NEW t \in Trackers, NEW k \in Keys, markFailed(t, k)
  PROVE  TrackerTypeOK' /\ GaugeCountsFailing'
<1>1. CASE k \in failed[t]
  BY <1>1 DEF markFailed, trackerVars, TrackerTypeOK, GaugeCountsFailing, FailingOn
<1>2. CASE k \notin failed[t]
  <2> USE DEF TrackerConstants
  <2>1. /\ failed' = [failed EXCEPT ![t] = @ \cup {k}]
        /\ gauge' = [gauge EXCEPT ![GaugeOf[t]] = @ + 1]
    BY <1>2 DEF markFailed
  <2>2. TrackerTypeOK'
    BY <2>1 DEF TrackerTypeOK
  <2>3. ASSUME NEW g \in Gauges, g = GaugeOf[t]
        PROVE  gauge'[g] = Cardinality(FailingOn(g)')
    <3>1. FailingOn(g)' = FailingOn(g) \cup {<<t, k>>}
      BY <2>1, <2>3 DEF FailingOn, TrackerTypeOK
    <3>2. <<t, k>> \notin FailingOn(g)
      BY <1>2 DEF FailingOn
    <3>3. Cardinality(FailingOn(g)') = Cardinality(FailingOn(g)) + 1
      BY <3>1, <3>2, FailingFinite, FS_AddElement
    <3>4. gauge'[g] = gauge[g] + 1
      BY <2>1, <2>3 DEF TrackerTypeOK
    <3> QED BY <3>3, <3>4 DEF GaugeCountsFailing
  <2>4. ASSUME NEW g \in Gauges, g # GaugeOf[t]
        PROVE  gauge'[g] = Cardinality(FailingOn(g)')
    <3>1. FailingOn(g)' = FailingOn(g)
      BY <2>1, <2>4 DEF FailingOn, TrackerTypeOK
    <3>2. gauge'[g] = gauge[g]
      BY <2>1, <2>4 DEF TrackerTypeOK
    <3> QED BY <3>1, <3>2 DEF GaugeCountsFailing
  <2> QED BY <2>2, <2>3, <2>4 DEF GaugeCountsFailing
<1> QED BY <1>1, <1>2

\* markSucceeded keeps the gauges equal to the counts
LEMMA markSucceededCounts ==
  ASSUME TrackerConstants, TrackerTypeOK, GaugeCountsFailing,
         NEW t \in Trackers, NEW k \in Keys, markSucceeded(t, k)
  PROVE  TrackerTypeOK' /\ GaugeCountsFailing'
<1>1. CASE k \notin failed[t]
  BY <1>1 DEF markSucceeded, trackerVars, TrackerTypeOK, GaugeCountsFailing, FailingOn
<1>2. CASE k \in failed[t]
  <2> USE DEF TrackerConstants
  <2>1. /\ failed' = [failed EXCEPT ![t] = @ \ {k}]
        /\ gauge' = [gauge EXCEPT ![GaugeOf[t]] = @ - 1]
    BY <1>2 DEF markSucceeded
  <2>2. TrackerTypeOK'
    BY <2>1 DEF TrackerTypeOK
  <2>3. ASSUME NEW g \in Gauges, g = GaugeOf[t]
        PROVE  gauge'[g] = Cardinality(FailingOn(g)')
    <3>1. FailingOn(g)' = FailingOn(g) \ {<<t, k>>}
      BY <2>1, <2>3 DEF FailingOn, TrackerTypeOK
    <3>2. <<t, k>> \in FailingOn(g)
      BY <1>2, <2>3 DEF FailingOn
    <3>3. Cardinality(FailingOn(g)') = Cardinality(FailingOn(g)) - 1
      BY <3>1, <3>2, FailingFinite, FS_RemoveElement
    <3>4. gauge'[g] = gauge[g] - 1
      BY <2>1, <2>3 DEF TrackerTypeOK
    <3> QED BY <3>3, <3>4 DEF GaugeCountsFailing
  <2>4. ASSUME NEW g \in Gauges, g # GaugeOf[t]
        PROVE  gauge'[g] = Cardinality(FailingOn(g)')
    <3>1. FailingOn(g)' = FailingOn(g)
      BY <2>1, <2>4 DEF FailingOn, TrackerTypeOK
    <3>2. gauge'[g] = gauge[g]
      BY <2>1, <2>4 DEF TrackerTypeOK
    <3> QED BY <3>1, <3>2 DEF GaugeCountsFailing
  <2> QED BY <2>2, <2>3, <2>4 DEF GaugeCountsFailing
<1> QED BY <1>1, <1>2

\* the trackers start empty and the gauges at zero
LEMMA TrackerInitCounts ==
  ASSUME TrackerInit
  PROVE  TrackerTypeOK /\ GaugeCountsFailing
<1>1. \A g \in Gauges : FailingOn(g) = {}
  BY DEF TrackerInit, FailingOn
<1>2. Cardinality({}) = 0
  BY FS_EmptySet
<1>3. GaugeCountsFailing
  BY <1>1, <1>2 DEF GaugeCountsFailing, TrackerInit
<1> QED BY <1>3 DEF TrackerInit, TrackerTypeOK

\* Every gauge always equals the number of keys its trackers hold as failing:
\* repeated failures count once, and trackers that share a gauge add up.
THEOREM GaugeCorrect ==
  ASSUME TrackerConstants
  PROVE  TrackerSpec => [](TrackerTypeOK /\ GaugeCountsFailing)
<1>1. TrackerInit => TrackerTypeOK /\ GaugeCountsFailing
  BY TrackerInitCounts
<1>2. ASSUME TrackerTypeOK /\ GaugeCountsFailing, [TrackerNext]_trackerVars
      PROVE  (TrackerTypeOK /\ GaugeCountsFailing)'
  <2>1. CASE UNCHANGED trackerVars
    BY <1>2, <2>1 DEF trackerVars, TrackerTypeOK, GaugeCountsFailing, FailingOn
  <2>2. ASSUME NEW t \in Trackers, NEW k \in Keys, markFailed(t, k)
        PROVE  (TrackerTypeOK /\ GaugeCountsFailing)'
    BY <1>2, <2>2, markFailedCounts
  <2>3. ASSUME NEW t \in Trackers, NEW k \in Keys, markSucceeded(t, k)
        PROVE  (TrackerTypeOK /\ GaugeCountsFailing)'
    BY <1>2, <2>3, markSucceededCounts
  <2>4. ASSUME NEW G \in SUBSET Gauges, TrackerRestart(G)
        PROVE  (TrackerTypeOK /\ GaugeCountsFailing)'
    <3>1. \A t \in Trackers : GaugeOf[t] \in Gauges
      BY DEF TrackerConstants
    <3>2. \A g \in G : FailingOn(g)' = {}
      BY <2>4 DEF TrackerRestart, FailingOn
    <3>3. \A g \in Gauges \ G : FailingOn(g)' = FailingOn(g)
      BY <2>4 DEF TrackerRestart, FailingOn
    <3>4. Cardinality({}) = 0
      BY FS_EmptySet
    <3>5. GaugeCountsFailing'
      BY <1>2, <2>4, <3>2, <3>3, <3>4 DEF TrackerRestart, GaugeCountsFailing
    <3> QED BY <1>2, <2>4, <3>1, <3>5 DEF TrackerRestart, TrackerTypeOK
  <2> QED BY <1>2, <2>1, <2>2, <2>3, <2>4 DEF TrackerNext
<1> QED BY <1>1, <1>2, PTL DEF TrackerSpec
==============================================================================

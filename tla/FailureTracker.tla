--------------------------- MODULE FailureTracker ---------------------------
(****************************************************************************)
(* The failure trackers behind the syncer_failed_objects and                *)
(* syncer_setup_failed gauges.  Each tracker remembers the keys whose       *)
(* latest attempt failed; trackers of the same GVK share one gauge, which   *)
(* they move by one when a key enters or leaves their set.                  *)
(*                                                                          *)
(* Both operations run under the tracker's mutex and a gauge is moved       *)
(* atomically, so one call is one step whatever the callers interleave.     *)
(****************************************************************************)
EXTENDS Integers, FiniteSets

CONSTANTS
  Trackers,  \* the live trackers
  Keys,      \* the objects (or KRMSyncers) they track
  Gauges,    \* the gauges
  GaugeOf    \* the gauge each tracker was created with

\* what a program that uses the trackers has to provide; a hypothesis of the theorems
TrackerConstants ==
  /\ IsFiniteSet(Trackers)
  /\ IsFiniteSet(Keys)
  /\ GaugeOf \in [Trackers -> Gauges]

VARIABLES
  failed,  \* failed[t]: the keys whose latest attempt failed
  gauge    \* gauge[g]: the exported value

trackerVars == <<failed, gauge>>

TrackerInit ==
  /\ failed = [t \in Trackers |-> {}]
  /\ gauge = [g \in Gauges |-> 0]

\* mutant: every failed attempt is counted, not every failing key
markFailedAlways(t, k) ==
  /\ failed' = [failed EXCEPT ![t] = @ \cup {k}]
  /\ gauge' = [gauge EXCEPT ![GaugeOf[t]] = @ + 1]

markFailed(t, k) ==
  IF k \in failed[t]
  THEN UNCHANGED trackerVars
  ELSE /\ failed' = [failed EXCEPT ![t] = @ \cup {k}]
       /\ gauge' = [gauge EXCEPT ![GaugeOf[t]] = @ + 1]

markSucceeded(t, k) ==
  IF k \in failed[t]
  THEN /\ failed' = [failed EXCEPT ![t] = @ \ {k}]
       /\ gauge' = [gauge EXCEPT ![GaugeOf[t]] = @ - 1]
  ELSE UNCHANGED trackerVars

\* a process is restarted, with the gauges G: trackers and gauges are in memory only
TrackerRestart(G) ==
  /\ failed' = [t \in Trackers |-> IF GaugeOf[t] \in G THEN {} ELSE failed[t]]
  /\ gauge' = [g \in Gauges |-> IF g \in G THEN 0 ELSE gauge[g]]

TrackerNext ==
  \/ \E t \in Trackers, k \in Keys : markFailed(t, k) \/ markSucceeded(t, k)
  \/ \E G \in SUBSET Gauges : TrackerRestart(G)

TrackerSpec == TrackerInit /\ [][TrackerNext]_trackerVars
------------------------------------------------------------------------------
\* Trackers hold keys and gauges are numbers.
TrackerTypeOK ==
  /\ failed \in [Trackers -> SUBSET Keys]
  /\ gauge \in [Gauges -> Int]

\* the failing keys that gauge g stands for
FailingOn(g) ==
  {p \in Trackers \X Keys : GaugeOf[p[1]] = g /\ p[2] \in failed[p[1]]}

\* Every gauge equals the number of keys its trackers hold as failing, however
\* often a key fails and whichever trackers share the gauge (metrics.go: "keeps
\* a gauge equal to their number").
GaugeCountsFailing == \A g \in Gauges : gauge[g] = Cardinality(FailingOn(g))
==============================================================================

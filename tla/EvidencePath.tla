---------------------------- MODULE EvidencePath ----------------------------
(***************************************************************************)
(* From what comes in to the trajectory of a cycle: the conversions of     *)
(* gcl/adapter/classification_adapter.py,                                  *)
(* gcl/adapter/deepfield_event_adapter.py and gcl/loop/signals.py, the     *)
(* requests of gcl/api/routes.py that use them, and the predictor.         *)
(* ControlPath goes on from the trajectory.                                *)
(***************************************************************************)
EXTENDS HorizonPredictor

CONSTANTS
  Requests,  \* the signals of a direct request
  Additional, \* the signals that come with classifications
  Records,   \* ClassificationRecords
  Batches,   \* how many of them come at once
  Events,    \* DeepField events
  Snapshots  \* what the metrics endpoint of the fleet may return

Absent == -1  \* a number that a snapshot does not have

Figure == Nat \union {Absent}

ClassFamilies  == {"slo", "capacity", "compliance", "semantic_tier", "other"}
SeverityScores == [info |-> 1, low |-> 3, medium |-> 5, high |-> 8, critical |-> 10]

ASSUME EvidenceAssumption ==
  /\ HorizonSteps \in Nat \ {0}
  /\ SpikeThreshold \in Nat \ {0, 1}
  /\ Requests \subseteq Seq([metric : STRING, value : Int, source : STRING])
  /\ Additional \subseteq Seq([metric : STRING, value : Int, source : STRING])
  /\ \A r \in Records :
       /\ r.family \in ClassFamilies
       /\ r.severity \in DOMAIN SeverityScores
       /\ r.confidence \in 0 .. 100
       /\ r.metric \in STRING
       /\ r.metrics \in Seq([name : STRING, value : Int, numeric : BOOLEAN])
  /\ Batches \subseteq Nat
  /\ Events \subseteq [type : STRING, metric : STRING, value : Int,
                       kind : {"number", "infinity", "truth", "other"},
                       confidence : 0 .. 100, time : Int]
  /\ \A e \in Events : e.kind = "truth" => e.value \in {0, 1}
  /\ \A s \in Snapshots :
       /\ s.models \in Seq([latency : Figure, replicas : Figure, rps : Figure])
       /\ s.commitRate \in Figure /\ s.entries \in Figure
       /\ s.tiers \in Seq([metric : STRING, ratio : 0 .. 100])

VARIABLES
  entry,       \* the endpoint that took the request
  evidence,    \* the signals of run_cycle
  trajectory

vars == <<entry, evidence, trajectory>>

(* event and the fields after it stand for the metadata of the producer.   *)
Evidence(metric, value, source) ==
  [metric |-> metric, value |-> value, source |-> source, forecast |-> FALSE,
   event |-> "none", numeric |-> FALSE, confidence |-> 0, at |-> 0]

-----------------------------------------------------------------------------
(* classification_to_evidence.                                             *)

(* The source of all evidence made from classifications.                   *)
DeepFieldSource == "deepfield-fleet"

(* The metric of a tier, or of a class of no family, carries its name.     *)
Score(metric, value) == Evidence(metric, value, DeepFieldSource)

FamilyEvidence(r) ==
  CASE r.family = "slo"           -> Score("slo_breach_severity", r.confidence)
    [] r.family = "capacity"      -> Score("capacity_pressure_score", r.confidence)
    [] r.family = "compliance"    -> Score("compliance_violation_flag", 100)
    [] r.family = "semantic_tier" -> Score(r.metric, r.confidence)
    [] r.family = "other"         ->
         Score(r.metric, (SeverityScores[r.severity] * r.confidence) \div 10)

(* A metric that is not a number is left out.                              *)
MetricEvidence(r) ==
  FlattenSeq([i \in DOMAIN r.metrics |->
    LET m == r.metrics[i]
    IN  IF m.numeric THEN <<Score(m.name, m.value)>> ELSE <<>>])

(* The forecast of an SLO class comes as a latency.                        *)
ForecastEvidence(r) ==
  FlattenSeq([i \in DOMAIN r.metrics |->
    LET m == r.metrics[i]
    IN  IF r.family = "slo" /\ m.name = "forecast_value" /\ m.numeric
          THEN <<[Score("latency_ms", m.value) EXCEPT !.forecast = TRUE]>>
          ELSE <<>>])

ClassificationEvidence(r) == <<FamilyEvidence(r)>> \o ForecastEvidence(r) \o MetricEvidence(r)

-----------------------------------------------------------------------------
(* deepfield_event_to_evidence: one piece of evidence for an event.  The   *)
(* value is what float() makes of it, 0 or 1 of a truth value and an       *)
(* infinity, for which any value stands here, of an infinity; what is      *)
(* neither of them nor a number becomes the confidence, or 0.  Only a      *)
(* number can be used as a forecast.                                       *)

EventEvidence(e) ==
  LET value == IF e.type \in {"observation", "forecast"} /\ e.kind # "other" THEN e.value
               ELSE IF e.type = "observation" THEN 0 ELSE e.confidence
  IN  [Evidence(e.metric, value, DeepFieldSource) EXCEPT
         !.event = e.type, !.numeric = (e.kind = "number"),
         !.confidence = e.confidence, !.at = e.time]

-----------------------------------------------------------------------------
(* FleetMetricsSignalSource: one reading for each model, all of one        *)
(* instant, and then the figures of the platform.                          *)

Reading(metric, value) ==
  IF value = Absent THEN <<>> ELSE <<Evidence(metric, value, "fleet_metrics")>>

ModelEvidence(model) ==
  Reading("latency_ms", model.latency) \o Reading("replicas", model.replicas)
    \o Reading("throughput_rps", model.rps)

SnapshotEvidence(s) ==
  FlattenSeq([i \in DOMAIN s.models |-> ModelEvidence(s.models[i])])
    \o Reading("governance_commit_rate", s.commitRate)
    \o [i \in DOMAIN s.tiers |-> Evidence(s.tiers[i].metric, s.tiers[i].ratio, "fleet_metrics")]
    \o Reading("ledger_total_entries", s.entries)

-----------------------------------------------------------------------------
(* Requests: two of them may carry signals of any metric and source.       *)

Measured(signals) ==
  [i \in DOMAIN signals |-> Evidence(signals[i].metric, signals[i].value, signals[i].source)]

RunCycle ==
  /\ entry = "none"
  /\ entry' = "cycle"
  /\ \E signals \in Requests : evidence' = Measured(signals)
  /\ UNCHANGED trajectory

(* Refused when neither the classifications nor the rest give evidence.    *)
ClassifyAndRun ==
  /\ entry = "none"
  /\ entry' = "classify-and-run"
  /\ \E n \in Batches, signals \in Additional :
       \E records \in [1 .. n -> Records] :
         evidence' = FlattenSeq([i \in 1 .. n |-> ClassificationEvidence(records[i])])
                       \o Measured(signals)
  /\ evidence' # <<>>
  /\ UNCHANGED trajectory

AcceptEvent ==
  /\ entry = "none"
  /\ entry' = "event"
  /\ \E e \in Events : evidence' = <<EventEvidence(e)>>
  /\ UNCHANGED trajectory

(* Refused when the snapshot, or the call for it, came to nothing.         *)
CycleFromMetrics ==
  /\ entry = "none"
  /\ entry' = "metrics"
  /\ \E s \in Snapshots : SnapshotEvidence(s) # <<>> /\ evidence' = SnapshotEvidence(s)
  /\ UNCHANGED trajectory

Nothing == Forecast("none", 0, 0, 0, 0)

PredictFrom ==
  /\ entry # "none" /\ trajectory = Nothing
  /\ trajectory' = Predict(evidence)
  /\ UNCHANGED <<entry, evidence>>

Init == entry = "none" /\ evidence = <<>> /\ trajectory = Nothing

Next == RunCycle \/ ClassifyAndRun \/ CycleFromMetrics \/ AcceptEvent \/ PredictFrom

Spec == Init /\ [][Next]_vars

-----------------------------------------------------------------------------
(* Properties.                                                             *)

Predicted == trajectory # Nothing
Latencies == OfMetric(evidence, "latency_ms")

(* How many samples there are of the metric of one.                        *)
SamplesLike(i) == Len(OfMetric(evidence, evidence[i].metric))

(* Trajectory and its points accept what the predictor computes: a         *)
(* confidence that is a share, at least one point, bounds around a value.  *)
TrajectoryAccepted ==
  Predicted =>
    /\ trajectory.points > 0
    /\ trajectory.confidence \in 0 .. 100
    /\ trajectory.spread \in 0 .. 10

(* What a plan may rest on: a trajectory that reaches the confidence floor *)
(* of the falsification gate, 50%, is a number that DeepField forecast, or *)
(* comes from five samples at least of the one metric that was looked at:  *)
(* the latencies if there are three, else a metric that no other outnum-   *)
(* bers (_select_primary_metric).  Whatever comes as words where a number  *)
(* is expected never gets there, nor do five samples of a metric that      *)
(* three latencies go before.                                              *)
ConfidenceEarned ==
  Predicted /\ trajectory.confidence >= 50 =>
    \/ trajectory.shape = "deepfield" /\ entry = "event" /\ evidence[1].numeric
    \/ \E i \in DOMAIN evidence :
         /\ SamplesLike(i) >= 5
         /\ IF Len(Latencies) >= 3 THEN evidence[i].metric = "latency_ms"
            ELSE \A j \in DOMAIN evidence : SamplesLike(j) <= SamplesLike(i)

(* One latency far above all others is foreseen as a spike of its full     *)
(* height, wherever it came in the request, and never averaged into a      *)
(* trend; only when the others, none of them negative, are all zero is     *)
(* there nothing to compare it with (_detect_spike).                       *)
SpikeForeseen ==
  Predicted /\ SpikeThreshold <= 4 /\ Len(Latencies) >= 3 =>
    \A i \in DOMAIN Latencies :
      LET peak   == Latencies[i].value
          others == DOMAIN Latencies \ {i}
      IN  /\ peak > 5
          /\ \A j \in others : 4 * Latencies[j].value < peak
          /\ \A j \in others : Latencies[j].value >= 0
          /\ \E j \in others : Latencies[j].value > 0
          => trajectory.shape = "spike" /\ trajectory.first = peak

(* "classification-backed predictions are high confidence"                 *)
(* (predictor.py:39): when classifications bring the forecast of an SLO,   *)
(* and no forecast of DeepField goes before it, the trajectory rises to it *)
(* with 85%.  The adapter names another source than the one that predict   *)
(* looks for, so that the forecast counts as one latency sample more.      *)
ForecastUsed ==
  /\ Predicted
  /\ \E i \in DOMAIN evidence : evidence[i].forecast
  /\ ~ \E i \in DOMAIN evidence : Usable(evidence[i])
  => trajectory.shape = "rising" /\ trajectory.confidence = 85

=============================================================================

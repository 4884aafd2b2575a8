--------------------------- MODULE MCEvidencePath ---------------------------
(* Small requests of every kind: see MCEvidencePath.cfg.                   *)
EXTENDS EvidencePath

(* Values of one metric and source.                                        *)
MCOf(metric, source, values) ==
  [i \in DOMAIN values |-> [metric |-> metric, value |-> values[i], source |-> source]]

(* Up to five latencies, ten of two values, and more than ten that hardly  *)
(* vary: flat, noisy, with peaks.  The source is the one that predict      *)
(* looks for in a classification's forecast.                               *)
MCLatencies ==
  {MCOf("latency_ms", "classification_metrics", values) : values \in
     UNION {[1 .. n -> {-1, 0, 1, 2, 9}] : n \in 0 .. 5}
       \union [1 .. 10 -> {2, 3}] \union [1 .. 10 -> {1, 9}] \union {[i \in 1 .. 11 |-> 9]}}

(* Some latencies next to samples of another metric.                       *)
MCMixed ==
  {MCOf("latency_ms", "deepfield-fleet", a) \o MCOf("queue_depth", "prometheus", b) :
     a \in UNION {[1 .. n -> {1, 9}] : n \in 1 .. 3},
     b \in UNION {[1 .. n -> {5, 6}] : n \in {1, 3, 5}}}

MCRequests == MCLatencies \union MCMixed

MCAdditional ==
  {<<>>, MCOf("latency_ms", "api", <<9>>),
   MCOf("queue_depth", "deepfield-fleet", <<5, 5, 5, 5, 6>>)}

MCMetric(name, value, numeric) == [name |-> name, value |-> value, numeric |-> numeric]

MCRecord(family, confidence, metrics) ==
  [family |-> family, severity |-> "high", confidence |-> confidence, metrics |-> metrics,
   metric |-> IF family = "other" THEN "classification_anomaly" ELSE "semantic_tier_simple_ratio"]

MCRecords ==
  {MCRecord("slo", 90, <<MCMetric("forecast_value", 6, TRUE)>>),
   MCRecord("slo", 80, <<MCMetric("forecast_value", 0, FALSE), MCMetric("latency_ms", 2, TRUE)>>),
   MCRecord("capacity", 70, <<>>),
   MCRecord("compliance", 70, <<MCMetric("latency_ms", 1, TRUE)>>),
   MCRecord("semantic_tier", 60, <<>>),
   MCRecord("other", 50, <<>>)}

MCEvent(type, metric, value, kind, confidence) ==
  [type |-> type, metric |-> metric, value |-> value, kind |-> kind,
   confidence |-> confidence, time |-> 1]

MCEvents ==
  {MCEvent(type, "latency_ms", value, kind, confidence) :
     type \in {"observation", "finding", "forecast", "remediation"},
     value \in {0, 9}, kind \in {"number", "infinity", "other"}, confidence \in {40, 90}}
    \union {MCEvent(type, "latency_ms", 1, "truth", 90) : type \in {"observation", "forecast"}}

MCModel(latency, rps) == [latency |-> latency, replicas |-> 2, rps |-> rps]

(* Snapshots of up to five models, and of none.                            *)
MCModels == {MCModel(2, 30), MCModel(9, 40), MCModel(Absent, 30)}

MCSnapshots ==
  {[models |-> models, commitRate |-> 50, entries |-> 7,
    tiers |-> <<[metric |-> "semantic_tier_simple_ratio", ratio |-> 60]>>] :
     models \in UNION {[1 .. n -> MCModels] : n \in 0 .. 5}}
    \union {[models |-> <<>>, commitRate |-> Absent, entries |-> Absent, tiers |-> <<>>]}
=============================================================================

---------------------------- MODULE MCControlPath ----------------------------
(* The control path on small inputs: see MCControlPath*.cfg.  Unit is 10,  *)
(* as the shipped rules need: severities and pressures are tenths.         *)
EXTENDS ControlPath, TLC

MCMetrics == {"latency_ms", "max_replicas", "slo_breach_severity",
              "capacity_pressure_score", "compliance_violation_flag"}

(* The shipped rules that name these metrics, with a latency threshold of  *)
(* 5 for 5000, and the maintenance window shipped as a comment.            *)
RuleOf(metric, op, threshold, type) ==
  [metric |-> metric, operator |-> op, threshold |-> threshold, type |-> type, hard |-> TRUE]
MCRules ==
  {RuleOf("latency_ms", "gt", 50, "latency"),
   RuleOf("slo_breach_severity", "gt", 6, "latency"),
   RuleOf("capacity_pressure_score", "gt", 7, "capacity"),
   RuleOf("compliance_violation_flag", "eq", 10, "compliance"),
   RuleOf("_time", "time_between", 0, "custom")}

(* Readings that set the rules off, and capacities of 1, 2.5 and 4.        *)
Reading(metric, value) == [metric |-> metric, value |-> value]
MCReadings ==
  {Reading("latency_ms", 60), Reading("max_replicas", 10), Reading("max_replicas", 25),
   Reading("max_replicas", 40), Reading("slo_breach_severity", 8),
   Reading("capacity_pressure_score", 8), Reading("compliance_violation_flag", 10)}
MCEvidence == {E \in SUBSET MCReadings : Cardinality(E) <= 3}

(* A model may name any number, a negative one too.                        *)
MCLeast == -100

Named(type, bound, hard) ==
  [type |-> type, bound |-> bound, hard |-> hard, source |-> "llm"]
MCReplies ==
  {{}, {Named("latency", 40, TRUE)}, {Named("latency", 0, TRUE)},
   {Named("latency", -10, TRUE)},
   {Named("capacity", 20, TRUE)}, {Named("capacity", 100, TRUE)},
   {Named("compliance", 0, FALSE)}, {Named("custom", 0, TRUE)}}

(* Two-step horizons: calm, near the bound, over it, far over it.          *)
MCPoints == {30, 45, 75, 125, 300}
MCTrajectories ==
  {[points |-> <<p, q>>, confident |-> sure] :
     p \in MCPoints, q \in {45, 125}, sure \in BOOLEAN}
=============================================================================

-------------------------- MODULE MCDeepFieldIngress --------------------------
(* The ingress on a small instance: see MCDeepFieldIngress.cfg.            *)
EXTENDS DeepFieldIngress, TLC

MCEvent(key, type, expires) ==
  [key |-> key, correlation |-> "incident", type |-> type, schema |-> type, time |-> 0,
   payloadTime |-> 0, expires |-> expires, validUntil |-> expires, horizon |-> 1,
   trusted |-> TRUE, evidenced |-> TRUE]

(* Two events of one incident: the forecast looks less far ahead than it   *)
(* is valid, and the finding expires between two seconds.  Two that are to *)
(* be refused: a forecast that is valid beyond its event, and an event of  *)
(* a source that is not trusted.                                           *)
MCForecast == MCEvent("forecast-1", "forecast", 4)

MCEvents ==
  {MCEvent("finding-1", "finding", 3), MCForecast,
   [MCForecast EXCEPT !.key = "forecast-2", !.validUntil = 6],
   [MCForecast EXCEPT !.key = "forecast-3", !.trusted = FALSE]}

MCSymmetry == Permutations(Cycles)
=============================================================================

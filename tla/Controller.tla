----------------------------- MODULE Controller -----------------------------
(***************************************************************************)
(* Controller.optimize (gcl/controller/controller.py) and the functions of *)
(* gcl/controller/optimizer.py it is made of.  The objective's weights and *)
(* the soft constraints are passed around and never read.                  *)
(***************************************************************************)
EXTENDS Contracts

(* ceil(a / b) for b # 0.                                                  *)
CeilDiv(a, b) == IF b > 0 THEN -((-a) \div b) ELSE -(a \div (-b))

(* The tightest bound of a type.                                           *)
LowestBound(constraints, type) ==
  LET bounds == {c.bound : c \in OfType(constraints, type)}
  IN  CHOOSE b \in bounds : \A d \in bounds : b <= d

LatencyTarget(hard) == LowestBound(hard, "latency")
MaxReplicas(hard)   == LowestBound(hard, "capacity")
Capped(hard)        == OfType(hard, "capacity") # {}

NoAction == Asks("no_action", 0)

(* int(np.ceil(value / target)) up to the configured maximum, and a        *)
(* rounding that is one short unless the ratio is whole.                   *)
DesiredScaleRoundedDown(value, target) ==
  LET scale == IF target > 0 THEN value \div target ELSE CeilDiv(value, target)
  IN  IF scale > MaxScale THEN MaxScale ELSE scale

DesiredScale(value, target) ==
  LET scale == CeilDiv(value, target)
  IN  IF scale > MaxScale THEN MaxScale ELSE scale

(* _can_satisfy_with_alternatives: latency at full capacity is estimated   *)
(* as value / max_replicas.  Bound and its mutant where any capacity will  *)
(* do.                                                                     *)
CanSatisfyNever(value, target, max) == FALSE

CanSatisfy(value, target, max) == max > 0 /\ value * Unit <= target * max

(* The answer to a value over the target, and the one that never sheds.    *)
RelieveByScaling(value, hard) == Asks("scale", DesiredScale(value, LatencyTarget(hard)))

Relieve(value, hard) ==
  LET desired == DesiredScale(value, LatencyTarget(hard))
      max     == MaxReplicas(hard)
  IN  IF ~Capped(hard) \/ desired * Unit <= max THEN Asks("scale", desired)
      ELSE IF CanSatisfy(value, LatencyTarget(hard), max) THEN Asks("scale", max \div Unit)
      ELSE Asks("shed_load", 0)

(* compute_action_for_step: a custom constraint blocks every action,       *)
(* compliance comes before latency.                                        *)
ComputeAction(value, hard) ==
  IF OfType(hard, "custom") # {} THEN NoAction
  ELSE IF OfType(hard, "compliance") # {}
    THEN IF Capped(hard) /\ MaxReplicas(hard) <= Unit
           THEN Asks("migrate", 0) ELSE Asks("alert", 0)
  ELSE IF OfType(hard, "latency") = {} THEN NoAction
  ELSE IF value > LatencyTarget(hard) THEN Relieve(value, hard)
  ELSE IF 10 * value > 8 * LatencyTarget(hard) THEN Asks("pre_warm", 2)
  ELSE NoAction

(* A target of 0 is divided by.                                            *)
Raises(value, hard) ==
  /\ OfType(hard, "custom") = {} /\ OfType(hard, "compliance") = {}
  /\ OfType(hard, "latency") # {}
  /\ LatencyTarget(hard) = 0 /\ value > 0

(* check_hard_constraint_satisfaction.                                     *)
Satisfies(action, hard) ==
  /\ OfType(hard, "compliance") # {} => action.type \notin {"scale", "pre_warm"}
  /\ action.type \in {"scale", "pre_warm"} =>
       \A c \in OfType(hard, "capacity") : action.replicas * Unit <= c.bound

Infeasible == <<>>

(* optimize: the first step must satisfy the hard constraints or there is  *)
(* no plan; a later step that does not is replaced.  Only the first step   *)
(* is ever committed.  Plausible bug: the later step is dropped.           *)
OptimizeDropping(points, constraints) ==
  LET hard == Hard(constraints)
      steps == [i \in 1 .. Len(points) |-> ComputeAction(points[i], hard)]
  IN  IF points = <<>> \/ ~Satisfies(steps[1], hard) THEN Infeasible
      ELSE SelectSeq(steps, LAMBDA step : Satisfies(step, hard))

Optimize(points, constraints) ==
  LET hard == Hard(constraints)
      step(i) == ComputeAction(points[i], hard)
  IN  IF points = <<>> \/ ~Satisfies(step(1), hard) THEN Infeasible
      ELSE [i \in 1 .. Len(points) |->
              IF Satisfies(step(i), hard) THEN step(i) ELSE NoAction]

OptimizeRaises(points, constraints) ==
  \E i \in 1 .. Len(points) : Raises(points[i], Hard(constraints))

=============================================================================

------------------------------ MODULE Contracts ------------------------------
(***************************************************************************)
(* The data contracts of gcl/domain/contracts.py that pass between the     *)
(* classifier, the predictor, the controller and the falsification gate.   *)
(*                                                                         *)
(* Measured values and bounds are floats in the code.  Here they are       *)
(* integers counting 1/Unit, so that a bound of 0.7 replicas, which the    *)
(* shipped rules produce, is the number 7 when Unit = 10; replicas are     *)
(* counted in whole units.  Lists that the code only searches, or takes    *)
(* the least of, are sets.                                                 *)
(***************************************************************************)
EXTENDS Integers, Sequences, FiniteSets

CONSTANTS
  Metrics,     \* names of the metrics that evidence may carry
  Unit,        \* values and bounds are multiples of 1/Unit
  LeastBound,  \* the least number a float can hold
  MaxScale     \* max_scale_replicas of the settings (gcl/config.py)

ASSUME ContractsAssumption ==
  /\ "max_replicas" \in Metrics
  /\ Unit \in Nat \ {0}
  /\ LeastBound \in Int
  /\ MaxScale \in Nat \ {0}

Number == {x \in Int : x >= LeastBound}

Evidence == [metric : Metrics, value : Number]

(* No component looks at the types priority and residency: "budget" stands *)
(* for them too.                                                           *)
ConstraintTypes == {"capacity", "latency", "compliance", "budget", "custom"}

Constraint ==
  [type : ConstraintTypes, bound : Number, hard : BOOLEAN,
   source : {"deterministic", "llm"}]

(* What the controller is told of the future: a value for each step of the *)
(* horizon, and whether the confidence reaches the gate's floor.           *)
Trajectory == [points : Seq(Number), confident : BOOLEAN]

(* replicas is the parameter of that name of a scale, the target_replicas  *)
(* of a pre_warm, and 0 for the other types, which have neither.           *)
ActionStep == [type : {"scale", "pre_warm", "shed_load", "migrate", "alert", "no_action"},
               replicas : Int]

Asks(type, replicas) == [type |-> type, replicas |-> replicas]

Hard(constraints) == {c \in constraints : c.hard}
OfType(constraints, type) == {c \in constraints : c.type = type}

=============================================================================

---------------------------- MODULE ControlPath ----------------------------
(***************************************************************************)
(* What a cycle computes between its ledger writes: evidence, constraints, *)
(* trajectory, plan and verdict, in the order run_cycle produces them      *)
(* (gcl/loop/driver.py 84-213).  LoopDriver has the writes, the awaits and *)
(* the other cycles, and leaves plan and verdict open; this module has the *)
(* data.  Any trajectory may follow; EvidencePath says where one comes     *)
(* from.                                                                   *)
(***************************************************************************)
EXTENDS ConstraintClassifier, Controller, FalsificationGate

CONSTANTS
  EvidenceSets,   \* the evidence a cycle may be called with
  ModelReplies,   \* the constraints a model may name
  Trajectories    \* what the predictor may foresee

ASSUME ControlPathAssumption ==
  /\ EvidenceSets \subseteq SUBSET Evidence
  /\ ModelReplies \subseteq SUBSET {c \in Constraint : c.source = "llm"}
  /\ Trajectories \subseteq {t \in Trajectory : t.points # <<>>}

VARIABLES
  stage,         \* the last component that has run
  evidence,      \* signals
  constraints,
  trajectory,
  plan,          \* ActionPlan.steps, or Infeasible
  failedCheck,   \* FalsificationResult.failed_check, "none" if it survives
  adversary      \* history variable: what the adversary's model said

vars == <<stage, evidence, constraints, trajectory, plan, failedCheck, adversary>>

NoTrajectory == [points |-> <<>>, confident |-> FALSE]

Init ==
  /\ stage = "idle"
  /\ evidence = {}
  /\ constraints = {}
  /\ trajectory = NoTrajectory
  /\ plan = Infeasible
  /\ failedCheck = "none"
  /\ adversary = "silent"

Measure ==
  /\ stage = "idle"
  /\ stage' = "measured"
  /\ evidence' \in EvidenceSets
  /\ UNCHANGED <<constraints, trajectory, plan, failedCheck, adversary>>

ClassifyEvidence ==
  /\ stage = "measured"
  /\ stage' = "classified"
  /\ \E open \in SUBSET {r \in Rules : r.operator = "time_between"}, reply \in ModelReplies :
       constraints' = Classify(evidence, open, reply)
  /\ UNCHANGED <<evidence, trajectory, plan, failedCheck, adversary>>

Predict ==
  /\ stage = "classified"
  /\ stage' = "predicted"
  /\ trajectory' \in Trajectories
  /\ UNCHANGED <<evidence, constraints, plan, failedCheck, adversary>>

Plan ==
  /\ stage = "predicted"
  /\ IF OptimizeRaises(trajectory.points, constraints)
       THEN stage' = "raised" /\ UNCHANGED plan
       ELSE /\ stage' = "planned"
            /\ plan' = Optimize(trajectory.points, constraints)
  /\ UNCHANGED <<evidence, constraints, trajectory, failedCheck, adversary>>

(* run_cycle takes no other action type to the gate.                       *)
Consequential == plan # Infeasible /\ plan[1].type \notin {"no_action", "alert"}

Falsify ==
  /\ stage = "planned"
  /\ Consequential
  /\ \E reply \in AdversaryReplies :
       /\ adversary' = reply
       /\ IF FalsifyRaises(plan[1], evidence, constraints, trajectory, reply)
            THEN stage' = "raised" /\ UNCHANGED failedCheck
            ELSE /\ stage' = "judged"
                 /\ failedCheck' = FailedCheck(plan[1], evidence, constraints, trajectory, reply)
  /\ UNCHANGED <<evidence, constraints, trajectory, plan>>

(* The cycle is over, and the next one starts from nothing.                *)
Finish ==
  /\ stage \in {"judged", "raised"} \/ (stage = "planned" /\ ~Consequential)
  /\ stage' = "idle"
  /\ evidence' = {}
  /\ constraints' = {}
  /\ trajectory' = NoTrajectory
  /\ plan' = Infeasible
  /\ failedCheck' = "none"
  /\ adversary' = "silent"

Next == Measure \/ ClassifyEvidence \/ Predict \/ Plan \/ Falsify \/ Finish

Spec == Init /\ [][Next]_vars

-----------------------------------------------------------------------------
(* Properties.                                                             *)

Stages == {"idle", "measured", "classified", "predicted", "planned", "judged", "raised"}

(* Types; a plan has a step for each point of the trajectory.              *)
ControlTypeOK ==
  /\ stage \in Stages
  /\ evidence \subseteq Evidence
  /\ constraints \subseteq Constraint
  /\ trajectory \in Trajectory
  /\ plan \in Seq(ActionStep)
  /\ plan # Infeasible => Len(plan) = Len(trajectory.points)
  /\ failedCheck \in CheckNames \union {"none", "llm_adversarial_probe"}
  /\ adversary \in AdversaryReplies

Planned == stage \in {"planned", "judged"} /\ plan # Infeasible

(* The rules that the evidence sets off, read from the evidence itself.    *)
Fires(rule) == rule.hard /\ \E e \in evidence : Matches(rule, e)

(* Whatever a model says -- constraints, objective, objections -- no step  *)
(* of a plan asks for more replicas than the max_replicas readings and the *)
(* hard capacity rules set off by the evidence allow, or scales under a    *)
(* hard compliance rule; and no scale exceeds max_scale_replicas           *)
(* (Controller.optimize, ConstraintClassifier.classify).                   *)
GovernedByEvidence ==
  Planned => \A i \in DOMAIN plan :
    LET action == plan[i]
    IN  /\ action.type = "scale" => action.replicas <= MaxScale
        /\ action.type \in {"scale", "pre_warm"} =>
             /\ \A e \in evidence :
                  e.metric = "max_replicas" => action.replicas * Unit <= e.value
             /\ \A rule \in Rules : Fires(rule) =>
                  /\ rule.type = "capacity" => action.replicas * Unit <= rule.threshold
                  /\ rule.type # "compliance"

(* The gate and the controller agree on the limits, though each reads them *)
(* by itself: of the deterministic checks only the confidence ever rejects *)
(* what the controller selects, and what passes is rejected just when the  *)
(* adversary names a flaw with a reason -- a flaw whose reason is null is  *)
(* taken for none (FalsificationGate.falsify, LLMAdversary.probe).         *)
GateAgrees ==
  /\ failedCheck \in {"none", "low_prediction_confidence", "llm_adversarial_probe"}
  /\ stage = "judged" /\ failedCheck # "low_prediction_confidence" =>
       (failedCheck = "llm_adversarial_probe" <=> adversary = "flaw")

(* Load is shed only when the predicted latency is over a hard bound and   *)
(* even all the replicas of a hard capacity bound would not bring it back  *)
(* under it (compute_action_for_step).                                     *)
ShedOnlyWhenExhausted ==
  Planned => \A i \in DOMAIN plan : plan[i].type = "shed_load" =>
    \E l \in OfType(Hard(constraints), "latency"), k \in OfType(Hard(constraints), "capacity") :
      /\ trajectory.points[i] > l.bound
      /\ k.bound <= 0 \/ trajectory.points[i] * Unit > l.bound * k.bound

(* A predicted breach of a hard latency bound is answered: unless a        *)
(* compliance or custom constraint forbids it, the plan exists and sheds   *)
(* load or scales -- to one replica at least, whatever fraction of one the *)
(* capacity bounds leave, as long as no model names a latency bound that   *)
(* is negative (Controller.optimize).                                      *)
BreachAnswered ==
  (/\ stage \in {"planned", "judged"}
   /\ \E l \in OfType(Hard(constraints), "latency") : trajectory.points[1] > l.bound
   /\ OfType(Hard(constraints), "compliance") \union OfType(Hard(constraints), "custom") = {})
  => /\ plan # Infeasible
     /\ \/ plan[1].type = "shed_load"
        \/ /\ plan[1].type = "scale"
           /\ (\A l \in OfType(Hard(constraints), "latency") : l.bound > 0)
                => plan[1].replicas >= 1

(* A scale is enough: the estimated latency, the predicted one shared out  *)
(* over the replicas asked for, is under every hard latency bound, unless  *)
(* one replica more would exceed a hard capacity bound or the configured   *)
(* maximum (compute_action_for_step).  Where a model has named a negative  *)
(* bound nothing can be enough, and the scale asked for is negative.       *)
ScaleSuffices ==
  (Planned /\ \A l \in OfType(Hard(constraints), "latency") : l.bound > 0) =>
  \A i \in DOMAIN plan : plan[i].type = "scale" =>
    LET replicas == plan[i].replicas
    IN  \/ \A l \in OfType(Hard(constraints), "latency") :
             trajectory.points[i] <= replicas * l.bound
        \/ replicas >= MaxScale
        \/ \E k \in OfType(Hard(constraints), "capacity") : (replicas + 1) * Unit > k.bound

=============================================================================

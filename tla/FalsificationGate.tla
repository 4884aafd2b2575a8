-------------------------- MODULE FalsificationGate --------------------------
(***************************************************************************)
(* FalsificationGate.falsify (gcl/falsification/gate.py), its checks       *)
(* (checks.py) and the LLMAdversary.  No action of the controller carries  *)
(* assumed_warmup_seconds, and the parameters of shed_load and migrate are *)
(* the controller's own, so the checks of warm-up, shed_load and migration *)
(* look at constants.                                                      *)
(***************************************************************************)
EXTENDS Contracts

(* The parameters of the controller's shed_load and migrate steps.         *)
ShedInflight == 50
ShedSeconds  == 300
MigrateTo    == "sovereign"

(* requested = replicas or target_replicas: a count of 0 is no request.    *)
Requests(action) == action.type \in {"scale", "pre_warm"} /\ action.replicas # 0

CapacityAvailable(action, evidence, constraints) ==
  Requests(action) =>
    /\ \A c \in OfType(Hard(constraints), "capacity") : action.replicas * Unit <= c.bound
    /\ \A e \in evidence : e.metric = "max_replicas" => action.replicas * Unit <= e.value

ScaleMagnitudeReasonable(action) ==
  action.type = "scale" => action.replicas <= MaxScale

ComplianceActionValid(action, constraints) ==
  OfType(Hard(constraints), "compliance") # {} => action.type \notin {"scale", "pre_warm"}

ShedLoadBounded(action) ==
  action.type = "shed_load" => ShedInflight > 0 /\ ShedSeconds \in 1 .. 3600

MigrationTargetAvailable(action) ==
  action.type = "migrate" => MigrateTo # ""

(* What the model answers when it is asked to argue against the action:    *)
(* nothing that parses (or there is no model), that the action is sound, a *)
(* flaw with its reason, a flaw whose reason is null, a flaw whose reason  *)
(* is not a string, or no answer at all.                                   *)
AdversaryReplies == {"silent", "sound", "flaw", "null_reason", "odd_reason", "error"}

(* probe: the reason is what data.get("reason", default) returns.          *)
Probed(reply) == reply \in {"flaw", "odd_reason"}

CheckNames ==
  {"capacity_overcommit", "scale_magnitude_unreasonable", "low_prediction_confidence",
   "compliance_action_invalid", "shed_load_unbounded", "migration_target_missing"}

(* The deterministic checks that fail, and failed_check: the first of them *)
(* in the gate's order, or the adversary's objection, or none.             *)
Failing(action, evidence, constraints, trajectory) ==
  {check \in CheckNames :
     \/ check = "capacity_overcommit" /\ ~CapacityAvailable(action, evidence, constraints)
     \/ check = "scale_magnitude_unreasonable" /\ ~ScaleMagnitudeReasonable(action)
     \/ check = "low_prediction_confidence" /\ ~trajectory.confident
     \/ check = "compliance_action_invalid" /\ ~ComplianceActionValid(action, constraints)
     \/ check = "shed_load_unbounded" /\ ~ShedLoadBounded(action)
     \/ check = "migration_target_missing" /\ ~MigrationTargetAvailable(action)}

CheckOrder ==
  <<"capacity_overcommit", "scale_magnitude_unreasonable", "low_prediction_confidence",
    "compliance_action_invalid", "shed_load_unbounded", "migration_target_missing">>

FirstOf(failing) ==
  LET i == CHOOSE k \in 1 .. Len(CheckOrder) :
             /\ CheckOrder[k] \in failing
             /\ \A j \in 1 .. k - 1 : CheckOrder[j] \notin failing
  IN  CheckOrder[i]

FailedCheck(action, evidence, constraints, trajectory, reply) ==
  LET failing == Failing(action, evidence, constraints, trajectory)
  IN  IF failing # {} THEN FirstOf(failing)
      ELSE IF Probed(reply) THEN "llm_adversarial_probe"
      ELSE "none"

(* The adversary is reached only by an action that passes the checks; then *)
(* a failing model call raises, and so does a result whose reasoning is    *)
(* not a string.                                                           *)
FalsifyRaises(action, evidence, constraints, trajectory, reply) ==
  /\ Failing(action, evidence, constraints, trajectory) = {}
  /\ reply \in {"odd_reason", "error"}

=============================================================================

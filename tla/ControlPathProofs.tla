-------------------------- MODULE ControlPathProofs --------------------------
(***************************************************************************)
(* What holds of the control path for every set of rules, every evidence,  *)
(* every answer of a model and every trajectory.  One theorem for each     *)
(* invariant that MCControlPath checks.                                    *)
(***************************************************************************)
EXTENDS ControlPath, Arithmetic

USE DEF Infeasible

-----------------------------------------------------------------------------
(* Lemmas about the controller.                                            *)

(* LowestBound is a bound of the type, and none is lower.                  *)
LEMMA LowestIsLeast ==
  ASSUME NEW C \in SUBSET Constraint, NEW type, OfType(C, type) # {}
  PROVE  /\ LowestBound(C, type) \in Int
         /\ \E c \in OfType(C, type) : c.bound = LowestBound(C, type)
         /\ \A c \in OfType(C, type) : LowestBound(C, type) <= c.bound
<1> DEFINE bounds == {c.bound : c \in OfType(C, type)}
<1>1. bounds \in SUBSET Int /\ bounds # {} /\ \A b \in bounds : LeastBound <= b
  BY DEF OfType, Constraint, Number
<1>2. LeastBound \in Int
  BY ContractsAssumption
<1>3. \E b \in bounds : \A d \in bounds : b <= d
  <2> HIDE DEF bounds
  <2> QED
    BY <1>1, <1>2, LeastInteger
<1>4. LowestBound(C, type) = CHOOSE b \in bounds : \A d \in bounds : b <= d
  BY DEF LowestBound
<1>5. LowestBound(C, type) \in bounds /\ \A d \in bounds : LowestBound(C, type) <= d
  <2> HIDE DEF bounds
  <2> QED
    BY <1>3, <1>4
<1> QED
  BY <1>1, <1>5

(* The scale asked for is a number up to the maximum, and it is enough or  *)
(* it is the maximum (np.ceil, min).                                       *)
LEMMA DesiredScaleBounds ==
  ASSUME NEW value \in Int, NEW target \in Int, target # 0
  PROVE  /\ DesiredScale(value, target) \in Int
         /\ DesiredScale(value, target) <= MaxScale
         /\ target > 0 => \/ value <= DesiredScale(value, target) * target
                          \/ DesiredScale(value, target) = MaxScale
<1>1. MaxScale \in Nat
  BY ContractsAssumption
<1>2. CeilDiv(value, target) \in Int
  <2>1. CASE target > 0
    BY <2>1, DivBounds DEF CeilDiv
  <2>2. CASE target < 0
    BY <2>2, DivBounds DEF CeilDiv
  <2> QED
    BY <2>1, <2>2
<1>3. ASSUME target > 0  PROVE value <= CeilDiv(value, target) * target
  <2> DEFINE q == (-value) \div target
  <2>1. q \in Int /\ q * target <= -value
    BY <1>3, DivBounds
  <2>2. CeilDiv(value, target) = -q
    BY <1>3 DEF CeilDiv
  <2> HIDE DEF q
  <2> QED
    BY <2>1, <2>2
<1> QED
  BY <1>1, <1>2, <1>3 DEF DesiredScale

(* The answer to a value over the target: within the maximum and every     *)
(* capacity; a scale is enough unless it is the most there can be; load is *)
(* shed only when all the capacity is not enough.                          *)
LEMMA RelieveBounds ==
  ASSUME NEW hard \in SUBSET Constraint, NEW value \in Int,
         OfType(hard, "latency") # {}, LatencyTarget(hard) # 0
  PROVE  LET action == Relieve(value, hard)
         IN  /\ action \in ActionStep
             /\ action.type \in {"scale", "shed_load"}
             /\ action.type = "scale" =>
                  /\ action.replicas <= MaxScale
                  /\ Capped(hard) => action.replicas * Unit <= MaxReplicas(hard)
                  /\ LatencyTarget(hard) > 0 /\ value > LatencyTarget(hard) =>
                       action.replicas >= 1
                  /\ LatencyTarget(hard) > 0 =>
                       \/ value <= action.replicas * LatencyTarget(hard)
                       \/ action.replicas = MaxScale
                       \/ Capped(hard) /\ (action.replicas + 1) * Unit > MaxReplicas(hard)
             /\ action.type = "shed_load" =>
                  /\ Capped(hard)
                  /\ \/ MaxReplicas(hard) <= 0
                     \/ value * Unit > LatencyTarget(hard) * MaxReplicas(hard)
<1> DEFINE target  == LatencyTarget(hard)
           desired == DesiredScale(value, target)
           max     == MaxReplicas(hard)
           action  == Relieve(value, hard)
<1>1. target \in Int /\ target # 0
  BY LowestIsLeast DEF LatencyTarget
<1>2. /\ desired \in Int /\ desired <= MaxScale
      /\ target > 0 => value <= desired * target \/ desired = MaxScale
  <2> HIDE DEF target
  <2> QED
    BY <1>1, DesiredScaleBounds
<1>3. Capped(hard) => max \in Int
  BY LowestIsLeast DEF Capped, MaxReplicas
<1>4. Unit \in Nat \ {0} /\ MaxScale \in Nat \ {0}
  BY ContractsAssumption
<1> HIDE DEF target, desired, max
<1>a. ASSUME target > 0, value > target  PROVE desired >= 1
  <2>1. CASE desired = MaxScale
    BY <1>4, <2>1
  <2>2. CASE value <= desired * target
    <3>1. 0 * target < desired * target
      BY <1>1, <1>2, <1>a, <2>2
    <3> QED
      BY <3>1, <1>1, <1>2, <1>a, CancelFactor
  <2> QED
    BY <1>2, <1>a, <2>1, <2>2
<1>5. CASE ~Capped(hard) \/ desired * Unit <= max
  <2>1. action = Asks("scale", desired)
    BY <1>5 DEF Relieve, desired, target, max
  <2>2. action \in ActionStep /\ action.type = "scale" /\ action.replicas = desired
    BY <2>1, <1>2 DEF Asks, ActionStep
  <2> HIDE DEF action
  <2> QED
    BY <2>2, <1>2, <1>5, <1>a DEF target, max, action
<1>6. CASE /\ Capped(hard) /\ ~(desired * Unit <= max)
           /\ CanSatisfy(value, target, max)
  <2> DEFINE room == max \div Unit
  <2>1. action = Asks("scale", room)
    BY <1>6 DEF Relieve, desired, target, max
  <2>2. room \in Int /\ room * Unit <= max /\ max < (room + 1) * Unit
    BY <1>3, <1>4, <1>6, DivBounds
  <2> HIDE DEF room
  <2>3. room < desired
    <3>1. room * Unit < desired * Unit
      <4>1. max \in Int /\ desired * Unit \in Int /\ room * Unit \in Int
        BY <1>2, <1>3, <1>4, <1>6, <2>2
      <4> QED
        BY <4>1, <1>6, <2>2
    <3> QED
      BY <3>1, <1>2, <1>4, <2>2, CancelFactor
  <2>4. room <= MaxScale
    BY <1>2, <1>4, <2>2, <2>3
  <2>5. (room + 1) * Unit > max
    BY <1>3, <1>4, <1>6, <2>2
  <2>6. action \in ActionStep /\ action.type = "scale" /\ action.replicas = room
    BY <2>1, <2>2 DEF Asks, ActionStep
  <2>7. ASSUME target > 0, value > target  PROVE room >= 1
    <3>1. max > 0 /\ value * Unit <= target * max
      BY <1>6 DEF CanSatisfy
    <3>2. target * Unit < value * Unit
      BY <1>1, <1>4, <2>7
    <3>3. Unit * target < max * target
      BY <1>1, <1>3, <1>4, <1>6, <3>1, <3>2
    <3>4. Unit < max
      BY <1>1, <1>3, <1>4, <1>6, <2>7, <3>3, CancelFactor
    <3>5. 1 * Unit < (room + 1) * Unit
      BY <1>3, <1>4, <1>6, <2>2, <3>4
    <3>6. 1 < room + 1
      BY <1>4, <2>2, <3>5, CancelFactor
    <3> QED
      BY <2>2, <3>6
  <2> HIDE DEF action
  <2> QED
    BY <1>6, <2>2, <2>4, <2>5, <2>6, <2>7 DEF target, max, action
<1>7. CASE /\ Capped(hard) /\ ~(desired * Unit <= max)
           /\ ~CanSatisfy(value, target, max)
  <2>1. action = Asks("shed_load", 0)
    BY <1>7 DEF Relieve, desired, target, max
  <2>2. max <= 0 \/ value * Unit > target * max
    <3>1. max \in Int /\ value * Unit \in Int /\ target * max \in Int
      BY <1>1, <1>3, <1>4, <1>7
    <3> QED
      BY <3>1, <1>7 DEF CanSatisfy
  <2> QED
    BY <2>1, <2>2, <1>7 DEF Asks, ActionStep, target, max
<1> QED
  BY <1>5, <1>6, <1>7

(* Every step is well formed, and one that scales or sheds load answers a  *)
(* value over a latency target.                                            *)
LEMMA StepIsAnswer ==
  ASSUME NEW hard \in SUBSET Constraint, NEW value \in Int, ~Raises(value, hard)
  PROVE  /\ ComputeAction(value, hard) \in ActionStep
         /\ ComputeAction(value, hard).type \in {"scale", "shed_load"} =>
              /\ ComputeAction(value, hard) = Relieve(value, hard)
              /\ OfType(hard, "latency") # {}
              /\ LatencyTarget(hard) # 0
              /\ value > LatencyTarget(hard)
<1> DEFINE action == ComputeAction(value, hard)
<1>1. CASE \/ OfType(hard, "custom") # {} \/ OfType(hard, "compliance") # {}
           \/ OfType(hard, "latency") = {}
  BY <1>1 DEF ComputeAction, NoAction, Asks, ActionStep
<1>2. CASE /\ OfType(hard, "custom") = {} /\ OfType(hard, "compliance") = {}
           /\ OfType(hard, "latency") # {}
  <2>1. LatencyTarget(hard) \in Int
    BY <1>2, LowestIsLeast DEF LatencyTarget
  <2>2. CASE value > LatencyTarget(hard)
    <3>1. action = Relieve(value, hard)
      BY <1>2, <2>2 DEF ComputeAction
    <3>2. LatencyTarget(hard) # 0
      BY <1>2, <2>2 DEF Raises
    <3>3. action \in ActionStep
      BY <1>2, <3>1, <3>2, RelieveBounds
    <3> QED
      BY <1>2, <2>2, <3>1, <3>2, <3>3
  <2>3. CASE ~(value > LatencyTarget(hard))
    BY <1>2, <2>3 DEF ComputeAction, NoAction, Asks, ActionStep
  <2> QED
    BY <2>2, <2>3
<1> QED
  BY <1>1, <1>2

(* A plan has a step for each point, and every step satisfies the hard     *)
(* constraints: the first because there would be no plan otherwise, a      *)
(* later one because it would have been replaced (Controller.optimize).    *)
LEMMA PlanSteps ==
  ASSUME NEW C \in SUBSET Constraint, NEW p \in Seq(Number),
         ~OptimizeRaises(p, C), Optimize(p, C) # Infeasible
  PROVE  /\ Optimize(p, C) \in Seq(ActionStep)
         /\ Len(Optimize(p, C)) = Len(p)
         /\ \A i \in 1 .. Len(p) :
              /\ Satisfies(Optimize(p, C)[i], Hard(C))
              /\ ~Raises(p[i], Hard(C))
              /\ Optimize(p, C)[i].type \in {"scale", "shed_load"} =>
                   Optimize(p, C)[i] = ComputeAction(p[i], Hard(C))
<1> DEFINE hard    == Hard(C)
           step(i) == ComputeAction(p[i], hard)
           P       == Optimize(p, C)
<1>1. hard \in SUBSET Constraint
  BY DEF Hard
<1>2. ASSUME NEW i \in 1 .. Len(p)
      PROVE  p[i] \in Int /\ ~Raises(p[i], hard) /\ step(i) \in ActionStep
  <2>1. p[i] \in Int
    BY DEF Number
  <2>2. ~Raises(p[i], hard)
    BY DEF OptimizeRaises
  <2> HIDE DEF hard
  <2> QED
    BY <1>1, <2>1, <2>2, StepIsAnswer
<1>3. NoAction \in ActionStep /\ NoAction.type = "no_action" /\ Satisfies(NoAction, hard)
  BY DEF NoAction, Asks, ActionStep, Satisfies
<1>4. P = [i \in 1 .. Len(p) |-> IF Satisfies(step(i), hard) THEN step(i) ELSE NoAction]
  BY DEF Optimize
<1> HIDE DEF P, hard
<1>5. ASSUME NEW i \in 1 .. Len(p)
      PROVE  /\ P[i] \in ActionStep /\ Satisfies(P[i], hard)
             /\ P[i].type \in {"scale", "shed_load"} => P[i] = step(i)
  BY <1>2, <1>3, <1>4
<1>6. P \in Seq(ActionStep) /\ Len(P) = Len(p)
  BY <1>4, <1>5
<1> QED
  BY <1>2, <1>5, <1>6 DEF P, hard

-----------------------------------------------------------------------------
(* Where the constraints and the plan come from: the inductive invariant.  *)

(* C is what classify makes of the evidence E.                             *)
Derived(E, C) ==
  \E open \in SUBSET {r \in Rules : r.operator = "time_between"}, reply \in ModelReplies :
    C = Classify(E, open, reply)

(* P is what optimize makes of the points p and the constraints C.         *)
Chosen(p, C, P) == P = Optimize(p, C) /\ ~OptimizeRaises(p, C)

(* failed is what falsify makes of the first step of P and of what the     *)
(* adversary replies.                                                      *)
Judged(P, E, C, T, reply, failed) ==
  /\ P # Infeasible /\ P[1].type \notin {"no_action", "alert"}
  /\ failed = FailedCheck(P[1], E, C, T, reply)
  /\ ~FalsifyRaises(P[1], E, C, T, reply)

PathInv ==
  /\ stage \in Stages
  /\ evidence \in EvidenceSets \union {{}}
  /\ constraints = {} \/ Derived(evidence, constraints)
  /\ trajectory \in Trajectories \union {NoTrajectory}
  /\ adversary \in AdversaryReplies
  /\ stage \in {"idle", "measured"} => constraints = {}
  /\ stage \in {"predicted", "planned", "judged"} => trajectory \in Trajectories
  /\ stage \in {"classified", "predicted", "planned", "judged"} =>
       Derived(evidence, constraints)
  /\ stage \notin {"planned", "judged", "raised"} => plan = Infeasible
  /\ stage \in {"planned", "judged"} \/ plan # Infeasible =>
       Chosen(trajectory.points, constraints, plan)
  /\ stage # "judged" => failedCheck = "none"
  /\ stage = "judged" =>
       Judged(plan, evidence, constraints, trajectory, adversary, failedCheck)

(* The invariant holds before the first cycle.                             *)
LEMMA PathInvInit == Init => PathInv
BY DEF Init, PathInv, Stages, AdversaryReplies

(* Every component hands on what its function gives (run_cycle).           *)
LEMMA PathInvStep == PathInv /\ [Next]_vars => PathInv'
<1> SUFFICES ASSUME PathInv, [Next]_vars  PROVE PathInv'
  OBVIOUS
<1> USE DEF PathInv, Stages
<1>1. CASE Measure
  BY <1>1 DEF Measure
<1>2. CASE ClassifyEvidence
  <2>1. Derived(evidence, constraints')
    BY <1>2 DEF ClassifyEvidence, Derived
  <2> QED
    BY <1>2, <2>1 DEF ClassifyEvidence
<1>3. CASE Predict
  BY <1>3 DEF Predict
<1>4. CASE Plan
  <2>1. CASE OptimizeRaises(trajectory.points, constraints)
    BY <1>4, <2>1 DEF Plan
  <2>2. CASE ~OptimizeRaises(trajectory.points, constraints)
    <3>1. Chosen(trajectory.points, constraints, plan')
      BY <1>4, <2>2 DEF Plan, Chosen
    <3> QED
      BY <1>4, <2>2, <3>1 DEF Plan
  <2> QED
    BY <2>1, <2>2
<1>5. CASE Falsify
  <2>1. PICK reply \in AdversaryReplies :
          /\ adversary' = reply
          /\ IF FalsifyRaises(plan[1], evidence, constraints, trajectory, reply)
               THEN stage' = "raised" /\ UNCHANGED failedCheck
               ELSE /\ stage' = "judged"
                    /\ failedCheck' =
                         FailedCheck(plan[1], evidence, constraints, trajectory, reply)
    BY <1>5 DEF Falsify
  <2>2. CASE FalsifyRaises(plan[1], evidence, constraints, trajectory, reply)
    BY <1>5, <2>1, <2>2 DEF Falsify
  <2>3. CASE ~FalsifyRaises(plan[1], evidence, constraints, trajectory, reply)
    <3>1. Judged(plan, evidence, constraints, trajectory, adversary', failedCheck')
      BY <1>5, <2>1, <2>3 DEF Falsify, Consequential, Judged
    <3> QED
      BY <1>5, <2>1, <2>3, <3>1 DEF Falsify
  <2> QED
    BY <2>2, <2>3
<1>6. CASE Finish
  BY <1>6 DEF Finish, AdversaryReplies
<1>7. CASE UNCHANGED vars
  BY <1>7 DEF vars
<1> QED
  BY <1>1, <1>2, <1>3, <1>4, <1>5, <1>6, <1>7 DEF Next

(* So the data of every reachable state is what the functions give.        *)
LEMMA PathInvHolds == Spec => []PathInv
BY PathInvInit, PathInvStep, PTL DEF Spec

-----------------------------------------------------------------------------
(* What the invariant says of constraints and plans.                       *)

(* classify returns constraints.                                           *)
LEMMA DerivedTyped ==
  ASSUME NEW E \in SUBSET Evidence, NEW C, Derived(E, C)
  PROVE  C \in SUBSET Constraint
<1>1. PICK open \in SUBSET {r \in Rules : r.operator = "time_between"},
            reply \in ModelReplies : C = Classify(E, open, reply)
  BY DEF Derived
<1>2. \A rule \in Rules : FromRule(rule) \in Constraint
  BY RulesAssumption DEF FromRule, Rule, Constraint
<1>3. Evaluate(E, open) \subseteq Constraint
  BY <1>2 DEF Evaluate
<1>4. DeriveCapacity(E) \subseteq Constraint
  <2>1. ASSUME NEW e \in E
        PROVE  [type |-> "capacity", bound |-> e.value, hard |-> TRUE,
                source |-> "deterministic"] \in Constraint
    <3>1. e.value \in Number
      BY DEF Evidence
    <3> QED
      BY <3>1 DEF Constraint, ConstraintTypes
  <2> QED
    BY <2>1 DEF DeriveCapacity
<1>5. reply \subseteq Constraint
  BY ControlPathAssumption
<1> QED
  BY <1>1, <1>3, <1>4, <1>5 DEF Classify

(* The limits in the evidence are among the constraints, hard.             *)
LEMMA DerivedLimits ==
  ASSUME NEW E \in SUBSET Evidence, NEW C, Derived(E, C), NEW e \in E
  PROVE  /\ e.metric = "max_replicas" =>
              \E c \in OfType(Hard(C), "capacity") : c.bound = e.value
         /\ \A rule \in Rules : Matches(rule, e) /\ rule.hard =>
              \E c \in OfType(Hard(C), rule.type) : c.bound = rule.threshold
<1>1. PICK open \in SUBSET {r \in Rules : r.operator = "time_between"},
            reply \in ModelReplies : C = Classify(E, open, reply)
  BY DEF Derived
<1>2. DeriveCapacity(E) \subseteq C /\ Evaluate(E, open) \subseteq C
  BY <1>1 DEF Classify
<1>3. ASSUME e.metric = "max_replicas"
      PROVE  \E c \in OfType(Hard(C), "capacity") : c.bound = e.value
  <2> DEFINE c == [type |-> "capacity", bound |-> e.value, hard |-> TRUE,
                   source |-> "deterministic"]
  <2>1. c \in C
    BY <1>2, <1>3 DEF DeriveCapacity
  <2> QED
    BY <2>1 DEF OfType, Hard
<1>4. ASSUME NEW rule \in Rules, Matches(rule, e), rule.hard
      PROVE  \E c \in OfType(Hard(C), rule.type) : c.bound = rule.threshold
  <2>1. FromRule(rule) \in C
    BY <1>2, <1>4 DEF Evaluate
  <2> QED
    BY <1>4, <2>1 DEF OfType, Hard, FromRule
<1> QED
  BY <1>3, <1>4

(* What the theorems below use of the invariant: in a state with a plan,   *)
(* or in which one was sought, all the data is what the functions give.    *)
LEMMA PlannedData ==
  ASSUME PathInv, stage \in {"planned", "judged"}
  PROVE  /\ evidence \in SUBSET Evidence
         /\ constraints \in SUBSET Constraint
         /\ Hard(constraints) \in SUBSET Constraint
         /\ Derived(evidence, constraints)
         /\ trajectory.points \in Seq(Number) /\ trajectory.points # <<>>
         /\ plan = Optimize(trajectory.points, constraints)
         /\ ~OptimizeRaises(trajectory.points, constraints)
<1>1. evidence \in SUBSET Evidence
  BY ControlPathAssumption DEF PathInv
<1>2. Derived(evidence, constraints)
  BY DEF PathInv
<1>3. constraints \in SUBSET Constraint
  BY <1>1, <1>2, DerivedTyped
<1>4. trajectory \in Trajectory /\ trajectory.points # <<>>
  BY ControlPathAssumption DEF PathInv
<1>5. Chosen(trajectory.points, constraints, plan)
  BY DEF PathInv
<1> QED
  BY <1>1, <1>2, <1>3, <1>4, <1>5 DEF Trajectory, Chosen, Hard

(* A scale or a shed_load of the plan answers its point of the trajectory. *)
LEMMA PlannedAnswer ==
  ASSUME PathInv, stage \in {"planned", "judged"}, plan # Infeasible,
         NEW i \in DOMAIN plan, plan[i].type \in {"scale", "shed_load"}
  PROVE  /\ i \in DOMAIN trajectory.points /\ trajectory.points[i] \in Int
         /\ plan[i] = Relieve(trajectory.points[i], Hard(constraints))
         /\ OfType(Hard(constraints), "latency") # {}
         /\ LatencyTarget(Hard(constraints)) # 0
         /\ trajectory.points[i] > LatencyTarget(Hard(constraints))
<1> DEFINE p == trajectory.points
           P == Optimize(p, constraints)
<1>1. /\ constraints \in SUBSET Constraint /\ Hard(constraints) \in SUBSET Constraint
      /\ p \in Seq(Number) /\ plan = P /\ ~OptimizeRaises(p, constraints)
  BY PlannedData
<1> HIDE DEF p
<1>2. /\ P \in Seq(ActionStep) /\ Len(P) = Len(p)
      /\ \A j \in 1 .. Len(p) :
           /\ ~Raises(p[j], Hard(constraints))
           /\ P[j].type \in {"scale", "shed_load"} =>
                P[j] = ComputeAction(p[j], Hard(constraints))
  BY <1>1, PlanSteps
<1> HIDE DEF P
<1>3. i \in 1 .. Len(p) /\ i \in DOMAIN p /\ p[i] \in Int
  BY <1>1, <1>2 DEF Number
<1>4. plan[i] = ComputeAction(p[i], Hard(constraints)) /\ ~Raises(p[i], Hard(constraints))
  BY <1>1, <1>2, <1>3
<1> QED
  BY <1>1, <1>3, <1>4, StepIsAnswer DEF p

(* A step that asks for replicas asks for no more than the limits in the   *)
(* evidence, and there is no compliance rule against it.                   *)
LEMMA StepWithinLimits ==
  ASSUME PathInv, stage \in {"planned", "judged"}, plan # Infeasible,
         NEW i \in DOMAIN plan
  PROVE  /\ plan[i] \in ActionStep
         /\ Satisfies(plan[i], Hard(constraints))
         /\ plan[i].type = "scale" => plan[i].replicas <= MaxScale
         /\ plan[i].type \in {"scale", "pre_warm"} =>
              \A e \in evidence :
                e.metric = "max_replicas" => plan[i].replicas * Unit <= e.value
<1> DEFINE p == trajectory.points
           P == Optimize(p, constraints)
<1>1. /\ constraints \in SUBSET Constraint /\ Hard(constraints) \in SUBSET Constraint
      /\ evidence \in SUBSET Evidence /\ Derived(evidence, constraints)
      /\ p \in Seq(Number) /\ plan = P /\ ~OptimizeRaises(p, constraints)
  BY PlannedData
<1> HIDE DEF p
<1>2. /\ P \in Seq(ActionStep) /\ Len(P) = Len(p)
      /\ \A j \in 1 .. Len(p) : Satisfies(P[j], Hard(constraints))
  BY <1>1, PlanSteps
<1> HIDE DEF P
<1>3. plan[i] \in ActionStep /\ Satisfies(plan[i], Hard(constraints))
  BY <1>1, <1>2
<1>4. ASSUME plan[i].type = "scale"  PROVE plan[i].replicas <= MaxScale
  BY <1>1, <1>4, PlannedAnswer, RelieveBounds
<1>5. ASSUME plan[i].type \in {"scale", "pre_warm"},
             NEW e \in evidence, e.metric = "max_replicas"
      PROVE  plan[i].replicas * Unit <= e.value
  BY <1>1, <1>3, <1>5, DerivedLimits DEF Satisfies
<1> QED
  BY <1>3, <1>4, <1>5

-----------------------------------------------------------------------------
(* The theorems.                                                           *)

(* A plan that optimize gives stays within the rules and readings.         *)
LEMMA GovernedByEvidenceStep == PathInv => GovernedByEvidence
<1> SUFFICES ASSUME PathInv, Planned, NEW i \in DOMAIN plan,
                    plan[i].type \in {"scale", "pre_warm"},
                    NEW rule \in Rules, Fires(rule)
             PROVE  /\ rule.type = "capacity" => plan[i].replicas * Unit <= rule.threshold
                    /\ rule.type # "compliance"
  BY StepWithinLimits DEF GovernedByEvidence, Planned
<1>1. /\ evidence \in SUBSET Evidence /\ Derived(evidence, constraints)
  BY PlannedData DEF Planned
<1>2. Satisfies(plan[i], Hard(constraints))
  BY StepWithinLimits DEF Planned
<1>3. PICK c \in OfType(Hard(constraints), rule.type) : c.bound = rule.threshold
  <2>1. PICK e \in evidence : Matches(rule, e)
    BY DEF Fires
  <2> QED
    BY <1>1, <2>1, DerivedLimits DEF Fires
<1> QED
  BY <1>2, <1>3 DEF Satisfies

(* However many rules fire and whatever a model says, a plan stays within  *)
(* the capacity the evidence leaves and scales under no compliance rule.   *)
THEOREM GovernedByEvidenceHolds == Spec => []GovernedByEvidence
BY PathInvHolds, GovernedByEvidenceStep, PTL

(* A shed_load that optimize gives had no capacity left.                   *)
LEMMA ShedOnlyWhenExhaustedStep == PathInv => ShedOnlyWhenExhausted
<1> DEFINE hard == Hard(constraints)
<1> SUFFICES ASSUME PathInv, Planned, NEW i \in DOMAIN plan, plan[i].type = "shed_load"
             PROVE  \E c \in OfType(hard, "latency"), k \in OfType(hard, "capacity") :
                      /\ trajectory.points[i] > c.bound
                      /\ k.bound <= 0 \/ trajectory.points[i] * Unit > c.bound * k.bound
  BY DEF ShedOnlyWhenExhausted
<1>1. hard \in SUBSET Constraint
  BY PlannedData DEF Planned
<1>2. /\ trajectory.points[i] \in Int
      /\ plan[i] = Relieve(trajectory.points[i], hard)
      /\ OfType(hard, "latency") # {} /\ LatencyTarget(hard) # 0
      /\ trajectory.points[i] > LatencyTarget(hard)
  BY PlannedAnswer DEF Planned
<1> HIDE DEF hard
<1>3. /\ Capped(hard)
      /\ \/ MaxReplicas(hard) <= 0
         \/ trajectory.points[i] * Unit > LatencyTarget(hard) * MaxReplicas(hard)
  BY <1>1, <1>2, RelieveBounds
<1>4. PICK c \in OfType(hard, "latency") : c.bound = LatencyTarget(hard)
  BY <1>1, <1>2, LowestIsLeast DEF LatencyTarget
<1>5. PICK k \in OfType(hard, "capacity") : k.bound = MaxReplicas(hard)
  BY <1>1, <1>3, LowestIsLeast DEF MaxReplicas, Capped
<1> QED
  BY <1>2, <1>3, <1>4, <1>5

(* Load is shed only when no capacity that is left would do.               *)
THEOREM ShedOnlyWhenExhaustedHolds == Spec => []ShedOnlyWhenExhausted
BY PathInvHolds, ShedOnlyWhenExhaustedStep, PTL

(* A scale that optimize gives is enough.                                  *)
LEMMA ScaleSufficesStep == PathInv => ScaleSuffices
<1> DEFINE hard   == Hard(constraints)
           target == LatencyTarget(hard)
<1> SUFFICES ASSUME PathInv, Planned, NEW i \in DOMAIN plan, plan[i].type = "scale",
                    \A c \in OfType(hard, "latency") : c.bound > 0
             PROVE  \/ \A c \in OfType(hard, "latency") :
                         trajectory.points[i] <= plan[i].replicas * c.bound
                    \/ plan[i].replicas >= MaxScale
                    \/ \E k \in OfType(hard, "capacity") :
                         (plan[i].replicas + 1) * Unit > k.bound
  BY DEF ScaleSuffices
<1>1. hard \in SUBSET Constraint
  BY PlannedData DEF Planned
<1>2. /\ trajectory.points[i] \in Int
      /\ plan[i] = Relieve(trajectory.points[i], hard)
      /\ OfType(hard, "latency") # {} /\ target # 0
      /\ trajectory.points[i] > target
  BY PlannedAnswer DEF Planned
<1> HIDE DEF hard
<1>3. /\ target \in Int /\ target > 0
      /\ \A c \in OfType(hard, "latency") : target <= c.bound
  BY <1>1, <1>2, LowestIsLeast DEF LatencyTarget
<1>4. /\ plan[i].replicas \in Int
      /\ \/ trajectory.points[i] <= plan[i].replicas * target
         \/ plan[i].replicas = MaxScale
         \/ Capped(hard) /\ (plan[i].replicas + 1) * Unit > MaxReplicas(hard)
  BY <1>1, <1>2, <1>3, RelieveBounds DEF ActionStep
<1> HIDE DEF target
<1>5. CASE trajectory.points[i] <= plan[i].replicas * target
  <2>1. plan[i].replicas \in Nat
    BY <1>2, <1>3, <1>4, <1>5
  <2>2. ASSUME NEW c \in OfType(hard, "latency")
        PROVE  trajectory.points[i] <= plan[i].replicas * c.bound
    <3>1. c.bound \in Int
      BY <1>1 DEF OfType, Constraint, Number
    <3>2. plan[i].replicas * target <= plan[i].replicas * c.bound
      BY <1>3, <2>1, <3>1, ScaleUp
    <3>3. plan[i].replicas * c.bound \in Int /\ plan[i].replicas * target \in Int
      BY <1>3, <2>1, <3>1
    <3> QED
      BY <1>2, <1>5, <3>2, <3>3
  <2> QED
    BY <2>2
<1>6. CASE plan[i].replicas = MaxScale
  BY <1>6, ContractsAssumption
<1>7. CASE Capped(hard) /\ (plan[i].replicas + 1) * Unit > MaxReplicas(hard)
  <2>1. PICK k \in OfType(hard, "capacity") : k.bound = MaxReplicas(hard)
    BY <1>1, <1>7, LowestIsLeast DEF MaxReplicas, Capped
  <2> QED
    BY <1>7, <2>1
<1> QED
  BY <1>4, <1>5, <1>6, <1>7

(* A scale is enough, or the most that capacity and maximum allow.         *)
THEOREM ScaleSufficesHolds == Spec => []ScaleSuffices
BY PathInvHolds, ScaleSufficesStep, PTL

(* optimize finds an answer to a breach.                                   *)
LEMMA BreachAnsweredStep == PathInv => BreachAnswered
<1> DEFINE hard == Hard(constraints)
           p    == trajectory.points
<1> SUFFICES ASSUME PathInv, stage \in {"planned", "judged"},
                    NEW l \in OfType(hard, "latency"), p[1] > l.bound,
                    OfType(hard, "compliance") = {}, OfType(hard, "custom") = {}
             PROVE  /\ plan # Infeasible /\ plan[1].type \in {"scale", "shed_load"}
                    /\ plan[1].type = "scale" /\ (\A k \in OfType(hard, "latency") : k.bound > 0)
                         => plan[1].replicas >= 1
  BY DEF BreachAnswered
<1>1. /\ hard \in SUBSET Constraint /\ p \in Seq(Number) /\ p # <<>>
      /\ plan = Optimize(p, constraints) /\ ~OptimizeRaises(p, constraints)
  BY PlannedData
<1>2. 1 \in 1 .. Len(p) /\ p[1] \in Int /\ ~Raises(p[1], hard)
  <2>1. 1 \in 1 .. Len(p) /\ p[1] \in Number
    <3> HIDE DEF p
    <3> QED
      BY <1>1
  <2> QED
    BY <1>1, <2>1 DEF Number, OptimizeRaises
<1>3. /\ LatencyTarget(hard) \in Int /\ LatencyTarget(hard) <= l.bound
      /\ l.bound \in Int
  BY <1>1, LowestIsLeast DEF LatencyTarget, OfType, Constraint, Number
<1> HIDE DEF p
<1>4. p[1] > LatencyTarget(hard)
  BY <1>2, <1>3
<1>5. LatencyTarget(hard) # 0
  BY <1>2, <1>4 DEF Raises
<1> DEFINE answer == Relieve(p[1], hard)
<1>6. ComputeAction(p[1], hard) = answer
  BY <1>4 DEF ComputeAction
<1>7. /\ answer \in ActionStep /\ answer.type \in {"scale", "shed_load"}
      /\ answer.type = "scale" /\ Capped(hard) => answer.replicas * Unit <= MaxReplicas(hard)
      /\ answer.type = "scale" /\ LatencyTarget(hard) > 0 => answer.replicas >= 1
  BY <1>1, <1>2, <1>4, <1>5, RelieveBounds
<1>a. (\A k \in OfType(hard, "latency") : k.bound > 0) => LatencyTarget(hard) > 0
  BY <1>1, LowestIsLeast DEF LatencyTarget
<1> HIDE DEF answer
<1>8. Satisfies(answer, hard)
  <2>1. ASSUME answer.type = "scale", NEW c \in OfType(hard, "capacity")
        PROVE  answer.replicas * Unit <= c.bound
    <3>1. /\ MaxReplicas(hard) \in Int /\ MaxReplicas(hard) <= c.bound
          /\ c.bound \in Int
      BY <1>1, LowestIsLeast DEF MaxReplicas, OfType, Constraint, Number
    <3>2. answer.replicas * Unit <= MaxReplicas(hard)
      BY <1>7, <2>1 DEF Capped
    <3>3. answer.replicas * Unit \in Int
      BY <1>7, ContractsAssumption DEF ActionStep
    <3> QED
      BY <3>1, <3>2, <3>3
  <2> QED
    BY <1>7, <2>1 DEF Satisfies
<1>9. Optimize(p, constraints) =
        [i \in 1 .. Len(p) |->
           IF Satisfies(ComputeAction(p[i], hard), hard)
             THEN ComputeAction(p[i], hard) ELSE NoAction]
  BY <1>1, <1>6, <1>8 DEF Optimize
<1>10. plan[1] = answer /\ plan # <<>>
  <2> HIDE DEF hard
  <2> QED
    BY <1>1, <1>2, <1>6, <1>8, <1>9
<1> QED
  BY <1>7, <1>10, <1>a

(* A predicted breach is never met with no plan or with doing nothing.     *)
THEOREM BreachAnsweredHolds == Spec => []BreachAnswered
BY PathInvHolds, BreachAnsweredStep, PTL

(* The gate's deterministic checks, on a plan that was selected.           *)
LEMMA OnlyConfidenceFails ==
  ASSUME PathInv, stage = "judged"
  PROVE  Failing(plan[1], evidence, constraints, trajectory)
           \subseteq {"low_prediction_confidence"}
<1>1. plan # Infeasible /\ 1 \in DOMAIN plan
  <2>1. plan # Infeasible
    BY DEF PathInv, Judged
  <2>2. plan \in Seq(ActionStep)
    BY <2>1, PlannedData, PlanSteps
  <2> QED
    BY <2>1, <2>2
<1>2. /\ plan[1] \in ActionStep /\ Satisfies(plan[1], Hard(constraints))
      /\ plan[1].type = "scale" => plan[1].replicas <= MaxScale
      /\ plan[1].type \in {"scale", "pre_warm"} =>
           \A e \in evidence :
             e.metric = "max_replicas" => plan[1].replicas * Unit <= e.value
  BY <1>1, StepWithinLimits
<1>3. CapacityAvailable(plan[1], evidence, constraints)
  BY <1>2 DEF CapacityAvailable, Requests, Satisfies
<1>4. ScaleMagnitudeReasonable(plan[1])
  BY <1>2 DEF ScaleMagnitudeReasonable
<1>5. ComplianceActionValid(plan[1], constraints)
  BY <1>2 DEF ComplianceActionValid, Satisfies
<1>6. ShedLoadBounded(plan[1]) /\ MigrationTargetAvailable(plan[1])
  BY DEF ShedLoadBounded, ShedInflight, ShedSeconds, MigrationTargetAvailable, MigrateTo
<1> QED
  BY <1>3, <1>4, <1>5, <1>6 DEF Failing

(* falsify finds no fault with what optimize gives but the confidence.     *)
LEMMA GateAgreesStep == PathInv => GateAgrees
<1> SUFFICES ASSUME PathInv, stage = "judged"  PROVE GateAgrees
  BY DEF PathInv, GateAgrees
<1> DEFINE failing == Failing(plan[1], evidence, constraints, trajectory)
<1>1. /\ failedCheck = FailedCheck(plan[1], evidence, constraints, trajectory, adversary)
      /\ ~FalsifyRaises(plan[1], evidence, constraints, trajectory, adversary)
      /\ adversary \in AdversaryReplies
  BY DEF PathInv, Judged
<1>2. CASE failing = {}
  <2>1. adversary \notin {"odd_reason", "error"}
    BY <1>1, <1>2 DEF FalsifyRaises
  <2> QED
    BY <1>1, <1>2, <2>1 DEF FailedCheck, GateAgrees, Probed
<1>3. CASE failing # {}
  <2>1. failing = {"low_prediction_confidence"}
    BY <1>3, OnlyConfidenceFails
  <2>2. failedCheck = FirstOf(failing)
    BY <1>1, <1>3 DEF FailedCheck
  <2> HIDE DEF failing
  <2> DEFINE First(k) == /\ CheckOrder[k] \in failing
                         /\ \A j \in 1 .. k - 1 : CheckOrder[j] \notin failing
             k == CHOOSE n \in 1 .. Len(CheckOrder) : First(n)
  <2>3. 3 \in 1 .. Len(CheckOrder) /\ First(3)
    BY <2>1 DEF CheckOrder
  <2>4. k \in 1 .. Len(CheckOrder) /\ First(k)
    <3> HIDE DEF First
    <3> QED
      BY <2>3
  <2>5. FirstOf(failing) = CheckOrder[k]
    BY DEF FirstOf
  <2> QED
    BY <2>1, <2>2, <2>4, <2>5 DEF GateAgrees
<1> QED
  BY <1>2, <1>3

(* No deterministic check but the confidence ever rejects what the         *)
(* controller selects, and of the adversary only a flaw with a reason.     *)
THEOREM GateAgreesHolds == Spec => []GateAgrees
BY PathInvHolds, GateAgreesStep, PTL

(* The data the functions give is typed.                                   *)
LEMMA ControlTypeOKStep == PathInv => ControlTypeOK
<1> SUFFICES ASSUME PathInv  PROVE ControlTypeOK
  OBVIOUS
<1>1. evidence \in SUBSET Evidence
  BY ControlPathAssumption DEF PathInv
<1>2. constraints \in SUBSET Constraint
  BY <1>1, DerivedTyped DEF PathInv
<1>3. trajectory \in Trajectory /\ trajectory.points \in Seq(Number)
  <2>1. NoTrajectory \in Trajectory
    <3>1. <<>> \in Seq(Number)
      OBVIOUS
    <3> QED
      BY <3>1 DEF NoTrajectory, Trajectory
  <2>2. trajectory \in Trajectory
    BY <2>1, ControlPathAssumption DEF PathInv
  <2> QED
    BY <2>2 DEF Trajectory
<1>4. /\ plan \in Seq(ActionStep)
      /\ plan # Infeasible => Len(plan) = Len(trajectory.points)
  <2>1. CASE plan = Infeasible
    BY <2>1
  <2>2. CASE plan # Infeasible
    <3>1. Chosen(trajectory.points, constraints, plan)
      BY <2>2 DEF PathInv
    <3> QED
      BY <1>2, <1>3, <2>2, <3>1, PlanSteps DEF Chosen
  <2> QED
    BY <2>1, <2>2
<1>5. failedCheck \in CheckNames \union {"none", "llm_adversarial_probe"}
  BY GateAgreesStep DEF GateAgrees, CheckNames
<1> QED
  BY <1>1, <1>2, <1>3, <1>4, <1>5 DEF ControlTypeOK, PathInv

(* Types, and a plan as long as the horizon.                               *)
THEOREM ControlTypeCorrect == Spec => []ControlTypeOK
BY PathInvHolds, ControlTypeOKStep, PTL

=============================================================================

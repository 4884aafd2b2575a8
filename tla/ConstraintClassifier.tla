------------------------ MODULE ConstraintClassifier ------------------------
(***************************************************************************)
(* ConstraintClassifier.classify (gcl/classifier/classifier.py) with the   *)
(* RuleEngine and the LLMClassifier: from evidence to constraints.         *)
(*                                                                         *)
(* The rules come from a file, config/defaults/constraints.yaml unless it  *)
(* is overridden, and are a constant here; the shipped ones compare with   *)
(* gt and eq only.  A rule that has a threshold_ref instead of a           *)
(* threshold, such as capacity_ceiling, never matches and is left out.     *)
(***************************************************************************)
EXTENDS Contracts

CONSTANT Rules

Rule == [metric : Metrics \union {"_time"},
         operator : {"gt", "lt", "gte", "lte", "eq", "ne", "time_between"},
         threshold : Number, type : ConstraintTypes, hard : BOOLEAN]

ASSUME RulesAssumption == Rules \subseteq Rule

(* Whether rule matches a reading, for the operators that look at one.     *)
Matches(rule, e) ==
  /\ rule.metric = e.metric
  /\ \/ rule.operator = "gt" /\ e.value > rule.threshold
     \/ rule.operator = "lt" /\ e.value < rule.threshold
     \/ rule.operator = "gte" /\ e.value >= rule.threshold
     \/ rule.operator = "lte" /\ e.value <= rule.threshold
     \/ rule.operator = "eq" /\ e.value = rule.threshold
     \/ rule.operator = "ne" /\ e.value # rule.threshold

FromRule(rule) ==
  [type |-> rule.type, bound |-> rule.threshold, hard |-> rule.hard,
   source |-> "deterministic"]

(* RuleEngine.evaluate; open are the time_between rules whose window the   *)
(* local time is in.                                                       *)
Evaluate(evidence, open) ==
  {FromRule(rule) : rule \in {r \in Rules : \E e \in evidence : Matches(r, e)} \union open}

Unmatched(evidence) == {e \in evidence : \A rule \in Rules : ~Matches(rule, e)}

(* _derive_capacity_from_evidence, and without it.                         *)
DeriveNothing(evidence) == {}

DeriveCapacity(evidence) ==
  {[type |-> "capacity", bound |-> e.value, hard |-> TRUE, source |-> "deterministic"] :
     e \in {r \in evidence : r.metric = "max_replicas"}}

(* Plausible bug: what the model says of a type replaces the rules' word.  *)
ClassifyModelWins(evidence, open, reply) ==
  IF evidence = {} THEN {}
  ELSE reply \union
       {c \in Evaluate(evidence, open) \union DeriveCapacity(evidence) :
          OfType(reply, c.type) = {}}

(* classify; reply are the constraints parsed from the model's answer,     *)
(* which is asked for only when a reading is unmatched.                    *)
Classify(evidence, open, reply) ==
  IF evidence = {} THEN {}
  ELSE Evaluate(evidence, open) \union DeriveCapacity(evidence)
       \union (IF Unmatched(evidence) = {} THEN {} ELSE reply)

=============================================================================

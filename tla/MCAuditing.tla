----------------------------- MODULE MCAuditing -----------------------------
(* Both auditors on small instances: see MCAuditing*.cfg.                  *)
EXTENDS Auditing

MCDecision(ref, outcome, severity, confidence) ==
  [ref |-> ref, outcome |-> outcome, severity |-> severity, confidence |-> confidence]

MCRecord(decisions) ==
  [correlation |-> "cascade", readable |-> TRUE, decisions |-> decisions]

(* A judgement call, a repeat, and a decision to keep.                     *)
MCMixed ==
  MCRecord(<<MCDecision("k", "keep", "critical", 1), MCDecision("a", "drop", "high", 9),
             MCDecision("b", "dedupe", "high", 9)>>)

(* A drop without a confidence on a subject of MCMixed, and one whose      *)
(* confidence is null.                                                     *)
MCNull ==
  MCRecord(<<MCDecision("a", "suppress", "missing", Missing),
             MCDecision("d", "drop", "low", Null)>>)

(* Content that is not JSON.                                               *)
MCBroken == [correlation |-> "cascade", readable |-> FALSE, decisions |-> <<>>]

MCKinds == {MCMixed, MCNull, MCBroken}
=============================================================================

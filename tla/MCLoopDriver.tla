---------------------------- MODULE MCLoopDriver ----------------------------
(* The driver on small instances: see MCLoopDriver*.cfg.                   *)
EXTENDS LoopDriver, TLC

CONSTANTS c1, c2, c3

MCTwoCycles   == {c1, c2}
MCThreeCycles == {c1, c2, c3}

(* run_cycle treats its calls alike.                                       *)
MCSymmetry == Permutations(Cycles)

MCLatencies  == {0}
MCNoSignal   == {<<>>}
MCSignal     == {<<0>>}

(* A type that is proposed, one that is not, and the other ways out.       *)
MCPlans      == {"scale", "alert", "no_action", "infeasible"}
MCScale      == {"scale"}
MCTwoActions == {"scale", "migrate"}

(* A fleet whose replies validate.                                         *)
MCReplies == {"accepted", "rejected", "lost_reply"}
=============================================================================

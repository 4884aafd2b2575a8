-------------------------- MODULE MCAccountability --------------------------
(* The tracker on a small instance: see MCAccountability.cfg.              *)
EXTENDS Accountability

(* A type whose commits are judged, and one whose commits are not.         *)
MCTwoTypes == {"scale", "migrate"}

MCLatencies == {1, 2}
=============================================================================

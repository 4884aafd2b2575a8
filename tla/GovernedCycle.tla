---------------------------- MODULE GovernedCycle ----------------------------
(***************************************************************************)
(* What run_cycle (gcl/loop/driver.py) promises, without its stages: a     *)
(* cycle decides; only a decision that has survived falsification, and     *)
(* whose verdict has been sent to the ledger, is proposed, at most once;   *)
(* what has been answered is recorded; and every cycle ends, in order or   *)
(* not.  The process may crash at any moment, which ends the cycles in     *)
(* flight.  That the ledger has the verdict is not promised: the code goes *)
(* on when the write of it fails.                                          *)
(*                                                                         *)
(* LoopDriver is shown to implement this module, and DeepFieldIngress uses *)
(* its actions for the cycle that an event starts.                         *)
(***************************************************************************)
EXTENDS Integers, FiniteSets

CONSTANTS
  Cycles,      \* the calls of run_cycle
  MaxCrashes   \* bound: crashes of the process

ASSUME CycleAssumption ==
  /\ IsFiniteSet(Cycles)
  /\ MaxCrashes \in Nat

VARIABLES
  phase,     \* of each cycle
  admitted,  \* cycles whose package the fleet has admitted
  recorded,  \* cycles whose commit is recorded: they start a cooldown
  crashes    \* of the process, so far

cycleVars == <<phase, admitted, recorded, crashes>>

Phases  == {"idle", "deciding", "approved", "answered", "over"}
Running == {"deciding", "approved", "answered"}

To(c, next) == phase' = [phase EXCEPT ![c] = next]

Begin(c) ==
  /\ phase[c] = "idle"
  /\ To(c, "deciding")
  /\ UNCHANGED <<admitted, recorded, crashes>>

(* The verdict is in favour of the action and the write of its entry has   *)
(* ended: the ledger has the entry, or the write failed.                   *)
Approve(c) ==
  /\ phase[c] = "deciding"
  /\ To(c, "approved")
  /\ UNCHANGED <<admitted, recorded, crashes>>

(* The proposal is over: answered, or without an answer.  Either way the   *)
(* fleet may have admitted the package.                                    *)
Submit(c) ==
  /\ phase[c] = "approved"
  /\ admitted' \in {admitted, admitted \union {c}}
  /\ To(c, "answered")
  /\ UNCHANGED <<recorded, crashes>>

(* The answer cannot be read and the cycle ends with an exception.         *)
SubmitUnreadable(c) ==
  /\ phase[c] = "approved"
  /\ admitted' \in {admitted, admitted \union {c}}
  /\ To(c, "over")
  /\ UNCHANGED <<recorded, crashes>>

Record(c) ==
  /\ phase[c] = "answered"
  /\ recorded' = recorded \union {c}
  /\ To(c, "over")
  /\ UNCHANGED <<admitted, crashes>>

(* Rejected, nothing to do, cooling down, or an error on the way.          *)
Refrain(c) ==
  /\ phase[c] \in {"deciding", "approved"}
  /\ To(c, "over")
  /\ UNCHANGED <<admitted, recorded, crashes>>

Crash ==
  /\ crashes < MaxCrashes
  /\ crashes' = crashes + 1
  /\ phase' = [c \in Cycles |-> IF phase[c] \in Running THEN "over" ELSE phase[c]]
  /\ UNCHANGED <<admitted, recorded>>

Advance(c) ==
  \/ Approve(c) \/ Submit(c) \/ SubmitUnreadable(c) \/ Record(c) \/ Refrain(c)

CycleInit ==
  /\ phase = [c \in Cycles |-> "idle"]
  /\ admitted = {}
  /\ recorded = {}
  /\ crashes = 0

CycleNext == Crash \/ \E c \in Cycles : Begin(c) \/ Advance(c)

CycleSpec ==
  CycleInit /\ [][CycleNext]_cycleVars /\ \A c \in Cycles : WF_cycleVars(Advance(c))

=============================================================================

----------------------------- MODULE LoopDriver -----------------------------
(***************************************************************************)
(* LoopDriver.run_cycle (gcl/loop/driver.py) with the Committer it calls,  *)
(* for any number of cycles in flight in one asyncio process.              *)
(*                                                                         *)
(* Every ledger write, model call and fleet call of run_cycle is awaited,  *)
(* and at each of them another cycle may run.  An action is therefore what *)
(* a cycle does from one await to the next: it starts when the awaited     *)
(* call returns and ends when the next one is issued.  pc says which call  *)
(* the cycle awaits; while it awaits write_entry("gcl.x"), pc is "x".      *)
(*                                                                         *)
(* The cycles share the AccountabilityTracker, whose state comes from      *)
(* Accountability, and the clock.  What the model abstracts: constraints,  *)
(* trajectory and objective are data that only choose the planned action   *)
(* and the verdict, so both are chosen freely; a decision package is the   *)
(* cycle it belongs to; and of the ledger only matters which writes failed *)
(* (LedgerClient has the rest).                                            *)
(***************************************************************************)
EXTENDS Accountability

CONSTANTS
  Cycles,          \* the calls of run_cycle, named by correlation id
  Plans,           \* what the controller may select, see PlanTypes
  Signals,         \* the latency_ms readings a cycle may be called with
  FleetOutcomes,   \* what may become of a proposal, see FleetOutcomeTypes
  MaxInFlight,     \* bound: run_cycle calls in flight at a time
  LlmMayFail,      \* a configured model may time out, answer 5xx or name a bound 0
  PromotionSet,    \* GCL_AGENT_PROMOTION_URL is set
  MaxLostWrites,   \* bound: ledger writes that fail
  MaxRestarts      \* bound: crashes of the process

(* The types of ACTION_CLASS_NAMES that the controller produces, those it  *)
(* produces that have no canonical fleet action class, and no plan at all. *)
Canonical  == {"scale", "pre_warm", "shed_load", "migrate"}
PlanTypes  == Canonical \union {"alert", "no_action", "infeasible"}

(* accepted        the fleet admitted the package and said so              *)
(* rejected        4xx, or no credential in production                     *)
(* deferred        no connection, or a status such as 503                  *)
(* lost_reply      admitted, but the reply timed out: also "deferred"      *)
(* not_configured  no fleet URL                                            *)
(* bad_receipt     admitted, and bad_refusal refused, with a reply that    *)
(*                 ProposalResult does not validate (a proposal_id that is *)
(*                 a number, a detail that is a list): propose raises      *)
FleetOutcomeTypes ==
  {"accepted", "rejected", "deferred", "lost_reply", "not_configured",
   "bad_receipt", "bad_refusal"}
Admitting == {"accepted", "lost_reply", "bad_receipt"}

ASSUME DriverAssumption ==
  /\ Canonical \subseteq ActionTypes
  /\ 0 \in Latencies
  /\ Plans \subseteq PlanTypes
  /\ Signals \subseteq {<<>>} \union {<<v>> : v \in Latencies}
  /\ FleetOutcomes \subseteq FleetOutcomeTypes
  /\ IsFiniteSet(Cycles)
  /\ MaxInFlight \in Nat \ {0}
  /\ LlmMayFail \in BOOLEAN
  /\ PromotionSet \in BOOLEAN
  /\ MaxLostWrites \in Nat
  /\ MaxRestarts \in Nat

VARIABLES
  pc,         \* what each cycle awaits
  signals,    \* the latency readings it was called with
  plan,       \* the committed step's action type, once planned
  verdict,    \* of the falsification gate
  committed,  \* LoopCycle.committed, once returned
  chain,      \* the ledger entries it has written, in order
  missed,     \* the entries among them whose write failed
  restarts,   \* crashes so far
  delivered,  \* packages the fleet has admitted
  checkedAt,  \* history variable: Len(history) at the cooldown check
  recordOf    \* history variable: the cycle's commit record, 0 if none

driverVars == <<pc, signals, plan, verdict, committed, chain, missed,
                restarts, delivered, checkedAt, recordOf>>
vars == <<driverVars, trackerVars>>

ProposalEntries == {"proposed", "proposal_rejected", "proposal_pending"}
EndEntries      == {"reject", "no_action", "cooldown", "package_rejected"}
ModelCalls      == {"classifying", "interpreting", "falsifying"}
Awaiting == ModelCalls \union EndEntries \union ProposalEntries \union
  {"cycle_start", "classify", "predict", "interpret", "plan", "falsify",
   "attesting", "promotion", "proposing"}
Over == {"done", "aborted"}

InFlight == {c \in Cycles : pc[c] \in Awaiting}

-----------------------------------------------------------------------------
(* The awaited call of cycle c returns and c goes on to await next.        *)
(*                                                                         *)
(* Wrote: the call was write_entry.  It posts the entry and never raises:  *)
(* when the ledger cannot be reached, answers with an error, or answers    *)
(* too late, the entry stays in a list of this process, which nothing ever *)
(* posts, and the cycle goes on as if the ledger had it.                   *)

GoesTo(c, next) == pc' = [pc EXCEPT ![c] = next]

Wrote(c, next) ==
  /\ chain' = [chain EXCEPT ![c] = Append(@, pc[c])]
  /\ \/ UNCHANGED missed
     \/ /\ Cardinality(missed) < MaxLostWrites
        /\ missed' = missed \union {<<c, pc[c]>>}
  /\ GoesTo(c, next)

Start(c) ==
  /\ pc[c] = "idle"
  /\ Cardinality(InFlight) < MaxInFlight
  /\ \E s \in Signals : signals' = [signals EXCEPT ![c] = s]
  /\ GoesTo(c, "cycle_start")
  /\ UNCHANGED <<plan, verdict, committed, chain, missed, restarts,
                 delivered, checkedAt, recordOf, trackerVars>>

(* check_outcomes follows the first write at once.  It returns nothing, as *)
(* run_cycle records every commit as not eligible for an outcome, so the   *)
(* gcl.outcome writes never happen.                                        *)
WriteCycleStart(c) ==
  /\ pc[c] = "cycle_start"
  /\ CheckOutcomes(signals[c])
  /\ Wrote(c, "classifying")
  /\ UNCHANGED <<signals, plan, verdict, committed, restarts, delivered,
                 checkedAt, recordOf>>

Classified(c) ==
  /\ pc[c] = "classifying"
  /\ GoesTo(c, "classify")
  /\ UNCHANGED <<signals, plan, verdict, committed, chain, missed, restarts,
                 delivered, checkedAt, recordOf, trackerVars>>

(* predict is not awaited.                                                 *)
WriteClassify(c) ==
  /\ pc[c] = "classify"
  /\ Wrote(c, "predict")
  /\ UNCHANGED <<signals, plan, verdict, committed, restarts, delivered,
                 checkedAt, recordOf, trackerVars>>

WritePredict(c) ==
  /\ pc[c] = "predict"
  /\ Wrote(c, "interpreting")
  /\ UNCHANGED <<signals, plan, verdict, committed, restarts, delivered,
                 checkedAt, recordOf, trackerVars>>

Interpreted(c) ==
  /\ pc[c] = "interpreting"
  /\ GoesTo(c, "interpret")
  /\ UNCHANGED <<signals, plan, verdict, committed, chain, missed, restarts,
                 delivered, checkedAt, recordOf, trackerVars>>

(* The controller runs between the writes of gcl.interpret and gcl.plan.   *)
WriteInterpret(c) ==
  /\ pc[c] = "interpret"
  /\ \E p \in Plans : plan' = [plan EXCEPT ![c] = p]
  /\ Wrote(c, "plan")
  /\ UNCHANGED <<signals, verdict, committed, restarts, delivered, checkedAt,
                 recordOf, trackerVars>>

(* infer() raises on a timeout or an error status, and neither the         *)
(* classifier, the interpreter nor the adversary catches it: run_cycle     *)
(* ends and the API answers 500.                                           *)
LlmError(c) ==
  /\ LlmMayFail
  /\ pc[c] \in ModelCalls
  /\ GoesTo(c, "aborted")
  /\ UNCHANGED <<signals, plan, verdict, committed, chain, missed, restarts,
                 delivered, checkedAt, recordOf, trackerVars>>

(* A model may name a latency bound of 0, and the controller divides by it *)
(* once gcl.interpret is written.                                          *)
ControllerError(c) ==
  /\ LlmMayFail
  /\ pc[c] = "interpret"
  /\ Wrote(c, "aborted")
  /\ UNCHANGED <<signals, plan, verdict, committed, restarts, delivered,
                 checkedAt, recordOf, trackerVars>>

-----------------------------------------------------------------------------
(* Once gcl.plan is written: the three ways out, the cooldown, the gate.   *)

Infeasible(c) ==
  /\ pc[c] = "plan"
  /\ plan[c] = "infeasible"
  /\ Wrote(c, "reject")
  /\ UNCHANGED <<signals, plan, verdict, committed, restarts, delivered,
                 checkedAt, recordOf, trackerVars>>

NotCanonical(c) ==
  /\ pc[c] = "plan"
  /\ plan[c] \notin Canonical \union {"no_action", "infeasible"}
  /\ Wrote(c, "reject")
  /\ UNCHANGED <<signals, plan, verdict, committed, restarts, delivered,
                 checkedAt, recordOf, trackerVars>>

NoAction(c) ==
  /\ pc[c] = "plan"
  /\ plan[c] = "no_action"
  /\ Wrote(c, "no_action")
  /\ UNCHANGED <<signals, plan, verdict, committed, restarts, delivered,
                 checkedAt, recordOf, trackerVars>>

(* Plausible bugs: no check; a check that waits for the cooldown to end.   *)
CheckCooldownSkipped(c) ==
  /\ pc[c] = "plan"
  /\ plan[c] \in Canonical
  /\ checkedAt' = [checkedAt EXCEPT ![c] = Len(history)]
  /\ Wrote(c, "falsifying")
  /\ UNCHANGED <<signals, plan, verdict, committed, restarts, delivered,
                 recordOf, trackerVars>>

CheckCooldownWaits(c) ==
  /\ pc[c] = "plan"
  /\ plan[c] \in Canonical
  /\ CanCommit(plan[c])
  /\ checkedAt' = [checkedAt EXCEPT ![c] = Len(history)]
  /\ Wrote(c, "falsifying")
  /\ UNCHANGED <<signals, plan, verdict, committed, restarts, delivered,
                 recordOf, trackerVars>>

(* can_commit, whose answer holds only at this moment.                     *)
CheckCooldown(c) ==
  /\ pc[c] = "plan"
  /\ plan[c] \in Canonical
  /\ checkedAt' = [checkedAt EXCEPT ![c] = Len(history)]
  /\ Wrote(c, IF CanCommit(plan[c]) THEN "falsifying" ELSE "cooldown")
  /\ UNCHANGED <<signals, plan, verdict, committed, restarts, delivered,
                 recordOf, trackerVars>>

Falsified(c) ==
  /\ pc[c] = "falsifying"
  /\ \E v \in {"survives", "fails"} : verdict' = [verdict EXCEPT ![c] = v]
  /\ GoesTo(c, "falsify")
  /\ UNCHANGED <<signals, plan, committed, chain, missed, restarts, delivered,
                 checkedAt, recordOf, trackerVars>>

(* build_decision_package signs, or raises ValueError when the key or the  *)
(* package is not valid.                                                   *)
Packaged == {"proposing", "package_rejected"}

(* Plausible bugs: the verdict is written but not obeyed; the verdict in   *)
(* favour of an action is not written before the package is proposed.      *)
WriteFalsifyAdvisory(c) ==
  /\ pc[c] = "falsify"
  /\ \E next \in IF PromotionSet THEN {"attesting"} ELSE Packaged : Wrote(c, next)
  /\ UNCHANGED <<signals, plan, verdict, committed, restarts, delivered,
                 checkedAt, recordOf, trackerVars>>

WriteFalsifyUnwritten(c) ==
  /\ pc[c] = "falsify"
  /\ \E next \in IF verdict[c] = "fails" THEN {"reject"}
                 ELSE IF PromotionSet THEN {"attesting"} ELSE Packaged :
       GoesTo(c, next)
  /\ UNCHANGED <<signals, plan, verdict, committed, chain, missed, restarts,
                 delivered, checkedAt, recordOf, trackerVars>>

WriteFalsify(c) ==
  /\ pc[c] = "falsify"
  /\ \E next \in IF verdict[c] = "fails" THEN {"reject"}
                 ELSE IF PromotionSet THEN {"attesting"} ELSE Packaged :
       Wrote(c, next)
  /\ UNCHANGED <<signals, plan, verdict, committed, restarts, delivered,
                 checkedAt, recordOf, trackerVars>>

(* Whatever the promotion service answers, even nothing, becomes metadata. *)
Attested(c) ==
  /\ pc[c] = "attesting"
  /\ GoesTo(c, "promotion")
  /\ UNCHANGED <<signals, plan, verdict, committed, chain, missed, restarts,
                 delivered, checkedAt, recordOf, trackerVars>>

WritePromotion(c) ==
  /\ pc[c] = "promotion"
  /\ \E next \in Packaged : Wrote(c, next)
  /\ UNCHANGED <<signals, plan, verdict, committed, restarts, delivered,
                 checkedAt, recordOf, trackerVars>>

-----------------------------------------------------------------------------
(* Committer.commit: propose to the fleet, write the outcome, record it.   *)

(* Plausible bug: a proposal without an answer is written as refused.      *)
EntryForRefused(outcome) ==
  IF outcome = "accepted" THEN "proposed"
  ELSE IF outcome \in {"bad_receipt", "bad_refusal"} THEN "aborted"
  ELSE "proposal_rejected"

EntryFor(outcome) ==
  IF outcome = "accepted" THEN "proposed"
  ELSE IF outcome = "rejected" THEN "proposal_rejected"
  ELSE IF outcome \in {"bad_receipt", "bad_refusal"} THEN "aborted"
  ELSE "proposal_pending"

Proposed(c) ==
  /\ pc[c] = "proposing"
  /\ \E outcome \in FleetOutcomes :
       /\ delivered' = IF outcome \in Admitting
                         THEN delivered \union {[cycle |-> c, type |-> plan[c], at |-> now]}
                         ELSE delivered
       /\ GoesTo(c, EntryFor(outcome))
  /\ UNCHANGED <<signals, plan, verdict, committed, chain, missed, restarts,
                 checkedAt, recordOf, trackerVars>>

(* Plausible bug: only a proposal known to be accepted starts a cooldown.  *)
WriteProposalAcceptedOnly(c) ==
  /\ pc[c] \in ProposalEntries
  /\ Wrote(c, "done")
  /\ IF pc[c] = "proposed"
       THEN /\ RecordCommit(plan[c], 0, "unverified", FALSE)
            /\ recordOf' = [recordOf EXCEPT ![c] = Len(history) + 1]
       ELSE UNCHANGED <<recordOf, trackerVars>>
  /\ committed' = [committed EXCEPT ![c] = TRUE]
  /\ UNCHANGED <<signals, plan, verdict, restarts, delivered, checkedAt>>

WriteProposal(c) ==
  /\ pc[c] \in ProposalEntries
  /\ Wrote(c, "done")
  /\ RecordCommit(plan[c],
                  IF signals[c] = <<>> THEN 0 ELSE Head(signals[c]),
                  IF pc[c] = "proposal_rejected" THEN "rejected" ELSE "unverified",
                  FALSE)
  /\ recordOf' = [recordOf EXCEPT ![c] = Len(history) + 1]
  /\ committed' = [committed EXCEPT ![c] = TRUE]
  /\ UNCHANGED <<signals, plan, verdict, restarts, delivered, checkedAt>>

(* The last write of a cycle that commits nothing.                         *)
WriteEnd(c) ==
  /\ pc[c] \in EndEntries
  /\ Wrote(c, "done")
  /\ UNCHANGED <<signals, plan, verdict, committed, restarts, delivered,
                 checkedAt, recordOf, trackerVars>>

-----------------------------------------------------------------------------
(* The process dies: the cycles in flight are gone and so is the tracker,  *)
(* which is kept in memory only.  What did not miss the ledger stays       *)
(* there, and what was delivered stays with the fleet.                     *)
Restart ==
  /\ restarts < MaxRestarts
  /\ restarts' = restarts + 1
  /\ pc' = [c \in Cycles |-> IF c \in InFlight THEN "aborted" ELSE pc[c]]
  /\ recentCommits' = <<>>
  /\ pendingOutcomes' = {}
  /\ UNCHANGED <<signals, plan, verdict, committed, chain, missed, delivered,
                 checkedAt, recordOf, now, outcomes, history>>

ClockStep == ClockMoves /\ UNCHANGED driverVars

Init ==
  /\ TrackerInit
  /\ pc = [c \in Cycles |-> "idle"]
  /\ signals = [c \in Cycles |-> <<>>]
  /\ plan = [c \in Cycles |-> "none"]
  /\ verdict = [c \in Cycles |-> "none"]
  /\ committed = [c \in Cycles |-> FALSE]
  /\ chain = [c \in Cycles |-> <<>>]
  /\ missed = {}
  /\ restarts = 0
  /\ delivered = {}
  /\ checkedAt = [c \in Cycles |-> 0]
  /\ recordOf = [c \in Cycles |-> 0]

(* The steps of a cycle that has started.                                  *)
Proceed(c) ==
  \/ WriteCycleStart(c) \/ Classified(c) \/ WriteClassify(c) \/ WritePredict(c)
  \/ Interpreted(c) \/ WriteInterpret(c) \/ LlmError(c)
  \/ ControllerError(c) \/ Infeasible(c) \/ NotCanonical(c) \/ NoAction(c) \/ CheckCooldown(c)
  \/ Falsified(c) \/ WriteFalsify(c) \/ Attested(c) \/ WritePromotion(c)
  \/ Proposed(c) \/ WriteProposal(c) \/ WriteEnd(c)

Next ==
  \/ \E c \in Cycles : Start(c) \/ Proceed(c)
  \/ ClockStep
  \/ Restart

(* Every awaited call ends, because every HTTP client has a timeout, and   *)
(* asyncio resumes a task whose call has ended.  Nothing forces a cycle to *)
(* start, the clock to be read later, or the process to crash.             *)
Fairness == \A c \in Cycles : WF_vars(Proceed(c))

Spec == Init /\ [][Next]_vars /\ Fairness

-----------------------------------------------------------------------------
(* Properties.                                                             *)

DeliveredRecord == [cycle : Cycles, type : Canonical, at : Int]

(* Types, the tracker's limits, and the bound on the cycles in flight.     *)
DriverTypeOK ==
  /\ TrackerTypeOK
  /\ pc \in [Cycles -> Awaiting \union Over \union {"idle"}]
  /\ Cardinality(InFlight) <= MaxInFlight
  /\ signals \in [Cycles -> {<<>>} \union {<<v>> : v \in Latencies}]
  /\ plan \in [Cycles -> Plans \union {"none"}]
  /\ verdict \in [Cycles -> {"none", "survives", "fails"}]
  /\ committed \in [Cycles -> BOOLEAN]
  /\ chain \in [Cycles -> Seq(Awaiting)]
  /\ missed \subseteq Cycles \X Awaiting
  /\ restarts \in 0 .. MaxRestarts
  /\ delivered \subseteq DeliveredRecord
  /\ checkedAt \in [Cycles -> 0 .. Len(history)]
  /\ recordOf \in [Cycles -> 0 .. Len(history)]

(* The chains of a cycle that returned: five stages, then one of the ends. *)
Stages == <<"cycle_start", "classify", "predict", "interpret", "plan">>
CompleteChains ==
  {Stages \o <<e>> : e \in {"reject", "no_action", "cooldown"}}
    \union {Stages \o <<"falsify">> \o <<e>> :
              e \in ProposalEntries \union {"reject", "package_rejected"}}
    \union {Stages \o <<"falsify">> \o <<"promotion">> \o <<e>> :
              e \in ProposalEntries \union {"package_rejected"}}

IsBeginning(s, t) == Len(s) <= Len(t) /\ \A i \in 1 .. Len(s) : s[i] = t[i]
LastEntry(c) == chain[c][Len(chain[c])]

Written(c, entry) == \E i \in DOMAIN chain[c] : chain[c][i] = entry
InLedger(c, entry) == Written(c, entry) /\ <<c, entry>> \notin missed
Delivered(c) == \E d \in delivered : d.cycle = c

(* What the ledger gets to know of a cycle is what the cycle did.  Its     *)
(* writes are at any time the beginning of a complete chain, all of one    *)
(* once it has returned, and end with a proposal just when                 *)
(* LoopCycle.committed is true.  The ledger may lack any of them, since a  *)
(* failed write is not repeated, but it never says what did not happen: an *)
(* entry that ends the cycle without a proposal, or that the fleet refused *)
(* it, means that the fleet has not admitted the package, and "proposed"   *)
(* that it has -- with failing models, failing writes, crashes and other   *)
(* cycles in between (run_cycle, Committer.commit, write_entry).           *)
AuditTrail ==
  \A c \in Cycles :
    /\ \E t \in CompleteChains : IsBeginning(chain[c], t)
    /\ pc[c] = "done" => chain[c] \in CompleteChains
    /\ committed[c] <=> chain[c] # <<>> /\ LastEntry(c) \in ProposalEntries
    /\ \A entry \in EndEntries \union {"proposal_rejected"} :
         InLedger(c, entry) => ~Delivered(c)
    /\ InLedger(c, "proposed") => Delivered(c)

(* Nothing reaches the fleet ungoverned: a package is admitted only for a  *)
(* cycle whose canonical action survived falsification, once per cycle,    *)
(* and only after the write of that verdict: the ledger has the verdict    *)
(* unless this very write failed (run_cycle 207-289, write_entry).  That   *)
(* the code proposes in that case, too, is VerdictLedgered below.          *)
ProposalsGoverned ==
  /\ \A d \in delivered :
       /\ d.type = plan[d.cycle] /\ d.type \in Canonical
       /\ verdict[d.cycle] = "survives"
       /\ InLedger(d.cycle, "falsify") \/ <<d.cycle, "falsify">> \in missed
  /\ \A d, e \in delivered : d.cycle = e.cycle => d = e

(* What the cooldown still means for overlapping cycles: if two commits of *)
(* one type are closer than Cooldown, the later cycle had passed its check *)
(* before the earlier commit was recorded.                                 *)
OnlyOverlapBreaksCooldown ==
  \A c, d \in Cycles :
    LET i == recordOf[c]
        j == recordOf[d]
    IN  (/\ 0 < i /\ i < j
         /\ history[i].type = history[j].type
         /\ history[j].at - history[i].at < Cooldown)
        => checkedAt[d] < i

(* The damage is bounded: within any Cooldown the fleet admits at most     *)
(* MaxInFlight packages of one action type.  With one cycle at a time this *)
(* is the cooldown itself, measured where it matters, at the fleet.        *)
BoundedBurst ==
  \A d \in delivered :
    Cardinality({e \in delivered :
      e.type = d.type /\ e.at - d.at \in 0 .. Cooldown - 1}) <= MaxInFlight

(* A cycle that has started ends: it returns or it raises.                 *)
CyclesEnd == \A c \in Cycles : pc[c] \in Awaiting ~> pc[c] \in Over

(* A package the fleet has admitted gets its commit record, also when the  *)
(* reply was lost, unless the process crashes or the reply does not        *)
(* validate, which ends the cycle (Committer.commit, record_commit).       *)
DeliveredIsRecorded ==
  \A c \in Cycles : Delivered(c) ~> (recordOf[c] # 0 \/ pc[c] = "aborted")

(* The abstract cycle that run_cycle implements.  A cycle is approved from *)
(* the end of the write of a verdict in its favour, whether or not that    *)
(* write reached the ledger; answered while it awaits the entry of what    *)
(* the fleet said; and recorded once the tracker has its commit.           *)
Phase(c) ==
  CASE pc[c] = "idle"               -> "idle"
    [] pc[c] \in Over               -> "over"
    [] pc[c] \in ProposalEntries    -> "answered"
    [] /\ pc[c] \in Awaiting \ ProposalEntries
       /\ verdict[c] = "survives"
       /\ Written(c, "falsify")     -> "approved"
    [] OTHER                        -> "deciding"

Governed == INSTANCE GovernedCycle WITH
  MaxCrashes <- MaxRestarts,
  phase      <- [c \in Cycles |-> Phase(c)],
  admitted   <- {d.cycle : d \in delivered},
  recorded   <- {c \in Cycles : recordOf[c] # 0},
  crashes    <- restarts

(* run_cycle keeps the promise of GovernedCycle, step by step and with its *)
(* fairness: no stage, error path, failed write or crash lets a package    *)
(* out before the write of its verdict has ended, proposes it twice, or    *)
(* drops an answer.                                                        *)
GovernedSpec == Governed!CycleSpec

-----------------------------------------------------------------------------
(* What the documents say and the code does not do.                        *)

(* "After committing an action, the GCL enforces a 60-second cooldown      *)
(* before the same action type can be committed again": CooldownRespected  *)
(* of Accountability, which run_cycle breaks by awaiting between its check *)
(* and its record.                                                         *)

(* "If the LLM is unavailable ..., the interpreter falls back to a         *)
(* TemplateInterpreter": the interpreting step only ever goes on to the    *)
(* objective's entry.                                                      *)
InterpreterFallsBack ==
  [][\A c \in Cycles : pc[c] = "interpreting" => pc'[c] \in {"interpreting", "interpret"}]_vars

(* "The committer records proposer acceptance, rejection, deferral": what  *)
(* happened to a package is in the ledger once its cycle is over.          *)
AnswerIsLedgered ==
  \A d \in delivered : pc[d.cycle] \in Over =>
    \E entry \in ProposalEntries : InLedger(d.cycle, entry)

(* "When the ledger is unreachable, a configured ledger error fails        *)
(* closed": no package is admitted whose verdict the ledger does not have. *)
VerdictLedgered == \A d \in delivered : InLedger(d.cycle, "falsify")

=============================================================================

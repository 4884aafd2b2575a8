--------------------------- MODULE Accountability ---------------------------
(***************************************************************************)
(* The AccountabilityTracker of gcl/loop/accountability.py: the log of     *)
(* recent commits that the decision cooldown consults, and the commits     *)
(* whose effect on the measured latency is still to be judged.             *)
(*                                                                         *)
(* The tracker is shared by every cycle of the process.  can_commit,       *)
(* record_commit and check_outcomes contain no await, so each is one       *)
(* indivisible step; what may come between a call to can_commit and the    *)
(* matching record_commit is the business of the caller (LoopDriver).      *)
(* TrackerSpec below is the tracker under a caller that lets nothing come  *)
(* between the two.                                                        *)
(***************************************************************************)
EXTENDS Integers, Sequences, FiniteSets

CONSTANTS
  ActionTypes,   \* the action types committed, e.g. "scale", "migrate"
  Latencies,     \* the latency readings that evidence may carry
  Cooldown,      \* decision_cooldown_seconds (0 switches the check off)
  CommitCap,     \* how many commit records are kept: 100 in the code
  MaxPending,    \* max_pending_outcomes
  MinAge,        \* _outcome_min_age_seconds
  MaxTime,       \* bound: the last instant of the clock
  MaxStepBack,   \* bound: how far one correction may set the clock back
  MaxCommits     \* bound: commits made by TrackerSpec

(* Settings (config.py) admits any cooldown >= 0 and any max_pending >= 1. *)
ASSUME TrackerAssumption ==
  /\ IsFiniteSet(ActionTypes)
  /\ Latencies \subseteq Nat
  /\ Cooldown \in Nat
  /\ CommitCap \in Nat \ {0}
  /\ MaxPending \in Nat \ {0}
  /\ MinAge \in Nat
  /\ MaxTime \in Nat
  /\ MaxStepBack \in Nat
  /\ MaxCommits \in Nat

VARIABLES
  now,              \* time.time(): wall clock, so it can be set back
  recentCommits,    \* _recent_commits
  pendingOutcomes,  \* _pending_outcomes, a set: list order is commit order
  outcomes,         \* every OutcomeRecord check_outcomes has returned
  history           \* history variable: every commit record ever appended

trackerVars == <<now, recentCommits, pendingOutcomes, outcomes, history>>

(* A commit is named by its position in history, which stands for the      *)
(* cycle and correlation ids of the record.                                *)
CommitRecord ==
  [id : Nat \ {0}, type : ActionTypes, at : Int, latency : Latencies]

OutcomeRecord ==
  [commit : CommitRecord, after : Latencies, effective : BOOLEAN, judgedAt : Int]

(* What record_commit can tell about the fleet's answer.                   *)
Responses == {"none", "refused", "rejected", "unverified", "verified"}

(* ACTION_EXPECTATIONS: the expected direction of latency_ms, the only     *)
(* metric any action type is judged by.                                    *)
Expectation(type) ==
  CASE type \in {"scale", "pre_warm"} -> "decrease"
    [] type = "shed_load"             -> "stable"
    [] OTHER                          -> "none"

(* s[-n:] for n > 0, and the slip that keeps one element too many.         *)
KeepLastOffByOne(s, n) == SubSeq(s, IF Len(s) > n THEN Len(s) - n ELSE 1, Len(s))

KeepLast(s, n) == SubSeq(s, IF Len(s) > n THEN Len(s) - n + 1 ELSE 1, Len(s))

(* The pending outcomes that survive the cap: the n newest.                *)
KeepNewest(S, n) == {p \in S : Cardinality({q \in S : q.id > p.id}) < n}

-----------------------------------------------------------------------------
(* can_commit: the scan runs from the newest record and stops at the first *)
(* one of this type.                                                       *)

(* A scan from the oldest record. *)
CanCommitOldestFirst(type) ==
  \/ Cooldown = 0
  \/ \A i \in DOMAIN recentCommits :
       (/\ recentCommits[i].type = type
        /\ \A j \in 1 .. i - 1 : recentCommits[j].type # type)
       => now - recentCommits[i].at >= Cooldown

CanCommit(type) ==
  \/ Cooldown = 0
  \/ \A i \in DOMAIN recentCommits :
       (/\ recentCommits[i].type = type
        /\ \A j \in i + 1 .. Len(recentCommits) : recentCommits[j].type # type)
       => now - recentCommits[i].at >= Cooldown

(* Whether record_commit leaves the commit to be judged later.             *)
AwaitsOutcome(type, response, eligible) ==
  /\ eligible
  /\ response \in {"none", "verified"}
  /\ Expectation(type) # "none"

RecordCommit(type, latency, response, eligible) ==
  LET record == [id |-> Len(history) + 1, type |-> type,
                 at |-> now, latency |-> latency]
  IN  /\ history' = Append(history, record)
      /\ recentCommits' = KeepLast(Append(recentCommits, record), CommitCap)
      /\ pendingOutcomes' =
           IF AwaitsOutcome(type, response, eligible)
             THEN KeepNewest(pendingOutcomes \union {record}, MaxPending)
             ELSE pendingOutcomes
      /\ UNCHANGED <<now, outcomes>>

(* "stable" tolerates ten per cent over the latency at the commit.         *)
Effective(commit, after) ==
  /\ Expectation(commit.type) = "decrease" => after < commit.latency
  /\ Expectation(commit.type) = "stable"   => 10 * after <= 11 * commit.latency

(* The pending outcomes a call judges: old enough, with a reading of the   *)
(* metric.  readings is the latency_ms part of the evidence, in order.     *)
Due(readings) ==
  {p \in pendingOutcomes : now - p.at >= MinAge /\ readings # <<>>}

(* Plausible bugs of still_pending: a judged commit is kept; a commit old  *)
(* enough is dropped although there was no reading to judge it by.         *)
StillPendingJudged(readings) == pendingOutcomes
StillPendingYoung(readings)  == {p \in pendingOutcomes : now - p.at < MinAge}

StillPending(readings) == pendingOutcomes \ Due(readings)

CheckOutcomes(readings) ==
  /\ outcomes' = outcomes \union
       {[commit |-> p, after |-> Head(readings), judgedAt |-> now,
         effective |-> Effective(p, Head(readings))] : p \in Due(readings)}
  /\ pendingOutcomes' = StillPending(readings)
  /\ UNCHANGED <<now, recentCommits, history>>

-----------------------------------------------------------------------------
(* The wall clock: time.time() goes on, or follows a correction of the     *)
(* system clock and is set back.                                           *)
ClockMoves ==
  /\ \E d \in -MaxStepBack .. 1 :
       d # 0 /\ now + d \in 0 .. MaxTime /\ now' = now + d
  /\ UNCHANGED <<recentCommits, pendingOutcomes, outcomes, history>>

(* The caller the cooldown was designed for: it commits in the same step   *)
(* as it asks.                                                             *)
CheckedCommit(type, latency, response, eligible) ==
  /\ Len(history) < MaxCommits
  /\ CanCommit(type)
  /\ RecordCommit(type, latency, response, eligible)

TrackerInit ==
  /\ now = 0
  /\ recentCommits = <<>>
  /\ pendingOutcomes = {}
  /\ outcomes = {}
  /\ history = <<>>

TrackerNext ==
  \/ ClockMoves
  \/ \E type \in ActionTypes, latency \in Latencies,
         response \in Responses, eligible \in BOOLEAN :
       CheckedCommit(type, latency, response, eligible)
  \/ \E readings \in {<<>>} \union {<<v>> : v \in Latencies} :
       CheckOutcomes(readings)

TrackerSpec == TrackerInit /\ [][TrackerNext]_trackerVars

-----------------------------------------------------------------------------
(* Properties.                                                             *)

(* Types, and the two limits that keep a long-running tracker small.       *)
TrackerTypeOK ==
  /\ now \in 0 .. MaxTime
  /\ recentCommits \in Seq(CommitRecord) /\ Len(recentCommits) <= CommitCap
  /\ pendingOutcomes \subseteq CommitRecord
  /\ Cardinality(pendingOutcomes) <= MaxPending
  /\ outcomes \subseteq OutcomeRecord
  /\ history \in Seq(CommitRecord)

(* Two commits of one action type are at least Cooldown apart, also when   *)
(* the log has lost its oldest records and commits of other types came     *)
(* between them (can_commit, record_commit).                               *)
CooldownRespected ==
  \A i, j \in DOMAIN history :
    i < j /\ history[i].type = history[j].type
      => history[j].at - history[i].at >= Cooldown

(* A commit is judged at most once and then is no longer pending, so the   *)
(* gcl.outcome entries made from check_outcomes never repeat a commit.     *)
JudgedOnce ==
  /\ \A o, p \in outcomes : o.commit = p.commit => o = p
  /\ \A o \in outcomes : o.commit \notin pendingOutcomes

(* A pending commit leaves the list only by being judged, or because the   *)
(* list is full of MaxPending newer ones (check_outcomes, record_commit).  *)
LostOnlyToNewer ==
  [][\A p \in pendingOutcomes \ pendingOutcomes' :
       \/ \E o \in outcomes' : o.commit = p
       \/ Cardinality({q \in pendingOutcomes' : q.id > p.id}) = MaxPending
    ]_trackerVars

=============================================================================

---------------------------- MODULE OverlapProofs ----------------------------
(***************************************************************************)
(* What is left of the cooldown when cycles overlap.  run_cycle awaits     *)
(* between can_commit and record_commit, so the cooldown itself does not   *)
(* hold; but only cycles that were past their check when a commit was      *)
(* recorded can break it, and there are never more of them than cycles in  *)
(* flight.  Conversely the log of recent commits, which forgets, never     *)
(* forgets a commit that is still cooling down.                            *)
(***************************************************************************)
EXTENDS DriverProofs

-----------------------------------------------------------------------------
(* What the theorems assume of the constants.  AccountabilityProofs states *)
(* SteadyClock: the clock is not set back.                                 *)

(* The process does not restart, which would empty the log of commits.     *)
NoRestarts == MaxRestarts = 0

(* The types a cycle may propose.                                          *)
Proposable == Plans \intersect Canonical

(* The log has room for the commits that the cycles in flight can make of  *)
(* every type within one cooldown.  The code keeps 100 records for four    *)
(* types: room for 25 cycles in flight.                                    *)
RoomForBursts == CommitCap >= Cardinality(Proposable) * MaxInFlight

(* Every reply of the fleet validates.                                     *)
RepliesValidate == "bad_receipt" \notin FleetOutcomes

-----------------------------------------------------------------------------
(* The inductive invariant.                                                *)

(* The cycles that were past their check when record i was made, and have  *)
(* made a record since or still may: i's own cycle is one of them.         *)
Overlapped(i) ==
  {c \in Cycles : checkedAt[c] < i /\ (recordOf[c] >= i \/ pc[c] \in Gated)}

(* The log, and the clock readings in it.                                  *)
LogOK ==
  /\ recentCommits = KeepLast(history, CommitCap)
  /\ \A i \in 1 .. Len(history) : history[i].at <= now /\ history[i].type \in Proposable
  /\ \A i, j \in 1 .. Len(history) : i < j => history[i].at <= history[j].at

(* Every record is that of one cycle, which has returned.                  *)
RecordsOK ==
  /\ \A i \in 1 .. Len(history) : \E c \in Cycles : recordOf[c] = i
  /\ \A c, d \in Cycles : recordOf[c] # 0 /\ recordOf[c] = recordOf[d] => c = d
  /\ \A c \in Cycles : recordOf[c] # 0 =>
       /\ pc[c] = "done" /\ checkedAt[c] < recordOf[c]
       /\ history[recordOf[c]].type = plan[c]

(* The records that cycle c's check saw are a cooldown older than t.       *)
ClearedBy(c, t) ==
  \A i \in 1 .. checkedAt[c] :
    history[i].type = plan[c] => t - history[i].at >= Cooldown

(* What can_commit found is true from then on: of the clock, and of the    *)
(* cycle's own record.                                                     *)
ChecksHold ==
  \A c \in Cycles :
    /\ pc[c] \in Gated => ClearedBy(c, now)
    /\ recordOf[c] # 0 => ClearedBy(c, history[recordOf[c]].at)

BurstsBounded ==
  \A i \in 1 .. Len(history) : Cardinality(Overlapped(i)) <= MaxInFlight

OverlapInv == LogOK /\ RecordsOK /\ ChecksHold /\ BurstsBounded

(* The same for the packages admitted, which come before their records.    *)
DeliveriesOK ==
  \A d \in delivered :
    /\ d.at <= now /\ ClearedBy(d.cycle, d.at)
    /\ recordOf[d.cycle] = 0 => pc[d.cycle] \in ProposalEntries
    /\ recordOf[d.cycle] # 0 => d.at <= history[recordOf[d.cycle]].at

-----------------------------------------------------------------------------
(* Counting the commits of a burst.                                        *)

LEMMA OverlapTypes ==
  ASSUME DriverInv
  PROVE  /\ Len(history) \in Nat /\ now \in Int /\ Cooldown \in Nat
         /\ MaxInFlight \in Nat /\ CommitCap \in Nat \ {0}
         /\ \A i \in 1 .. Len(history) : history[i].at \in Int
         /\ \A c \in Cycles : checkedAt[c] \in 0 .. Len(history) /\ recordOf[c] \in 0 .. Len(history)
         /\ pc \in [Cycles -> Awaiting \union Over \union {"idle"}]
BY HistoryTypes, DriverAssumption, TrackerAssumption DEF DriverInv, DriverTypeOK

(* A record of d's type that is not a cooldown older than d's was made     *)
(* after d had passed its check.                                           *)
LEMMA OnlyOverlap ==
  ASSUME DriverInv, RecordsOK, ChecksHold,
         NEW d \in Cycles, recordOf[d] # 0,
         NEW i \in 1 .. Len(history),
         history[i].type = history[recordOf[d]].type,
         history[recordOf[d]].at - history[i].at < Cooldown
  PROVE  checkedAt[d] < i
<1>1. SUFFICES ASSUME ~(checkedAt[d] < i)  PROVE FALSE
  OBVIOUS
<1>2. i \in 1 .. checkedAt[d]
  BY <1>1, OverlapTypes
<1>3. history[i].type = plan[d]
  BY DEF RecordsOK
<1>4. history[recordOf[d]].at - history[i].at >= Cooldown
  BY <1>2, <1>3 DEF ChecksHold, ClearedBy
<1>5. recordOf[d] \in 1 .. Len(history)
  BY OverlapTypes
<1> QED
  BY <1>4, <1>5, OverlapTypes

(* No more records of one type than MaxInFlight are made within one        *)
(* cooldown.                                                               *)
LEMMA RecordsOfBurst ==
  ASSUME DriverInv, OverlapInv,
         NEW R \in SUBSET (1 .. Len(history)), R # {},
         \A i, j \in R : history[i].type = history[j].type
                         /\ history[j].at - history[i].at < Cooldown
  PROVE  IsFiniteSet(R) /\ Cardinality(R) <= MaxInFlight
<1> DEFINE maker == [j \in R |-> CHOOSE c \in Cycles : recordOf[c] = j]
<1>1. PICK f \in R : \A j \in R : f <= j
  <2>1. R \in SUBSET Nat
    BY OverlapTypes
  <2> QED
    BY <2>1, LeastNatural
<1>2. \A j \in R : maker[j] \in Cycles /\ recordOf[maker[j]] = j
  BY DEF OverlapInv, RecordsOK
<1> HIDE DEF maker
<1>3. ASSUME NEW j \in R  PROVE maker[j] \in Overlapped(f)
  <2>1. recordOf[maker[j]] >= f /\ recordOf[maker[j]] # 0 /\ f \in 1 .. Len(history)
    BY <1>1, <1>2, OverlapTypes
  <2>2. /\ history[f].type = history[recordOf[maker[j]]].type
        /\ history[recordOf[maker[j]]].at - history[f].at < Cooldown
    BY <1>1, <1>2
  <2>3. checkedAt[maker[j]] < f
    BY <1>2, <2>1, <2>2, OnlyOverlap DEF OverlapInv
  <2> QED
    BY <1>2, <2>1, <2>3 DEF Overlapped
<1>4. maker \in Injection(R, Overlapped(f))
  <2>1. maker \in [R -> Overlapped(f)]
    BY <1>3 DEF maker
  <2>2. \A i, j \in R : maker[i] = maker[j] => i = j
    BY <1>2
  <2> QED
    BY <2>1, <2>2 DEF Injection, IsInjective
<1>5. IsFiniteSet(Overlapped(f)) /\ Cardinality(Overlapped(f)) <= MaxInFlight
  <2>1. Overlapped(f) \subseteq Cycles
    BY DEF Overlapped
  <2> QED
    BY <2>1, <1>1, FS_Subset, DriverAssumption DEF OverlapInv, BurstsBounded
<1>6. IsFiniteSet(R) /\ Cardinality(R) <= Cardinality(Overlapped(f))
  BY <1>4, <1>5, FS_Injection
<1> QED
  BY <1>5, <1>6, FS_CardinalityType, OverlapTypes

(* So a record still cooling down is among the last CommitCap ones: after  *)
(* it come at most MaxInFlight records of each type.                       *)
LEMMA CoolingIsKept ==
  ASSUME RoomForBursts, DriverInv, OverlapInv,
         NEW i \in 1 .. Len(history), now - history[i].at < Cooldown
  PROVE  Len(history) - i < CommitCap
<1> DEFINE n == Len(history)
           upTo(k) == {m \in i .. k : history[m].type = history[k].type}
           slots == Proposable \X (1 .. MaxInFlight)
           f == [k \in i .. n |-> <<history[k].type, Cardinality(upTo(k))>>]
<1>1. SUFFICES ASSUME n - i >= CommitCap  PROVE FALSE
  BY OverlapTypes
<1>2. n \in Nat /\ i \in 1 .. n /\ now \in Int /\ Cooldown \in Nat
  BY OverlapTypes
<1>3. ASSUME NEW k \in i .. n
      PROVE  /\ k \in upTo(k) /\ IsFiniteSet(upTo(k))
             /\ Cardinality(upTo(k)) \in 1 .. MaxInFlight
  <2>1. upTo(k) \in SUBSET (1 .. Len(history)) /\ k \in upTo(k) /\ upTo(k) # {}
    BY <1>2
  <2>2. ASSUME NEW a \in upTo(k), NEW b \in upTo(k)
        PROVE  history[a].type = history[b].type /\ history[b].at - history[a].at < Cooldown
    <3>1. a \in 1 .. n /\ b \in 1 .. n /\ i <= a
      BY <1>2
    <3>2. /\ history[a].at \in Int /\ history[b].at \in Int /\ history[i].at \in Int
      BY <3>1, OverlapTypes
    <3>3. history[i].at <= history[a].at
      BY <3>1, <3>2 DEF OverlapInv, LogOK
    <3>4. history[b].at <= now
      BY <3>1 DEF OverlapInv, LogOK
    <3> QED
      BY <1>2, <3>2, <3>3, <3>4
  <2> HIDE DEF upTo
  <2>3. IsFiniteSet(upTo(k)) /\ Cardinality(upTo(k)) <= MaxInFlight
    BY <2>1, <2>2, RecordsOfBurst
  <2>4. Cardinality(upTo(k)) \in Nat /\ Cardinality(upTo(k)) # 0
    BY <2>1, <2>3, FS_CardinalityType, FS_EmptySet
  <2> QED
    BY <2>1, <2>3, <2>4, OverlapTypes
<1>4. f \in [i .. n -> slots]
  <2> HIDE DEF upTo
  <2>1. \A k \in i .. n : history[k].type \in Proposable
    BY <1>2 DEF OverlapInv, LogOK
  <2> QED
    BY <1>3, <2>1
<1>5. IsFiniteSet(slots) /\ Cardinality(slots) <= CommitCap /\ Cardinality(slots) \in Nat
  <2>1. IsFiniteSet(Canonical) /\ Proposable \subseteq Canonical
    BY FS_Subset, DriverAssumption, TrackerAssumption DEF Proposable
  <2>2. IsFiniteSet(Proposable)
    BY <2>1, FS_Subset
  <2>3. IsFiniteSet(1 .. MaxInFlight) /\ Cardinality(1 .. MaxInFlight) = MaxInFlight
    BY FS_Interval, DriverAssumption
  <2>4. /\ IsFiniteSet(slots)
        /\ Cardinality(slots) = Cardinality(Proposable) * MaxInFlight
    BY <2>2, <2>3, FS_Product
  <2> QED
    BY <2>4, FS_CardinalityType DEF RoomForBursts
<1>6. IsFiniteSet(i .. n) /\ Cardinality(i .. n) = n - i + 1
  BY <1>2, FS_Interval
<1>7. Cardinality(slots) < Cardinality(i .. n)
  <2> HIDE DEF slots, n
  <2> QED
    BY <1>1, <1>2, <1>5, <1>6, OverlapTypes
<1> HIDE DEF f, slots
<1>8. PICK x, y \in i .. n : x # y /\ f[x] = f[y]
  BY <1>4, <1>5, <1>6, <1>7, FS_PigeonHole
<1>9. history[x].type = history[y].type /\ Cardinality(upTo(x)) = Cardinality(upTo(y))
  BY <1>8 DEF f
<1>10. ASSUME NEW a \in i .. n, NEW b \in i .. n, a < b,
              history[a].type = history[b].type,
              Cardinality(upTo(a)) = Cardinality(upTo(b))
       PROVE  FALSE
  <2>1. upTo(a) \subseteq upTo(b) /\ b \notin upTo(a)
    BY <1>2, <1>10
  <2>2. b \in upTo(b) /\ IsFiniteSet(upTo(b))
    BY <1>3
  <2> HIDE DEF upTo
  <2>3. upTo(a) = upTo(b)
    BY <1>10, <2>1, <2>2, FS_Subset
  <2> QED
    BY <2>1, <2>2, <2>3
<1>11. x < y \/ y < x
  BY <1>2, <1>8
<1> QED
  BY <1>8, <1>9, <1>10, <1>11

(* Where a recent record is in the log.                                    *)
LEMMA PlaceInLog ==
  ASSUME DriverInv, LogOK, NEW i \in 1 .. Len(history), Len(history) - i < CommitCap
  PROVE  /\ Len(recentCommits) \in Nat /\ Len(recentCommits) <= Len(history)
         /\ DOMAIN recentCommits = 1 .. Len(recentCommits)
         /\ i - (Len(history) - Len(recentCommits)) \in 1 .. Len(recentCommits)
         /\ \A k \in 1 .. Len(recentCommits) :
              recentCommits[k] = history[Len(history) - Len(recentCommits) + k]
<1>1. /\ history \in Seq(CommitRecord) /\ recentCommits \in Seq(CommitRecord)
      /\ Len(history) \in Nat /\ CommitCap \in Nat \ {0}
  BY OverlapTypes DEF DriverInv, TypeInv, TrackerTypeOK
<1>2. Len(recentCommits) \in Nat /\ DOMAIN recentCommits = 1 .. Len(recentCommits)
  BY <1>1, LenProperties
<1>3. CASE Len(history) <= CommitCap
  <2>1. recentCommits = history
    BY <1>1, <1>3, KeepLastShort DEF LogOK
  <2> QED
    BY <1>1, <1>2, <2>1
<1>4. CASE Len(history) > CommitCap
  <2>1. /\ Len(recentCommits) = CommitCap
        /\ \A k \in 1 .. CommitCap : recentCommits[k] = history[Len(history) - CommitCap + k]
    BY <1>1, <1>4, KeepLastLong DEF LogOK
  <2> QED
    BY <1>1, <1>2, <1>4, <2>1
<1> QED
  BY <1>1, <1>3, <1>4

(* A check that succeeds clears every commit of the type ever recorded.    *)
LEMMA CheckClearsAll ==
  ASSUME RoomForBursts, DriverInv, OverlapInv,
         NEW type, CanCommit(type),
         NEW i \in 1 .. Len(history), history[i].type = type
  PROVE  now - history[i].at >= Cooldown
<1> DEFINE n == Len(history)
           m == Len(recentCommits)
<1>1. /\ n \in Nat /\ now \in Int /\ Cooldown \in Nat
      /\ \A k \in 1 .. n : history[k].at \in Int
  BY OverlapTypes
<1>2. SUFFICES ASSUME now - history[i].at < Cooldown  PROVE FALSE
  BY <1>1
<1>3. PICK k \in i .. n :
        /\ history[k].type = type
        /\ \A j \in k + 1 .. n : history[j].type # type
  BY LatestOfType DEF DriverInv
<1>4. k \in 1 .. n /\ history[i].at <= history[k].at
  BY <1>1, <1>3 DEF OverlapInv, LogOK
<1>5. now - history[k].at < Cooldown
  BY <1>1, <1>2, <1>4
<1>6. n - k < CommitCap
  BY <1>4, <1>5, CoolingIsKept
<1> DEFINE p == k - (n - m)
<1>7. /\ m \in Nat /\ m <= n /\ DOMAIN recentCommits = 1 .. m
      /\ p \in 1 .. m
      /\ \A j \in 1 .. m : recentCommits[j] = history[n - m + j]
  BY <1>4, <1>6, PlaceInLog DEF OverlapInv
<1> HIDE DEF m
<1>8. recentCommits[p] = history[k]
  <2>1. n - m + p = k
    BY <1>1, <1>4, <1>7
  <2> QED
    BY <1>7, <2>1
<1>9. \A j \in p + 1 .. m : recentCommits[j].type # type
  <2>1. ASSUME NEW j \in p + 1 .. m  PROVE n - m + j \in k + 1 .. n /\ j \in 1 .. m
    BY <1>1, <1>4, <1>7
  <2> QED
    BY <1>3, <1>7, <2>1
<1>10. Cooldown # 0
  <2>1. history[k].at <= now
    BY <1>4 DEF OverlapInv, LogOK
  <2> QED
    BY <1>1, <1>4, <1>5, <2>1
<1>11. now - recentCommits[p].at >= Cooldown
  <2>1. p \in DOMAIN recentCommits /\ recentCommits[p].type = type
    BY <1>3, <1>7, <1>8
  <2> QED
    BY <1>9, <1>10, <2>1 DEF CanCommit, m
<1> QED
  BY <1>1, <1>4, <1>5, <1>8, <1>11

-----------------------------------------------------------------------------
(* Every step keeps the invariant.                                         *)

(* A step that makes no record and no check.                               *)
QuietStep ==
  /\ UNCHANGED <<recentCommits, history, recordOf, checkedAt>>
  /\ now' \in Int /\ now <= now'
  /\ \A c \in Cycles :
       /\ pc'[c] \in Gated => pc[c] \in Gated
       /\ pc[c] \in Gated \/ pc[c] = "done" => plan'[c] = plan[c]
       /\ pc[c] = "done" => pc'[c] = "done"

LEMMA QuietKeeps ==
  ASSUME DriverInv, OverlapInv, QuietStep
  PROVE  OverlapInv'
<1>1. LogOK'
  BY OverlapTypes DEF OverlapInv, LogOK, QuietStep
<1>2. RecordsOK'
  BY DEF OverlapInv, RecordsOK, QuietStep
<1>3. ChecksHold'
  <2>1. ASSUME NEW c \in Cycles, pc'[c] \in Gated  PROVE ClearedBy(c, now)'
    <3>1. ClearedBy(c, now) /\ plan'[c] = plan[c]
      BY <2>1 DEF OverlapInv, ChecksHold, QuietStep
    <3>2. ASSUME NEW i \in 1 .. checkedAt[c], history[i].type = plan[c]
          PROVE  now' - history[i].at >= Cooldown
      <4>1. i \in 1 .. Len(history)
        BY OverlapTypes
      <4>2. now - history[i].at >= Cooldown
        BY <3>1, <3>2 DEF ClearedBy
      <4> QED
        BY <4>1, <4>2, OverlapTypes DEF QuietStep
    <3> QED
      BY <3>1, <3>2 DEF ClearedBy, QuietStep
  <2>2. ASSUME NEW c \in Cycles, recordOf'[c] # 0
        PROVE  ClearedBy(c, history[recordOf[c]].at)'
    <3>1. /\ ClearedBy(c, history[recordOf[c]].at) /\ plan'[c] = plan[c]
          /\ UNCHANGED <<history, recordOf, checkedAt>>
      BY <2>2 DEF OverlapInv, ChecksHold, RecordsOK, QuietStep
    <3> QED
      BY <3>1 DEF ClearedBy
  <2> QED
    BY <2>1, <2>2 DEF ChecksHold
<1>4. BurstsBounded'
  <2>1. ASSUME NEW i \in 1 .. Len(history)
        PROVE  Cardinality(Overlapped(i)') <= MaxInFlight
    <3>1. Overlapped(i)' \subseteq Overlapped(i) /\ Overlapped(i) \subseteq Cycles
      BY DEF Overlapped, QuietStep
    <3>2. /\ IsFiniteSet(Overlapped(i))
          /\ Cardinality(Overlapped(i)) <= MaxInFlight
      BY <3>1, FS_Subset, DriverAssumption DEF OverlapInv, BurstsBounded
    <3>3. /\ IsFiniteSet(Overlapped(i)')
          /\ Cardinality(Overlapped(i)') <= Cardinality(Overlapped(i))
      BY <3>1, <3>2, FS_Subset
    <3> QED
      BY <3>2, <3>3, FS_CardinalityType, OverlapTypes
  <2> QED
    BY <2>1 DEF BurstsBounded, QuietStep
<1> QED
  BY <1>1, <1>2, <1>3, <1>4 DEF OverlapInv

(* What the other steps of a cycle leave alone.                            *)
LEMMA CycleIsQuiet ==
  ASSUME DriverInv, NEW c \in Cycles, Start(c) \/ Proceed(c),
         ~CheckCooldown(c), ~WriteProposal(c)
  PROVE  QuietStep
<1> USE DEF Gated, Approved, Packaged, ProposalEntries, EndEntries, ModelCalls
<1>1. UNCHANGED <<recentCommits, history, recordOf, checkedAt, now>>
  BY DEF Start, Proceed, WriteCycleStart, CheckOutcomes, Classified, WriteClassify,
     WritePredict, Interpreted, WriteInterpret, LlmError, ControllerError, Infeasible,
     NotCanonical, NoAction, Falsified, WriteFalsify, Attested, WritePromotion, Proposed,
     WriteEnd, trackerVars
<1>2. KeepsOthers(c)
  BY CycleVarsTyped, CycleStep DEF DriverInv
<1>0. pc \in [Cycles -> Awaiting \union Over \union {"idle"}]
  BY OverlapTypes
<1>3. ASSUME NEW p, GoesTo(c, p)  PROVE pc'[c] = p
  BY <1>0, <1>3 DEF GoesTo
<1>4. ASSUME NEW p, Wrote(c, p)  PROVE pc'[c] = p
  BY <1>0, <1>4 DEF Wrote, GoesTo
<1>5. pc'[c] \in Gated => pc[c] \in Gated
  <2>1. CASE pc[c] \in Gated
    BY <2>1
  <2>2. CASE pc[c] \notin Gated
    <3>1. \/ Start(c) \/ WriteCycleStart(c) \/ WriteClassify(c) \/ WritePredict(c)
          \/ WriteInterpret(c) \/ Classified(c) \/ Interpreted(c) \/ LlmError(c)
          \/ ControllerError(c) \/ Infeasible(c) \/ NotCanonical(c) \/ NoAction(c)
          \/ WriteEnd(c)
      BY <2>2 DEF Proceed, Falsified, WriteFalsify, Attested, WritePromotion, Proposed
    <3>2. CASE Start(c) \/ WriteCycleStart(c) \/ WriteClassify(c) \/ WritePredict(c)
               \/ WriteInterpret(c)
      BY <1>3, <1>4, <3>2
      DEF Start, WriteCycleStart, WriteClassify, WritePredict, WriteInterpret
    <3>3. CASE Classified(c) \/ Interpreted(c) \/ LlmError(c) \/ ControllerError(c)
      BY <1>3, <1>4, <3>3 DEF Classified, Interpreted, LlmError, ControllerError
    <3>4. CASE Infeasible(c) \/ NotCanonical(c) \/ NoAction(c) \/ WriteEnd(c)
      BY <1>4, <3>4 DEF Infeasible, NotCanonical, NoAction, WriteEnd
    <3> QED
      BY <3>1, <3>2, <3>3, <3>4
  <2> QED
    BY <2>1, <2>2
<1>6. pc[c] \in Gated \/ pc[c] = "done" => plan'[c] = plan[c]
  BY DEF Start, Proceed, WriteCycleStart, Classified, WriteClassify, WritePredict,
     Interpreted, WriteInterpret, LlmError, ControllerError, Infeasible, NotCanonical,
     NoAction, Falsified, WriteFalsify, Attested, WritePromotion, Proposed, WriteEnd
<1>7. pc[c] # "done"
  BY AfterProposal DEF Over
<1> QED
  BY <1>1, <1>2, <1>5, <1>6, <1>7, OverlapTypes DEF QuietStep, KeepsOthers

LEMMA ClockIsQuiet ==
  ASSUME SteadyClock, DriverInv, ClockStep \/ UNCHANGED vars
  PROVE  QuietStep
<1>1. UNCHANGED driverVars /\ UNCHANGED <<recentCommits, history>>
  BY DEF ClockStep, ClockMoves, vars, trackerVars
<1>2. now' \in Int /\ now <= now'
  <2>1. CASE ClockStep
    <3>1. PICK d \in -MaxStepBack .. 1 : d # 0 /\ now' = now + d
      BY <2>1 DEF ClockStep, ClockMoves
    <3>2. d = 1
      BY <3>1 DEF SteadyClock
    <3> QED
      BY <3>1, <3>2, OverlapTypes
  <2>2. CASE UNCHANGED vars
    BY <2>2, OverlapTypes DEF vars, trackerVars
  <2> QED
    BY <2>1, <2>2
<1> QED
  BY <1>1, <1>2 DEF QuietStep, driverVars

(* can_commit's answer is for all the records there are.                   *)
LEMMA CheckKeeps ==
  ASSUME RoomForBursts, DriverInv, OverlapInv, NEW c \in Cycles, CheckCooldown(c)
  PROVE  OverlapInv'
<1>1. /\ pc[c] = "plan" /\ plan[c] \in Canonical
      /\ UNCHANGED <<plan, recordOf, now, recentCommits, history>>
      /\ Wrote(c, IF CanCommit(plan[c]) THEN "falsifying" ELSE "cooldown")
  BY DEF CheckCooldown, trackerVars
<1>2. /\ checkedAt'[c] = Len(history)
      /\ \A d \in Cycles : d # c => checkedAt'[d] = checkedAt[d]
  BY DEF CheckCooldown, DriverInv, DriverTypeOK
<1>3. /\ pc'[c] = IF CanCommit(plan[c]) THEN "falsifying" ELSE "cooldown"
      /\ \A d \in Cycles : d # c => pc'[d] = pc[d]
  BY <1>1, OverlapTypes DEF Wrote, GoesTo
<1>4. recordOf[c] = 0
  BY <1>1 DEF OverlapInv, RecordsOK
<1>5. LogOK'
  BY <1>1 DEF OverlapInv, LogOK
<1>6. RecordsOK'
  BY <1>1, <1>2, <1>3, <1>4 DEF OverlapInv, RecordsOK
<1>7. ChecksHold'
  <2>1. ASSUME NEW d \in Cycles, d # c
        PROVE  /\ pc'[d] \in Gated => ClearedBy(d, now)'
               /\ recordOf'[d] # 0 => ClearedBy(d, history[recordOf[d]].at)'
    BY <1>1, <1>2, <1>3, <2>1 DEF OverlapInv, ChecksHold, ClearedBy
  <2>2. pc'[c] \in Gated => ClearedBy(c, now)'
    <3>1. ASSUME pc'[c] \in Gated  PROVE CanCommit(plan[c])
      BY <1>3, <3>1 DEF Gated, Approved, Packaged, ProposalEntries
    <3> QED
      BY <1>1, <1>2, <3>1, CheckClearsAll DEF ClearedBy
  <2> QED
    BY <1>1, <1>4, <2>1, <2>2 DEF ChecksHold
<1>8. BurstsBounded'
  <2>1. ASSUME NEW i \in 1 .. Len(history)
        PROVE  Cardinality(Overlapped(i)') <= MaxInFlight
    <3>0. ~(checkedAt'[c] < i)
      BY <1>2, OverlapTypes
    <3>1. Overlapped(i)' \subseteq Overlapped(i) /\ Overlapped(i) \subseteq Cycles
      BY <1>1, <1>2, <1>3, <3>0 DEF Overlapped
    <3>2. /\ IsFiniteSet(Overlapped(i))
          /\ Cardinality(Overlapped(i)) <= MaxInFlight
      BY <3>1, FS_Subset, DriverAssumption DEF OverlapInv, BurstsBounded
    <3>3. /\ IsFiniteSet(Overlapped(i)')
          /\ Cardinality(Overlapped(i)') <= Cardinality(Overlapped(i))
      BY <3>1, <3>2, FS_Subset
    <3> QED
      BY <3>2, <3>3, FS_CardinalityType, OverlapTypes
  <2> QED
    BY <1>1, <2>1 DEF BurstsBounded
<1> QED
  BY <1>5, <1>6, <1>7, <1>8 DEF OverlapInv

(* The record a cycle makes comes last, and finds at most the cycles in    *)
(* flight past their check.                                                *)
LEMMA RecordKeeps ==
  ASSUME DriverInv, OverlapInv, NEW c \in Cycles, WriteProposal(c)
  PROVE  OverlapInv'
<1> DEFINE n == Len(history)
           r == ProposalRecord(c)
<1>0. /\ n \in Nat /\ now \in Int /\ Cooldown \in Nat /\ MaxInFlight \in Nat
      /\ \A i \in 1 .. n : history[i].at \in Int
      /\ \A d \in Cycles : checkedAt[d] \in 0 .. n /\ recordOf[d] \in 0 .. n
  BY OverlapTypes
<1>1. /\ r \in CommitRecord /\ r.type = plan[c] /\ r.at = now
      /\ history' = Append(history, r)
      /\ recentCommits' = KeepLast(Append(recentCommits, r), CommitCap)
      /\ now' = now
      /\ Len(history') = n + 1 /\ history'[n + 1] = r
      /\ \A i \in 1 .. n : history'[i] = history[i]
      /\ plan[c] \in Canonical
  BY ProposalRecorded
<1>2. /\ pc[c] \in ProposalEntries /\ pc'[c] = "done"
      /\ \A d \in Cycles : d # c => pc'[d] = pc[d]
      /\ UNCHANGED <<plan, checkedAt>>
  BY OverlapTypes DEF WriteProposal, Wrote, GoesTo
<1>3. /\ recordOf'[c] = n + 1
      /\ \A d \in Cycles : d # c => recordOf'[d] = recordOf[d]
  BY ProposalRecorded DEF DriverInv, DriverTypeOK
<1>4. pc[c] \in Gated /\ recordOf[c] = 0
  <2>1. pc[c] \in Gated /\ pc[c] # "done"
    BY <1>2 DEF Gated, ProposalEntries
  <2> QED
    BY <2>1 DEF OverlapInv, RecordsOK
<1>5. LogOK'
  <2>1. recentCommits' = KeepLast(history', CommitCap)
    BY <1>1, KeepLastAppend, TrackerAssumption
    DEF OverlapInv, LogOK, DriverInv, TypeInv, TrackerTypeOK
  <2>2. r.type \in Proposable
    <3>1. plan[c] \in Plans \union {"none"}
      BY DEF DriverInv, DriverTypeOK
    <3>2. "none" \notin Canonical
      BY DEF Canonical
    <3> QED
      BY <1>1, <3>1, <3>2 DEF Proposable
  <2> HIDE DEF n, r
  <2>3. \A i \in 1 .. n + 1 : i \in 1 .. n \/ i = n + 1
    BY <1>0
  <2>4. \A i \in 1 .. n : history[i].at <= now /\ history[i].type \in Proposable
    BY DEF OverlapInv, LogOK, n
  <2>5. \A i, j \in 1 .. n : i < j => history[i].at <= history[j].at
    BY DEF OverlapInv, LogOK, n
  <2>6. \A i \in 1 .. n + 1 : history'[i].at <= now' /\ history'[i].type \in Proposable
    BY <1>0, <1>1, <2>2, <2>3, <2>4
  <2>7. \A i, j \in 1 .. n + 1 : i < j => history'[i].at <= history'[j].at
    <3>1. ASSUME NEW i \in 1 .. n + 1, NEW j \in 1 .. n + 1, i < j
          PROVE  history'[i].at <= history'[j].at
      <4>1. i \in 1 .. n
        BY <1>0, <3>1
      <4>2. CASE j \in 1 .. n
        BY <1>1, <2>5, <3>1, <4>1, <4>2
      <4>3. CASE j = n + 1
        BY <1>1, <2>4, <4>1, <4>3
      <4> QED
        BY <2>3, <4>2, <4>3
    <3> QED
      BY <3>1
  <2> QED
    BY <1>1, <2>1, <2>6, <2>7 DEF LogOK
<1> HIDE DEF n, r
<1>6. RecordsOK'
  <2>1. \A i \in 1 .. Len(history') : \E d \in Cycles : recordOf'[d] = i
    <3>1. ASSUME NEW i \in 1 .. n  PROVE \E d \in Cycles : recordOf'[d] = i
      <4>1. PICK d \in Cycles : recordOf[d] = i
        BY DEF OverlapInv, RecordsOK, n
      <4>2. d # c
        BY <1>0, <1>4, <4>1
      <4> QED
        BY <1>3, <4>1, <4>2
    <3> QED
      BY <1>0, <1>1, <1>3, <3>1
  <2>2. \A d, e \in Cycles : recordOf'[d] # 0 /\ recordOf'[d] = recordOf'[e] => d = e
    <3>1. \A d \in Cycles : d # c => recordOf'[d] # n + 1
      BY <1>0, <1>3
    <3> QED
      BY <1>3, <3>1 DEF OverlapInv, RecordsOK
  <2>3. ASSUME NEW d \in Cycles, recordOf'[d] # 0
        PROVE  /\ pc'[d] = "done" /\ checkedAt'[d] < recordOf'[d]
               /\ history'[recordOf'[d]].type = plan'[d]
    <3>1. CASE d = c
      BY <1>0, <1>1, <1>2, <1>3, <3>1
    <3>2. CASE d # c
      <4>1. recordOf[d] \in 1 .. n
        BY <1>0, <1>3, <2>3, <3>2
      <4>2. recordOf[d] # 0 /\ recordOf'[d] = recordOf[d]
        BY <1>3, <2>3, <3>2
      <4>3. pc[d] = "done" /\ checkedAt[d] < recordOf[d] /\ history[recordOf[d]].type = plan[d]
        BY <4>2 DEF OverlapInv, RecordsOK
      <4> QED
        BY <1>1, <1>2, <3>2, <4>1, <4>2, <4>3
    <3> QED
      BY <3>1, <3>2
  <2> QED
    BY <2>1, <2>2, <2>3 DEF RecordsOK
<1>7. ChecksHold'
  <2>1. ASSUME NEW d \in Cycles, NEW t, ClearedBy(d, t)
        PROVE  \A i \in 1 .. checkedAt'[d] :
                 history'[i].type = plan'[d] => t - history'[i].at >= Cooldown
    <3>1. \A i \in 1 .. checkedAt'[d] : i \in 1 .. n /\ i \in 1 .. checkedAt[d]
      BY <1>0, <1>2
    <3> QED
      BY <1>1, <1>2, <2>1, <3>1 DEF ClearedBy
  <2>2. ASSUME NEW d \in Cycles, pc'[d] \in Gated  PROVE ClearedBy(d, now)'
    <3>1. d # c
      BY <1>2, <2>2 DEF Gated, Approved, Packaged, ProposalEntries
    <3>2. ClearedBy(d, now)
      BY <1>2, <2>2, <3>1 DEF OverlapInv, ChecksHold
    <3> QED
      BY <1>1, <2>1, <3>2 DEF ClearedBy
  <2>3. ASSUME NEW d \in Cycles, recordOf'[d] # 0
        PROVE  ClearedBy(d, history[recordOf[d]].at)'
    <3>1. CASE d = c
      <4>1. ClearedBy(c, now)
        BY <1>4 DEF OverlapInv, ChecksHold
      <4>2. history'[recordOf'[c]].at = now
        BY <1>1, <1>3
      <4> QED
        BY <2>1, <3>1, <4>1, <4>2 DEF ClearedBy
    <3>2. CASE d # c
      <4>1. recordOf[d] \in 1 .. n /\ recordOf'[d] = recordOf[d]
        BY <1>0, <1>3, <2>3, <3>2
      <4>2. ClearedBy(d, history[recordOf[d]].at)
        BY <4>1 DEF OverlapInv, ChecksHold
      <4>3. history'[recordOf'[d]].at = history[recordOf[d]].at
        BY <1>1, <4>1
      <4> QED
        BY <2>1, <4>2, <4>3 DEF ClearedBy
    <3> QED
      BY <3>1, <3>2
  <2> QED
    BY <2>2, <2>3 DEF ChecksHold
<1>8. BurstsBounded'
  <2>1. ASSUME NEW i \in 1 .. n  PROVE Cardinality(Overlapped(i)') <= MaxInFlight
    <3>1. \A d \in Cycles : d # c /\ d \in Overlapped(i)' => d \in Overlapped(i)
      BY <1>2, <1>3 DEF Overlapped
    <3>2. c \in Overlapped(i)' => c \in Overlapped(i)
      BY <1>2, <1>4 DEF Overlapped
    <3>3. Overlapped(i)' \subseteq Overlapped(i) /\ Overlapped(i) \subseteq Cycles
      BY <3>1, <3>2 DEF Overlapped
    <3>4. /\ IsFiniteSet(Overlapped(i))
          /\ Cardinality(Overlapped(i)) <= MaxInFlight
      BY <3>3, FS_Subset, DriverAssumption DEF OverlapInv, BurstsBounded, n
    <3>5. /\ IsFiniteSet(Overlapped(i)')
          /\ Cardinality(Overlapped(i)') <= Cardinality(Overlapped(i))
      BY <3>3, <3>4, FS_Subset
    <3> QED
      BY <1>0, <3>4, <3>5, FS_CardinalityType
  <2>2. ASSUME NEW i, i = n + 1  PROVE Cardinality(Overlapped(i)') <= MaxInFlight
    <3>1. ASSUME NEW d \in Overlapped(i)'  PROVE d \in InFlight
      <4>1. d \in Cycles /\ (recordOf'[d] >= n + 1 \/ pc'[d] \in Gated)
        BY <2>2 DEF Overlapped
      <4>2. CASE d = c
        BY <1>2, <4>2 DEF InFlight, Awaiting
      <4>3. CASE d # c
        <5>1. pc[d] \in Gated
          BY <1>0, <1>2, <1>3, <4>1, <4>3
        <5> QED
          BY <4>1, <5>1 DEF InFlight, Awaiting, Gated, Approved, Packaged, ModelCalls,
            EndEntries
      <4> QED
        BY <4>2, <4>3
    <3>2. Overlapped(i)' \subseteq InFlight /\ InFlight \subseteq Cycles
      BY <3>1 DEF InFlight
    <3>3. IsFiniteSet(InFlight) /\ Cardinality(InFlight) <= MaxInFlight
      BY <3>2, FS_Subset, DriverAssumption DEF DriverInv, DriverTypeOK
    <3>4. /\ IsFiniteSet(Overlapped(i)')
          /\ Cardinality(Overlapped(i)') <= Cardinality(InFlight)
      BY <3>2, <3>3, FS_Subset
    <3> QED
      BY <1>0, <3>3, <3>4, FS_CardinalityType
  <2>3. \A i \in 1 .. n + 1 : i \in 1 .. n \/ i = n + 1
    BY <1>0
  <2>4. ASSUME NEW i \in 1 .. Len(history')
        PROVE  Cardinality(Overlapped(i)') <= MaxInFlight
    BY <1>1, <2>1, <2>2, <2>3
  <2> QED
    BY <2>4 DEF BurstsBounded
<1> QED
  BY <1>5, <1>6, <1>7, <1>8 DEF OverlapInv

LEMMA OverlapStep ==
  ASSUME SteadyClock, NoRestarts, RoomForBursts, DriverInv, OverlapInv, [Next]_vars
  PROVE  OverlapInv'
<1>1. ASSUME NEW c \in Cycles, Start(c) \/ Proceed(c)  PROVE OverlapInv'
  BY <1>1, CheckKeeps, RecordKeeps, CycleIsQuiet, QuietKeeps
<1>2. CASE ClockStep \/ UNCHANGED vars
  BY <1>2, ClockIsQuiet, QuietKeeps
<1>3. ~Restart
  BY DEF Restart, NoRestarts, DriverInv, DriverTypeOK
<1> QED
  BY <1>1, <1>2, <1>3 DEF Next

LEMMA OverlapInit == Init => OverlapInv
<1> SUFFICES ASSUME Init  PROVE OverlapInv
  OBVIOUS
<1>1. history = <<>> /\ recentCommits = <<>> /\ Len(history) = 0
  BY EmptySeq DEF Init, TrackerInit
<1>2. KeepLast(<<>>, CommitCap) = <<>>
  <2>1. /\ <<>> \in Seq(CommitRecord) /\ Len(<<>>) <= CommitCap
        /\ CommitCap \in Nat \ {0}
    BY EmptySeq, TrackerAssumption
  <2> QED
    BY <2>1, KeepLastShort
<1>3. LogOK /\ RecordsOK /\ BurstsBounded
  BY <1>1, <1>2 DEF Init, LogOK, RecordsOK, BurstsBounded
<1>4. ChecksHold
  BY DEF Init, ChecksHold, Gated, Approved, Packaged, ProposalEntries
<1> QED
  BY <1>3, <1>4 DEF OverlapInv

LEMMA OverlapInvHolds ==
  ASSUME SteadyClock, NoRestarts, RoomForBursts
  PROVE  Spec => []OverlapInv
<1>1. DriverInv /\ OverlapInv /\ [Next]_vars => OverlapInv'
  BY OverlapStep
<1> QED
  BY <1>1, OverlapInit, DriverInvHolds, PTL DEF Spec

-----------------------------------------------------------------------------
(* The theorems.                                                           *)

(* Two commits of one type closer than the cooldown are the work of        *)
(* cycles that overlap: the later one had been checked before the earlier  *)
(* one was recorded (run_cycle, can_commit, record_commit).                *)
THEOREM OnlyOverlapHolds ==
  ASSUME SteadyClock, NoRestarts, RoomForBursts
  PROVE  Spec => []OnlyOverlapBreaksCooldown
<1>1. DriverInv /\ OverlapInv => OnlyOverlapBreaksCooldown
  <2> SUFFICES ASSUME DriverInv, OverlapInv, NEW c \in Cycles, NEW d \in Cycles,
                      0 < recordOf[c], recordOf[c] < recordOf[d],
                      history[recordOf[c]].type = history[recordOf[d]].type,
                      history[recordOf[d]].at - history[recordOf[c]].at < Cooldown
               PROVE  checkedAt[d] < recordOf[c]
    BY DEF OnlyOverlapBreaksCooldown
  <2>1. recordOf[c] \in 1 .. Len(history) /\ recordOf[d] # 0
    BY OverlapTypes
  <2> QED
    BY <2>1, OnlyOverlap DEF OverlapInv
<1> QED
  BY <1>1, DriverInvHolds, OverlapInvHolds, PTL

(* One cycle at a time: then the cooldown is what the documents say it is, *)
(* for every two commits.                                                  *)
THEOREM CooldownWithoutOverlap ==
  ASSUME SteadyClock, NoRestarts, RoomForBursts, MaxInFlight = 1
  PROVE  Spec => []CooldownRespected
<1>1. DriverInv /\ OverlapInv => CooldownRespected
  <2> SUFFICES ASSUME DriverInv, OverlapInv,
                      NEW i \in DOMAIN history, NEW j \in DOMAIN history, i < j,
                      history[i].type = history[j].type
               PROVE  history[j].at - history[i].at >= Cooldown
    BY DEF CooldownRespected
  <2>1. i \in 1 .. Len(history) /\ j \in 1 .. Len(history)
    BY HistoryTypes DEF DriverInv
  <2>2. SUFFICES ASSUME history[j].at - history[i].at < Cooldown  PROVE FALSE
    BY <2>1, OverlapTypes
  <2>3. PICK c, d \in Cycles : recordOf[c] = i /\ recordOf[d] = j
    BY <2>1 DEF OverlapInv, RecordsOK
  <2>4. checkedAt[c] < i /\ checkedAt[d] < i
    BY <2>1, <2>2, <2>3, OnlyOverlap DEF OverlapInv, RecordsOK
  <2>5. c \in Overlapped(i) /\ d \in Overlapped(i) /\ c # d
    BY <2>1, <2>3, <2>4 DEF Overlapped
  <2>6. /\ IsFiniteSet(Overlapped(i))
        /\ Cardinality(Overlapped(i)) <= 1
    <3>1. Overlapped(i) \subseteq Cycles
      BY DEF Overlapped
    <3> QED
      BY <2>1, <3>1, FS_Subset, DriverAssumption DEF OverlapInv, BurstsBounded
  <2>7. Cardinality(Overlapped(i)) # 0 /\ Cardinality(Overlapped(i)) \in Nat
    BY <2>5, <2>6, FS_EmptySet, FS_CardinalityType
  <2>8. \E x : Overlapped(i) = {x}
    <3>1. Cardinality(Overlapped(i)) = 1
      BY <2>6, <2>7
    <3> QED
      BY <2>6, <3>1, FS_Singleton
  <2> QED
    BY <2>5, <2>8
<1> QED
  BY <1>1, DriverInvHolds, OverlapInvHolds, PTL

-----------------------------------------------------------------------------
(* The packages the fleet admits.                                          *)

(* What a delivery's cycle has been cleared of stays as it is.             *)
LEMMA ClearanceKept ==
  ASSUME DriverInv, [Next]_vars, NEW c \in Cycles, NEW t, ClearedBy(c, t),
         checkedAt'[c] = checkedAt[c], plan'[c] = plan[c]
  PROVE  \A i \in 1 .. checkedAt'[c] :
           history'[i].type = plan'[c] => t - history'[i].at >= Cooldown
<1>1. \A i \in 1 .. checkedAt[c] : i \in 1 .. Len(history)
  BY OverlapTypes
<1>2. \A i \in 1 .. Len(history) : history'[i] = history[i]
  BY TrackerStep
<1> QED
  BY <1>1, <1>2 DEF ClearedBy

LEMMA DeliveriesStep ==
  ASSUME SteadyClock, NoRestarts, RepliesValidate,
         DriverInv, OverlapInv, DeliveriesOK, [Next]_vars
  PROVE  DeliveriesOK'
<1> DEFINE FineNext(d) ==
             /\ d.at <= now' /\ ClearedBy(d.cycle, d.at)'
             /\ recordOf'[d.cycle] = 0 => pc'[d.cycle] \in ProposalEntries
             /\ recordOf'[d.cycle] # 0 => d.at <= history'[recordOf'[d.cycle]].at
<1>0. \A d \in delivered :
        /\ d.cycle \in Cycles /\ d.at \in Int
        /\ pc[d.cycle] \in ProposalEntries \union Over
        /\ d.at <= now /\ ClearedBy(d.cycle, d.at)
        /\ recordOf[d.cycle] = 0 => pc[d.cycle] \in ProposalEntries
        /\ recordOf[d.cycle] # 0 => d.at <= history[recordOf[d.cycle]].at
  BY DEF DriverInv, DriverTypeOK, AdmittedOK, DeliveredRecord, DeliveriesOK
<1>1. ASSUME NEW d \in delivered, now' \in Int, now <= now',
             checkedAt'[d.cycle] = checkedAt[d.cycle],
             recordOf'[d.cycle] = recordOf[d.cycle],
             pc'[d.cycle] = pc[d.cycle], plan'[d.cycle] = plan[d.cycle]
      PROVE  FineNext(d)
  <2>1. d.at <= now'
    BY <1>0, <1>1, OverlapTypes
  <2>2. ClearedBy(d.cycle, d.at)'
    BY <1>0, <1>1, ClearanceKept DEF ClearedBy
  <2>3. recordOf[d.cycle] # 0 => history'[recordOf[d.cycle]] = history[recordOf[d.cycle]]
    <3>1. recordOf[d.cycle] \in 0 .. Len(history) /\ Len(history) \in Nat
      BY <1>0, OverlapTypes
    <3>2. recordOf[d.cycle] # 0 => recordOf[d.cycle] \in 1 .. Len(history)
      BY <3>1
    <3> QED
      BY <3>2, TrackerStep
  <2> QED
    BY <1>0, <1>1, <2>1, <2>2, <2>3
<1>2. CASE ClockStep \/ UNCHANGED vars
  <2>1. QuietStep /\ UNCHANGED driverVars
    BY <1>2, ClockIsQuiet DEF ClockStep, vars
  <2>2. \A d \in delivered : FineNext(d)
    BY <1>1, <2>1 DEF QuietStep, driverVars
  <2> QED
    BY <2>1, <2>2 DEF DeliveriesOK, driverVars
<1>3. ASSUME NEW c \in Cycles, Start(c) \/ Proceed(c), NEW d \in delivered
      PROVE  FineNext(d)
  <2>1. now' = now
    BY <1>3, TrackerActions, ProposalRecorded DEF trackerVars, WriteCycleStart, CheckOutcomes
  <2>2. CASE d.cycle # c
    <3>1. KeepsOthers(c)
      BY <1>3, CycleVarsTyped, CycleStep DEF DriverInv
    <3>2. checkedAt'[d.cycle] = checkedAt[d.cycle]
      BY <1>0, <1>3, <2>2, OtherVars DEF DriverInv, DriverTypeOK
    <3>3. recordOf'[d.cycle] = recordOf[d.cycle]
      <4>1. d.cycle \in Cycles /\ recordOf \in [Cycles -> Nat]
        BY <1>0, OverlapTypes DEF DriverInv, DriverTypeOK
      <4>2. \/ UNCHANGED recordOf
            \/ recordOf' = [recordOf EXCEPT ![c] = Len(history) + 1]
        <5>1. CASE UNCHANGED trackerVars /\ UNCHANGED recordOf /\ ~WriteProposal(c)
          BY <5>1
        <5>2. CASE WriteCycleStart(c)
          BY <5>2 DEF WriteCycleStart
        <5>3. CASE WriteProposal(c)
          BY <5>3, ProposalRecorded
        <5> QED
          BY <1>3, <5>1, <5>2, <5>3, TrackerActions
      <4> QED
        BY <2>2, <4>1, <4>2
    <3>4. pc'[d.cycle] = pc[d.cycle] /\ plan'[d.cycle] = plan[d.cycle]
      BY <1>0, <2>2, <3>1 DEF KeepsOthers
    <3>5. now' \in Int /\ now <= now'
      BY <2>1, OverlapTypes
    <3> HIDE DEF FineNext
    <3> QED
      BY <1>1, <3>2, <3>3, <3>4, <3>5
  <2>3. CASE d.cycle = c
    <3>1. WriteProposal(c)
      BY <1>0, <1>3, <2>3, AfterProposal
    <3>2. UNCHANGED <<plan, checkedAt>>
      BY <3>1 DEF WriteProposal
    <3>3. recordOf'[c] = Len(history) + 1 /\ history'[Len(history) + 1].at = now
      BY <3>1, ProposalRecorded DEF DriverInv, DriverTypeOK
    <3>4. ClearedBy(d.cycle, d.at)'
      BY <1>0, <3>2, ClearanceKept DEF ClearedBy
    <3> QED
      BY <1>0, <2>1, <2>3, <3>3, <3>4, OverlapTypes
  <2> QED
    BY <2>2, <2>3
<1>4. ASSUME NEW c \in Cycles, Proposed(c), delivered' # delivered
      PROVE  FineNext(Package(c)) /\ delivered' = delivered \union {Package(c)}
  <2>1. /\ pc[c] = "proposing" /\ UNCHANGED <<plan, history, now, recordOf, checkedAt>>
        /\ pc'[c] \in ProposalEntries
        /\ delivered' = delivered \union {Package(c)}
    BY <1>4, OverlapTypes
    DEF Proposed, GoesTo, EntryFor, Admitting, ProposalEntries, RepliesValidate, Package,
        trackerVars
  <2>2. ClearedBy(c, now)
    BY <2>1 DEF OverlapInv, ChecksHold, Gated, Approved, Packaged
  <2>3. recordOf[c] = 0
    BY <2>1 DEF OverlapInv, RecordsOK
  <2>4. Package(c).cycle = c /\ Package(c).at = now
    BY DEF Package
  <2>5. ClearedBy(Package(c).cycle, Package(c).at)'
    BY <2>1, <2>2, <2>4, ClearanceKept DEF ClearedBy, Package
  <2> QED
    BY <2>1, <2>3, <2>4, <2>5, OverlapTypes
<1>5. ASSUME NEW c \in Cycles, Start(c) \/ Proceed(c)  PROVE DeliveriesOK'
  <2>1. delivered' = delivered \/ Proposed(c)
    BY <1>5, OtherVars
  <2>2. \A d \in delivered : FineNext(d)
    BY <1>3, <1>5
  <2>3. CASE delivered' = delivered
    BY <2>2, <2>3 DEF DeliveriesOK
  <2>4. CASE delivered' # delivered
    <3>1. FineNext(Package(c)) /\ delivered' = delivered \union {Package(c)}
      BY <1>4, <2>1, <2>4
    <3> HIDE DEF FineNext
    <3>2. \A d \in delivered' : FineNext(d)
      BY <2>2, <3>1
    <3> QED
      BY <3>2 DEF DeliveriesOK, FineNext
  <2> QED
    BY <2>3, <2>4
<1>6. ~Restart
  BY DEF Restart, NoRestarts, DriverInv, DriverTypeOK
<1> QED
  BY <1>2, <1>5, <1>6 DEF Next

(* Why a burst is bounded: its first record finds all its cycles past      *)
(* their checks.                                                           *)
LEMMA BurstOfDeliveries ==
  ASSUME DriverInv, OverlapInv, DeliveriesOK, NEW d \in delivered
  PROVE  Cardinality({e \in delivered :
           e.type = d.type /\ e.at - d.at \in 0 .. Cooldown - 1}) <= MaxInFlight
<1> DEFINE S == {e \in delivered : e.type = d.type /\ e.at - d.at \in 0 .. Cooldown - 1}
           maker == [e \in S |-> e.cycle]
<1>0. /\ Cooldown \in Nat /\ MaxInFlight \in Nat /\ d.at \in Int
      /\ \A e \in S :
           /\ e \in delivered /\ e.type = d.type /\ e.at \in Int /\ e.cycle \in Cycles
           /\ d.at <= e.at /\ e.at - d.at < Cooldown
           /\ e.type = plan[e.cycle]
      /\ \A e, g \in S : e.cycle = g.cycle => e = g
  <2>1. Cooldown \in Nat /\ MaxInFlight \in Nat
    BY OverlapTypes
  <2>2. /\ \A e \in delivered : e.cycle \in Cycles /\ e.at \in Int
        /\ \A e \in delivered : e.type = plan[e.cycle]
        /\ \A e, g \in delivered : e.cycle = g.cycle => e = g
    BY DEF DriverInv, DriverTypeOK, DeliveredRecord, AdmittedOK
  <2>3. ASSUME NEW e \in S  PROVE d.at <= e.at /\ e.at - d.at < Cooldown
    BY <2>1, <2>2
  <2> QED
    BY <2>1, <2>2, <2>3
<1> HIDE DEF S
<1>1. ASSUME NEW T \in SUBSET Cycles, \A e \in S : e.cycle \in T,
             Cardinality(T) <= MaxInFlight
      PROVE  Cardinality(S) <= MaxInFlight
  <2>1. maker \in Injection(S, T)
    BY <1>0, <1>1 DEF Injection, IsInjective
  <2>2. IsFiniteSet(T)
    BY FS_Subset, DriverAssumption
  <2>3. IsFiniteSet(S) /\ Cardinality(S) <= Cardinality(T)
    BY <2>1, <2>2, FS_Injection
  <2> QED
    BY <1>0, <1>1, <2>2, <2>3, FS_CardinalityType
<1>2. CASE \A e \in S : recordOf[e.cycle] = 0
  <2>1. \A e \in S : e.cycle \in InFlight
    BY <1>0, <1>2 DEF DeliveriesOK, InFlight, Awaiting
  <2>2. InFlight \in SUBSET Cycles /\ Cardinality(InFlight) <= MaxInFlight
    BY DEF InFlight, DriverInv, DriverTypeOK
  <2> QED
    BY <1>1, <2>1, <2>2 DEF S
<1>3. CASE \E e \in S : recordOf[e.cycle] # 0
  <2> DEFINE made == {i \in 1 .. Len(history) : \E e \in S : recordOf[e.cycle] = i}
  <2>1. made \in SUBSET Nat /\ made # {}
    <3>1. PICK e \in S : recordOf[e.cycle] # 0
      BY <1>3
    <3>2. recordOf[e.cycle] \in 1 .. Len(history)
      BY <1>0, <3>1, OverlapTypes
    <3> QED
      BY <3>2, OverlapTypes
  <2>2. PICK f \in made : \A i \in made : f <= i
    BY <2>1, LeastNatural
  <2>3. PICK g \in S : recordOf[g.cycle] = f
    BY <2>2
  <2>4. /\ f \in 1 .. Len(history) /\ f # 0 /\ history[f].at \in Int
        /\ history[f].type = d.type /\ g.at <= history[f].at
    BY <1>0, <2>2, <2>3, OverlapTypes DEF DeliveriesOK, OverlapInv, RecordsOK
  <2>5. ASSUME NEW e \in S  PROVE e.cycle \in Overlapped(f)
    <3>1. recordOf[e.cycle] >= f \/ pc[e.cycle] \in Gated
      <4>1. CASE recordOf[e.cycle] = 0
        BY <1>0, <4>1 DEF DeliveriesOK, Gated
      <4>2. CASE recordOf[e.cycle] # 0
        <5>1. recordOf[e.cycle] \in made
          BY <1>0, <4>2, OverlapTypes
        <5> QED
          BY <1>0, <2>2, <2>4, <5>1, OverlapTypes
      <4> QED
        BY <4>1, <4>2
    <3>2. checkedAt[e.cycle] < f
      <4>1. SUFFICES ASSUME ~(checkedAt[e.cycle] < f)  PROVE FALSE
        OBVIOUS
      <4>2. f \in 1 .. checkedAt[e.cycle]
        BY <1>0, <2>4, <4>1, OverlapTypes
      <4>3. ClearedBy(e.cycle, e.at) /\ history[f].type = plan[e.cycle]
        BY <1>0, <2>4 DEF DeliveriesOK
      <4>4. e.at - history[f].at >= Cooldown
        BY <4>2, <4>3 DEF ClearedBy
      <4>5. e.at \in Int /\ e.at - d.at < Cooldown /\ g.at \in Int /\ d.at <= g.at
        BY <1>0, <2>3
      <4> QED
        BY <1>0, <2>4, <4>4, <4>5
    <3> QED
      BY <1>0, <3>1, <3>2 DEF Overlapped
  <2>6. Overlapped(f) \in SUBSET Cycles /\ Cardinality(Overlapped(f)) <= MaxInFlight
    BY <2>4 DEF Overlapped, OverlapInv, BurstsBounded
  <2> QED
    BY <1>1, <2>5, <2>6 DEF S
<1> QED
  BY <1>2, <1>3 DEF S

(* Within any cooldown the fleet admits at most MaxInFlight packages of    *)
(* one type, wherever in their cycles the others are (Committer.commit).   *)
THEOREM BoundedBurstHolds ==
  ASSUME SteadyClock, NoRestarts, RoomForBursts, RepliesValidate
  PROVE  Spec => []BoundedBurst
<1>1. Init => DeliveriesOK
  BY DEF Init, DeliveriesOK
<1>2. DriverInv /\ OverlapInv /\ DeliveriesOK /\ [Next]_vars => DeliveriesOK'
  BY DeliveriesStep
<1>3. DriverInv /\ OverlapInv /\ DeliveriesOK => BoundedBurst
  BY BurstOfDeliveries DEF BoundedBurst
<1> QED
  BY <1>1, <1>2, <1>3, DriverInvHolds, OverlapInvHolds, PTL DEF Spec

=============================================================================

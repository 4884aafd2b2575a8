------------------------ MODULE AccountabilityProofs ------------------------
(***************************************************************************)
(* What holds of the tracker for every cooldown, cap and set of types.     *)
(* One theorem for each property that MCAccountability checks.             *)
(***************************************************************************)
EXTENDS Accountability, Arithmetic, SequenceTheorems, FiniteSetTheorems, TLAPS

-----------------------------------------------------------------------------
(* Lemmas about the operators of the tracker.                              *)

(* KeepLast(s, n) is s when s is short enough (s[-n:]), ...                *)
LEMMA KeepLastShort ==
  ASSUME NEW S, NEW s \in Seq(S), NEW n \in Nat \ {0}, Len(s) <= n
  PROVE  KeepLast(s, n) = s
<1>1. Len(s) \in Nat /\ ~(Len(s) > n)
  BY LenProperties
<1> QED
  BY <1>1, SubSeqFull DEF KeepLast

(* ... and the last n elements of s when it is longer.                     *)
LEMMA KeepLastLong ==
  ASSUME NEW S, NEW s \in Seq(S), NEW n \in Nat \ {0}, Len(s) > n
  PROVE  /\ KeepLast(s, n) \in Seq(S)
         /\ Len(KeepLast(s, n)) = n
         /\ \A i \in 1 .. n : KeepLast(s, n)[i] = s[Len(s) - n + i]
<1> DEFINE first == Len(s) - n + 1
<1>1. Len(s) \in Nat /\ first \in Int /\ 1 <= first /\ first <= Len(s)
  BY LenProperties
<1>2. Len(s) - first + 1 = n /\ \A i \in 1 .. n : first + i - 1 = Len(s) - n + i
  BY <1>1
<1>3. KeepLast(s, n) = SubSeq(s, first, Len(s))
  BY DEF KeepLast
<1>4. \A i \in first .. Len(s) : s[i] \in S
  BY <1>1, ElementOfSeq
<1> HIDE DEF first
<1>5. /\ SubSeq(s, first, Len(s)) \in Seq(S)
      /\ Len(SubSeq(s, first, Len(s))) = IF first <= Len(s) THEN Len(s) - first + 1 ELSE 0
      /\ \A i \in 1 .. Len(s) - first + 1 :
           SubSeq(s, first, Len(s))[i] = s[first + i - 1]
  BY <1>1, <1>4, SubSeqProperties
<1> QED
  BY <1>1, <1>2, <1>3, <1>5

(* Appending one element and keeping the last n is the same whether one    *)
(* starts from the whole sequence or from its last n elements.             *)
LEMMA KeepLastAppend ==
  ASSUME NEW S, NEW s \in Seq(S), NEW e \in S, NEW n \in Nat \ {0}
  PROVE  KeepLast(Append(KeepLast(s, n), e), n) = KeepLast(Append(s, e), n)
<1>1. CASE Len(s) <= n
  BY <1>1, KeepLastShort
<1>2. CASE Len(s) > n
  <2> DEFINE k  == KeepLast(s, n)
             ke == Append(k, e)
             se == Append(s, e)
             N  == Len(s)
  <2>1. /\ N \in Nat /\ N > n
        /\ k \in Seq(S) /\ Len(k) = n
        /\ \A i \in 1 .. n : k[i] = s[N - n + i]
    BY <1>2, KeepLastLong, LenProperties
  <2> HIDE DEF k
  <2>2. /\ ke \in Seq(S) /\ Len(ke) = n + 1 /\ Len(ke) > n
        /\ \A i \in 1 .. n + 1 :
             ke[i] = IF i = n + 1 THEN e ELSE s[N - n + i]
    <3>1. /\ ke \in Seq(S) /\ Len(ke) = n + 1
          /\ \A i \in 1 .. n + 1 : ke[i] = IF i = n + 1 THEN e ELSE k[i]
      BY <2>1, AppendProperties
    <3> QED
      BY <2>1, <3>1
  <2>3. /\ se \in Seq(S) /\ Len(se) = N + 1 /\ Len(se) > n
        /\ \A i \in 1 .. N + 1 : se[i] = IF i = N + 1 THEN e ELSE s[i]
    <3> HIDE DEF ke
    <3>1. se \in Seq(S) /\ Len(se) = N + 1
      OBVIOUS
    <3>2. Len(se) > n
      BY <3>1, <2>1
    <3>3. ASSUME NEW i \in 1 .. N + 1
          PROVE  se[i] = IF i = N + 1 THEN e ELSE s[i]
      OBVIOUS
    <3> QED
      BY <3>1, <3>2, <3>3
  <2> HIDE DEF ke, se, N
  <2>4. /\ KeepLast(ke, n) \in Seq(S) /\ Len(KeepLast(ke, n)) = n
        /\ \A i \in 1 .. n : KeepLast(ke, n)[i] = ke[n + 1 - n + i]
    <3>1. /\ KeepLast(ke, n) \in Seq(S) /\ Len(KeepLast(ke, n)) = n
          /\ \A i \in 1 .. n : KeepLast(ke, n)[i] = ke[Len(ke) - n + i]
      BY <2>2, KeepLastLong
    <3> QED
      BY <3>1, <2>2
  <2>5. /\ KeepLast(se, n) \in Seq(S) /\ Len(KeepLast(se, n)) = n
        /\ \A i \in 1 .. n : KeepLast(se, n)[i] = se[N + 1 - n + i]
    <3>1. se \in Seq(S) /\ Len(se) > n /\ Len(se) = N + 1
      BY <2>3
    <3>2. /\ KeepLast(se, n) \in Seq(S) /\ Len(KeepLast(se, n)) = n
          /\ \A i \in 1 .. n : KeepLast(se, n)[i] = se[Len(se) - n + i]
      BY <3>1, KeepLastLong
    <3>3. \A i \in 1 .. n : KeepLast(se, n)[i] = se[N + 1 - n + i]
      BY <3>1, <3>2, <2>1
    <3> QED
      BY <3>2, <3>3
  <2>6. ASSUME NEW i \in 1 .. n  PROVE KeepLast(ke, n)[i] = KeepLast(se, n)[i]
    <3>1. n + 1 - n + i \in 1 .. n + 1 /\ N + 1 - n + i \in 1 .. N + 1
      BY <2>1
    <3>2. KeepLast(ke, n)[i] = IF i = n THEN e ELSE s[N - n + (i + 1)]
      BY <3>1, <2>2, <2>4
    <3>3. KeepLast(se, n)[i] = IF i = n THEN e ELSE s[N + 1 - n + i]
      BY <3>1, <2>1, <2>3, <2>5
    <3>4. N - n + (i + 1) = N + 1 - n + i
      BY <2>1
    <3> QED
      BY <3>2, <3>3, <3>4
  <2>7. KeepLast(ke, n) = KeepLast(se, n)
    BY <2>4, <2>5, <2>6, SeqEqual
  <2> QED
    BY <2>7 DEF k, ke, se
<1> QED
  BY <1>1, <1>2, LenProperties

(* A list of at most n pending commits to which one is added and whose     *)
(* oldest are then dropped holds at most n again, ...                      *)
LEMMA KeepNewestBounded ==
  ASSUME NEW S, IsFiniteSet(S), NEW n \in Nat \ {0},
         Cardinality(S) <= n + 1,
         \A p \in S : p.id \in Nat,
         \A p, q \in S : p.id = q.id => p = q
  PROVE  /\ IsFiniteSet(KeepNewest(S, n))
         /\ Cardinality(KeepNewest(S, n)) <= n
<1> DEFINE K == KeepNewest(S, n)
           newer(p) == {q \in S : q.id > p.id}
<1>1. K \subseteq S
  BY DEF KeepNewest
<1>2. IsFiniteSet(K) /\ Cardinality(K) <= Cardinality(S)
  BY <1>1, FS_Subset
<1>3. Cardinality(S) \in Nat /\ Cardinality(K) \in Nat
  BY <1>2, FS_CardinalityType
<1>4. CASE Cardinality(S) <= n
  BY <1>2, <1>3, <1>4
<1>5. CASE Cardinality(S) = n + 1
  <2>1. S # {}
    BY <1>5, FS_EmptySet
  <2>2. PICK p \in S : \A q \in S : p.id <= q.id
    <3> DEFINE T == {q.id : q \in S}
    <3>1. T \in SUBSET Nat /\ T # {}
      BY <2>1
    <3>2. PICK x \in T : \A y \in T : x <= y
      BY <3>1, LeastNatural
    <3> QED
      BY <3>2
  <2>3. newer(p) = S \ {p}
    BY <2>2
  <2>4. Cardinality(S \ {p}) = n
    BY <1>5, FS_RemoveElement
  <2>5. p \notin K
    BY <2>3, <2>4 DEF KeepNewest
  <2>6. K \subseteq S \ {p} /\ IsFiniteSet(S \ {p})
    BY <1>1, <2>5, FS_RemoveElement
  <2>7. Cardinality(K) <= Cardinality(S \ {p})
    BY <2>6, FS_Subset
  <2> QED
    BY <1>2, <2>4, <2>7
<1> QED
  BY <1>3, <1>4, <1>5

(* ... and what it dropped has n newer ones left in the list.              *)
LEMMA KeepNewestDropped ==
  ASSUME NEW S, IsFiniteSet(S), NEW n \in Nat \ {0},
         Cardinality(S) <= n + 1,
         \A p \in S : p.id \in Nat,
         NEW p \in S, p \notin KeepNewest(S, n)
  PROVE  Cardinality({q \in KeepNewest(S, n) : q.id > p.id}) = n
<1> DEFINE newer(o) == {q \in S : q.id > o.id}
<1>1. newer(p) \subseteq S \ {p} /\ IsFiniteSet(S \ {p})
  BY FS_RemoveElement
<1>2. Cardinality(S \ {p}) <= n
  <2>1. Cardinality(S) \in Nat
    BY FS_CardinalityType
  <2>2. Cardinality(S \ {p}) = Cardinality(S) - 1
    BY FS_RemoveElement
  <2> QED
    BY <2>1, <2>2
<1>3. /\ IsFiniteSet(newer(p)) /\ Cardinality(newer(p)) \in Nat
      /\ Cardinality(newer(p)) <= n
  BY <1>1, <1>2, FS_Subset, FS_CardinalityType
<1>4. Cardinality(newer(p)) = n
  <2>1. ~(Cardinality(newer(p)) < n)
    BY DEF KeepNewest
  <2> QED
    BY <1>3, <2>1
<1>5. ASSUME NEW q \in newer(p)  PROVE q \in KeepNewest(S, n)
  <2>1. newer(q) \subseteq newer(p) \ {q}
    OBVIOUS
  <2>2. /\ IsFiniteSet(newer(p) \ {q})
        /\ Cardinality(newer(p) \ {q}) = n - 1
    BY <1>3, <1>4, FS_RemoveElement
  <2>3. Cardinality(newer(q)) <= n - 1 /\ Cardinality(newer(q)) \in Nat
    BY <2>1, <2>2, FS_Subset, FS_CardinalityType
  <2>4. Cardinality(newer(q)) < n
    BY <2>3
  <2> QED
    BY <2>4 DEF KeepNewest
<1>6. {q \in KeepNewest(S, n) : q.id > p.id} = newer(p)
  BY <1>5 DEF KeepNewest
<1> QED
  BY <1>4, <1>6

-----------------------------------------------------------------------------
(* Type correctness, the limits, and the numbering of the commits on which *)
(* the limit of the pending list rests.                                    *)

PendingNumbered ==
  /\ IsFiniteSet(pendingOutcomes)
  /\ \A p \in pendingOutcomes : p.id <= Len(history)
  /\ \A p, q \in pendingOutcomes : p.id = q.id => p = q

TypeInv == TrackerTypeOK /\ PendingNumbered

(* The record a commit appends.                                            *)
NewRecord(type, latency) ==
  [id |-> Len(history) + 1, type |-> type, at |-> now, latency |-> latency]

(* The record that record_commit builds is a commit record.                *)
LEMMA NewRecordType ==
  ASSUME TypeInv, NEW type \in ActionTypes, NEW latency \in Latencies
  PROVE  /\ NewRecord(type, latency) \in CommitRecord
         /\ NewRecord(type, latency).id = Len(history) + 1
         /\ Len(history) \in Nat
<1>1. Len(history) \in Nat
  BY LenProperties DEF TypeInv, TrackerTypeOK
<1>2. now \in Int
  BY TrackerAssumption DEF TypeInv, TrackerTypeOK
<1> QED
  BY <1>1, <1>2 DEF NewRecord, CommitRecord

(* What the cap sees when a commit joins the pending ones.                 *)
LEMMA PendingWithNew ==
  ASSUME TypeInv, NEW type \in ActionTypes, NEW latency \in Latencies
  PROVE  LET S == pendingOutcomes \union {NewRecord(type, latency)}
         IN  /\ S \subseteq CommitRecord
             /\ IsFiniteSet(S)
             /\ Cardinality(S) <= MaxPending + 1
             /\ \A p \in S : p.id \in Nat /\ p.id <= Len(history) + 1
             /\ \A p, q \in S : p.id = q.id => p = q
<1> DEFINE r == NewRecord(type, latency)
           S == pendingOutcomes \union {r}
<1>1. r \in CommitRecord /\ r.id = Len(history) + 1 /\ Len(history) \in Nat
  BY NewRecordType
<1> HIDE DEF r
<1>2. S \subseteq CommitRecord
  BY <1>1 DEF TypeInv, TrackerTypeOK
<1>3. IsFiniteSet(S) /\ Cardinality(S) <= Cardinality(pendingOutcomes) + 1
  <2>1. IsFiniteSet(pendingOutcomes) /\ Cardinality(pendingOutcomes) \in Nat
    BY FS_CardinalityType DEF TypeInv, PendingNumbered
  <2>2. /\ IsFiniteSet(S)
        /\ Cardinality(S) = IF r \in pendingOutcomes THEN Cardinality(pendingOutcomes)
                                                    ELSE Cardinality(pendingOutcomes) + 1
    BY <2>1, FS_AddElement
  <2> QED
    BY <2>1, <2>2
<1>4. Cardinality(S) <= MaxPending + 1
  <2>1. /\ Cardinality(pendingOutcomes) \in Nat /\ Cardinality(S) \in Nat
        /\ Cardinality(pendingOutcomes) <= MaxPending
    BY <1>3, FS_CardinalityType DEF TypeInv, PendingNumbered, TrackerTypeOK
  <2> QED
    BY <1>3, <2>1, TrackerAssumption
<1>5. \A p \in S : p.id \in Nat
  BY <1>2 DEF CommitRecord
<1>6. \A p \in pendingOutcomes : p.id <= Len(history)
  BY DEF TypeInv, PendingNumbered
<1>7. \A p \in S : p.id <= Len(history) + 1
  BY <1>1, <1>5, <1>6
<1>8. \A p \in pendingOutcomes : p.id # r.id
  BY <1>1, <1>5, <1>6
<1>9. \A p, q \in S : p.id = q.id => p = q
  BY <1>8 DEF TypeInv, PendingNumbered
<1> QED
  BY <1>2, <1>3, <1>4, <1>5, <1>7, <1>9 DEF r

(* record_commit keeps the types and both caps.                            *)
LEMMA RecordCommitType ==
  ASSUME TypeInv, NEW type \in ActionTypes, NEW latency \in Latencies,
         NEW response, NEW eligible,
         RecordCommit(type, latency, response, eligible)
  PROVE  TypeInv'
<1> DEFINE r == NewRecord(type, latency)
           S == pendingOutcomes \union {r}
<1>1. r \in CommitRecord /\ Len(history) \in Nat
  BY NewRecordType
<1>2. /\ S \subseteq CommitRecord
      /\ IsFiniteSet(S)
      /\ Cardinality(S) <= MaxPending + 1
      /\ \A p \in S : p.id \in Nat /\ p.id <= Len(history) + 1
      /\ \A p, q \in S : p.id = q.id => p = q
  BY PendingWithNew
<1>3. /\ history' = Append(history, r)
      /\ recentCommits' = KeepLast(Append(recentCommits, r), CommitCap)
      /\ pendingOutcomes' = pendingOutcomes \/ pendingOutcomes' = KeepNewest(S, MaxPending)
      /\ now' = now /\ outcomes' = outcomes
  BY DEF RecordCommit, NewRecord
<1> HIDE DEF r, S
<1>4. history' \in Seq(CommitRecord) /\ Len(history') = Len(history) + 1
  BY <1>1, <1>3 DEF TypeInv, TrackerTypeOK
<1>5. recentCommits' \in Seq(CommitRecord) /\ Len(recentCommits') <= CommitCap
  <2>1. Append(recentCommits, r) \in Seq(CommitRecord)
    BY <1>1 DEF TypeInv, TrackerTypeOK
  <2>2. CASE Len(Append(recentCommits, r)) <= CommitCap
    BY <1>3, <2>1, <2>2, KeepLastShort, TrackerAssumption
  <2>3. CASE Len(Append(recentCommits, r)) > CommitCap
    <3> DEFINE s == Append(recentCommits, r)
    <3>1. s \in Seq(CommitRecord) /\ Len(s) > CommitCap /\ CommitCap \in Nat \ {0}
      BY <2>1, <2>3, TrackerAssumption
    <3> HIDE DEF s
    <3>2. KeepLast(s, CommitCap) \in Seq(CommitRecord) /\ Len(KeepLast(s, CommitCap)) = CommitCap
      BY <3>1, KeepLastLong
    <3> QED
      BY <1>3, <3>1, <3>2 DEF s
  <2>4. Len(Append(recentCommits, r)) \in Nat
    BY <2>1, LenProperties
  <2> QED
    BY <2>2, <2>3, <2>4, TrackerAssumption
<1>6. /\ pendingOutcomes' \subseteq CommitRecord
      /\ Cardinality(pendingOutcomes') <= MaxPending
      /\ PendingNumbered'
  <2>1. CASE pendingOutcomes' = pendingOutcomes
    BY <1>1, <1>4, <2>1 DEF TypeInv, TrackerTypeOK, PendingNumbered, CommitRecord
  <2>2. CASE pendingOutcomes' = KeepNewest(S, MaxPending)
    <3>1. /\ IsFiniteSet(pendingOutcomes')
          /\ Cardinality(pendingOutcomes') <= MaxPending
      BY <1>2, <2>2, KeepNewestBounded, TrackerAssumption
    <3>2. pendingOutcomes' \subseteq S
      BY <2>2 DEF KeepNewest
    <3> QED
      BY <1>2, <1>4, <3>1, <3>2 DEF PendingNumbered
  <2> QED
    BY <1>3, <2>1, <2>2
<1> QED
  BY <1>3, <1>4, <1>5, <1>6 DEF TypeInv, TrackerTypeOK

(* check_outcomes keeps the types and both caps.                           *)
LEMMA CheckOutcomesType ==
  ASSUME TypeInv, NEW readings \in {<<>>} \union {<<v>> : v \in Latencies},
         CheckOutcomes(readings)
  PROVE  TypeInv'
<1>1. pendingOutcomes' \subseteq pendingOutcomes
  BY DEF CheckOutcomes, StillPending
<1>2. /\ IsFiniteSet(pendingOutcomes')
      /\ Cardinality(pendingOutcomes') <= MaxPending
  <2>1. /\ IsFiniteSet(pendingOutcomes')
        /\ Cardinality(pendingOutcomes') <= Cardinality(pendingOutcomes)
    BY <1>1, FS_Subset DEF TypeInv, PendingNumbered
  <2>2. Cardinality(pendingOutcomes) \in Nat /\ Cardinality(pendingOutcomes') \in Nat
    BY <2>1, FS_CardinalityType DEF TypeInv, PendingNumbered
  <2> QED
    BY <2>1, <2>2, TrackerAssumption DEF TypeInv, TrackerTypeOK
<1>3. ASSUME NEW p \in Due(readings)
      PROVE  [commit |-> p, after |-> Head(readings), judgedAt |-> now,
              effective |-> Effective(p, Head(readings))] \in OutcomeRecord
  <2>1. p \in CommitRecord /\ readings # <<>>
    BY DEF Due, TypeInv, TrackerTypeOK
  <2>2. PICK v \in Latencies : readings = <<v>>
    BY <2>1
  <2>3. Head(readings) \in Latencies
    BY <2>2
  <2>4. Effective(p, Head(readings)) \in BOOLEAN
    BY DEF Effective
  <2>5. now \in Int
    BY TrackerAssumption DEF TypeInv, TrackerTypeOK
  <2> QED
    BY <2>1, <2>3, <2>4, <2>5 DEF OutcomeRecord
<1>4. outcomes' \subseteq OutcomeRecord
  BY <1>3 DEF CheckOutcomes, TypeInv, TrackerTypeOK
<1> QED
  BY <1>1, <1>2, <1>4 DEF TypeInv, TrackerTypeOK, PendingNumbered, CheckOutcomes

(* Every step of the tracker keeps them.                                   *)
LEMMA TypeInvStep == TypeInv /\ [TrackerNext]_trackerVars => TypeInv'
<1> SUFFICES ASSUME TypeInv, [TrackerNext]_trackerVars  PROVE TypeInv'
  OBVIOUS
<1>1. CASE ClockMoves
  BY <1>1, TrackerAssumption DEF ClockMoves, TypeInv, TrackerTypeOK, PendingNumbered
<1>3. ASSUME NEW type \in ActionTypes, NEW latency \in Latencies,
             NEW response \in Responses, NEW eligible \in BOOLEAN,
             CheckedCommit(type, latency, response, eligible)
      PROVE  TypeInv'
  BY <1>3, RecordCommitType DEF CheckedCommit
<1>4. ASSUME NEW readings \in {<<>>} \union {<<v>> : v \in Latencies},
             CheckOutcomes(readings)
      PROVE  TypeInv'
  BY <1>4, CheckOutcomesType
<1>5. CASE UNCHANGED trackerVars
  BY <1>5 DEF trackerVars, TypeInv, TrackerTypeOK, PendingNumbered
<1> QED
  BY <1>1, <1>3, <1>4, <1>5 DEF TrackerNext

(* They hold of an empty tracker.                                          *)
LEMMA TypeInvInit == TrackerInit => TypeInv
<1> SUFFICES ASSUME TrackerInit  PROVE TypeInv
  OBVIOUS
<1>1. <<>> \in Seq(CommitRecord) /\ Len(<<>>) = 0
  BY EmptySeq
<1>2. IsFiniteSet({}) /\ Cardinality({}) = 0
  BY FS_EmptySet
<1> QED
  BY <1>1, <1>2, TrackerAssumption
  DEF TrackerInit, TypeInv, TrackerTypeOK, PendingNumbered

(* So they hold in every reachable state.                                  *)
LEMMA TypeInvHolds == TrackerSpec => []TypeInv
BY TypeInvInit, TypeInvStep, PTL DEF TrackerSpec

(* The tracker's state is well typed, the log of commits never exceeds     *)
(* CommitCap records and the pending list never exceeds MaxPending.        *)
THEOREM TrackerTypeCorrect == TrackerSpec => []TrackerTypeOK
<1>1. TypeInv => TrackerTypeOK
  BY DEF TypeInv
<1> QED
  BY <1>1, TypeInvHolds, PTL

-----------------------------------------------------------------------------
(* Judgements.                                                             *)

(* A commit is judged at most once, and never after it is pending no more: *)
(* the numbers of judged commits lie in the past, so a new commit cannot   *)
(* meet one of them.                                                       *)
JudgedInv ==
  /\ JudgedOnce
  /\ \A o \in outcomes : o.commit.id <= Len(history)

(* No step judges a commit twice or keeps a judged one (check_outcomes).   *)
LEMMA JudgedStep ==
  TypeInv /\ JudgedInv /\ [TrackerNext]_trackerVars => JudgedInv'
<1> SUFFICES ASSUME TypeInv, JudgedInv, [TrackerNext]_trackerVars  PROVE JudgedInv'
  OBVIOUS
<1>1. ASSUME NEW type \in ActionTypes, NEW latency \in Latencies,
             NEW response \in Responses, NEW eligible \in BOOLEAN,
             CheckedCommit(type, latency, response, eligible)
      PROVE  JudgedInv'
  <2> DEFINE r == NewRecord(type, latency)
  <2>1. r.id = Len(history) + 1 /\ Len(history) \in Nat /\ r \in CommitRecord
    BY NewRecordType
  <2>2. /\ outcomes' = outcomes /\ history' = Append(history, r)
        /\ pendingOutcomes' \subseteq pendingOutcomes \union {r}
    BY <1>1 DEF CheckedCommit, RecordCommit, NewRecord, KeepNewest
  <2> HIDE DEF r
  <2>3. Len(history') = Len(history) + 1
    BY <2>1, <2>2 DEF TypeInv, TrackerTypeOK
  <2>4. \A o \in outcomes : o.commit.id \in Nat /\ o.commit.id <= Len(history)
    BY DEF JudgedInv, TypeInv, TrackerTypeOK, OutcomeRecord, CommitRecord
  <2>5. \A o \in outcomes : o.commit # r
    BY <2>1, <2>4
  <2>6. \A o \in outcomes' : o.commit.id <= Len(history')
    BY <2>1, <2>2, <2>3, <2>4
  <2> QED
    BY <2>2, <2>5, <2>6 DEF JudgedInv, JudgedOnce
<1>2. ASSUME NEW readings \in {<<>>} \union {<<v>> : v \in Latencies},
             CheckOutcomes(readings)
      PROVE  JudgedInv'
  <2> DEFINE judged(p) == [commit |-> p, after |-> Head(readings), judgedAt |-> now,
                           effective |-> Effective(p, Head(readings))]
  <2>1. /\ outcomes' = outcomes \union {judged(p) : p \in Due(readings)}
        /\ pendingOutcomes' = pendingOutcomes \ Due(readings)
        /\ Due(readings) \subseteq pendingOutcomes
        /\ history' = history
    BY <1>2 DEF CheckOutcomes, StillPending, Due
  <2>2. \A p \in Due(readings) : judged(p).commit = p
    OBVIOUS
  <2> HIDE DEF judged
  <2>3. \A o, p \in outcomes' : o.commit = p.commit => o = p
    BY <2>1, <2>2 DEF JudgedInv, JudgedOnce
  <2>4. \A o \in outcomes' : o.commit \notin pendingOutcomes'
    BY <2>1, <2>2 DEF JudgedInv, JudgedOnce
  <2>5. \A o \in outcomes' : o.commit.id <= Len(history')
    BY <2>1, <2>2 DEF JudgedInv, TypeInv, PendingNumbered
  <2> QED
    BY <2>3, <2>4, <2>5 DEF JudgedInv, JudgedOnce
<1>3. CASE ClockMoves \/ UNCHANGED trackerVars
  BY <1>3 DEF ClockMoves, trackerVars, JudgedInv, JudgedOnce
<1> QED
  BY <1>1, <1>2, <1>3 DEF TrackerNext

(* check_outcomes judges a commit at most once, however its calls          *)
(* interleave with commits and with corrections of the clock.              *)
THEOREM JudgedOnceHolds == TrackerSpec => []JudgedOnce
<1>1. TrackerInit => JudgedInv
  BY DEF TrackerInit, JudgedInv, JudgedOnce
<1>2. JudgedInv => JudgedOnce
  BY DEF JudgedInv
<1> QED
  BY <1>1, <1>2, JudgedStep, TypeInvHolds, PTL DEF TrackerSpec

(* A step that drops a pending commit judges it or was pushed by newer ones. *)
LEMMA LostStep ==
  ASSUME TypeInv, [TrackerNext]_trackerVars,
         NEW p \in pendingOutcomes \ pendingOutcomes'
  PROVE  \/ \E o \in outcomes' : o.commit = p
         \/ Cardinality({q \in pendingOutcomes' : q.id > p.id}) = MaxPending
<1>1. ASSUME NEW type \in ActionTypes, NEW latency \in Latencies,
             NEW response \in Responses, NEW eligible \in BOOLEAN,
             CheckedCommit(type, latency, response, eligible)
      PROVE  Cardinality({q \in pendingOutcomes' : q.id > p.id}) = MaxPending
  <2> DEFINE S == pendingOutcomes \union {NewRecord(type, latency)}
  <2>1. pendingOutcomes' = KeepNewest(S, MaxPending)
    BY <1>1 DEF CheckedCommit, RecordCommit, NewRecord
  <2>2. /\ IsFiniteSet(S) /\ Cardinality(S) <= MaxPending + 1
        /\ \A q \in S : q.id \in Nat
    BY PendingWithNew
  <2>3. p \in S /\ p \notin KeepNewest(S, MaxPending)
    BY <2>1
  <2> HIDE DEF S
  <2> QED
    BY <2>1, <2>2, <2>3, KeepNewestDropped, TrackerAssumption
<1>2. ASSUME NEW readings \in {<<>>} \union {<<v>> : v \in Latencies},
             CheckOutcomes(readings)
      PROVE  \E o \in outcomes' : o.commit = p
  <2>1. p \in Due(readings)
    BY <1>2 DEF CheckOutcomes, StillPending
  <2> DEFINE o == [commit |-> p, after |-> Head(readings), judgedAt |-> now,
                   effective |-> Effective(p, Head(readings))]
  <2>2. o \in outcomes' /\ o.commit = p
    BY <1>2, <2>1 DEF CheckOutcomes
  <2> QED
    BY <2>2
<1>3. CASE ClockMoves \/ UNCHANGED trackerVars
  BY <1>3 DEF ClockMoves, trackerVars
<1> QED
  BY <1>1, <1>2, <1>3 DEF TrackerNext

(* A pending commit is lost only to judgement or to MaxPending newer ones. *)
THEOREM LostOnlyToNewerHolds == TrackerSpec => LostOnlyToNewer
<1>1. TypeInv /\ [TrackerNext]_trackerVars =>
        [\A p \in pendingOutcomes \ pendingOutcomes' :
           \/ \E o \in outcomes' : o.commit = p
           \/ Cardinality({q \in pendingOutcomes' : q.id > p.id}) = MaxPending
        ]_trackerVars
  BY LostStep
<1> QED
  BY <1>1, TypeInvHolds, PTL DEF TrackerSpec, LostOnlyToNewer

-----------------------------------------------------------------------------
(* The cooldown.  can_commit sees only the records the log still holds, so *)
(* the log must not lose one that is still cooling down.  It does not when *)
(* the clock never goes back and the log has room for one record of every  *)
(* type: if the oldest lost record were within the cooldown, it and the    *)
(* CommitCap records after it would all be, hence all of different types,  *)
(* and there are not that many types.                                      *)

SteadyClock == MaxStepBack = 0

RoomForEveryType == CommitCap >= Cardinality(ActionTypes)

CooldownInv ==
  /\ recentCommits = KeepLast(history, CommitCap)
  /\ \A i \in 1 .. Len(history) : history[i].at <= now
  /\ \A i, j \in 1 .. Len(history) : i < j => history[i].at <= history[j].at
  /\ \A i, j \in 1 .. Len(history) :
       i < j /\ history[i].type = history[j].type
         => history[j].at - history[i].at >= Cooldown

(* The records of the history are typed and have a time.                   *)
LEMMA HistoryTypes ==
  ASSUME TypeInv
  PROVE  /\ Len(history) \in Nat /\ DOMAIN history = 1 .. Len(history)
         /\ now \in Int
         /\ \A i \in 1 .. Len(history) :
              history[i].type \in ActionTypes /\ history[i].at \in Int
<1>1. Len(history) \in Nat /\ DOMAIN history = 1 .. Len(history)
  BY LenProperties DEF TypeInv, TrackerTypeOK
<1>2. \A i \in 1 .. Len(history) : history[i] \in CommitRecord
  BY ElementOfSeq DEF TypeInv, TrackerTypeOK
<1>3. now \in Int
  BY TrackerAssumption DEF TypeInv, TrackerTypeOK
<1> QED
  BY <1>1, <1>2, <1>3 DEF CommitRecord

(* A record still cooling down has fewer than CommitCap records after it.  *)
LEMMA CoolingIsRecent ==
  ASSUME TypeInv, CooldownInv, RoomForEveryType,
         NEW i \in 1 .. Len(history), now - history[i].at < Cooldown
  PROVE  Len(history) - i < CommitCap
<1> DEFINE n == Len(history)
           f == [k \in i .. n |-> history[k].type]
<1>1. SUFFICES ASSUME n - i >= CommitCap  PROVE FALSE
  BY HistoryTypes, TrackerAssumption
<1>2. n \in Nat /\ i \in 1 .. n
  BY HistoryTypes
<1>3. f \in [i .. n -> ActionTypes]
  BY <1>2, HistoryTypes
<1>4. IsFiniteSet(i .. n) /\ Cardinality(i .. n) = n - i + 1
  BY <1>2, FS_Interval
<1>5. IsFiniteSet(ActionTypes) /\ Cardinality(ActionTypes) \in Nat
  BY TrackerAssumption, FS_CardinalityType
<1>6. Cardinality(ActionTypes) < Cardinality(i .. n)
  BY <1>1, <1>2, <1>4, <1>5, TrackerAssumption DEF RoomForEveryType
<1> HIDE DEF f
<1>7. PICK x, y \in i .. n : x # y /\ f[x] = f[y]
  BY <1>3, <1>4, <1>5, <1>6, FS_PigeonHole
<1>8. history[x].type = history[y].type
  BY <1>7 DEF f
<1>9. ASSUME NEW a \in i .. n, NEW b \in i .. n, a < b,
             history[a].type = history[b].type
      PROVE  FALSE
  <2>1. a \in 1 .. n /\ b \in 1 .. n
    BY <1>2
  <2>2. /\ history[i].at \in Int /\ history[a].at \in Int
        /\ history[b].at \in Int /\ now \in Int /\ Cooldown \in Int
    BY <2>1, HistoryTypes, TrackerAssumption
  <2>3. history[i].at <= history[a].at
    BY <1>2, <2>1, <2>2 DEF CooldownInv
  <2>4. history[b].at <= now
    BY <2>1 DEF CooldownInv
  <2>5. history[b].at - history[a].at >= Cooldown
    BY <1>9, <2>1 DEF CooldownInv
  <2> QED
    BY <2>2, <2>3, <2>4, <2>5
<1> QED
  BY <1>2, <1>7, <1>8, <1>9

(* Hence a successful check clears every commit of the type ever made.     *)
LEMMA CheckClears ==
  ASSUME TypeInv, CooldownInv, RoomForEveryType,
         NEW type \in ActionTypes, CanCommit(type),
         NEW i \in 1 .. Len(history), history[i].type = type
  PROVE  now - history[i].at >= Cooldown
<1> DEFINE n == Len(history)
           m == Len(recentCommits)
<1>1. /\ n \in Nat /\ now \in Int /\ Cooldown \in Nat /\ CommitCap \in Nat \ {0}
      /\ \A k \in 1 .. n : history[k].at \in Int
  BY HistoryTypes, TrackerAssumption
<1>2. SUFFICES ASSUME now - history[i].at < Cooldown  PROVE FALSE
  BY <1>1
<1>3. n - i < CommitCap
  BY <1>2, CoolingIsRecent
<1>4. /\ m \in Nat /\ m <= n /\ DOMAIN recentCommits = 1 .. m
      /\ i - (n - m) \in 1 .. m
      /\ \A k \in 1 .. m : recentCommits[k] = history[n - m + k]
  <2>1. history \in Seq(CommitRecord) /\ recentCommits \in Seq(CommitRecord)
    BY DEF TypeInv, TrackerTypeOK
  <2>2. m \in Nat /\ DOMAIN recentCommits = 1 .. m
    BY <2>1, LenProperties
  <2>3. CASE n <= CommitCap
    <3>1. recentCommits = history
      BY <1>1, <2>1, <2>3, KeepLastShort DEF CooldownInv
    <3> QED
      BY <1>1, <2>2, <3>1
  <2>4. CASE n > CommitCap
    <3>1. /\ m = CommitCap
          /\ \A k \in 1 .. CommitCap : recentCommits[k] = history[n - CommitCap + k]
      BY <1>1, <2>1, <2>4, KeepLastLong DEF CooldownInv
    <3> QED
      BY <1>1, <1>3, <2>2, <2>4, <3>1
  <2> QED
    BY <1>1, <2>3, <2>4
<1> DEFINE p == i - (n - m)
<1> HIDE DEF m
<1>5. p \in 1 .. m /\ recentCommits[p] = history[i]
  <2>1. n - m + p = i
    BY <1>1, <1>4
  <2> QED
    BY <1>4, <2>1
<1>6. ASSUME NEW j \in p + 1 .. m, recentCommits[j].type = type
      PROVE  FALSE
  <2>1. j \in 1 .. m /\ n - m + j \in 1 .. n /\ i < n - m + j
    BY <1>1, <1>4, <1>5
  <2>2. history[n - m + j].type = history[i].type
    BY <1>4, <1>6, <2>1
  <2>3. history[n - m + j].at - history[i].at >= Cooldown
    BY <2>1, <2>2 DEF CooldownInv
  <2>4. history[n - m + j].at <= now
    BY <2>1 DEF CooldownInv
  <2>5. history[n - m + j].at \in Int /\ history[i].at \in Int
    BY <1>1, <2>1
  <2> QED
    BY <1>1, <1>2, <2>3, <2>4, <2>5
<1>7. p \in DOMAIN recentCommits /\ recentCommits[p].type = type
  BY <1>4, <1>5
<1>8. Cooldown # 0
  BY <1>1, <1>2 DEF CooldownInv
<1>9. now - recentCommits[p].at >= Cooldown
  BY <1>6, <1>7, <1>8 DEF CanCommit, m
<1> QED
  BY <1>1, <1>2, <1>5, <1>9

(* Every step keeps the cooldown invariant (can_commit, record_commit).    *)
LEMMA CooldownStep ==
  ASSUME SteadyClock, RoomForEveryType,
         TypeInv, CooldownInv, [TrackerNext]_trackerVars
  PROVE  CooldownInv'
<1>1. CASE ClockMoves
  <2>1. now' = now + 1 /\ now \in Nat /\ history' = history /\ recentCommits' = recentCommits
    BY <1>1, TrackerAssumption DEF ClockMoves, SteadyClock, TypeInv, TrackerTypeOK
  <2> QED
    BY <2>1, HistoryTypes DEF CooldownInv
<1>3. ASSUME NEW type \in ActionTypes, NEW latency \in Latencies,
             NEW response \in Responses, NEW eligible \in BOOLEAN,
             CheckedCommit(type, latency, response, eligible)
      PROVE  CooldownInv'
  <2> DEFINE r == NewRecord(type, latency)
             n == Len(history)
  <2>1. /\ history' = Append(history, r) /\ now' = now
        /\ recentCommits' = KeepLast(Append(recentCommits, r), CommitCap)
        /\ CanCommit(type)
    BY <1>3 DEF CheckedCommit, RecordCommit, NewRecord
  <2>2. r \in CommitRecord /\ r.type = type /\ r.at = now
    BY NewRecordType DEF NewRecord
  <2> HIDE DEF r
  <2>3. recentCommits' = KeepLast(history', CommitCap)
    BY <2>1, <2>2, KeepLastAppend, TrackerAssumption
    DEF CooldownInv, TypeInv, TrackerTypeOK
  <2>4. /\ n \in Nat /\ now \in Int /\ \A k \in 1 .. n : history[k].at \in Int
    BY HistoryTypes
  <2>5. /\ Len(history') = n + 1 /\ history'[n + 1] = r
        /\ \A k \in 1 .. n : history'[k] = history[k]
    BY <2>1, <2>2 DEF TypeInv, TrackerTypeOK
  <2>6. \A k \in 1 .. n : history[k].type = type => now - history[k].at >= Cooldown
    BY <2>1, CheckClears
  <2> HIDE DEF n
  <2>7. \A k \in 1 .. n + 1 : k \in 1 .. n \/ k = n + 1
    BY <2>4
  <2>8. \A k \in 1 .. Len(history') : history'[k].at <= now'
    BY <2>1, <2>2, <2>4, <2>5, <2>7 DEF CooldownInv, n
  <2>9. ASSUME NEW j \in 1 .. Len(history'), NEW k \in 1 .. Len(history'), j < k
        PROVE  /\ history'[j].at <= history'[k].at
               /\ history'[j].type = history'[k].type
                    => history'[k].at - history'[j].at >= Cooldown
    <3>1. j \in 1 .. n
      BY <2>4, <2>5, <2>9
    <3>2. CASE k \in 1 .. n
      BY <2>5, <2>9, <3>1, <3>2 DEF CooldownInv, n
    <3>3. CASE k = n + 1
      BY <2>2, <2>5, <2>6, <3>1, <3>3 DEF CooldownInv, n
    <3> QED
      BY <2>5, <2>7, <3>2, <3>3
  <2> QED
    BY <2>3, <2>8, <2>9 DEF CooldownInv
<1>4. ASSUME NEW readings, CheckOutcomes(readings)
      PROVE  CooldownInv'
  BY <1>4 DEF CheckOutcomes, CooldownInv
<1>5. CASE UNCHANGED trackerVars
  BY <1>5 DEF trackerVars, CooldownInv
<1> QED
  BY <1>1, <1>3, <1>4, <1>5 DEF TrackerNext

(* It holds of an empty log.                                               *)
LEMMA CooldownInit == TrackerInit => CooldownInv
<1> SUFFICES ASSUME TrackerInit  PROVE CooldownInv
  OBVIOUS
<1>1. history = <<>> /\ recentCommits = <<>> /\ Len(history) = 0
  BY EmptySeq DEF TrackerInit
<1>2. KeepLast(<<>>, CommitCap) = <<>>
  <2>1. /\ <<>> \in Seq(CommitRecord) /\ Len(<<>>) <= CommitCap
        /\ CommitCap \in Nat \ {0}
    BY EmptySeq, TrackerAssumption
  <2> QED
    BY <2>1, KeepLastShort
<1> QED
  BY <1>1, <1>2 DEF CooldownInv

(* A caller that commits in the same step as it asks keeps commits of one  *)
(* type Cooldown apart for ever, although the log forgets.                 *)
THEOREM CooldownHolds ==
  ASSUME SteadyClock, RoomForEveryType
  PROVE  TrackerSpec => []CooldownRespected
<1>1. TypeInv /\ CooldownInv /\ [TrackerNext]_trackerVars => CooldownInv'
  BY CooldownStep
<1>2. TypeInv /\ CooldownInv => CooldownRespected
  BY HistoryTypes DEF CooldownInv, CooldownRespected
<1> QED
  BY <1>1, <1>2, CooldownInit, TypeInvHolds, PTL DEF TrackerSpec

-----------------------------------------------------------------------------
(* Without SteadyClock: a clock that is set back can bring a commit that   *)
(* the log has lost back into its cooldown, so the log must have lost      *)
(* none.  Then the commits of a type are a cooldown apart whatever the     *)
(* clock does, as a check passes only when the latest of them is.          *)

NothingLost == MaxCommits <= CommitCap

CooldownOn == Cooldown # 0

KeptInv ==
  /\ Len(history) <= MaxCommits
  /\ recentCommits = history
  /\ \A i, j \in 1 .. Len(history) :
       i < j /\ history[i].type = history[j].type
         => history[j].at - history[i].at >= Cooldown

(* Among the commits of a type there is a latest one.                      *)
LEMMA LatestOfType ==
  ASSUME TypeInv, NEW i \in 1 .. Len(history)
  PROVE  \E k \in i .. Len(history) :
           /\ history[k].type = history[i].type
           /\ \A j \in k + 1 .. Len(history) : history[j].type # history[i].type
<1> DEFINE n == Len(history)
           T == {d \in 0 .. n : n - d \in i .. n /\ history[n - d].type = history[i].type}
<1>1. n \in Nat /\ i \in 1 .. n
  BY HistoryTypes
<1> HIDE DEF n
<1>2. n - i \in T /\ T \in SUBSET Nat
  BY <1>1
<1>3. PICK d \in T : \A e \in T : d <= e
  <2> HIDE DEF T
  <2>1. T # {}
    BY <1>2
  <2> QED
    BY <1>2, <2>1, LeastNatural
<1>4. ASSUME NEW j \in (n - d) + 1 .. n, history[j].type = history[i].type
      PROVE  FALSE
  <2>1. n - j \in 0 .. n /\ n - (n - j) = j /\ j \in i .. n
    BY <1>1, <1>3
  <2>2. n - j \in T
    BY <1>4, <2>1
  <2>3. d <= n - j
    BY <1>3, <2>2
  <2> QED
    BY <1>1, <1>3, <2>1, <2>3
<1>5. n - d \in i .. n /\ history[n - d].type = history[i].type
  BY <1>3
<1> QED
  BY <1>4, <1>5 DEF n

(* A successful check clears every commit of the type (can_commit).        *)
LEMMA CheckClearsKept ==
  ASSUME TypeInv, KeptInv, CooldownOn,
         NEW type \in ActionTypes, CanCommit(type),
         NEW i \in 1 .. Len(history), history[i].type = type
  PROVE  now - history[i].at >= Cooldown
<1>1. /\ Len(history) \in Nat /\ DOMAIN history = 1 .. Len(history)
      /\ now \in Int /\ Cooldown \in Nat
      /\ \A k \in 1 .. Len(history) : history[k].at \in Int
  BY HistoryTypes, TrackerAssumption
<1>2. PICK k \in i .. Len(history) :
        /\ history[k].type = type
        /\ \A j \in k + 1 .. Len(history) : history[j].type # type
  BY LatestOfType
<1>3. k \in 1 .. Len(history)
  BY <1>1
<1>4. now - history[k].at >= Cooldown
  BY <1>1, <1>2, <1>3 DEF CanCommit, KeptInv, CooldownOn
<1>5. k = i \/ history[k].at - history[i].at >= Cooldown
  BY <1>1, <1>2, <1>3 DEF KeptInv
<1> QED
  BY <1>1, <1>3, <1>4, <1>5

(* Every step keeps the spacing, and the log the whole history.            *)
LEMMA KeptStep ==
  ASSUME NothingLost, CooldownOn, TypeInv, KeptInv, [TrackerNext]_trackerVars
  PROVE  KeptInv'
<1>1. CASE ClockMoves \/ UNCHANGED trackerVars
  BY <1>1 DEF ClockMoves, trackerVars, KeptInv
<1>2. ASSUME NEW readings, CheckOutcomes(readings)
      PROVE  KeptInv'
  BY <1>2 DEF CheckOutcomes, KeptInv
<1>3. ASSUME NEW type \in ActionTypes, NEW latency \in Latencies,
             NEW response \in Responses, NEW eligible \in BOOLEAN,
             CheckedCommit(type, latency, response, eligible)
      PROVE  KeptInv'
  <2> DEFINE r == NewRecord(type, latency)
             n == Len(history)
  <2>1. /\ history' = Append(history, r)
        /\ recentCommits' = KeepLast(Append(recentCommits, r), CommitCap)
        /\ CanCommit(type) /\ n < MaxCommits
    BY <1>3 DEF CheckedCommit, RecordCommit, NewRecord
  <2>2. r \in CommitRecord /\ r.type = type /\ r.at = now
    BY NewRecordType DEF NewRecord
  <2> HIDE DEF r
  <2>3. /\ n \in Nat /\ now \in Int /\ \A k \in 1 .. n : history[k].at \in Int
        /\ MaxCommits \in Nat /\ CommitCap \in Nat \ {0}
    BY HistoryTypes, TrackerAssumption
  <2>4. /\ history' \in Seq(CommitRecord)
        /\ Len(history') = n + 1 /\ history'[n + 1] = r
        /\ \A k \in 1 .. n : history'[k] = history[k]
    BY <2>1, <2>2 DEF TypeInv, TrackerTypeOK
  <2>5. \A k \in 1 .. n : history[k].type = type => now - history[k].at >= Cooldown
    BY <2>1, CheckClearsKept
  <2> HIDE DEF n
  <2>6. Len(history') <= MaxCommits /\ Len(history') <= CommitCap
    BY <2>1, <2>3, <2>4 DEF NothingLost
  <2>7. recentCommits' = history'
    <3>1. recentCommits' = KeepLast(history', CommitCap)
      BY <2>1 DEF KeptInv
    <3> QED
      BY <2>3, <2>4, <2>6, <3>1, KeepLastShort
  <2>8. ASSUME NEW j \in 1 .. Len(history'), NEW k \in 1 .. Len(history'), j < k,
               history'[j].type = history'[k].type
        PROVE  history'[k].at - history'[j].at >= Cooldown
    <3>1. j \in 1 .. n /\ (k \in 1 .. n \/ k = n + 1)
      BY <2>3, <2>4, <2>8
    <3>2. CASE k \in 1 .. n
      BY <2>4, <2>8, <3>1, <3>2 DEF KeptInv, n
    <3>3. CASE k = n + 1
      BY <2>2, <2>4, <2>5, <2>8, <3>1, <3>3
    <3> QED
      BY <3>1, <3>2, <3>3
  <2> QED
    BY <2>6, <2>7, <2>8 DEF KeptInv
<1> QED
  BY <1>1, <1>2, <1>3 DEF TrackerNext

(* As long as the log has lost nothing, the cooldown holds however often   *)
(* and however far corrections set the clock back.                         *)
THEOREM CooldownHoldsAnyClock ==
  ASSUME NothingLost, CooldownOn
  PROVE  TrackerSpec => []CooldownRespected
<1>1. TrackerInit => KeptInv
  BY EmptySeq, TrackerAssumption DEF TrackerInit, KeptInv
<1>2. TypeInv /\ KeptInv /\ [TrackerNext]_trackerVars => KeptInv'
  BY KeptStep
<1>3. TypeInv /\ KeptInv => CooldownRespected
  BY HistoryTypes DEF KeptInv, CooldownRespected
<1> QED
  BY <1>1, <1>2, <1>3, TypeInvHolds, PTL DEF TrackerSpec
=============================================================================

--------------------------- MODULE AuditingProofs ---------------------------
(***************************************************************************)
(* What holds of the two auditors for any records, page sizes, caps and    *)
(* windows, whatever calls fail and however often the process restarts:    *)
(* one theorem for each invariant of the audit run.                        *)
(***************************************************************************)
EXTENDS Auditing, Arithmetic, FiniteSetTheorems, SequenceTheorems

-----------------------------------------------------------------------------
(* The arithmetic of the audit sample, for every number of decisions.      *)

(* A sample has a decision at least, when there are any, and no more than  *)
(* there are nor than one poll may write (poll_and_audit).                 *)
THEOREM SampleSizeBounds ==
  ASSUME NEW n \in Nat \ {0}, NEW rateInverse \in Nat \ {0},
         NEW maxVerdicts \in Nat \ {0}
  PROVE  SampleSize(n, rateInverse, maxVerdicts) \in 1 .. Lesser(n, maxVerdicts)
<1> DEFINE share == n \div rateInverse
<1>1. share \in Nat /\ share <= n
  <2>1. /\ share \in Int
        /\ share * rateInverse <= n /\ n < share * rateInverse + rateInverse
    <3>1. n = rateInverse * share + (n % rateInverse) /\ n % rateInverse \in 0 .. rateInverse - 1
          /\ share \in Int
      OBVIOUS
    <3> QED
      BY <3>1
  <2>2. share >= 0 /\ share <= share * rateInverse
    BY <2>1
  <2> QED
    BY <2>1, <2>2
<1> HIDE DEF share
<1>2. SampleSize(n, rateInverse, maxVerdicts) = Lesser(Greater(1, share), maxVerdicts)
  BY DEF SampleSize, share
<1> QED
  BY <1>1, <1>2 DEF Lesser, Greater

(* The quotas take nothing that is not there and fill the sample; half of  *)
(* it, rounded up, goes to judgement calls if there are as many; and in a  *)
(* sample of two or more no kind is left out (stratified_sample).          *)
THEOREM QuotasCorrect ==
  ASSUME NEW judgment \in Nat, NEW mechanical \in Nat, NEW size \in Nat \ {0}
  PROVE  LET q    == Quotas(judgment, mechanical, size)
             used == Lesser(size, judgment + mechanical)
         IN  /\ q.judgment \in 0 .. judgment
             /\ q.mechanical \in 0 .. mechanical
             /\ q.judgment + q.mechanical = used
             /\ 2 * q.judgment >= used \/ q.judgment = judgment
             /\ used >= 2 /\ mechanical > 0 => q.mechanical > 0
             /\ used >= 1 /\ judgment > 0 => q.judgment > 0
<1> DEFINE half == (size + 1) \div 2
           j    == Lesser(judgment, Greater(1, half))
           m    == Lesser(mechanical, size - j)
           rest == size - j - m
           more == Lesser(rest, judgment - j)
           q    == Quotas(judgment, mechanical, size)
<1>1. half \in Nat /\ size <= 2 * half /\ 2 * half <= size + 1
  OBVIOUS
<1>2. q.judgment = j + more /\ q.mechanical = m + Lesser(rest - more, mechanical - m)
  BY DEF Quotas
<1> HIDE DEF half, q
<1>3. j \in 0 .. judgment /\ j <= size /\ (2 * j >= size \/ j = judgment)
      /\ (judgment > 0 => j > 0) /\ (size >= 2 => j < size)
  BY <1>1 DEF Lesser, Greater
<1> HIDE DEF j
<1>4. m \in 0 .. mechanical /\ m <= size - j /\ (m = mechanical \/ m = size - j)
  BY <1>3 DEF Lesser
<1>5. rest \in Nat /\ (rest = 0 \/ m = mechanical)
  BY <1>3, <1>4
<1> HIDE DEF m
<1>6. /\ more \in Nat /\ j + more \in 0 .. judgment
      /\ m + Lesser(rest - more, mechanical - m) = m
      /\ (j + more) + m = Lesser(size, judgment + mechanical)
  BY <1>3, <1>4, <1>5 DEF Lesser
<1> HIDE DEF more
<1>7. Lesser(size, judgment + mechanical) <= size
  BY DEF Lesser
<1>8. /\ q.judgment \in 0 .. judgment
      /\ q.mechanical \in 0 .. mechanical
      /\ q.judgment + q.mechanical = Lesser(size, judgment + mechanical)
  BY <1>2, <1>4, <1>6
<1>9. 2 * q.judgment >= Lesser(size, judgment + mechanical) \/ q.judgment = judgment
  BY <1>2, <1>3, <1>6 DEF Lesser
<1>10. Lesser(size, judgment + mechanical) >= 2 /\ mechanical > 0 => q.mechanical > 0
  <2>1. size >= 2 /\ m \in Nat /\ (m = mechanical \/ m = size - j)
        => (mechanical > 0 => m > 0)
    BY <1>3
  <2> QED
    BY <1>2, <1>4, <1>6, <1>7, <2>1 DEF Lesser
<1>11. Lesser(size, judgment + mechanical) >= 1 /\ judgment > 0 => q.judgment > 0
  BY <1>2, <1>3, <1>6
<1> QED
  BY <1>8, <1>9, <1>10, <1>11 DEF q

-----------------------------------------------------------------------------
(* Bounds and settings.                                                    *)

LEMMA SettingsAre ==
  /\ PageSize \in Nat \ {0} /\ FetchCap \in Nat \ {0} /\ RateInverse \in Nat \ {0}
  /\ MaxVerdicts \in Nat \ {0} /\ ResultCap \in Nat \ {0} /\ GatewayCap \in Nat \ {0}
  /\ MaxTime \in Nat \ {0} /\ Window \in Nat
  /\ "none" \in Probes /\ LedgerConfigured
  BY AuditAssumption

-----------------------------------------------------------------------------
(* Segments of positions.                                                  *)

Segment(base, n) == [k \in 1 .. n |-> base + k]

LEMMA SegmentProperties ==
  ASSUME NEW b \in Nat, NEW n \in Nat
  PROVE  /\ Segment(b, n) \in Seq(Nat) /\ Len(Segment(b, n)) = n
         /\ Range(Segment(b, n)) = b + 1 .. b + n
         /\ \A k \in 1 .. n : Segment(b, n)[k] = b + k
<1>1. Segment(b, n) \in [1 .. n -> Nat]
  BY DEF Segment
<1>2. Segment(b, n) \in Seq(Nat)
  BY <1>1, SeqDef
<1>3. Len(Segment(b, n)) = n
  BY <1>1, <1>2, LenProperties
<1>4. ASSUME NEW i \in b + 1 .. b + n  PROVE i \in Range(Segment(b, n))
  <2>1. i - b \in 1 .. n /\ Segment(b, n)[i - b] = i
    BY DEF Segment
  <2>2. DOMAIN Segment(b, n) = 1 .. n
    BY DEF Segment
  <2> QED
    BY <2>1, <2>2 DEF Range
<1>5. ASSUME NEW i \in Range(Segment(b, n))  PROVE i \in b + 1 .. b + n
  BY DEF Range, Segment
<1> QED
  BY <1>2, <1>3, <1>4, <1>5 DEF Segment

LEMMA SegmentOfSegment ==
  ASSUME NEW b \in Nat, NEW n \in Nat, NEW m \in 0 .. n
  PROVE  SubSeq(Segment(b, n), 1, m) = Segment(b, m)
<1> DEFINE s == SubSeq(Segment(b, n), 1, m)
<1>1. \A i \in 1 .. m : Segment(b, n)[i] \in Nat
  BY SegmentProperties DEF Segment
<1>2. m \in Int /\ 1 \in Int
  OBVIOUS
<1>3. /\ s \in Seq(Nat) /\ Len(s) = IF 1 <= m THEN m - 1 + 1 ELSE 0
      /\ \A i \in 1 .. m - 1 + 1 : s[i] = Segment(b, n)[1 + i - 1]
  BY <1>1, <1>2, SubSeqProperties
<1>4. Segment(b, m) \in Seq(Nat) /\ Len(Segment(b, m)) = m
  BY SegmentProperties
<1>5. Len(s) = m /\ \A i \in 1 .. m : s[i] = Segment(b, m)[i]
  BY <1>3, <1>2 DEF Segment
<1> HIDE DEF s
<1>6. s = Segment(b, m)
  <2> DEFINE u == Segment(b, m)
  <2>1. s \in Seq(Nat) /\ u \in Seq(Nat) /\ Len(s) = Len(u) /\ \A i \in 1 .. Len(s) : s[i] = u[i]
    BY <1>3, <1>4, <1>5
  <2> HIDE DEF u
  <2>2. s = u
    BY <2>1, SeqEqual
  <2> QED
    BY <2>2 DEF u
<1> QED
  BY <1>6 DEF s

LEMMA SegmentsJoin ==
  ASSUME NEW b \in Nat, NEW n \in Nat, NEW m \in Nat
  PROVE  Segment(b, n) \o Segment(b + n, m) = Segment(b, n + m)
<1> DEFINE s == Segment(b, n)  t == Segment(b + n, m)  u == Segment(b, n + m)
<1>0. b + n \in Nat /\ n + m \in Nat
  OBVIOUS
<1>1. /\ s \in Seq(Nat) /\ Len(s) = n /\ t \in Seq(Nat) /\ Len(t) = m
      /\ u \in Seq(Nat) /\ Len(u) = n + m
  <2> HIDE DEF s, t, u
  <2>1. s \in Seq(Nat) /\ Len(s) = n
    BY SegmentProperties DEF s
  <2>2. t \in Seq(Nat) /\ Len(t) = m
    BY <1>0, SegmentProperties DEF t
  <2>3. u \in Seq(Nat) /\ Len(u) = n + m
    BY <1>0, SegmentProperties DEF u
  <2> QED
    BY <2>1, <2>2, <2>3
<1>2. /\ \A k \in 1 .. n : s[k] = b + k
      /\ \A k \in 1 .. m : t[k] = b + n + k
      /\ \A k \in 1 .. n + m : u[k] = b + k
  BY DEF Segment
<1> HIDE DEF s, t, u
<1>3. /\ s \o t \in Seq(Nat) /\ Len(s \o t) = n + m
      /\ \A i \in 1 .. n + m : (s \o t)[i] = IF i <= n THEN s[i] ELSE t[i - n]
  BY <1>1, ConcatProperties
<1>4. ASSUME NEW i \in 1 .. n + m  PROVE (s \o t)[i] = u[i]
  <2>1. CASE i <= n
    BY <1>2, <1>3, <2>1
  <2>2. CASE ~ (i <= n)
    <3>1. i - n \in 1 .. m
      BY <2>2
    <3> QED
      BY <1>2, <1>3, <2>2, <3>1
  <2> QED
    BY <2>1, <2>2
<1>5. s \o t = u
  BY <1>1, <1>3, <1>4, SeqEqual
<1> QED
  BY <1>5 DEF s, t, u

(* A set of positions without a gap below it is an initial one.            *)
LEMMA Initial ==
  ASSUME NEW n \in Nat, NEW S \in SUBSET (1 .. n),
         \A i \in 1 .. n, j \in S : i <= j => i \in S
  PROVE  \E b \in 0 .. n : S = 1 .. b
<1> DEFINE out == {i \in 1 .. n + 1 : i \notin S}
<1>1. out \in SUBSET Nat /\ n + 1 \in out
  OBVIOUS
<1> HIDE DEF out
<1>2. PICK x \in out : \A y \in out : x <= y
  BY <1>1, LeastNatural
<1>3. x \in 1 .. n + 1 /\ x \notin S
  BY <1>2 DEF out
<1>4. ASSUME NEW i \in 1 .. x - 1  PROVE i \in S
  <2>1. i \in out \/ i \in S
    BY <1>3 DEF out
  <2>2. i \notin out
    BY <1>2, <1>3
  <2> QED
    BY <2>1, <2>2
<1>5. ASSUME NEW i \in S  PROVE i \in 1 .. x - 1
  BY <1>3
<1>6. x - 1 \in 0 .. n
  BY <1>3
<1>7. S = 1 .. x - 1
  BY <1>4, <1>5, Zenon
<1> QED
  BY <1>6, <1>7

-----------------------------------------------------------------------------
(* The log of decision records.                                            *)

LogEntry == [at : Nat, correlation : STRING, readable : BOOLEAN, decisions : Seq(Decision)]

LogOK ==
  /\ now \in 1 .. MaxTime
  /\ log \in Seq(LogEntry)
  /\ \A i \in DOMAIN log : 1 <= log[i].at /\ log[i].at <= now
  /\ \A i, j \in DOMAIN log : i <= j => log[i].at <= log[j].at

LEMMA LogBasics ==
  ASSUME LogOK
  PROVE  /\ Len(log) \in Nat /\ DOMAIN log = 1 .. Len(log)
         /\ \A i \in DOMAIN log :
              /\ log[i].at \in Nat /\ log[i].correlation \in STRING
              /\ log[i].readable \in BOOLEAN /\ log[i].decisions \in Seq(Decision)
<1>1. Len(log) \in Nat /\ DOMAIN log = 1 .. Len(log)
  BY LenProperties DEF LogOK
<1>2. ASSUME NEW i \in DOMAIN log  PROVE log[i] \in LogEntry
  BY <1>1, ElementOfSeq DEF LogOK
<1> QED
  BY <1>1, <1>2 DEF LogEntry

LEMMA DecisionsOf ==
  ASSUME LogOK, NEW i \in DOMAIN log
  PROVE  /\ Len(log[i].decisions) \in Nat
         /\ DOMAIN log[i].decisions = 1 .. Len(log[i].decisions)
         /\ \A k \in DOMAIN log[i].decisions : log[i].decisions[k] \in Decision
<1>1. log[i].decisions \in Seq(Decision)
  BY LogBasics
<1> QED
  BY <1>1, LenProperties, ElementOfSeq

(* What is audited of some entries, by position and index.                 *)
LEMMA AuditableMember ==
  ASSUME NEW P, NEW x
  PROVE  x \in AuditableIn(P) <=>
           \E i \in P : \E k \in DOMAIN log[i].decisions :
             x = <<i, k>> /\ log[i].decisions[k].outcome \in Auditable
<1> DEFINE all == UNION {{i} \X DOMAIN log[i].decisions : i \in P}
<1>1. x \in all <=> \E i \in P : x \in {i} \X DOMAIN log[i].decisions
  BY Zenon
<1>2. \A i : x \in {i} \X DOMAIN log[i].decisions <=>
               \E k \in DOMAIN log[i].decisions : x = <<i, k>>
  OBVIOUS
<1>3. x \in AuditableIn(P) <=> x \in all /\ DecisionAt(x).outcome \in Auditable
  BY DEF AuditableIn
<1> HIDE DEF all
<1>4. ASSUME NEW i, NEW k, x = <<i, k>>  PROVE DecisionAt(x) = log[i].decisions[k]
  BY <1>4 DEF DecisionAt
<1> QED
  BY <1>1, <1>2, <1>3, <1>4

LEMMA AuditableMembers ==
  \A P, x : x \in AuditableIn(P) <=>
              \E i \in P : \E k \in DOMAIN log[i].decisions :
                x = <<i, k>> /\ log[i].decisions[k].outcome \in Auditable
  BY AuditableMember

LEMMA AuditableInLog ==
  \A x : x \in AuditableIn(DOMAIN log) <=>
           \E i \in DOMAIN log : \E k \in DOMAIN log[i].decisions :
             x = <<i, k>> /\ log[i].decisions[k].outcome \in Auditable
  BY AuditableMember

LEMMA AuditableIs ==
  ASSUME LogOK, NEW P \in SUBSET (DOMAIN log), NEW x \in AuditableIn(P)
  PROVE  /\ x = <<x[1], x[2]>>
         /\ x[1] \in P /\ x[1] \in Nat /\ x[2] \in Nat /\ x[2] # 0
         /\ x[2] \in DOMAIN log[x[1]].decisions
         /\ DecisionAt(x) \in Decision
         /\ DecisionAt(x).outcome \in Auditable
         /\ log[x[1]].correlation \in STRING
<1>0. PICK i \in P : \E k \in DOMAIN log[i].decisions :
        x = <<i, k>> /\ log[i].decisions[k].outcome \in Auditable
  BY AuditableMember
<1>1. PICK k \in DOMAIN log[i].decisions :
        x = <<i, k>> /\ log[i].decisions[k].outcome \in Auditable
  BY <1>0
<1>2. i \in DOMAIN log
  OBVIOUS
<1>3. k \in 1 .. Len(log[i].decisions) /\ log[i].decisions[k] \in Decision
      /\ Len(log[i].decisions) \in Nat
  BY <1>2, DecisionsOf
<1>4. i \in Nat /\ log[i].correlation \in STRING
  BY <1>2, LogBasics
<1>5. x[1] = i /\ x[2] = k
  BY <1>1
<1> QED
  BY <1>1, <1>3, <1>4, <1>5 DEF DecisionAt

LEMMA AuditableMonotonic ==
  ASSUME NEW P, NEW Q, P \subseteq Q
  PROVE  AuditableIn(P) \subseteq AuditableIn(Q)
  BY AuditableMember

LEMMA AuditableFinite ==
  ASSUME LogOK, NEW P \in SUBSET (DOMAIN log)
  PROVE  IsFiniteSet(AuditableIn(P))
<1> DEFINE f == [i \in P |-> {i} \X DOMAIN log[i].decisions]
           F == {{i} \X DOMAIN log[i].decisions : i \in P}
<1>1. IsFiniteSet(P)
  <2>1. IsFiniteSet(1 .. Len(log))
    BY LogBasics, FS_Interval
  <2> QED
    BY <2>1, LogBasics, FS_Subset
<1>2. f \in Surjection(P, F)
  BY DEF Surjection
<1>3. IsFiniteSet(F)
  BY <1>1, <1>2, FS_Surjection
<1>4. ASSUME NEW T \in F  PROVE IsFiniteSet(T)
  <2>1. PICK i \in P : T = {i} \X DOMAIN log[i].decisions
    OBVIOUS
  <2>2. IsFiniteSet(DOMAIN log[i].decisions)
    <3>1. i \in DOMAIN log
      OBVIOUS
    <3>2. DOMAIN log[i].decisions = 1 .. Len(log[i].decisions) /\ Len(log[i].decisions) \in Nat
      BY <3>1, DecisionsOf
    <3> QED
      BY <3>2, FS_Interval
  <2>3. IsFiniteSet({i})
    BY FS_Singleton
  <2> QED
    BY <2>1, <2>2, <2>3, FS_Product
<1>5. IsFiniteSet(UNION F)
  BY <1>3, <1>4, FS_UNION
<1>6. AuditableIn(P) \subseteq UNION F
  BY DEF AuditableIn
<1> QED
  BY <1>5, <1>6, FS_Subset

-----------------------------------------------------------------------------
(* The pages.                                                              *)

(* The pages fetched so far are the entries from an instant on, without a  *)
(* gap.                                                                    *)
Before(b, from) == \A i \in DOMAIN log : i <= b <=> log[i].at < from

Gapless(s, from) ==
  \E b, n \in Nat : s = Segment(b, n) /\ b + n <= Len(log) /\ (n > 0 => Before(b, from))

LEMMA MatchingIs ==
  ASSUME LogOK, NEW from \in Int, NEW s, Gapless(s, from)
  PROVE  \E b, n \in Nat :
           /\ b + n <= Len(log)
           /\ Before(b, from)
           /\ s = Segment(b, n)
           /\ Matching(from, s) = Segment(b + n, Len(log) - (b + n))
<1>0. Len(log) \in Nat /\ DOMAIN log = 1 .. Len(log)
  BY LogBasics
<1>1. PICK a \in Nat, n \in Nat :
        s = Segment(a, n) /\ a + n <= Len(log) /\ (n > 0 => Before(a, from))
  BY DEF Gapless
<1>2. \E b \in Nat : b + n <= Len(log) /\ Before(b, from) /\ s = Segment(b, n)
  <2>1. CASE n > 0
    BY <1>1, <2>1
  <2>2. CASE n = 0
    <3> DEFINE early == {i \in 1 .. Len(log) : log[i].at < from}
    <3>1. \A i \in 1 .. Len(log), j \in early : i <= j => i \in early
      BY <1>0, LogBasics DEF LogOK
    <3> HIDE DEF early
    <3>2. early \in SUBSET (1 .. Len(log))
      BY DEF early
    <3>3. PICK b \in 0 .. Len(log) : early = 1 .. b
      BY <1>0, <3>1, <3>2, Initial
    <3>4. Before(b, from)
      BY <1>0, <3>3 DEF Before, early
    <3>5. Segment(a, n) = Segment(b, n)
      BY <2>2 DEF Segment
    <3> QED
      BY <1>0, <1>1, <2>2, <3>3, <3>4, <3>5
  <2> QED
    BY <2>1, <2>2
<1>3. PICK b \in Nat : b + n <= Len(log) /\ Before(b, from) /\ s = Segment(b, n)
  BY <1>2
<1>4. Range(s) = b + 1 .. b + n
  BY <1>3, SegmentProperties
<1>5. Passed(from, s) = 1 .. b + n
  <2>1. ASSUME NEW i \in DOMAIN log  PROVE i \in Passed(from, s) <=> i <= b + n
    <3>1. i \in Passed(from, s) <=> i <= b \/ \E j \in b + 1 .. b + n : i <= j
      BY <1>3, <1>4 DEF Passed, Before
    <3>2. i \in Nat
      BY <1>0
    <3>3. (i <= b \/ \E j \in b + 1 .. b + n : i <= j) => i <= b + n
      BY <3>2
    <3>4. i <= b + n => i <= b \/ \E j \in b + 1 .. b + n : i <= j
      <4>1. CASE i <= b
        BY <4>1
      <4>2. CASE i > b /\ i <= b + n
        BY <3>2, <4>2
      <4> QED
        BY <3>2, <4>1, <4>2
    <3> QED
      BY <3>1, <3>3, <3>4
  <2>2. Passed(from, s) \subseteq DOMAIN log
    BY DEF Passed
  <2>3. \A i : i \in 1 .. b + n <=> i \in DOMAIN log /\ i <= b + n
    BY <1>0, <1>3
  <2> QED
    BY <2>1, <2>2, <2>3
<1>6. Cardinality(Passed(from, s)) = b + n
  <2>1. 1 \in Int /\ b + n \in Nat
    OBVIOUS
  <2>2. Cardinality(1 .. b + n) = b + n
    BY <2>1, FS_Interval
  <2> QED
    BY <1>5, <2>2
<1>7. Matching(from, s) = Segment(b + n, Len(log) - (b + n))
  BY <1>6 DEF Matching, Segment
<1> QED
  BY <1>3, <1>7

-----------------------------------------------------------------------------
(* Verdicts and the ledger that holds them.                                *)

SamplerRule(d, probe) ==
  IF SamplerFails(d) /\ probe # "overrode" THEN "FAILS" ELSE "SURVIVES"

CommandRule(d) == IF CommandFails(d) THEN "FAILS" ELSE "SURVIVES"

(* A verdict follows from the decision, and from what a model said of it.  *)
Sound(e) ==
  /\ e \in VerdictEntry
  /\ e.content.by = "sampler" =>
       e.content.verdict = SamplerRule(e.content.decision, e.content.probe)
  /\ e.content.by = "command" =>
       /\ e.content.probe = "none"
       /\ e.content.verdict = CommandRule(e.content.decision)

KeyOf(e) == IF e.content.by = "sampler" THEN IdempotencyKey(e) ELSE CommandKey(e)

RemoteOK ==
  /\ \A r \in remote : r = [key |-> KeyOf(r.entry), entry |-> r.entry] /\ Sound(r.entry)
  /\ \A r, s \in remote : r.key = s.key => r = s

MemoryOK ==
  /\ \A m \in memory : m.entry \in VerdictEntry
  /\ ProofsAreReal

LEMMA VerdictShape ==
  ASSUME NEW e \in VerdictEntry
  PROVE  /\ e = [type |-> e.type, correlation |-> e.correlation, content |-> e.content]
         /\ e.content = [decision |-> e.content.decision, probe |-> e.content.probe,
                         verdict |-> e.content.verdict, by |-> e.content.by]
         /\ e.type = "audit.verdict"
         /\ e.content.decision \in Decision
         /\ e.content.by \in {"sampler", "command"}
         /\ DOMAIN e.content = {"decision", "probe", "verdict", "by"}
  BY DEF VerdictEntry

(* The two auditors never use the same key.                                *)
LEMMA KeysApart ==
  ASSUME NEW e \in VerdictEntry, NEW f
  PROVE  IdempotencyKey(e) # CommandKey(f)
<1>1. DOMAIN e.content = {"decision", "probe", "verdict", "by"}
  BY VerdictShape
<1>2. DOMAIN [ref |-> f.content.decision.ref] = {"ref"}
  OBVIOUS
<1>3. e.content # [ref |-> f.content.decision.ref]
  BY <1>1, <1>2
<1> QED
  BY <1>3 DEF IdempotencyKey, CommandKey

(* The sampler's key stands for its verdict, the command's for a subject.  *)
LEMMA KeyMeans ==
  ASSUME NEW e \in VerdictEntry, NEW f \in VerdictEntry, KeyOf(e) = KeyOf(f)
  PROVE  /\ e.content.by = f.content.by
         /\ e.correlation = f.correlation
         /\ e.content.by = "sampler" => e = f
         /\ e.content.by = "command" => e.content.decision.ref = f.content.decision.ref
<1>1. e.content.by \in {"sampler", "command"} /\ f.content.by \in {"sampler", "command"}
  BY VerdictShape
<1>2. e.content.by = f.content.by
  BY <1>1, KeysApart DEF KeyOf
<1>3. CASE e.content.by = "sampler"
  <2>1. e.type = f.type /\ e.correlation = f.correlation /\ e.content = f.content
    BY <1>2, <1>3 DEF KeyOf, IdempotencyKey
  <2>2. e = f
    BY <2>1, VerdictShape
  <2> QED
    BY <1>2, <1>3, <2>1, <2>2
<1>4. CASE e.content.by = "command"
  <2>1. /\ e.correlation = f.correlation
        /\ [ref |-> e.content.decision.ref] = [ref |-> f.content.decision.ref]
    BY <1>2, <1>4 DEF KeyOf, CommandKey
  <2>2. e.content.decision.ref = f.content.decision.ref
    BY <2>1
  <2> QED
    BY <1>2, <1>4, <2>1, <2>2
<1> QED
  BY <1>1, <1>3, <1>4

(* Storing a sound verdict under its key keeps the ledger in order, and    *)
(* the key is there afterwards.                                            *)
LEMMA StoreKeeps ==
  ASSUME RemoteOK, NEW e, Sound(e), remote' = Stored(KeyOf(e), e)
  PROVE  /\ RemoteOK'
         /\ remote \subseteq remote'
         /\ \E r \in remote' : Sound(r.entry) /\ KeyOf(r.entry) = KeyOf(e)
<1> DEFINE new == [key |-> KeyOf(e), entry |-> e]
<1>1. CASE \E r \in remote : r.key = KeyOf(e)
  <2>1. remote' = remote
    BY <1>1 DEF Stored
  <2>2. PICK r \in remote : r.key = KeyOf(e)
    BY <1>1
  <2>3. KeyOf(r.entry) = KeyOf(e)
    BY <2>2 DEF RemoteOK
  <2> QED
    BY <2>1, <2>3 DEF RemoteOK
<1>2. CASE ~ \E r \in remote : r.key = KeyOf(e)
  <2>1. remote' = remote \union {new}
    BY <1>2 DEF Stored
  <2>2. new.key = KeyOf(e) /\ new.entry = e
    OBVIOUS
  <2>3. new = [key |-> KeyOf(new.entry), entry |-> new.entry]
    BY <2>2
  <2> HIDE DEF new
  <2>4. \A r \in remote' : r = [key |-> KeyOf(r.entry), entry |-> r.entry] /\ Sound(r.entry)
    BY <2>1, <2>2, <2>3 DEF RemoteOK
  <2>5. \A r, s \in remote' : r.key = s.key => r = s
    BY <1>2, <2>1, <2>2 DEF RemoteOK
  <2>6. RemoteOK'
    BY <2>4, <2>5 DEF RemoteOK, Sound, KeyOf, IdempotencyKey, CommandKey, SamplerRule,
       CommandRule, VerdictEntry, SamplerFails, CommandFails, Severe
  <2> QED
    BY <2>1, <2>2, <2>6
<1> QED
  BY <1>1, <1>2

(* What is held after a step.                                              *)
HeldThen(x) == x \in missed' \/ \E r \in remote' : r.entry = x

(* The sampler's write, however it ends.                                   *)
LEMMA SamplerWrites ==
  ASSUME RemoteOK, MemoryOK, NEW e, Sound(e), e.content.by = "sampler",
         NEW outcome, WriteEntry(e, outcome)
  PROVE  /\ RemoteOK' /\ MemoryOK'
         /\ remote \subseteq remote' /\ missed \subseteq missed'
         /\ outcome \in WriteOutcomes => HeldThen(e)
<1> DEFINE held == [entry |-> e, external |-> outcome = "ok"]
<1>1. KeyOf(e) = IdempotencyKey(e)
  BY DEF KeyOf
<1>2. remote' = remote \/ remote' = Stored(KeyOf(e), e)
  BY <1>1 DEF WriteEntry
<1>3. RemoteOK' /\ remote \subseteq remote'
  <2>1. CASE remote' = remote
    BY <2>1 DEF RemoteOK
  <2> QED
    BY <1>2, <2>1, StoreKeeps
<1>4. memory' = memory \union {held} /\ held.entry = e /\ (held.external => outcome = "ok")
  BY DEF WriteEntry, Remembered
<1>5. outcome \in {"ok", "lost_reply"} => \E r \in remote' : r.entry = e
  <2>1. SUFFICES ASSUME outcome \in {"ok", "lost_reply"}  PROVE \E r \in remote' : r.entry = e
    OBVIOUS
  <2>2. remote' = Stored(KeyOf(e), e)
    BY <1>1, <2>1 DEF WriteEntry
  <2>3. PICK r \in remote' : Sound(r.entry) /\ KeyOf(r.entry) = KeyOf(e)
    BY <2>2, StoreKeeps
  <2>4. r.entry = e
    BY <2>3, KeyMeans DEF Sound
  <2> QED
    BY <2>4
<1> HIDE DEF held
<1>6. ASSUME NEW m \in memory', m.external
      PROVE  \E r \in remote' : r.entry = m.entry
  <2>1. CASE m \in memory
    BY <2>1, <1>6, <1>3 DEF MemoryOK, ProofsAreReal
  <2>2. CASE m = held
    BY <2>2, <1>6, <1>4, <1>5
  <2> QED
    BY <1>4, <2>1, <2>2
<1>7. \A m \in memory' : m.entry \in VerdictEntry
  BY <1>4 DEF MemoryOK, Sound
<1>8. MemoryOK'
  BY <1>6, <1>7 DEF MemoryOK, ProofsAreReal, VerdictEntry
<1>9. missed \subseteq missed' /\ (outcome = "lost" => e \in missed')
  BY DEF WriteEntry
<1>10. outcome \in WriteOutcomes => outcome \in {"ok", "lost", "lost_reply"}
  BY AuditAssumption DEF WriteOutcomes
<1> QED
  BY <1>3, <1>5, <1>8, <1>9, <1>10 DEF HeldThen

(* What the auditors post is sound.                                        *)
LEMMA VerdictsSound ==
  ASSUME LogOK, NEW x \in AuditableIn(DOMAIN log), NEW probe \in Probes
  PROVE  /\ Sound(VerdictOn(x, SamplerFails(DecisionAt(x)), probe, "sampler"))
         /\ VerdictOn(x, SamplerFails(DecisionAt(x)), probe, "sampler").content.by = "sampler"
         /\ Sound(VerdictOn(x, CommandFails(DecisionAt(x)), "none", "command"))
         /\ VerdictOn(x, CommandFails(DecisionAt(x)), "none", "command").content.by = "command"
<1>1. DecisionAt(x) \in Decision /\ log[x[1]].correlation \in STRING
  BY AuditableIs
<1>2. "none" \in Probes
  BY SettingsAre
<1> DEFINE d == DecisionAt(x)  corr == log[x[1]].correlation
           e == [type |-> "audit.verdict", correlation |-> corr,
                 content |-> [decision |-> d, probe |-> probe, by |-> "sampler",
                              verdict |-> SamplerRule(d, probe)]]
           f == [type |-> "audit.verdict", correlation |-> corr,
                 content |-> [decision |-> d, probe |-> "none", by |-> "command",
                              verdict |-> CommandRule(d)]]
<1>3. e = VerdictOn(x, SamplerFails(d), probe, "sampler")
  BY DEF VerdictOn, SamplerRule
<1>4. f = VerdictOn(x, CommandFails(d), "none", "command")
  BY DEF VerdictOn, CommandRule
<1> HIDE DEF d, corr
<1>5. d \in Decision /\ corr \in STRING
  BY <1>1 DEF d, corr
<1>6. SamplerRule(d, probe) \in {"SURVIVES", "FAILS"} /\ CommandRule(d) \in {"SURVIVES", "FAILS"}
  BY DEF SamplerRule, CommandRule
<1>7. e \in VerdictEntry /\ f \in VerdictEntry
  BY <1>2, <1>5, <1>6 DEF VerdictEntry
<1>8. Sound(e) /\ Sound(f) /\ e.content.by = "sampler" /\ f.content.by = "command"
  BY <1>7 DEF Sound
<1> QED
  BY <1>3, <1>4, <1>8 DEF d

-----------------------------------------------------------------------------
(* The sample.                                                             *)

Fair(s) ==
  LET size  == Cardinality(s.taken)
      calls == Cardinality(s.taken \ Dedupes(s.taken))
  IN  /\ s.taken \subseteq s.of
      /\ s.of # {} => size = SampleSize(Cardinality(s.of), RateInverse, MaxVerdicts)
      /\ 2 * calls >= size \/ s.taken \ Dedupes(s.taken) = s.of \ Dedupes(s.of)
      /\ size >= 2 /\ Dedupes(s.of) # {} => Dedupes(s.taken) # {}

SampleOK(s) ==
  /\ s.of \subseteq AuditableIn(DOMAIN log)
  /\ Cardinality(s.taken) <= MaxVerdicts
  /\ Fair(s)

LEMMA SamplesFair ==
  ASSUME LogOK, NEW found, found \subseteq AuditableIn(DOMAIN log), found # {},
         NEW S \in Samples(found)
  PROVE  SampleOK([taken |-> S, of |-> found])
<1> DEFINE repeats == Dedupes(found)
           calls   == found \ repeats
           size    == SampleSize(Cardinality(found), RateInverse, MaxVerdicts)
           q       == Quotas(Cardinality(calls), Cardinality(repeats), size)
<1>1. IsFiniteSet(found) /\ IsFiniteSet(repeats) /\ IsFiniteSet(calls)
  <2>1. IsFiniteSet(found)
    BY AuditableFinite, FS_Subset
  <2>2. repeats \subseteq found /\ calls \subseteq found
    BY DEF Dedupes
  <2> QED
    BY <2>1, <2>2, FS_Subset
<1>2. Cardinality(found) \in Nat \ {0} /\ Cardinality(repeats) \in Nat /\ Cardinality(calls) \in Nat
  BY <1>1, FS_CardinalityType, FS_EmptySet
<1>3. Cardinality(found) = Cardinality(calls) + Cardinality(repeats)
  <2>1. found = calls \union repeats /\ calls \intersect repeats = {}
    BY DEF Dedupes
  <2> HIDE DEF repeats, calls
  <2>2. Cardinality(calls \union repeats)
          = Cardinality(calls) + Cardinality(repeats) - Cardinality(calls \intersect repeats)
    BY <1>1, FS_Union
  <2>3. Cardinality(calls \intersect repeats) = 0
    BY <2>1, FS_EmptySet
  <2> QED
    BY <1>2, <2>1, <2>2, <2>3
<1>4. /\ S \subseteq found
      /\ Cardinality(S \ repeats) = q.judgment
      /\ Cardinality(S \intersect repeats) = q.mechanical
  BY DEF Samples
<1> DEFINE A == S \ repeats  B == S \intersect repeats
<1>5. /\ A \subseteq calls /\ Cardinality(A) = q.judgment
      /\ B \subseteq repeats /\ Cardinality(B) = q.mechanical
      /\ S = A \union B
  BY <1>4
<1>6. Dedupes(S) = B /\ S \ Dedupes(S) = A /\ A \intersect B = {} /\ S \subseteq found
  BY <1>4 DEF Dedupes
<1> HIDE DEF A, B
<1>7. size \in Nat \ {0} /\ size <= Cardinality(found) /\ size <= MaxVerdicts
  <2>1. size \in 1 .. Lesser(Cardinality(found), MaxVerdicts)
    BY <1>2, SettingsAre, SampleSizeBounds
  <2> HIDE DEF size
  <2> QED
    BY <1>2, <2>1, SettingsAre DEF Lesser
<1> HIDE DEF repeats, calls, size
<1>8. LET used == Lesser(size, Cardinality(calls) + Cardinality(repeats))
      IN  /\ q.judgment \in 0 .. Cardinality(calls)
          /\ q.mechanical \in 0 .. Cardinality(repeats)
          /\ q.judgment + q.mechanical = used
          /\ 2 * q.judgment >= used \/ q.judgment = Cardinality(calls)
          /\ used >= 2 /\ Cardinality(repeats) > 0 => q.mechanical > 0
  BY <1>2, <1>7, QuotasCorrect
<1> HIDE DEF q
<1>9. Lesser(size, Cardinality(calls) + Cardinality(repeats)) = size
  BY <1>2, <1>3, <1>7 DEF Lesser
<1>10. IsFiniteSet(A) /\ IsFiniteSet(B)
  BY <1>1, <1>5, FS_Subset
<1>11. Cardinality(S) = size
  <2>1. Cardinality(A \union B) = Cardinality(A) + Cardinality(B) - Cardinality(A \intersect B)
    BY <1>10, FS_Union
  <2>2. Cardinality(A \intersect B) = 0
    BY <1>6, FS_EmptySet
  <2>3. q.judgment + q.mechanical = size
    BY <1>8, <1>9
  <2>4. q.judgment \in Nat /\ q.mechanical \in Nat
    BY <1>2, <1>8
  <2>5. Cardinality(S) = Cardinality(A) + Cardinality(B) - Cardinality(A \intersect B)
    BY <1>5, <2>1
  <2>6. Cardinality(S) = q.judgment + q.mechanical - 0
    BY <1>5, <2>2, <2>5
  <2> QED
    BY <2>3, <2>4, <2>6
<1>12. 2 * Cardinality(A) >= Cardinality(S) \/ A = calls
  <2>1. 2 * q.judgment >= size \/ q.judgment = Cardinality(calls)
    BY <1>8, <1>9
  <2>2. CASE q.judgment = Cardinality(calls)
    <3>1. A = calls
      BY <1>1, <1>5, <2>2, FS_Subset
    <3> QED
      BY <3>1
  <2>3. CASE 2 * q.judgment >= size
    BY <1>5, <1>11, <2>3
  <2> QED
    BY <2>1, <2>2, <2>3
<1>13. Cardinality(S) >= 2 /\ repeats # {} => B # {}
  <2>1. SUFFICES ASSUME Cardinality(S) >= 2, repeats # {}  PROVE B # {}
    OBVIOUS
  <2>2. Cardinality(repeats) > 0
    BY <1>1, <1>2, <2>1, FS_EmptySet
  <2>3. q.mechanical > 0
    BY <1>8, <1>9, <1>11, <2>1, <2>2
  <2> QED
    BY <1>5, <2>3, FS_EmptySet
<1>14. Fair([taken |-> S, of |-> found])
  <2> DEFINE s == [taken |-> S, of |-> found]
  <2>1. s.taken = S /\ s.of = found
    OBVIOUS
  <2> HIDE DEF s
  <2>2. s.taken \ Dedupes(s.taken) = A /\ Dedupes(s.taken) = B
        /\ s.of \ Dedupes(s.of) = calls /\ Dedupes(s.of) = repeats
    BY <1>6, <2>1 DEF calls, repeats
  <2>3. Cardinality(s.taken) = SampleSize(Cardinality(s.of), RateInverse, MaxVerdicts)
    BY <1>11, <2>1 DEF size
  <2>4. s.taken \subseteq s.of
    BY <1>6, <2>1
  <2>5. Fair(s)
    BY <1>12, <1>13, <2>1, <2>2, <2>3, <2>4 DEF Fair
  <2> QED
    BY <2>5 DEF s
<1> QED
  BY <1>7, <1>11, <1>14 DEF SampleOK

-----------------------------------------------------------------------------
(* The poll.                                                               *)

(* The decision whose probe or write is awaited, with its verdict.         *)
Awaited(x, probe) ==
  [at |-> x, verdict |-> VerdictOn(x, SamplerFails(DecisionAt(x)), probe, "sampler")]

CurrentOK(p) ==
  IF p.awaits \in {"probe", "write"}
    THEN \E x \in AuditableIn(DOMAIN log), probe \in Probes :
           /\ p.current = <<Awaited(x, probe)>>
           /\ p.awaits = "probe" => SamplerFails(DecisionAt(x))
    ELSE p.current = <<>>

(* A poll writes no more verdicts than it may, the one under way included. *)
PollOK(p) ==
  /\ p = [awaits |-> p.awaits, fetched |-> p.fetched, todo |-> p.todo,
          current |-> p.current, written |-> p.written, sample |-> p.sample]
  /\ p.awaits \in {"sleeping", "page", "probe", "write"}
  /\ p.awaits # "page" => p.fetched = <<>>
  /\ p.awaits \in {"sleeping", "page"} => p.todo = {} /\ p.written = <<>>
  /\ p.todo \subseteq p.sample.taken
  /\ SampleOK(p.sample)
  /\ CurrentOK(p)
  /\ p.written \in Seq(VerdictEntry)
  /\ p.awaits \in {"probe", "write"} => Len(p.written) + Cardinality(p.todo) < MaxVerdicts

LEMMA NoSample ==
  /\ SampleOK([taken |-> {}, of |-> {}])
<1> DEFINE s == [taken |-> {}, of |-> {}]
<1>1. s.taken = {} /\ s.of = {}
  OBVIOUS
<1> HIDE DEF s
<1>2. Dedupes({}) = {} /\ Cardinality({}) = 0
  BY FS_EmptySet DEF Dedupes
<1>3. MaxVerdicts \in Nat
  BY SettingsAre
<1>4. SampleOK(s)
  BY <1>1, <1>2, <1>3 DEF SampleOK, Fair
<1> QED
  BY <1>4 DEF s

LEMMA AsleepOK == PollOK(Asleep)
<1>1. /\ Asleep.awaits = "sleeping" /\ Asleep.fetched = <<>> /\ Asleep.todo = {}
      /\ Asleep.current = <<>> /\ Asleep.written = <<>>
      /\ Asleep.sample = [taken |-> {}, of |-> {}]
      /\ Asleep = [awaits |-> Asleep.awaits, fetched |-> Asleep.fetched, todo |-> Asleep.todo,
          current |-> Asleep.current, written |-> Asleep.written, sample |-> Asleep.sample]
  BY DEF Asleep
<1>2. <<>> \in Seq(VerdictEntry)
  BY EmptySeq
<1>3. CurrentOK(Asleep)
  BY <1>1 DEF CurrentOK
<1> QED
  BY <1>1, <1>2, <1>3, NoSample DEF PollOK

LEMMA TodoFinite ==
  ASSUME LogOK, NEW s, SampleOK(s), NEW todo, todo \subseteq s.taken
  PROVE  IsFiniteSet(todo) /\ todo \subseteq AuditableIn(DOMAIN log)
<1>1. todo \subseteq AuditableIn(DOMAIN log)
  BY DEF SampleOK, Fair
<1> QED
  BY <1>1, AuditableFinite, FS_Subset

(* Wherever a poll may stand once the next decision is judged, it is in    *)
(* order.                                                                  *)
LEMMA JudgedOK ==
  ASSUME LogOK,
         NEW s, SampleOK(s),
         NEW todo, todo \subseteq s.taken, todo # {},
         NEW written \in Seq(VerdictEntry),
         Len(written) + Cardinality(todo) <= MaxVerdicts,
         NEW p \in Judged(todo, written, s)
  PROVE  PollOK(p) /\ (p = Asleep \/ p.written = written)
<1> DEFINE After(x, awaits) ==
             [awaits |-> awaits, fetched |-> <<>>, todo |-> todo \ {x}, written |-> written,
              sample |-> s, current |-> <<Awaited(x, "none")>>]
<1>1. \E x \in todo :
        \/ p = Asleep
        \/ p = After(x, IF SamplerFails(DecisionAt(x)) THEN "probe" ELSE "write")
  BY DEF Judged, Awaited
<1>2. CASE p = Asleep
  BY <1>2, AsleepOK
<1>3. ASSUME NEW x \in todo, NEW awaits \in {"probe", "write"},
             awaits = "probe" => SamplerFails(DecisionAt(x)), p = After(x, awaits)
      PROVE  PollOK(p) /\ p.written = written
  <2>1. /\ p.awaits = awaits /\ p.fetched = <<>> /\ p.todo = todo \ {x}
        /\ p.written = written /\ p.sample = s /\ p.current = <<Awaited(x, "none")>>
        /\ p = [awaits |-> p.awaits, fetched |-> p.fetched, todo |-> p.todo,
                current |-> p.current, written |-> p.written, sample |-> p.sample]
    BY <1>3
  <2>2. x \in AuditableIn(DOMAIN log) /\ IsFiniteSet(todo)
    BY TodoFinite
  <2>3. CurrentOK(p)
    BY <1>3, <2>1, <2>2, SettingsAre DEF CurrentOK
  <2>4. Cardinality(p.todo) = Cardinality(todo) - 1 /\ Cardinality(todo) \in Nat
    BY <2>1, <2>2, FS_RemoveElement, FS_CardinalityType
  <2>5. Len(written) \in Nat /\ MaxVerdicts \in Nat
    BY LenProperties, SettingsAre
  <2>6. Len(p.written) + Cardinality(p.todo) < MaxVerdicts
    BY <2>1, <2>4, <2>5
  <2> QED
    BY <1>3, <2>1, <2>3, <2>6 DEF PollOK
<1> HIDE DEF After
<1>4. ASSUME NEW x \in todo, p = After(x, IF SamplerFails(DecisionAt(x)) THEN "probe" ELSE "write")
      PROVE  PollOK(p) /\ p.written = written
  <2>1. CASE SamplerFails(DecisionAt(x))
    BY <1>3, <1>4, <2>1
  <2>2. CASE ~SamplerFails(DecisionAt(x))
    BY <1>3, <1>4, <2>2
  <2> QED
    BY <2>1, <2>2
<1> QED
  BY <1>1, <1>2, <1>4

(* What is said of a poll holds on in a longer log.                        *)
LogExtended == \A i \in DOMAIN log : i \in DOMAIN log' /\ log'[i] = log[i]

LEMMA ExtendedSame ==
  ASSUME LogOK, LogExtended
  PROVE  /\ \A x \in AuditableIn(DOMAIN log) :
              /\ DecisionAt(x)' = DecisionAt(x)
              /\ log'[x[1]] = log[x[1]]
         /\ \A P : P \subseteq DOMAIN log => AuditableIn(P)' = AuditableIn(P)
         /\ AuditableIn(DOMAIN log) \subseteq AuditableIn(DOMAIN log)'
<1>1. ASSUME NEW x \in AuditableIn(DOMAIN log)
      PROVE  DecisionAt(x)' = DecisionAt(x) /\ log'[x[1]] = log[x[1]]
  <2>1. x[1] \in DOMAIN log
    BY AuditableIs
  <2> QED
    BY <2>1 DEF LogExtended, DecisionAt
<1>2. \A P, x : x \in AuditableIn(P)' <=>
                  \E i \in P : \E k \in DOMAIN log'[i].decisions :
                    x = <<i, k>> /\ log'[i].decisions[k].outcome \in Auditable
  <2>1. (\A P, x : x \in AuditableIn(P) <=>
                  \E i \in P : \E k \in DOMAIN log[i].decisions :
                    x = <<i, k>> /\ log[i].decisions[k].outcome \in Auditable)'
    BY AuditableMembers, PTL
  <2> QED
    BY <2>1
<1>3. ASSUME NEW P, P \subseteq DOMAIN log
      PROVE  AuditableIn(P)' = AuditableIn(P)
  <2>1. \A i \in P : log'[i] = log[i]
    BY <1>3 DEF LogExtended
  <2>2. \A x : x \in AuditableIn(P)' <=> x \in AuditableIn(P)
    BY <1>2, <2>1, AuditableMembers
  <2> QED
    BY <2>2
<1>4. (\A x : x \in AuditableIn(DOMAIN log) <=>
           \E i \in DOMAIN log : \E k \in DOMAIN log[i].decisions :
             x = <<i, k>> /\ log[i].decisions[k].outcome \in Auditable)'
  BY AuditableInLog, PTL
<1>5. AuditableIn(DOMAIN log) \subseteq AuditableIn(DOMAIN log)'
  BY <1>4, AuditableInLog DEF LogExtended
<1> QED
  BY <1>1, <1>3, <1>5

LEMMA PollMoves ==
  ASSUME LogOK, LogExtended, PollOK(poll')
  PROVE  PollOK(poll)'
<1> DEFINE all == AuditableIn(DOMAIN log)
           taken == poll'.sample.taken
           of == poll'.sample.of
<1>1. /\ \A x \in all : DecisionAt(x)' = DecisionAt(x) /\ log'[x[1]] = log[x[1]]
      /\ all \subseteq AuditableIn(DOMAIN log)'
  BY ExtendedSame
<1>2. of \subseteq all /\ taken \subseteq of /\ Cardinality(taken) <= MaxVerdicts
  BY DEF PollOK, SampleOK, Fair
<1>3. /\ (Dedupes(poll.sample.taken))' = Dedupes(taken)
      /\ (Dedupes(poll.sample.of))' = Dedupes(of)
  <2>1. \A x \in all : log'[x[1]].decisions[x[2]] = log[x[1]].decisions[x[2]]
    BY <1>1
  <2>2. /\ (Dedupes(poll.sample.taken))'
             = {x \in taken : log'[x[1]].decisions[x[2]].outcome = "dedupe"}
        /\ (Dedupes(poll.sample.of))'
             = {x \in of : log'[x[1]].decisions[x[2]].outcome = "dedupe"}
    BY DEF Dedupes, DecisionAt
  <2>3. /\ Dedupes(taken) = {x \in taken : log[x[1]].decisions[x[2]].outcome = "dedupe"}
        /\ Dedupes(of) = {x \in of : log[x[1]].decisions[x[2]].outcome = "dedupe"}
    BY DEF Dedupes, DecisionAt
  <2> HIDE DEF all, taken, of
  <2>4. taken \subseteq all /\ of \subseteq all
    BY <1>2
  <2> QED
    BY <2>1, <2>2, <2>3, <2>4
<1>4. Fair(poll.sample)'
  <2>1. Fair(poll'.sample)
    BY DEF PollOK, SampleOK
  <2> QED
    BY <1>3, <2>1 DEF Fair
<1>5. SampleOK(poll.sample)'
  BY <1>1, <1>2, <1>4 DEF SampleOK
<1>6. CurrentOK(poll)'
  <2>1. CASE poll'.awaits \in {"probe", "write"}
    <3>1. PICK x \in all, probe \in Probes :
            /\ poll'.current = <<Awaited(x, probe)>>
            /\ poll'.awaits = "probe" => SamplerFails(DecisionAt(x))
      BY <2>1 DEF PollOK, CurrentOK
    <3>2. DecisionAt(x)' = DecisionAt(x) /\ log'[x[1]] = log[x[1]] /\ x \in AuditableIn(DOMAIN log)'
      BY <1>1
    <3>3. SamplerFails(DecisionAt(x))' <=> SamplerFails(DecisionAt(x))
      BY <3>2 DEF SamplerFails, Severe
    <3>4. Awaited(x, probe)' = Awaited(x, probe)
      BY <3>2, <3>3 DEF Awaited, VerdictOn
    <3> QED
      BY <2>1, <3>1, <3>2, <3>3, <3>4 DEF CurrentOK
  <2>2. CASE poll'.awaits \notin {"probe", "write"}
    BY <2>2 DEF PollOK, CurrentOK
  <2> QED
    BY <2>1, <2>2
<1> QED
  BY <1>5, <1>6 DEF PollOK, VerdictEntry

LEMMA GaplessMoves ==
  ASSUME LogOK, LogExtended, NEW from, NEW s, Gapless(s, from),
         Len(log) <= Len(log)', Len(log)' \in Nat, DOMAIN log' = 1 .. Len(log)',
         \A i, j \in DOMAIN log' : i <= j => log'[i].at <= log'[j].at,
         \A i \in DOMAIN log' : log'[i].at \in Nat, from \in Int
  PROVE  \E b, n \in Nat :
           /\ s = Segment(b, n) /\ b + n <= Len(log')
           /\ n > 0 => \A i \in DOMAIN log' : i <= b <=> log'[i].at < from
<1>0. Len(log) \in Nat /\ DOMAIN log = 1 .. Len(log)
  BY LogBasics
<1>1. PICK b \in Nat, n \in Nat :
        s = Segment(b, n) /\ b + n <= Len(log) /\ (n > 0 => Before(b, from))
  BY DEF Gapless
<1>2. ASSUME n > 0, NEW i \in DOMAIN log'
      PROVE  i <= b <=> log'[i].at < from
  <2>1. CASE i \in DOMAIN log
    BY <1>1, <1>2, <2>1 DEF Before, LogExtended
  <2>2. CASE i \notin DOMAIN log
    <3>1. b + 1 \in DOMAIN log /\ ~(b + 1 <= b) /\ b + 1 <= i /\ ~(i <= b)
      BY <1>0, <1>1, <1>2, <2>2
    <3>2. ~(log[b + 1].at < from) /\ log'[b + 1] = log[b + 1] /\ b + 1 \in DOMAIN log'
      BY <1>1, <1>2, <3>1 DEF Before, LogExtended
    <3>3. log'[b + 1].at <= log'[i].at
      BY <3>1, <3>2
    <3>4. log'[b + 1].at \in Nat /\ log'[i].at \in Nat
      BY <3>2
    <3> QED
      BY <3>1, <3>2, <3>3, <3>4
  <2> QED
    BY <2>1, <2>2
<1>3. b + n <= Len(log')
  BY <1>0, <1>1
<1> WITNESS b \in Nat, n \in Nat
<1> QED
  BY <1>1, <1>2, <1>3

(* The results kept.                                                       *)
LEMMA ExtendedKeeps ==
  ASSUME results \in Seq(VerdictEntry), NEW w \in Seq(VerdictEntry)
  PROVE  /\ Extended(w) \in Seq(VerdictEntry) /\ Len(Extended(w)) <= ResultCap
         /\ \A n \in DOMAIN Extended(w) :
              \/ \E k \in DOMAIN results : Extended(w)[n] = results[k]
              \/ \E k \in DOMAIN w : Extended(w)[n] = w[k]
<1> DEFINE joined == results \o w
           from == Greater(1, Len(joined) - ResultCap + 1)
<1>1. /\ Len(results) \in Nat /\ Len(w) \in Nat
      /\ DOMAIN results = 1 .. Len(results) /\ DOMAIN w = 1 .. Len(w)
      /\ ResultCap \in Nat \ {0}
  BY LenProperties, SettingsAre
<1>2. /\ joined \in Seq(VerdictEntry) /\ Len(joined) = Len(results) + Len(w)
      /\ \A i \in 1 .. Len(results) + Len(w) :
           joined[i] = IF i <= Len(results) THEN results[i] ELSE w[i - Len(results)]
  BY ConcatProperties
<1>3. Extended(w) = SubSeq(joined, from, Len(joined))
  BY DEF Extended, LastResults
<1> HIDE DEF joined
<1>4. from \in Int /\ from >= 1 /\ Len(joined) - from + 1 <= ResultCap /\ Len(joined) \in Nat
  BY <1>1, <1>2 DEF Greater
<1> HIDE DEF from
<1>5. \A i \in from .. Len(joined) : joined[i] \in VerdictEntry
  BY <1>2, <1>4, ElementOfSeq
<1>6. /\ Extended(w) \in Seq(VerdictEntry)
      /\ Len(Extended(w)) = IF from <= Len(joined) THEN Len(joined) - from + 1 ELSE 0
      /\ \A i \in 1 .. Len(joined) - from + 1 : Extended(w)[i] = joined[from + i - 1]
  BY <1>3, <1>4, <1>5, SubSeqProperties
<1>7. Len(Extended(w)) <= ResultCap
  BY <1>1, <1>4, <1>6
<1>8. ASSUME NEW n \in DOMAIN Extended(w)
      PROVE  \/ \E k \in DOMAIN results : Extended(w)[n] = results[k]
             \/ \E k \in DOMAIN w : Extended(w)[n] = w[k]
  <2>1. DOMAIN Extended(w) = 1 .. Len(Extended(w)) /\ Len(Extended(w)) \in Nat
    BY <1>6, LenProperties
  <2>2. n \in 1 .. Len(joined) - from + 1
    BY <1>4, <1>6, <2>1
  <2> DEFINE i == from + n - 1
  <2>3. Extended(w)[n] = joined[i]
    BY <1>6, <2>2
  <2>6. i \in 1 .. Len(joined)
    BY <1>4, <2>2
  <2>7. i \in 1 .. Len(results) + Len(w)
    BY <1>2, <2>6
  <2> HIDE DEF i
  <2>4. CASE i <= Len(results)
    BY <1>1, <1>2, <2>3, <2>7, <2>4
  <2>5. CASE ~(i <= Len(results))
    <3>1. i - Len(results) \in DOMAIN w
      BY <1>1, <2>7, <2>5
    <3> QED
      BY <1>2, <2>3, <2>7, <2>5, <3>1
  <2> QED
    BY <2>4, <2>5
<1> QED
  BY <1>6, <1>7, <1>8

-----------------------------------------------------------------------------
(* The work of the cascade audit.                                          *)

(* The ledger has the command's verdict on the subject of a decision.      *)
Posted(x) ==
  \E r \in remote :
    /\ r.entry.content.by = "command"
    /\ r.entry.correlation = log[x[1]].correlation
    /\ r.entry.content.decision.ref = DecisionAt(x).ref

CommandOK ==
  /\ command = [awaits |-> command.awaits, from |-> command.from,
                window |-> command.window, todo |-> command.todo]
  /\ command.awaits \in {"nothing", "entries", "post"}
  /\ command.from \in Int
  /\ command.awaits = "post" =>
       /\ command.window \subseteq DOMAIN log
       /\ command.todo \subseteq WorkOn(command.window)
       /\ command.todo # {} /\ First(command.todo)[2] # 0
       /\ \A x \in WorkOn(command.window) \ command.todo :
            x \in AuditableIn(command.window) /\ Posted(x)

CoveredOK ==
  /\ covered \subseteq DOMAIN log
  /\ \A x \in AuditableIn(covered) : Posted(x)

LEMMA WorkOnIs ==
  ASSUME LogOK, NEW window \in SUBSET (DOMAIN log), NEW x \in WorkOn(window)
  PROVE  /\ x = <<x[1], x[2]>> /\ x[1] \in Nat /\ x[2] \in Nat
         /\ x[2] # 0 => x \in AuditableIn(window) /\ x \in AuditableIn(DOMAIN log)
<1>1. CASE x \in AuditableIn({i \in window : log[i].readable})
  <2>1. {i \in window : log[i].readable} \subseteq window
    OBVIOUS
  <2>2. x \in AuditableIn(window) /\ x \in AuditableIn(DOMAIN log)
    BY <1>1, <2>1, AuditableMonotonic
  <2> QED
    BY <2>2, AuditableIs
<1>2. CASE x \in {<<i, 0>> : i \in {j \in window : ~log[j].readable}}
  <2>1. PICK i \in window : x = <<i, 0>>
    BY <1>2
  <2>2. i \in Nat
    BY LogBasics
  <2> QED
    BY <2>1, <2>2
<1> QED
  BY <1>1, <1>2 DEF WorkOn

(* All that is auditable in what was read is work, unless something in it  *)
(* cannot be read.                                                         *)
LEMMA WorkCovers ==
  ASSUME LogOK, NEW window \in SUBSET (DOMAIN log),
         \A x \in WorkOn(window) : x \in AuditableIn(window)
  PROVE  AuditableIn(window) \subseteq WorkOn(window)
<1>1. ASSUME NEW i \in window  PROVE log[i].readable
  <2>1. SUFFICES ASSUME ~log[i].readable  PROVE FALSE
    OBVIOUS
  <2>2. <<i, 0>> \in WorkOn(window)
    BY <2>1 DEF WorkOn
  <2>3. <<i, 0>> \in AuditableIn(window)
    BY <2>2
  <2>4. <<i, 0>>[2] # 0
    BY <2>3, AuditableIs
  <2> QED
    BY <2>4
<1>2. {i \in window : log[i].readable} = window
  BY <1>1
<1> QED
  BY <1>2 DEF WorkOn

(* There is a first piece of work.                                         *)
LEMMA FirstIs ==
  ASSUME LogOK, NEW window \in SUBSET (DOMAIN log), NEW todo,
         todo \subseteq WorkOn(window), todo # {}
  PROVE  First(todo) \in todo
<1> DEFINE rows == {i \in Nat : \E x \in todo : x[1] = i}
<1>1. \A x \in todo : x[1] \in Nat /\ x[2] \in Nat
  BY WorkOnIs
<1>2. rows \in SUBSET Nat /\ rows # {}
  BY <1>1
<1>3. PICK i \in rows : \A j \in rows : i <= j
  <2> HIDE DEF rows
  <2> QED
    BY <1>2, LeastNatural
<1> DEFINE columns == {k \in Nat : \E x \in todo : x[1] = i /\ x[2] = k}
<1>4. columns \in SUBSET Nat /\ columns # {}
  BY <1>1, <1>3
<1>5. PICK k \in columns : \A l \in columns : k <= l
  <2> HIDE DEF columns
  <2> QED
    BY <1>4, LeastNatural
<1>6. PICK x \in todo : x[1] = i /\ x[2] = k
  BY <1>5
<1>7. ASSUME NEW y \in todo  PROVE x[1] < y[1] \/ (x[1] = y[1] /\ x[2] <= y[2])
  <2>1. y[1] \in rows /\ i <= y[1]
    BY <1>1, <1>3
  <2>2. y[1] = i => y[2] \in columns /\ k <= y[2]
    BY <1>1, <1>5
  <2>3. i \in Nat /\ y[1] \in Nat
    BY <1>1
  <2> QED
    BY <1>6, <2>1, <2>2, <2>3
<1> QED
  BY <1>6, <1>7 DEF First

(* What is posted stays posted, and the work the same, as log and ledger   *)
(* grow.                                                                   *)
LEMMA PostedMoves ==
  ASSUME LogOK, LogExtended, remote \subseteq remote',
         NEW x \in AuditableIn(DOMAIN log), Posted(x)
  PROVE  Posted(x)'
<1>1. DecisionAt(x)' = DecisionAt(x) /\ log'[x[1]] = log[x[1]]
  BY ExtendedSame
<1> QED
  BY <1>1 DEF Posted

LEMMA WorkMembers ==
  \A w, x : x \in WorkOn(w) <=>
    \/ \E i \in w : log[i].readable /\ \E k \in DOMAIN log[i].decisions :
          x = <<i, k>> /\ log[i].decisions[k].outcome \in Auditable
    \/ \E i \in w : ~log[i].readable /\ x = <<i, 0>>
<1>1. ASSUME NEW window, NEW x
      PROVE  x \in WorkOn(window) <=>
               \/ x \in AuditableIn({i \in window : log[i].readable})
               \/ \E i \in window : ~log[i].readable /\ x = <<i, 0>>
  BY DEF WorkOn
<1>2. ASSUME NEW window, NEW x
      PROVE  x \in AuditableIn({i \in window : log[i].readable}) <=>
               \E i \in window : log[i].readable /\ \E k \in DOMAIN log[i].decisions :
                 x = <<i, k>> /\ log[i].decisions[k].outcome \in Auditable
  BY AuditableMember
<1> QED
  BY <1>1, <1>2

LEMMA WorkMoves ==
  ASSUME LogOK, LogExtended, NEW window \in SUBSET (DOMAIN log)
  PROVE  /\ window \subseteq DOMAIN log'
         /\ WorkOn(window)' = WorkOn(window)
         /\ AuditableIn(window)' = AuditableIn(window)
<1>1. \A i \in window : i \in DOMAIN log' /\ log'[i] = log[i]
  BY DEF LogExtended
<1>2. (\A w, x : x \in WorkOn(w) <=>
    \/ \E i \in w : log[i].readable /\ \E k \in DOMAIN log[i].decisions :
          x = <<i, k>> /\ log[i].decisions[k].outcome \in Auditable
    \/ \E i \in w : ~log[i].readable /\ x = <<i, 0>>)'
  BY WorkMembers, PTL
<1>3. \A x : x \in WorkOn(window)' <=>
    \/ \E i \in window : log'[i].readable /\ \E k \in DOMAIN log'[i].decisions :
          x = <<i, k>> /\ log'[i].decisions[k].outcome \in Auditable
    \/ \E i \in window : ~log'[i].readable /\ x = <<i, 0>>
  BY <1>2
<1>4. \A x : x \in WorkOn(window)' <=> x \in WorkOn(window)
  BY <1>1, <1>3, WorkMembers
<1>5. AuditableIn(window)' = AuditableIn(window)
  BY ExtendedSame
<1> QED
  BY <1>1, <1>4, <1>5

-----------------------------------------------------------------------------
(* The step of the invariant, part by part.                                *)

(* The clock goes forward and the log only grows.                          *)
LEMMA LogStep ==
  ASSUME LogOK, [Next]_vars
  PROVE  /\ LogOK' /\ LogExtended
         /\ now <= now' /\ Len(log) <= Len(log')
         /\ \A i \in DOMAIN log' : i \notin DOMAIN log =>
              log'[i].at = now /\ i > Len(log)
<1>1. CASE UNCHANGED log /\ now' \in now .. MaxTime
  <2>1. now' \in 1 .. MaxTime /\ now <= now' /\ now \in Nat /\ now' \in Nat
    BY <1>1, SettingsAre DEF LogOK
  <2>2. Len(log) \in Nat /\ \A i \in DOMAIN log : log[i].at \in Nat
    BY LogBasics
  <2> QED
    BY <1>1, <2>1, <2>2 DEF LogOK, LogExtended, LogEntry
<1>2. CASE RecordWritten
  <2>1. PICK r \in RecordKinds :
          log' = Append(log, [at |-> now, correlation |-> r.correlation,
                              readable |-> r.readable, decisions |-> r.decisions])
    BY <1>2 DEF RecordWritten
  <2> DEFINE e == [at |-> now, correlation |-> r.correlation,
                   readable |-> r.readable, decisions |-> r.decisions]
  <2>2. now' = now /\ now \in Nat /\ now >= 1 /\ now \in 1 .. MaxTime
    BY <1>2, SettingsAre DEF RecordWritten, LogOK
  <2>3. e \in LogEntry /\ e.at = now
    BY <2>2, AuditAssumption DEF LogEntry
  <2> HIDE DEF e
  <2>4. log' = Append(log, e)
    BY <2>1 DEF e
  <2>5. Len(log) \in Nat /\ DOMAIN log = 1 .. Len(log)
    BY LogBasics
  <2>6. /\ log' \in Seq(LogEntry) /\ Len(log') = Len(log) + 1
        /\ \A i \in 1 .. Len(log) : log'[i] = log[i]
        /\ log'[Len(log) + 1] = e
    BY <2>3, <2>4, AppendProperties DEF LogOK
  <2>7. DOMAIN log' = 1 .. Len(log) + 1
    BY <2>6, LenProperties
  <2>8. LogExtended
    BY <2>5, <2>6, <2>7 DEF LogExtended
  <2>9. \A i \in DOMAIN log' : i \in DOMAIN log \/ i = Len(log) + 1
    BY <2>5, <2>7
  <2>10. \A i \in DOMAIN log : log[i].at \in Nat /\ 1 <= log[i].at /\ log[i].at <= now
    BY LogBasics DEF LogOK
  <2>11. \A i \in DOMAIN log' : 1 <= log'[i].at /\ log'[i].at <= now'
    BY <2>2, <2>3, <2>5, <2>6, <2>9, <2>10
  <2>12. ASSUME NEW i \in DOMAIN log', NEW j \in DOMAIN log', i <= j
         PROVE  log'[i].at <= log'[j].at
    <3>1. CASE j = Len(log) + 1
      BY <2>2, <2>3, <2>6, <2>11, <3>1
    <3>2. CASE j \in DOMAIN log
      <4>1. i \in DOMAIN log
        BY <2>5, <2>7, <2>12, <3>2
      <4> QED
        BY <2>5, <2>6, <2>12, <3>2, <4>1 DEF LogOK
    <3> QED
      BY <2>9, <3>1, <3>2
  <2>13. LogOK'
    BY <2>2, <2>6, <2>11, <2>12 DEF LogOK, LogEntry
  <2>14. \A i \in DOMAIN log' : i \notin DOMAIN log => log'[i].at = now /\ i > Len(log)
    BY <2>3, <2>5, <2>6, <2>9
  <2> QED
    BY <2>2, <2>5, <2>6, <2>8, <2>13, <2>14
<1>3. \/ UNCHANGED log /\ now' \in now .. MaxTime
      \/ RecordWritten
  <2>1. now \in 1 .. MaxTime /\ MaxTime \in Nat
    BY SettingsAre DEF LogOK
  <2>2. CASE UNCHANGED <<now, log>>
    BY <2>1, <2>2
  <2>3. CASE Tick
    BY <2>1, <2>3 DEF Tick
  <2>4. UNCHANGED <<now, log>> \/ Tick \/ RecordWritten
    BY DEF Next, vars, SamplerStep, CommandStep, StartPoll, FetchPage, FetchFails, Probed,
       WriteVerdict, Restart, StartAudit, ReadWindow, PostVerdict, CommandFault
  <2> QED
    BY <2>2, <2>3, <2>4
<1> QED
  BY <1>1, <1>2, <1>3

(* The verdict that awaits its write.                                      *)
LEMMA CurrentIs ==
  ASSUME LogOK, PollOK(poll), poll.awaits \in {"probe", "write"}
  PROVE  \E x \in AuditableIn(DOMAIN log), probe \in Probes :
           /\ poll.current = <<Awaited(x, probe)>>
           /\ Head(poll.current).at = x
           /\ Head(poll.current).verdict = VerdictOn(x, SamplerFails(DecisionAt(x)), probe, "sampler")
           /\ poll.awaits = "probe" => SamplerFails(DecisionAt(x))
<1>1. PICK x \in AuditableIn(DOMAIN log), probe \in Probes :
        /\ poll.current = <<Awaited(x, probe)>>
        /\ poll.awaits = "probe" => SamplerFails(DecisionAt(x))
  BY DEF PollOK, CurrentOK
<1>2. Head(poll.current) = Awaited(x, probe)
  <2> HIDE DEF Awaited
  <2> QED
    BY <1>1
<1>3. /\ Head(poll.current).at = x
      /\ Head(poll.current).verdict = VerdictOn(x, SamplerFails(DecisionAt(x)), probe, "sampler")
  BY <1>2 DEF Awaited
<1> QED
  BY <1>1, <1>3

(* What the command posts.                                                 *)
PostedVerdict ==
  VerdictOn(First(command.todo), CommandFails(DecisionAt(First(command.todo))), "none", "command")

LEMMA PostIs ==
  ASSUME LogOK, CommandOK, command.awaits = "post"
  PROVE  /\ First(command.todo) \in command.todo
         /\ First(command.todo) \in AuditableIn(command.window)
         /\ First(command.todo) \in AuditableIn(DOMAIN log)
         /\ Sound(PostedVerdict) /\ KeyOf(PostedVerdict) = CommandKey(PostedVerdict)
<1>1. First(command.todo) \in command.todo
  BY FirstIs DEF CommandOK
<1>2. /\ First(command.todo) \in AuditableIn(command.window)
      /\ First(command.todo) \in AuditableIn(DOMAIN log)
  BY <1>1, WorkOnIs DEF CommandOK
<1>3. Sound(PostedVerdict) /\ PostedVerdict.content.by = "command"
  BY <1>2, VerdictsSound, SettingsAre DEF PostedVerdict
<1> QED
  BY <1>1, <1>2, <1>3 DEF KeyOf

(* The ledger.                                                             *)
LEMMA LedgerStep ==
  ASSUME LogOK, PollOK(poll), CommandOK, RemoteOK, MemoryOK, [Next]_vars
  PROVE  RemoteOK' /\ MemoryOK' /\ remote \subseteq remote'
<1>1. CASE UNCHANGED <<remote, memory>>
  BY <1>1 DEF RemoteOK, MemoryOK, ProofsAreReal, Sound, KeyOf, IdempotencyKey,
     CommandKey, SamplerRule, CommandRule, VerdictEntry, SamplerFails, CommandFails, Severe
<1>2. CASE WriteVerdict
  <2>1. poll.awaits = "write"
    BY <1>2 DEF WriteVerdict
  <2>2. PICK x \in AuditableIn(DOMAIN log), probe \in Probes :
          Head(poll.current).verdict = VerdictOn(x, SamplerFails(DecisionAt(x)), probe, "sampler")
    BY <2>1, CurrentIs
  <2> DEFINE e == Head(poll.current).verdict
  <2>3. Sound(e) /\ e.content.by = "sampler"
    BY <2>2, VerdictsSound
  <2>4. PICK outcome \in WriteOutcomes : WriteEntry(e, outcome)
    BY <1>2 DEF WriteVerdict
  <2> HIDE DEF e
  <2> QED
    BY <2>3, <2>4, SamplerWrites
<1>3. CASE Restart
  <2>1. memory' = {} /\ remote' = remote
    BY <1>3 DEF Restart
  <2> QED
    BY <2>1 DEF RemoteOK, MemoryOK, ProofsAreReal
<1>4. CASE /\ command.awaits = "post" /\ memory' = memory
           /\ remote' = Stored(CommandKey(PostedVerdict), PostedVerdict)
  <2>1. Sound(PostedVerdict) /\ remote' = Stored(KeyOf(PostedVerdict), PostedVerdict)
    BY <1>4, PostIs
  <2>2. RemoteOK' /\ remote \subseteq remote'
    BY <2>1, StoreKeeps
  <2>3. MemoryOK'
    BY <1>4, <2>2 DEF MemoryOK, ProofsAreReal
  <2> QED
    BY <2>2, <2>3
<1>5. CASE PostVerdict
  BY <1>5, <1>4 DEF PostVerdict, PostedVerdict
<1>6. CASE CommandFault
  <2>1. memory' = memory
    BY <1>6 DEF CommandFault
  <2>2. \/ UNCHANGED remote
        \/ /\ command.awaits = "post"
           /\ remote' = Stored(CommandKey(PostedVerdict), PostedVerdict)
    BY <1>6 DEF CommandFault, PostedVerdict
  <2> QED
    BY <1>1, <1>4, <2>1, <2>2
<1> QED
  BY <1>1, <1>2, <1>3, <1>5, <1>6 DEF Next, vars, ledgerVars, SamplerStep, CommandStep, StartPoll, FetchPage,
     FetchFails, Probed, StartAudit, ReadWindow, RecordWritten, Tick

(* What fetching a page does: the pages stay without a gap, and the poll   *)
(* goes on, finds nothing, or reads its batch.                             *)
LEMMA FetchIs ==
  ASSUME LogOK, lastSeen \in Nat, Gapless(poll.fetched, FromTs), FetchPage
  PROVE  \E b, n \in Nat :
           /\ b + n <= Len(log) /\ Before(b, FromTs)
           /\ \/ /\ poll' = [poll EXCEPT !.fetched = Segment(b, n)]
                 /\ UNCHANGED <<lastSeen, handed, spoiled>>
              \/ poll' = Asleep /\ UNCHANGED <<lastSeen, handed, spoiled>>
              \/ n > 0 /\ Batch(Segment(b, n))
<1>1. PICK matching \in {Matching(FromTs, poll.fetched)} :
      \E got \in {poll.fetched \o SubSeq(matching, 1, Lesser(PageSize, Len(matching)))} :
        \/ poll' = [poll EXCEPT !.fetched = got] /\ UNCHANGED <<lastSeen, handed, spoiled>>
        \/ poll' = Asleep /\ UNCHANGED <<lastSeen, handed, spoiled>>
        \/ got # <<>> /\ Batch(got)
  BY DEF FetchPage
<1>2. FromTs \in Int
  BY DEF FromTs
<1>3. PICK b \in Nat, n \in Nat :
        /\ b + n <= Len(log)
        /\ Before(b, FromTs)
        /\ poll.fetched = Segment(b, n)
        /\ matching = Segment(b + n, Len(log) - (b + n))
  BY <1>1, <1>2, MatchingIs
<1> DEFINE left == Len(log) - (b + n)
           more == Lesser(PageSize, left)
<1>4. left \in Nat /\ b + n \in Nat
  BY <1>3, LogBasics
<1>5. Len(matching) = left
  BY <1>3, <1>4, SegmentProperties
<1>6. more \in 0 .. left
  BY <1>4, SettingsAre DEF Lesser
<1> HIDE DEF left
<1>7. SubSeq(matching, 1, more) = Segment(b + n, more)
  <2>1. matching = Segment(b + n, left)
    BY <1>3 DEF left
  <2> HIDE DEF more
  <2> QED
    BY <1>4, <1>6, <2>1, SegmentOfSegment
<1> HIDE DEF more
<1>8. Segment(b, n) \o Segment(b + n, more) = Segment(b, n + more)
  <2>1. more \in Nat
    BY <1>4, <1>6
  <2> QED
    BY <2>1, SegmentsJoin
<1>9. poll.fetched \o SubSeq(matching, 1, Lesser(PageSize, Len(matching))) = Segment(b, n + more)
  BY <1>3, <1>5, <1>7, <1>8 DEF more
<1>10. n + more \in Nat /\ b + (n + more) <= Len(log)
  BY <1>3, <1>4, <1>6, LogBasics DEF left
<1>11. Segment(b, n + more) # <<>> => n + more > 0
  <2>1. n + more = 0 => Segment(b, n + more) = <<>>
    BY SegmentProperties, EmptySeq, <1>10 DEF Segment
  <2> QED
    BY <1>10, <2>1
<1> QED
  BY <1>1, <1>3, <1>9, <1>10, <1>11

(* The positions of a batch.                                               *)
LEMMA BatchIs ==
  ASSUME LogOK, NEW b \in Nat, NEW n \in Nat, n > 0, b + n <= Len(log)
  PROVE  /\ Range(Segment(b, n)) = b + 1 .. b + n
         /\ Range(Segment(b, n)) \subseteq DOMAIN log
         /\ Last(Segment(b, n)) = b + n
         /\ b + n \in DOMAIN log
         /\ Max({log[i].at : i \in Range(Segment(b, n))}) = log[b + n].at
<1>1. Len(log) \in Nat /\ DOMAIN log = 1 .. Len(log)
  BY LogBasics
<1>2. Len(Segment(b, n)) = n /\ Range(Segment(b, n)) = b + 1 .. b + n
      /\ \A k \in 1 .. n : Segment(b, n)[k] = b + k
  BY SegmentProperties
<1>3. Last(Segment(b, n)) = b + n
  BY <1>2 DEF Last
(* The latest of them is the last, as the log is in the order of time.     *)
<1> DEFINE T == {log[i].at : i \in b + 1 .. b + n}
           last == log[b + n].at
<1>4. last \in T /\ \A t \in T : t <= last /\ t \in Int
  <2>1. /\ \A i \in DOMAIN log : log[i].at \in Nat
        /\ \A i, j \in DOMAIN log : i <= j => log[i].at <= log[j].at
    BY LogBasics DEF LogOK
  <2>2. b + n \in b + 1 .. b + n
    OBVIOUS
  <2>3. \A i \in b + 1 .. b + n : i \in DOMAIN log /\ i <= b + n /\ b + n \in DOMAIN log
    BY <1>1
  <2> QED
    BY <2>1, <2>2, <2>3
<1> HIDE DEF T, last
<1>5. Max(T) = last
  <2>1. Max(T) \in T /\ \A t \in T : Max(T) >= t
    BY <1>4 DEF Max
  <2> QED
    BY <1>4, <2>1
<1>6. Max({log[i].at : i \in Range(Segment(b, n))}) = log[b + n].at
  BY <1>2, <1>5 DEF T, last
<1>7. Range(Segment(b, n)) \subseteq DOMAIN log /\ b + n \in DOMAIN log
  BY <1>1, <1>2
<1> QED
  BY <1>2, <1>3, <1>6, <1>7

LEMMA BatchPoll ==
  ASSUME LogOK, NEW b \in Nat, NEW n \in Nat, n > 0, b + n <= Len(log), Batch(Segment(b, n))
  PROVE  PollOK(poll') /\ poll'.written = <<>>
<1> DEFINE got == Segment(b, n)
<1>1. Range(got) \subseteq DOMAIN log
  BY BatchIs
<1>2. CASE poll' = Asleep
  BY <1>2, AsleepOK DEF Asleep
<1>3. ASSUME NEW found, found = AuditableIn(Range(got)), found # {},
             NEW S \in Samples(found), poll' \in Judged(S, <<>>, [taken |-> S, of |-> found])
      PROVE  PollOK(poll') /\ poll'.written = <<>>
  <2> DEFINE s == [taken |-> S, of |-> found]
  <2>1. found \subseteq AuditableIn(DOMAIN log)
    BY <1>1, <1>3, AuditableMonotonic
  <2>2. SampleOK(s)
    BY <1>3, <2>1, SamplesFair
  <2>3. s.taken = S /\ s.of = found
    OBVIOUS
  <2> HIDE DEF s
  <2>4. IsFiniteSet(S) /\ S \subseteq s.taken /\ IsFiniteSet(found)
    BY <2>1, <2>2, <2>3, TodoFinite, AuditableFinite, FS_Subset
  <2>5. Cardinality(S) = SampleSize(Cardinality(found), RateInverse, MaxVerdicts)
        /\ Cardinality(S) <= MaxVerdicts
    BY <1>3, <2>2, <2>3 DEF SampleOK, Fair
  <2>6. S # {}
    <3>1. Cardinality(found) \in Nat \ {0}
      BY <1>3, <2>4, FS_CardinalityType, FS_EmptySet
    <3>2. SampleSize(Cardinality(found), RateInverse, MaxVerdicts)
            \in 1 .. Lesser(Cardinality(found), MaxVerdicts)
      BY <3>1, SettingsAre, SampleSizeBounds
    <3>3. Cardinality(S) # 0
      BY <2>5, <3>2
    <3> QED
      BY <3>3, FS_EmptySet
  <2>7. <<>> \in Seq(VerdictEntry) /\ Len(<<>>) = 0
    BY EmptySeq
  <2>8. Len(<<>>) + Cardinality(S) <= MaxVerdicts
    BY <2>4, <2>5, <2>7, FS_CardinalityType
  <2>9. poll' \in Judged(S, <<>>, s)
    BY <1>3 DEF s
  <2>10. PollOK(poll') /\ (poll' = Asleep \/ poll'.written = <<>>)
    <3> DEFINE w == <<>>
    <3>1. w \in Seq(VerdictEntry) /\ Len(w) + Cardinality(S) <= MaxVerdicts
      BY <2>7, <2>8
    <3>2. poll' \in Judged(S, w, s)
      BY <2>9
    <3> HIDE DEF w
    <3>3. PollOK(poll') /\ (poll' = Asleep \/ poll'.written = w)
      BY <2>2, <2>4, <2>6, <3>1, <3>2, JudgedOK
    <3> QED
      BY <3>3 DEF w
  <2> QED
    BY <2>10 DEF Asleep
<1> QED
  <2>1. \/ poll' = Asleep
        \/ \E found \in {AuditableIn(Range(got))} :
             found # {} /\ \E S \in Samples(found) :
                             poll' \in Judged(S, <<>>, [taken |-> S, of |-> found])
    BY DEF Batch
  <2> HIDE DEF got
  <2> QED
    BY <1>2, <1>3, <2>1

LEMMA PollStep ==
  ASSUME LogOK, PollOK(poll), lastSeen \in Nat, Gapless(poll.fetched, FromTs), [Next]_vars
  PROVE  PollOK(poll)'
<1>0. SUFFICES PollOK(poll')
  BY LogStep, PollMoves
<1>1. CASE UNCHANGED poll
  BY <1>1
<1>2. CASE poll' = Asleep
  BY <1>2, AsleepOK
<1>3. CASE StartPoll
  <2>1. poll.awaits = "sleeping" /\ poll' = [poll EXCEPT !.awaits = "page"]
    BY <1>3 DEF StartPoll
  <2>2. /\ poll'.awaits = "page" /\ poll'.fetched = poll.fetched /\ poll'.todo = poll.todo
        /\ poll'.current = poll.current /\ poll'.written = poll.written
        /\ poll'.sample = poll.sample
        /\ poll' = [awaits |-> poll'.awaits, fetched |-> poll'.fetched, todo |-> poll'.todo,
                    current |-> poll'.current, written |-> poll'.written,
                    sample |-> poll'.sample]
    BY <2>1 DEF PollOK
  <2>3. CurrentOK(poll')
    BY <2>1, <2>2 DEF PollOK, CurrentOK
  <2> QED
    BY <2>1, <2>2, <2>3 DEF PollOK
<1>4. CASE FetchPage
  <2>1. PICK b \in Nat, n \in Nat :
           /\ b + n <= Len(log)
           /\ \/ poll' = [poll EXCEPT !.fetched = Segment(b, n)]
              \/ poll' = Asleep
              \/ n > 0 /\ Batch(Segment(b, n))
    BY <1>4, FetchIs
  <2>2. CASE poll' = [poll EXCEPT !.fetched = Segment(b, n)]
    <3>1. poll.awaits = "page"
      BY <1>4 DEF FetchPage
    <3>2. /\ poll'.awaits = "page" /\ poll'.todo = poll.todo
          /\ poll'.current = poll.current /\ poll'.written = poll.written
          /\ poll'.sample = poll.sample
          /\ poll' = [awaits |-> poll'.awaits, fetched |-> poll'.fetched, todo |-> poll'.todo,
                      current |-> poll'.current, written |-> poll'.written,
                      sample |-> poll'.sample]
      BY <2>2, <3>1 DEF PollOK
    <3>3. CurrentOK(poll')
      BY <3>1, <3>2 DEF PollOK, CurrentOK
    <3> QED
      BY <3>1, <3>2, <3>3 DEF PollOK
  <2> QED
    BY <1>2, <2>1, <2>2, BatchPoll
<1>5. CASE Probed
  <2>1. poll.awaits = "probe"
    BY <1>5 DEF Probed
  <2>2. PICK x \in AuditableIn(DOMAIN log) :
          Head(poll.current).at = x /\ SamplerFails(DecisionAt(x))
    BY <2>1, CurrentIs
  <2>3. PICK probe \in Probes :
          poll' = [poll EXCEPT !.awaits = "write",
             !.current = <<[at |-> x, verdict |-> VerdictOn(x, TRUE, probe, "sampler")]>>]
    BY <1>5, <2>2 DEF Probed
  <2>4. VerdictOn(x, TRUE, probe, "sampler") = VerdictOn(x, SamplerFails(DecisionAt(x)), probe, "sampler")
    BY <2>2 DEF VerdictOn
  <2>5. poll' = [poll EXCEPT !.awaits = "write", !.current = <<Awaited(x, probe)>>]
    BY <2>3, <2>4 DEF Awaited
  <2>6. /\ poll'.awaits = "write" /\ poll'.fetched = poll.fetched /\ poll'.todo = poll.todo
        /\ poll'.current = <<Awaited(x, probe)>> /\ poll'.written = poll.written
        /\ poll'.sample = poll.sample
        /\ poll' = [awaits |-> poll'.awaits, fetched |-> poll'.fetched, todo |-> poll'.todo,
                    current |-> poll'.current, written |-> poll'.written,
                    sample |-> poll'.sample]
    <3> HIDE DEF Awaited
    <3> QED
      BY <2>5 DEF PollOK
  <2>7. CurrentOK(poll')
    BY <2>6 DEF CurrentOK
  <2> QED
    BY <2>1, <2>6, <2>7 DEF PollOK
<1>6. CASE WriteVerdict
  <2>1. poll.awaits = "write"
    BY <1>6 DEF WriteVerdict
  <2> DEFINE verdict == Head(poll.current).verdict
             written == Append(poll.written, verdict)
  <2>2. verdict \in VerdictEntry
    BY <2>1, CurrentIs, VerdictsSound DEF Sound
  <2>3. \/ poll.todo # {} /\ poll' \in Judged(poll.todo, written, poll.sample)
        \/ poll' = Asleep
    BY <1>6 DEF WriteVerdict
  <2> HIDE DEF verdict
  <2>4. written \in Seq(VerdictEntry) /\ Len(written) = Len(poll.written) + 1
    BY <2>2, AppendProperties DEF PollOK
  <2> HIDE DEF written
  <2>5. IsFiniteSet(poll.todo) /\ poll.todo \subseteq poll.sample.taken /\ SampleOK(poll.sample)
    BY TodoFinite DEF PollOK
  <2>6. Len(written) + Cardinality(poll.todo) <= MaxVerdicts
    <3>1. Len(poll.written) + Cardinality(poll.todo) < MaxVerdicts
      BY <2>1 DEF PollOK
    <3>2. Cardinality(poll.todo) \in Nat /\ Len(poll.written) \in Nat /\ MaxVerdicts \in Nat
      BY <2>5, FS_CardinalityType, LenProperties, SettingsAre DEF PollOK
    <3> QED
      BY <2>4, <3>1, <3>2
  <2> QED
    BY <1>2, <2>3, <2>4, <2>5, <2>6, JudgedOK
<1> QED
  BY <1>1, <1>2, <1>3, <1>4, <1>5, <1>6 DEF Next, vars, samplerVars, SamplerStep, CommandStep,
     FetchFails, Restart, StartAudit, ReadWindow, PostVerdict, CommandFault, RecordWritten, Tick

-----------------------------------------------------------------------------
(* The results.                                                            *)

(* The ledger has what a poll has written and what its results count, but  *)
(* for the verdicts whose own write failed.                                *)
ResultsOK ==
  /\ results \in Seq(VerdictEntry) /\ Len(results) <= ResultCap
  /\ \A n \in DOMAIN results : Held(results[n])
  /\ \A n \in DOMAIN poll.written : Held(poll.written[n])

(* What is held stays held.                                                *)
LEMMA HeldStays ==
  ASSUME remote \subseteq remote', missed \subseteq missed'
  PROVE  \A x : Held(x) => HeldThen(x)
BY DEF Held, HeldThen

(* And no step takes the history of a write that failed back.              *)
LEMMA MissedGrows ==
  ASSUME [Next]_vars
  PROVE  missed \subseteq missed'
<1>1. CASE UNCHANGED missed
  BY <1>1
<1>2. CASE WriteVerdict
  BY <1>2 DEF WriteVerdict, WriteEntry
<1> QED
  BY <1>1, <1>2 DEF Next, vars, ledgerVars, SamplerStep, CommandStep, StartPoll, FetchPage,
     FetchFails, Probed, Restart, StartAudit, ReadWindow, PostVerdict, CommandFault,
     RecordWritten, Tick

(* A verdict that is written joins those of its poll, and the results if   *)
(* it is the last.                                                         *)
LEMMA WriteIs ==
  ASSUME LogOK, PollOK(poll), RemoteOK, MemoryOK, WriteVerdict
  PROVE  \E e \in VerdictEntry, w \in Seq(VerdictEntry) :
           /\ Len(w) = Len(poll.written) + 1
           /\ \A k \in 1 .. Len(poll.written) : w[k] = poll.written[k]
           /\ w[Len(poll.written) + 1] = e
           /\ HeldThen(e)
           /\ poll' = Asleep \/ poll'.written = w
           /\ UNCHANGED results \/ results' = Extended(w)
<1>1. poll.awaits = "write" /\ poll.written \in Seq(VerdictEntry)
  BY DEF WriteVerdict, PollOK
<1> DEFINE e == Head(poll.current).verdict
           w == Append(poll.written, e)
<1>2. e \in VerdictEntry /\ Sound(e) /\ e.content.by = "sampler"
  BY <1>1, CurrentIs, VerdictsSound DEF Sound
<1>3. \/ poll.todo # {} /\ poll' \in Judged(poll.todo, w, poll.sample) /\ UNCHANGED results
      \/ poll' = Asleep /\ results' = Extended(w)
  BY DEF WriteVerdict
<1>4. PICK outcome \in WriteOutcomes : WriteEntry(e, outcome)
  BY DEF WriteVerdict
<1> HIDE DEF e
<1>5. HeldThen(e)
  BY <1>2, <1>4, SamplerWrites
<1>6. /\ w \in Seq(VerdictEntry) /\ Len(w) = Len(poll.written) + 1
      /\ \A k \in 1 .. Len(poll.written) : w[k] = poll.written[k]
      /\ w[Len(poll.written) + 1] = e
  BY <1>1, <1>2, AppendProperties
<1> HIDE DEF w
<1>7. poll' = Asleep \/ poll'.written = w
  <2>1. CASE poll.todo # {} /\ poll' \in Judged(poll.todo, w, poll.sample)
    <3>1. IsFiniteSet(poll.todo) /\ poll.todo \subseteq poll.sample.taken /\ SampleOK(poll.sample)
      BY TodoFinite DEF PollOK
    <3>2. Len(w) + Cardinality(poll.todo) <= MaxVerdicts
      <4>1. Len(poll.written) + Cardinality(poll.todo) < MaxVerdicts
        BY <1>1 DEF PollOK
      <4>2. Cardinality(poll.todo) \in Nat /\ Len(poll.written) \in Nat /\ MaxVerdicts \in Nat
        BY <1>1, <3>1, FS_CardinalityType, LenProperties, SettingsAre
      <4> QED
        BY <1>6, <4>1, <4>2
    <3> QED
      BY <1>6, <2>1, <3>1, <3>2, JudgedOK
  <2> QED
    BY <1>3, <2>1
<1> QED
  BY <1>2, <1>3, <1>5, <1>6, <1>7

LEMMA ResultsStep ==
  ASSUME LogOK, PollOK(poll), CommandOK, lastSeen \in Nat, Gapless(poll.fetched, FromTs),
         RemoteOK, MemoryOK, ResultsOK, [Next]_vars
  PROVE  ResultsOK'
<1>1. remote \subseteq remote' /\ missed \subseteq missed'
  BY LedgerStep, MissedGrows
<1>2. \A x : Held(x) => HeldThen(x)
  BY <1>1, HeldStays
<1>3. /\ \A n \in DOMAIN results : HeldThen(results[n])
      /\ \A n \in DOMAIN poll.written : HeldThen(poll.written[n])
  BY <1>2 DEF ResultsOK
<1>4. SUFFICES /\ results' \in Seq(VerdictEntry) /\ Len(results') <= ResultCap
               /\ \A n \in DOMAIN results' : HeldThen(results'[n])
               /\ \A n \in DOMAIN poll'.written : HeldThen(poll'.written[n])
  BY DEF ResultsOK, Held, HeldThen, VerdictEntry
<1>5. Asleep.written = <<>> /\ DOMAIN <<>> = {}
  BY DEF Asleep
<1>6. CASE UNCHANGED results /\ (poll' = Asleep \/ UNCHANGED poll \/ poll'.written = poll.written \/ poll'.written = <<>>)
  <2>1. \A n \in DOMAIN poll'.written : HeldThen(poll'.written[n])
    BY <1>3, <1>5, <1>6
  <2> QED
    BY <1>3, <1>6, <2>1 DEF ResultsOK
<1>7. CASE WriteVerdict
  <2>1. PICK e \in VerdictEntry, w \in Seq(VerdictEntry) :
           /\ Len(w) = Len(poll.written) + 1
           /\ \A k \in 1 .. Len(poll.written) : w[k] = poll.written[k]
           /\ w[Len(poll.written) + 1] = e
           /\ HeldThen(e)
           /\ poll' = Asleep \/ poll'.written = w
           /\ UNCHANGED results \/ results' = Extended(w)
    BY <1>7, WriteIs
  <2>2. /\ Len(poll.written) \in Nat /\ DOMAIN poll.written = 1 .. Len(poll.written)
        /\ DOMAIN w = 1 .. Len(w)
    BY LenProperties DEF PollOK
  <2>3. ASSUME NEW k \in DOMAIN w  PROVE HeldThen(w[k])
    <3>1. CASE k \in 1 .. Len(poll.written)
      BY <1>3, <2>1, <2>2, <3>1
    <3>2. CASE k \notin 1 .. Len(poll.written)
      <4>1. k = Len(poll.written) + 1
        BY <2>1, <2>2, <3>2
      <4> QED
        BY <2>1, <4>1
    <3> QED
      BY <3>1, <3>2
  <2>4. results' \in Seq(VerdictEntry) /\ Len(results') <= ResultCap
        /\ \A n \in DOMAIN results' : HeldThen(results'[n])
    <3>1. CASE UNCHANGED results
      BY <1>3, <3>1 DEF ResultsOK
    <3>2. CASE results' = Extended(w)
      <4>1. /\ Extended(w) \in Seq(VerdictEntry) /\ Len(Extended(w)) <= ResultCap
            /\ \A n \in DOMAIN Extended(w) :
                 \/ \E k \in DOMAIN results : Extended(w)[n] = results[k]
                 \/ \E k \in DOMAIN w : Extended(w)[n] = w[k]
        BY ExtendedKeeps DEF ResultsOK
      <4> QED
        BY <1>3, <2>3, <3>2, <4>1
    <3> QED
      BY <2>1, <3>1, <3>2
  <2>5. \A n \in DOMAIN poll'.written : HeldThen(poll'.written[n])
    BY <1>5, <2>1, <2>3
  <2> QED
    BY <2>4, <2>5
<1>8. CASE Restart
  <2>1. results' = <<>> /\ poll' = Asleep
    BY <1>8 DEF Restart
  <2>2. ResultCap \in Nat /\ <<>> \in Seq(VerdictEntry) /\ Len(<<>>) = 0
    BY SettingsAre, EmptySeq
  <2>3. DOMAIN results' = {} /\ DOMAIN poll'.written = {}
    BY <1>5, <2>1
  <2> QED
    BY <2>1, <2>2, <2>3
<1>9. CASE FetchPage
  <2>1. UNCHANGED results
    BY <1>9 DEF FetchPage
  <2>2. PICK b \in Nat, n \in Nat :
           /\ b + n <= Len(log)
           /\ \/ poll' = [poll EXCEPT !.fetched = Segment(b, n)]
              \/ poll' = Asleep
              \/ n > 0 /\ Batch(Segment(b, n))
    BY <1>9, FetchIs
  <2>3. poll' = [poll EXCEPT !.fetched = Segment(b, n)] => poll'.written = poll.written
    BY DEF PollOK
  <2>4. n > 0 /\ Batch(Segment(b, n)) => poll'.written = <<>>
    BY <2>2, BatchPoll
  <2> QED
    BY <1>6, <2>1, <2>2, <2>3, <2>4
<1>10. CASE StartPoll
  <2>1. UNCHANGED results /\ poll'.written = poll.written
    BY <1>10 DEF StartPoll, PollOK
  <2> QED
    BY <1>6, <2>1
<1>11. CASE Probed
  <2>1. UNCHANGED results
    BY <1>11 DEF Probed
  <2>2. PICK c : poll' = [poll EXCEPT !.awaits = "write", !.current = c]
    BY <1>11 DEF Probed
  <2>3. poll'.written = poll.written
    BY <2>2 DEF PollOK
  <2> QED
    BY <1>6, <2>1, <2>3
<1> QED
  BY <1>6, <1>7, <1>8, <1>9, <1>10, <1>11 DEF Next, vars, samplerVars, SamplerStep,
     CommandStep, FetchFails, StartAudit, ReadWindow, PostVerdict, CommandFault, RecordWritten, Tick

-----------------------------------------------------------------------------
(* The pages and the watermark.                                            *)

LEMMA NothingFetched == <<>> = Segment(0, 0)
<1>1. Segment(0, 0) \in Seq(Nat) /\ Len(Segment(0, 0)) = 0
  BY SegmentProperties
<1> QED
  BY <1>1, EmptySeq

LEMMA JudgedPages ==
  ASSUME NEW todo, NEW written, NEW s, NEW p \in Judged(todo, written, s)
  PROVE  p.fetched = <<>>
  BY DEF Judged, Asleep

LEMMA PagesStep ==
  ASSUME LogOK, PollOK(poll), lastSeen \in Nat, Gapless(poll.fetched, FromTs), [Next]_vars
  PROVE  Gapless(poll.fetched, FromTs)'
<1>1. /\ LogOK' /\ LogExtended /\ Len(log) <= Len(log')
      /\ Len(log) \in Nat /\ Len(log') \in Nat /\ DOMAIN log' = 1 .. Len(log')
      /\ \A i, j \in DOMAIN log' : i <= j => log'[i].at <= log'[j].at
      /\ \A i \in DOMAIN log' : log'[i].at \in Nat
  <2>1. LogOK' /\ LogExtended /\ Len(log) <= Len(log')
    BY LogStep
  <2>2. log' \in Seq(LogEntry)
    BY <2>1 DEF LogOK, LogEntry
  <2>3. Len(log') \in Nat /\ DOMAIN log' = 1 .. Len(log')
    BY <2>2, LenProperties
  <2>4. \A i \in DOMAIN log' : log'[i] \in LogEntry
    BY <2>2, <2>3, ElementOfSeq
  <2>5. \A i, j \in DOMAIN log' : i <= j => log'[i].at <= log'[j].at
    BY <2>1 DEF LogOK
  <2> QED
    BY <2>1, <2>3, <2>4, <2>5, LogBasics DEF LogEntry
<1>2. SUFFICES \E b, n \in Nat :
        /\ poll'.fetched = Segment(b, n) /\ b + n <= Len(log')
        /\ n > 0 => \A i \in DOMAIN log' : i <= b <=> log'[i].at < FromTs'
  BY DEF Gapless, Before, Segment
<1>3. CASE poll'.fetched = <<>>
  <2>1. 0 \in Nat /\ 0 + 0 <= Len(log') /\ ~(0 > 0)
    BY <1>1
  <2> QED
    BY <1>3, <2>1, NothingFetched
<1>4. CASE UNCHANGED lastSeen /\ poll'.fetched = poll.fetched
  <2>1. FromTs' = FromTs /\ FromTs \in Int
    BY <1>4 DEF FromTs
  <2> DEFINE s == poll.fetched  from == FromTs
  <2>2. Gapless(s, from) /\ from \in Int
    BY <2>1
  <2> HIDE DEF s, from
  <2>3. \E b, n \in Nat :
           /\ s = Segment(b, n) /\ b + n <= Len(log')
           /\ n > 0 => \A i \in DOMAIN log' : i <= b <=> log'[i].at < from
    BY <1>1, <2>2, GaplessMoves
  <2> QED
    BY <1>4, <2>1, <2>3 DEF s, from
<1>5. CASE FetchPage
  <2>1. PICK b \in Nat, n \in Nat :
           /\ b + n <= Len(log) /\ Before(b, FromTs)
           /\ \/ /\ poll' = [poll EXCEPT !.fetched = Segment(b, n)]
                 /\ UNCHANGED lastSeen
              \/ poll' = Asleep
              \/ n > 0 /\ Batch(Segment(b, n))
    BY <1>5, FetchIs
  <2>2. CASE poll' = Asleep
    BY <1>3, <2>2 DEF Asleep
  <2>3. CASE n > 0 /\ Batch(Segment(b, n))
    <3>1. \/ poll' = Asleep
          \/ \E found, S : poll' \in Judged(S, <<>>, [taken |-> S, of |-> found])
      BY <2>3 DEF Batch
    <3> QED
      BY <1>3, <2>2, <3>1, JudgedPages
  <2>4. CASE poll' = [poll EXCEPT !.fetched = Segment(b, n)] /\ UNCHANGED lastSeen
    <3>1. poll'.fetched = Segment(b, n) /\ FromTs' = FromTs /\ log' = log
      BY <1>5, <2>4 DEF FetchPage, FromTs, PollOK
    <3> QED
      BY <2>1, <3>1 DEF Before
  <2> QED
    BY <2>1, <2>2, <2>3, <2>4
<1>6. CASE poll' = Asleep
  BY <1>3, <1>6 DEF Asleep
<1>7. CASE UNCHANGED <<poll, lastSeen>>
  BY <1>4, <1>7
<1>8. CASE StartPoll
  BY <1>4, <1>8 DEF StartPoll, PollOK
<1>9. CASE Probed
  <2>0. PICK x \in AuditableIn(DOMAIN log) : Head(poll.current).at = x
    BY <1>9, CurrentIs DEF Probed
  <2>1. PICK probe \in Probes :
          poll' = [poll EXCEPT !.awaits = "write",
             !.current = <<[at |-> x, verdict |-> VerdictOn(x, TRUE, probe, "sampler")]>>]
    BY <1>9, <2>0 DEF Probed
  <2>2. UNCHANGED lastSeen
    BY <1>9 DEF Probed
  <2>3. poll'.fetched = poll.fetched
    BY <2>1 DEF PollOK
  <2> QED
    BY <1>4, <2>2, <2>3
<1>10. CASE WriteVerdict
  <2>1. \/ poll' = Asleep
        \/ \E w : poll' \in Judged(poll.todo, w, poll.sample)
    BY <1>10 DEF WriteVerdict
  <2> QED
    BY <1>3, <1>6, <2>1, JudgedPages
<1> QED
  BY <1>5, <1>6, <1>7, <1>8, <1>9, <1>10 DEF Next, vars, samplerVars, SamplerStep, CommandStep,
     FetchFails, Restart, StartAudit, ReadWindow, PostVerdict, CommandFault, RecordWritten, Tick

(* The watermark is the instant of a record that was read.                 *)
WatermarkOK ==
  /\ lastSeen \in 0 .. now
  /\ handed \union spoiled \subseteq DOMAIN log
  /\ lastSeen > 0 => \E j \in handed \union spoiled : log[j].at = lastSeen
  /\ OnlySameInstantSkipped

LEMMA BatchPassed ==
  ASSUME LogOK, WatermarkOK, UNCHANGED <<now, log>>, NEW b \in Nat, NEW n \in Nat, n > 0,
         b + n <= Len(log), Before(b, FromTs), Batch(Segment(b, n))
  PROVE  WatermarkOK'
<1> DEFINE read == handed \union spoiled
           read2 == handed' \union spoiled'
<1>1. /\ Range(Segment(b, n)) = b + 1 .. b + n
      /\ Max({log[i].at : i \in Range(Segment(b, n))}) = log[b + n].at
      /\ b + n \in DOMAIN log
      /\ b + 1 .. b + n \subseteq DOMAIN log
  BY BatchIs
<1>2. lastSeen' = log[b + n].at /\ read2 = read \union (b + 1 .. b + n)
  BY <1>1 DEF Batch
<1>3. /\ Len(log) \in Nat /\ DOMAIN log = 1 .. Len(log)
      /\ \A i \in DOMAIN log : log[i].at \in Nat /\ 1 <= log[i].at /\ log[i].at <= now
      /\ \A i, j \in DOMAIN log : i <= j => log[i].at <= log[j].at
      /\ now \in Nat /\ lastSeen \in Nat
  BY LogBasics, SettingsAre DEF LogOK, WatermarkOK
<1> HIDE DEF read, read2
<1>4. ASSUME NEW i \in DOMAIN log, log[i].at <= lastSeen'
      PROVE  i \in read2 \/ \E j \in read2 : j < i /\ log[j].at = log[i].at
  <2>1. CASE i <= b
    <3>1. log[i].at < FromTs
      BY <2>1 DEF Before
    <3>2. log[i].at <= lastSeen
      BY <1>3, <3>1 DEF FromTs
    <3>3. i \in read \/ \E j \in read : j < i /\ log[j].at = log[i].at
      BY <3>2 DEF WatermarkOK, OnlySameInstantSkipped, read
    <3> QED
      BY <1>2, <3>3
  <2>2. CASE i \in b + 1 .. b + n
    BY <1>2, <2>2
  <2>3. CASE i > b + n
    <3>1. log[b + n].at <= log[i].at
      BY <1>1, <1>3, <2>3
    <3>2. log[b + n].at = log[i].at
      BY <1>1, <1>2, <1>3, <1>4, <3>1
    <3>3. b + n \in read2
      BY <1>2
    <3> QED
      BY <2>3, <3>2, <3>3
  <2>4. i \in Nat
    BY <1>3
  <2> QED
    BY <2>1, <2>2, <2>3, <2>4
<1>5. read2 \subseteq DOMAIN log
  BY <1>1, <1>2 DEF WatermarkOK, read
<1>6. lastSeen' \in 0 .. now /\ b + n \in read2
  BY <1>1, <1>2, <1>3
<1> QED
  BY <1>2, <1>4, <1>5, <1>6 DEF WatermarkOK, OnlySameInstantSkipped, read2

LEMMA WatermarkStep ==
  ASSUME LogOK, Gapless(poll.fetched, FromTs), WatermarkOK, [Next]_vars
  PROVE  WatermarkOK'
<1>1. /\ LogOK' /\ LogExtended /\ now <= now' /\ now \in Nat /\ now' \in Nat
      /\ \A i \in DOMAIN log' : i \notin DOMAIN log => log'[i].at = now /\ i > Len(log)
      /\ Len(log) \in Nat /\ DOMAIN log = 1 .. Len(log) /\ lastSeen \in Nat
  BY LogStep, LogBasics, SettingsAre DEF LogOK, WatermarkOK
<1>2. CASE UNCHANGED <<lastSeen, handed, spoiled>>
  <2> DEFINE read == handed \union spoiled
  <2>1. ASSUME NEW i \in DOMAIN log', log'[i].at <= lastSeen
        PROVE  i \in read \/ \E j \in read : j < i /\ log'[j].at = log'[i].at
    <3>1. CASE i \in DOMAIN log
      <4>1. log'[i] = log[i]
        BY <1>1, <3>1 DEF LogExtended
      <4>2. i \in read \/ \E j \in read : j < i /\ log[j].at = log[i].at
        BY <2>1, <3>1, <4>1 DEF WatermarkOK, OnlySameInstantSkipped
      <4>3. \A j \in read : log'[j] = log[j]
        BY <1>1 DEF LogExtended, WatermarkOK
      <4> QED
        BY <4>1, <4>2, <4>3
    <3>2. CASE i \notin DOMAIN log
      <4>1. log'[i].at = now /\ i > Len(log)
        BY <1>1, <3>2
      <4>2. lastSeen = now /\ lastSeen > 0
        BY <1>1, <2>1, <4>1 DEF WatermarkOK, LogOK
      <4>3. PICK j \in read : log[j].at = lastSeen
        BY <4>2 DEF WatermarkOK
      <4>4. j \in DOMAIN log
        BY DEF WatermarkOK
      <4>5. log'[j] = log[j] /\ j < i
        <5>1. log'[j] = log[j]
          BY <1>1, <4>4 DEF LogExtended
        <5>2. i \in Nat
          <6>1. log' \in Seq(LogEntry)
            BY <1>1 DEF LogOK, LogEntry
          <6> QED
            BY <6>1, LenProperties
        <5> QED
          BY <1>1, <4>1, <4>4, <5>1, <5>2
      <4> QED
        BY <4>1, <4>2, <4>3, <4>5
    <3> QED
      BY <3>1, <3>2
  <2>2. lastSeen \in 0 .. now'
    BY <1>1 DEF WatermarkOK
  <2>3. read \subseteq DOMAIN log' /\ \A j \in read : log'[j] = log[j]
    BY <1>1 DEF LogExtended, WatermarkOK
  <2>4. lastSeen > 0 => \E j \in read : log'[j].at = lastSeen
    BY <2>3 DEF WatermarkOK
  <2> QED
    BY <1>2, <2>1, <2>2, <2>3, <2>4 DEF WatermarkOK, OnlySameInstantSkipped
<1>3. CASE Restart
  <2>1. lastSeen' = 0 /\ handed' = {} /\ spoiled' = {}
    BY <1>3 DEF Restart
  <2>2. \A i \in DOMAIN log' : ~(log'[i].at <= 0)
    <3>1. log' \in Seq(LogEntry) /\ \A i \in DOMAIN log' : 1 <= log'[i].at
      BY <1>1 DEF LogOK, LogEntry
    <3>2. \A i \in DOMAIN log' : log'[i] \in LogEntry
      BY <3>1, LenProperties, ElementOfSeq
    <3>3. \A i \in DOMAIN log' : log'[i].at \in Nat
      BY <3>2 DEF LogEntry
    <3> QED
      BY <3>1, <3>3
  <2> QED
    BY <1>1, <2>1, <2>2 DEF WatermarkOK, OnlySameInstantSkipped
<1>4. CASE FetchPage
  <2>1. PICK b \in Nat, n \in Nat :
           /\ b + n <= Len(log) /\ Before(b, FromTs)
           /\ \/ UNCHANGED <<lastSeen, handed, spoiled>>
              \/ n > 0 /\ Batch(Segment(b, n))
    BY <1>1, <1>4, FetchIs
  <2>2. UNCHANGED <<now, log>>
    BY <1>4 DEF FetchPage
  <2>3. CASE n > 0 /\ Batch(Segment(b, n))
    BY <2>1, <2>2, <2>3, BatchPassed
  <2> QED
    BY <1>2, <2>1, <2>3
<1> QED
  BY <1>2, <1>3, <1>4 DEF Next, vars, samplerVars, SamplerStep, CommandStep, StartPoll, FetchFails,
     Probed, WriteVerdict, StartAudit, ReadWindow, PostVerdict, CommandFault, RecordWritten, Tick

-----------------------------------------------------------------------------
(* The cascade audit.                                                      *)

LEMMA CoveredDecisions ==
  \A x : x \in AuditableIn(covered) <=>
           \E i \in covered : \E k \in DOMAIN log[i].decisions :
             x = <<i, k>> /\ log[i].decisions[k].outcome \in Auditable
  BY AuditableMembers

LEMMA WindowDecisions ==
  \A x : x \in AuditableIn(command.window) <=>
           \E i \in command.window : \E k \in DOMAIN log[i].decisions :
             x = <<i, k>> /\ log[i].decisions[k].outcome \in Auditable
  BY AuditableMembers

LEMMA WindowWork ==
  \A x : x \in WorkOn(command.window) <=>
    \/ \E i \in command.window : log[i].readable /\ \E k \in DOMAIN log[i].decisions :
         x = <<i, k>> /\ log[i].decisions[k].outcome \in Auditable
    \/ \E i \in command.window : ~log[i].readable /\ x = <<i, 0>>
  BY WorkMembers

LEMMA SameLog ==
  ASSUME UNCHANGED log
  PROVE  /\ AuditableIn(covered)' = AuditableIn(covered')
         /\ AuditableIn(command.window)' = AuditableIn(command'.window)
         /\ WorkOn(command.window)' = WorkOn(command'.window)
<1>1. \A x : x \in AuditableIn(covered)' <=> x \in AuditableIn(covered')
  <2>1. (\A x : x \in AuditableIn(covered) <=>
           \E i \in covered : \E k \in DOMAIN log[i].decisions :
             x = <<i, k>> /\ log[i].decisions[k].outcome \in Auditable)'
    BY CoveredDecisions, PTL
  <2> QED
    BY <2>1, AuditableMembers
<1>2. \A x : x \in AuditableIn(command.window)' <=> x \in AuditableIn(command'.window)
  <2>1. (\A x : x \in AuditableIn(command.window) <=>
           \E i \in command.window : \E k \in DOMAIN log[i].decisions :
             x = <<i, k>> /\ log[i].decisions[k].outcome \in Auditable)'
    BY WindowDecisions, PTL
  <2> QED
    BY <2>1, AuditableMembers
<1>3. \A x : x \in WorkOn(command.window)' <=> x \in WorkOn(command'.window)
  <2>1. (\A x : x \in WorkOn(command.window) <=>
    \/ \E i \in command.window : log[i].readable /\ \E k \in DOMAIN log[i].decisions :
         x = <<i, k>> /\ log[i].decisions[k].outcome \in Auditable
    \/ \E i \in command.window : ~log[i].readable /\ x = <<i, 0>>)'
    BY WindowWork, PTL
  <2> QED
    BY <2>1, WorkMembers
<1> QED
  BY <1>1, <1>2, <1>3

LEMMA CoveredSame ==
  ASSUME LogExtended, UNCHANGED covered, covered \subseteq DOMAIN log
  PROVE  AuditableIn(covered)' = AuditableIn(covered)
<1>1. \A i \in covered : log'[i] = log[i]
  BY DEF LogExtended
<1>2. (\A x : x \in AuditableIn(covered) <=>
           \E i \in covered : \E k \in DOMAIN log[i].decisions :
             x = <<i, k>> /\ log[i].decisions[k].outcome \in Auditable)'
  BY CoveredDecisions, PTL
<1>3. \A x : x \in AuditableIn(covered)' <=> x \in AuditableIn(covered)
  BY <1>1, <1>2, CoveredDecisions
<1> QED
  BY <1>3

LEMMA WindowSame ==
  ASSUME LogExtended, UNCHANGED command, command.window \subseteq DOMAIN log
  PROVE  /\ AuditableIn(command.window)' = AuditableIn(command.window)
         /\ WorkOn(command.window)' = WorkOn(command.window)
<1>1. \A i \in command.window : log'[i] = log[i]
  BY DEF LogExtended
<1>2. \A x : x \in AuditableIn(command.window)' <=> x \in AuditableIn(command.window)
  <2>1. (\A x : x \in AuditableIn(command.window) <=>
           \E i \in command.window : \E k \in DOMAIN log[i].decisions :
             x = <<i, k>> /\ log[i].decisions[k].outcome \in Auditable)'
    BY WindowDecisions, PTL
  <2> QED
    BY <1>1, <2>1, WindowDecisions
<1>3. \A x : x \in WorkOn(command.window)' <=> x \in WorkOn(command.window)
  <2>1. (\A x : x \in WorkOn(command.window) <=>
    \/ \E i \in command.window : log[i].readable /\ \E k \in DOMAIN log[i].decisions :
         x = <<i, k>> /\ log[i].decisions[k].outcome \in Auditable
    \/ \E i \in command.window : ~log[i].readable /\ x = <<i, 0>>)'
    BY WindowWork, PTL
  <2> QED
    BY <1>1, <2>1, WindowWork
<1> QED
  BY <1>2, <1>3

(* What an audit goes on with: work of its window that is left, all the    *)
(* rest of it posted.                                                      *)
LEMMA ContinueOK ==
  ASSUME LogOK, UNCHANGED log, remote \subseteq remote', CoveredOK,
         NEW window \in SUBSET (DOMAIN log), NEW todo, todo \subseteq WorkOn(window),
         \A x \in WorkOn(window) \ todo : x \in AuditableIn(window) /\ Posted(x)',
         Continue(window, todo)
  PROVE  CommandOK' /\ CoveredOK'
<1>1. ASSUME NEW x \in AuditableIn(covered)  PROVE Posted(x)'
  <2>1. x \in AuditableIn(DOMAIN log) /\ Posted(x)
    BY AuditableMonotonic DEF CoveredOK
  <2>2. LogExtended
    BY DEF LogExtended
  <2> QED
    BY <2>1, <2>2, PostedMoves
<1>2. command' = Off => CommandOK'
  <2>1. Off = [awaits |-> Off.awaits, from |-> Off.from, window |-> Off.window, todo |-> Off.todo]
        /\ Off.awaits = "nothing" /\ Off.from \in Int
    BY DEF Off
  <2> QED
    BY <2>1 DEF CommandOK
<1>3. UNCHANGED covered => CoveredOK'
  <2>1. SUFFICES ASSUME UNCHANGED covered  PROVE CoveredOK'
    OBVIOUS
  <2>2. AuditableIn(covered)' = AuditableIn(covered)
    BY <2>1, SameLog
  <2> QED
    BY <1>1, <2>1, <2>2 DEF CoveredOK
<1>4. CASE todo = {}
  <2>1. command' = Off /\ covered' = covered \union window
    BY <1>4 DEF Continue
  <2>2. CommandOK'
    BY <1>2, <2>1
  <2>3. \A x \in WorkOn(window) : x \in AuditableIn(window) /\ Posted(x)'
    BY <1>4
  <2>4. AuditableIn(window) \subseteq WorkOn(window)
    BY <2>3, WorkCovers
  <2>5. ASSUME NEW x \in AuditableIn(covered')  PROVE Posted(x)'
    <3>1. x \in AuditableIn(covered) \/ x \in AuditableIn(window)
      <4>1. \A i \in covered' : i \in covered \/ i \in window
        BY <2>1
      <4> QED
        BY <4>1, AuditableMembers
    <3>2. x \in AuditableIn(window) => Posted(x)'
      BY <2>3, <2>4
    <3> QED
      BY <1>1, <3>1, <3>2
  <2>6. CoveredOK'
    BY <2>1, <2>5, SameLog DEF CoveredOK
  <2> QED
    BY <2>2, <2>6
<1>5. CASE /\ todo # {} /\ First(todo)[2] # 0 /\ UNCHANGED covered
           /\ command' = [Off EXCEPT !.awaits = "post", !.window = window, !.todo = todo]
  <2>1. /\ command' = [awaits |-> command'.awaits, from |-> command'.from,
                       window |-> command'.window, todo |-> command'.todo]
        /\ command'.awaits = "post" /\ command'.from \in Int
        /\ command'.window = window /\ command'.todo = todo
    <3>1. command' = [awaits |-> "post", from |-> 0, window |-> window, todo |-> todo]
      BY <1>5, Zenon DEF Off
    <3> QED
      BY <3>1
  <2>2. First(command.todo)' = First(todo)
    BY <2>1 DEF First
  <2>3. /\ AuditableIn(command.window)' = AuditableIn(window)
        /\ WorkOn(command.window)' = WorkOn(window)
    BY <2>1, SameLog
  <2>4. CommandOK'
    BY <1>5, <2>1, <2>2, <2>3 DEF CommandOK
  <2> QED
    BY <1>3, <1>5, <2>4
<1> QED
  <2>1. \/ todo = {}
        \/ command' = Off /\ UNCHANGED covered
        \/ /\ todo # {} /\ First(todo)[2] # 0 /\ UNCHANGED covered
           /\ command' = [Off EXCEPT !.awaits = "post", !.window = window, !.todo = todo]
    BY DEF Continue
  <2> QED
    BY <1>2, <1>3, <1>4, <1>5, <2>1

(* The page a query returns.                                               *)
LEMMA PageInLog ==
  ASSUME LogOK, NEW from \in Int
  PROVE  LET matching == Matching(from, <<>>)
         IN  Range(SubSeq(matching, 1, Lesser(GatewayCap, Len(matching)))) \subseteq DOMAIN log
<1> DEFINE s == <<>>
<1>1. Gapless(s, from)
  <2>1. 0 \in Nat /\ 0 + 0 <= Len(log) /\ ~(0 > 0)
    BY LogBasics
  <2> QED
    BY <2>1, NothingFetched DEF Gapless
<1> HIDE DEF s
<1>2. PICK b \in Nat, n \in Nat :
        b + n <= Len(log) /\ Matching(from, s) = Segment(b + n, Len(log) - (b + n))
  BY <1>1, MatchingIs
<1> DEFINE base == b + n
           left == Len(log) - base
           more == Lesser(GatewayCap, left)
<1>3. base \in Nat /\ left \in Nat /\ more \in 0 .. left /\ Len(log) = base + left
      /\ more \in Nat /\ DOMAIN log = 1 .. Len(log)
  BY <1>2, LogBasics, SettingsAre DEF Lesser
<1>4. Matching(from, s) = Segment(base, left)
  BY <1>2
<1> HIDE DEF base, left
<1>5. Len(Segment(base, left)) = left
  BY <1>3, SegmentProperties
<1> HIDE DEF more
<1>6. SubSeq(Segment(base, left), 1, more) = Segment(base, more)
  BY <1>3, SegmentOfSegment
<1>7. Range(Segment(base, more)) = base + 1 .. base + more
  BY <1>3, SegmentProperties
<1>8. base + 1 .. base + more \subseteq DOMAIN log
  BY <1>3
<1> QED
  BY <1>4, <1>5, <1>6, <1>7, <1>8 DEF s, more

LEMMA CommandStepOK ==
  ASSUME LogOK, PollOK(poll), RemoteOK, MemoryOK, CommandOK, CoveredOK, [Next]_vars
  PROVE  CommandOK' /\ CoveredOK'
<1>1. /\ LogExtended /\ remote \subseteq remote'
  BY LogStep, LedgerStep
<1>2. CASE ReadWindow
  <2> DEFINE matching == Matching(command.from, <<>>)
             page     == Range(SubSeq(matching, 1, Lesser(GatewayCap, Len(matching))))
  <2>1. page \in SUBSET (DOMAIN log)
    BY PageInLog DEF CommandOK
  <2>2. Continue(page, WorkOn(page)) /\ UNCHANGED log
    BY <1>2 DEF ReadWindow
  <2> HIDE DEF page
  <2> QED
    BY <1>1, <2>1, <2>2, ContinueOK
<1>3. CASE PostVerdict
  <2>1. command.awaits = "post"
    BY <1>3 DEF PostVerdict
  <2> DEFINE window == command.window
             first == First(command.todo)
             todo == command.todo \ {first}
  <2>2. window \in SUBSET (DOMAIN log) /\ todo \subseteq WorkOn(window)
    BY <2>1 DEF CommandOK
  <2>3. UNCHANGED log /\ Continue(window, todo)
    BY <1>3 DEF PostVerdict
  <2>4. /\ first \in AuditableIn(window) /\ first \in AuditableIn(DOMAIN log)
        /\ Sound(PostedVerdict) /\ KeyOf(PostedVerdict) = CommandKey(PostedVerdict)
    BY <2>1, PostIs
  <2>5. remote' = Stored(CommandKey(PostedVerdict), PostedVerdict)
    BY <1>3 DEF PostVerdict, PostedVerdict
  <2>6. \E r \in remote' :
          /\ r.entry.content.by = "command"
          /\ r.entry.correlation = log[first[1]].correlation
          /\ r.entry.content.decision.ref = DecisionAt(first).ref
    <3> DEFINE e == PostedVerdict
    <3>1. /\ e.content.by = "command" /\ e.correlation = log[first[1]].correlation
          /\ e.content.decision = DecisionAt(first)
      BY DEF PostedVerdict, VerdictOn
    <3> HIDE DEF e
    <3>2. Sound(e) /\ remote' = Stored(KeyOf(e), e)
      BY <2>4, <2>5 DEF e
    <3>3. PICK r \in remote' : Sound(r.entry) /\ KeyOf(r.entry) = KeyOf(e)
      BY <3>2, StoreKeeps
    <3>4. /\ r.entry.content.by = e.content.by /\ r.entry.correlation = e.correlation
          /\ r.entry.content.decision.ref = e.content.decision.ref
      BY <3>1, <3>2, <3>3, KeyMeans DEF Sound
    <3> QED
      BY <3>1, <3>4
  <2>7. ASSUME NEW x \in WorkOn(window) \ todo
        PROVE  x \in AuditableIn(window) /\ Posted(x)'
    <3>1. CASE x = first
      BY <2>3, <2>4, <2>6, <3>1 DEF Posted, DecisionAt
    <3>2. CASE x # first
      <4>1. x \in AuditableIn(window) /\ Posted(x)
        BY <2>1, <3>2 DEF CommandOK
      <4>2. x \in AuditableIn(DOMAIN log)
        BY <2>2, <4>1, AuditableMonotonic
      <4> QED
        BY <1>1, <4>1, <4>2, PostedMoves
    <3> QED
      BY <3>1, <3>2
  <2> HIDE DEF window, first, todo
  <2> QED
    BY <1>1, <2>2, <2>3, <2>7, ContinueOK
<1>4. UNCHANGED covered => CoveredOK'
  <2>1. SUFFICES ASSUME UNCHANGED covered  PROVE CoveredOK'
    OBVIOUS
  <2>2. AuditableIn(covered)' = AuditableIn(covered) /\ covered \subseteq DOMAIN log'
    BY <1>1, <2>1, CoveredSame DEF CoveredOK, LogExtended
  <2>3. ASSUME NEW x \in AuditableIn(covered)  PROVE Posted(x)'
    <3>1. x \in AuditableIn(DOMAIN log) /\ Posted(x)
      BY AuditableMonotonic DEF CoveredOK
    <3> QED
      BY <1>1, <3>1, PostedMoves
  <2> QED
    BY <2>1, <2>2, <2>3 DEF CoveredOK
<1>5. CASE UNCHANGED commandVars
  <2>1. UNCHANGED command /\ UNCHANGED covered
    BY <1>5 DEF commandVars
  <2>2. CASE command.awaits # "post"
    BY <1>4, <2>1, <2>2 DEF CommandOK
  <2>3. CASE command.awaits = "post"
    <3>1. /\ AuditableIn(command.window)' = AuditableIn(command.window)
          /\ WorkOn(command.window)' = WorkOn(command.window)
      BY <1>1, <2>1, <2>3, WindowSame DEF CommandOK
    <3>2. ASSUME NEW x \in WorkOn(command.window) \ command.todo
          PROVE  x \in AuditableIn(command.window) /\ Posted(x)'
      <4>1. x \in AuditableIn(command.window) /\ Posted(x)
        BY <2>3 DEF CommandOK
      <4>2. x \in AuditableIn(DOMAIN log)
        BY <2>3, <4>1, AuditableMonotonic DEF CommandOK
      <4> QED
        BY <1>1, <4>1, <4>2, PostedMoves
    <3>3. First(command.todo)' = First(command.todo) /\ command.window \subseteq DOMAIN log'
      BY <1>1, <2>1, <2>3 DEF First, CommandOK, LogExtended
    <3>4. CommandOK'
      BY <2>1, <2>3, <3>1, <3>2, <3>3 DEF CommandOK
    <3> QED
      BY <1>4, <2>1, <3>4
  <2> QED
    BY <2>2, <2>3
<1>6. Off.awaits = "nothing" /\ Off.from \in Int
      /\ Off = [awaits |-> Off.awaits, from |-> Off.from, window |-> Off.window, todo |-> Off.todo]
  BY DEF Off
<1>7. CASE StartAudit
  <2>1. command' = [Off EXCEPT !.awaits = "entries", !.from = now - Window] /\ UNCHANGED covered
    BY <1>7 DEF StartAudit
  <2>2. now - Window \in Int
    BY SettingsAre DEF LogOK
  <2>3. CommandOK'
    BY <2>1, <2>2 DEF CommandOK, Off
  <2> QED
    BY <1>4, <2>1, <2>3
<1>8. CASE CommandFault
  <2>1. command' = Off /\ UNCHANGED covered
    BY <1>8 DEF CommandFault
  <2>2. CommandOK'
    BY <1>6, <2>1 DEF CommandOK
  <2> QED
    BY <1>4, <2>1, <2>2
<1> QED
  BY <1>2, <1>3, <1>5, <1>7, <1>8 DEF Next, vars, SamplerStep, CommandStep, StartPoll, FetchPage,
     FetchFails, Probed, WriteVerdict, Restart, RecordWritten, Tick

-----------------------------------------------------------------------------
(* The invariant.                                                          *)

AuditInv ==
  /\ LogOK
  /\ PollOK(poll)
  /\ Gapless(poll.fetched, FromTs)
  /\ WatermarkOK
  /\ ResultsOK
  /\ RemoteOK
  /\ MemoryOK
  /\ CommandOK
  /\ CoveredOK

LEMMA AuditInvStarts == Init => AuditInv
<1> SUFFICES ASSUME Init  PROVE AuditInv
  OBVIOUS
<1>1. /\ now = 1 /\ log = <<>> /\ lastSeen = 0 /\ results = <<>> /\ poll = Asleep
      /\ command = Off /\ handed = {} /\ spoiled = {} /\ covered = {}
      /\ remote = {} /\ memory = {} /\ missed = {}
  BY DEF Init, LedgerInit
<1>2. LogOK
  <2>1. <<>> \in Seq(LogEntry) /\ DOMAIN <<>> = {}
    BY EmptySeq
  <2> QED
    BY <1>1, <2>1, SettingsAre DEF LogOK
<1>3. PollOK(poll)
  BY <1>1, AsleepOK
<1>4. Gapless(poll.fetched, FromTs)
  <2>1. 0 \in Nat /\ 0 + 0 <= Len(log) /\ ~(0 > 0)
    BY <1>2, LogBasics
  <2>2. poll.fetched = <<>>
    BY <1>1 DEF Asleep
  <2> QED
    BY <2>1, <2>2, NothingFetched DEF Gapless
<1>5. WatermarkOK
  <2>1. DOMAIN log = {}
    BY <1>1, EmptySeq
  <2> QED
    BY <1>1, <2>1 DEF WatermarkOK, OnlySameInstantSkipped
<1>6. ResultsOK
  <2>1. <<>> \in Seq(VerdictEntry) /\ Len(<<>>) = 0 /\ DOMAIN <<>> = {}
    BY EmptySeq
  <2>2. poll.written = <<>>
    BY <1>1 DEF Asleep
  <2> QED
    BY <1>1, <2>1, <2>2, SettingsAre DEF ResultsOK
<1>7. RemoteOK /\ MemoryOK
  BY <1>1 DEF RemoteOK, MemoryOK, ProofsAreReal
<1>8. CommandOK
  BY <1>1 DEF CommandOK, Off
<1>9. CoveredOK
  <2>1. AuditableIn(covered) = {}
    BY <1>1, AuditableMembers
  <2> QED
    BY <1>1, <2>1 DEF CoveredOK
<1> QED
  BY <1>2, <1>3, <1>4, <1>5, <1>6, <1>7, <1>8, <1>9 DEF AuditInv

LEMMA AuditInvStep == AuditInv /\ [Next]_vars => AuditInv'
<1> SUFFICES ASSUME AuditInv, [Next]_vars  PROVE AuditInv'
  OBVIOUS
<1>1. /\ LogOK /\ PollOK(poll) /\ Gapless(poll.fetched, FromTs) /\ WatermarkOK /\ ResultsOK
      /\ RemoteOK /\ MemoryOK /\ CommandOK /\ CoveredOK
  BY DEF AuditInv
<1>2. lastSeen \in Nat
  BY <1>1, SettingsAre DEF WatermarkOK, LogOK
<1>3. LogOK'
  BY <1>1, LogStep
<1>4. PollOK(poll)'
  BY <1>1, <1>2, PollStep
<1>5. Gapless(poll.fetched, FromTs)'
  BY <1>1, <1>2, PagesStep
<1>6. WatermarkOK'
  BY <1>1, WatermarkStep
<1>7. ResultsOK'
  BY <1>1, <1>2, ResultsStep
<1>8. RemoteOK' /\ MemoryOK'
  BY <1>1, LedgerStep
<1>9. CommandOK' /\ CoveredOK'
  BY <1>1, CommandStepOK
<1> QED
  BY <1>3, <1>4, <1>5, <1>6, <1>7, <1>8, <1>9 DEF AuditInv

LEMMA AuditInvHolds == Spec => []AuditInv
  BY AuditInvStarts, AuditInvStep, PTL DEF Spec

-----------------------------------------------------------------------------
(* The theorems.                                                           *)

(* Everything the two auditors hold has its type, all that a poll or an    *)
(* audit refers to is in the log, a poll judges no more than               *)
(* max_verdicts_per_poll and no more than the last results are kept        *)
(* (DecisionSampler, audit).                                               *)
THEOREM AuditTypeCorrect == Spec => []AuditTypeOK
<1>1. AuditInv => AuditTypeOK
  <2> SUFFICES ASSUME AuditInv  PROVE AuditTypeOK
    OBVIOUS
  <2>1. now \in 1 .. MaxTime /\ lastSeen \in 0 .. now
    BY DEF AuditInv, LogOK, WatermarkOK
  <2>2. results \in Seq(VerdictEntry) /\ Len(results) <= ResultCap
    BY DEF AuditInv, ResultsOK
  <2>3. poll.awaits \in {"sleeping", "page", "probe", "write"}
    BY DEF AuditInv, PollOK
  <2>4. Len(poll.current) = IF poll.awaits \in {"probe", "write"} THEN 1 ELSE 0
    <3>1. CASE poll.awaits \in {"probe", "write"}
      <4>1. PICK a : poll.current = <<a>>
        BY <3>1 DEF AuditInv, PollOK, CurrentOK
      <4>2. Len(<<a>>) = 1
        OBVIOUS
      <4> QED
        BY <3>1, <4>1, <4>2
    <3>2. CASE poll.awaits \notin {"probe", "write"}
      <4>1. poll.current = <<>>
        BY <3>2 DEF AuditInv, PollOK, CurrentOK
      <4>2. Len(<<>>) = 0
        OBVIOUS
      <4> QED
        BY <3>2, <4>1, <4>2
    <3> QED
      BY <3>1, <3>2
  <2>5. Range(poll.fetched) \subseteq DOMAIN log
    <3>1. PICK b \in Nat, n \in Nat : poll.fetched = Segment(b, n) /\ b + n <= Len(log)
      BY DEF AuditInv, Gapless
    <3>2. Range(poll.fetched) = b + 1 .. b + n
      BY <3>1, SegmentProperties
    <3>3. Len(log) \in Nat /\ DOMAIN log = 1 .. Len(log)
      BY LogBasics DEF AuditInv
    <3> QED
      BY <3>1, <3>2, <3>3
  <2>6. handed \union spoiled \union covered \subseteq DOMAIN log
    BY DEF AuditInv, WatermarkOK, CoveredOK
  <2>7. IsFiniteSet(poll.todo) /\ poll.todo \subseteq AuditableIn(DOMAIN log)
    BY TodoFinite DEF AuditInv, PollOK
  <2>8. Len(poll.written) + Cardinality(poll.todo) <= MaxVerdicts
    <3>1. /\ Len(poll.written) \in Nat /\ Cardinality(poll.todo) \in Nat
          /\ MaxVerdicts \in Nat
      BY <2>7, LenProperties, FS_CardinalityType, SettingsAre DEF AuditInv, PollOK
    <3>2. CASE poll.awaits \in {"probe", "write"}
      BY <3>1, <3>2 DEF AuditInv, PollOK
    <3>3. CASE poll.awaits \in {"sleeping", "page"}
      <4>1. poll.todo = {} /\ poll.written = <<>>
        BY <3>3 DEF AuditInv, PollOK
      <4>2. Cardinality(poll.todo) = 0 /\ Len(poll.written) = 0
        BY <4>1, FS_EmptySet
      <4> QED
        BY <3>1, <4>2
    <3> QED
      BY <2>3, <3>2, <3>3
  <2>9. /\ \A r \in remote : r.entry \in VerdictEntry
        /\ \A m \in memory : m.entry \in VerdictEntry
    BY DEF AuditInv, RemoteOK, MemoryOK, Sound
  <2> QED
    BY <2>1, <2>2, <2>3, <2>4, <2>5, <2>6, <2>7, <2>8, <2>9 DEF AuditTypeOK
<1> QED
  BY <1>1, AuditInvHolds, PTL

(* Whatever the size of pages, the cap of a poll and the clock, a record   *)
(* that the watermark has passed was read, could not be, or came in the    *)
(* millisecond of an earlier one that was (_fetch_new_entries).            *)
THEOREM WatermarkHolds == Spec => []OnlySameInstantSkipped
<1>1. AuditInv => OnlySameInstantSkipped
  BY DEF AuditInv, WatermarkOK
<1> QED
  BY <1>1, AuditInvHolds, PTL

(* Whatever the rate and the cap of verdicts, a sample takes all it may    *)
(* and neither kind of decision crowds out the other (stratified_sample).  *)
THEOREM SampleFairHolds == Spec => []SampleFair
<1>1. AuditInv => SampleFair
  BY DEF AuditInv, PollOK, SampleOK, Fair, SampleFair
<1> QED
  BY <1>1, AuditInvHolds, PTL

(* The two auditors judge alike, but for what a model overrode and for a   *)
(* missing confidence (audit_decision, judge_drop).                        *)
THEOREM AuditorsAgreeHolds == Spec => []AuditorsAgree
<1>1. AuditInv => AuditorsAgree
  <2> SUFFICES ASSUME AuditInv, NEW r \in remote, NEW s \in remote,
                      r.entry.content.by = "sampler", s.entry.content.by = "command",
                      r.entry.content.decision = s.entry.content.decision,
                      r.entry.content.probe # "overrode",
                      r.entry.content.decision.confidence # Missing
               PROVE  r.entry.content.verdict = s.entry.content.verdict
    BY DEF AuditorsAgree
  <2> DEFINE d == r.entry.content.decision
  <2>1. /\ r.entry.content.verdict = SamplerRule(d, r.entry.content.probe)
        /\ s.entry.content.verdict = CommandRule(d)
    BY DEF AuditInv, RemoteOK, Sound
  <2>2. SamplerFails(d) <=> CommandFails(d)
    BY DEF SamplerFails, CommandFails
  <2> QED
    BY <2>1, <2>2 DEF SamplerRule, CommandRule
<1> QED
  BY <1>1, AuditInvHolds, PTL

(* However often the sampler begins again and a reply is lost, the ledger  *)
(* has one verdict of its checks on a decision (write_entry's key).        *)
THEOREM VerdictsNotRepeatedHolds == Spec => []VerdictsNotRepeated
<1>1. AuditInv => VerdictsNotRepeated
  <2> SUFFICES ASSUME AuditInv, NEW r \in remote, NEW s \in remote,
                      r.entry.correlation = s.entry.correlation,
                      r.entry.content.decision = s.entry.content.decision,
                      r.entry.content.by = s.entry.content.by,
                      r.entry.content.probe = "none", s.entry.content.probe = "none"
               PROVE  r = s
    BY DEF VerdictsNotRepeated
  <2>1. /\ r = [key |-> KeyOf(r.entry), entry |-> r.entry] /\ Sound(r.entry)
        /\ s = [key |-> KeyOf(s.entry), entry |-> s.entry] /\ Sound(s.entry)
        /\ r.key = s.key => r = s
    BY DEF AuditInv, RemoteOK
  <2>2. r.entry \in VerdictEntry /\ s.entry \in VerdictEntry
    BY <2>1 DEF Sound
  <2>3. r.entry.content.by \in {"sampler", "command"}
    BY <2>2, VerdictShape
  <2>4. r.entry.content.verdict = s.entry.content.verdict
    BY <2>1, <2>3 DEF Sound
  <2>5. r.entry = s.entry
    <3> DEFINE e == r.entry  f == s.entry
    <3> HIDE DEF e, f
    <3>1. e \in VerdictEntry /\ f \in VerdictEntry
      BY <2>2 DEF e, f
    <3>2. /\ e.correlation = f.correlation /\ e.content.decision = f.content.decision
          /\ e.content.by = f.content.by /\ e.content.probe = f.content.probe
          /\ e.content.verdict = f.content.verdict
      BY <2>4 DEF e, f
    <3>3. e.type = f.type /\ e.content = f.content
      BY <3>1, <3>2, VerdictShape
    <3>4. e = f
      BY <3>1, <3>2, <3>3, VerdictShape
    <3> QED
      BY <3>4 DEF e, f
  <2> QED
    BY <2>1, <2>5
<1> QED
  BY <1>1, AuditInvHolds, PTL

(* A cascade audit that completed left one verdict on the subject of each  *)
(* drop it read, whatever the windows overlap, and whichever posts of      *)
(* earlier runs failed, or only seemed to (audit, _post_verdict).          *)
THEOREM CompletedAuditHolds == Spec => []CompletedAuditCovers
<1>1. AuditInv => CompletedAuditCovers
  <2> SUFFICES ASSUME AuditInv, NEW x \in AuditableIn(covered)
               PROVE  Cardinality({r \in remote :
                        /\ r.entry.content.by = "command"
                        /\ r.entry.correlation = log[x[1]].correlation
                        /\ r.entry.content.decision.ref = DecisionAt(x).ref}) = 1
    BY DEF CompletedAuditCovers
  <2> DEFINE on == {r \in remote :
                      /\ r.entry.content.by = "command"
                      /\ r.entry.correlation = log[x[1]].correlation
                      /\ r.entry.content.decision.ref = DecisionAt(x).ref}
  <2>1. PICK r \in remote : r \in on
    BY DEF AuditInv, CoveredOK, Posted
  <2>2. ASSUME NEW s \in on  PROVE s = r
    <3>1. /\ r.key = KeyOf(r.entry) /\ r.entry \in VerdictEntry
          /\ s.key = KeyOf(s.entry) /\ s.entry \in VerdictEntry
          /\ r.key = s.key => r = s
      BY <2>1 DEF AuditInv, RemoteOK, Sound
    <3>2. r.entry.type = s.entry.type
      BY <3>1, VerdictShape
    <3>3. KeyOf(r.entry) = KeyOf(s.entry)
      BY <2>1, <3>2 DEF KeyOf, CommandKey
    <3> QED
      BY <3>1, <3>3
  <2>3. on = {r}
    BY <2>1, <2>2
  <2> HIDE DEF on
  <2>4. Cardinality(on) = 1
    BY <2>3, FS_Singleton
  <2> QED
    BY <2>4 DEF on
<1> QED
  BY <1>1, AuditInvHolds, PTL

(* Every verdict that the summary counts is in the ledger, whatever        *)
(* replies were lost and processes restarted, unless it is one whose own   *)
(* write failed (poll_and_audit, write_entry).                             *)
THEOREM ResultsBackedHolds == Spec => []ResultsBacked
<1>1. AuditInv => ResultsBacked
  BY DEF AuditInv, ResultsOK, ResultsBacked
<1> QED
  BY <1>1, AuditInvHolds, PTL

(* The sampler takes no local entry for one the ledger has (write_entry).  *)
THEOREM AuditProofsAreReal == Spec => []ProofsAreReal
<1>1. AuditInv => ProofsAreReal
  BY DEF AuditInv, MemoryOK
<1> QED
  BY <1>1, AuditInvHolds, PTL

=============================================================================

--------------------------- MODULE EvidenceProofs ---------------------------
(***************************************************************************)
(* Theorems of EvidencePath, for every choice of requests, records,        *)
(* batches, events and snapshots. The model collects evidence with         *)
(* FlattenSeq and sums with a fold, both recursive: what they give is      *)
(* shown by taking the least counterexample, and the line that is fitted   *)
(* explains a share by the inequality of Cauchy and Schwarz.               *)
(***************************************************************************)
EXTENDS EvidencePath, Arithmetic, FiniteSetTheorems, SequenceTheorems

-----------------------------------------------------------------------------
(* FlattenSeq, by which evidence is collected and filtered.                *)

(* The function that FlattenSeq chooses, on the first n sequences.         *)
IsFlattening(seqs, n, f) ==
  f = [i \in 1 .. n |-> IF i = 1 THEN seqs[i] ELSE f[i - 1] \o seqs[i]]

(* There is such a function, by the least length that would have none.     *)
LEMMA FlatteningExists ==
  ASSUME NEW seqs, NEW n \in Nat
  PROVE  \E f : IsFlattening(seqs, n, f)
<1> DEFINE Bad == {m \in Nat : ~ \E f : IsFlattening(seqs, m, f)}
<1> SUFFICES ASSUME Bad # {} PROVE FALSE
  OBVIOUS
<1>1. PICK m \in Bad : \A k \in Bad : m <= k
  BY LeastNatural
<1>2. CASE m = 0
  <2> DEFINE f == [i \in 1 .. 0 |-> 0]
  <2>1. f = [i \in 1 .. 0 |-> IF i = 1 THEN seqs[i] ELSE f[i - 1] \o seqs[i]]
    OBVIOUS
  <2> QED
    BY <1>2, <2>1 DEF IsFlattening
<1>3. CASE m # 0
  <2>1. m - 1 \in Nat /\ m - 1 \notin Bad
    BY <1>1, <1>3
  <2>2. PICK g : IsFlattening(seqs, m - 1, g)
    BY <2>1
  <2> DEFINE f == [i \in 1 .. m |-> IF i \in 1 .. m - 1 THEN g[i]
                                     ELSE IF i = 1 THEN seqs[i] ELSE g[i - 1] \o seqs[i]]
  <2>3. \A i \in 1 .. m - 1 : g[i] = IF i = 1 THEN seqs[i] ELSE g[i - 1] \o seqs[i]
    BY <2>2 DEF IsFlattening
  <2>4. ASSUME NEW i \in 1 .. m
        PROVE  f[i] = IF i = 1 THEN seqs[i] ELSE f[i - 1] \o seqs[i]
    <3>1. i # 1 => i - 1 \in 1 .. m - 1 /\ i - 1 \in 1 .. m
      OBVIOUS
    <3>2. i # 1 => f[i - 1] = g[i - 1]
      BY <3>1
    <3>3. CASE i \in 1 .. m - 1
      BY <2>3, <3>2, <3>3
    <3>4. CASE i \notin 1 .. m - 1
      BY <3>2, <3>4
    <3> QED
      BY <3>3, <3>4
  <2>5. f = [i \in 1 .. m |-> IF i = 1 THEN seqs[i] ELSE f[i - 1] \o seqs[i]]
    BY <2>4
  <2> QED
    BY <1>1, <2>5 DEF IsFlattening
<1> QED
  BY <1>2, <1>3

(* What is flattened keeps its members.                                    *)
LEMMA FlattenTyped ==
  ASSUME NEW S, NEW seqs \in Seq(Seq(S))
  PROVE  FlattenSeq(seqs) \in Seq(S)
<1> DEFINE n == Len(seqs)
<1>1. n \in Nat /\ \A i \in 1 .. n : seqs[i] \in Seq(S)
  OBVIOUS
<1>2. CASE n = 0
  BY <1>2 DEF FlattenSeq
<1>3. CASE n # 0
  <2> DEFINE f == CHOOSE f : IsFlattening(seqs, n, f)
  <2>1. IsFlattening(seqs, n, f)
    BY <1>1, FlatteningExists
  <2>2. FlattenSeq(seqs) = f[n]
    BY <1>3 DEF FlattenSeq, IsFlattening
  <2> HIDE DEF f, n
  <2>3. \A i \in 1 .. n : f[i] = IF i = 1 THEN seqs[i] ELSE f[i - 1] \o seqs[i]
    BY <2>1 DEF IsFlattening
  <2> DEFINE Bad == {i \in 1 .. n : f[i] \notin Seq(S)}
  <2>4. ASSUME Bad # {} PROVE FALSE
    <3>0. Bad \in SUBSET Nat
      BY <1>1
    <3>1. PICK i \in Bad : \A k \in Bad : i <= k
      BY <2>4, <3>0, LeastNatural
    <3>2. i = 1 => FALSE
      BY <1>1, <2>3, <3>1
    <3>3. i # 1 => i - 1 \in 1 .. n /\ i - 1 \notin Bad
      BY <1>1, <3>1
    <3>4. i # 1 => f[i - 1] \o seqs[i] \in Seq(S)
      BY <1>1, <3>1, <3>3
    <3> QED
      BY <2>3, <3>1, <3>2, <3>4
  <2> QED
    BY <1>1, <1>3, <2>2, <2>4
<1> QED
  BY <1>2, <1>3

-----------------------------------------------------------------------------
(* Sums. Total takes the terms in the order of CHOOSE; the sum does not    *)
(* depend on it.                                                           *)

Picked(s) == CHOOSE x \in s : TRUE

IsSum(values, S, f) ==
  f = [s \in SUBSET S |-> IF s = {} THEN 0 ELSE values[Picked(s)] + f[s \ {Picked(s)}]]

(* The set whose sizes a least counterexample is taken from.               *)
LEMMA SmallestSubset ==
  ASSUME NEW S, IsFiniteSet(S), NEW B \in SUBSET (SUBSET S), B # {}
  PROVE  \E s \in B : \A t \in B : Cardinality(s) <= Cardinality(t)
<1> DEFINE Sizes == {Cardinality(s) : s \in B}
<1>1. \A s \in B : IsFiniteSet(s) /\ Cardinality(s) \in Nat
  BY FS_Subset, FS_CardinalityType
<1>2. Sizes \in SUBSET Nat /\ Sizes # {}
  BY <1>1
<1>3. PICK n \in Sizes : \A m \in Sizes : n <= m
  BY <1>2, LeastNatural
<1> QED
  BY <1>3

(* A finite set with one element taken out.                                *)
LEMMA SmallerSubset ==
  ASSUME NEW s, IsFiniteSet(s), NEW x \in s
  PROVE  /\ IsFiniteSet(s \ {x})
         /\ Cardinality(s) \in Nat /\ Cardinality(s \ {x}) \in Nat
         /\ Cardinality(s \ {x}) = Cardinality(s) - 1
BY FS_RemoveElement, FS_CardinalityType

(* Two sums, over two sets, agree on every set they share.                 *)
LEMMA SumsAgree ==
  ASSUME NEW values, NEW S, IsFiniteSet(S), NEW T, NEW f, NEW g,
         IsSum(values, S, f), IsSum(values, T, g),
         NEW s \in SUBSET S, s \in SUBSET T
  PROVE  f[s] = g[s]
<1> DEFINE B == {t \in SUBSET S : t \in SUBSET T /\ f[t] # g[t]}
<1> SUFFICES ASSUME B # {} PROVE FALSE
  OBVIOUS
<1>1. PICK t \in B : \A u \in B : Cardinality(t) <= Cardinality(u)
  BY SmallestSubset
<1>2. /\ f[t] = IF t = {} THEN 0 ELSE values[Picked(t)] + f[t \ {Picked(t)}]
      /\ g[t] = IF t = {} THEN 0 ELSE values[Picked(t)] + g[t \ {Picked(t)}]
  BY Zenon DEF IsSum
<1>3. t # {}
  BY <1>1, <1>2
<1>4. Picked(t) \in t
  BY <1>3 DEF Picked
<1>5. t \ {Picked(t)} \in B
  BY <1>1, <1>2, <1>3
<1>6. IsFiniteSet(t)
  BY FS_Subset
<1>7. Cardinality(t \ {Picked(t)}) = Cardinality(t) - 1 /\ Cardinality(t) \in Nat
  BY <1>4, <1>6, SmallerSubset
<1>8. Cardinality(t) <= Cardinality(t \ {Picked(t)})
  BY <1>1, <1>5
<1> QED
  BY <1>7, <1>8

(* There is a sum over a finite set, by the smallest that would have none. *)
LEMMA SumExists ==
  ASSUME NEW values, NEW S, IsFiniteSet(S)
  PROVE  \E f : IsSum(values, S, f)
<1> DEFINE B == {s \in SUBSET S : ~ \E f : IsSum(values, s, f)}
           Sum(u) == CHOOSE f : IsSum(values, u, f)
<1> SUFFICES ASSUME B # {} PROVE FALSE
  OBVIOUS
<1>1. PICK s \in B : \A u \in B : Cardinality(s) <= Cardinality(u)
  BY SmallestSubset
<1>2. IsFiniteSet(s)
  BY FS_Subset
<1>3. ASSUME NEW u \in SUBSET s, u # s  PROVE IsSum(values, u, Sum(u))
  <2>1. Cardinality(u) < Cardinality(s) /\ Cardinality(u) \in Nat /\ Cardinality(s) \in Nat
    BY <1>2, <1>3, FS_Subset, FS_CardinalityType
  <2>2. u \in SUBSET S /\ u \notin B
    BY <1>1, <2>1
  <2> QED
    BY <2>2
<1> DEFINE f == [u \in SUBSET s |-> IF u = {} THEN 0
                                    ELSE values[Picked(u)] + Sum(u \ {Picked(u)})[u \ {Picked(u)}]]
<1>4. ASSUME NEW u \in SUBSET s, u # s  PROVE f[u] = Sum(u)[u]
  <2>1. IsSum(values, u, Sum(u))
    BY <1>3, <1>4
  <2> HIDE DEF Sum
  <2>2. Sum(u)[u] = IF u = {} THEN 0 ELSE values[Picked(u)] + Sum(u)[u \ {Picked(u)}]
    BY <2>1, Zenon DEF IsSum
  <2>3. u # {} => Sum(u)[u \ {Picked(u)}] = Sum(u \ {Picked(u)})[u \ {Picked(u)}]
    <3> DEFINE v == u \ {Picked(u)}
    <3>1. v \in SUBSET s /\ v \in SUBSET u
      OBVIOUS
    <3>2. u # {} => Picked(u) \in u /\ v # s
      BY DEF Picked
    <3>3. u # {} => IsSum(values, v, Sum(v))
      BY <1>3, <3>1, <3>2
    <3>4. IsFiniteSet(u)
      BY <1>2, FS_Subset
    <3> HIDE DEF v
    <3>5. u # {} => Sum(u)[v] = Sum(v)[v]
      BY <2>1, <3>1, <3>3, <3>4, SumsAgree
    <3> QED
      BY <3>5 DEF v
  <2>4. f[u] = IF u = {} THEN 0 ELSE values[Picked(u)] + Sum(u \ {Picked(u)})[u \ {Picked(u)}]
    OBVIOUS
  <2> HIDE DEF f
  <2> QED
    BY <2>2, <2>3, <2>4
<1>5. ASSUME NEW u \in SUBSET s, u # {}
      PROVE  f[u \ {Picked(u)}] = Sum(u \ {Picked(u)})[u \ {Picked(u)}]
  <2>1. u \ {Picked(u)} \in SUBSET s /\ u \ {Picked(u)} # s
    BY <1>5 DEF Picked
  <2> HIDE DEF f, Sum
  <2> QED
    BY <1>4, <2>1
<1> HIDE DEF Sum
<1>6. ASSUME NEW u \in SUBSET s
      PROVE  f[u] = IF u = {} THEN 0 ELSE values[Picked(u)] + f[u \ {Picked(u)}]
  <2>1. f[u] = IF u = {} THEN 0 ELSE values[Picked(u)] + Sum(u \ {Picked(u)})[u \ {Picked(u)}]
    OBVIOUS
  <2> HIDE DEF f
  <2> QED
    BY <1>5, <2>1
<1>7. f = [u \in SUBSET s |-> IF u = {} THEN 0 ELSE values[Picked(u)] + f[u \ {Picked(u)}]]
  <2>1. f = [u \in SUBSET s |-> f[u]]
    OBVIOUS
  <2> HIDE DEF f
  <2> QED
    BY <1>6, <2>1, Zenon
<1> QED
  BY <1>1, <1>7 DEF IsSum

(* The sum of the model takes out the element that CHOOSE picks.           *)
LEMMA TotalStep ==
  ASSUME NEW values, NEW S, IsFiniteSet(S)
  PROVE  /\ Total(values, {}) = 0
         /\ S # {} => Total(values, S) = values[Picked(S)] + Total(values, S \ {Picked(S)})
<1> DEFINE Sum(u) == CHOOSE f : IsSum(values, u, f)
<1>1. \A u : Total(values, u) = Sum(u)[u]
  BY DEF Total, MapThenSumSet, MapThenFoldSet, IsSum, Picked
<1>2. \A u \in SUBSET S : IsSum(values, u, Sum(u))
  BY FS_Subset, SumExists
<1> HIDE DEF Sum
<1>3. \A u \in SUBSET S :
        Sum(u)[u] = IF u = {} THEN 0 ELSE values[Picked(u)] + Sum(u)[u \ {Picked(u)}]
  BY <1>2, Zenon DEF IsSum
<1>4. Total(values, {}) = 0
  BY <1>1, <1>3
<1>5. ASSUME S # {}
      PROVE  Total(values, S) = values[Picked(S)] + Total(values, S \ {Picked(S)})
  <2> DEFINE v == S \ {Picked(S)}
  <2>1. v \in SUBSET S /\ S \in SUBSET S
    OBVIOUS
  <2> HIDE DEF v
  <2>2. IsSum(values, S, Sum(S)) /\ IsSum(values, v, Sum(v))
    BY <1>2, <2>1
  <2>3. Sum(S)[v] = Sum(v)[v]
    BY <2>1, <2>2, SumsAgree
  <2>4. Sum(S)[S] = values[Picked(S)] + Sum(S)[v]
    BY <1>3, <1>5, <2>1 DEF v
  <2> QED
    BY <1>1, <2>3, <2>4 DEF v
<1> QED
  BY <1>4, <1>5

(* A sum of integers is one, whichever term is taken out.                  *)
LEMMA TotalRemove ==
  ASSUME NEW values, NEW S, IsFiniteSet(S), \A i \in S : values[i] \in Int
  PROVE  /\ Total(values, S) \in Int
         /\ \A x \in S : Total(values, S) = values[x] + Total(values, S \ {x})
<1> DEFINE Good(s) == /\ Total(values, s) \in Int
                      /\ \A x \in s : Total(values, s) = values[x] + Total(values, s \ {x})
           B == {s \in SUBSET S : ~Good(s)}
<1> SUFFICES ASSUME B # {} PROVE FALSE
  OBVIOUS
<1>1. PICK s \in B : \A u \in B : Cardinality(s) <= Cardinality(u)
  BY SmallestSubset
<1>2. IsFiniteSet(s) /\ s \in SUBSET S /\ ~Good(s)
  BY <1>1, FS_Subset
<1>3. ASSUME NEW u \in SUBSET s, u # s  PROVE Good(u)
  <2>1. Cardinality(u) < Cardinality(s) /\ Cardinality(u) \in Nat /\ Cardinality(s) \in Nat
    BY <1>2, <1>3, FS_Subset, FS_CardinalityType
  <2>2. u \in SUBSET S /\ u \notin B
    BY <1>1, <2>1
  <2> HIDE DEF Good
  <2> QED
    BY <2>2
<1> DEFINE y == Picked(s)
<1>4. s # {}
  <2>1. Total(values, {}) = 0
    BY FS_EmptySet, TotalStep
  <2>2. s = {} => Good(s)
    BY <2>1
  <2> HIDE DEF Good
  <2> QED
    BY <1>2, <2>2
<1>5. y \in s
  BY <1>4 DEF Picked
<1>6. Total(values, s) = values[y] + Total(values, s \ {y})
  BY <1>2, <1>4, TotalStep
<1> HIDE DEF y
<1>7. Total(values, s \ {y}) \in Int /\ values[y] \in Int
  <2>1. s \ {y} \in SUBSET s /\ s \ {y} # s
    BY <1>5
  <2> QED
    BY <1>2, <1>3, <1>5, <2>1
<1>8. ASSUME NEW x \in s  PROVE Total(values, s) = values[x] + Total(values, s \ {x})
  <2>1. CASE x = y
    BY <1>6, <2>1
  <2>2. CASE x # y
    <3> DEFINE sx == s \ {x}  sy == s \ {y}  w == s \ {x, y}
    <3>1. sx \in SUBSET s /\ sx # s /\ sy \in SUBSET s /\ sy # s
          /\ y \in sx /\ x \in sy /\ sx \ {y} = w /\ sy \ {x} = w
          /\ w \in SUBSET s /\ w # s
      BY <1>5, <1>8, <2>2
    <3> HIDE DEF sx, sy, w
    <3>2. Good(sx) /\ Good(sy) /\ Good(w)
      BY <1>3, <3>1
    <3>3. Total(values, sx) = values[y] + Total(values, w)
      BY <3>1, <3>2
    <3>4. Total(values, sy) = values[x] + Total(values, w)
      BY <3>1, <3>2
    <3>5. Total(values, w) \in Int /\ values[x] \in Int /\ values[y] \in Int
      BY <1>2, <1>5, <1>8, <3>2
    <3>6. Total(values, s) = values[y] + Total(values, sy)
      BY <1>6 DEF sy
    <3>7. Total(values, s) = values[x] + Total(values, sx)
      BY <3>3, <3>4, <3>5, <3>6
    <3> QED
      BY <3>7 DEF sx
  <2> QED
    BY <2>1, <2>2
<1>9. Total(values, s) \in Int
  BY <1>6, <1>7
<1> QED
  BY <1>2, <1>8, <1>9

(* A sum over an interval, whole and term by term.                         *)
LEMMA TotalInterval ==
  ASSUME NEW values, NEW n \in Nat, \A i \in 1 .. n : values[i] \in Int
  PROVE  /\ Total(values, 1 .. 0) = 0
         /\ Total(values, 1 .. n) \in Int
         /\ \A k \in 0 .. n : Total(values, 1 .. k) \in Int
         /\ \A k \in 1 .. n : Total(values, 1 .. k) = Total(values, 1 .. k - 1) + values[k]
<1>1. \A k \in 0 .. n : IsFiniteSet(1 .. k)
  BY FS_Interval
<1>2. 1 .. 0 = {} /\ IsFiniteSet({})
  BY FS_EmptySet
<1>3. \A k \in 0 .. n : Total(values, 1 .. k) \in Int
  BY <1>1, TotalRemove
<1>4. ASSUME NEW k \in 1 .. n
      PROVE  Total(values, 1 .. k) = Total(values, 1 .. k - 1) + values[k]
  <2>1. (1 .. k) \ {k} = 1 .. k - 1 /\ k \in 1 .. k /\ k \in 0 .. n /\ k - 1 \in 0 .. n
    OBVIOUS
  <2>2. \A i \in 1 .. k : values[i] \in Int
    OBVIOUS
  <2>3. Total(values, 1 .. k) = values[k] + Total(values, (1 .. k) \ {k})
    BY <1>1, <2>1, <2>2, TotalRemove
  <2>4. Total(values, (1 .. k) \ {k}) = Total(values, 1 .. k - 1)
    BY <2>1
  <2> QED
    BY <1>3, <2>1, <2>3, <2>4
<1>5. Total(values, 1 .. n) \in Int
  BY <1>3
<1> QED
  BY <1>2, <1>3, <1>4, <1>5, TotalStep

(* Terms that are not negative, each below a quarter of some peak.         *)
LEMMA TotalBelow ==
  ASSUME NEW values, NEW J, IsFiniteSet(J), NEW peak \in Int,
         \A j \in J : values[j] \in Nat
  PROVE  /\ Total(values, J) \in Nat
         /\ \A j \in J : values[j] <= Total(values, J)
         /\ (\A j \in J : 4 * values[j] < peak)
              => 4 * Total(values, J) <= peak * Cardinality(J)
         /\ (\A j \in J : 4 * values[j] < peak) /\ J # {}
              => 4 * Total(values, J) < peak * Cardinality(J)
<1> DEFINE Low(s) == \A j \in s : 4 * values[j] < peak
           Good(s) == /\ Total(values, s) \in Nat
                      /\ Low(s) => 4 * Total(values, s) <= peak * Cardinality(s)
                      /\ Low(s) /\ s # {} => 4 * Total(values, s) < peak * Cardinality(s)
           B == {s \in SUBSET J : ~Good(s)}
<1>1. ASSUME NEW s \in SUBSET J, NEW x \in s, Good(s \ {x})
      PROVE  Good(s) /\ values[x] <= Total(values, s)
  <2> DEFINE r == s \ {x}
  <2>1. IsFiniteSet(s)
    BY FS_Subset
  <2>2. /\ Cardinality(s) \in Nat /\ Cardinality(r) \in Nat
        /\ Cardinality(s) = Cardinality(r) + 1
    BY <2>1, SmallerSubset
  <2>3. values[x] \in Nat /\ Total(values, s) = values[x] + Total(values, r)
    BY <2>1, TotalRemove
  <2>4. Total(values, r) \in Nat
    BY <1>1
  <2>5. ASSUME Low(s)
        PROVE  4 * Total(values, s) < peak * Cardinality(s)
    <3>1. Low(r) /\ 4 * values[x] < peak
      BY <2>5
    <3>2. 4 * Total(values, r) <= peak * Cardinality(r)
      BY <1>1, <3>1
    <3>3. peak * Cardinality(s) = peak * Cardinality(r) + peak
      BY <2>2
    <3> HIDE DEF Good, Low, r
    <3>4. peak * Cardinality(r) \in Int
      BY <2>2
    <3> QED
      BY <2>3, <2>4, <3>1, <3>2, <3>3, <3>4
  <2> HIDE DEF Low, r
  <2>6. peak * Cardinality(s) \in Int
    BY <2>2
  <2> QED
    BY <2>3, <2>4, <2>5, <2>6
<1>2. ASSUME B # {} PROVE FALSE
  <2>1. PICK s \in B : \A u \in B : Cardinality(s) <= Cardinality(u)
    BY <1>2, SmallestSubset
  <2>2. IsFiniteSet(s) /\ s \in SUBSET J /\ ~Good(s)
    BY <2>1, FS_Subset
  <2>3. Total(values, {}) = 0 /\ Cardinality({}) = 0
    BY FS_EmptySet, TotalStep
  <2>4. s # {}
    BY <2>2, <2>3
  <2>5. PICK x \in s : TRUE
    BY <2>4
  <2> HIDE DEF Good
  <2>6. Cardinality(s \ {x}) < Cardinality(s) /\ Cardinality(s \ {x}) \in Nat
    BY <2>2, SmallerSubset
  <2>7. Good(s \ {x})
    <3>1. s \ {x} \in SUBSET J
      BY <2>2
    <3>2. s \ {x} \notin B
      BY <2>1, <2>2, <2>6, SmallerSubset
    <3> QED
      BY <3>1, <3>2
  <2> QED
    BY <1>1, <2>2, <2>7
<1>3. \A s \in SUBSET J : Good(s)
  BY <1>2
<1>4. \A j \in J : values[j] <= Total(values, J)
  <2> HIDE DEF Good
  <2> QED
    BY <1>1, <1>3
<1> QED
  BY <1>3, <1>4

(* A sum of terms that are not negative, none of which exceeds it.         *)
LEMMA TotalNatural ==
  ASSUME NEW values, NEW J, IsFiniteSet(J), \A j \in J : values[j] \in Nat
  PROVE  Total(values, J) \in Nat /\ \A j \in J : values[j] <= Total(values, J)
<1>1. 0 \in Int
  OBVIOUS
<1> QED
  BY <1>1, TotalBelow

-----------------------------------------------------------------------------
(* The least squares line.                                                 *)

Products(u, v, n) == [i \in 1 .. n |-> u[i] * v[i]]

Centred(u, m, c, n) == [i \in 1 .. n |-> m * u[i] - c]

(* A centred sequence is one of integers.                                  *)
LEMMA CentredTyped ==
  ASSUME NEW n \in Nat, NEW m \in Int, NEW c \in Int, NEW u \in [1 .. n -> Int]
  PROVE  Centred(u, m, c, n) \in [1 .. n -> Int]
<1>1. ASSUME NEW i \in 1 .. n  PROVE m * u[i] - c \in Int
  <2>1. u[i] \in Int
    OBVIOUS
  <2> QED
    BY <2>1
<1> QED
  BY <1>1 DEF Centred

(* One product of two centred values.                                      *)
LEMMA CentredTerm ==
  ASSUME NEW m \in Int, NEW c \in Int, NEW d \in Int, NEW x \in Int, NEW y \in Int,
         NEW uv \in Int, NEW u \in Int, NEW v \in Int, NEW k \in Int
  PROVE  m * m * uv - m * d * u - m * c * v + (k - 1) * (c * d) + (m * x - c) * (m * y - d)
           = m * m * (uv + x * y) - m * d * (u + x) - m * c * (v + y) + k * (c * d)
OBVIOUS

(* The products of two sequences, each scaled by m and moved.              *)
LEMMA CentredProducts ==
  ASSUME NEW n \in Nat, NEW m \in Int, NEW c \in Int, NEW d \in Int,
         NEW u \in [1 .. n -> Int], NEW v \in [1 .. n -> Int]
  PROVE  Total(Products(Centred(u, m, c, n), Centred(v, m, d, n), n), 1 .. n)
           = m * m * Total(Products(u, v, n), 1 .. n) - m * d * Total(u, 1 .. n)
               - m * c * Total(v, 1 .. n) + n * (c * d)
<1> DEFINE p == Products(Centred(u, m, c, n), Centred(v, m, d, n), n)
           uv == Products(u, v, n)
           P(k) == Total(p, 1 .. k)
           U(k) == Total(u, 1 .. k)
           V(k) == Total(v, 1 .. k)
           W(k) == Total(uv, 1 .. k)
           Same(k) == P(k) = m * m * W(k) - m * d * U(k) - m * c * V(k) + k * (c * d)
           Bad == {k \in 0 .. n : ~Same(k)}
<1>1. \A i \in 1 .. n :
        /\ u[i] \in Int /\ v[i] \in Int
        /\ uv[i] = u[i] * v[i] /\ uv[i] \in Int
        /\ p[i] = (m * u[i] - c) * (m * v[i] - d) /\ p[i] \in Int
  BY DEF Products, Centred
<1> HIDE DEF p, uv
<1>2. /\ P(0) = 0 /\ \A k \in 0 .. n : P(k) \in Int
      /\ \A k \in 1 .. n : P(k) = P(k - 1) + p[k]
  BY <1>1, TotalInterval
<1>3. /\ U(0) = 0 /\ \A k \in 0 .. n : U(k) \in Int
      /\ \A k \in 1 .. n : U(k) = U(k - 1) + u[k]
  BY <1>1, TotalInterval
<1>4. /\ V(0) = 0 /\ \A k \in 0 .. n : V(k) \in Int
      /\ \A k \in 1 .. n : V(k) = V(k - 1) + v[k]
  BY <1>1, TotalInterval
<1>5. /\ W(0) = 0 /\ \A k \in 0 .. n : W(k) \in Int
      /\ \A k \in 1 .. n : W(k) = W(k - 1) + uv[k]
  BY <1>1, TotalInterval
<1> HIDE DEF P, U, V, W
<1>6. ASSUME Bad # {} PROVE FALSE
  <2>1. Bad \in SUBSET Nat
    OBVIOUS
  <2>2. PICK k \in Bad : \A j \in Bad : k <= j
    BY <1>6, <2>1, LeastNatural
  <2>3. Same(0)
    <3>1. m * m * 0 - m * d * 0 - m * c * 0 + 0 * (c * d) = 0
      OBVIOUS
    <3> QED
      BY <1>2, <1>3, <1>4, <1>5, <3>1
  <2>4. k \in 1 .. n /\ k - 1 \in 0 .. n /\ k - 1 \notin Bad /\ ~Same(k)
    BY <2>2, <2>3
  <2>5. P(k - 1) = m * m * W(k - 1) - m * d * U(k - 1) - m * c * V(k - 1) + (k - 1) * (c * d)
    BY <2>4
  <2> DEFINE uk == u[k]  vk == v[k]  u0 == U(k - 1)  v0 == V(k - 1)  w0 == W(k - 1)
  <2>6. P(k) = m * m * w0 - m * d * u0 - m * c * v0 + (k - 1) * (c * d)
                 + (m * uk - c) * (m * vk - d)
    BY <1>1, <1>2, <2>4, <2>5
  <2>7. /\ uk \in Int /\ vk \in Int /\ u0 \in Int /\ v0 \in Int /\ w0 \in Int /\ k \in Int
        /\ W(k) = w0 + uk * vk /\ U(k) = u0 + uk /\ V(k) = v0 + vk
    BY <1>1, <1>3, <1>4, <1>5, <2>4
  <2>8. ~Same(k)
    BY <2>4
  <2> HIDE DEF uk, vk, u0, v0, w0, Bad
  <2> QED
    BY <2>6, <2>7, <2>8, CentredTerm
<1>7. Same(n)
  <2>1. n \in 0 .. n
    OBVIOUS
  <2> HIDE DEF Same
  <2> QED
    BY <1>6, <2>1
<1> QED
  BY <1>7 DEF P, U, V, W, p, uv

(* A square is not negative.                                               *)
LEMMA SquareNatural ==
  ASSUME NEW x \in Int
  PROVE  x * x \in Nat /\ (x # 0 => x * x > 0)
OBVIOUS

(* One more term of the quadratic form is one more square.                 *)
LEMMA SquareOfForm ==
  ASSUME NEW a \in Int, NEW b \in Int, NEW x \in Int, NEW y \in Int,
         NEW xx \in Int, NEW xy \in Int, NEW yy \in Int
  PROVE  a * a * (yy + y * y) - 2 * a * b * (xy + x * y) + b * b * (xx + x * x)
           = (a * a * yy - 2 * a * b * xy + b * b * xx) + (a * y - b * x) * (a * y - b * x)
OBVIOUS

(* The quadratic form of two sequences is a sum of squares.                *)
LEMMA FormNatural ==
  ASSUME NEW n \in Nat, NEW a \in Int, NEW b \in Int,
         NEW x \in [1 .. n -> Int], NEW y \in [1 .. n -> Int]
  PROVE  a * a * Total(Products(y, y, n), 1 .. n) - 2 * a * b * Total(Products(x, y, n), 1 .. n)
           + b * b * Total(Products(x, x, n), 1 .. n) \in Nat
<1> DEFINE fx == Products(x, x, n)
           fxy == Products(x, y, n)
           fy == Products(y, y, n)
           XX(k) == Total(fx, 1 .. k)
           XY(k) == Total(fxy, 1 .. k)
           YY(k) == Total(fy, 1 .. k)
           Form(k) == a * a * YY(k) - 2 * a * b * XY(k) + b * b * XX(k)
           Bad == {k \in 0 .. n : Form(k) \notin Nat}
<1>1. \A i \in 1 .. n :
        /\ x[i] \in Int /\ y[i] \in Int
        /\ fx[i] = x[i] * x[i] /\ fx[i] \in Int
        /\ fxy[i] = x[i] * y[i] /\ fxy[i] \in Int
        /\ fy[i] = y[i] * y[i] /\ fy[i] \in Int
  BY DEF Products
<1> HIDE DEF fx, fxy, fy
<1>2. /\ XX(0) = 0 /\ \A k \in 0 .. n : XX(k) \in Int
      /\ \A k \in 1 .. n : XX(k) = XX(k - 1) + fx[k]
  BY <1>1, TotalInterval
<1>3. /\ XY(0) = 0 /\ \A k \in 0 .. n : XY(k) \in Int
      /\ \A k \in 1 .. n : XY(k) = XY(k - 1) + fxy[k]
  BY <1>1, TotalInterval
<1>4. /\ YY(0) = 0 /\ \A k \in 0 .. n : YY(k) \in Int
      /\ \A k \in 1 .. n : YY(k) = YY(k - 1) + fy[k]
  BY <1>1, TotalInterval
<1> HIDE DEF XX, XY, YY
<1>5. ASSUME Bad # {} PROVE FALSE
  <2>1. Bad \in SUBSET Nat
    OBVIOUS
  <2>2. PICK k \in Bad : \A j \in Bad : k <= j
    BY <1>5, <2>1, LeastNatural
  <2>3. Form(0) = 0
    <3>1. a * a * 0 - 2 * a * b * 0 + b * b * 0 = 0
      OBVIOUS
    <3> QED
      BY <1>2, <1>3, <1>4, <3>1
  <2>4. k \in 1 .. n /\ k - 1 \in 0 .. n /\ k - 1 \notin Bad /\ Form(k) \notin Nat
    BY <2>2, <2>3
  <2>5. Form(k - 1) \in Nat
    BY <2>4
  <2> DEFINE xk == x[k]  yk == y[k]
             xx == XX(k - 1)  xy == XY(k - 1)  yy == YY(k - 1)
             w == a * yk - b * xk
  <2>6. /\ xx \in Int /\ xy \in Int /\ yy \in Int /\ xk \in Int /\ yk \in Int
        /\ XX(k) = xx + xk * xk /\ XY(k) = xy + xk * yk /\ YY(k) = yy + yk * yk
    BY <1>1, <1>2, <1>3, <1>4, <2>4
  <2>7. Form(k - 1) = a * a * yy - 2 * a * b * xy + b * b * xx
    OBVIOUS
  <2> HIDE DEF xk, yk, xx, xy, yy
  <2>8. Form(k) = Form(k - 1) + w * w
    BY <2>6, <2>7, SquareOfForm
  <2>9. w \in Int
    BY <2>6
  <2> HIDE DEF Form, w
  <2>10. w * w \in Nat
    BY <2>9, SquareNatural
  <2> QED
    BY <2>4, <2>5, <2>8, <2>10
<1> QED
  BY <1>5 DEF XX, XY, YY, fx, fxy, fy

(* 0 + 1 + ... + (k - 1).                                                  *)
LEMMA SumOfPositions ==
  ASSUME NEW n \in Nat
  PROVE  /\ Total([i \in 1 .. n |-> i - 1], 1 .. n) = (n * (n - 1)) \div 2
         /\ (n * (n - 1)) \div 2 \in Nat
         /\ n >= 2 => (n * (n - 1)) \div 2 > 0
<1> DEFINE u == [i \in 1 .. n |-> i - 1]
           U(k) == Total(u, 1 .. k)
           Bad == {k \in 0 .. n : 2 * U(k) # k * (k - 1)}
<1>1. \A i \in 1 .. n : u[i] = i - 1 /\ u[i] \in Int
  OBVIOUS
<1> HIDE DEF u
<1>2. /\ U(0) = 0 /\ \A k \in 0 .. n : U(k) \in Int
      /\ \A k \in 1 .. n : U(k) = U(k - 1) + u[k]
  BY <1>1, TotalInterval
<1> HIDE DEF U
<1>3. ASSUME Bad # {} PROVE FALSE
  <2>1. Bad \in SUBSET Nat
    OBVIOUS
  <2>2. PICK k \in Bad : \A j \in Bad : k <= j
    BY <1>3, <2>1, LeastNatural
  <2>3. k \in 1 .. n /\ k - 1 \in 0 .. n /\ k - 1 \notin Bad
    BY <1>2, <2>2
  <2>4. 2 * U(k - 1) = (k - 1) * (k - 2)
    BY <2>3
  <2>5. U(k) = U(k - 1) + (k - 1) /\ U(k - 1) \in Int
    BY <1>1, <1>2, <2>3
  <2>6. 2 * U(k) = (k - 1) * (k - 2) + 2 * (k - 1)
    BY <2>3, <2>4, <2>5
  <2>7. (k - 1) * (k - 2) + 2 * (k - 1) = k * (k - 1)
    OBVIOUS
  <2> QED
    BY <2>2, <2>6, <2>7
<1>4. 2 * U(n) = n * (n - 1) /\ U(n) \in Int
  BY <1>2, <1>3
<1>5. (n * (n - 1)) \div 2 = U(n)
  BY <1>4
<1>6. n * (n - 1) >= 0 /\ (n >= 2 => n * (n - 1) > 0)
  OBVIOUS
<1>7. U(n) \in Nat /\ (n >= 2 => U(n) > 0)
  <2> DEFINE p == n * (n - 1)
  <2>1. p \in Int
    OBVIOUS
  <2> HIDE DEF p
  <2> QED
    BY <1>4, <1>6, <2>1 DEF p
<1>8. U(n) = (n * (n - 1)) \div 2
  BY <1>5
<1> QED
  BY <1>7, <1>8 DEF U, u

(* What centring takes from a sum of products.                             *)
LEMMA CentredWhole ==
  ASSUME NEW n \in Int, NEW c \in Int, NEW d \in Int, NEW w \in Int
  PROVE  n * n * w - n * d * c - n * c * d + n * (c * d) = n * (n * w - c * d)
OBVIOUS

(* The form at xx and xy, the share that the line leaves over.             *)
LEMMA FormWhole ==
  ASSUME NEW n \in Int, NEW xx \in Int, NEW xy \in Int, NEW yy \in Int
  PROVE  xx * xx * (n * yy) - 2 * xx * xy * (n * xy) + xy * xy * (n * xx)
           = (n * xx) * (xx * yy - xy * xy)
OBVIOUS

(* A positive factor of a product keeps its sign.                          *)
LEMMA PositiveFactor ==
  ASSUME NEW a \in Int, NEW b \in Int, a > 0
  PROVE  (a * b > 0 => b > 0) /\ (a * b >= 0 => b >= 0)
OBVIOUS

(* The line through two points or more: its share of what the values vary  *)
(* by is a share, since n times the products are sums over the values and  *)
(* positions less their means (linear_regression).                         *)
THEOREM LineExplainsAShare ==
  ASSUME NEW values \in Seq(Int), Len(values) >= 2
  PROVE  LET line == Line(values)
         IN  /\ line.xx \in Nat \ {0} /\ line.xy \in Int /\ line.yy \in Nat
             /\ line.sx \in Nat /\ line.sy \in Int
             /\ line.xy * line.xy <= line.xx * line.yy
<1> DEFINE n == Len(values)
           u == [i \in 1 .. n |-> i - 1]
           sx == (n * (n - 1)) \div 2
           sy == Total(values, 1 .. n)
           X == Centred(u, n, sx, n)
           Y == Centred(values, n, sy, n)
           W(f, g) == Total(Products(f, g, n), 1 .. n)
           line == Line(values)
<1>1. n \in Nat /\ n >= 2 /\ u \in [1 .. n -> Int] /\ values \in [1 .. n -> Int]
  OBVIOUS
<1>2. sx \in Nat /\ sx > 0 /\ Total(u, 1 .. n) = sx
  BY <1>1, SumOfPositions
<1>3. \A f, g \in [1 .. n -> Int] : W(f, g) \in Int
  <2> HIDE DEF n
  <2>1. ASSUME NEW f \in [1 .. n -> Int], NEW g \in [1 .. n -> Int]
        PROVE  \A i \in 1 .. n : Products(f, g, n)[i] \in Int
    BY DEF Products
  <2> QED
    BY <1>1, <2>1, TotalInterval
<1>4. sy \in Int
  <2>1. \A i \in 1 .. n : values[i] \in Int
    OBVIOUS
  <2> HIDE DEF n
  <2> QED
    BY <1>1, <2>1, TotalInterval
<1>5. /\ line.xx = n * W(u, u) - sx * sx
      /\ line.xy = n * W(u, values) - sx * sy
      /\ line.yy = n * W(values, values) - sy * sy
      /\ line.sx = sx /\ line.sy = sy
  <2>1. /\ Products(u, u, n) = [i \in 1 .. n |-> (i - 1) * (i - 1)]
        /\ Products(u, values, n) = [i \in 1 .. n |-> (i - 1) * values[i]]
        /\ Products(values, values, n) = [i \in 1 .. n |-> values[i] * values[i]]
    BY DEF Products
  <2> QED
    BY <2>1 DEF Line
<1> HIDE DEF n, u, sx, sy, line, W
<1>6. X \in [1 .. n -> Int] /\ Y \in [1 .. n -> Int]
  BY <1>1, <1>2, <1>4, CentredTyped
<1>7. W(X, X) = n * line.xx /\ W(X, Y) = n * line.xy /\ W(Y, Y) = n * line.yy
  <2>1. n \in Int /\ sx \in Int
    BY <1>1, <1>2
  <2>2. W(u, u) \in Int /\ W(u, values) \in Int /\ W(values, values) \in Int
    BY <1>1, <1>3
  <2> DEFINE T(f) == Total(f, 1 .. n)
  <2> HIDE DEF T
  <2>3. ASSUME NEW f \in [1 .. n -> Int], NEW g \in [1 .. n -> Int],
               NEW c \in Int, NEW d \in Int
        PROVE  W(Centred(f, n, c, n), Centred(g, n, d, n))
                 = n * n * W(f, g) - n * d * T(f) - n * c * T(g) + n * (c * d)
    <3>1. n \in Nat /\ f \in [1 .. n -> Int] /\ g \in [1 .. n -> Int]
      BY <1>1, <2>3
    <3>2. Total(Products(Centred(f, n, c, n), Centred(g, n, d, n), n), 1 .. n)
            = n * n * Total(Products(f, g, n), 1 .. n) - n * d * Total(f, 1 .. n)
                - n * c * Total(g, 1 .. n) + n * (c * d)
      BY <2>1, <2>3, <3>1, CentredProducts, SMTT(30)
    <3> QED
      BY <3>2, Zenon DEF W, T
  <2>4. W(X, X) = n * n * W(u, u) - n * sx * T(u) - n * sx * T(u) + n * (sx * sx)
    BY <1>1, <2>1, <2>3, Zenon
  <2>5. W(X, Y) = n * n * W(u, values) - n * sy * T(u) - n * sx * T(values)
                    + n * (sx * sy)
    BY <1>1, <1>4, <2>1, <2>3, Zenon
  <2>6. W(Y, Y) = n * n * W(values, values) - n * sy * T(values)
                    - n * sy * T(values) + n * (sy * sy)
    BY <1>1, <1>4, <2>3, Zenon
  <2>7. T(u) = sx /\ T(values) = sy
    BY <1>2 DEF sy, T
  <2>8. W(X, X) = n * (n * W(u, u) - sx * sx)
    BY <2>1, <2>2, <2>4, <2>7, CentredWhole
  <2>9. W(X, Y) = n * (n * W(u, values) - sx * sy)
    BY <1>4, <2>1, <2>2, <2>5, <2>7, CentredWhole
  <2>10. W(Y, Y) = n * (n * W(values, values) - sy * sy)
    BY <1>4, <2>1, <2>2, <2>6, <2>7, CentredWhole
  <2> QED
    BY <1>5, <2>8, <2>9, <2>10
<1>8. line.xx \in Int /\ line.xy \in Int /\ line.yy \in Int
  <2>1. W(u, u) \in Int /\ W(u, values) \in Int /\ W(values, values) \in Int
    BY <1>1, <1>3
  <2>2. n * W(u, u) - sx * sx \in Int
    BY <1>1, <1>2, <2>1
  <2>3. n * W(u, values) - sx * sy \in Int
    BY <1>1, <1>2, <1>4, <2>1
  <2>4. n * W(values, values) - sy * sy \in Int
    BY <1>1, <1>4, <2>1
  <2> QED
    BY <1>5, <2>2, <2>3, <2>4
<1>9. line.xx > 0
  <2>1. Products(X, X, n)[1] = (0 - sx) * (0 - sx)
    BY <1>1, <1>2 DEF Products, Centred, u
  <2>2. \A i \in 1 .. n : Products(X, X, n)[i] \in Nat
    BY <1>6, SquareNatural DEF Products
  <2>3. IsFiniteSet(1 .. n) /\ 1 \in 1 .. n
    BY <1>1, FS_Interval
  <2>4. Products(X, X, n)[1] <= W(X, X) /\ W(X, X) \in Nat
    BY <2>2, <2>3, TotalNatural DEF W
  <2>5. (0 - sx) * (0 - sx) > 0
    BY <1>2, SquareNatural
  <2>6. W(X, X) > 0
    BY <2>1, <2>2, <2>3, <2>4, <2>5
  <2> QED
    BY <1>1, <1>7, <1>8, <2>6, PositiveFactor
<1>10. line.yy >= 0
  <2>1. \A i \in 1 .. n : Products(Y, Y, n)[i] \in Nat
    BY <1>6, SquareNatural DEF Products
  <2>2. IsFiniteSet(1 .. n)
    BY <1>1, FS_Interval
  <2>3. W(Y, Y) \in Nat
    BY <2>1, <2>2, TotalNatural DEF W
  <2> HIDE DEF Y
  <2> QED
    BY <1>1, <1>7, <1>8, <2>3, PositiveFactor
<1>11. line.xy * line.xy <= line.xx * line.yy
  <2> DEFINE xx == line.xx  xy == line.xy  yy == line.yy
  <2>1. xx * xx * W(Y, Y) - 2 * xx * xy * W(X, Y) + xy * xy * W(X, X) \in Nat
    BY <1>1, <1>6, <1>8, FormNatural DEF W
  <2>2. xx * xx * (n * yy) - 2 * xx * xy * (n * xy) + xy * xy * (n * xx) >= 0
    BY <1>7, <2>1
  <2>3. n \in Int /\ n > 0 /\ xx \in Int /\ xy \in Int /\ yy \in Int /\ xx > 0
    BY <1>1, <1>8, <1>9
  <2> HIDE DEF n, xx, xy, yy
  <2>4. (n * xx) * (xx * yy - xy * xy) >= 0
    BY <2>2, <2>3, FormWhole
  <2>5. n * xx > 0 /\ n * xx \in Int /\ xx * yy - xy * xy \in Int
    BY <2>3
  <2>6. xx * yy - xy * xy >= 0
    BY <2>4, <2>5, PositiveFactor
  <2>7. xx * yy \in Int /\ xy * xy \in Int
    BY <2>3
  <2> HIDE DEF xx, xy, yy
  <2>8. xy * xy <= xx * yy
    BY <2>6, <2>7
  <2> QED
    BY <2>8 DEF xx, xy, yy
<1> QED
  BY <1>2, <1>4, <1>5, <1>8, <1>9, <1>10, <1>11 DEF line

(* A product of positive numbers is positive.                              *)
LEMMA ProductPositive ==
  ASSUME NEW a \in Nat \ {0}, NEW b \in Nat \ {0}
  PROVE  a * b \in Nat \ {0}
OBVIOUS

(* What a line explains, of 100 * k: what keeps it between 0 and 1 never   *)
(* acts.                                                                   *)
LEMMA ExplainedBounds ==
  ASSUME NEW line, line.xx \in Nat \ {0}, line.xy \in Int, line.yy \in Nat,
         line.xy * line.xy <= line.xx * line.yy, NEW k \in Nat
  PROVE  /\ Explained(line, k) \in 0 .. 100 * k
         /\ line.yy # 0 =>
              Explained(line, k) = (100 * k * line.xy * line.xy) \div (line.xx * line.yy)
<1>1. CASE line.yy = 0
  BY <1>1 DEF Explained
<1>2. CASE line.yy # 0
  <2> DEFINE xy == line.xy  d == line.xx * line.yy  m == 100 * k * xy * xy  q == m \div d
  <2>1. d \in Nat \ {0} /\ xy \in Int
    BY <1>2, ProductPositive
  <2>2. Explained(line, k) = Greater(0, Lesser(100 * k, q))
    BY <1>2 DEF Explained
  <2>3. xy * xy \in Nat /\ xy * xy <= d
    BY <2>1, SquareNatural
  <2>4. m = (100 * k) * (xy * xy) /\ 100 * k \in Nat
    BY <2>1
  <2> HIDE DEF xy, d
  <2>5. (100 * k) * (xy * xy) <= (100 * k) * d /\ (100 * k) * (xy * xy) >= 0
    BY <2>1, <2>3, <2>4, ScaleUp
  <2>6. m \in Nat
    BY <2>3, <2>4
  <2> HIDE DEF m
  <2>7. q \in Int /\ q * d <= m /\ m < (q + 1) * d
    BY <2>1, <2>6, DivBounds
  <2> HIDE DEF q
  <2>8. q >= 0
    <3>1. 0 * d < (q + 1) * d /\ q + 1 \in Int
      BY <2>1, <2>6, <2>7
    <3>2. 0 < q + 1
      BY <2>1, <3>1, CancelFactor
    <3> QED
      BY <2>7, <3>2
  <2>9. q <= 100 * k
    <3>1. q * d < (100 * k + 1) * d
      BY <2>1, <2>4, <2>5, <2>7
    <3>2. q < 100 * k + 1
      BY <2>1, <2>4, <2>7, <3>1, CancelFactor
    <3> QED
      BY <2>4, <2>7, <3>2
  <2>10. Explained(line, k) = q
    BY <2>2, <2>4, <2>7, <2>8, <2>9 DEF Greater, Lesser
  <2> QED
    BY <1>2, <2>7, <2>8, <2>9, <2>10 DEF q, m, d, xy
<1> QED
  BY <1>1, <1>2

(* The confidence and the spread of a line.                                *)
LEMMA LineConfident ==
  ASSUME NEW values \in Seq(Int), Len(values) >= 3
  PROVE  /\ LineConfidence(values) \in 0 .. 100
         /\ Len(values) < 5 => LineConfidence(values) <= 10 * Len(values)
         /\ (100 - Explained(Line(values), 1)) \div 10 \in 0 .. 10
<1> DEFINE n == Len(values)
           line == Line(values)
           factor == Lesser(20, n)
           third == Lesser(n, 10)
<1>1. n \in Nat /\ n >= 3
  OBVIOUS
<1>2. \A k \in Nat : Explained(line, k) \in 0 .. 100 * k
  <2>1. /\ line.xx \in Nat \ {0} /\ line.xy \in Int /\ line.yy \in Nat
        /\ line.xy * line.xy <= line.xx * line.yy
    BY <1>1, LineExplainsAShare
  <2> HIDE DEF line
  <2> QED
    BY <2>1, ExplainedBounds
<1> DEFINE C1 == Steady(n)
           C2 == Greater(60, 4 * factor)
           C3 == Greater(Explained(line, factor) \div 20, (7 * factor) \div 4 + 10)
           C4 == Greater(0, Lesser(100, Explained(line, third) \div 10))
<1>3. \/ LineConfidence(values) = C1 /\ n >= 5
      \/ LineConfidence(values) \in {C2, C3} /\ n >= 10
      \/ LineConfidence(values) = C4
  BY DEF LineConfidence
<1> HIDE DEF line, n
<1>4. /\ factor \in 0 .. 20 /\ third \in 0 .. 10 /\ third <= n
      /\ factor \in Nat /\ third \in Nat /\ 1 \in Nat
  BY <1>1 DEF Lesser
<1> HIDE DEF factor, third
<1>5. C1 \in 0 .. 100
  BY <1>1 DEF Steady, Greater, Lesser
<1>6. C2 \in 0 .. 100
  BY <1>4 DEF Greater
<1>7. C3 \in 0 .. 100
  <2>1. Explained(line, factor) \in 0 .. 100 * factor
    BY <1>2, <1>4, Zenon
  <2> DEFINE e == Explained(line, factor)
  <2>0. e \in 0 .. 100 * factor
    BY <2>1
  <2> HIDE DEF e
  <2>2. e \div 20 \in 0 .. 100
    BY <1>4, <2>0
  <2>3. (7 * factor) \div 4 + 10 \in 0 .. 100
    BY <1>4
  <2> QED
    BY <2>2, <2>3 DEF Greater, e
<1>8. C4 \in 0 .. 10 * third
  <2> DEFINE e == Explained(line, third)
  <2>1. e \in 0 .. 100 * third
    BY <1>2, <1>4, Zenon
  <2> HIDE DEF e
  <2>2. e \div 10 \in 0 .. 10 * third
    BY <1>4, <2>1
  <2>3. Greater(0, Lesser(100, e \div 10)) = e \div 10
    BY <1>4, <2>2 DEF Greater, Lesser
  <2> QED
    BY <2>2, <2>3 DEF e
<1>9. (100 - Explained(line, 1)) \div 10 \in 0 .. 10
  <2> DEFINE e == Explained(line, 1)
  <2>1. e \in 0 .. 100 * 1
    BY <1>2, <1>4, Zenon
  <2> HIDE DEF e
  <2>2. (100 - e) \div 10 \in 0 .. 10
    BY <2>1
  <2> QED
    BY <2>2 DEF e
<1> HIDE DEF C1, C2, C3, C4
<1>10. C4 \in 0 .. 100 /\ C4 <= 10 * n
  BY <1>1, <1>4, <1>8
<1>11. LineConfidence(values) \in 0 .. 100
  BY <1>3, <1>5, <1>6, <1>7, <1>10
<1>12. n < 5 => LineConfidence(values) <= 10 * n
  BY <1>1, <1>3, <1>10
<1> QED
  BY <1>9, <1>11, <1>12 DEF line, n

-----------------------------------------------------------------------------
(* What the adapters make.                                                 *)

(* All of them are strings, which the provers do not know of a literal.    *)
Names ==
  STRING \union
    {"latency_ms", "replicas", "throughput_rps", "governance_commit_rate",
     "ledger_total_entries", "slo_breach_severity", "capacity_pressure_score",
     "compliance_violation_flag", "deepfield-fleet", "fleet_metrics", "none"}

Fields ==
  [metric : Names, value : Int, source : Names,
   forecast : BOOLEAN, event : Names, numeric : BOOLEAN, confidence : 0 .. 100, at : Int]

(* Only the adapter of classifications, which names its own source, marks  *)
(* a forecast.                                                             *)
Piece == {s \in Fields : s.forecast => s.source = "deepfield-fleet"}

(* Evidence that no event brought.                                         *)
Sample == {s \in Piece : s.event = "none"}

(* Evidence made with a metric's name, a value and a source is a sample.   *)
LEMMA SampleMade ==
  ASSUME NEW metric \in Names, NEW value \in Int, NEW source \in Names
  PROVE  Evidence(metric, value, source) \in Sample
<1> DEFINE e == Evidence(metric, value, source)
<1>1. e \in Fields /\ e.event = "none" /\ e.forecast = FALSE /\ e.source = source
  <2>1. e = [metric |-> metric, value |-> value, source |-> source, forecast |-> FALSE,
             event |-> "none", numeric |-> FALSE, confidence |-> 0, at |-> 0]
    BY DEF Evidence
  <2> HIDE DEF e
  <2>2. "none" \in Names /\ FALSE \in BOOLEAN /\ 0 \in 0 .. 100 /\ 0 \in Int
    BY DEF Names
  <2>3. e \in Fields
    BY <2>1, <2>2, Zenon DEF Fields
  <2> QED
    BY <2>1, <2>3
<1> HIDE DEF e
<1>2. e \in Piece
  BY <1>1 DEF Piece
<1> QED
  BY <1>1, <1>2 DEF e, Sample

(* So is a score of a classification, and a forecast that comes with one   *)
(* (ClassificationEvidence).                                               *)
LEMMA ScoreMade ==
  ASSUME NEW metric \in Names, NEW value \in Int
  PROVE  /\ Score(metric, value) \in Sample
         /\ [Score(metric, value) EXCEPT !.forecast = TRUE] \in Sample
<1> DEFINE e == Evidence(metric, value, "deepfield-fleet")
<1>1. "deepfield-fleet" \in Names
  BY DEF Names
<1>2. e \in Sample
  BY <1>1, SampleMade
<1>3. e.source = "deepfield-fleet" /\ e = Score(metric, value)
  BY DEF Evidence, Score, DeepFieldSource
<1> HIDE DEF e
<1>4. e \in Fields /\ e.event = "none"
  BY <1>2 DEF Sample, Piece
<1> DEFINE f == [e EXCEPT !.forecast = TRUE]
<1>5. f \in Fields /\ f.event = "none" /\ f.source = "deepfield-fleet"
  BY <1>3, <1>4 DEF Fields
<1> HIDE DEF f
<1>6. f \in Sample
  BY <1>5 DEF Sample, Piece
<1> QED
  BY <1>2, <1>3, <1>6 DEF f

(* A sequence's length, domain and elements.                               *)
LEMMA Elements ==
  ASSUME NEW S, NEW s \in Seq(S)
  PROVE  /\ Len(s) \in Nat /\ DOMAIN s = 1 .. Len(s)
         /\ \A i \in DOMAIN s : s[i] \in S
OBVIOUS

(* A function on 1 .. n is a sequence.                                     *)
LEMMA SeqMade ==
  ASSUME NEW S, NEW n \in Nat, NEW f, f \in [1 .. n -> S]
  PROVE  f \in Seq(S)
OBVIOUS

(* The sequences that an adapter gives for one reading.                    *)
LEMMA OneOrNone ==
  ASSUME NEW S, NEW x \in S
  PROVE  <<x>> \in Seq(S) /\ <<>> \in Seq(S)
OBVIOUS

(* Sequences one after the other.                                          *)
LEMMA PairsTyped ==
  ASSUME NEW S, NEW a \in Seq(S), NEW b \in Seq(S)
  PROVE  a \o b \in Seq(S)
OBVIOUS

(* A classification record makes samples (cycle_from_classifications).     *)
LEMMA MadeOfRecord ==
  ASSUME NEW r \in Records
  PROVE  ClassificationEvidence(r) \in Seq(Sample)
<1>1. /\ r.family \in ClassFamilies /\ r.severity \in DOMAIN SeverityScores
      /\ r.confidence \in 0 .. 100 /\ r.metric \in STRING
      /\ r.metrics \in Seq([name : STRING, value : Int, numeric : BOOLEAN])
  BY EvidenceAssumption
<1>2. /\ DOMAIN r.metrics = 1 .. Len(r.metrics) /\ Len(r.metrics) \in Nat
      /\ \A i \in DOMAIN r.metrics :
           r.metrics[i] \in [name : STRING, value : Int, numeric : BOOLEAN]
  <2> DEFINE metrics == r.metrics
  <2>1. metrics \in Seq([name : STRING, value : Int, numeric : BOOLEAN])
    BY <1>1
  <2> HIDE DEF metrics
  <2>2. /\ DOMAIN metrics = 1 .. Len(metrics) /\ Len(metrics) \in Nat
        /\ \A i \in DOMAIN metrics :
             metrics[i] \in [name : STRING, value : Int, numeric : BOOLEAN]
    BY <2>1, Elements, Zenon
  <2> QED
    BY <2>2 DEF metrics
<1>3. \A i \in DOMAIN r.metrics : r.metrics[i].name \in Names /\ r.metrics[i].value \in Int
  BY <1>2 DEF Names
<1>5. <<FamilyEvidence(r)>> \in Seq(Sample)
  <2>1. SeverityScores[r.severity] \in Nat
    BY <1>1 DEF SeverityScores
  <2> DEFINE score == SeverityScores[r.severity]  confidence == r.confidence
  <2>2. score \in Nat /\ confidence \in Nat
    <3>1. confidence \in 0 .. 100
      BY <1>1
    <3> HIDE DEF confidence
    <3> QED
      BY <2>1, <3>1
  <2> HIDE DEF score, confidence
  <2>3. (score * confidence) \div 10 \in Int
    <3>1. score * confidence \in Int
      BY <2>2
    <3> QED
      BY <3>1
  <2>4. /\ Score("slo_breach_severity", confidence) \in Sample
        /\ Score("capacity_pressure_score", confidence) \in Sample
        /\ Score("compliance_violation_flag", 100) \in Sample
        /\ Score(r.metric, confidence) \in Sample
        /\ Score(r.metric, (score * confidence) \div 10) \in Sample
    <3>1. /\ "slo_breach_severity" \in Names /\ "capacity_pressure_score" \in Names
          /\ "compliance_violation_flag" \in Names /\ r.metric \in Names
          /\ confidence \in Int /\ 100 \in Int
      BY <1>1, <2>2 DEF Names
    <3> QED
      BY <2>3, <3>1, ScoreMade, Zenon
  <2>5. FamilyEvidence(r) \in Sample
    <3>1. r.family = "slo" => FamilyEvidence(r) \in Sample
      BY <2>4 DEF FamilyEvidence, confidence
    <3>2. r.family = "capacity" => FamilyEvidence(r) \in Sample
      BY <2>4 DEF FamilyEvidence, confidence
    <3>3. r.family = "compliance" => FamilyEvidence(r) \in Sample
      BY <2>4 DEF FamilyEvidence
    <3>4. r.family = "semantic_tier" => FamilyEvidence(r) \in Sample
      BY <2>4 DEF FamilyEvidence, confidence
    <3>5. r.family = "other" => FamilyEvidence(r) \in Sample
      BY <2>4 DEF FamilyEvidence, score, confidence
    <3> QED
      BY <1>1, <3>1, <3>2, <3>3, <3>4, <3>5 DEF ClassFamilies
  <2> QED
    BY <2>5, OneOrNone
<1>6. MetricEvidence(r) \in Seq(Sample)
  <2> DEFINE f(i) == LET m == r.metrics[i]
                     IN  IF m.numeric THEN <<Score(m.name, m.value)>> ELSE <<>>
             parts == [i \in DOMAIN r.metrics |-> f(i)]
  <2>1. \A i \in DOMAIN r.metrics : f(i) \in Seq(Sample)
    <3>1. ASSUME NEW i \in DOMAIN r.metrics
          PROVE  Score(r.metrics[i].name, r.metrics[i].value) \in Sample
      BY <1>3, ScoreMade
    <3> QED
      BY <3>1, OneOrNone
  <2> HIDE DEF f
  <2>2. parts \in Seq(Seq(Sample))
    BY <1>2, <2>1, SeqMade
  <2> HIDE DEF parts
  <2>3. FlattenSeq(parts) \in Seq(Sample)
    BY <2>2, FlattenTyped
  <2> QED
    BY <2>3 DEF MetricEvidence, parts, f
<1>7. ForecastEvidence(r) \in Seq(Sample)
  <2> DEFINE f(i) == LET m == r.metrics[i]
                     IN  IF r.family = "slo" /\ m.name = "forecast_value" /\ m.numeric
                           THEN <<[Score("latency_ms", m.value) EXCEPT !.forecast = TRUE]>>
                           ELSE <<>>
             parts == [i \in DOMAIN r.metrics |-> f(i)]
  <2>1. \A i \in DOMAIN r.metrics : f(i) \in Seq(Sample)
    <3>1. ASSUME NEW i \in DOMAIN r.metrics
          PROVE  [Score("latency_ms", r.metrics[i].value) EXCEPT !.forecast = TRUE] \in Sample
      <4>1. "latency_ms" \in Names /\ r.metrics[i].value \in Int
        BY <1>3 DEF Names
      <4> QED
        BY <1>3, <4>1, ScoreMade, Zenon
    <3> QED
      BY <3>1, OneOrNone
  <2> HIDE DEF f
  <2>2. parts \in Seq(Seq(Sample))
    BY <1>2, <2>1, SeqMade
  <2> HIDE DEF parts
  <2>3. FlattenSeq(parts) \in Seq(Sample)
    BY <2>2, FlattenTyped
  <2> QED
    BY <2>3 DEF ForecastEvidence, parts, f
<1> QED
  BY <1>5, <1>6, <1>7, PairsTyped DEF ClassificationEvidence

(* A figure that is absent makes no sample.                                *)
LEMMA ReadingTyped ==
  ASSUME NEW metric \in Names, NEW value \in Figure
  PROVE  Reading(metric, value) \in Seq(Sample)
<1>1. value \in Int
  BY DEF Figure, Absent
<1>3. "fleet_metrics" \in Names
  BY DEF Names
<1>2. Evidence(metric, value, "fleet_metrics") \in Sample
  BY <1>1, <1>3, SampleMade
<1> QED
  BY <1>2, OneOrNone DEF Reading

(* A snapshot makes samples (fleet_metrics_to_evidence).                   *)
LEMMA MadeOfSnapshot ==
  ASSUME NEW s \in Snapshots
  PROVE  SnapshotEvidence(s) \in Seq(Sample)
<1>1. /\ s.models \in Seq([latency : Figure, replicas : Figure, rps : Figure])
      /\ s.commitRate \in Figure /\ s.entries \in Figure
      /\ s.tiers \in Seq([metric : STRING, ratio : 0 .. 100])
  BY EvidenceAssumption
<1> DEFINE models == s.models  tiered == s.tiers
<1>0. /\ models \in Seq([latency : Figure, replicas : Figure, rps : Figure])
      /\ tiered \in Seq([metric : STRING, ratio : 0 .. 100])
  BY <1>1
<1> HIDE DEF models, tiered
<1>6. /\ Len(models) \in Nat /\ DOMAIN models = 1 .. Len(models)
      /\ \A i \in DOMAIN models : models[i] \in [latency : Figure, replicas : Figure, rps : Figure]
      /\ Len(tiered) \in Nat /\ DOMAIN tiered = 1 .. Len(tiered)
      /\ \A i \in DOMAIN tiered : tiered[i] \in [metric : STRING, ratio : 0 .. 100]
  BY <1>0, Elements, Zenon
<1> DEFINE f(i) == ModelEvidence(models[i])
           parts == [i \in DOMAIN models |-> f(i)]
           tiers == [i \in DOMAIN tiered |->
                       Evidence(tiered[i].metric, tiered[i].ratio, "fleet_metrics")]
<1>2. FlattenSeq(parts) \in Seq(Sample)
  <2>1. ASSUME NEW i \in DOMAIN models  PROVE f(i) \in Seq(Sample)
    <3> DEFINE m == models[i]
    <3>1. m \in [latency : Figure, replicas : Figure, rps : Figure]
      BY <1>6
    <3> HIDE DEF m
    <3>2. m.latency \in Figure /\ m.replicas \in Figure /\ m.rps \in Figure
      BY <3>1
    <3>5. "latency_ms" \in Names /\ "replicas" \in Names /\ "throughput_rps" \in Names
      BY DEF Names
    <3>3. /\ Reading("latency_ms", m.latency) \in Seq(Sample)
          /\ Reading("replicas", m.replicas) \in Seq(Sample)
          /\ Reading("throughput_rps", m.rps) \in Seq(Sample)
      BY <3>2, <3>5, ReadingTyped, Zenon
    <3>4. ModelEvidence(m) \in Seq(Sample)
      BY <3>3, PairsTyped DEF ModelEvidence
    <3> QED
      BY <3>4 DEF m
  <2> HIDE DEF f
  <2>2. parts \in Seq(Seq(Sample))
    BY <1>6, <2>1, SeqMade
  <2> HIDE DEF parts
  <2> QED
    BY <2>2, FlattenTyped
<1>3. tiers \in Seq(Sample)
  <2>1. ASSUME NEW i \in DOMAIN tiered
        PROVE  Evidence(tiered[i].metric, tiered[i].ratio, "fleet_metrics") \in Sample
    <3>1. tiered[i] \in [metric : STRING, ratio : 0 .. 100]
      BY <1>6
    <3>2. tiered[i].metric \in Names /\ tiered[i].ratio \in Int /\ "fleet_metrics" \in Names
      BY <3>1 DEF Names
    <3> QED
      BY <3>2, SampleMade
  <2> QED
    BY <1>6, <2>1, SeqMade
<1>4. /\ Reading("governance_commit_rate", s.commitRate) \in Seq(Sample)
      /\ Reading("ledger_total_entries", s.entries) \in Seq(Sample)
  <2> DEFINE rate == s.commitRate  entries == s.entries
  <2>1. /\ rate \in Figure /\ entries \in Figure
        /\ "governance_commit_rate" \in Names /\ "ledger_total_entries" \in Names
    BY <1>1 DEF Names
  <2> HIDE DEF rate, entries
  <2>2. /\ Reading("governance_commit_rate", rate) \in Seq(Sample)
        /\ Reading("ledger_total_entries", entries) \in Seq(Sample)
    BY <2>1, ReadingTyped, Zenon
  <2> QED
    BY <2>2 DEF rate, entries
<1> HIDE DEF parts, tiers
<1>5. FlattenSeq(parts) \o Reading("governance_commit_rate", s.commitRate)
        \o tiers \o Reading("ledger_total_entries", s.entries) \in Seq(Sample)
  BY <1>2, <1>3, <1>4, PairsTyped
<1> QED
  BY <1>5 DEF SnapshotEvidence, parts, tiers, models, tiered

-----------------------------------------------------------------------------
(* The samples of one metric.                                              *)

(* The samples of a metric are signals with that metric.                   *)
LEMMA SamplesOfMetric ==
  ASSUME NEW signals \in Seq(Piece), NEW metric
  PROVE  /\ OfMetric(signals, metric)
              \in Seq({s \in Piece : \E i \in DOMAIN signals :
                                       s = signals[i] /\ signals[i].metric = metric})
         /\ OfMetric(signals, metric) \in Seq(Piece)
<1> DEFINE S == {s \in Piece : \E i \in DOMAIN signals :
                                 s = signals[i] /\ signals[i].metric = metric}
           f(i) == IF signals[i].metric = metric THEN <<signals[i]>> ELSE <<>>
           parts == [i \in DOMAIN signals |-> f(i)]
<1>1. /\ Len(signals) \in Nat /\ DOMAIN signals = 1 .. Len(signals)
      /\ \A i \in DOMAIN signals : signals[i] \in Piece
  BY Elements, Zenon
<1> HIDE DEF Piece
<1>2. ASSUME NEW i \in DOMAIN signals  PROVE f(i) \in Seq(S)
  <2>1. CASE signals[i].metric = metric
    <3>1. signals[i] \in S
      BY <1>1, <2>1
    <3> HIDE DEF S
    <3> QED
      BY <2>1, <3>1, OneOrNone
  <2>2. CASE signals[i].metric # metric
    <3> HIDE DEF S
    <3> QED
      BY <2>2
  <2> QED
    BY <2>1, <2>2
<1> HIDE DEF f, S
<1>3. parts \in Seq(Seq(S))
  BY <1>1, <1>2, SeqMade
<1> HIDE DEF parts
<1>4. FlattenSeq(parts) \in Seq(S)
  BY <1>3, FlattenTyped
<1>5. OfMetric(signals, metric) \in Seq(S)
  BY <1>4 DEF OfMetric, parts, f
<1>6. S \subseteq Piece
  BY DEF S
<1>7. OfMetric(signals, metric) \in Seq(Piece)
  BY <1>5, <1>6
<1> QED
  BY <1>5, <1>7 DEF S

(* A metric that has samples has a signal.                                 *)
LEMMA SampleWitness ==
  ASSUME NEW signals \in Seq(Piece), NEW metric, Len(OfMetric(signals, metric)) > 0
  PROVE  \E i \in DOMAIN signals : signals[i].metric = metric
<1> DEFINE S == {s \in Piece : \E i \in DOMAIN signals :
                                 s = signals[i] /\ signals[i].metric = metric}
           samples == OfMetric(signals, metric)
<1>1. samples \in Seq(S)
  BY SamplesOfMetric
<1> HIDE DEF S, samples
<1>2. Len(samples) > 0
  BY DEF samples
<1>3. samples[1] \in S
  BY <1>1, <1>2
<1> QED
  BY <1>3 DEF S

(* The values of samples.                                                  *)
LEMMA ValuesOfSamples ==
  ASSUME NEW samples \in Seq(Piece)
  PROVE  /\ Len(samples) \in Nat
         /\ [i \in DOMAIN samples |-> samples[i].value] \in Seq(Int)
         /\ Len([i \in DOMAIN samples |-> samples[i].value]) = Len(samples)
<1>1. /\ Len(samples) \in Nat /\ DOMAIN samples = 1 .. Len(samples)
      /\ \A i \in DOMAIN samples : samples[i] \in Piece
  BY Elements, Zenon
<1>2. \A i \in DOMAIN samples : samples[i].value \in Int
  BY <1>1 DEF Piece, Fields
<1> DEFINE values == [i \in DOMAIN samples |-> samples[i].value]
<1>3. values \in [1 .. Len(samples) -> Int]
  BY <1>1, <1>2
<1> HIDE DEF values
<1>4. values \in Seq(Int) /\ Len(values) = Len(samples)
  BY <1>1, <1>3
<1> QED
  BY <1>1, <1>4 DEF values

(* A share is an integer.                                                  *)
LEMMA ShareIsInteger == \A c \in 0 .. 100 : c \in Int
OBVIOUS

(* Fewer than five samples do not give the confidence that is asked.       *)
LEMMA FewSamples ==
  ASSUME NEW n \in Nat
  PROVE  /\ Lesser(85, 10 * n) \in 0 .. 100
         /\ n < 5 => Lesser(85, 10 * n) < 50
         /\ \A c \in Int : n < 5 /\ c <= 10 * n => c < 50
BY DEF Lesser

(* Of some counts, one at least is not exceeded; the first of those.       *)
LEMMA FirstGreatest ==
  ASSUME NEW n \in Nat \ {0}, NEW count, \A i \in 1 .. n : count[i] \in Nat
  PROVE  LET most == {i \in 1 .. n : \A j \in 1 .. n : count[j] <= count[i]}
         IN  Min(most) \in most
<1> DEFINE I == 1 .. n
           most == {i \in I : \A j \in I : count[j] <= count[i]}
           bounds == {m \in Nat : \A j \in I : count[j] <= m}
<1>1. IsFiniteSet(I)
  BY FS_Interval
<1>2. Total(count, I) \in bounds
  BY <1>1, TotalNatural
<1>3. PICK m \in bounds : \A k \in bounds : m <= k
  <2>1. bounds \in SUBSET Nat /\ bounds # {}
    BY <1>2
  <2> HIDE DEF bounds
  <2> QED
    BY <2>1, LeastNatural
<1>4. m \in Nat /\ \A j \in I : count[j] <= m
  BY <1>3
<1>5. \E i \in I : count[i] = m
  <2> SUFFICES ASSUME \A i \in I : count[i] # m PROVE FALSE
    OBVIOUS
  <2>1. \A i \in I : count[i] <= m - 1
    BY <1>4
  <2>2. m - 1 \in Nat
    BY <1>4, <2>1
  <2>3. m - 1 \in bounds
    BY <2>1, <2>2
  <2> QED
    BY <1>3, <1>4, <2>3
<1>6. most # {} /\ most \in SUBSET Nat
  BY <1>4, <1>5
<1>7. \E x \in most : \A y \in most : x <= y
  <2> HIDE DEF most
  <2> QED
    BY <1>6, LeastNatural
<1> HIDE DEF most
<1>8. Min(most) \in most
  BY <1>7 DEF Min
<1> QED
  BY <1>8 DEF most, I

(* The metric that is looked at: the latencies if there are three, else    *)
(* one that no other outnumbers.                                           *)
LEMMA PrimaryIs ==
  ASSUME NEW signals \in Seq(Piece), signals # <<>>
  PROVE  IF Len(OfMetric(signals, "latency_ms")) >= 3
           THEN PrimaryMetric(signals) = "latency_ms"
           ELSE \A j \in DOMAIN signals :
                  Len(OfMetric(signals, signals[j].metric))
                    <= Len(OfMetric(signals, PrimaryMetric(signals)))
<1> DEFINE n == Len(signals)
           count == [i \in 1 .. n |-> Len(OfMetric(signals, signals[i].metric))]
           most == {i \in 1 .. n : \A j \in 1 .. n : count[j] <= count[i]}
<1>1. n \in Nat \ {0} /\ DOMAIN signals = 1 .. n
  <2> HIDE DEF Piece
  <2> QED
    OBVIOUS
<1>2. \A i \in 1 .. n : Len(OfMetric(signals, signals[i].metric)) \in Nat
  BY SamplesOfMetric, ValuesOfSamples
<1>3. \A i \in 1 .. n : count[i] \in Nat
  BY <1>2
<1>4. Min(most) \in most
  <2> HIDE DEF count, n
  <2> QED
    BY <1>1, <1>3, FirstGreatest
<1>5. most = {i \in DOMAIN signals : \A j \in DOMAIN signals :
                Len(OfMetric(signals, signals[j].metric))
                  <= Len(OfMetric(signals, signals[i].metric))}
  BY <1>1
<1>6. MostFrequent(signals) = signals[Min(most)].metric
  BY <1>5 DEF MostFrequent
<1>7. \A j \in DOMAIN signals : Len(OfMetric(signals, signals[j].metric))
                                  <= Len(OfMetric(signals, MostFrequent(signals)))
  BY <1>4, <1>5, <1>6
<1> QED
  BY <1>7 DEF PrimaryMetric

(* What FromSamples makes of signals.                                      *)
LEMMA FromSamplesAccepted ==
  ASSUME NEW signals \in Seq(Piece)
  PROVE  LET t == FromSamples(signals)
         IN  /\ t.points > 0 /\ t.confidence \in 0 .. 100 /\ t.spread \in 0 .. 10
             /\ t.confidence >= 50 =>
                  \E i \in DOMAIN signals :
                    /\ signals[i].metric = PrimaryMetric(signals)
                    /\ Len(OfMetric(signals, signals[i].metric)) >= 5
<1> DEFINE metric  == PrimaryMetric(signals)
           samples == OfMetric(signals, metric)
           values  == [i \in DOMAIN samples |-> samples[i].value]
           n       == Len(values)
           t       == FromSamples(signals)
<1>1. samples \in Seq(Piece)
  BY SamplesOfMetric
<1>2. t = IF n < 3 THEN Flat(values[n], 10)
          ELSE IF IsSpike(values, metric) THEN Spike(values) ELSE Regression(values)
  BY DEF FromSamples
<1> HIDE DEF metric, samples, t
<1>3. values \in Seq(Int) /\ n = Len(samples) /\ n \in Nat
  BY <1>1, ValuesOfSamples
<1>4. HorizonSteps \in Nat \ {0}
  BY EvidenceAssumption
<1> HIDE DEF values, n
<1>5. /\ t.points > 0 /\ t.confidence \in 0 .. 100 /\ t.spread \in 0 .. 10
      /\ n < 5 => t.confidence < 50
  <2>1. CASE n < 3
    <3>1. t = Forecast("flat", values[n], HorizonSteps, 10, 0)
      BY <1>2, <2>1 DEF Flat
    <3>2. t.points = HorizonSteps /\ t.confidence = 10 /\ t.spread = 0
      BY <3>1 DEF Forecast
    <3> QED
      BY <1>4, <3>2
  <2>2. CASE n >= 3 /\ IsSpike(values, metric)
    <3>1. t = Spike(values)
      BY <1>2, <1>3, <2>2
    <3>2. t.points = HorizonSteps /\ t.confidence = Lesser(85, 10 * n) /\ t.spread = 10
      BY <3>1 DEF Spike, Forecast, n
    <3>3. Lesser(85, 10 * n) \in 0 .. 100 /\ (n < 5 => Lesser(85, 10 * n) < 50)
      BY <1>3, FewSamples
    <3>4. t.points > 0 /\ t.spread \in 0 .. 10
      BY <1>4, <3>2
    <3> QED
      BY <3>2, <3>3, <3>4
  <2>3. CASE n >= 3 /\ ~IsSpike(values, metric)
    <3>1. t = Regression(values)
      BY <1>2, <1>3, <2>3
    <3>2. /\ t.points = HorizonSteps /\ t.confidence = LineConfidence(values)
          /\ t.spread = (100 - Explained(Line(values), 1)) \div 10
      BY <3>1 DEF Regression, Forecast
    <3>3. /\ LineConfidence(values) \in 0 .. 100
          /\ n < 5 => LineConfidence(values) <= 10 * n
          /\ (100 - Explained(Line(values), 1)) \div 10 \in 0 .. 10
      BY <1>3, <2>3, LineConfident DEF n
    <3>4. n < 5 => LineConfidence(values) < 50
      <4>1. LineConfidence(values) \in Int
        BY <3>3, ShareIsInteger, Zenon
      <4> QED
        BY <1>3, <3>3, <4>1, FewSamples
    <3>5. t.points > 0
      BY <1>4, <3>2
    <3> QED
      BY <3>2, <3>3, <3>4, <3>5
  <2> QED
    BY <1>3, <2>1, <2>2, <2>3
<1>6. ASSUME n >= 5
      PROVE  \E i \in DOMAIN signals :
               /\ signals[i].metric = PrimaryMetric(signals)
               /\ Len(OfMetric(signals, signals[i].metric)) >= 5
  <2>1. Len(OfMetric(signals, metric)) = n
    BY <1>3 DEF samples
  <2>2. PICK i \in DOMAIN signals : signals[i].metric = metric
    BY <1>3, <1>6, <2>1, SampleWitness
  <2> QED
    BY <1>6, <2>1, <2>2 DEF metric
<1>7. t.confidence >= 50 => n >= 5
  <2>1. t.confidence \in Int
    BY <1>5, ShareIsInteger, Zenon
  <2>2. n \in Int
    BY <1>3
  <2> QED
    BY <1>5, <2>1, <2>2
<1> QED
  BY <1>5, <1>6, <1>7 DEF t

-----------------------------------------------------------------------------
(* The inductive invariant: evidence is what the adapters make, and only   *)
(* an event brings what predict may take for a forecast; it comes alone.   *)
EvidenceInv ==
  /\ evidence \in Seq(Piece)
  /\ \/ entry # "event" /\ evidence \in Seq(Sample)
     \/ entry = "event" /\ Len(evidence) = 1
  /\ Predicted => entry # "none" /\ trajectory = Predict(evidence)

(* What is made without an event is evidence all the same.                 *)
LEMMA SamplesArePieces ==
  ASSUME NEW s \in Seq(Sample)
  PROVE  s \in Seq(Piece)
<1>1. Sample \subseteq Piece
  BY DEF Sample
<1> HIDE DEF Sample, Piece
<1> QED
  BY <1>1

(* An event makes one piece of evidence (DeepFieldEventAdapter).           *)
LEMMA EventMade ==
  ASSUME NEW e \in Events
  PROVE  EventEvidence(e) \in Piece
<1>1. /\ e.type \in STRING /\ e.metric \in STRING /\ e.value \in Int
      /\ e.confidence \in 0 .. 100 /\ e.time \in Int
  BY EvidenceAssumption
<1> DEFINE value == IF e.type \in {"observation", "forecast"} /\ e.kind # "other" THEN e.value
                    ELSE IF e.type = "observation" THEN 0 ELSE e.confidence
           numeric == (e.kind = "number")
           made == EventEvidence(e)
<1>2. value \in Int
  BY <1>1
<1>3. made = [Evidence(e.metric, value, DeepFieldSource) EXCEPT
                !.event = e.type, !.numeric = numeric, !.confidence = e.confidence, !.at = e.time]
  BY DEF EventEvidence
<1>6. numeric \in BOOLEAN
  OBVIOUS
<1> HIDE DEF value, numeric, made
<1>4. made = [metric |-> e.metric, value |-> value, source |-> "deepfield-fleet",
              forecast |-> FALSE, event |-> e.type, numeric |-> numeric,
              confidence |-> e.confidence, at |-> e.time]
  BY <1>3 DEF Evidence, DeepFieldSource
<1>5. /\ e.metric \in Names /\ e.type \in Names /\ FALSE \in BOOLEAN
      /\ "deepfield-fleet" \in Names
  BY <1>1 DEF Names
<1>7. made \in Fields /\ ~made.forecast
  BY <1>1, <1>2, <1>4, <1>5, <1>6 DEF Fields
<1> QED
  BY <1>7 DEF Piece, made

(* The signals of a request make samples (run_cycle, classify_and_run).    *)
LEMMA MeasuredMade ==
  ASSUME NEW signals, signals \in Requests \/ signals \in Additional
  PROVE  Measured(signals) \in Seq(Sample)
<1>1. signals \in Seq([metric : STRING, value : Int, source : STRING])
  BY EvidenceAssumption
<1>2. /\ Len(signals) \in Nat /\ DOMAIN signals = 1 .. Len(signals)
      /\ \A i \in DOMAIN signals : signals[i] \in [metric : STRING, value : Int, source : STRING]
  BY <1>1, Elements, Zenon
<1>3. \A i \in DOMAIN signals :
        Evidence(signals[i].metric, signals[i].value, signals[i].source) \in Sample
  <2>1. \A i \in DOMAIN signals :
          signals[i].metric \in Names /\ signals[i].value \in Int /\ signals[i].source \in Names
    BY <1>2 DEF Names
  <2> QED
    BY <2>1, SampleMade, Zenon
<1> QED
  BY <1>2, <1>3, SeqMade DEF Measured

(* Before any request there is no evidence.                                *)
LEMMA EvidenceInvInit == Init => EvidenceInv
BY DEF Init, EvidenceInv, Predicted

(* Every request keeps the invariant, and so does predict.                 *)
LEMMA EvidenceInvNext == EvidenceInv /\ [Next]_vars => EvidenceInv'
<1> SUFFICES ASSUME EvidenceInv, [Next]_vars PROVE EvidenceInv'
  OBVIOUS
<1>1. entry = "none" /\ UNCHANGED trajectory => ~Predicted'
  BY DEF EvidenceInv, Predicted
<1>2. CASE RunCycle
  <2>1. PICK signals \in Requests : evidence' = Measured(signals)
    BY <1>2 DEF RunCycle
  <2>2. evidence' \in Seq(Sample)
    BY <2>1, MeasuredMade
  <2> QED
    BY <1>1, <1>2, <2>2, SamplesArePieces DEF RunCycle, EvidenceInv
<1>3. CASE ClassifyAndRun
  <2>1. PICK n \in Batches, signals \in Additional :
          \E records \in [1 .. n -> Records] :
            evidence' = FlattenSeq([i \in 1 .. n |-> ClassificationEvidence(records[i])])
                          \o Measured(signals)
    BY <1>3 DEF ClassifyAndRun
  <2>2. PICK records \in [1 .. n -> Records] :
          evidence' = FlattenSeq([i \in 1 .. n |-> ClassificationEvidence(records[i])])
                        \o Measured(signals)
    BY <2>1
  <2> DEFINE parts == [i \in 1 .. n |-> ClassificationEvidence(records[i])]
  <2>3. n \in Nat
    BY EvidenceAssumption
  <2>4. parts \in Seq(Seq(Sample))
    <3>1. \A i \in 1 .. n : ClassificationEvidence(records[i]) \in Seq(Sample)
      BY MadeOfRecord
    <3> QED
      BY <2>3, <3>1, SeqMade
  <2> HIDE DEF parts
  <2>5. FlattenSeq(parts) \in Seq(Sample)
    BY <2>4, FlattenTyped
  <2>6. FlattenSeq(parts) \o Measured(signals) \in Seq(Sample)
    BY <2>5, MeasuredMade, PairsTyped
  <2>7. evidence' \in Seq(Sample)
    BY <2>2, <2>6 DEF parts
  <2> QED
    BY <1>1, <1>3, <2>7, SamplesArePieces DEF ClassifyAndRun, EvidenceInv
<1>4. CASE CycleFromMetrics
  <2>1. evidence' \in Seq(Sample)
    BY <1>4, MadeOfSnapshot DEF CycleFromMetrics
  <2> QED
    BY <1>1, <1>4, <2>1, SamplesArePieces DEF CycleFromMetrics, EvidenceInv
<1>5. CASE AcceptEvent
  <2>1. PICK e \in Events : evidence' = <<EventEvidence(e)>>
    BY <1>5 DEF AcceptEvent
  <2>2. EventEvidence(e) \in Piece
    BY EventMade
  <2>3. evidence' \in Seq(Piece) /\ Len(evidence') = 1
    <3> HIDE DEF Piece
    <3> QED
      BY <2>1, <2>2, OneOrNone
  <2> QED
    BY <1>1, <1>5, <2>3 DEF AcceptEvent, EvidenceInv
<1>6. CASE PredictFrom
  BY <1>6 DEF PredictFrom, EvidenceInv, Predicted
<1>7. CASE UNCHANGED vars
  BY <1>7 DEF vars, EvidenceInv, Predicted
<1> QED
  BY <1>2, <1>3, <1>4, <1>5, <1>6, <1>7 DEF Next

(* So it holds in every reachable state.                                   *)
LEMMA EvidenceInvariant == Spec => []EvidenceInv
BY EvidenceInvInit, EvidenceInvNext, PTL DEF Spec

-----------------------------------------------------------------------------
(* The theorems.                                                           *)

(* No request brings what predict takes for a classification's forecast.   *)
LEMMA NoneOfClassification ==
  ASSUME EvidenceInv, NEW i \in DOMAIN evidence
  PROVE  ~IsClassificationForecast(evidence[i])
<1>1. evidence \in Seq(Piece)
  BY DEF EvidenceInv
<1>2. evidence[i] \in Piece
  BY <1>1, Elements, Zenon
<1>3. evidence[i].forecast => evidence[i].source = "deepfield-fleet"
  BY <1>2 DEF Piece
<1> QED
  BY <1>3 DEF IsClassificationForecast

(* The three ways of predict that are left.                                *)
LEMMA WaysOfPredict ==
  ASSUME EvidenceInv
  PROVE  \/ evidence = <<>> /\ Predict(evidence) = Flat(0, 0)
         \/ /\ entry = "event" /\ Len(evidence) = 1 /\ evidence[1].numeric
            /\ evidence[1] \in Piece
            /\ Predict(evidence) =
                 Forecast("deepfield", evidence[1].value, 1, evidence[1].confidence, 0)
         \/ Predict(evidence) = FromSamples(evidence)
<1> DEFINE usable == {i \in DOMAIN evidence : Usable(evidence[i])}
<1>1. evidence \in Seq(Piece)
  BY DEF EvidenceInv
<1>2. /\ DOMAIN evidence = 1 .. Len(evidence) /\ Len(evidence) \in Nat
      /\ \A i \in DOMAIN evidence : evidence[i] \in Piece
  BY <1>1, Elements, Zenon
<1>3. \A i \in DOMAIN evidence : ~IsClassificationForecast(evidence[i])
  BY NoneOfClassification
<1>4. CASE usable = {}
  <2>1. ~ \E i \in DOMAIN evidence : Usable(evidence[i])
    BY <1>4
  <2> QED
    BY <1>3, <2>1 DEF Predict
<1>5. CASE usable # {}
  <2>1. PICK i \in DOMAIN evidence : Usable(evidence[i])
    BY <1>5
  <2>2. evidence[i].event # "none"
    BY <2>1 DEF Usable
  <2>3. evidence \notin Seq(Sample)
    <3>1. ASSUME evidence \in Seq(Sample) PROVE FALSE
      <4>1. evidence[i] \in Sample
        BY <2>1, <3>1, Elements, Zenon
      <4> QED
        BY <2>2, <4>1 DEF Sample
    <3> QED
      BY <3>1
  <2>4. entry = "event" /\ Len(evidence) = 1
    BY <2>3 DEF EvidenceInv
  <2>5. DOMAIN evidence = {1}
    BY <1>2, <2>4
  <2>6. i = 1 /\ usable = {1}
    BY <2>1, <2>5
  <2>7. evidence[1] \in Piece /\ evidence[1].numeric
    BY <1>2, <2>1, <2>6 DEF Usable
  <2>8. evidence[1].at <= evidence[1].at
    BY <2>7 DEF Piece, Fields
  <2>9. LatestForecast(evidence) = evidence[1]
    <3> DEFINE latest == {k \in usable : \A j \in usable : evidence[j].at <= evidence[k].at}
    <3>1. latest = {1}
      BY <2>6, <2>8
    <3>2. Min({1}) = 1
      BY DEF Min
    <3>3. LatestForecast(evidence) = evidence[Min(latest)]
      BY DEF LatestForecast
    <3> HIDE DEF latest
    <3> QED
      BY <3>1, <3>2, <3>3
  <2>10. evidence # <<>>
    BY <2>4
  <2>11. Predict(evidence) =
           Forecast("deepfield", evidence[1].value, 1, evidence[1].confidence, 0)
    BY <2>1, <2>9, <2>10, Zenon DEF Predict
  <2> QED
    BY <2>4, <2>7, <2>11
<1> QED
  BY <1>4, <1>5

(* Whatever comes in, the trajectory is one that the contract accepts.     *)
THEOREM TrajectoryAcceptedHolds == Spec => []TrajectoryAccepted
<1>1. EvidenceInv => TrajectoryAccepted
  <2> SUFFICES ASSUME EvidenceInv, Predicted
               PROVE  /\ trajectory.points > 0
                      /\ trajectory.confidence \in 0 .. 100
                      /\ trajectory.spread \in 0 .. 10
    BY DEF TrajectoryAccepted
  <2>1. trajectory = Predict(evidence)
    BY DEF EvidenceInv
  <2>2. HorizonSteps \in Nat \ {0}
    BY EvidenceAssumption
  <2>3. CASE Predict(evidence) = Flat(0, 0)
    <3>1. trajectory.points = HorizonSteps /\ trajectory.confidence = 0 /\ trajectory.spread = 0
      BY <2>1, <2>3 DEF Flat, Forecast
    <3> QED
      BY <2>2, <3>1
  <2>4. CASE /\ evidence[1] \in Piece
             /\ Predict(evidence) =
                  Forecast("deepfield", evidence[1].value, 1, evidence[1].confidence, 0)
    <3>1. /\ trajectory.points = 1 /\ trajectory.confidence = evidence[1].confidence
          /\ trajectory.spread = 0
      BY <2>1, <2>4 DEF Forecast
    <3>2. evidence[1].confidence \in 0 .. 100
      BY <2>4 DEF Piece, Fields
    <3> QED
      BY <3>1, <3>2
  <2>5. CASE Predict(evidence) = FromSamples(evidence)
    BY <2>1, <2>5, FromSamplesAccepted DEF EvidenceInv
  <2> QED
    BY <2>3, <2>4, <2>5, WaysOfPredict
<1> QED
  BY <1>1, EvidenceInvariant, PTL

(* A trajectory that a plan may rest on was forecast, or has five samples  *)
(* of the metric that was looked at.                                       *)
THEOREM ConfidenceEarnedHolds == Spec => []ConfidenceEarned
<1>1. EvidenceInv => ConfidenceEarned
  <2> SUFFICES ASSUME EvidenceInv, Predicted, trajectory.confidence >= 50
               PROVE  \/ trajectory.shape = "deepfield" /\ entry = "event" /\ evidence[1].numeric
                      \/ \E i \in DOMAIN evidence :
                           /\ SamplesLike(i) >= 5
                           /\ IF Len(Latencies) >= 3 THEN evidence[i].metric = "latency_ms"
                              ELSE \A j \in DOMAIN evidence : SamplesLike(j) <= SamplesLike(i)
    BY DEF ConfidenceEarned
  <2>1. trajectory = Predict(evidence)
    BY DEF EvidenceInv
  <2>2. Predict(evidence) # Flat(0, 0)
    BY <2>1 DEF Flat, Forecast
  <2>3. CASE /\ entry = "event" /\ evidence[1].numeric
             /\ Predict(evidence) =
                  Forecast("deepfield", evidence[1].value, 1, evidence[1].confidence, 0)
    <3>1. trajectory.shape = "deepfield"
      BY <2>1, <2>3 DEF Forecast
    <3> QED
      BY <2>3, <3>1
  <2>4. CASE Predict(evidence) = FromSamples(evidence)
    <3>1. evidence \in Seq(Piece)
      BY DEF EvidenceInv
    <3>2. PICK i \in DOMAIN evidence :
            /\ evidence[i].metric = PrimaryMetric(evidence)
            /\ Len(OfMetric(evidence, evidence[i].metric)) >= 5
      BY <2>1, <2>4, <3>1, FromSamplesAccepted
    <3>3. evidence # <<>>
      BY <3>2
    <3>4. IF Len(OfMetric(evidence, "latency_ms")) >= 3
            THEN PrimaryMetric(evidence) = "latency_ms"
            ELSE \A j \in DOMAIN evidence :
                   Len(OfMetric(evidence, evidence[j].metric))
                     <= Len(OfMetric(evidence, PrimaryMetric(evidence)))
      BY <3>1, <3>3, PrimaryIs
    <3> QED
      BY <3>2, <3>4 DEF SamplesLike, Latencies
  <2> QED
    BY <2>2, <2>3, <2>4, WaysOfPredict
<1> QED
  BY <1>1, EvidenceInvariant, PTL

-----------------------------------------------------------------------------
(* Spikes.                                                                 *)

(* One signal gives one sample of a metric at most.                        *)
LEMMA OneSample ==
  ASSUME NEW signals \in Seq(Piece), Len(signals) = 1, NEW metric
  PROVE  Len(OfMetric(signals, metric)) <= 1
<1> DEFINE f(i) == IF signals[i].metric = metric THEN <<signals[i]>> ELSE <<>>
           parts == [i \in DOMAIN signals |-> f(i)]
           g == CHOOSE h : IsFlattening(parts, 1, h)
<1>1. DOMAIN signals = {1} /\ DOMAIN signals = 1 .. 1
  OBVIOUS
<1>2. Len(f(1)) <= 1
  OBVIOUS
<1>3. parts \in [1 .. 1 -> {f(1)}]
  BY <1>1
<1>4. parts[1] = f(1)
  BY <1>1
<1> HIDE DEF f, parts
<1>5. Len(parts) = 1
  BY <1>3
<1>6. IsFlattening(parts, 1, g)
  BY FlatteningExists
<1>7. FlattenSeq(parts) = g[1]
  BY <1>5 DEF FlattenSeq, IsFlattening
<1> HIDE DEF g
<1>8. g[1] = parts[1]
  BY <1>6 DEF IsFlattening
<1> QED
  BY <1>2, <1>4, <1>7, <1>8 DEF OfMetric, parts, f

(* What the peak of a sequence of latencies is.                            *)
LEMMA PeakIs ==
  ASSUME NEW values \in Seq(Int), NEW i \in DOMAIN values,
         \A j \in DOMAIN values : values[j] <= values[i]
  PROVE  Peak(values) = values[i]
<1> DEFINE V == {values[j] : j \in DOMAIN values}
<1>1. values[i] \in V /\ \A v \in V : v <= values[i] /\ v \in Int
  OBVIOUS
<1>2. Max(V) = CHOOSE x \in V : \A y \in V : x >= y
  BY DEF Max
<1> HIDE DEF V
<1>3. Max(V) \in V /\ \A y \in V : Max(V) >= y
  <2>1. \E x \in V : \A y \in V : x >= y
    BY <1>1
  <2> QED
    BY <1>2, <2>1
<1>4. Max(V) = values[i]
  BY <1>1, <1>3
<1> QED
  BY <1>4 DEF Peak, V

(* A peak far above the others, which are not negative nor all zero, is a  *)
(* spike for every threshold up to four.                                   *)
LEMMA PeakIsSpike ==
  ASSUME NEW values \in Seq(Int), Len(values) >= 3, SpikeThreshold <= 4,
         NEW i \in DOMAIN values, values[i] > 5,
         \A j \in DOMAIN values \ {i} : 4 * values[j] < values[i] /\ values[j] >= 0,
         \E j \in DOMAIN values \ {i} : values[j] > 0
  PROVE  IsSpike(values, "latency_ms") /\ Peak(values) = values[i]
<1> DEFINE n == Len(values)
           peak == values[i]
           others == DOMAIN values \ {i}
           low == {j \in DOMAIN values : 4 * values[j] < peak}
           below == {j \in DOMAIN values : values[j] < peak}
           total == Total(values, others)
<1>1. n \in Nat /\ DOMAIN values = 1 .. n /\ \A j \in DOMAIN values : values[j] \in Int
  OBVIOUS
<1>2. peak \in Int /\ peak > 5
  OBVIOUS
<1>3. \A j \in others : values[j] \in Nat /\ 4 * values[j] < peak /\ values[j] < peak
  OBVIOUS
<1>4. \A j \in DOMAIN values : values[j] <= peak
  BY <1>1, <1>3
<1>5. Peak(values) = peak
  BY <1>4, PeakIs
<1>6. low = others /\ below = others
  BY <1>1, <1>2, <1>3
<1>7. IsFiniteSet(others) /\ Cardinality(others) = n - 1
  <2>1. IsFiniteSet(1 .. n) /\ Cardinality(1 .. n) = n
    <3>1. n \in Int /\ 1 \in Int /\ ~(1 > n)
      BY <1>1
    <3> HIDE DEF n
    <3>2. IsFiniteSet(1 .. n) /\ Cardinality(1 .. n) = n - 1 + 1
      BY <3>1, FS_Interval
    <3> QED
      BY <3>1, <3>2
  <2> QED
    BY <1>1, <2>1, SmallerSubset
<1> HIDE DEF n, peak, others
<1>8. total \in Nat /\ total > 0 /\ 4 * total < peak * Cardinality(others)
  <2>1. PICK j \in others : values[j] > 0
    BY DEF others
  <2>2. /\ total \in Nat /\ \A k \in others : values[k] <= total
        /\ 4 * total < peak * Cardinality(others)
    BY <1>2, <1>3, <1>7, <2>1, TotalBelow
  <2>3. values[j] <= total /\ values[j] \in Nat
    BY <1>3, <2>2
  <2> HIDE DEF total
  <2> QED
    BY <2>1, <2>2, <2>3
<1>9. SpikeFloor("latency_ms") = 5
  BY DEF SpikeFloor
<1>10. n >= 3
  BY DEF n
<1>11. 10 * Cardinality(low) >= 3 * n
  <2>1. 10 * (n - 1) >= 3 * n
    BY <1>1, <1>10
  <2> QED
    BY <1>6, <1>7, <2>1
<1>12. total * SpikeThreshold <= 4 * total
  <2>1. SpikeThreshold \in Nat
    BY EvidenceAssumption
  <2> HIDE DEF total
  <2>2. total * SpikeThreshold <= total * 4
    BY <1>8, <2>1, ScaleUp
  <2> QED
    BY <1>8, <2>2
<1>13. peak * Cardinality(others) > total * SpikeThreshold
  <2> DEFINE far == peak * Cardinality(others)  near == total * SpikeThreshold
  <2>1. far \in Int
    BY <1>1, <1>2, <1>7
  <2>2. near \in Int /\ total \in Int
    <3> HIDE DEF total
    <3> QED
      BY <1>8, EvidenceAssumption
  <2>3. near <= 4 * total /\ 4 * total < far
    BY <1>8, <1>12
  <2> HIDE DEF far, near, total
  <2>4. near < far
    BY <2>1, <2>2, <2>3
  <2> QED
    BY <2>1, <2>2, <2>4 DEF far, near
<1>14. others # {}
  BY DEF others
<1> HIDE DEF total
<1>15. IsSpike(values, "latency_ms")
  BY <1>2, <1>5, <1>6, <1>8, <1>9, <1>11, <1>13, <1>14 DEF IsSpike, n, total
<1> QED
  BY <1>5, <1>15 DEF peak

(* One latency far above the others is foreseen as a spike of its height.  *)
THEOREM SpikeForeseenHolds == Spec => []SpikeForeseen
<1>1. EvidenceInv => SpikeForeseen
  <2> SUFFICES ASSUME EvidenceInv, Predicted, SpikeThreshold <= 4, Len(Latencies) >= 3,
                      NEW i \in DOMAIN Latencies, Latencies[i].value > 5,
                      \A j \in DOMAIN Latencies \ {i} :
                        4 * Latencies[j].value < Latencies[i].value /\ Latencies[j].value >= 0,
                      \E j \in DOMAIN Latencies \ {i} : Latencies[j].value > 0
               PROVE  trajectory.shape = "spike" /\ trajectory.first = Latencies[i].value
    BY DEF SpikeForeseen
  <2> DEFINE samples == OfMetric(evidence, "latency_ms")
             values == [k \in DOMAIN samples |-> samples[k].value]
  <2>1. evidence \in Seq(Piece) /\ trajectory = Predict(evidence)
    BY DEF EvidenceInv
  <2>2. samples \in Seq(Piece) /\ Latencies = samples
    BY <2>1, SamplesOfMetric DEF Latencies
  <2>3. Len(samples) >= 3
    BY <2>2
  <2>4. PrimaryMetric(evidence) = "latency_ms"
    BY <2>3 DEF PrimaryMetric
  <2>5. evidence # <<>> /\ Len(evidence) # 1
    <3>1. PICK k \in DOMAIN evidence : evidence[k].metric = "latency_ms"
      BY <2>1, <2>3, SampleWitness
    <3>2. evidence # <<>>
      BY <3>1
    <3>3. Len(evidence) = 1 => Len(samples) <= 1
      BY <2>1, OneSample
    <3>4. Len(samples) \in Nat
      BY <2>2, ValuesOfSamples
    <3> HIDE DEF samples
    <3> QED
      BY <2>3, <3>2, <3>3, <3>4
  <2>6. trajectory = FromSamples(evidence)
    BY <2>1, <2>5, WaysOfPredict
  <2> HIDE DEF samples
  <2>7. /\ values \in Seq(Int) /\ Len(values) = Len(samples) /\ Len(values) \in Nat
        /\ DOMAIN values = DOMAIN samples
        /\ \A k \in DOMAIN samples : values[k] = samples[k].value
    BY <2>2, ValuesOfSamples
  <2>8. FromSamples(evidence) =
          IF Len(values) < 3 THEN Flat(values[Len(values)], 10)
          ELSE IF IsSpike(values, "latency_ms") THEN Spike(values) ELSE Regression(values)
    BY <2>4 DEF FromSamples, samples
  <2> HIDE DEF values
  <2>9. Len(values) >= 3 /\ i \in DOMAIN values /\ values[i] = Latencies[i].value
    BY <2>2, <2>3, <2>7
  <2>10. /\ values[i] > 5
         /\ \A j \in DOMAIN values \ {i} : 4 * values[j] < values[i] /\ values[j] >= 0
         /\ \E j \in DOMAIN values \ {i} : values[j] > 0
    BY <2>2, <2>7, <2>9
  <2>11. IsSpike(values, "latency_ms") /\ Peak(values) = values[i]
    BY <2>7, <2>9, <2>10, PeakIsSpike
  <2>12. trajectory = Spike(values)
    BY <2>6, <2>7, <2>8, <2>9, <2>11
  <2> QED
    BY <2>9, <2>11, <2>12 DEF Spike, Forecast
<1> QED
  BY <1>1, EvidenceInvariant, PTL
=============================================================================

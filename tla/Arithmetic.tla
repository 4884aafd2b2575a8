------------------------------ MODULE Arithmetic ------------------------------
(* Lemmas about integers that the proofs of several modules rest on.       *)
EXTENDS Integers, WellFoundedInduction, TLAPS

NatLess == {ss \in Nat \X Nat : ss[1] < ss[2]}

(* A nonempty set of naturals has a least element. *)
LEMMA LeastNatural ==
  ASSUME NEW T \in SUBSET Nat, T # {}
  PROVE  \E x \in T : \A y \in T : x <= y
<1>1. IsWellFoundedOn(NatLess, Nat)
  BY NatLessThanWellFounded DEF OpToRel, NatLess
<1>2. PICK x \in T : \A y \in T : <<y, x>> \notin NatLess
  BY <1>1, WFMin
<1>3. ASSUME NEW y \in T  PROVE x <= y
  <2>1. x \in Nat /\ y \in Nat
    OBVIOUS
  <2>2. <<y, x>> \notin {ss \in Nat \X Nat : ss[1] < ss[2]}
    BY <1>2 DEF NatLess
  <2>3. ~(y < x)
    BY <2>1, <2>2
  <2> QED
    BY <2>1, <2>3
<1> QED
  BY <1>3

(* So has a nonempty set of integers that are bounded below.               *)
LEMMA LeastInteger ==
  ASSUME NEW T \in SUBSET Int, T # {},
         NEW low \in Int, \A x \in T : low <= x
  PROVE  \E x \in T : \A y \in T : x <= y
<1> DEFINE shifted == {x - low : x \in T}
<1>1. shifted \in SUBSET Nat /\ shifted # {}
  <2>1. ASSUME NEW x \in T  PROVE x - low \in Nat
    OBVIOUS
  <2> QED
    BY <2>1
<1>2. PICK n \in shifted : \A m \in shifted : n <= m
  BY <1>1, LeastNatural
<1>3. PICK x \in T : n = x - low
  BY <1>2
<1>4. ASSUME NEW y \in T  PROVE x <= y
  <2>1. n <= y - low
    BY <1>2
  <2> QED
    BY <1>3, <2>1
<1> QED
  BY <1>4

(* Integer division rounds down.                                           *)
LEMMA DivBounds ==
  ASSUME NEW a \in Int, NEW b \in Nat \ {0}
  PROVE  /\ a \div b \in Int
         /\ (a \div b) * b <= a
         /\ a < ((a \div b) + 1) * b
OBVIOUS

(* A positive factor may be cancelled.                                     *)
LEMMA CancelFactor ==
  ASSUME NEW a \in Int, NEW b \in Int, NEW u \in Nat \ {0}, a * u < b * u
  PROVE  a < b
OBVIOUS

(* A factor that is not negative keeps the order.                          *)
LEMMA ScaleUp ==
  ASSUME NEW a \in Int, NEW b \in Int, NEW u \in Nat, a <= b
  PROVE  u * a <= u * b
OBVIOUS

=============================================================================

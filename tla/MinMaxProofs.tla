----------------------------- MODULE MinMaxProofs -----------------------------
(***************************************************************************)
(* Min and Max of FiniteSetsExt, which choose the first comma of a text    *)
(* (StrSplit) and the oldest open message of a queue (MessageQueue).       *)
(***************************************************************************)
EXTENDS Integers, FiniteSetsExt, FiniteSetTheorems, WellFoundedInduction, TLAPS

\* A nonempty set of positions has a minimum, for of the finite sets
\* {y \in 0..n : y <= x} with x in S one has no smaller one below it.
LEMMA Minimum ==
  ASSUME NEW n \in Nat, NEW S, S \subseteq 0..n, S # {}
  PROVE  Min(S) \in S /\ \A y \in S : Min(S) <= y
<1>. DEFINE UpTo(x) == {y \in 0..n : y <= x}
            T == {UpTo(x) : x \in S}
<1>1. FiniteSubsetsOf(0..n) = SUBSET (0..n)
  <2>. IsFiniteSet(0..n)
    BY FS_Interval
  <2>. QED
    BY FS_FiniteSubsetsOfFinite
<1>2. T \subseteq SUBSET (0..n) /\ T # {}
  OBVIOUS
<1>3. IsWellFoundedOn(StrictSubsetOrdering(0..n), SUBSET (0..n))
  BY <1>1, FS_StrictSubsetOrderingWellFounded
<1>4. \E A \in T : \A B \in T : ~(<<B, A>> \in StrictSubsetOrdering(0..n))
  <2>. HIDE DEF T
  <2>. QED BY <1>2, <1>3, WFMin
<1>5. PICK x \in S : \A y \in S : ~(<<UpTo(y), UpTo(x)>> \in StrictSubsetOrdering(0..n))
  BY <1>4
<1>6. \A y \in S : x <= y
  <2>1. SUFFICES ASSUME NEW y \in S, y < x PROVE FALSE
    OBVIOUS
  <2>2. UpTo(y) \subseteq UpTo(x) /\ x \in UpTo(x) /\ x \notin UpTo(y)
    BY <2>1
  <2>3. <<UpTo(y), UpTo(x)>> \in StrictSubsetOrdering(0..n)
    BY <2>2 DEF StrictSubsetOrdering
  <2>. QED
    BY <2>3, <1>5
<1>. QED
  BY <1>6 DEF Min

\* What holds of 0 and goes on from each k to k + 1 holds up to n: else there would
\* be a first exception.
LEMMA InductionUpTo ==
  ASSUME NEW n \in Nat, NEW T, 0 \in T, \A k \in 0..(n - 1) : k \in T => k + 1 \in T
  PROVE  0..n \subseteq T
<1>. DEFINE bad == {k \in 0..n : k \notin T}
<1>1. SUFFICES ASSUME bad # {} PROVE FALSE
  OBVIOUS
<1>2. Min(bad) \in bad /\ \A y \in bad : Min(bad) <= y
  <2>. bad \subseteq 0..n
    OBVIOUS
  <2>. HIDE DEF bad
  <2>. QED BY <1>1, Minimum
<1>3. PICK m \in bad : \A y \in bad : m <= y
  BY <1>2
<1>4. m \in 0..n /\ m \notin T /\ m # 0
  OBVIOUS
<1>5. m - 1 \in 0..(n - 1) /\ m - 1 \notin bad
  BY <1>3, <1>4
<1> QED BY <1>4, <1>5

\* The smaller one of two numbers.
LEMMA MinimumOfTwo ==
  ASSUME NEW a \in Nat, NEW b \in Nat
  PROVE  Min({a, b}) = IF a <= b THEN a ELSE b
<1>1. {a, b} \subseteq 0..(a + b) /\ {a, b} # {}
  OBVIOUS
<1>2. Min({a, b}) \in {a, b} /\ \A y \in {a, b} : Min({a, b}) <= y
  <2>. DEFINE S == {a, b}
  <2>1. Min(S) \in S /\ \A y \in S : Min(S) <= y
    <3>. HIDE DEF S
    <3>. QED BY <1>1, Minimum DEF S
  <2>. QED BY <2>1
<1> QED BY <1>2

\* And a maximum: the mirror image of a minimum.
LEMMA Maximum ==
  ASSUME NEW n \in Nat, NEW S, S \subseteq 0..n, S # {}
  PROVE  Max(S) \in S /\ \A y \in S : y <= Max(S)
<1>. DEFINE Back == {n - x : x \in S}
<1>1. Back \subseteq 0..n /\ Back # {}
  <2>1. \A x \in S : n - x \in 0..n
    OBVIOUS
  <2>. QED BY <2>1
<1>2. Min(Back) \in Back /\ \A y \in Back : Min(Back) <= y
  <2>. HIDE DEF Back
  <2>. QED BY <1>1, Minimum
<1>3. PICK x \in S : Min(Back) = n - x
  BY <1>2
<1>4. \A y \in S : x >= y
  BY <1>2, <1>3
<1>5. Max(S) \in S /\ \A y \in S : Max(S) >= y
  BY <1>3, <1>4 DEF Max
<1>. QED
  BY <1>5

=============================================================================

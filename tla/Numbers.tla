------------------------------ MODULE Numbers ------------------------------
(***************************************************************************)
(* Sets of numbers have a least and, if they are bounded, a greatest       *)
(* element: what the proofs use where they would use induction.            *)
(***************************************************************************)
EXTENDS Integers, FiniteSetsExt, TLAPS, WellFoundedInduction

\* A set of numbers that is not empty has a least one.
LEMMA LeastNumber ==
    ASSUME NEW T, T \subseteq Nat, T # {}
    PROVE  \E x \in T : \A y \in T : x <= y
<1>. DEFINE R == OpToRel(<, Nat)
<1>1. \A x, y \in Nat : <<x, y>> \in R <=> x < y
  BY DEF OpToRel
<1>2. PICK x \in T : \A y \in T : ~ (<<y, x>> \in R)
  BY NatLessThanWellFounded, WFMin
<1>. HIDE DEF R
<1>3. ASSUME NEW y \in T PROVE x <= y
  <2>1. x \in Nat /\ y \in Nat /\ ~ (<<y, x>> \in R)
    BY <1>2
  <2>2. ~ (y < x)
    BY <1>1, <2>1
  <2>. QED
    BY <2>1, <2>2
<1>. QED
  BY <1>3

\* One that is bounded has a greatest one: the least of its bounds.
LEMMA GreatestNumber ==
    ASSUME NEW T, T \subseteq Nat, T # {}, NEW b \in Nat, \A y \in T : y <= b
    PROVE  \E x \in T : \A y \in T : y <= x
<1>. DEFINE U == {n \in Nat : \A y \in T : y <= n}
<1>1. U \subseteq Nat /\ U # {}
  OBVIOUS
<1>2. PICK x \in U : \A n \in U : x <= n
  BY <1>1, LeastNumber
<1>3. x \in Nat /\ \A y \in T : y <= x
  BY <1>2
<1>4. x \in T
  <2>1. SUFFICES ASSUME x \notin T PROVE FALSE
    OBVIOUS
  <2>2. \A y \in T : y \in Nat /\ y < x
    BY <1>3, <2>1
  <2>3. x - 1 \in Nat /\ \A y \in T : y <= x - 1
    <3>1. PICK y \in T : y \in Nat /\ y < x
      BY <2>2
    <3>2. x - 1 \in Nat
      BY <1>3, <3>1
    <3>3. ASSUME NEW z \in T PROVE z <= x - 1
      BY <1>3, <2>2
    <3>. QED
      BY <3>2, <3>3
  <2>4. x - 1 \in U
    BY <2>3
  <2>. QED
    BY <1>2, <1>3, <2>4
<1>. QED
  BY <1>3, <1>4

\* Min and Max of the community modules are these elements.
LEMMA MinIsLeast ==
    ASSUME NEW T, T \subseteq Nat, T # {}
    PROVE  Min(T) \in T /\ \A y \in T : Min(T) <= y
  BY LeastNumber DEF Min

LEMMA MaxIsGreatest ==
    ASSUME NEW T, T \subseteq Nat, T # {}, NEW b \in Nat, \A y \in T : y <= b
    PROVE  Max(T) \in T /\ \A y \in T : y <= Max(T)
<1>1. PICK x \in T : \A y \in T : y <= x
  BY GreatestNumber
<1>2. \A y \in T : x >= y
  BY <1>1
<1>3. Max(T) \in T /\ \A y \in T : Max(T) >= y
  BY <1>2 DEF Max
<1>. QED
  BY <1>3

\* Min of two numbers.
LEMMA MinOfTwo ==
    ASSUME NEW i \in Nat, NEW j \in Nat
    PROVE  Min({i, j}) = IF i <= j THEN i ELSE j
<1>1. Min({i, j}) \in {i, j} /\ Min({i, j}) <= i /\ Min({i, j}) <= j
  BY MinIsLeast
<1>. QED
  BY <1>1
=============================================================================

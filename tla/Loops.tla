------------------------------- MODULE Loops --------------------------------
(***************************************************************************)
(* Loops written as recursive functions.  A loop of n rounds over a state  *)
(* is the function AT of the round, AT[0] the state before it,             *)
(* AT[k] = step[<<AT[k - 1], k>>].                                         *)
(***************************************************************************)
EXTENDS Naturals, WellFoundedInduction, NaturalsInduction, TLAPS

\* A non-empty set of numbers has a least one.
LEMMA LeastOf ==
  ASSUME NEW T \in SUBSET Nat, T # {}
  PROVE  \E k \in T : \A j \in T : k <= j
<1> DEFINE Less == {p \in Nat \X Nat : p[1] < p[2]}
<1>1. IsWellFoundedOn(Less, Nat)
  BY NatLessThanWellFounded, Zenon DEF OpToRel
<1>2. PICK k \in T : \A j \in T : ~(<<j, k>> \in Less)
  BY <1>1, WFMin
<1>3. \A j \in T : k <= j
  <2> SUFFICES ASSUME NEW j \in T PROVE k <= j
    OBVIOUS
  <2>1. ~(<<j, k>> \in Less)
    BY <1>2
  <2> QED BY <2>1
<1> QED BY <1>3

\* What holds before the loop, and after each round where it held before, holds
\* after every round: T has the rounds it holds after.
LEMMA EveryRound ==
  ASSUME NEW n \in Nat, NEW T, 0 \in T, \A k \in 1..n : k - 1 \in T => k \in T
  PROVE  0..n \subseteq T
<1> DEFINE U == {k \in 0..n : k \notin T}
<1>1. SUFFICES ASSUME U # {} PROVE FALSE
  OBVIOUS
<1>2. PICK k \in U : \A j \in U : k <= j
  <2> HIDE DEF U
  <2>1. U \in SUBSET Nat
    BY DEF U
  <2> QED BY <1>1, <2>1, LeastOf
<1>3. k \in 1..n /\ k - 1 \in 0..n
  BY <1>2
<1>4. k - 1 \in T
  BY <1>2, <1>3
<1> QED BY <1>2, <1>3, <1>4

\* AT is the loop of n rounds.
Rounds(at, n, base, step) ==
  at[0] = base /\ \A k \in 1..n : at[k] = step[<<at[k - 1], k>>]

\* There is such a function: the loop runs to its end.
LEMMA LoopRuns ==
  ASSUME NEW n \in Nat, NEW S, NEW base \in S, NEW step,
         \A x \in S, k \in 1..n : step[<<x, k>>] \in S
  PROVE  \E at \in [0..n -> S] : Rounds(at, n, base, step)
<1> DEFINE T == {m \in 0..n : \E at \in [0..m -> S] : Rounds(at, m, base, step)}
<1>1. 0 \in T
  <2> DEFINE at == [k \in 0..0 |-> base]
  <2>1. at \in [0..0 -> S]
    OBVIOUS
  <2>2. Rounds(at, 0, base, step)
    BY DEF Rounds
  <2>3. 0 \in 0..n
    OBVIOUS
  <2> QED BY <2>1, <2>2, <2>3
<1>2. ASSUME NEW m \in 1..n, m - 1 \in T PROVE m \in T
  <2>1. PICK at \in [0..(m - 1) -> S] : Rounds(at, m - 1, base, step)
    BY <1>2
  <2> DEFINE new == [k \in 0..m |-> IF k = m THEN step[<<at[m - 1], m>>] ELSE at[k]]
  <2>2. new \in [0..m -> S]
    BY <2>1
  <2>3. new[0] = base /\ new[m] = step[<<new[m - 1], m>>]
    <3>1. m # 0 /\ 0 \in 0..m /\ m \in 0..m /\ m - 1 \in 0..m /\ m - 1 # m
      OBVIOUS
    <3>2. new[0] = at[0] /\ new[m] = step[<<at[m - 1], m>>] /\ new[m - 1] = at[m - 1]
      BY <3>1
    <3> HIDE DEF new
    <3> QED BY <2>1, <3>2 DEF Rounds
  <2>4. ASSUME NEW k \in 1..m, k # m PROVE new[k] = step[<<new[k - 1], k>>]
    <3>1. k \in 1..(m - 1) /\ k \in 0..m /\ k - 1 \in 0..m /\ k - 1 # m
      BY <2>4
    <3>2. new[k] = at[k] /\ new[k - 1] = at[k - 1]
      BY <2>4, <3>1
    <3> HIDE DEF new
    <3> QED BY <2>1, <3>1, <3>2 DEF Rounds
  <2> HIDE DEF new
  <2>5. Rounds(new, m, base, step)
    BY <2>3, <2>4 DEF Rounds
  <2>6. m \in 0..n
    OBVIOUS
  <2> QED BY <2>2, <2>5, <2>6
<1>3. 0..n \subseteq T
  <2> HIDE DEF T
  <2> QED BY <1>1, <1>2, EveryRound
<1>4. n \in T
  <2> HIDE DEF T
  <2> QED BY <1>3
<1> QED BY <1>4

=============================================================================

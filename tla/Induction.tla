------------------------------ MODULE Induction ------------------------------
(***************************************************************************)
(* Induction over an interval of numbers, for the members of a set: the    *)
(* first-order forms the proofs about recursive functions need.  They rest *)
(* on the order of the naturals being well-founded.                        *)
(***************************************************************************)
EXTENDS Integers, WellFoundedInduction, TLAPS

\* Every nonempty set of naturals has a least member.
LEMMA LeastNatural ==
  ASSUME NEW T \in SUBSET Nat, T # {}
  PROVE  \E n \in T : \A m \in T : n <= m
<1>1. PICK n \in T : \A m \in T : ~(<<m, n>> \in OpToRel(<, Nat))
  BY NatLessThanWellFounded, WFMin
<1>2. \A m \in T : ~(m < n)
  BY <1>1 DEF OpToRel
<1>3. QED
  BY <1>2

\* What holds of 0, and of each number up to N that follows one it holds of,
\* holds of all numbers up to N.
LEMMA SetInduction ==
  ASSUME NEW N \in Nat, NEW T, 0 \in T,
         \A n \in 1..N : n - 1 \in T => n \in T
  PROVE  0..N \subseteq T
<1> DEFINE bad == {n \in 0..N : n \notin T}
<1>1. SUFFICES ASSUME bad # {} PROVE FALSE
  OBVIOUS
<1>2. PICK n \in bad : \A m \in bad : n <= m
  <2>1. bad \in SUBSET Nat
    OBVIOUS
  <2>2. QED
    <3> HIDE DEF bad
    <3> QED BY <1>1, <2>1, LeastNatural
<1>3. n \in 1..N /\ n - 1 \in 0..N /\ n - 1 \notin bad
  BY <1>2
<1>4. QED
  BY <1>2, <1>3

\* A nonempty finite interval's subset has a greatest member.
LEMMA GreatestNatural ==
  ASSUME NEW N \in Nat, NEW T \in SUBSET (0..N), T # {}
  PROVE  \E n \in T : \A m \in T : m <= n
<1> DEFINE mirror == {k \in 0..N : N - k \in T}
<1>1. mirror \in SUBSET Nat /\ mirror # {}
  <2>1. PICK n \in T : TRUE
    OBVIOUS
  <2>2. n \in 0..N /\ N - n \in 0..N /\ N - (N - n) = n
    OBVIOUS
  <2>3. N - n \in mirror
    BY <2>2
  <2>4. mirror \in SUBSET Nat
    OBVIOUS
  <2>5. QED
    BY <2>3, <2>4
<1>2. PICK k \in mirror : \A j \in mirror : k <= j
  <2> HIDE DEF mirror
  <2> QED BY <1>1, LeastNatural
<1>3. \A m \in T : N - m \in mirror
  OBVIOUS
<1>4. \A m \in T : m \in 0..N
  OBVIOUS
<1>5. N - k \in T /\ k \in 0..N
  BY <1>2
<1>6. \A m \in T : m <= N - k
  <2> HIDE DEF mirror
  <2> QED BY <1>2, <1>3, <1>4, <1>5
<1>7. QED
  BY <1>5, <1>6

-----------------------------------------------------------------------------
(***************************************************************************)
(* Primitive recursion.  f iterates a step for each number, from x.        *)
(***************************************************************************)
Steps(N, X) == [1..N -> [X -> X]]

Iterates(f, N, X, x, step) ==
    /\ f \in [0..N -> X]
    /\ f[0] = x
    /\ \A n \in 1..N : f[n] = step[n][f[n - 1]]

\* There is such a function.
LEMMA Recursion ==
  ASSUME NEW N \in Nat, NEW X, NEW x \in X, NEW step \in Steps(N, X)
  PROVE  \E f : Iterates(f, N, X, x, step)
<1> USE DEF Steps, Iterates
<1> DEFINE Upto(k) == {f \in [0..k -> X] :
                         f[0] = x /\ \A n \in 1..k : f[n] = step[n][f[n - 1]]}
           good == {k \in 0..N : Upto(k) # {}}
<1>1. 0 \in good
  <2>1. [n \in 0..0 |-> x] \in Upto(0)
    OBVIOUS
  <2>2. QED
    BY <2>1
<1>2. ASSUME NEW k \in 1..N, k - 1 \in good PROVE k \in good
  <2>1. PICK f \in [0..(k - 1) -> X] :
               f[0] = x /\ \A n \in 1..(k - 1) : f[n] = step[n][f[n - 1]]
    BY <1>2
  <2>2. PICK g : g = [n \in 0..k |-> IF n = k THEN step[k][f[k - 1]] ELSE f[n]]
    OBVIOUS
  <2>3. step[k] \in [X -> X] /\ f[k - 1] \in X
    BY <2>1
  <2>4. g \in [0..k -> X] /\ g[0] = x
    BY <2>1, <2>2, <2>3
  <2>5. ASSUME NEW n \in 1..k PROVE g[n] = step[n][g[n - 1]]
    <3>1. n - 1 \in 0..k /\ n - 1 # k /\ n \in 0..k
      OBVIOUS
    <3>2. g[n - 1] = f[n - 1]
      BY <2>2, <3>1
    <3>3. CASE n = k
      BY <2>2, <3>1, <3>2, <3>3
    <3>4. CASE n # k
      <4>1. n \in 1..(k - 1)
        BY <3>4
      <4>2. g[n] = f[n]
        BY <2>2, <3>1, <3>4
      <4>3. QED
        BY <2>1, <3>2, <4>1, <4>2
    <3>5. QED
      BY <3>3, <3>4
  <2>6. g \in Upto(k)
    BY <2>4, <2>5
  <2>7. k \in 0..N /\ Upto(k) # {}
    BY <2>6
  <2>8. QED
    BY <2>7
<1>3. N \in good
  <2> HIDE DEF good
  <2>1. 0..N \subseteq good
    BY <1>1, <1>2, SetInduction
  <2>2. QED
    BY <2>1
<1>4. QED
  BY <1>3
=============================================================================

------------------------------ MODULE SetInduction ------------------------------
(***************************************************************************)
(* Induction and recursion over the naturals.  They are stated for sets    *)
(* and functions, because that is what the provers can instantiate.        *)
(***************************************************************************)
EXTENDS Naturals, WellFoundedInduction, TLAPS

\* A set of naturals that holds 0 and n + 1 with every n holds them all.
LEMMA Induction ==
  ASSUME NEW T \in SUBSET Nat, 0 \in T, \A n \in T : n + 1 \in T
  PROVE  T = Nat
<1> SUFFICES ASSUME Nat \ T # {} PROVE FALSE OBVIOUS
<1> DEFINE R == OpToRel(<, Nat)
<1>1. PICK x \in Nat \ T : \A y \in Nat \ T : ~(<<y, x>> \in R)
  <2>1. IsWellFoundedOn(R, Nat) BY NatLessThanWellFounded
  <2> HIDE DEF R
  <2>2. Nat \ T \subseteq Nat OBVIOUS
  <2>3. QED BY <2>1, <2>2, WFMin
<1>2. x # 0 OBVIOUS
<1>3. x - 1 \in Nat /\ (x - 1) + 1 = x BY <1>2
<1>4. <<x - 1, x>> \in R BY <1>3 DEF OpToRel
<1>5. x - 1 \in T BY <1>1, <1>3, <1>4
<1>6. QED BY <1>3, <1>5

\* A set of naturals has a least member.
LEMMA Least ==
  ASSUME NEW T \in SUBSET Nat, T # {}
  PROVE  \E m \in T : \A n \in T : m <= n
<1> DEFINE R == OpToRel(<, Nat)
<1>1. PICK m \in T : \A n \in T : ~(<<n, m>> \in R)
  <2>1. IsWellFoundedOn(R, Nat) BY NatLessThanWellFounded
  <2> HIDE DEF R
  <2>2. QED BY <2>1, WFMin
<1>2. ASSUME NEW n \in T PROVE m <= n
  <2>1. ~(<<n, m>> \in R) BY <1>1
  <2>2. n \in Nat /\ m \in Nat OBVIOUS
  <2>3. ~(n < m) BY <2>1, <2>2 DEF OpToRel
  <2>4. QED BY <2>2, <2>3
<1>3. QED BY <1>1, <1>2

\* f is the sequence of values that step makes from base, up to N.
Unfolds(f, N, S, base, step) ==
  /\ f \in [0..N -> S] /\ f[0] = base
  /\ \A n \in 1..N : f[n] = step[n][f[n - 1]]

\* A step function determines a sequence of values.
LEMMA Recursion ==
  ASSUME NEW N \in Nat, NEW S, NEW base \in S, NEW step \in [Nat -> [S -> S]]
  PROVE  \E f : Unfolds(f, N, S, base, step)
<1> DEFINE Upto(m, f) == f[0] = base /\ \A n \in 1..m : f[n] = step[n][f[n - 1]]
           T == {m \in Nat : \E f \in [0..m -> S] : Upto(m, f)}
<1>1. 0 \in T
  <2> DEFINE f == [n \in 0..0 |-> base]
  <2>1. f \in [0..0 -> S] /\ Upto(0, f) OBVIOUS
  <2>2. QED BY <2>1
<1>2. ASSUME NEW m \in T PROVE m + 1 \in T
  <2>1. PICK f \in [0..m -> S] : Upto(m, f) OBVIOUS
  <2> DEFINE g == [n \in 0..m + 1 |-> IF n <= m THEN f[n] ELSE step[m + 1][f[m]]]
  <2>2. m \in Nat /\ m + 1 \in Nat /\ m \in 0..m OBVIOUS
  <2>3. f[m] \in S BY <2>2
  <2>4. step[m + 1][f[m]] \in S BY <2>2, <2>3
  <2>5. g \in [0..m + 1 -> S] BY <2>2, <2>4
  <2>6. ASSUME NEW n \in 1..m + 1 PROVE g[n] = step[n][g[n - 1]]
    <3>1. n \in 0..m + 1 /\ n - 1 \in 0..m + 1 /\ n - 1 <= m BY <2>2
    <3>2. g[n - 1] = f[n - 1] BY <3>1
    <3>3. CASE n <= m
      <4>1. n \in 1..m BY <2>2, <3>3
      <4>2. QED BY <2>1, <3>1, <3>2, <3>3, <4>1
    <3>4. CASE ~(n <= m)
      <4>1. n = m + 1 /\ n - 1 = m BY <2>2, <3>4
      <4>2. QED BY <3>1, <3>2, <3>4, <4>1
    <3>5. QED BY <3>3, <3>4
  <2>7. g[0] = base BY <2>1, <2>2
  <2>8. QED BY <2>2, <2>5, <2>6, <2>7
<1>3. T = Nat
  <2>1. T \subseteq Nat OBVIOUS
  <2> HIDE DEF T
  <2>2. QED BY <1>1, <1>2, <2>1, Induction
<1>4. N \in T BY <1>3
<1>5. QED BY <1>4 DEF Unfolds

===============================================================================

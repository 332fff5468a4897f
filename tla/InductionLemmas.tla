-------------------------- MODULE InductionLemmas --------------------------
(***************************************************************************)
(* Induction along a loop.  A loop of the program is a recursive function  *)
(* of the number of rounds it has run; these lemmas, which rest on the     *)
(* naturals being well-founded, give the values of such a function and     *)
(* what stays true of them from round to round.                            *)
(***************************************************************************)
EXTENDS Sequences, FiniteSetsExt, WellFoundedInduction, NaturalsInduction, TLAPS

(* A set of naturals that is not empty has a least element.                *)
LEMMA LeastNatural ==
  ASSUME NEW T, T \subseteq Nat, T # {}
  PROVE  \E n \in T : \A m \in T : n <= m
<1> DEFINE R == OpToRel(<, Nat)
<1>1. IsWellFoundedOn(R, Nat)
  BY Zenon, NatLessThanWellFounded
<1>2. \A y, x \in Nat : y < x => <<y, x>> \in R
  BY Zenon DEF OpToRel
<1> HIDE DEF R
<1>3. PICK x \in T : \A y \in T : ~(<<y, x>> \in R)
  BY Zenon, <1>1, WFMin
<1>4. ASSUME NEW y \in T PROVE x <= y
  <2>1. ~(y < x) BY Zenon, <1>2, <1>3
  <2> QED BY <2>1
<1> QED BY Zenon, <1>4

(* Induction over the naturals, on a set rather than on a predicate.       *)
LEMMA NatSetInduction ==
  ASSUME NEW T, 0 \in T, \A n \in Nat : n \in T => n + 1 \in T
  PROVE  Nat \subseteq T
<1> SUFFICES ASSUME NEW k \in Nat, k \notin T PROVE FALSE
  OBVIOUS
<1> DEFINE U == {n \in Nat : n \notin T}
<1>1. PICK n \in U : \A m \in U : n <= m
  <2>1. U \subseteq Nat /\ U # {} OBVIOUS
  <2> HIDE DEF U
  <2> QED BY Zenon, <2>1, LeastNatural
<1>2. n # 0 BY Zenon, <1>1
<1>3. n - 1 \in Nat /\ n - 1 \in T BY <1>1, <1>2
<1> QED BY <1>1, <1>3

Iterates(f, b, N, step) == f[0] = b /\ \A i \in 1..N : f[i] = step[<<i, f[i-1]>>]

(* A loop over 1..N, of a step that keeps to a set, runs to its end: there *)
(* is a function of the values after each round.                           *)
LEMMA RecursionExists ==
  ASSUME NEW V, NEW b \in V, NEW N \in Nat, NEW step \in [(1..N) \X V -> V]
  PROVE  \E f \in [0..N -> V] : Iterates(f, b, N, step)
<1> DEFINE G(f, n) == f[0] = b /\ \A i \in 1..n : f[i] = step[<<i, f[i-1]>>]
           E(n) == \E f \in [0..n -> V] : G(f, n)
           T == {n \in Nat : n <= N => E(n)}
<1>1. E(0)
  <2> DEFINE f == [i \in 0..0 |-> b]
  <2>1. f \in [0..0 -> V] /\ G(f, 0) OBVIOUS
  <2> QED BY Zenon, <2>1
<1>2. ASSUME NEW n \in Nat, n + 1 <= N, E(n) PROVE E(n + 1)
  <2>1. PICK f \in [0..n -> V] : G(f, n) BY Zenon, <1>2
  <2> DEFINE x == step[<<n + 1, f[n]>>]
             g == [i \in 0..(n+1) |-> IF i <= n THEN f[i] ELSE x]
  <2>2. x \in V
    <3>1. <<n+1, f[n]>> \in (1..N) \X V BY <1>2
    <3> QED BY Zenon, <3>1
  <2>3. \A i \in 0..n : g[i] = f[i] BY SMT
  <2>4. g[n+1] = x BY SMT
  <2>5. g \in [0..(n+1) -> V]
    <3> HIDE DEF x
    <3> QED BY <2>2
  <2>6. G(g, n+1)
    <3> HIDE DEF g
    <3>1. g[0] = b BY <2>1, <2>3
    <3>2. ASSUME NEW i \in 1..(n+1) PROVE g[i] = step[<<i, g[i-1]>>]
      <4>1. CASE i <= n BY <4>1, <2>1, <2>3
      <4>2. CASE i = n + 1 
        <5>1. g[i-1] = f[n] BY <4>2, <2>3
        <5> QED BY Zenon, <4>2, <5>1, <2>4
      <4> QED BY <4>1, <4>2
    <3> QED BY Zenon, <3>1, <3>2
  <2> HIDE DEF g, G
  <2> QED BY Zenon, <2>5, <2>6
<1> HIDE DEF E
<1>3. N \in T
  <2>1. 0 \in T BY Zenon, <1>1
  <2>2. \A n \in Nat : n \in T => n + 1 \in T BY <1>2
  <2> HIDE DEF T
  <2> QED BY Zenon, <2>1, <2>2, NatSetInduction
<1>4. E(N) BY <1>3
<1> QED BY Zenon, <1>4 DEF E, Iterates

(* What holds before the first round of a loop, and after a round when it  *)
(* held before it, holds after every round.                                *)
LEMMA LoopInduction ==
  ASSUME NEW N \in Nat, NEW T, 0 \in T, \A i \in 1..N : i - 1 \in T => i \in T
  PROVE  \A i \in 0..N : i \in T
<1> DEFINE U == {n \in Nat : n <= N => n \in T}
<1>1. 0 \in U OBVIOUS
<1>2. ASSUME NEW n \in Nat, n \in U PROVE n + 1 \in U
  <2>1. CASE n + 1 <= N
    <3>1. n \in T /\ n + 1 \in 1..N /\ (n + 1) - 1 = n BY <1>2, <2>1
    <3> QED BY <3>1
  <2>2. CASE ~(n + 1 <= N) BY <2>2
  <2> QED BY Zenon, <2>1, <2>2
<1>3. Nat \subseteq U
  <2> HIDE DEF U
  <2> QED BY Zenon, <1>1, <1>2, NatSetInduction
<1> QED BY <1>3

(* A set of places that is not empty has a greatest element.               *)
LEMMA GreatestIndex ==
  ASSUME NEW N \in Nat, NEW T, T \subseteq 1..N, T # {}
  PROVE  \E n \in T : \A m \in T : n >= m
<1> DEFINE U == {N - i : i \in T}
<1>1. U \subseteq Nat /\ U # {}
  <2>1. \A i \in T : i \in 1..N OBVIOUS
  <2>2. PICK i \in T : TRUE OBVIOUS
  <2>3. N - i \in U BY Zenon, <2>2
  <2> QED BY <2>1, <2>3
<1>2. PICK u \in U : \A m \in U : u <= m
  <2> HIDE DEF U
  <2> QED BY Zenon, <1>1, LeastNatural
<1>3. PICK n \in T : u = N - n BY Zenon, <1>2
<1>4. \A m \in T : N - m \in U OBVIOUS
<1>5. \A m \in T : N - n <= N - m BY Zenon, <1>2, <1>3, <1>4
<1> QED BY <1>5

(* Max finds the greatest of a set of places.                              *)
LEMMA MaxIndex ==
  ASSUME NEW N \in Nat, NEW T, T \subseteq 1..N, T # {}
  PROVE  Max(T) \in T /\ \A m \in T : m <= Max(T)
<1>1. \E n \in T : \A m \in T : n >= m BY Zenon, GreatestIndex
<1>2. Max(T) \in T /\ \A m \in T : Max(T) >= m BY Zenon, <1>1 DEF Max
<1> QED BY Zenon, <1>2

(* Min finds the least of a set of naturals.                               *)
LEMMA MinIndex ==
  ASSUME NEW T, T \subseteq Nat, T # {}
  PROVE  Min(T) \in T /\ \A m \in T : Min(T) <= m
<1>1. \E n \in T : \A m \in T : n <= m BY Zenon, LeastNatural
<1> QED BY Zenon, <1>1 DEF Min

Overwrites(v, w, P, N) == \A n \in 1..N : v[n] = IF n \in P THEN w[n] ELSE v[n - 1]

(* A value that is overwritten in the rounds P of a loop ends as the last  *)
(* of those rounds left it.                                                *)
LEMMA LastWins ==
  ASSUME NEW N \in Nat, NEW P, P \subseteq 1..N, NEW v, NEW w, Overwrites(v, w, P, N)
  PROVE  v[N] = IF P = {} THEN v[0] ELSE w[Max(P)]
<1>1. CASE P = {}
  <2> DEFINE T == {n \in 0..N : v[n] = v[0]}
  <2>1. 0 \in T OBVIOUS
  <2>2. \A n \in 1..N : n - 1 \in T => n \in T BY <1>1 DEF Overwrites
  <2>3. \A n \in 0..N : n \in T
    <3> HIDE DEF T
    <3> QED BY Zenon, <2>1, <2>2, LoopInduction
  <2> QED BY <1>1, <2>3
<1>2. CASE P # {}
  <2> DEFINE m == Max(P)
             T == {n \in 0..N : n >= m => v[n] = w[m]}
  <2>1. m \in P /\ m \in 1..N /\ \A k \in P : k <= m BY Zenon, <1>2, MaxIndex
  <2> HIDE DEF m
  <2>2. 0 \in T BY <2>1
  <2>3. ASSUME NEW n \in 1..N, n - 1 \in T PROVE n \in T
    <3>1. CASE n < m BY <3>1, <2>1
    <3>2. CASE n = m BY <3>2, <2>1 DEF Overwrites
    <3>3. CASE n > m
      <4>1. n \notin P /\ n - 1 >= m BY <3>3, <2>1
      <4>2. v[n] = v[n - 1] BY Zenon, <4>1 DEF Overwrites
      <4>3. v[n - 1] = w[m] BY Zenon, <4>1, <2>3
      <4> QED BY <4>2, <4>3
    <3> QED BY <3>1, <3>2, <3>3, <2>1
  <2>4. \A n \in 0..N : n \in T
    <3> HIDE DEF T
    <3> QED BY Zenon, <2>2, <2>3, LoopInduction
  <2>5. v[N] = w[m] BY <2>1, <2>4
  <2> QED BY Zenon, <1>2, <2>5 DEF m
<1> QED BY Zenon, <1>1, <1>2
=============================================================================

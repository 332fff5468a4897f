--------------------------- MODULE TransportProofs ---------------------------
(***************************************************************************)
(* Proofs about the two waits of the HTTP client: the one for a            *)
(* connection, for every list of addresses and every timeout (Dial), and   *)
(* the one before the next attempt, for every Retry-After value and every  *)
(* clock (RetryAfter).                                                     *)
(***************************************************************************)
EXTENDS Algorithms, InductionLemmas, FiniteSetTheorems

DialStates == [i : Nat, at : Nat, fd : Nat, loop : {"on", "left"}]

(* What getaddrinfo's list and the timeout of a dial are.                  *)
LEMMA AddressList ==
  ASSUME NEW addrs, NEW ms, DialCall(addrs, ms)
  PROVE  /\ ms \in Int /\ Len(addrs) \in Nat /\ DOMAIN addrs = 1..Len(addrs)
         /\ \A n \in 1..Len(addrs) :
              /\ addrs[n].after \in Nat
              /\ addrs[n].answer \in {"connects", "refuses", "silent", "noSocket"}
<1>1. ms \in Int /\ addrs \in Seq(Address) BY Zenon DEF DialCall
<1>2. Len(addrs) \in Nat /\ DOMAIN addrs = 1..Len(addrs) /\ \A n \in 1..Len(addrs) : addrs[n] \in Address
  BY <1>1
<1> QED BY Zenon, <1>1, <1>2 DEF Address

(* The time spent on the first n addresses adds up one address at a time.  *)
LEMMA SpentRecursion ==
  ASSUME NEW addrs, NEW ms \in Nat, DialCall(addrs, ms)
  PROVE  /\ Spent(addrs, ms)[0] = 0
         /\ \A n \in 0..Len(addrs) : Spent(addrs, ms)[n] \in Nat
         /\ \A n \in 1..Len(addrs) : Spent(addrs, ms)[n] = Spent(addrs, ms)[n - 1] + Cost(addrs[n], ms)
<1> DEFINE N == Len(addrs)
           g == Spent(addrs, ms)
           step == [x \in (1..N) \X Nat |-> x[2] + Cost(addrs[x[1]], ms)]
<1>1. N \in Nat BY Zenon, AddressList
<1>2. \A n \in 1..N : Cost(addrs[n], ms) \in Nat BY Zenon, AddressList DEF Cost
<1> HIDE DEF N
<1>3. \A n \in 1..N : \A r \in Nat : r + Cost(addrs[n], ms) \in Nat BY <1>2
<1>4. step \in [(1..N) \X Nat -> Nat] BY Zenon, <1>3
<1>5. \A n \in 1..N : \A r \in Nat : step[<<n, r>>] = r + Cost(addrs[n], ms) OBVIOUS
<1>6. PICK f \in [0..N -> Nat] : Iterates(f, 0, N, step)
  <2>1. 0 \in Nat OBVIOUS
  <2> HIDE DEF step, g
  <2> QED BY Zenon, <1>1, <1>4, <2>1, RecursionExists
<1> HIDE DEF step
<1>7. \A i \in 1..N : f[i] = f[i-1] + Cost(addrs[i], ms)
  <2>1. \A i \in 1..N : i - 1 \in 0..N BY <1>1
  <2> QED BY Zenon, <1>5, <1>6, <2>1 DEF Iterates
<1>8. f = [n \in 0..N |-> IF n = 0 THEN 0 ELSE f[n-1] + Cost(addrs[n], ms)]
  BY <1>1, <1>6, <1>7 DEF Iterates
<1>9. g = [n \in 0..N |-> IF n = 0 THEN 0 ELSE g[n-1] + Cost(addrs[n], ms)]
  BY Zenon, <1>8 DEF Spent, N
<1> HIDE DEF g
<1>10. g[0] = 0 /\ \A n \in 1..N : g[n] = g[n-1] + Cost(addrs[n], ms) BY <1>1, <1>9
<1>11. \A n \in 0..N : g[n] \in Nat
  <2> DEFINE T == {n \in 0..N : g[n] \in Nat}
  <2>1. 0 \in T BY <1>1, <1>10
  <2>2. ASSUME NEW n \in 1..N, n - 1 \in T PROVE n \in T
    <3>1. g[n] = g[n-1] + Cost(addrs[n], ms) /\ g[n-1] \in Nat BY Zenon, <1>10, <2>2
    <3>2. g[n] \in Nat BY <1>2, <3>1
    <3>3. n \in 0..N BY <1>1
    <3> QED BY Zenon, <3>2, <3>3
  <2>3. \A n \in 0..N : n \in T
    <3> HIDE DEF T
    <3> QED BY Zenon, <1>1, <2>1, <2>2, LoopInduction
  <2> QED BY Zenon, <2>3
<1> QED BY Zenon, <1>10, <1>11 DEF g, N

(* A try at one address ends with the socket open or not, and has taken    *)
(* some time.                                                              *)
LEMMA AttemptTyped ==
  ASSUME NEW a, a.after \in Nat, NEW ms \in Int
  PROVE  /\ Attempt(a, ms).took \in Nat
         /\ Attempt(a, ms).end \in {"open", "failed"}
BY DEF Attempt

(* A round of wolfcert_posix_connect's loop keeps to the states of the     *)
(* dial.                                                                   *)
LEMMA TryNextTyped ==
  ASSUME NEW a, a.after \in Nat, NEW ms \in Int, NEW s \in DialStates
  PROVE  TryNext(s, a, ms) \in DialStates
<1> DEFINE left == IF ms > 0 THEN ms - s.at ELSE ms
           t == Attempt(a, left)
<1>1. left \in Int BY DEF DialStates
<1>2. t.took \in Nat BY Zenon, <1>1, AttemptTyped
<1> HIDE DEF t
<1>3. AfterAttempt(s, t) \in DialStates
  <2>1. s.at + t.took \in Nat /\ s.i + 1 \in Nat /\ s.i \in Nat BY <1>2 DEF DialStates
  <2> QED BY Zenon, <2>1 DEF AfterAttempt, DialStates
<1>4. TryNext(s, a, ms) \in {s, [s EXCEPT !.loop = "left"], [s EXCEPT !.i = @ + 1], AfterAttempt(s, t)}
  BY Zenon DEF TryNext, t
<1>5. [s EXCEPT !.loop = "left"] \in DialStates /\ [s EXCEPT !.i = @ + 1] \in DialStates BY DEF DialStates
<1> QED BY Zenon, <1>3, <1>4, <1>5

(* The states of a dial follow each other one address at a time.           *)
LEMMA StatesRecursion ==
  ASSUME NEW addrs, NEW ms, DialCall(addrs, ms)
  PROVE  /\ StatesOf(addrs, ms)[0] = [i |-> 1, at |-> 0, fd |-> 0, loop |-> "on"]
         /\ \A n \in 0..Len(addrs) : StatesOf(addrs, ms)[n] \in DialStates
         /\ \A n \in 1..Len(addrs) :
              StatesOf(addrs, ms)[n] = TryNext(StatesOf(addrs, ms)[n - 1], addrs[n], ms)
<1> DEFINE N == Len(addrs)
           V == DialStates
           b == [i |-> 1, at |-> 0, fd |-> 0, loop |-> "on"]
           g == StatesOf(addrs, ms)
           step == [x \in (1..N) \X V |-> TryNext(x[2], addrs[x[1]], ms)]
<1>1. b \in V BY Zenon DEF DialStates
<1> HIDE DEF V
<1>2. \A n \in 1..N : \A r \in V : TryNext(r, addrs[n], ms) \in V
  <2>1. ms \in Int /\ \A n \in 1..N : addrs[n].after \in Nat BY Zenon, AddressList
  <2> QED BY Zenon, <2>1, TryNextTyped DEF V
<1>3. N \in Nat BY Zenon, AddressList
<1> HIDE DEF N
<1>4. step \in [(1..N) \X V -> V] BY Zenon, <1>2
<1>5. \A n \in 1..N : \A r \in V : step[<<n, r>>] = TryNext(r, addrs[n], ms) OBVIOUS
<1>6. PICK f \in [0..N -> V] : Iterates(f, b, N, step)
  <2> HIDE DEF step, g, b
  <2> QED BY Zenon, <1>1, <1>3, <1>4, RecursionExists
<1> HIDE DEF step, b
<1>7. \A i \in 1..N : f[i] = TryNext(f[i-1], addrs[i], ms)
  <2>1. \A i \in 1..N : i - 1 \in 0..N BY <1>3
  <2> QED BY Zenon, <1>5, <1>6, <2>1 DEF Iterates
<1>8. f = [n \in 0..N |-> IF n = 0 THEN b ELSE TryNext(f[n-1], addrs[n], ms)]
  BY <1>3, <1>6, <1>7 DEF Iterates
<1>9. g = [n \in 0..N |-> IF n = 0 THEN b ELSE TryNext(g[n-1], addrs[n], ms)]
  BY Zenon, <1>8 DEF StatesOf, b, N
<1> HIDE DEF g
<1>10. g[0] = b /\ \A n \in 1..N : g[n] = TryNext(g[n-1], addrs[n], ms) BY <1>3, <1>9
<1>11. \A n \in 0..N : g[n] \in V
  <2> DEFINE T == {n \in 0..N : g[n] \in V}
  <2>1. 0 \in T BY <1>1, <1>3, <1>10
  <2>2. ASSUME NEW n \in 1..N, n - 1 \in T PROVE n \in T BY <1>2, <1>3, <1>10, <2>2
  <2>3. \A n \in 0..N : n \in T
    <3> HIDE DEF T
    <3> QED BY Zenon, <1>3, <2>1, <2>2, LoopInduction
  <2> QED BY Zenon, <2>3
<1> QED BY Zenon, <1>10, <1>11 DEF g, b, V, N

(* The clock and the open address after n addresses of the list. *)
DialledSoFar(addrs, ms, n, s) ==
  /\ s.at <= ms
  /\ s.loop = "on" => s.i = n + 1 /\ s.fd = 0 /\ (s.at = Spent(addrs, ms)[n] \/ (s.at = ms /\ Spent(addrs, ms)[n] >= ms))
  /\ s.loop = "left" /\ s.fd = 0 => Spent(addrs, ms)[n] >= ms
  /\ s.fd = 0 => \A j \in 1..n : addrs[j].answer = "connects" => Spent(addrs, ms)[j] >= ms
  /\ s.fd # 0 => /\ s.loop = "left" /\ s.fd \in 1..n
                 /\ addrs[s.fd].answer = "connects" /\ Spent(addrs, ms)[s.fd] < ms
                 /\ \A j \in 1..(s.fd - 1) : addrs[j].answer # "connects"

(* Time spent on a dial is never got back.                                 *)
LEMMA SpentGrows ==
  ASSUME NEW addrs, NEW ms \in Nat, DialCall(addrs, ms)
  PROVE  \A n \in 0..Len(addrs) : \A j \in 0..n : Spent(addrs, ms)[j] <= Spent(addrs, ms)[n]
<1> DEFINE N == Len(addrs)
           g == Spent(addrs, ms)
           T == {n \in 0..N : \A j \in 0..n : g[j] <= g[n]}
<1>1. N \in Nat BY Zenon, AddressList
<1>2. \A n \in 1..N : Cost(addrs[n], ms) \in Nat BY Zenon, AddressList DEF Cost
<1>3. /\ \A n \in 0..N : g[n] \in Nat
      /\ \A n \in 1..N : g[n] = g[n - 1] + Cost(addrs[n], ms)
  BY Zenon, SpentRecursion
<1> HIDE DEF N, g
<1>4. 0 \in T BY <1>1, <1>3
<1>5. ASSUME NEW n \in 1..N, n - 1 \in T PROVE n \in T
  <2>1. n \in 0..N /\ n - 1 \in 0..N BY <1>1
  <2>2. g[n - 1] \in Nat /\ g[n] \in Nat /\ g[n - 1] <= g[n] BY <1>2, <1>3, <2>1
  <2>3. ASSUME NEW j \in 0..n PROVE g[j] <= g[n]
    <3>1. CASE j = n BY <2>2, <3>1
    <3>2. CASE j # n
      <4>1. j \in 0..(n - 1) /\ j \in 0..N BY <1>1, <3>2
      <4>2. g[j] <= g[n - 1] /\ g[j] \in Nat BY Zenon, <1>3, <1>5, <4>1
      <4> QED BY <2>2, <4>2
    <3> QED BY Zenon, <3>1, <3>2
  <2> QED BY Zenon, <2>1, <2>3
<1>6. \A n \in 0..N : n \in T
  <2> HIDE DEF T
  <2> QED BY Zenon, <1>1, <1>4, <1>5, LoopInduction
<1> QED BY Zenon, <1>6 DEF N, g

(* A round of wolfcert_posix_connect's loop keeps what DialledSoFar says   *)
(* of the addresses it has passed.                                         *)
LEMMA DialStep ==
  ASSUME NEW addrs, NEW ms \in Nat \ {0}, DialCall(addrs, ms), NEW n \in 1..Len(addrs),
         NEW s \in DialStates, DialledSoFar(addrs, ms, n - 1, s)
  PROVE  DialledSoFar(addrs, ms, n, TryNext(s, addrs[n], ms))
<1> DEFINE g == Spent(addrs, ms)
           a == addrs[n]
           t == TryNext(s, a, ms)
           left == ms - s.at
           u == Attempt(a, left)
<1>1. /\ a.after \in Nat /\ a.answer \in {"connects", "refuses", "silent", "noSocket"}
      /\ Len(addrs) \in Nat
  BY Zenon, AddressList
<1>2. g[n - 1] \in Nat /\ g[n] \in Nat /\ g[n] = g[n - 1] + Cost(a, ms) /\ g[n - 1] <= g[n]
  <2>1. n \in 0..Len(addrs) /\ n - 1 \in 0..Len(addrs) /\ n - 1 \in 0..n BY <1>1
  <2> QED BY Zenon, <2>1, SpentRecursion, SpentGrows
<1>3. \A j \in 1..n : j \in 1..(n - 1) \/ j = n OBVIOUS
<1>4. s.at \in Nat /\ s.i \in Nat /\ s.fd \in Nat /\ s.loop \in {"on", "left"} BY Zenon DEF DialStates
<1>5. 1..(n - 1) \subseteq 1..n OBVIOUS
<1>6. ASSUME s.fd = 0, g[n - 1] >= ms
      PROVE  g[n] >= ms /\ \A j \in 1..n : addrs[j].answer = "connects" => g[j] >= ms
  <2>1. g[n] >= ms BY <1>2, <1>6
  <2>2. \A j \in 1..(n-1) : addrs[j].answer = "connects" => g[j] >= ms BY Zenon, <1>6 DEF DialledSoFar
  <2> QED BY Zenon, <1>3, <2>1, <2>2
<1>7. CASE s.loop = "left"
  <2>1. t = s BY Zenon, <1>7 DEF TryNext
  <2> HIDE DEF g, t
  <2>2. CASE s.fd = 0
    <3>1. g[n - 1] >= ms BY Zenon, <1>7, <2>2 DEF DialledSoFar, g
    <3> QED BY Zenon, <1>6, <1>7, <2>1, <2>2, <3>1 DEF DialledSoFar, g, t, a
  <2>3. CASE s.fd # 0 BY Zenon, <1>5, <1>7, <2>1, <2>3 DEF DialledSoFar, g, t, a
  <2> QED BY Zenon, <2>2, <2>3
<1>8. CASE s.loop = "on" /\ left <= 0
  <2>1. t = [s EXCEPT !.loop = "left"] BY <1>8 DEF TryNext
  <2>2. t.at = s.at /\ t.fd = s.fd /\ t.loop = "left" BY Zenon, <2>1 DEF DialStates
  <2>3. s.fd = 0 /\ s.at = ms /\ g[n - 1] >= ms BY <1>2, <1>4, <1>8 DEF DialledSoFar
  <2> HIDE DEF g, t, a
  <2> QED BY Zenon, <1>6, <2>2, <2>3 DEF DialledSoFar, g, t, a
<1>9. CASE s.loop = "on" /\ left > 0
  <2>1. s.i = n /\ s.fd = 0 /\ s.at = g[n - 1] /\ g[n - 1] < ms BY <1>2, <1>4, <1>9 DEF DialledSoFar
  <2>2. \A j \in 1..(n-1) : addrs[j].answer = "connects" => g[j] >= ms BY Zenon, <2>1 DEF DialledSoFar
  <2>3. \A j \in 1..(n-1) : addrs[j].answer # "connects"
    <3>1. \A j \in 1..(n-1) : g[j] \in Nat /\ g[j] <= g[n-1]
      <4>1. n - 1 \in 0..Len(addrs) /\ \A j \in 1..(n-1) : j \in 0..(n-1) /\ j \in 0..Len(addrs) BY <1>1
      <4> QED BY Zenon, <4>1, SpentRecursion, SpentGrows
    <3> HIDE DEF g
    <3> QED BY <1>2, <2>1, <2>2, <3>1
  <2>4. CASE a.answer = "noSocket"
    <3>1. t = [s EXCEPT !.i = @ + 1] BY <1>4, <1>9, <2>4 DEF TryNext
    <3>2. t.i = n + 1 /\ t.at = s.at /\ t.fd = 0 /\ t.loop = "on" BY Zenon, <1>9, <2>1, <3>1 DEF DialStates
    <3>3. g[n] = g[n - 1] BY <1>2, <2>4 DEF Cost
    <3>4. \A j \in 1..n : addrs[j].answer # "connects" BY Zenon, <1>3, <2>3, <2>4
    <3> HIDE DEF g, t, a
    <3> QED BY Zenon, <1>2, <2>1, <3>2, <3>3, <3>4 DEF DialledSoFar, g, t, a
  <2>5. CASE a.answer = "connects" /\ a.after < left
    <3>1. u.end = "open" /\ u.took = a.after BY Zenon, <1>1, <1>4, <2>5 DEF Attempt
    <3>2. t = AfterAttempt(s, u) BY <1>4, <1>9, <2>5 DEF TryNext
    <3>3. t = [s EXCEPT !.at = @ + a.after, !.fd = s.i, !.loop = "left"]
      <4> HIDE DEF t, u
      <4> QED BY Zenon, <3>1, <3>2 DEF AfterAttempt
    <3>4. t.at = s.at + a.after /\ t.fd = n /\ t.loop = "left" BY Zenon, <2>1, <3>3 DEF DialStates
    <3>5. g[n] = g[n - 1] + a.after BY Zenon, <1>2, <2>5 DEF Cost
    <3>6. g[n] < ms /\ t.at <= ms BY <1>1, <1>2, <1>4, <2>1, <2>5, <3>4, <3>5
    <3>7. n \in 1..n /\ n # 0 OBVIOUS
    <3> HIDE DEF g, t, u, left
    <3> QED BY Zenon, <2>3, <2>5, <3>4, <3>6, <3>7 DEF DialledSoFar, g, t, a
  <2>6. CASE a.answer = "refuses" /\ a.after < left
    <3>1. u.end = "failed" /\ u.took = a.after BY Zenon, <1>1, <1>4, <2>6 DEF Attempt
    <3>2. t = AfterAttempt(s, u) BY <1>4, <1>9, <2>6 DEF TryNext
    <3>3. t = [s EXCEPT !.i = @ + 1, !.at = @ + a.after]
      <4> HIDE DEF t, u
      <4> QED BY Zenon, <3>1, <3>2 DEF AfterAttempt
    <3>4. t.at = s.at + a.after /\ t.i = n + 1 /\ t.fd = 0 /\ t.loop = "on"
      BY Zenon, <1>9, <2>1, <3>3 DEF DialStates
    <3>5. g[n] = g[n - 1] + a.after BY Zenon, <1>2, <2>6 DEF Cost
    <3>6. t.at = g[n] /\ t.at <= ms BY <1>1, <1>2, <1>4, <2>1, <2>6, <3>4, <3>5
    <3>7. \A j \in 1..n : addrs[j].answer # "connects" BY Zenon, <1>3, <2>3, <2>6
    <3> HIDE DEF g, t, u, left, a
    <3> QED BY Zenon, <3>4, <3>6, <3>7 DEF DialledSoFar, g, t, a
  <2>7. CASE a.answer = "silent" \/ (a.answer \in {"connects", "refuses"} /\ a.after >= left)
    <3>1. u.end = "failed" /\ u.took = left BY <1>1, <1>4, <1>9, <2>7 DEF Attempt
    <3>2. t = AfterAttempt(s, u) BY <1>4, <1>9, <2>7 DEF TryNext
    <3>3. t = [s EXCEPT !.i = @ + 1, !.at = @ + left]
      <4> HIDE DEF t, u
      <4> QED BY Zenon, <3>1, <3>2 DEF AfterAttempt
    <3>4. t.at = s.at + left /\ t.i = n + 1 /\ t.fd = 0 /\ t.loop = "on"
      BY Zenon, <1>9, <2>1, <3>3 DEF DialStates
    <3>5. t.at = ms BY <1>4, <3>4
    <3>6. g[n] >= ms
      <4>1. CASE a.answer = "silent" BY <1>2, <4>1 DEF Cost
      <4>2. CASE a.answer \in {"connects", "refuses"} /\ a.after >= left
        <5>1. g[n] = g[n - 1] + a.after BY Zenon, <1>2, <4>2 DEF Cost
        <5> QED BY <1>1, <1>2, <1>4, <2>1, <4>2, <5>1
      <4> QED BY Zenon, <2>7, <4>1, <4>2
    <3>7. \A j \in 1..n : addrs[j].answer = "connects" => g[j] >= ms BY Zenon, <1>3, <2>3, <3>6
    <3> HIDE DEF g, t, u, left, a
    <3> QED BY <3>4, <3>5, <3>6, <3>7 DEF DialledSoFar, g, t, a
  <2> QED BY <1>1, <1>4, <2>4, <2>5, <2>6, <2>7
<1> QED BY <1>4, <1>7, <1>8, <1>9

(* A dial with a timeout ends within it, whatever the addresses do, and it *)
(* ends connected exactly when some address answers while time is left; it *)
(* is then the first of the list that does (wolfcert_posix_connect).       *)
THEOREM DialWithinTimeout ==
  ASSUME NEW addrs, NEW ms, DialCall(addrs, ms)
  PROVE  WithinTimeout(addrs, ms)
<1> DEFINE N == Len(addrs)
           g == StatesOf(addrs, ms)
           r == g[N]
           good == {i \in DOMAIN addrs : addrs[i].answer = "connects"}
           T == {n \in 0..N : DialledSoFar(addrs, ms, n, g[n])}
<1> SUFFICES ASSUME ms > 0
             PROVE  /\ r.at <= ms
                    /\ r.fd # 0 <=> \E i \in good : Spent(addrs, ms)[i] < ms
                    /\ r.fd # 0 => r.fd = Min(good)
  BY Zenon DEF WithinTimeout, PosixConnect
<1>1. ms \in Nat \ {0} /\ N \in Nat /\ DOMAIN addrs = 1..N BY AddressList
<1>2. /\ g[0] = [i |-> 1, at |-> 0, fd |-> 0, loop |-> "on"]
      /\ \A n \in 0..N : g[n] \in DialStates
      /\ \A n \in 1..N : g[n] = TryNext(g[n - 1], addrs[n], ms)
  BY Zenon, StatesRecursion
<1> HIDE DEF g
<1>3. 0 \in T
  <2>1. g[0].at = 0 /\ g[0].i = 1 /\ g[0].fd = 0 /\ g[0].loop = "on" BY <1>2
  <2>2. Spent(addrs, ms)[0] = 0 BY Zenon, <1>1, SpentRecursion
  <2> QED BY <1>1, <2>1, <2>2 DEF DialledSoFar
<1>4. ASSUME NEW n \in 1..N, n - 1 \in T PROVE n \in T
  <2>1. n \in 0..N /\ n - 1 \in 0..N BY <1>1
  <2> QED BY Zenon, <1>1, <1>2, <1>4, <2>1, DialStep
<1>5. \A n \in 0..N : n \in T
  <2> HIDE DEF T, N
  <2> QED BY Zenon, <1>1, <1>3, <1>4, LoopInduction
<1>6. DialledSoFar(addrs, ms, N, r) /\ r \in DialStates BY <1>1, <1>2, <1>5
<1> HIDE DEF r, N
<1>7. \A i \in 1..N : Spent(addrs, ms)[i] \in Nat BY <1>1, SpentRecursion DEF N
<1>8. CASE r.fd = 0 BY <1>1, <1>6, <1>7, <1>8 DEF DialledSoFar
<1>9. CASE r.fd # 0
  <2>1. r.fd \in good /\ Spent(addrs, ms)[r.fd] < ms BY Zenon, <1>1, <1>6, <1>9 DEF DialledSoFar
  <2>2. \A j \in good : r.fd <= j
    <3> SUFFICES ASSUME NEW j \in good, ~(r.fd <= j) PROVE FALSE
      OBVIOUS
    <3>1. j \in 1..(r.fd - 1) BY <1>1, <2>1
    <3> QED BY Zenon, <1>6, <1>9, <3>1 DEF DialledSoFar
  <2>3. good \subseteq Int BY <1>1
  <2> HIDE DEF good
  <2>4. r.fd = Min(good)
    <3>1. ASSUME NEW x \in good, \A y \in good : x <= y PROVE x = r.fd
      <4>1. x <= r.fd /\ r.fd <= x /\ x \in Int /\ r.fd \in Int BY Zenon, <2>1, <2>2, <2>3, <3>1
      <4> QED BY <4>1
    <3> QED BY Zenon, <2>1, <2>2, <3>1 DEF Min
  <2> QED BY Zenon, <1>6, <1>9, <2>1, <2>4 DEF DialledSoFar
<1> QED BY Zenon, <1>8, <1>9
-----------------------------------------------------------------------------
Leaps(year) == year \div 4 - year \div 100 + year \div 400

OneIfLeap(year) == IF Leap(year) THEN 1 ELSE 0

(* The leap years are counted one year at a time.                          *)
LEMMA LeapStep ==
  ASSUME NEW y \in Int PROVE Leaps(y) = Leaps(y - 1) + OneIfLeap(y) /\ Leaps(y) \in Int
BY DEF Leaps, OneIfLeap, Leap

(* 477 leap years end before the epoch.                                    *)
LEMMA LeapEpoch == Leaps(1969) = 477
BY DEF Leaps

(* The leap years from the epoch on are as many as Leaps says.             *)
LEMMA LeapsAfterEpoch ==
  \A n \in Nat : /\ IsFiniteSet({y \in 1970..(1970 + n - 1) : Leap(y)})
                 /\ Cardinality({y \in 1970..(1970 + n - 1) : Leap(y)}) = Leaps(1970 + n - 1) - 477
<1> DEFINE S(n) == {y \in 1970..(1970 + n - 1) : Leap(y)}
           T == {n \in Nat : IsFiniteSet(S(n)) /\ Cardinality(S(n)) = Leaps(1970 + n - 1) - 477}
<1>1. 0 \in T
  <2>1. S(0) = {} OBVIOUS
  <2>2. 1970 + 0 - 1 = 1969 OBVIOUS
  <2> HIDE DEF S
  <2> QED BY <2>1, <2>2, LeapEpoch, FS_EmptySet
<1>2. ASSUME NEW n \in Nat, n \in T PROVE n + 1 \in T
  <2>1. Leaps(1970 + n) = Leaps(1970 + n - 1) + OneIfLeap(1970 + n) /\ Leaps(1970 + n - 1) \in Int
    BY LeapStep
  <2>2. 1970 + (n + 1) - 1 = 1970 + n OBVIOUS
  <2>3. IsFiniteSet(S(n)) /\ Cardinality(S(n)) = Leaps(1970 + n - 1) - 477 BY Zenon, <1>2
  <2>4. CASE Leap(1970 + n)
    <3>1. S(n + 1) = S(n) \cup {1970 + n} /\ 1970 + n \notin S(n) BY <2>4
    <3>2. OneIfLeap(1970 + n) = 1 BY <2>4 DEF OneIfLeap
    <3> HIDE DEF S
    <3>3. IsFiniteSet(S(n + 1)) /\ Cardinality(S(n + 1)) = Cardinality(S(n)) + 1
      BY <2>3, <3>1, FS_AddElement
    <3> QED BY <2>1, <2>2, <2>3, <3>2, <3>3
  <2>5. CASE ~Leap(1970 + n)
    <3>1. S(n + 1) = S(n) BY <2>5
    <3>2. OneIfLeap(1970 + n) = 0 BY <2>5 DEF OneIfLeap
    <3> HIDE DEF S
    <3> QED BY <2>1, <2>2, <2>3, <3>1, <3>2
  <2> QED BY <2>4, <2>5
<1>3. \A n \in Nat : n \in T
  <2> HIDE DEF T
  <2> QED BY Zenon, <1>1, <1>2, NatSetInduction
<1> QED BY <1>3

(* So are those before it.                                                 *)
LEMMA LeapsUpToEpoch ==
  \A n \in Nat : /\ IsFiniteSet({y \in (1970 - n)..1969 : Leap(y)})
                 /\ Cardinality({y \in (1970 - n)..1969 : Leap(y)}) = 477 - Leaps(1970 - n - 1)
<1> DEFINE S(n) == {y \in (1970 - n)..1969 : Leap(y)}
           T == {n \in Nat : IsFiniteSet(S(n)) /\ Cardinality(S(n)) = 477 - Leaps(1970 - n - 1)}
<1>1. 0 \in T
  <2>1. S(0) = {} OBVIOUS
  <2>2. 1970 - 0 - 1 = 1969 OBVIOUS
  <2> HIDE DEF S
  <2> QED BY <2>1, <2>2, LeapEpoch, FS_EmptySet
<1>2. ASSUME NEW n \in Nat, n \in T PROVE n + 1 \in T
  <2> DEFINE z == 1970 - n - 1
  <2>1. Leaps(z) = Leaps(z - 1) + OneIfLeap(z) /\ Leaps(z - 1) \in Int
    BY LeapStep
  <2>2. 1970 - (n + 1) - 1 = z - 1 /\ 1970 - (n + 1) = z OBVIOUS
  <2>3. IsFiniteSet(S(n)) /\ Cardinality(S(n)) = 477 - Leaps(z) BY <1>2
  <2>4. CASE Leap(z)
    <3>1. S(n + 1) = S(n) \cup {z} /\ z \notin S(n) BY <2>2, <2>4
    <3>2. OneIfLeap(z) = 1 BY <2>4 DEF OneIfLeap
    <3> HIDE DEF S, z
    <3>3. IsFiniteSet(S(n + 1)) /\ Cardinality(S(n + 1)) = Cardinality(S(n)) + 1
      BY <2>3, <3>1, FS_AddElement
    <3> QED BY <2>1, <2>2, <2>3, <3>2, <3>3
  <2>5. CASE ~Leap(z)
    <3>1. S(n + 1) = S(n) BY <2>2, <2>5
    <3>2. OneIfLeap(z) = 0 BY <2>5 DEF OneIfLeap
    <3> HIDE DEF S, z
    <3> QED BY <2>1, <2>2, <2>3, <3>1, <3>2
  <2> QED BY <2>4, <2>5
<1>3. \A n \in Nat : n \in T
  <2> HIDE DEF T
  <2> QED BY Zenon, <1>1, <1>2, NatSetInduction
<1> QED BY <1>3

(* LeapsBefore, a count of years, is a difference of Leaps.                *)
LEMMA LeapsCounted ==
  ASSUME NEW year \in Int PROVE LeapsBefore(year) = Leaps(year - 1) - 477
<1> DEFINE A(y) == {x \in 1970..(y - 1) : Leap(x)}
           B(y) == {x \in y..1969 : Leap(x)}
<1>1. LeapsBefore(year) = Cardinality(A(year)) - Cardinality(B(year)) BY Zenon DEF LeapsBefore
<1>2. Leaps(year - 1) \in Int BY LeapStep
<1>3. CASE year >= 1970
  <2>1. PICK n \in Nat : year = 1970 + n
    <3>1. year - 1970 \in Nat /\ year = 1970 + (year - 1970) BY <1>3
    <3> QED BY <3>1
  <2>2. Cardinality(A(year)) = Leaps(year - 1) - 477 BY <2>1, LeapsAfterEpoch
  <2>3. B(year) = {} BY <1>3
  <2> HIDE DEF A, B
  <2> QED BY <1>1, <1>2, <2>2, <2>3, FS_EmptySet
<1>4. CASE year < 1970
  <2>1. PICK n \in Nat : year = 1970 - n
    <3>1. 1970 - year \in Nat /\ year = 1970 - (1970 - year) BY <1>4
    <3> QED BY <3>1
  <2>2. Cardinality(B(year)) = 477 - Leaps(year - 1) BY <2>1, LeapsUpToEpoch
  <2>3. A(year) = {} BY <1>4
  <2> HIDE DEF A, B
  <2> QED BY <1>1, <1>2, <2>2, <2>3, FS_EmptySet
<1> QED BY <1>3, <1>4

(* The lengths of the twelve months.                                       *)
LEMMA MonthTable ==
  ASSUME NEW year
  PROVE  /\ DaysIn(year, 1) = 31 /\ DaysIn(year, 2) = 28 + OneIfLeap(year)
         /\ DaysIn(year, 3) = 31 /\ DaysIn(year, 4) = 30 /\ DaysIn(year, 5) = 31
         /\ DaysIn(year, 6) = 30 /\ DaysIn(year, 7) = 31 /\ DaysIn(year, 8) = 31
         /\ DaysIn(year, 9) = 30 /\ DaysIn(year, 10) = 31 /\ DaysIn(year, 11) = 30
         /\ DaysIn(year, 12) = 31
         /\ OneIfLeap(year) \in 0..1
<1>1. /\ MonthDays[1] = 31 /\ MonthDays[2] = 29 /\ MonthDays[3] = 31 /\ MonthDays[4] = 30
      /\ MonthDays[5] = 31 /\ MonthDays[6] = 30 /\ MonthDays[7] = 31 /\ MonthDays[8] = 31
      /\ MonthDays[9] = 30 /\ MonthDays[10] = 31 /\ MonthDays[11] = 30 /\ MonthDays[12] = 31
  BY Zenon DEF MonthDays
<1>2. CASE Leap(year) BY <1>1, <1>2 DEF DaysIn, OneIfLeap
<1>3. CASE ~Leap(year) BY <1>1, <1>3 DEF DaysIn, OneIfLeap
<1> QED BY Zenon, <1>2, <1>3

(* The days before a month add up one month at a time.                     *)
LEMMA MonthsCounted ==
  ASSUME NEW year
  PROVE  /\ DaysUpTo(year)[0] = 0
         /\ \A n \in 1..12 : DaysUpTo(year)[n] = DaysUpTo(year)[n - 1] + DaysIn(year, n)
<1> DEFINE g == DaysUpTo(year)
           step == [x \in (1..12) \X Int |-> x[2] + DaysIn(year, x[1])]
<1>1. \A n \in 1..12 : DaysIn(year, n) \in Int
  <2>1. \A n \in 1..12 : n \in {1, 2, 3, 4, 5, 6, 7, 8, 9, 10, 11, 12} OBVIOUS
  <2> QED BY <2>1, MonthTable
<1>2. \A n \in 1..12 : \A r \in Int : r + DaysIn(year, n) \in Int BY <1>1
<1>3. step \in [(1..12) \X Int -> Int] BY <1>2, Zenon
<1>4. \A n \in 1..12 : \A r \in Int : step[<<n, r>>] = r + DaysIn(year, n) OBVIOUS
<1>5. PICK f \in [0..12 -> Int] : Iterates(f, 0, 12, step)
  <2>1. 0 \in Int /\ 12 \in Nat OBVIOUS
  <2> HIDE DEF step, g
  <2> QED BY <1>3, <2>1, RecursionExists, Zenon
<1> HIDE DEF step
<1>6. \A i \in 1..12 : f[i] = f[i-1] + DaysIn(year, i)
  <2>1. \A i \in 1..12 : i - 1 \in 0..12 OBVIOUS
  <2> QED BY Zenon, <1>4, <1>5, <2>1 DEF Iterates
<1>7. f = [n \in 0..12 |-> IF n = 0 THEN 0 ELSE f[n-1] + DaysIn(year, n)]
  BY <1>5, <1>6 DEF Iterates
<1>8. g = [n \in 0..12 |-> IF n = 0 THEN 0 ELSE g[n-1] + DaysIn(year, n)]
  BY Zenon, <1>7 DEF DaysUpTo
<1> HIDE DEF g
<1> QED BY <1>8 DEF g

(* The days of a year before each of its months.                           *)
LEMMA MonthSums ==
  ASSUME NEW year
  PROVE  /\ DaysUpTo(year)[0] = 0 /\ DaysUpTo(year)[1] = 31
         /\ DaysUpTo(year)[2] = 59 + OneIfLeap(year) /\ DaysUpTo(year)[3] = 90 + OneIfLeap(year)
         /\ DaysUpTo(year)[4] = 120 + OneIfLeap(year) /\ DaysUpTo(year)[5] = 151 + OneIfLeap(year)
         /\ DaysUpTo(year)[6] = 181 + OneIfLeap(year) /\ DaysUpTo(year)[7] = 212 + OneIfLeap(year)
         /\ DaysUpTo(year)[8] = 243 + OneIfLeap(year) /\ DaysUpTo(year)[9] = 273 + OneIfLeap(year)
         /\ DaysUpTo(year)[10] = 304 + OneIfLeap(year) /\ DaysUpTo(year)[11] = 334 + OneIfLeap(year)
<1> DEFINE g == DaysUpTo(year)
           l == OneIfLeap(year)
<1>1. l \in 0..1 BY Zenon, MonthTable
<1>2. /\ g[0] = 0 /\ g[1] = g[0] + DaysIn(year, 1) /\ g[2] = g[1] + DaysIn(year, 2)
      /\ g[3] = g[2] + DaysIn(year, 3) /\ g[4] = g[3] + DaysIn(year, 4)
      /\ g[5] = g[4] + DaysIn(year, 5) /\ g[6] = g[5] + DaysIn(year, 6)
      /\ g[7] = g[6] + DaysIn(year, 7) /\ g[8] = g[7] + DaysIn(year, 8)
      /\ g[9] = g[8] + DaysIn(year, 9) /\ g[10] = g[9] + DaysIn(year, 10)
      /\ g[11] = g[10] + DaysIn(year, 11)
  <2> HIDE DEF g
  <2>1. g[0] = 0 /\ \A n \in 1..12 : g[n] = g[n - 1] + DaysIn(year, n) BY Zenon, MonthsCounted DEF g
  <2> QED BY <2>1
<1> HIDE DEF g, l
<1>3. /\ g[1] = g[0] + 31 /\ g[2] = g[1] + (28 + l) /\ g[3] = g[2] + 31 /\ g[4] = g[3] + 30
      /\ g[5] = g[4] + 31 /\ g[6] = g[5] + 30 /\ g[7] = g[6] + 31 /\ g[8] = g[7] + 31
      /\ g[9] = g[8] + 30 /\ g[10] = g[9] + 31 /\ g[11] = g[10] + 30
  BY <1>2, MonthTable DEF l
<1>4. /\ g[1] = 31 /\ g[2] = 59 + l /\ g[3] = 90 + l /\ g[4] = 120 + l
      /\ g[5] = 151 + l /\ g[6] = 181 + l /\ g[7] = 212 + l /\ g[8] = 243 + l
      /\ g[9] = 273 + l /\ g[10] = 304 + l /\ g[11] = 334 + l
  BY <1>1, <1>2, <1>3
<1> QED BY Zenon, <1>2, <1>4 DEF g, l

(* The era arithmetic of date_to_unix_time: a March-based year. *)
MarchYears(y) == 365 * y + Leaps(y)

EraDay(y) == (y \div 400) * 146097 + (y % 400) * 365 + (y % 400) \div 4 - (y % 400) \div 100

MarchYear(year, mon) == IF mon <= 2 THEN year - 1 ELSE year

MonthStart(mon) == (153 * (mon + (IF mon > 2 THEN -3 ELSE 9)) + 2) \div 5

EpochShift == 719468

(* 400-year eras, and the day within one, count the days of March-based    *)
(* years.                                                                  *)
LEMMA EraDays ==
  ASSUME NEW y \in Int PROVE EraDay(y) = MarchYears(y) /\ MarchYears(y) \in Int
<1>1. y \div 4 = 100 * (y \div 400) + (y % 400) \div 4 BY SMT
<1>2. y \div 100 = 4 * (y \div 400) + (y % 400) \div 100 BY SMT
<1>3. y = 400 * (y \div 400) + (y % 400) BY SMT
<1>4. y \div 400 \in Int /\ y % 400 \in Int /\ (y % 400) \div 4 \in Int /\ (y % 400) \div 100 \in Int BY SMT
<1>5. EraDay(y) = MarchYears(y) BY <1>1, <1>2, <1>3, <1>4, SMT DEF EraDay, MarchYears, Leaps
<1>6. MarchYears(y) \in Int BY SMT DEF MarchYears, Leaps
<1> QED BY Zenon, <1>5, <1>6

(* date_to_unix_time counts March-based years, the months since March and  *)
(* the days.                                                               *)
LEMMA DayOfDate ==
  ASSUME NEW year \in Int, NEW mon \in 1..12, NEW day \in Int
  PROVE  /\ DateToDay(year, mon, day) =
              MarchYears(MarchYear(year, mon)) + MonthStart(mon) + day - 1 - EpochShift
         /\ MarchYear(year, mon) \in Int /\ MonthStart(mon) \in Int
<1> DEFINE y == MarchYear(year, mon)
           m == MonthStart(mon)
<1>1. y \in Int /\ m \in Int BY SMT DEF MarchYear, MonthStart
<1>2. DateToDay(year, mon, day) = EraDay(y) + (m + day - 1) - EpochShift
  BY SMT DEF DateToDay, EraDay, EpochShift, MarchYear, MonthStart
<1> HIDE DEF y, m
<1>3. EraDay(y) = MarchYears(y) /\ MarchYears(y) \in Int BY <1>1, EraDays, SMT
<1>4. EpochShift \in Int BY SMT DEF EpochShift
<1>5. DateToDay(year, mon, day) = MarchYears(y) + m + day - 1 - EpochShift BY <1>1, <1>2, <1>3, <1>4, SMT
<1> QED BY Zenon, <1>1, <1>5 DEF y, m

(* The months since March, by 153 days to every five, begin where the      *)
(* calendar says.                                                          *)
LEMMA MonthStarts ==
  ASSUME NEW year, NEW mon \in 1..12
  PROVE  /\ DaysUpTo(year)[mon - 1] \in 0..335
         /\ mon <= 2 => MonthStart(mon) = 306 + DaysUpTo(year)[mon - 1]
         /\ mon > 2 => DaysUpTo(year)[mon - 1] = MonthStart(mon) + 59 + OneIfLeap(year)
<1> DEFINE d == DaysUpTo(year)[mon - 1]
           m == MonthStart(mon)
           l == OneIfLeap(year)
           G == /\ d \in 0..335
                /\ mon <= 2 => m = 306 + d
                /\ mon > 2 => d = m + 59 + l
<1>1. l \in 0..1 BY Zenon, MonthTable
<1>2. mon \in {1, 2, 3, 4, 5, 6, 7, 8, 9, 10, 11, 12} BY SMT
<1> HIDE DEF l
<1>3. CASE mon = 1 BY <1>1, <1>3, MonthSums, SMT DEF MonthStart, l
<1>4. CASE mon = 2 BY <1>1, <1>4, MonthSums, SMT DEF MonthStart, l
<1>5. CASE mon = 3 BY <1>1, <1>5, MonthSums, SMT DEF MonthStart, l
<1>6. CASE mon = 4 BY <1>1, <1>6, MonthSums, SMT DEF MonthStart, l
<1>7. CASE mon = 5 BY <1>1, <1>7, MonthSums, SMT DEF MonthStart, l
<1>8. CASE mon = 6 BY <1>1, <1>8, MonthSums, SMT DEF MonthStart, l
<1>9. CASE mon = 7 BY <1>1, <1>9, MonthSums, SMT DEF MonthStart, l
<1>10. CASE mon = 8 BY <1>1, <1>10, MonthSums, SMT DEF MonthStart, l
<1>11. CASE mon = 9 BY <1>1, <1>11, MonthSums, SMT DEF MonthStart, l
<1>12. CASE mon = 10 BY <1>1, <1>12, MonthSums, SMT DEF MonthStart, l
<1>13. CASE mon = 11 BY <1>1, <1>13, MonthSums, SMT DEF MonthStart, l
<1>14. CASE mon = 12 BY <1>1, <1>14, MonthSums, SMT DEF MonthStart, l
<1> QED BY <1>2, <1>3, <1>4, <1>5, <1>6, <1>7, <1>8, <1>9, <1>10, <1>11, <1>12, <1>13, <1>14, Zenon DEF l

(* The first of January. *)
NewYear(year) == 365 * (year - 1970) + (Leaps(year - 1) - 477)

(* CalendarDay in terms of the first of January.                           *)
LEMMA CalendarSum ==
  ASSUME NEW year \in Int, NEW mon \in 1..12, NEW day \in Int
  PROVE  CalendarDay(year, mon, day) = NewYear(year) + DaysUpTo(year)[mon - 1] + day - 1
BY LeapsCounted, SMT DEF CalendarDay, NewYear

(* The day number that date_to_unix_time computes by eras and by fifths of *)
(* 153 days is the one got by counting years, leap years and months from   *)
(* 1970, for every date (date_to_unix_time).                               *)
THEOREM CalendarRight ==
  ASSUME NEW year \in Int, NEW mon \in 1..12, NEW day \in Int
  PROVE  DateToDay(year, mon, day) = CalendarDay(year, mon, day) /\ CalendarDay(year, mon, day) \in Int
<1> DEFINE l == OneIfLeap(year)
           p == Leaps(year - 1)
           d == DaysUpTo(year)[mon - 1]
           m == MonthStart(mon)
<1>1. l \in 0..1 /\ p \in Int /\ Leaps(year) = p + l BY MonthTable, LeapStep, SMT
<1>2. CalendarDay(year, mon, day) = NewYear(year) + d + day - 1
  BY CalendarSum, Zenon
<1>3. DateToDay(year, mon, day) = MarchYears(MarchYear(year, mon)) + m + day - 1 - EpochShift
  BY DayOfDate, Zenon
<1>4. m \in Int BY DayOfDate, Zenon
<1>5. d \in 0..335 /\ (mon <= 2 => m = 306 + d) /\ (mon > 2 => d = m + 59 + l)
  <2>1. d \in 0..335 BY Zenon, MonthStarts
  <2>2. mon <= 2 => m = 306 + d BY Zenon, MonthStarts
  <2>3. mon > 2 => d = m + 59 + l BY Zenon, MonthStarts
  <2> QED BY Zenon, <2>1, <2>2, <2>3
<1>8. NewYear(year) = 365 * (year - 1970) + (p - 477) BY SMT DEF NewYear
<1>6. CASE mon <= 2
  <2>1. MarchYears(MarchYear(year, mon)) = 365 * (year - 1) + p
    BY <1>6, SMT DEF MarchYears, MarchYear
  <2> HIDE DEF l, p, d, m
  <2> QED BY <1>1, <1>2, <1>3, <1>4, <1>5, <1>6, <1>8, <2>1, SMT DEF EpochShift
<1>7. CASE mon > 2
  <2>1. MarchYears(MarchYear(year, mon)) = 365 * year + (p + l)
    BY <1>1, <1>7, SMT DEF MarchYears, MarchYear
  <2> HIDE DEF l, p, d, m
  <2> QED BY <1>1, <1>2, <1>3, <1>4, <1>5, <1>7, <1>8, <2>1, SMT DEF EpochShift
<1> QED BY <1>6, <1>7, SMT

(* The fields of a date that names a month.                                *)
LEMMA DateTyped ==
  ASSUME NEW v, IsDate(v), v.mon # 0
  PROVE  /\ v.mon \in 1..12 /\ v.day \in 0..99 /\ v.day \in Int
         /\ v.tod \in Nat /\ v.tod <= SecondsPerDay /\ v.year \in Nat
         /\ v.fmt = "rfc850" => v.year \in 0..99
<1>1. SecondsPerDay \in Nat BY SMT DEF SecondsPerDay
<1> QED BY <1>1, SMT DEF IsDate, DateFields

(* The fields of the clock.                                                *)
LEMMA ClockTyped ==
  ASSUME NEW now \in Clock
  PROVE  now.day \in Int /\ now.sec \in Nat /\ now.sec < SecondsPerDay
<1>1. SecondsPerDay \in Nat BY SMT DEF SecondsPerDay
<1> QED BY <1>1, SMT DEF Clock

(* A time of day on a date, as an instant: the leap second is the next day's first. *)

(* The second of a date, where 23:59:60 is the first of the next day.      *)
LEMMA InstantFields ==
  ASSUME NEW v, IsDate(v), v.mon # 0, NEW year \in Int, NEW c, NEW i,
         c = CalendarDay(year, v.mon, v.day), i = Instant(year, v.mon, v.day, v.tod)
  PROVE  /\ c \in Int
         /\ v.tod < SecondsPerDay => i.day = c /\ i.sec = v.tod
         /\ v.tod = SecondsPerDay => i.day = c + 1 /\ i.sec = 0
<1>1. v.mon \in 1..12 /\ v.day \in Int /\ v.tod \in Nat /\ v.tod <= SecondsPerDay BY DateTyped, Zenon
<1>2. c \in Int /\ DateToDay(year, v.mon, v.day) = c BY <1>1, CalendarRight, Zenon
<1>3. i = [day |-> DateToDay(year, v.mon, v.day) + v.tod \div SecondsPerDay, sec |-> v.tod % SecondsPerDay]
  BY Zenon DEF Instant
<1>4. i.day = c + v.tod \div SecondsPerDay /\ i.sec = v.tod % SecondsPerDay BY <1>2, <1>3, SMT
<1>5. ASSUME NEW t \in Nat, t < SecondsPerDay PROVE t \div SecondsPerDay = 0 /\ t % SecondsPerDay = t
  BY <1>5, SMT DEF SecondsPerDay
<1>6. SecondsPerDay \div SecondsPerDay = 1 /\ SecondsPerDay % SecondsPerDay = 0 BY SMT DEF SecondsPerDay
<1>7. c + 0 = c BY <1>2, SMT
<1> QED BY <1>1, <1>2, <1>4, <1>5, <1>6, <1>7, Zenon

(* The instant of a date has passed, by the calendar. *)
Passed(v, year, now) ==
  LET ago == CalendarDay(year, v.mon, v.day) IN
  ago < now.day \/ (ago = now.day /\ v.tod <= now.sec)

NoLater(d, t, e, s) == d < e \/ (d = e /\ t <= s)

Reads(c, t, d, s) ==
  /\ t < SecondsPerDay => d = c /\ s = t
  /\ t = SecondsPerDay => d = c + 1 /\ s = 0

(* That first second of the next day is compared as the last of its own.   *)
LEMMA Compared ==
  ASSUME NEW c \in Int, NEW t \in Nat, t <= SecondsPerDay, NEW e \in Int, NEW s \in Nat, s < SecondsPerDay,
         NEW d, NEW r, Reads(c, t, d, r)
  PROVE  NoLater(d, r, e, s) <=> NoLater(c, t, e, s)
<1>1. SecondsPerDay \in Nat BY SMT DEF SecondsPerDay
<1> QED BY <1>1, SMT DEF NoLater, Reads

(* NotAfter on instants is Passed on dates.                                *)
LEMMA InstantPassed ==
  ASSUME NEW v, IsDate(v), v.mon # 0, NEW year \in Int, NEW now \in Clock
  PROVE  NotAfter(Instant(year, v.mon, v.day, v.tod), now) <=> Passed(v, year, now)
<1> DEFINE c == CalendarDay(year, v.mon, v.day)
           i == Instant(year, v.mon, v.day, v.tod)
<1>1. v.tod \in Nat /\ v.tod <= SecondsPerDay BY DateTyped, Zenon
<1>2. now.day \in Int /\ now.sec \in Nat /\ now.sec < SecondsPerDay BY ClockTyped, Zenon
<1>3. c \in Int /\ Reads(c, v.tod, i.day, i.sec) BY InstantFields, Zenon DEF Reads
<1>4. NoLater(i.day, i.sec, now.day, now.sec) <=> NoLater(c, v.tod, now.day, now.sec)
  <2> HIDE DEF c, i
  <2> QED BY <1>1, <1>2, <1>3, Compared, Zenon
<1> QED BY <1>4, Zenon DEF NotAfter, Passed, NoLater

(* The same day of a later year is later.                                  *)
LEMMA LaterYear ==
  ASSUME NEW y \in Int, NEW z \in Int, y < z, NEW mon \in 1..12, NEW day \in Int
  PROVE  CalendarDay(y, mon, day) < CalendarDay(z, mon, day)
<1> DEFINE m == MonthStart(mon)
           a == MarchYear(y, mon)
           b == MarchYear(z, mon)
<1>1. m \in Int /\ a \in Int /\ b \in Int BY DayOfDate, Zenon
<1>2. a < b BY SMT DEF MarchYear
<1>3. CalendarDay(y, mon, day) = MarchYears(a) + m + day - 1 - EpochShift
  <2>1. DateToDay(y, mon, day) = CalendarDay(y, mon, day) BY CalendarRight, Zenon
  <2>2. DateToDay(y, mon, day) = MarchYears(a) + m + day - 1 - EpochShift BY DayOfDate, Zenon
  <2> QED BY <2>1, <2>2, Zenon
<1>4. CalendarDay(z, mon, day) = MarchYears(b) + m + day - 1 - EpochShift
  <2>1. DateToDay(z, mon, day) = CalendarDay(z, mon, day) BY CalendarRight, Zenon
  <2>2. DateToDay(z, mon, day) = MarchYears(b) + m + day - 1 - EpochShift BY DayOfDate, Zenon
  <2> QED BY <2>1, <2>2, Zenon
<1> HIDE DEF m, a, b
<1>5. MarchYears(a) < MarchYears(b) /\ MarchYears(a) \in Int /\ MarchYears(b) \in Int
  BY <1>1, <1>2, SMT DEF MarchYears, Leaps
<1>6. EpochShift \in Int BY SMT DEF EpochShift
<1> QED BY <1>1, <1>3, <1>4, <1>5, <1>6, SMT

(* What has passed in one year has passed in the years before.             *)
LEMMA PassedEarlier ==
  ASSUME NEW v, IsDate(v), v.mon # 0, NEW y \in Int, NEW z \in Int, y < z,
         NEW now \in Clock, Passed(v, z, now)
  PROVE  Passed(v, y, now)
<1> DEFINE a == CalendarDay(y, v.mon, v.day)
           b == CalendarDay(z, v.mon, v.day)
<1>1. v.mon \in 1..12 /\ v.day \in Int BY DateTyped, Zenon
<1>2. a < b BY <1>1, LaterYear, Zenon
<1>3. a \in Int /\ b \in Int BY <1>1, CalendarRight, Zenon
<1>4. now.day \in Int BY ClockTyped, Zenon
<1>5. b < now.day \/ b = now.day BY Zenon DEF Passed
<1>6. a < now.day
  <2> HIDE DEF a, b
  <2> QED BY <1>2, <1>3, <1>4, <1>5, SMT
<1> QED BY <1>6, Zenon DEF Passed

(* A date is in its year, or beside it when its day is 0 or past the       *)
(* month.                                                                  *)
LEMMA DayBounds ==
  ASSUME NEW year \in Int, NEW mon \in 1..12, NEW day \in 0..99
  PROVE  /\ CalendarDay(year, mon, day) \in Int /\ NewYear(year) \in Int
         /\ CalendarDay(year, mon, day) >= NewYear(year) - 1
         /\ CalendarDay(year, mon, day) <= NewYear(year) + 433
<1> DEFINE d == DaysUpTo(year)[mon - 1]
<1>1. NewYear(year) \in Int BY SMT DEF NewYear, Leaps
<1>2. day \in Int BY SMT
<1>3. d \in 0..335 BY MonthStarts, Zenon
<1>4. CalendarDay(year, mon, day) = NewYear(year) + d + day - 1 BY <1>2, CalendarSum, Zenon
<1> HIDE DEF d
<1> QED BY <1>1, <1>3, <1>4, SMT

YearsSince(first) == {y \in Int : first <= y /\ y <= first + 99}

Early == YearsSince(1850)

Late == YearsSince(2850)

(* A date of the nineteenth century has passed by any clock that is set.   *)
LEMMA FirstCentury ==
  ASSUME NEW v, IsDate(v), v.mon # 0, NEW y \in Early,
         NEW now \in Clock, now.day >= ClockFloor
  PROVE  Passed(v, y, now)
<1> DEFINE c == CalendarDay(y, v.mon, v.day)
<1>0. y \in Int BY Zenon DEF Early, YearsSince
<1>1. v.mon \in 1..12 /\ v.day \in 0..99 BY DateTyped, Zenon
<1>2. c \in Int /\ NewYear(y) \in Int /\ c <= NewYear(y) + 433 BY <1>0, <1>1, DayBounds, Zenon
<1>3. NewYear(y) <= 0 - 7000 BY SMT DEF NewYear, Leaps, Early, YearsSince
<1>4. now.day \in Int BY ClockTyped, Zenon
<1>5. c < now.day
  <2> HIDE DEF c
  <2>1. now.day >= 0 BY <1>4, SMT DEF ClockFloor
  <2> QED BY <1>2, <1>3, <1>4, <2>1, SMT
<1> QED BY <1>5, Zenon DEF Passed

(* A date of the twenty-ninth has not passed by a clock before 2800.       *)
LEMMA LastCentury ==
  ASSUME NEW v, IsDate(v), v.mon # 0, NEW y \in Late,
         NEW now \in Clock, now.day < ClockEnd
  PROVE  ~Passed(v, y, now)
<1> DEFINE c == CalendarDay(y, v.mon, v.day)
           e == ClockEnd
<1>0. y \in Int BY Zenon DEF Late, YearsSince
<1>1. v.mon \in 1..12 /\ v.day \in 0..99 BY DateTyped, Zenon
<1>2. c \in Int /\ NewYear(y) \in Int /\ c >= NewYear(y) - 1 BY <1>0, <1>1, DayBounds, Zenon
<1>3. e \in Int /\ NewYear(2800) \in Int /\ e <= NewYear(2800) + 433
  <2>1. 1 \in 1..12 /\ 1 \in 0..99 BY SMT
  <2>2. \A year \in Int : /\ CalendarDay(year, 1, 1) \in Int /\ NewYear(year) \in Int
                         /\ CalendarDay(year, 1, 1) <= NewYear(year) + 433
    BY Zenon, <2>1, DayBounds
  <2> QED BY <2>2, SMT DEF ClockEnd
<1>4. now.day \in Int BY ClockTyped, Zenon
<1>5. NewYear(2800) + 434 <= NewYear(y) BY SMT DEF NewYear, Leaps, Late, YearsSince
<1>6. ~(c < now.day) /\ c # now.day
  <2>1. now.day < e BY Zenon
  <2> HIDE DEF c, e
  <2> QED BY <1>2, <1>3, <1>4, <1>5, <2>1, SMT
<1> QED BY <1>6, Zenon DEF Passed

(* Of years 100 apart, the first that is less than 50 years ago is the     *)
(* last that is at most 50 years ahead.                                    *)
LEMMA CenturyChoice ==
  ASSUME NEW Y, Y \subseteq Nat, NEW S,
         \A y, z \in Int : y < z /\ z \in S => y \in S,
         \E y \in Y : y + 50 \notin S,
         \A y \in Y : y - 50 \in S \/ y - 100 \in Y,
         \A y, z \in Y : y < z => y + 100 <= z
  PROVE  LET m == Min({y \in Y : y + 50 \notin S})
         IN m = Max({y \in Y : y - 50 \in S}) /\ m \in Y
<1> DEFINE E == {y \in Y : y + 50 \notin S}
           F == {y \in Y : y - 50 \in S}
           m == Min(E)
<1>1. m \in E /\ \A y \in E : m <= y
  <2>1. E \subseteq Nat /\ E # {} BY Zenon
  <2> HIDE DEF E
  <2> QED BY <2>1, MinIndex, Zenon
<1> HIDE DEF m
<1>2. m \in Y /\ m \in Nat /\ m + 50 \notin S BY Zenon, <1>1
<1>3. m \in F
  <2> SUFFICES ASSUME m - 50 \notin S PROVE FALSE
    BY Zenon, <1>2
  <2>1. m - 100 \in Y BY Zenon, <1>2
  <2>2. m - 100 \in Nat /\ m - 100 + 50 = m - 50 /\ ~(m <= m - 100) BY <1>2, <2>1, SMT
  <2>3. m - 100 \in E BY Zenon, <2>1, <2>2
  <2> QED BY Zenon, <1>1, <2>2, <2>3
<1>4. ASSUME NEW y \in F PROVE y <= m
  <2>1. y \in Y /\ y \in Nat /\ y - 50 \in S OBVIOUS
  <2>2. CASE m < y
    <3>1. m + 100 <= y BY Zenon, <1>2, <2>1, <2>2
    <3>2. m + 50 \in Int /\ y - 50 \in Int /\ (m + 50 < y - 50 \/ m + 50 = y - 50) BY <1>2, <2>1, <3>1, SMT
    <3>3. m + 50 \in S BY Zenon, <2>1, <3>2
    <3> QED BY Zenon, <1>2, <3>3
  <2>3. CASE ~(m < y) BY <1>2, <2>1, <2>3, SMT
  <2> QED BY Zenon, <2>2, <2>3
<1>5. m = Max(F)
  <2>1. F \subseteq Nat BY Zenon
  <2> HIDE DEF F
  <2>2. ASSUME NEW x \in F, \A y \in F : x >= y PROVE x = m
    <3>1. x >= m /\ x <= m /\ x \in Nat BY <1>3, <1>4, <2>1, <2>2, Zenon
    <3> QED BY <1>2, <3>1, SMT
  <2>3. \A y \in F : m >= y
    <3> TAKE y \in F
    <3>1. y <= m /\ y \in Nat BY <1>4, <2>1, Zenon
    <3> QED BY <1>2, <3>1, SMT
  <2> QED BY Zenon, <1>3, <2>2, <2>3 DEF Max
<1> QED BY Zenon, <1>2, <1>5 DEF m

YearsOf(yy) == {1900 + yy + 100 * k : k \in Centuries}

(* The years of two digits are 100 apart, from the nineteenth century to   *)
(* the twenty-ninth.                                                       *)
LEMMA YearsApart ==
  ASSUME NEW yy \in 0..99
  PROVE  /\ YearsOf(yy) \subseteq Nat
         /\ \E y \in YearsOf(yy) : y + 50 \in Late
         /\ \A y \in YearsOf(yy) : y - 50 \in Early \/ y - 100 \in YearsOf(yy)
         /\ \A y, z \in YearsOf(yy) : y < z => y + 100 <= z
<1>1. \A y \in YearsOf(yy) : \E k \in 0..9 : y = 1900 + yy + 100 * k BY SMT DEF YearsOf, Centuries
<1>2. \A k \in 0..9 : 1900 + yy + 100 * k \in YearsOf(yy) BY SMT DEF YearsOf, Centuries
<1>3. YearsOf(yy) \subseteq Nat BY <1>1, SMT
<1>4. \E y \in YearsOf(yy) : y + 50 \in Late
  <2>1. 1900 + yy + 100 * 9 \in YearsOf(yy) BY <1>2, SMT
  <2>2. 1900 + yy + 100 * 9 + 50 \in Late BY SMT DEF Late, YearsSince
  <2> QED BY <2>1, <2>2, SMT
<1>5. ASSUME NEW y \in YearsOf(yy) PROVE y - 50 \in Early \/ y - 100 \in YearsOf(yy)
  <2>1. PICK k \in 0..9 : y = 1900 + yy + 100 * k BY <1>1, SMT
  <2>2. CASE k = 0 BY <2>1, <2>2, SMT DEF Early, YearsSince
  <2>3. CASE k # 0
    <3>1. y - 100 = 1900 + yy + 100 * (k - 1) /\ k - 1 \in 0..9 BY <2>1, <2>3, SMT
    <3> QED BY <1>2, <3>1, SMT
  <2> QED BY <2>2, <2>3, SMT
<1>6. ASSUME NEW y \in YearsOf(yy), NEW z \in YearsOf(yy), y < z PROVE y + 100 <= z
  <2>1. PICK k \in 0..9 : y = 1900 + yy + 100 * k BY <1>1, SMT
  <2>2. PICK l \in 0..9 : z = 1900 + yy + 100 * l BY <1>1, SMT
  <2> QED BY <1>6, <2>1, <2>2, SMT
<1> QED BY <1>3, <1>4, <1>5, <1>6, SMT

(* A two-digit year is read as the last one that is at most 50 years ahead *)
(* (http_date_to_unix_time).                                               *)
LEMMA TwoDigitYear ==
  ASSUME NEW v, IsDate(v), v.mon # 0, v.fmt = "rfc850",
         NEW now \in Clock, now.day >= ClockFloor, now.day < ClockEnd
  PROVE  /\ FullYear(v, now) = Max({y \in YearsOf(v.year) : Passed(v, y - 50, now)})
         /\ FullYear(v, now) \in Nat
<1> DEFINE Y == YearsOf(v.year)
           S == {y \in Int : Passed(v, y, now)}
<1>1. /\ Y \subseteq Nat
      /\ \E y \in Y : y + 50 \in Late
      /\ \A y \in Y : y - 50 \in Early \/ y - 100 \in Y
      /\ \A y, z \in Y : y < z => y + 100 <= z
  <2>1. v.year \in 0..99 BY DateTyped, Zenon
  <2> QED BY <2>1, YearsApart, Zenon
<1>2. FullYear(v, now) = Min({y \in Y : ~NotAfter(Instant(y + 50, v.mon, v.day, v.tod), now)})
  BY SMT DEF FullYear, YearsOf
<1> HIDE DEF Y
<1>3. \A y \in Y : y + 50 \in Int /\ y - 50 \in Int
  <2>1. \A y \in Nat : y + 50 \in Int /\ y - 50 \in Int BY SMT
  <2> QED BY <1>1, <2>1, Zenon
<1>4. {y \in Y : ~NotAfter(Instant(y + 50, v.mon, v.day, v.tod), now)} = {y \in Y : y + 50 \notin S}
  BY <1>3, InstantPassed, Zenon
<1>5. {y \in Y : Passed(v, y - 50, now)} = {y \in Y : y - 50 \in S} BY <1>3, Zenon
<1>6. \A y, z \in Int : y < z /\ z \in S => y \in S BY PassedEarlier, Zenon
<1>7. \E y \in Y : y + 50 \notin S BY <1>1, LastCentury, Zenon
<1>8. \A y \in Y : y - 50 \in S \/ y - 100 \in Y BY <1>1, <1>3, FirstCentury, Zenon
<1> HIDE DEF S
<1>9. Min({y \in Y : y + 50 \notin S}) = Max({y \in Y : y - 50 \in S}) /\ Min({y \in Y : y + 50 \notin S}) \in Y
  BY <1>1, <1>6, <1>7, <1>8, CenturyChoice, Zenon
<1>10. FullYear(v, now) = Max({y \in Y : Passed(v, y - 50, now)}) /\ FullYear(v, now) \in Nat
  BY <1>1, <1>2, <1>4, <1>5, <1>9, Zenon
<1> QED BY <1>10, Zenon DEF Y

NextDelay(r, c) == IF r <= MaxRetryAfter THEN r * 10 + c ELSE r

(* The accumulator of parse_retry_after takes one digit at a time, and     *)
(* none once it is past the cap.                                           *)
LEMMA DigitsRecursion ==
  ASSUME NEW digits \in Seq(0..9)
  PROVE  /\ DigitsAfter(digits)[0] = 0
         /\ \A n \in 1..Len(digits) : DigitsAfter(digits)[n] = NextDelay(DigitsAfter(digits)[n - 1], digits[n])
<1> DEFINE N == Len(digits)
           g == DigitsAfter(digits)
           step == [x \in (1..N) \X Nat |-> NextDelay(x[2], digits[x[1]])]
<1>1. N \in Nat /\ \A n \in 1..N : digits[n] \in 0..9 OBVIOUS
<1> HIDE DEF N
<1>2. \A n \in 1..N : \A r \in Nat : NextDelay(r, digits[n]) \in Nat BY <1>1, SMT DEF NextDelay
<1>3. step \in [(1..N) \X Nat -> Nat] BY <1>2, Zenon
<1>4. \A n \in 1..N : \A r \in Nat : step[<<n, r>>] = NextDelay(r, digits[n]) OBVIOUS
<1>5. PICK f \in [0..N -> Nat] : Iterates(f, 0, N, step)
  <2>1. 0 \in Nat OBVIOUS
  <2> HIDE DEF step, g
  <2> QED BY <1>1, <1>3, <2>1, RecursionExists, Zenon
<1> HIDE DEF step
<1>6. \A i \in 1..N : f[i] = NextDelay(f[i-1], digits[i])
  <2>1. \A i \in 1..N : i - 1 \in 0..N BY <1>1
  <2> QED BY <1>4, <1>5, <2>1, Zenon DEF Iterates
<1>7. f = [n \in 0..N |-> IF n = 0 THEN 0 ELSE NextDelay(f[n-1], digits[n])]
  BY <1>1, <1>5, <1>6 DEF Iterates
<1>8. g = [n \in 0..N |-> IF n = 0 THEN 0 ELSE NextDelay(g[n-1], digits[n])]
  BY <1>7, Zenon DEF DigitsAfter, NextDelay, N
<1> HIDE DEF g
<1>9. g[0] = 0 /\ \A n \in 1..N : g[n] = NextDelay(g[n-1], digits[n]) BY <1>1, <1>8
<1> QED BY Zenon, <1>9 DEF g, N

(* So does the number itself.                                              *)
LEMMA NumberRecursion ==
  ASSUME NEW digits \in Seq(0..9)
  PROVE  /\ NumberAfter(digits)[0] = 0
         /\ \A n \in 1..Len(digits) : NumberAfter(digits)[n] = NumberAfter(digits)[n - 1] * 10 + digits[n]
<1> DEFINE N == Len(digits)
           g == NumberAfter(digits)
           step == [x \in (1..N) \X Nat |-> x[2] * 10 + digits[x[1]]]
<1>1. N \in Nat /\ \A n \in 1..N : digits[n] \in 0..9 OBVIOUS
<1> HIDE DEF N
<1>2. \A n \in 1..N : \A r \in Nat : r * 10 + digits[n] \in Nat BY <1>1, SMT
<1>3. step \in [(1..N) \X Nat -> Nat] BY <1>2, Zenon
<1>4. \A n \in 1..N : \A r \in Nat : step[<<n, r>>] = r * 10 + digits[n] OBVIOUS
<1>5. PICK f \in [0..N -> Nat] : Iterates(f, 0, N, step)
  <2>1. 0 \in Nat OBVIOUS
  <2> HIDE DEF step, g
  <2> QED BY <1>1, <1>3, <2>1, RecursionExists, Zenon
<1> HIDE DEF step
<1>6. \A i \in 1..N : f[i] = f[i-1] * 10 + digits[i]
  <2>1. \A i \in 1..N : i - 1 \in 0..N BY <1>1
  <2> QED BY <1>4, <1>5, <2>1, Zenon DEF Iterates
<1>7. f = [n \in 0..N |-> IF n = 0 THEN 0 ELSE f[n-1] * 10 + digits[n]]
  BY <1>1, <1>5, <1>6 DEF Iterates
<1>8. g = [n \in 0..N |-> IF n = 0 THEN 0 ELSE g[n-1] * 10 + digits[n]]
  BY <1>7, Zenon DEF NumberAfter, N
<1> HIDE DEF g
<1>9. g[0] = 0 /\ \A n \in 1..N : g[n] = g[n-1] * 10 + digits[n] BY <1>1, <1>8
<1> QED BY Zenon, <1>9 DEF g, N

(* The capped accumulator and the number read so far. *)
Capped(a, b) ==
  /\ a \in Nat /\ b \in Nat
  /\ a <= MaxRetryAfter => a = b
  /\ a > MaxRetryAfter => b > MaxRetryAfter

(* The accumulator is the number, or both are past the cap.                *)
LEMMA DigitsCapped ==
  ASSUME NEW digits \in Seq(0..9)
  PROVE  Capped(DigitsDelay(digits), Number(digits))
<1> DEFINE N == Len(digits)
           g == DigitsAfter(digits)
           h == NumberAfter(digits)
           T == {n \in 0..N : Capped(g[n], h[n])}
<1>1. N \in Nat /\ \A n \in 1..N : digits[n] \in 0..9 OBVIOUS
<1>2. g[0] = 0 /\ \A n \in 1..N : g[n] = NextDelay(g[n - 1], digits[n]) BY Zenon, DigitsRecursion
<1>3. h[0] = 0 /\ \A n \in 1..N : h[n] = h[n - 1] * 10 + digits[n] BY Zenon, NumberRecursion
<1>4. DigitsDelay(digits) = g[N] /\ Number(digits) = h[N] BY Zenon DEF DigitsDelay, Number
<1> HIDE DEF N, g, h
<1>5. 0 \in T BY <1>1, <1>2, <1>3, SMT DEF Capped, MaxRetryAfter
<1>6. ASSUME NEW n \in 1..N, n - 1 \in T PROVE n \in T
  <2>1. Capped(g[n - 1], h[n - 1]) BY Zenon, <1>6
  <2>2. digits[n] \in 0..9 /\ n \in 0..N BY <1>1
  <2>3. g[n] = NextDelay(g[n - 1], digits[n]) /\ h[n] = h[n - 1] * 10 + digits[n] BY Zenon, <1>2, <1>3
  <2>4. Capped(g[n], h[n])
    <3> DEFINE a == g[n - 1]
               b == h[n - 1]
               c == digits[n]
    <3>1. g[n] = NextDelay(a, c) /\ h[n] = b * 10 + c /\ Capped(a, b) /\ c \in 0..9 BY Zenon, <2>1, <2>2, <2>3
    <3> HIDE DEF a, b, c
    <3> QED BY <3>1, SMT DEF Capped, NextDelay, MaxRetryAfter
  <2> QED BY Zenon, <2>2, <2>4
<1>7. \A n \in 0..N : n \in T
  <2> HIDE DEF T
  <2> QED BY <1>1, <1>5, <1>6, LoopInduction, Zenon
<1>8. N \in 0..N BY <1>1
<1> QED BY Zenon, <1>4, <1>7, <1>8

(* Max and Min of two numbers.                                             *)
LEMMA Bounded ==
  ASSUME NEW a \in Int, NEW b \in Int
  PROVE  /\ Max({a, b}) = IF a >= b THEN a ELSE b
         /\ Min({a, b}) = IF a <= b THEN a ELSE b
<1>1. Max({a, b}) \in {a, b} /\ Max({a, b}) >= a /\ Max({a, b}) >= b
  <2>1. \E x \in {a, b} : \A y \in {a, b} : x >= y OBVIOUS
  <2>2. Max({a, b}) \in {a, b} /\ \A y \in {a, b} : Max({a, b}) >= y BY Zenon, <2>1 DEF Max
  <2> QED BY Zenon, <2>2
<1>2. Min({a, b}) \in {a, b} /\ Min({a, b}) <= a /\ Min({a, b}) <= b
  <2>1. \E x \in {a, b} : \A y \in {a, b} : x <= y OBVIOUS
  <2>2. Min({a, b}) \in {a, b} /\ \A y \in {a, b} : Min({a, b}) <= y BY Zenon, <2>1 DEF Min
  <2> QED BY Zenon, <2>2
<1> QED BY <1>1, <1>2

Clipped(n) == IF n < 0 THEN 0 ELSE IF n > MaxRetryAfter THEN MaxRetryAfter ELSE n

(* The two bounds at the end of parse_retry_after.                         *)
LEMMA ClipBounds ==
  ASSUME NEW n \in Int PROVE Max({0, Min({MaxRetryAfter, n})}) = Clipped(n)
<1> DEFINE m == Min({MaxRetryAfter, n})
<1>1. MaxRetryAfter \in Int BY SMT DEF MaxRetryAfter
<1>2. m = (IF MaxRetryAfter <= n THEN MaxRetryAfter ELSE n) /\ m \in Int BY <1>1, Bounded, SMT
<1> HIDE DEF m
<1>3. Max({0, m}) = IF 0 >= m THEN 0 ELSE m BY <1>2, Bounded, SMT
<1>4. Max({0, m}) = Clipped(n) BY <1>2, <1>3, SMT DEF Clipped, MaxRetryAfter
<1> QED BY Zenon, <1>4 DEF m

(* No wait stays none.                                                     *)
LEMMA ZeroClipped == Clipped(0) = 0
BY SMT DEF Clipped, MaxRetryAfter

(* A number of seconds is waited for, up to a day.                         *)
LEMMA WaitForDigits ==
  ASSUME NEW v, NEW now, v \in [kind : {"digits"}, digits : Seq(0..9), blankTail : BOOLEAN]
  PROVE  WaitsAsTold(v, now)
<1> DEFINE a == DigitsDelay(v.digits)
           b == Number(v.digits)
<1>1. v.kind = "digits" /\ v.digits \in Seq(0..9) BY Zenon
<1>2. Capped(a, b) BY <1>1, DigitsCapped, Zenon
<1> HIDE DEF a, b
<1>3. a \in Int /\ b \in Int /\ Clipped(a) = Clipped(b)
  BY <1>2, SMT DEF Capped, Clipped, MaxRetryAfter
<1>4. Max({0, Min({MaxRetryAfter, a})}) = Max({0, Min({MaxRetryAfter, b})}) BY <1>3, ClipBounds, Zenon
<1>5. Max({0, Min({MaxRetryAfter, 0})}) = 0
  <2>1. 0 \in Int BY SMT
  <2> QED BY <2>1, ZeroClipped, ClipBounds, Zenon
<1>6. CASE v.blankTail
  <2>1. Delay(v, now) = a BY <1>1, <1>6, Zenon DEF Delay, a
  <2>2. ParseRetryAfter(v, now) = Max({0, Min({MaxRetryAfter, b})}) BY <1>4, <2>1, Zenon DEF ParseRetryAfter
  <2> QED BY <1>1, <1>6, <2>2, Zenon DEF WaitsAsTold, b
<1>7. CASE ~v.blankTail
  <2>1. Delay(v, now) = 0 BY <1>1, <1>7, Zenon DEF Delay
  <2>2. ParseRetryAfter(v, now) = 0 BY <1>5, <2>1, Zenon DEF ParseRetryAfter
  <2> QED BY <1>1, <1>7, <2>2, Zenon DEF WaitsAsTold
<1> QED BY <1>6, <1>7, Zenon

(* A date is one of the calendar exactly when its day is one of its        *)
(* month's.                                                                *)
LEMMA DateExists ==
  ASSUME NEW v, IsDate(v), v.mon # 0, NEW now
  PROVE  DateValid(v, now) <=> v.day \in 1..DaysIn(FullYear(v, now), v.mon)
<1> DEFINE y == FullYear(v, now)
           m == v.mon
           d == v.day
<1>1. m \in 1..12 /\ d \in Int BY DateTyped, Zenon
<1>2. MonthDays[2] = 29 BY SMT DEF MonthDays
<1>3. DateValid(v, now) <=> d \in 1..MonthDays[m] /\ ~(m = 2 /\ d = 29 /\ ~Leap(y))
  BY Zenon DEF DateValid
<1> HIDE DEF y, m, d
<1>4. CASE m = 2 /\ ~Leap(y)
  <2>1. DaysIn(y, m) = 28 BY <1>4, Zenon DEF DaysIn
  <2>2. d \in 1..28 <=> d \in 1..29 /\ d # 29 BY <1>1, SMT
  <2> QED BY <1>2, <1>3, <1>4, <2>1, <2>2, Zenon DEF y, m, d
<1>5. CASE ~(m = 2 /\ ~Leap(y))
  <2>1. DaysIn(y, m) = MonthDays[m] BY <1>5, Zenon DEF DaysIn
  <2> QED BY <1>3, <1>5, <2>1, Zenon DEF y, m, d
<1> QED BY <1>4, <1>5, Zenon

(* What is left until a date, by the day it falls on. *)
Told(c, t, e, s) ==
  IF c - e \in -3..3 THEN Clipped((c - e) * SecondsPerDay + t - s)
  ELSE IF c < e THEN 0 ELSE MaxRetryAfter

Span(d, r, e, s) == Max({-3, Min({3, d - e})}) * SecondsPerDay + r - s

OnTheDay(c, t, e, s, d, r) ==
  /\ c \in Int /\ t \in Nat /\ t <= SecondsPerDay
  /\ e \in Int /\ s \in Nat /\ s < SecondsPerDay /\ Reads(c, t, d, r)

(* The seconds until a date, with the days between clipped to three either *)
(* way, are the same once bounded to a day.                                *)
LEMMA DistanceClipped ==
  ASSUME NEW c, NEW t, NEW e, NEW s, NEW d, NEW r, OnTheDay(c, t, e, s, d, r)
  PROVE  Span(d, r, e, s) \in Int /\ Clipped(Span(d, r, e, s)) = Told(c, t, e, s)
<1> DEFINE n == Min({3, d - e})
           x == Max({-3, n})
<1>0. /\ c \in Int /\ t \in Nat /\ t <= SecondsPerDay
      /\ e \in Int /\ s \in Nat /\ s < SecondsPerDay /\ Reads(c, t, d, r)
  BY Zenon DEF OnTheDay
<1>1. SecondsPerDay \in Nat BY <1>0, SMT DEF SecondsPerDay
<1>2. d \in Int /\ r \in Nat /\ ((d = c /\ r = t /\ t < SecondsPerDay) \/ (d = c + 1 /\ r = 0 /\ t = SecondsPerDay))
  BY <1>0, <1>1, SMT DEF Reads
<1>3. n = (IF 3 <= d - e THEN 3 ELSE d - e) /\ n \in Int
  <2>1. d - e \in Int /\ 3 \in Int BY <1>0, <1>2, SMT
  <2>2. n = IF 3 <= d - e THEN 3 ELSE d - e BY <2>1, Bounded, Zenon
  <2> QED BY <1>0, <2>1, <2>2, SMT
<1> HIDE DEF n
<1>4. x = (IF -3 >= n THEN -3 ELSE n) /\ x \in Int
  <2>1. -3 \in Int BY <1>0, SMT
  <2>2. x = IF -3 >= n THEN -3 ELSE n BY <1>3, <2>1, Bounded, Zenon
  <2> QED BY <1>0, <1>3, <2>1, <2>2, SMT
<1> HIDE DEF x
<1>5. x \in -3..3 BY <1>0, <1>2, <1>3, <1>4, SMT
<1>6. x * SecondsPerDay + r - s \in Int BY <1>0, <1>1, <1>2, <1>5, SMT DEF SecondsPerDay
<1>7. Clipped(x * SecondsPerDay + r - s) = Told(c, t, e, s)
  <2>1. CASE c - e \in -3..3
    <3>1. CASE d = c /\ r = t
      <4>1. x = c - e BY <1>0, <1>2, <1>3, <1>4, <2>1, <3>1, SMT
      <4> QED BY <2>1, <3>1, <4>1, Zenon DEF Told
    <3>2. CASE d = c + 1 /\ r = 0 /\ t = SecondsPerDay
      <4>1. Told(c, t, e, s) = Clipped((c - e) * SecondsPerDay + t - s) BY <2>1, Zenon DEF Told
      <4>2. CASE c - e # 3
        <5>1. x = c - e + 1 BY <1>0, <1>2, <1>3, <1>4, <2>1, <3>2, <4>2, SMT
        <5>2. x * SecondsPerDay + r - s = (c - e) * SecondsPerDay + t - s
          BY <1>0, <3>2, <5>1, SMT DEF SecondsPerDay
        <5> QED BY <4>1, <5>2, Zenon
      <4>3. CASE c - e = 3
        <5>1. x = 3 BY <1>0, <1>2, <1>3, <1>4, <3>2, <4>3, SMT
        <5>2. Clipped(x * SecondsPerDay + r - s) = MaxRetryAfter
          BY <1>0, <3>2, <5>1, SMT DEF Clipped, MaxRetryAfter, SecondsPerDay
        <5>3. Clipped((c - e) * SecondsPerDay + t - s) = MaxRetryAfter
          BY <1>0, <3>2, <4>3, SMT DEF Clipped, MaxRetryAfter, SecondsPerDay
        <5> QED BY <4>1, <5>2, <5>3, Zenon
      <4> QED BY <4>2, <4>3, Zenon
    <3> QED BY <1>2, <3>1, <3>2, Zenon
  <2>2. CASE c - e \notin -3..3 /\ c < e
    <3>1. x = -3 BY <1>0, <1>2, <1>3, <1>4, <2>2, SMT
    <3>2. r < SecondsPerDay BY <1>0, <1>1, <1>2, SMT DEF SecondsPerDay
    <3>3. Clipped(x * SecondsPerDay + r - s) = 0
      BY <1>0, <1>2, <3>1, <3>2, SMT DEF Clipped, MaxRetryAfter, SecondsPerDay
    <3> QED BY <2>2, <3>3, Zenon DEF Told
  <2>3. CASE c - e \notin -3..3 /\ ~(c < e)
    <3>1. x = 3 BY <1>0, <1>2, <1>3, <1>4, <2>3, SMT
    <3>2. Clipped(x * SecondsPerDay + r - s) = MaxRetryAfter
      BY <1>0, <1>2, <3>1, SMT DEF Clipped, MaxRetryAfter, SecondsPerDay
    <3> QED BY <2>3, <3>2, Zenon DEF Told
  <2> QED BY <2>1, <2>2, <2>3, Zenon
<1> QED BY <1>6, <1>7, Zenon DEF Span, x, n

(* The year a date is in, by the calendar. *)
YearTold(v, now) ==
  IF v.fmt # "rfc850" THEN v.year
  ELSE Max({y \in YearsOf(v.year) : Passed(v, y - 50, now)})

(* A date is waited for, up to a day, and not at all when it has passed or *)
(* is no date.                                                             *)
LEMMA WaitForDate ==
  ASSUME NEW v, NEW now \in Clock, now.day < ClockEnd, IsDate(v)
  PROVE  WaitsAsTold(v, now)
<1> DEFINE y == FullYear(v, now)
           c == CalendarDay(y, v.mon, v.day)
           i == DateInstant(v, now)
           w == ParseRetryAfter(v, now)
           f == Distance(i, now)
<1>1. v.kind # "digits" BY SMT DEF IsDate, DateFields
<1>2. now.day \in Int /\ now.sec \in Nat /\ now.sec < SecondsPerDay BY ClockTyped, Zenon
<1>3. Delay(v, now) = 0 => w = 0
  <2>1. 0 \in Int BY SMT
  <2>2. Max({0, Min({MaxRetryAfter, 0})}) = 0 BY <2>1, ZeroClipped, ClipBounds, Zenon
  <2> QED BY <2>2, Zenon DEF ParseRetryAfter
<1>4. CASE v.mon = 0 \/ now.day < ClockFloor
  <2>1. ~(now.day >= ClockFloor /\ v.mon # 0) BY <1>2, <1>4, SMT DEF ClockFloor
  <2>2. Delay(v, now) = 0 BY <1>1, <2>1, Zenon DEF Delay
  <2> QED BY <1>1, <1>3, <1>4, <2>2, Zenon DEF WaitsAsTold
<1>5. CASE v.mon # 0 /\ ~(now.day < ClockFloor)
  <2>1. now.day >= ClockFloor BY <1>2, <1>5, SMT DEF ClockFloor
  <2>2. y = YearTold(v, now) /\ y \in Int
    <3>1. CASE v.fmt = "rfc850"
      <4>1. y = Max({x \in YearsOf(v.year) : Passed(v, x - 50, now)}) /\ y \in Nat
        BY <1>5, <2>1, <3>1, TwoDigitYear, Zenon
      <4>2. y \in Int
        <5> HIDE DEF y
        <5> QED BY <4>1, SMT
      <4> QED BY <3>1, <4>1, <4>2, Zenon DEF YearTold
    <3>2. CASE v.fmt # "rfc850"
      <4>1. y = v.year BY <3>2, Zenon DEF FullYear
      <4>2. v.year \in Nat BY <1>5, DateTyped, Zenon
      <4>3. y \in Int
        <5> HIDE DEF y
        <5> QED BY <4>1, <4>2, SMT
      <4> QED BY <3>2, <4>1, <4>3, Zenon DEF YearTold
    <3> QED BY <3>1, <3>2, Zenon
  <2>3. WaitsAsTold(v, now) <=>
          IF v.day \notin 1..DaysIn(y, v.mon) THEN w = 0 ELSE w = Told(c, v.tod, now.day, now.sec)
    <3>1. WaitsAsTold(v, now) <=>
            LET year == YearTold(v, now)
                ago == CalendarDay(year, v.mon, v.day)
                exact == (ago - now.day) * SecondsPerDay + v.tod - now.sec
            IN IF v.day \notin 1..DaysIn(year, v.mon) THEN w = 0
               ELSE IF ago - now.day \in -3..3 THEN w = Max({0, Min({MaxRetryAfter, exact})})
               ELSE w = IF ago < now.day THEN 0 ELSE MaxRetryAfter
      BY <1>1, <1>5, Zenon DEF WaitsAsTold, YearTold, YearsOf, Passed
    <3>2. c \in Int /\ v.tod \in Nat
      <4>1. v.mon \in 1..12 /\ v.day \in Int /\ v.tod \in Nat BY <1>5, DateTyped, Zenon
      <4> QED BY <2>2, <4>1, CalendarRight, Zenon
    <3>3. (c - now.day) * SecondsPerDay + v.tod - now.sec \in Int
      <4> HIDE DEF c
      <4> QED BY <1>2, <3>2, SMT DEF SecondsPerDay
    <3> HIDE DEF c
    <3>4. Max({0, Min({MaxRetryAfter, (c - now.day) * SecondsPerDay + v.tod - now.sec})})
            = Clipped((c - now.day) * SecondsPerDay + v.tod - now.sec)
      BY <3>3, ClipBounds, Zenon
    <3> HIDE DEF w, y
    <3> QED BY <2>2, <3>1, <3>4, Zenon DEF Told, c
  <2>4. DateValid(v, now) <=> v.day \in 1..DaysIn(y, v.mon) BY <1>5, DateExists, Zenon
  <2>5. CASE v.day \notin 1..DaysIn(y, v.mon)
    <3>1. Delay(v, now) = 0 BY <1>1, <2>4, <2>5, Zenon DEF Delay
    <3> QED BY <1>3, <2>3, <2>5, <3>1, Zenon
  <2>6. CASE v.day \in 1..DaysIn(y, v.mon)
    <3>1. c \in Int /\ Reads(c, v.tod, i.day, i.sec)
      BY <1>5, <2>2, InstantFields, Zenon DEF Reads, DateInstant
    <3>2. v.tod \in Nat /\ v.tod <= SecondsPerDay BY <1>5, DateTyped, Zenon
    <3> HIDE DEF c, i
    <3>3. CASE i.day >= 0
      <4>1. Delay(v, now) = f BY <1>1, <1>5, <2>1, <2>4, <2>6, <3>3, Zenon DEF Delay, i
      <4>2. f = Span(i.day, i.sec, now.day, now.sec) BY Zenon DEF Distance, Span
      <4> HIDE DEF f
      <4>3. f \in Int /\ Clipped(f) = Told(c, v.tod, now.day, now.sec)
        <5> DEFINE p == Span(i.day, i.sec, now.day, now.sec)
        <5>1. p \in Int /\ Clipped(p) = Told(c, v.tod, now.day, now.sec)
          <6>1. OnTheDay(c, v.tod, now.day, now.sec, i.day, i.sec) BY <1>2, <3>1, <3>2, Zenon DEF OnTheDay
          <6> QED BY <6>1, DistanceClipped, Zenon
        <5> QED BY <4>2, <5>1, Zenon
      <4>4. w = Clipped(f) BY <4>1, <4>3, ClipBounds, Zenon DEF ParseRetryAfter
      <4> QED BY <2>3, <2>6, <4>3, <4>4, Zenon
    <3>4. CASE ~(i.day >= 0)
      <4>1. Delay(v, now) = 0 BY <1>1, <3>4, Zenon DEF Delay, i
      <4>2. c < 0
        <5>1. SecondsPerDay \in Nat BY SMT DEF SecondsPerDay
        <5>2. i.day = c \/ i.day = c + 1 BY <3>1, <3>2, <5>1, SMT DEF Reads
        <5>3. ASSUME NEW d, d = c \/ d = c + 1, ~(d >= 0) PROVE c < 0 BY <3>1, <5>3, SMT
        <5> QED BY <3>4, <5>2, <5>3, Zenon
      <4>3. c < now.day /\ c - now.day \notin -3..3
        <5>1. now.day >= 4 BY <1>2, <2>1, SMT DEF ClockFloor
        <5> QED BY <1>2, <3>1, <4>2, <5>1, SMT
      <4>4. Told(c, v.tod, now.day, now.sec) = 0 BY <4>3, Zenon DEF Told
      <4> QED BY <1>3, <2>3, <2>6, <4>1, <4>4, Zenon
    <3> QED BY <3>3, <3>4, Zenon
  <2> QED BY <2>5, <2>6, Zenon
<1> QED BY <1>4, <1>5, Zenon

(* What a client waits is what Retry-After says: the number of seconds, or *)
(* the time until the date by the calendar, never negative and at most a   *)
(* day, for every header value and every clock before 2800                 *)
(* (parse_retry_after, date_to_unix_time).                                 *)
THEOREM WaitsByTheCalendar ==
  ASSUME NEW v, NEW now, WaitCall(v, now)
  PROVE  WaitsAsTold(v, now)
<1>1. now \in Clock /\ now.day < ClockEnd BY Zenon DEF WaitCall
<1>2. v \in [kind : {"digits"}, digits : Seq(0..9), blankTail : BOOLEAN] \/ IsDate(v) BY Zenon DEF WaitCall
<1> QED BY <1>1, <1>2, WaitForDigits, WaitForDate, Zenon
-----------------------------------------------------------------------------
(* Every state is a call of an algorithm on one of its inputs.             *)
Called == alg \in Algs /\ in \in Inputs(alg)

(* The call stays what it is.                                              *)
LEMMA CalledHolds == Spec => []Called
<1>1. Init => Called
  BY Zenon DEF Init, Called
<1>2. Called /\ [Next]_vars => Called'
  BY Zenon DEF Called, Next, vars
<1> QED BY <1>1, <1>2, PTL DEF Spec

(* WaitsRight, for every header value, every clock before 2800, every list *)
(* of addresses and every timeout.                                         *)
THEOREM WaitsHold == Spec => []WaitsRight
<1>1. Called => WaitsRight
  BY Zenon, InputsAssumption, WaitsByTheCalendar, DialWithinTimeout
  DEF Called, WaitsRight
<1> QED BY <1>1, CalledHolds, PTL
=============================================================================

--------------------------- MODULE AlgorithmProofs ---------------------------
(***************************************************************************)
(* Proofs about the algorithms of SCEP and EST, for every input the        *)
(* program can give them: whom a SCEP client trusts (CaSelect), what an    *)
(* EST client makes of /csrattrs (CsrAttrs), and that a pkiMessage is read *)
(* as it was written (ScepMsg).                                            *)
(***************************************************************************)
EXTENDS Algorithms, InductionLemmas, SequenceTheorems

(* Every certificate has a rank, the smallest of which is no use at all.   *)
LEMMA RankRange ==
  ASSUME NEW c, IsCert(c) PROVE Rank(c) \in -1..4
BY DEF IsCert, Rank, Usage

(* Best is the highest rank of a bundle.                                   *)
LEMMA BestIsMax ==
  ASSUME NEW b, \A i \in DOMAIN b : IsCert(b[i])
  PROVE  /\ Best(b) \in -1..4
         /\ \A i \in DOMAIN b : Rank(b[i]) <= Best(b)
<1> DEFINE S == {-1} \cup {Rank(b[i]) : i \in DOMAIN b}
<1>1. S \subseteq -1..4 /\ -1 \in S BY RankRange
<1>2. \E x \in S : \A y \in S : x >= y
  <2> HIDE DEF S
  <2>1. CASE 4 \in S BY <2>1, <1>1
  <2>2. CASE 4 \notin S /\ 3 \in S BY <2>2, <1>1
  <2>3. CASE 4 \notin S /\ 3 \notin S /\ 2 \in S BY <2>3, <1>1
  <2>4. CASE 4 \notin S /\ 3 \notin S /\ 2 \notin S /\ 1 \in S BY <2>4, <1>1
  <2>5. CASE 4 \notin S /\ 3 \notin S /\ 2 \notin S /\ 1 \notin S BY <2>5, <1>1
  <2> QED BY Zenon, <2>1, <2>2, <2>3, <2>4, <2>5
<1>3. Best(b) \in S /\ \A y \in S : Best(b) >= y
  <2>1. Best(b) = CHOOSE x \in S : \A y \in S : x >= y BY Zenon DEF Best, Max
  <2> HIDE DEF S
  <2> QED BY Zenon, <2>1, <1>2
<1> QED BY Zenon, <1>1, <1>3, RankRange

(* The survivors of the selection are places of the bundle.                *)
LEMMA SurvivorsInBundle ==
  ASSUME NEW b
  PROVE  Survivors(b) \subseteq DOMAIN b
BY Zenon DEF Survivors, LowestKept, BestKept

Same(b, c, s) ==
  /\ \A i \in DOMAIN b : IsCert(b[i])
  /\ s \in Bijection(DOMAIN c, DOMAIN b)
  /\ \A i \in DOMAIN c : c[i] = b[s[i]]

(* A rearranged bundle has the same certificates, each in one place.       *)
LEMMA SameFacts ==
  ASSUME NEW b, NEW c, NEW s, Same(b, c, s)
  PROVE  /\ \A i \in DOMAIN c : s[i] \in DOMAIN b /\ c[i] = b[s[i]] /\ IsCert(c[i])
         /\ \A i, j \in DOMAIN c : s[i] = s[j] => i = j
         /\ \A k \in DOMAIN b : \E i \in DOMAIN c : s[i] = k
<1>1. s \in [DOMAIN c -> DOMAIN b] /\ IsInjective(s) /\ \A k \in DOMAIN b : \E i \in DOMAIN c : s[i] = k
  BY Zenon DEF Same, Bijection, Injection, Surjection
<1>2. \A i \in DOMAIN c : s[i] \in DOMAIN b BY Zenon, <1>1
<1> QED BY Zenon, <1>1, <1>2 DEF Same, IsInjective

(* A rearranged bundle has the same best rank.                             *)
LEMMA SameBest ==
  ASSUME NEW b, NEW c, NEW s, Same(b, c, s)
  PROVE  Best(c) = Best(b)
<1>1. {Rank(c[i]) : i \in DOMAIN c} = {Rank(b[i]) : i \in DOMAIN b} BY SameFacts
<1> QED BY Zenon, <1>1 DEF Best

(* A certificate has issued a CA of the bundle wherever it stands in it.   *)
LEMMA SameIssued ==
  ASSUME NEW b, NEW c, NEW s, Same(b, c, s), NEW i \in DOMAIN c
  PROVE  IssuedCa(c, i) <=> IssuedCa(b, s[i])
<1>1. ASSUME IssuedCa(c, i) PROVE IssuedCa(b, s[i])
  <2>1. PICK j \in DOMAIN c \ {i} : c[j].ca /\ ~SelfIssued(c[j]) /\ c[j].iss = c[i].subj
    BY Zenon, <1>1 DEF IssuedCa
  <2>2. s[j] \in DOMAIN b \ {s[i]} BY <2>1, SameFacts
  <2>3. c[j] = b[s[j]] /\ c[i] = b[s[i]] BY <2>1, SameFacts
  <2> QED BY Zenon, <2>1, <2>2, <2>3 DEF IssuedCa
<1>2. ASSUME IssuedCa(b, s[i]) PROVE IssuedCa(c, i)
  <2>1. PICK k \in DOMAIN b \ {s[i]} : b[k].ca /\ ~SelfIssued(b[k]) /\ b[k].iss = b[s[i]].subj
    BY Zenon, <1>2 DEF IssuedCa
  <2>2. PICK j \in DOMAIN c : s[j] = k BY <2>1, SameFacts
  <2>3. c[j] = b[k] /\ c[i] = b[s[i]] BY <2>2, SameFacts
  <2>4. j # i BY Zenon, <2>1, <2>2
  <2> QED BY Zenon, <2>1, <2>3, <2>4 DEF IssuedCa
<1> QED BY Zenon, <1>1, <1>2

(* The selection leaves the same certificates of a rearranged bundle.      *)
LEMMA SameSurvivors ==
  ASSUME NEW b, NEW c, NEW s, Same(b, c, s)
  PROVE  \A i \in DOMAIN c : i \in Survivors(c) <=> s[i] \in Survivors(b)
<1>1. \A i \in DOMAIN c : i \in BestKept(c) <=> s[i] \in BestKept(b)
  BY SameFacts, SameBest, SameIssued DEF BestKept
<1>2. \A i \in DOMAIN c : i \in LowestKept(c) <=> s[i] \in LowestKept(b)
  <2>1. (\E i \in BestKept(c) : ~SelfIssued(c[i])) <=> (\E i \in BestKept(b) : ~SelfIssued(b[i]))
    <3>1. BestKept(c) \subseteq DOMAIN c /\ BestKept(b) \subseteq DOMAIN b BY Zenon DEF BestKept
    <3> QED BY <1>1, <3>1, SameFacts
  <2> QED BY <1>1, <2>1, SameFacts, SameBest DEF LowestKept
<1>3. (\E i \in LowestKept(c) : Usage(c[i], "keyEncipherment"))
         <=> (\E i \in LowestKept(b) : Usage(b[i], "keyEncipherment"))
  <2>1. LowestKept(c) \subseteq DOMAIN c /\ LowestKept(b) \subseteq DOMAIN b
    BY Zenon DEF LowestKept, BestKept
  <2> QED BY <1>2, <2>1, SameFacts
<1> QED BY <1>2, <1>3, SameFacts, SameBest DEF Survivors

(* The selection names the first survivor.                                 *)
LEMMA LeastSurvivor ==
  ASSUME NEW b, DOMAIN b \subseteq Nat, Survivors(b) # {}
  PROVE  /\ Min(Survivors(b)) \in Survivors(b)
         /\ \A i \in Survivors(b) : Min(Survivors(b)) <= i
<1>1. Survivors(b) \subseteq Nat BY Zenon, SurvivorsInBundle
<1>2. \E n \in Survivors(b) : \A m \in Survivors(b) : n <= m BY Zenon, <1>1, LeastNatural
<1> QED BY Zenon, <1>2 DEF Min

(* The selection answers alike on a rearranged bundle, and picks the same  *)
(* key (wolfcert_scep_select_ra_cert).                                     *)
LEMMA SameVerdict ==
  ASSUME NEW b, NEW c, NEW s, Same(b, c, s), DOMAIN b \subseteq Nat, DOMAIN c \subseteq Nat
  PROVE  /\ SelectRa(c).rc = SelectRa(b).rc
         /\ SelectRa(b).rc = "OK" =>
              /\ SelectRa(b).at = Min(Survivors(b)) /\ SelectRa(b).at \in Survivors(b)
              /\ SelectRa(c).at = Min(Survivors(c)) /\ SelectRa(c).at \in Survivors(c)
              /\ c[SelectRa(c).at].key = b[SelectRa(b).at].key
<1>1. Survivors(c) \subseteq DOMAIN c /\ Survivors(b) \subseteq DOMAIN b BY Zenon, SurvivorsInBundle
<1>2. Survivors(c) = {} <=> Survivors(b) = {} BY <1>1, SameSurvivors, SameFacts
<1>3. (\E i, j \in Survivors(c) : c[i].key # c[j].key)
         <=> (\E i, j \in Survivors(b) : b[i].key # b[j].key)
  BY <1>1, SameSurvivors, SameFacts
<1>4. ASSUME SelectRa(b).rc = "OK"
      PROVE  /\ SelectRa(b).at = Min(Survivors(b)) /\ SelectRa(b).at \in Survivors(b)
             /\ SelectRa(c).at = Min(Survivors(c)) /\ SelectRa(c).at \in Survivors(c)
             /\ c[SelectRa(c).at].key = b[SelectRa(b).at].key
  <2>1. Survivors(b) # {} /\ \A i, j \in Survivors(b) : b[i].key = b[j].key
    BY Zenon, <1>4 DEF SelectRa
  <2>2. SelectRa(b).at = Min(Survivors(b)) /\ SelectRa(c).at = Min(Survivors(c))
    BY Zenon, <2>1, <1>2, <1>3 DEF SelectRa
  <2>3. SelectRa(b).at \in Survivors(b) /\ SelectRa(c).at \in Survivors(c)
    BY Zenon, <2>1, <2>2, <1>2, LeastSurvivor
  <2>4. c[SelectRa(c).at] = b[s[SelectRa(c).at]] /\ s[SelectRa(c).at] \in Survivors(b)
    BY <2>3, <1>1, SameFacts, SameSurvivors
  <2> QED BY Zenon, <2>1, <2>2, <2>3, <2>4
<1> QED BY Zenon, <1>2, <1>3, <1>4 DEF SelectRa

(* The pinned CA is looked up where the server's list first has it.        *)
LEMMA FirstPinned ==
  ASSUME NEW served, NEW pin, CaCall(served, pin), Pinned(served, pin) # {}
  PROVE  /\ Min(Pinned(served, pin)) \in DOMAIN served
         /\ served[Min(Pinned(served, pin))] = pin.ca
<1>1. Pinned(served, pin) \subseteq DOMAIN served BY Zenon DEF Pinned
<1>2. DOMAIN served \subseteq Nat BY DEF CaCall
<1>3. \E n \in Pinned(served, pin) : \A m \in Pinned(served, pin) : n <= m
  BY Zenon, <1>1, <1>2, LeastNatural
<1>4. Min(Pinned(served, pin)) \in Pinned(served, pin) BY Zenon, <1>3 DEF Min
<1> QED BY Zenon, <1>4 DEF Pinned

Trusted(served, pin) ==
  [i \in {0} \cup KeptRas(served, pin) |-> IF i = 0 THEN pin.ca ELSE served[i]]

(* With a pin, a CA set that is accepted is the pinned CA and the pinned   *)
(* RAs it has signed, and nothing else of what the server sent.            *)
LEMMA PinnedSet ==
  ASSUME NEW served, NEW pin, CaCall(served, pin), pin.ca # NoPin, CaSet(served, pin).rc = "OK"
  PROVE  /\ Pinned(served, pin) # {}
         /\ \A i \in KeptRas(served, pin) : SignedBy(served[i], pin.ca)
         /\ CaSet(served, pin).bundle = Trusted(served, pin)
         /\ CaSet(served, pin).caIsRa = RaPinned(pin, pin.ca)
<1> DEFINE p == Min(Pinned(served, pin))
           ok == /\ served # <<>> /\ ~(Len(served) > MaxCerts)
                 /\ Pinned(served, pin) # {}
                 /\ \A i \in KeptRas(served, pin) : SignedBy(served[i], served[p])
<1>1. ok /\ CaSet(served, pin) =
        [rc |-> "OK",
         bundle |-> [i \in {0} \cup KeptRas(served, pin) |-> IF i = 0 THEN served[p] ELSE served[i]],
         caIsRa |-> RaPinned(pin, served[p])]
  BY Zenon DEF CaSet, Failed
<1>2. served[p] = pin.ca BY Zenon, <1>1, FirstPinned
<1> QED BY <1>1, <1>2 DEF Trusted

(* An RA that is kept was served and is pinned.                            *)
LEMMA KeptServed ==
  ASSUME NEW served, NEW pin, CaCall(served, pin)
  PROVE  /\ DOMAIN served \subseteq Nat \ {0}
         /\ \A i \in KeptRas(served, pin) : i \in DOMAIN served /\ served[i] \in pin.ra
BY DEF CaCall, KeptRas, RaPinned

(* A selection that succeeds picks a place of the bundle.                  *)
LEMMA SelectPicks ==
  ASSUME NEW b, DOMAIN b \subseteq Nat, SelectRa(b).rc = "OK"
  PROVE  SelectRa(b).at = Min(Survivors(b)) /\ SelectRa(b).at \in DOMAIN b
<1>1. Survivors(b) # {} /\ SelectRa(b).at = Min(Survivors(b)) BY Zenon DEF SelectRa
<1> QED BY Zenon, <1>1, LeastSurvivor, SurvivorsInBundle

(* What a resolution that succeeds has been through.                       *)
LEMMA ResolveOk ==
  ASSUME NEW served, NEW pin, Resolve(served, pin).rc = "OK"
  PROVE  LET cs == CaSet(served, pin)
             pick == SelectRa(cs.bundle)
         IN /\ cs.rc = "OK" /\ pick.rc = "OK"
            /\ ~(pin.ra # {} /\ pick.at = 0 /\ ~cs.caIsRa)
            /\ Resolve(served, pin).ra = cs.bundle[pick.at]
            /\ Resolve(served, pin).bundle = cs.bundle
BY Zenon DEF Resolve

(* With pins, the recipient of a request and whoever may answer it are     *)
(* pinned certificates, whatever list the server sends                     *)
(* (scep_ca_set_from_der, wolfcert_scep_select_ra_cert).                   *)
THEOREM PinsDecide ==
  ASSUME NEW served, NEW pin, CaCall(served, pin)
  PROVE  OnlyPinned(served, pin)
<1> DEFINE r  == Resolve(served, pin)
           cs == CaSet(served, pin)
           at == SelectRa(cs.bundle).at
<1> SUFFICES ASSUME pin.ca # NoPin, r.rc = "OK"
             PROVE  /\ IF pin.ra = {} THEN r.ra = pin.ca ELSE r.ra \in pin.ra
                    /\ r.ra # pin.ca => SignedBy(r.ra, pin.ca)
                    /\ \A c \in {served[i] : i \in DOMAIN served} : MaySign(c, r.bundle) =>
                         \E d \in pin.ra \cup {pin.ca} : d.key = c.key
  BY Zenon DEF OnlyPinned
<1>1. /\ cs.rc = "OK" /\ SelectRa(cs.bundle).rc = "OK"
      /\ ~(pin.ra # {} /\ at = 0 /\ ~cs.caIsRa)
      /\ r.ra = cs.bundle[at] /\ r.bundle = cs.bundle
  BY Zenon, ResolveOk
<1>2. /\ \A i \in KeptRas(served, pin) : SignedBy(served[i], pin.ca)
      /\ cs.bundle = Trusted(served, pin)
      /\ cs.caIsRa = RaPinned(pin, pin.ca)
  BY Zenon, <1>1, PinnedSet
<1>3. /\ DOMAIN cs.bundle = {0} \cup KeptRas(served, pin)
      /\ DOMAIN cs.bundle \subseteq Nat
  BY <1>2, KeptServed DEF Trusted
<1>4. at \in {0} \cup KeptRas(served, pin) BY Zenon, <1>1, <1>3, SelectPicks
<1>5. \A i \in {0} \cup KeptRas(served, pin) :
        cs.bundle[i] = IF i = 0 THEN pin.ca ELSE served[i]
  BY Zenon, <1>2 DEF Trusted
<1>6. \A i \in KeptRas(served, pin) : i # 0 /\ served[i] \in pin.ra
  BY Zenon, KeptServed
<1> HIDE DEF r, cs, at
<1>7. IF pin.ra = {} THEN r.ra = pin.ca ELSE r.ra \in pin.ra
  BY Zenon, <1>1, <1>2, <1>4, <1>5, <1>6 DEF RaPinned
<1>8. r.ra # pin.ca => SignedBy(r.ra, pin.ca)
  BY Zenon, <1>1, <1>2, <1>4, <1>5, <1>6
<1>9. ASSUME NEW c, MaySign(c, r.bundle) PROVE \E d \in pin.ra \cup {pin.ca} : d.key = c.key
  <2>1. PICK i \in {0} \cup KeptRas(served, pin) : cs.bundle[i].key = c.key
    BY Zenon, <1>1, <1>3, <1>9 DEF MaySign
  <2>2. cs.bundle[i] \in pin.ra \cup {pin.ca} BY Zenon, <1>5, <1>6
  <2> QED BY Zenon, <2>1, <2>2
<1> QED BY Zenon, <1>7, <1>8, <1>9

(* A reordered list is a list of the same certificates.                    *)
LEMMA ReorderedList ==
  ASSUME NEW served, NEW pin, CaCall(served, pin), NEW o \in Bijection(DOMAIN served, DOMAIN served)
  PROVE  /\ CaCall(Reordered(served, o), pin)
         /\ DOMAIN Reordered(served, o) = DOMAIN served
         /\ Len(Reordered(served, o)) = Len(served)
         /\ \A i \in DOMAIN served : o[i] \in DOMAIN served /\ Reordered(served, o)[i] = served[o[i]]
         /\ \A i, j \in DOMAIN served : o[i] = o[j] => i = j
         /\ \A k \in DOMAIN served : \E i \in DOMAIN served : o[i] = k
<1> DEFINE t == Reordered(served, o)
<1>1. /\ o \in [DOMAIN served -> DOMAIN served] /\ IsInjective(o)
      /\ \A k \in DOMAIN served : \E i \in DOMAIN served : o[i] = k
  BY Zenon DEF Bijection, Injection, Surjection
<1>2. \A i \in DOMAIN served : o[i] \in DOMAIN served BY Zenon, <1>1
<1>3. \A i \in DOMAIN served : t[i] = served[o[i]] BY Zenon DEF Reordered
<1>4. DOMAIN t = DOMAIN served BY Zenon DEF Reordered
<1>5. Len(served) \in Nat /\ DOMAIN served = 1..Len(served) BY DEF CaCall
<1>6. t \in [1..Len(served) -> {t[i] : i \in DOMAIN t}] BY Zenon, <1>4, <1>5 DEF Reordered
<1>7. t \in Seq({t[i] : i \in DOMAIN t}) /\ Len(t) = Len(served)
  <2> HIDE DEF t
  <2> QED BY <1>4, <1>5, <1>6
<1>8. \A i \in DOMAIN t : IsCert(t[i]) BY Zenon, <1>2, <1>3, <1>4 DEF CaCall
<1> QED BY Zenon, <1>1, <1>2, <1>3, <1>4, <1>7, <1>8 DEF CaCall, IsInjective

(* The pins pick the same certificates out of a reordered list.            *)
LEMMA ReorderedPins ==
  ASSUME NEW served, NEW pin, CaCall(served, pin), NEW o \in Bijection(DOMAIN served, DOMAIN served),
         Pinned(served, pin) # {}
  PROVE  LET t == Reordered(served, o) IN
         /\ Pinned(t, pin) # {}
         /\ \E s \in Bijection({0} \cup KeptRas(t, pin), {0} \cup KeptRas(served, pin)) :
              /\ s[0] = 0
              /\ \A i \in KeptRas(t, pin) : s[i] # 0 /\ t[i] = served[s[i]]
<1> DEFINE t == Reordered(served, o)
           p == Min(Pinned(served, pin))
           q == o[Min(Pinned(t, pin))]
           K == KeptRas(served, pin)
           L == KeptRas(t, pin)
           s == [i \in {0} \cup L |-> IF i = 0 THEN 0 ELSE IF o[i] = p THEN q ELSE o[i]]
<1>1. /\ CaCall(t, pin) /\ DOMAIN t = DOMAIN served
      /\ \A i \in DOMAIN served : o[i] \in DOMAIN served /\ t[i] = served[o[i]]
      /\ \A i, j \in DOMAIN served : o[i] = o[j] => i = j
      /\ \A k \in DOMAIN served : \E i \in DOMAIN served : o[i] = k
  BY ReorderedList
<1> HIDE DEF t
<1>2. Pinned(t, pin) # {}
  <2>1. PICK k \in DOMAIN served : served[k] = pin.ca BY Zenon DEF Pinned
  <2>2. PICK i \in DOMAIN served : o[i] = k BY Zenon, <1>1
  <2>3. i \in DOMAIN t /\ t[i] = pin.ca BY Zenon, <1>1, <2>1, <2>2
  <2> QED BY Zenon, <2>3 DEF Pinned
<1> DEFINE x == Min(Pinned(t, pin))
<1>3. p \in DOMAIN served /\ served[p] = pin.ca BY Zenon, FirstPinned
<1>4. x \in DOMAIN served /\ t[x] = pin.ca BY <1>1, <1>2, FirstPinned
<1>5. q = o[x] /\ q \in DOMAIN served /\ served[q] = pin.ca BY Zenon, <1>1, <1>4
<1>6. 0 \notin DOMAIN served BY Zenon, KeptServed
<1>7. K = {i \in DOMAIN served \ {p} : served[i] \in pin.ra} BY Zenon DEF KeptRas, RaPinned
<1>8. L = {i \in DOMAIN served \ {x} : t[i] \in pin.ra} BY Zenon, <1>1 DEF KeptRas, RaPinned
<1>9. s[0] = 0 /\ \A i \in L : s[i] = IF o[i] = p THEN q ELSE o[i] BY Zenon, <1>6, <1>8
<1>10. DOMAIN s = {0} \cup L OBVIOUS
<1> HIDE DEF p, q, x, K, L, s
<1>11. ASSUME NEW i \in L PROVE s[i] \in K /\ s[i] # 0 /\ t[i] = served[s[i]]
  <2>1. i \in DOMAIN served /\ i # x /\ t[i] \in pin.ra /\ t[i] = served[o[i]] BY Zenon, <1>1, <1>8
  <2>2. CASE o[i] = p
    <3>1. s[i] = q /\ served[q] = t[i] BY Zenon, <2>1, <2>2, <1>3, <1>5, <1>9
    <3>2. q # p BY Zenon, <2>1, <2>2, <1>1, <1>4, <1>5
    <3> QED BY Zenon, <2>1, <3>1, <3>2, <1>5, <1>6, <1>7
  <2>3. CASE o[i] # p BY <2>1, <2>3, <1>1, <1>6, <1>7, <1>9
  <2> QED BY Zenon, <2>2, <2>3
<1>12. ASSUME NEW i \in L, NEW j \in L, s[i] = s[j] PROVE i = j
  <2>1. i \in DOMAIN served /\ j \in DOMAIN served /\ i # x /\ j # x BY Zenon, <1>8
  <2>2. o[i] # q /\ o[j] # q BY Zenon, <2>1, <1>1, <1>4, <1>5
  <2>3. o[i] = o[j] BY Zenon, <2>2, <1>9, <1>12
  <2> QED BY Zenon, <2>1, <2>3, <1>1
<1>13. ASSUME NEW k \in K PROVE \E i \in L : s[i] = k
  <2>1. k \in DOMAIN served /\ k # p /\ served[k] \in pin.ra BY Zenon, <1>7
  <2>2. PICK i \in DOMAIN served : o[i] = k BY Zenon, <2>1, <1>1
  <2>3. CASE i # x BY Zenon, <2>1, <2>2, <2>3, <1>1, <1>8, <1>9
  <2>4. CASE i = x
    <3>1. PICK j \in DOMAIN served : o[j] = p BY Zenon, <1>1, <1>3
    <3>2. k = q /\ j # x BY Zenon, <2>1, <2>2, <2>4, <3>1, <1>5
    <3>3. t[j] \in pin.ra BY Zenon, <2>1, <3>1, <3>2, <1>1, <1>3, <1>5
    <3> QED BY Zenon, <3>1, <3>2, <3>3, <1>8, <1>9
  <2> QED BY Zenon, <2>3, <2>4
<1>14. s \in Bijection({0} \cup L, {0} \cup K)
  <2>1. s \in [{0} \cup L -> {0} \cup K]
    <3>1. \A i \in {0} \cup L : s[i] \in {0} \cup K BY Zenon, <1>9, <1>11
    <3>2. s = [i \in {0} \cup L |-> s[i]] BY Zenon, <1>10 DEF s
    <3> QED BY Zenon, <3>1, <3>2
  <2>2. IsInjective(s)
    <3>1. \A i, j \in {0} \cup L : s[i] = s[j] => i = j BY Zenon, <1>9, <1>11, <1>12
    <3> QED BY Zenon, <3>1, <1>10 DEF IsInjective
  <2>3. \A k \in {0} \cup K : \E i \in {0} \cup L : s[i] = k BY Zenon, <1>9, <1>13
  <2> QED BY Zenon, <2>1, <2>2, <2>3 DEF Bijection, Injection, Surjection
<1> QED BY Zenon, <1>2, <1>9, <1>11, <1>14 DEF K, L, t

(* A reordered list is accepted or refused alike, and makes the same CA    *)
(* set in another order (scep_ca_set_from_der).                            *)
LEMMA CaSetReordered ==
  ASSUME NEW served, NEW pin, CaCall(served, pin), NEW o \in Bijection(DOMAIN served, DOMAIN served)
  PROVE  LET t == Reordered(served, o)
             a == CaSet(served, pin)
             b == CaSet(t, pin)
         IN /\ a.rc = b.rc
            /\ a.rc = "OK" =>
                 /\ a.caIsRa = b.caIsRa
                 /\ DOMAIN a.bundle \subseteq Nat /\ DOMAIN b.bundle \subseteq Nat
                 /\ \E s : /\ Same(a.bundle, b.bundle, s)
                           /\ pin.ca # NoPin => 0 \in DOMAIN b.bundle /\ s[0] = 0
<1> DEFINE t == Reordered(served, o)
           a == CaSet(served, pin)
           b == CaSet(t, pin)
<1>1. /\ CaCall(t, pin) /\ DOMAIN t = DOMAIN served /\ Len(t) = Len(served)
      /\ \A i \in DOMAIN served : o[i] \in DOMAIN served /\ t[i] = served[o[i]]
      /\ \A k \in DOMAIN served : \E i \in DOMAIN served : o[i] = k
  BY Zenon, ReorderedList
<1> HIDE DEF t
<1>2. served = <<>> <=> t = <<>>
  BY <1>1 DEF CaCall
<1>3. CASE served = <<>> \/ Len(served) > MaxCerts
  BY Zenon, <1>1, <1>2, <1>3 DEF CaSet, Failed, t
<1>4. CASE ~(served = <<>> \/ Len(served) > MaxCerts) /\ pin.ca = NoPin
  <2>1. a = [rc |-> "OK", bundle |-> served, caIsRa |-> FALSE] BY Zenon, <1>4 DEF CaSet
  <2>2. b = [rc |-> "OK", bundle |-> t, caIsRa |-> FALSE] BY Zenon, <1>1, <1>2, <1>4 DEF CaSet
  <2>3. Same(served, t, o) BY Zenon, <1>1 DEF Same, CaCall
  <2>4. DOMAIN served \subseteq Nat BY Zenon, KeptServed
  <2> QED BY <2>1, <2>2, <2>3, <2>4, <1>1, <1>4 DEF t
<1>5. CASE ~(served = <<>> \/ Len(served) > MaxCerts) /\ pin.ca # NoPin
  <2> DEFINE bad(x) == \/ Pinned(x, pin) = {}
                       \/ \E i \in KeptRas(x, pin) : ~SignedBy(x[i], x[Min(Pinned(x, pin))])
                       \/ \E c \in pin.ra : \A i \in DOMAIN x : x[i] # c
  <2>1. \A x : x \in {served, t} => CaSet(x, pin).rc = IF bad(x) THEN "AUTH" ELSE "OK"
    BY Zenon, <1>1, <1>2, <1>5 DEF CaSet, Failed
  <2>2. Pinned(served, pin) = {} => Pinned(t, pin) = {} BY <1>1 DEF Pinned
  <2>3. CASE Pinned(served, pin) = {} BY Zenon, <2>1, <2>2, <2>3 DEF t
  <2>4. CASE Pinned(served, pin) # {}
    <3>1. Pinned(t, pin) # {} BY Zenon, <2>4, ReorderedPins DEF t
    <3>2. PICK s \in Bijection({0} \cup KeptRas(t, pin), {0} \cup KeptRas(served, pin)) :
             /\ s[0] = 0
             /\ \A i \in KeptRas(t, pin) : s[i] # 0 /\ t[i] = served[s[i]]
      BY <2>4, ReorderedPins DEF t
    <3>3. served[Min(Pinned(served, pin))] = pin.ca /\ t[Min(Pinned(t, pin))] = pin.ca
      BY Zenon, <1>1, <2>4, <3>1, FirstPinned
    <3>4. /\ \A i \in KeptRas(t, pin) : s[i] \in KeptRas(served, pin)
          /\ \A k \in KeptRas(served, pin) : \E i \in KeptRas(t, pin) : s[i] = k
      <4>1. /\ s \in [{0} \cup KeptRas(t, pin) -> {0} \cup KeptRas(served, pin)]
            /\ \A k \in {0} \cup KeptRas(served, pin) : \E i \in {0} \cup KeptRas(t, pin) : s[i] = k
        BY Zenon, <3>2 DEF Bijection, Injection, Surjection
      <4>2. 0 \notin KeptRas(served, pin) BY Zenon, KeptServed
      <4> QED BY Zenon, <4>1, <4>2, <3>2
    <3>5. bad(served) <=> bad(t)
      <4>1. (\E i \in KeptRas(served, pin) : ~SignedBy(served[i], pin.ca))
               <=> (\E i \in KeptRas(t, pin) : ~SignedBy(t[i], pin.ca))
        BY <3>2, <3>4
      <4>2. \A c : (\A i \in DOMAIN served : served[i] # c) <=> (\A i \in DOMAIN t : t[i] # c)
        BY <1>1
      <4> QED BY Zenon, <4>1, <4>2, <3>1, <3>3, <2>4
    <3>6. a.rc = b.rc BY Zenon, <2>1, <3>5 DEF t
    <3>7. ASSUME a.rc = "OK"
          PROVE  /\ a.caIsRa = b.caIsRa
                 /\ DOMAIN a.bundle \subseteq Nat /\ DOMAIN b.bundle \subseteq Nat
                 /\ Same(a.bundle, b.bundle, s) /\ 0 \in DOMAIN b.bundle
      <4>1. /\ a.bundle = Trusted(served, pin) /\ b.bundle = Trusted(t, pin)
            /\ a.caIsRa = b.caIsRa
        <5>1. pin.ca # NoPin /\ CaCall(t, pin) /\ b.rc = "OK" BY Zenon, <1>1, <1>5, <3>6, <3>7
        <5>2. a.bundle = Trusted(served, pin) /\ a.caIsRa = RaPinned(pin, pin.ca)
          BY Zenon, <5>1, <3>7, PinnedSet
        <5>3. b.bundle = Trusted(t, pin) /\ b.caIsRa = RaPinned(pin, pin.ca)
          BY Zenon, <5>1, PinnedSet
        <5> QED BY Zenon, <5>2, <5>3
      <4>2. /\ DOMAIN a.bundle = {0} \cup KeptRas(served, pin)
            /\ DOMAIN b.bundle = {0} \cup KeptRas(t, pin)
        BY Zenon, <4>1 DEF Trusted
      <4>3. KeptRas(served, pin) \subseteq Nat \ {0} /\ KeptRas(t, pin) \subseteq Nat \ {0}
        BY Zenon, <1>1, KeptServed
      <4>4. /\ \A i \in KeptRas(served, pin) : a.bundle[i] = served[i]
            /\ \A i \in KeptRas(t, pin) : b.bundle[i] = t[i]
            /\ a.bundle[0] = pin.ca /\ b.bundle[0] = pin.ca
        BY Zenon, <4>1, <4>3 DEF Trusted
      <4>5. \A i \in DOMAIN a.bundle : IsCert(a.bundle[i])
        BY Zenon, <4>2, <4>4, <3>3, <2>4, FirstPinned, KeptServed DEF CaCall
      <4> HIDE DEF a, b
      <4>6. \A i \in DOMAIN b.bundle : b.bundle[i] = a.bundle[s[i]]
        BY Zenon, <4>2, <4>4, <3>2, <3>4
      <4> QED BY <4>1, <4>2, <4>3, <4>5, <4>6, <3>2 DEF Same
    <3> QED BY Zenon, <3>2, <3>6, <3>7 DEF t
  <2> QED BY Zenon, <2>3, <2>4
<1> QED BY Zenon, <1>3, <1>4, <1>5

(* A server that reorders its list changes neither the verdict nor the key *)
(* a request is encrypted to (scep_ca_set_from_der,                        *)
(* wolfcert_scep_select_ra_cert).                                          *)
THEOREM OrderDoesNotDecide ==
  ASSUME NEW served, NEW pin, CaCall(served, pin)
  PROVE  AnyOrder(served, pin)
<1> SUFFICES ASSUME NEW o \in Bijection(DOMAIN served, DOMAIN served)
             PROVE  LET r == Resolve(served, pin)
                        t == Resolve(Reordered(served, o), pin)
                    IN r.rc = t.rc /\ (r.rc = "OK" => r.ra.key = t.ra.key)
  BY Zenon DEF AnyOrder
<1> DEFINE u == Reordered(served, o)
           a == CaSet(served, pin)
           b == CaSet(u, pin)
           r == Resolve(served, pin)
           t == Resolve(u, pin)
           x == SelectRa(a.bundle)
           y == SelectRa(b.bundle)
<1>1. r = IF a.rc # "OK" THEN [rc |-> a.rc, ra |-> NoPin, bundle |-> <<>>]
          ELSE IF x.rc # "OK" THEN [rc |-> x.rc, ra |-> NoPin, bundle |-> a.bundle]
          ELSE IF pin.ra # {} /\ x.at = 0 /\ ~a.caIsRa
          THEN [rc |-> "AUTH", ra |-> NoPin, bundle |-> a.bundle]
          ELSE [rc |-> "OK", ra |-> a.bundle[x.at], bundle |-> a.bundle]
  BY Zenon DEF Resolve
<1>2. t = IF b.rc # "OK" THEN [rc |-> b.rc, ra |-> NoPin, bundle |-> <<>>]
          ELSE IF y.rc # "OK" THEN [rc |-> y.rc, ra |-> NoPin, bundle |-> b.bundle]
          ELSE IF pin.ra # {} /\ y.at = 0 /\ ~b.caIsRa
          THEN [rc |-> "AUTH", ra |-> NoPin, bundle |-> b.bundle]
          ELSE [rc |-> "OK", ra |-> b.bundle[y.at], bundle |-> b.bundle]
  BY Zenon DEF Resolve
<1>3. a.rc = b.rc BY Zenon, CaSetReordered
<1>4. CASE a.rc # "OK"
  <2> HIDE DEF a, b, r, t, x, y
  <2> QED BY Zenon, <1>1, <1>2, <1>3, <1>4 DEF r, t, u
<1>5. CASE a.rc = "OK"
  <2>1. /\ a.caIsRa = b.caIsRa
        /\ DOMAIN a.bundle \subseteq Nat /\ DOMAIN b.bundle \subseteq Nat
    BY Zenon, <1>5, CaSetReordered
  <2>2. PICK s : /\ Same(a.bundle, b.bundle, s)
                 /\ pin.ca # NoPin => 0 \in DOMAIN b.bundle /\ s[0] = 0
    BY Zenon, <1>5, CaSetReordered
  <2>3. /\ x.rc = y.rc
        /\ x.rc = "OK" => /\ b.bundle[y.at].key = a.bundle[x.at].key
                          /\ x.at \in Survivors(a.bundle) /\ y.at \in Survivors(b.bundle)
                          /\ x.at = Min(Survivors(a.bundle)) /\ y.at = Min(Survivors(b.bundle))
    BY <2>1, <2>2, SameVerdict
  <2>4. ASSUME x.rc = "OK", pin.ra # {} PROVE x.at = 0 <=> y.at = 0
    <3>1. pin.ca # NoPin BY Zenon, <2>4 DEF CaCall
    <3>2. 0 \in Survivors(b.bundle) <=> 0 \in Survivors(a.bundle)
      <4>1. 0 \in DOMAIN b.bundle /\ s[0] = 0 BY Zenon, <2>2, <3>1
      <4> QED BY <4>1, <2>2, SameSurvivors
    <3>3. Survivors(a.bundle) # {} /\ Survivors(b.bundle) # {} BY Zenon, <2>3, <2>4
    <3>4. /\ \A i \in Survivors(a.bundle) : i \in Nat /\ x.at <= i
          /\ \A i \in Survivors(b.bundle) : i \in Nat /\ y.at <= i
      BY Zenon, <2>1, <2>3, <2>4, <3>3, LeastSurvivor, SurvivorsInBundle
    <3> HIDE DEF a, b, x, y
    <3> QED BY <2>3, <2>4, <3>2, <3>4
  <2> HIDE DEF a, b, r, t, x, y
  <2> QED BY <1>1, <1>2, <1>3, <1>5, <2>1, <2>3, <2>4 DEF r, t, u
<1> QED BY Zenon, <1>4, <1>5
-----------------------------------------------------------------------------
HintTypes == {"none", "rsa", "ecc", "ed25519", "mldsa65"}
HintSet == [asks : SUBSET {"challenge", "extreq"}, hash : {0, 256, 384, 512}, type : HintTypes,
            curve : {0, 256, 384, 521}]

(* The signature algorithms that the parser of /csrattrs knows.            *)
LEMMA SigAlgTable ==
  /\ DOMAIN SigAlgs = {"sha256rsa", "sha512rsa", "ecdsa256", "ecdsa384", "ed25519", "mldsa65"}
  /\ \A o \in DOMAIN SigAlgs : /\ SigAlgs[o].type \in HintTypes \ {"none"}
                               /\ SigAlgs[o].hash \in {0, 256, 384, 512}
BY DEF SigAlgs, HintTypes

(* The curves it knows.                                                    *)
LEMMA CurveTable ==
  /\ DOMAIN Curves = {"p256", "p384", "p521"}
  /\ \A c \in DOMAIN Curves : Curves[c] \in {256, 384, 521}
BY DEF Curves

(* What one item of /csrattrs sets: each of the three hints, if it names   *)
(* one (classify).                                                         *)
LEMMA ClassifyTyped ==
  ASSUME NEW h \in HintSet, NEW it
  PROVE  /\ Classify(h, it) \in HintSet
         /\ Classify(h, it).type = IF NamesType(it) THEN TypeOf(it.oid) ELSE h.type
         /\ Classify(h, it).curve = IF NamesCurve(it) THEN Curves[Head(it.vals)] ELSE h.curve
         /\ Classify(h, it).hash = IF NamesHash(it) THEN SigAlgs[it.oid].hash ELSE h.hash
<1> DEFINE A == SUBSET {"challenge", "extreq"}
           H == {0, 256, 384, 512}
           C == {0, 256, 384, 521}
           a == h.asks \cup {it.oid}
           t == IF NamesType(it) THEN TypeOf(it.oid) ELSE h.type
           c == IF NamesCurve(it) THEN Curves[Head(it.vals)] ELSE h.curve
           x == IF NamesHash(it) THEN SigAlgs[it.oid].hash ELSE h.hash
<1>1. HintSet = [asks : A, hash : H, type : HintTypes, curve : C] BY Zenon DEF HintSet
<1>2. h.asks \in A /\ h.type \in HintTypes /\ h.hash \in H /\ h.curve \in C BY Zenon DEF HintSet
<1>3. t \in HintTypes
  BY <1>2, SigAlgTable DEF NamesType, TypeOf, HintTypes
<1>4. x \in H BY <1>2, SigAlgTable DEF NamesHash
<1>5. c \in C BY <1>2, CurveTable DEF NamesCurve
<1>6. CASE it.oid \in {"challenge", "extreq"}
  <2>1. it.oid \notin DOMAIN SigAlgs /\ it.oid # "rsaKey" /\ it.oid # "ecKey" BY Zenon, <1>6, SigAlgTable
  <2>2. Classify(h, it) = [h EXCEPT !.asks = a] BY Zenon, <1>6, <2>1 DEF Classify
  <2>3. t = h.type /\ c = h.curve /\ x = h.hash
    BY Zenon, <2>1 DEF NamesType, NamesCurve, NamesHash
  <2>4. a \in A BY <1>2, <1>6
  <2> HIDE DEF A, H, C, a, t, c, x
  <2>5. /\ Classify(h, it) \in HintSet /\ Classify(h, it).type = t
        /\ Classify(h, it).curve = c /\ Classify(h, it).hash = x
    BY Zenon, <1>1, <1>3, <1>4, <1>5, <2>2, <2>3, <2>4
  <2> QED BY Zenon, <2>5 DEF t, c, x
<1>7. CASE it.oid = "rsaKey"
  <2>1. it.oid \notin DOMAIN SigAlgs BY Zenon, <1>7, SigAlgTable
  <2>2. Classify(h, it) = [h EXCEPT !.type = "rsa"] BY Zenon, <1>7, <2>1 DEF Classify
  <2>3. t = "rsa" /\ c = h.curve /\ x = h.hash
    BY Zenon, <1>7, <2>1 DEF NamesType, NamesCurve, NamesHash, TypeOf
  <2> HIDE DEF A, H, C, a, t, c, x
  <2>5. /\ Classify(h, it) \in HintSet /\ Classify(h, it).type = t
        /\ Classify(h, it).curve = c /\ Classify(h, it).hash = x
    BY Zenon, <1>1, <1>2, <1>3, <1>4, <1>5, <2>2, <2>3
  <2> QED BY Zenon, <2>5 DEF t, c, x
<1>8. CASE it.oid = "ecKey"
  <2>1. it.oid \notin DOMAIN SigAlgs BY Zenon, <1>8, SigAlgTable
  <2>2. Classify(h, it) = [h EXCEPT !.type = "ecc", !.curve = c]
    BY Zenon, <1>8, <2>1 DEF Classify, NamesCurve
  <2>3. t = "ecc" /\ x = h.hash
    BY Zenon, <1>8, <2>1 DEF NamesType, NamesHash, TypeOf
  <2> HIDE DEF A, H, C, a, t, c, x
  <2>5. /\ Classify(h, it) \in HintSet /\ Classify(h, it).type = t
        /\ Classify(h, it).curve = c /\ Classify(h, it).hash = x
    BY Zenon, <1>1, <1>2, <1>3, <1>4, <1>5, <2>2, <2>3
  <2> QED BY Zenon, <2>5 DEF t, c, x
<1>9. CASE it.oid \in DOMAIN SigAlgs
  <2>1. it.oid \notin {"challenge", "extreq"} /\ it.oid # "rsaKey" /\ it.oid # "ecKey"
    BY Zenon, <1>9, SigAlgTable
  <2>2. t = SigAlgs[it.oid].type /\ c = h.curve
    BY Zenon, <1>9, <2>1 DEF NamesType, NamesCurve, TypeOf
  <2>3. Classify(h, it) = [h EXCEPT !.type = SigAlgs[it.oid].type, !.hash = x]
    BY Zenon, <1>9, <2>1 DEF Classify, NamesHash
  <2> HIDE DEF A, H, C, a, t, c, x
  <2>5. /\ Classify(h, it) \in HintSet /\ Classify(h, it).type = t
        /\ Classify(h, it).curve = c /\ Classify(h, it).hash = x
    BY Zenon, <1>1, <1>2, <1>3, <1>4, <1>5, <2>2, <2>3
  <2> QED BY Zenon, <2>5 DEF t, c, x
<1>10. CASE it.oid \notin {"challenge", "extreq", "rsaKey", "ecKey"} \cup DOMAIN SigAlgs
  <2>1. Classify(h, it) = h BY Zenon, <1>10 DEF Classify
  <2>2. t = h.type /\ c = h.curve /\ x = h.hash
    BY Zenon, <1>10 DEF NamesType, NamesCurve, NamesHash
  <2> QED BY Zenon, <2>1, <2>2
<1> QED BY Zenon, <1>6, <1>7, <1>8, <1>9, <1>10

(* The hints are collected one item at a time.                             *)
LEMMA HintsRecursion ==
  ASSUME NEW items, Len(items) \in Nat
  PROVE  /\ HintsAfter(items)[0] = NoHints
         /\ \A n \in 0..Len(items) : HintsAfter(items)[n] \in HintSet
         /\ \A n \in 1..Len(items) : HintsAfter(items)[n] = Classify(HintsAfter(items)[n - 1], items[n])
<1> DEFINE N == Len(items)
           g == HintsAfter(items)
           step == [x \in (1..N) \X HintSet |-> Classify(x[2], items[x[1]])]
<1>1. NoHints \in HintSet BY Zenon DEF NoHints, HintSet, HintTypes
<1>2. step \in [(1..N) \X HintSet -> HintSet] BY Zenon, ClassifyTyped
<1>3. \A n \in 1..N : \A h \in HintSet : step[<<n, h>>] = Classify(h, items[n]) OBVIOUS
<1>4. PICK f \in [0..N -> HintSet] : Iterates(f, NoHints, N, step)
  <2>1. N \in Nat OBVIOUS
  <2> HIDE DEF step, N, g
  <2> QED BY Zenon, <1>1, <1>2, <2>1, RecursionExists
<1> HIDE DEF step
<1>5. \A i \in 1..N : f[i] = Classify(f[i-1], items[i])
  <2>1. \A i \in 1..N : i - 1 \in 0..N OBVIOUS
  <2> QED BY Zenon, <1>3, <1>4, <2>1 DEF Iterates
<1>6. f = [n \in 0..N |-> IF n = 0 THEN NoHints ELSE Classify(f[n-1], items[n])]
  BY <1>4, <1>5 DEF Iterates
<1>7. g = [n \in 0..N |-> IF n = 0 THEN NoHints ELSE Classify(g[n-1], items[n])]
  BY Zenon, <1>6 DEF HintsAfter
<1> HIDE DEF g
<1>8. g[0] = NoHints /\ \A n \in 1..N : g[n] = Classify(g[n-1], items[n])
  BY <1>7
<1>9. \A n \in 0..N : g[n] \in HintSet
  <2> DEFINE T == {n \in 0..N : g[n] \in HintSet}
  <2>1. 0 \in T BY <1>1, <1>8
  <2>2. ASSUME NEW n \in 1..N, n - 1 \in T PROVE n \in T
    <3>1. g[n - 1] \in HintSet BY Zenon, <2>2
    <3>2. g[n] \in HintSet BY Zenon, <1>8, <3>1, ClassifyTyped
    <3> QED BY <3>2
  <2>3. \A n \in 0..N : n \in T
    <3> HIDE DEF T
    <3> QED BY Zenon, <2>1, <2>2, LoopInduction
  <2> QED BY Zenon, <2>3
<1> QED BY Zenon, <1>8, <1>9 DEF g

(* Each hint is that of the last item that names one, on its own.          *)
LEMMA HintsAreLast ==
  ASSUME NEW items, Len(items) \in Nat
  PROVE  LET N == Len(items)
             h == HintsAfter(items)[N]
             typed == {i \in 1..N : NamesType(items[i])}
             curve == {i \in 1..N : NamesCurve(items[i])}
             hash == {i \in 1..N : NamesHash(items[i])}
         IN /\ h \in HintSet
            /\ h.type = IF typed = {} THEN "none" ELSE TypeOf(items[Max(typed)].oid)
            /\ h.curve = IF curve = {} THEN 0 ELSE Curves[Head(items[Max(curve)].vals)]
            /\ h.hash = IF hash = {} THEN 0 ELSE SigAlgs[items[Max(hash)].oid].hash
<1> DEFINE N == Len(items)
           h == HintsAfter(items)
           typed == {i \in 1..N : NamesType(items[i])}
           curve == {i \in 1..N : NamesCurve(items[i])}
           hash == {i \in 1..N : NamesHash(items[i])}
<1>1. /\ h[0] = NoHints
      /\ \A n \in 0..N : h[n] \in HintSet
      /\ \A n \in 1..N : h[n] = Classify(h[n - 1], items[n])
  BY Zenon, HintsRecursion
<1> HIDE DEF h
<1>2. \A n \in 1..N :
        /\ h[n].type = IF n \in typed THEN TypeOf(items[n].oid) ELSE h[n - 1].type
        /\ h[n].curve = IF n \in curve THEN Curves[Head(items[n].vals)] ELSE h[n - 1].curve
        /\ h[n].hash = IF n \in hash THEN SigAlgs[items[n].oid].hash ELSE h[n - 1].hash
  <2> TAKE n \in 1..N
  <2>1. h[n - 1] \in HintSet /\ h[n] = Classify(h[n - 1], items[n]) BY <1>1
  <2> DEFINE k == h[n - 1]
             it == items[n]
  <2>2. /\ Classify(k, it).type = IF NamesType(it) THEN TypeOf(it.oid) ELSE k.type
        /\ Classify(k, it).curve = IF NamesCurve(it) THEN Curves[Head(it.vals)] ELSE k.curve
        /\ Classify(k, it).hash = IF NamesHash(it) THEN SigAlgs[it.oid].hash ELSE k.hash
    BY Zenon, <2>1, ClassifyTyped
  <2> QED BY Zenon, <2>1, <2>2
<1>3. h[N].type = IF typed = {} THEN "none" ELSE TypeOf(items[Max(typed)].oid)
  <2> DEFINE v == [n \in 0..N |-> h[n].type]
             w == [n \in 1..N |-> TypeOf(items[n].oid)]
  <2>1. Overwrites(v, w, typed, N) BY <1>2 DEF Overwrites
  <2>2. typed \subseteq 1..N /\ N \in Nat OBVIOUS
  <2>3. v[N] = h[N].type /\ v[0] = "none" BY <1>1, <2>2 DEF NoHints
  <2>4. typed # {} => Max(typed) \in 1..N BY Zenon, <2>2, MaxIndex
  <2>5. \A n \in 1..N : w[n] = TypeOf(items[n].oid) OBVIOUS
  <2> HIDE DEF v, w, typed, N
  <2>6. v[N] = IF typed = {} THEN v[0] ELSE w[Max(typed)] BY Zenon, <2>1, <2>2, LastWins
  <2> QED BY Zenon, <2>3, <2>4, <2>5, <2>6
<1>4. h[N].curve = IF curve = {} THEN 0 ELSE Curves[Head(items[Max(curve)].vals)]
  <2> DEFINE v == [n \in 0..N |-> h[n].curve]
             w == [n \in 1..N |-> Curves[Head(items[n].vals)]]
  <2>1. Overwrites(v, w, curve, N) BY <1>2 DEF Overwrites
  <2>2. curve \subseteq 1..N /\ N \in Nat OBVIOUS
  <2>3. v[N] = h[N].curve /\ v[0] = 0 BY <1>1, <2>2 DEF NoHints
  <2>4. curve # {} => Max(curve) \in 1..N BY Zenon, <2>2, MaxIndex
  <2>5. \A n \in 1..N : w[n] = Curves[Head(items[n].vals)] OBVIOUS
  <2> HIDE DEF v, w, curve, N
  <2>6. v[N] = IF curve = {} THEN v[0] ELSE w[Max(curve)] BY Zenon, <2>1, <2>2, LastWins
  <2> QED BY Zenon, <2>3, <2>4, <2>5, <2>6
<1>5. h[N].hash = IF hash = {} THEN 0 ELSE SigAlgs[items[Max(hash)].oid].hash
  <2> DEFINE v == [n \in 0..N |-> h[n].hash]
             w == [n \in 1..N |-> SigAlgs[items[n].oid].hash]
  <2>1. Overwrites(v, w, hash, N) BY <1>2 DEF Overwrites
  <2>2. hash \subseteq 1..N /\ N \in Nat OBVIOUS
  <2>3. v[N] = h[N].hash /\ v[0] = 0 BY <1>1, <2>2 DEF NoHints
  <2>4. hash # {} => Max(hash) \in 1..N BY Zenon, <2>2, MaxIndex
  <2>5. \A n \in 1..N : w[n] = SigAlgs[items[n].oid].hash OBVIOUS
  <2> HIDE DEF v, w, hash, N
  <2>6. v[N] = IF hash = {} THEN v[0] ELSE w[Max(hash)] BY Zenon, <2>1, <2>2, LastWins
  <2> QED BY Zenon, <2>3, <2>4, <2>5, <2>6
<1>6. h[N] \in HintSet BY <1>1
<1> QED BY Zenon, <1>3, <1>4, <1>5, <1>6 DEF h

(* What a well-formed /csrattrs answer is parsed to.                       *)
LEMMA ParsedPolicy ==
  ASSUME NEW wire, wire \in Seq({wire[i] : i \in DOMAIN wire}), \A i \in DOMAIN wire : WellFormed(wire[i])
  PROVE  LET p == ParsePolicy(wire)
             typed == {i \in DOMAIN wire : NamesType(wire[i])}
             curve == {i \in DOMAIN wire : NamesCurve(wire[i])}
             hash == {i \in DOMAIN wire : NamesHash(wire[i])}
         IN /\ p.rc = "OK"
            /\ p.items = [i \in DOMAIN wire |-> ParseItem(wire[i])]
            /\ p.hints.type = IF typed = {} THEN "none" ELSE TypeOf(wire[Max(typed)].oid)
            /\ p.hints.curve = IF curve = {} THEN 0 ELSE Curves[Head(wire[Max(curve)].vals)]
            /\ p.hints.hash = IF hash = {} THEN 0 ELSE SigAlgs[wire[Max(hash)].oid].hash
            /\ typed # {} => Max(typed) \in typed
            /\ curve # {} => Max(curve) \in curve
            /\ hash # {} => Max(hash) \in hash
<1> DEFINE N == Len(wire)
           items == [i \in DOMAIN wire |-> ParseItem(wire[i])]
           p == ParsePolicy(wire)
           typed == {i \in DOMAIN wire : NamesType(wire[i])}
           curve == {i \in DOMAIN wire : NamesCurve(wire[i])}
           hash == {i \in DOMAIN wire : NamesHash(wire[i])}
<1>1. N \in Nat /\ DOMAIN wire = 1..N OBVIOUS
<1>2. Len(items) = N
  <2> HIDE DEF N
  <2>1. items \in [1..N -> {items[i] : i \in 1..N}] BY Zenon, <1>1
  <2> QED BY <1>1, <2>1
<1>3. p = [rc |-> "OK", items |-> items, hints |-> HintsAfter(items)[Len(items)]]
  BY Zenon DEF ParsePolicy
<1>4. \A i \in 1..N : items[i].oid = wire[i].oid /\ items[i].vals = wire[i].vals
  BY Zenon, <1>1 DEF ParseItem
<1> HIDE DEF N, items
<1>5. \A i \in 1..N : /\ NamesType(items[i]) <=> NamesType(wire[i])
                      /\ NamesCurve(items[i]) <=> NamesCurve(wire[i])
                      /\ NamesHash(items[i]) <=> NamesHash(wire[i])
  BY Zenon, <1>4 DEF NamesType, NamesCurve, NamesHash
<1>6. /\ typed = {i \in 1..N : NamesType(items[i])}
      /\ curve = {i \in 1..N : NamesCurve(items[i])}
      /\ hash = {i \in 1..N : NamesHash(items[i])}
  BY Zenon, <1>1, <1>5
<1>7. /\ typed \subseteq 1..N /\ curve \subseteq 1..N /\ hash \subseteq 1..N
  BY Zenon, <1>1
<1>8. /\ typed # {} => Max(typed) \in typed
      /\ curve # {} => Max(curve) \in curve
      /\ hash # {} => Max(hash) \in hash
  <2> HIDE DEF typed, curve, hash
  <2> QED BY Zenon, <1>1, <1>7, MaxIndex
<1>9. /\ p.hints.type = IF typed = {} THEN "none" ELSE TypeOf(items[Max(typed)].oid)
      /\ p.hints.curve = IF curve = {} THEN 0 ELSE Curves[Head(items[Max(curve)].vals)]
      /\ p.hints.hash = IF hash = {} THEN 0 ELSE SigAlgs[items[Max(hash)].oid].hash
  <2>1. Len(items) \in Nat BY Zenon, <1>1, <1>2
  <2>2. p.hints = HintsAfter(items)[N] BY <1>2, <1>3
  <2> QED BY Zenon, <1>2, <1>6, <2>1, <2>2, HintsAreLast
<1> HIDE DEF p, typed, curve, hash
<1>10. /\ p.rc = "OK" /\ p.items = items BY Zenon, <1>3
<1> QED BY Zenon, <1>4, <1>7, <1>8, <1>9, <1>10 DEF p, typed, curve, hash, items

(* An EST request follows the /csrattrs policy where the operator left key *)
(* and signature open and the operator where they did not, for every       *)
(* policy and every request (wolfcert_csr_attrs_apply).                    *)
THEOREM PolicyIsHonoured ==
  ASSUME NEW wire, NEW ask, PolicyCall(wire, ask)
  PROVE  PolicyHonoured(wire, ask)
<1> DEFINE csr   == MakeCsr(wire, ask)
           p     == ParsePolicy(wire)
           typed == {i \in DOMAIN wire : NamesType(wire[i])}
           curve == {i \in DOMAIN wire : NamesCurve(wire[i])}
           hash  == {i \in DOMAIN wire : NamesHash(wire[i])}
           bare  == {wire[i].oid : i \in {j \in DOMAIN wire : wire[j].tag = "oid"}}
           type  == IF typed = {} THEN "ecc" ELSE TypeOf(wire[Max(typed)].oid)
           cfg   == Apply(ask.key, p.hints)
           key   == IF cfg.type = "none" THEN [type |-> "ecc", param |-> 256] ELSE cfg
           sig   == ChooseSig(key, p.hints.hash)
<1>1. CASE \E i \in DOMAIN wire : ~WellFormed(wire[i])
  <2>1. p.rc = "PARSE" BY Zenon, <1>1 DEF ParsePolicy
  <2>2. csr.rc = "PARSE" BY Zenon, <2>1 DEF MakeCsr, NoCsr
  <2>3. Enforce(wire, csr) = "PARSE" BY Zenon, <2>1 DEF Enforce
  <2> QED BY Zenon, <1>1, <2>2, <2>3 DEF PolicyHonoured
<1>2. CASE \A i \in DOMAIN wire : WellFormed(wire[i])
  <2>1. /\ p.rc = "OK"
        /\ p.items = [i \in DOMAIN wire |-> ParseItem(wire[i])]
        /\ p.hints.type = IF typed = {} THEN "none" ELSE TypeOf(wire[Max(typed)].oid)
        /\ p.hints.curve = IF curve = {} THEN 0 ELSE Curves[Head(wire[Max(curve)].vals)]
        /\ p.hints.hash = IF hash = {} THEN 0 ELSE SigAlgs[wire[Max(hash)].oid].hash
        /\ typed # {} => Max(typed) \in typed
        /\ curve # {} => Max(curve) \in curve
        /\ hash # {} => Max(hash) \in hash
    BY Zenon, <1>2, ParsedPolicy DEF PolicyCall
  <2>2. SUFFICES ASSUME csr.rc = "OK"
        PROVE  /\ ask.key.type # "none" => csr.key = ask.key
               /\ ask.key.type = "none" =>
                    /\ csr.key.type = type
                    /\ type = "rsa" => csr.key.param = 2048
                    /\ type = "ecc" => csr.key.param = IF typed = {} \/ curve = {} THEN 256
                                                       ELSE Curves[Head(wire[Max(curve)].vals)]
               /\ hash # {} /\ csr.key.type \in {"rsa", "ecc"} =>
                    csr.sig = [type |-> csr.key.type, hash |-> SigAlgs[wire[Max(hash)].oid].hash]
               /\ Enforce(wire, csr) = "OK" <=> bare \subseteq csr.attrs
    BY <1>2 DEF PolicyHonoured
  <2>3. csr.key = key /\ csr.sig = sig /\ sig.type # "UNSUPPORTED"
    BY Zenon, <2>1, <2>2 DEF MakeCsr, NoCsr
  <2>4. Enforce(wire, csr) = "OK" <=> bare \subseteq csr.attrs
    <3>1. \A i \in DOMAIN wire : /\ p.items[i].kind = "bare" <=> wire[i].tag = "oid"
                                 /\ p.items[i].oid = wire[i].oid
      BY <2>1 DEF ParseItem
    <3>2. DOMAIN p.items = DOMAIN wire BY Zenon, <2>1
    <3>3. Enforce(wire, csr) = "OK"
            <=> \A i \in DOMAIN p.items : p.items[i].kind = "bare" => p.items[i].oid \in csr.attrs
      BY Zenon, <2>1 DEF Enforce
    <3> HIDE DEF p, csr
    <3> QED BY Zenon, <3>1, <3>2, <3>3
  <2>5. \A i \in typed : TypeOf(wire[i].oid) \in {"rsa", "ecc", "ed25519", "mldsa65"}
    BY SigAlgTable DEF NamesType, TypeOf, HintTypes
  <2>6. \A i \in curve : i \in typed /\ Curves[Head(wire[i].vals)] \in {256, 384, 521}
    BY Zenon, CurveTable DEF NamesCurve, NamesType
  <2>7. \A i \in hash : SigAlgs[wire[i].oid].hash # 0 BY Zenon DEF NamesHash
  <2> HIDE DEF csr, p, typed, curve, hash, bare
  <2>8. ask.key.type # "none" => csr.key = ask.key BY Zenon, <2>3 DEF Apply
  <2>9. ASSUME ask.key.type = "none"
        PROVE  /\ csr.key.type = type
               /\ type = "rsa" => csr.key.param = 2048
               /\ type = "ecc" => csr.key.param = IF typed = {} \/ curve = {} THEN 256
                                                  ELSE Curves[Head(wire[Max(curve)].vals)]
    <3>1. ask.key.param = 0 BY Zenon, <2>9 DEF PolicyCall
    <3>2. CASE typed = {}
      <4>1. cfg = ask.key /\ key = [type |-> "ecc", param |-> 256] BY Zenon, <2>1, <2>9, <3>2 DEF Apply
      <4> QED BY <2>3, <3>2, <4>1
    <3>3. CASE typed # {}
      <4>1. p.hints.type = type /\ type \in {"rsa", "ecc", "ed25519", "mldsa65"}
        BY Zenon, <2>1, <2>5, <3>3
      <4> HIDE DEF type
      <4>2. cfg.type = type /\ key = cfg BY Zenon, <4>1, <2>9 DEF Apply
      <4>3. type = "rsa" => cfg.param = 2048 BY <4>1, <2>9, <3>1 DEF Apply
      <4>4. type = "ecc" => cfg.param = IF p.hints.curve # 0 THEN p.hints.curve ELSE 256
        BY <4>1, <2>9, <3>1 DEF Apply
      <4>5. p.hints.curve # 0 <=> curve # {} BY <2>1, <2>6
      <4> HIDE DEF cfg, key
      <4> QED BY <2>1, <2>3, <3>3, <4>2, <4>3, <4>4, <4>5
    <3> QED BY Zenon, <3>2, <3>3
  <2>10. ASSUME hash # {}, csr.key.type \in {"rsa", "ecc"}
         PROVE  csr.sig = [type |-> csr.key.type, hash |-> SigAlgs[wire[Max(hash)].oid].hash]
    <3>1. p.hints.hash # 0 /\ p.hints.hash = SigAlgs[wire[Max(hash)].oid].hash
      BY Zenon, <2>1, <2>7, <2>10
    <3> HIDE DEF key
    <3>2. key.type \in {"rsa", "ecc"} BY Zenon, <2>3, <2>10
    <3>3. sig = [type |-> IF p.hints.hash \in Hashes THEN key.type ELSE "UNSUPPORTED",
                 hash |-> p.hints.hash]
      BY Zenon, <3>1, <3>2 DEF ChooseSig
    <3> HIDE DEF sig
    <3>4. p.hints.hash \in Hashes BY <2>3, <3>3
    <3> QED BY Zenon, <2>3, <3>1, <3>3, <3>4
  <2> QED BY <2>4, <2>8, <2>9, <2>10
<1> QED BY Zenon, <1>1, <1>2

(* A policy that the server encodes is the policy a client reads, for any  *)
(* number of items (wolfcert_csr_attrs_build,                              *)
(* wolfcert_est_parse_csr_attrs).                                          *)
THEOREM PolicyReadBack ==
  ASSUME NEW items, ListCall(items)
  PROVE  ReadBack(items)
<1> SUFFICES ASSUME Buildable(items) PROVE ParsePolicy(Build(items)).items = items
  BY Zenon DEF ReadBack
<1>1. Len(items) \in Nat /\ DOMAIN items = 1..Len(items) BY DEF ListCall
<1>2. DOMAIN Build(items) = DOMAIN items /\ \A i \in DOMAIN items : Build(items)[i] = BuildItem(items[i])
  BY Zenon DEF Build
<1>3. ASSUME NEW i \in DOMAIN items PROVE WellFormed(Build(items)[i]) /\ ParseItem(Build(items)[i]) = items[i]
  <2>1. IsItem(items[i]) BY Zenon DEF ListCall
  <2>2. Build(items)[i] = BuildItem(items[i]) BY Zenon, <1>2
  <2>3. CASE items[i].kind = "bare"
    BY <2>1, <2>2, <2>3 DEF IsItem, BuildItem, WellFormed, ParseItem
  <2>4. CASE items[i].kind = "attr"
    <3>1. items[i].vals # <<>> BY Zenon, <2>4 DEF Buildable
    <3> QED BY <2>1, <2>2, <2>4, <3>1 DEF IsItem, BuildItem, WellFormed, ParseItem
  <2> QED BY Zenon, <2>1, <2>3, <2>4 DEF IsItem
<1>4. ParsePolicy(Build(items)).items = [i \in DOMAIN items |-> ParseItem(Build(items)[i])]
  BY Zenon, <1>2, <1>3 DEF ParsePolicy
<1>5. items = [i \in DOMAIN items |-> items[i]] BY DEF ListCall
<1> QED BY Zenon, <1>3, <1>4, <1>5
-----------------------------------------------------------------------------
Attributes == Text \cup Binary

ValuesIn(attrs) == {Absent} \cup {Head(attrs[i].vals).v : i \in DOMAIN attrs}

ReaderStates(attrs) ==
  [rc : {"OK", "PROTOCOL"}, seen : SUBSET Attributes, out : [Attributes -> ValuesIn(attrs)]]

(* Taking one signed attribute keeps to the states of the reader.          *)
LEMMA TakeAttrTyped ==
  ASSUME NEW attrs, NEW i \in DOMAIN attrs, NEW r \in ReaderStates(attrs)
  PROVE  TakeAttr(r, attrs[i]) \in ReaderStates(attrs)
<1> DEFINE V == ValuesIn(attrs)
           x == Head(attrs[i].vals).v
<1>1. x \in V BY Zenon DEF ValuesIn
<1> HIDE DEF V, x
<1>2. r \in [rc : {"OK", "PROTOCOL"}, seen : SUBSET Attributes, out : [Attributes -> V]]
  BY Zenon DEF ReaderStates, V
<1>3. CASE r.rc # "OK" \/ attrs[i].oid \notin Attributes
  BY Zenon, <1>3 DEF TakeAttr, Attributes
<1>4. CASE r.rc = "OK" /\ attrs[i].oid \in Attributes /\ (attrs[i].oid \in r.seen \/ AttrBad(attrs[i]))
  <2>1. TakeAttr(r, attrs[i]) = [r EXCEPT !.rc = "PROTOCOL"] BY Zenon, <1>4 DEF TakeAttr, Attributes
  <2> QED BY Zenon, <1>2, <2>1 DEF ReaderStates, V
<1>5. CASE r.rc = "OK" /\ attrs[i].oid \in Attributes /\ ~(attrs[i].oid \in r.seen \/ AttrBad(attrs[i]))
  <2>1. TakeAttr(r, attrs[i]) = [r EXCEPT !.seen = @ \cup {attrs[i].oid}, !.out[attrs[i].oid] = x]
    BY Zenon, <1>5 DEF TakeAttr, Attributes, x
  <2>2. r.seen \cup {attrs[i].oid} \in SUBSET Attributes BY Zenon, <1>2, <1>5
  <2>3. [r.out EXCEPT ![attrs[i].oid] = x] \in [Attributes -> V] BY Zenon, <1>1, <1>2
  <2>4. TakeAttr(r, attrs[i]) = [r EXCEPT !.seen = r.seen \cup {attrs[i].oid},
                                          !.out = [r.out EXCEPT ![attrs[i].oid] = x]]
    BY Zenon, <1>2, <2>1
  <2> QED BY Zenon, <1>2, <2>2, <2>3, <2>4 DEF ReaderStates, V
<1> QED BY Zenon, <1>3, <1>4, <1>5

(* The reader takes the signed attributes one at a time.                   *)
LEMMA ResultsRecursion ==
  ASSUME NEW attrs, Len(attrs) \in Nat, DOMAIN attrs = 1..Len(attrs)
  PROVE  /\ ResultsAfter(attrs)[0] = [rc |-> "OK", seen |-> {}, out |-> NoResults]
         /\ \A n \in 0..Len(attrs) : ResultsAfter(attrs)[n] \in ReaderStates(attrs)
         /\ \A n \in 1..Len(attrs) : ResultsAfter(attrs)[n] = TakeAttr(ResultsAfter(attrs)[n - 1], attrs[n])
<1> DEFINE N == Len(attrs)
           V == ReaderStates(attrs)
           b == [rc |-> "OK", seen |-> {}, out |-> NoResults]
           g == ResultsAfter(attrs)
           step == [x \in (1..N) \X V |-> TakeAttr(x[2], attrs[x[1]])]
<1>1. b \in V
  <2>1. NoResults \in [Attributes -> ValuesIn(attrs)] BY Zenon DEF NoResults, Attributes, ValuesIn
  <2> QED BY Zenon, <2>1 DEF ReaderStates
<1> HIDE DEF V
<1>2. \A n \in 1..N : \A r \in V : TakeAttr(r, attrs[n]) \in V BY Zenon, TakeAttrTyped DEF V
<1>3. step \in [(1..N) \X V -> V] BY Zenon, <1>2
<1>4. \A n \in 1..N : \A r \in V : step[<<n, r>>] = TakeAttr(r, attrs[n]) OBVIOUS
<1>5. PICK f \in [0..N -> V] : Iterates(f, b, N, step)
  <2>1. N \in Nat OBVIOUS
  <2> HIDE DEF step, N, g, b
  <2> QED BY Zenon, <1>1, <1>3, <2>1, RecursionExists
<1> HIDE DEF step, b
<1>6. \A i \in 1..N : f[i] = TakeAttr(f[i-1], attrs[i])
  <2>1. \A i \in 1..N : i - 1 \in 0..N OBVIOUS
  <2> QED BY Zenon, <1>4, <1>5, <2>1 DEF Iterates
<1>7. f = [n \in 0..N |-> IF n = 0 THEN b ELSE TakeAttr(f[n-1], attrs[n])]
  BY <1>5, <1>6 DEF Iterates
<1>8. g = [n \in 0..N |-> IF n = 0 THEN b ELSE TakeAttr(g[n-1], attrs[n])]
  BY Zenon, <1>7 DEF ResultsAfter, b
<1> HIDE DEF g
<1>9. g[0] = b /\ \A n \in 1..N : g[n] = TakeAttr(g[n-1], attrs[n]) BY <1>8
<1>10. \A n \in 0..N : g[n] \in V
  <2> DEFINE T == {n \in 0..N : g[n] \in V}
  <2>1. 0 \in T BY <1>1, <1>9
  <2>2. ASSUME NEW n \in 1..N, n - 1 \in T PROVE n \in T BY <1>2, <1>9, <2>2
  <2>3. \A n \in 0..N : n \in T
    <3> HIDE DEF T
    <3> QED BY Zenon, <2>1, <2>2, LoopInduction
  <2> QED BY Zenon, <2>3
<1> QED BY Zenon, <1>9, <1>10 DEF g, b, V

(* what the reader has after n attributes *)
ReadSoFar(attrs, n, r) ==
  \A o \in Attributes :
    IF o \in r.seen
    THEN \E i \in 1..n : /\ attrs[i].oid = o /\ ~AttrBad(attrs[i])
                         /\ \A j \in 1..n : attrs[j].oid = o => j = i
                         /\ r.out[o] = Head(attrs[i].vals).v
    ELSE r.out[o] = Absent /\ \A j \in 1..n : attrs[j].oid # o

(* Taking one attribute keeps what ReadSoFar says of the ones taken.       *)
LEMMA ReadStep ==
  ASSUME NEW attrs, NEW n \in Nat \ {0}, NEW r \in ReaderStates(attrs),
         r.rc = "OK", ReadSoFar(attrs, n - 1, r), TakeAttr(r, attrs[n]).rc = "OK"
  PROVE  ReadSoFar(attrs, n, TakeAttr(r, attrs[n]))
<1> DEFINE a == attrs[n]
           t == TakeAttr(r, a)
<1>1. CASE a.oid \notin Attributes
  <2>1. t = r BY Zenon, <1>1 DEF TakeAttr, Attributes
  <2>2. ASSUME NEW o \in Attributes PROVE \A j \in 1..n : attrs[j].oid = o => j \in 1..(n-1)
    BY <1>1
  <2> QED BY <2>1, <2>2 DEF ReadSoFar
<1>2. CASE a.oid \in Attributes
  <2> DEFINE x == Head(a.vals).v
  <2>1. a.oid \notin r.seen /\ ~AttrBad(a)
    BY <1>2 DEF TakeAttr, Attributes
  <2>2. t = [r EXCEPT !.seen = @ \cup {a.oid}, !.out[a.oid] = x]
    BY Zenon, <1>2, <2>1 DEF TakeAttr, Attributes
  <2>3. t.seen = r.seen \cup {a.oid} /\ t.out = [r.out EXCEPT ![a.oid] = x]
    BY Zenon, <2>2 DEF ReaderStates
  <2>4. \A o \in Attributes : t.out[o] = IF o = a.oid THEN x ELSE r.out[o]
    BY Zenon, <2>3 DEF ReaderStates
  <2>5. ASSUME NEW o \in Attributes
        PROVE  IF o \in t.seen
               THEN \E i \in 1..n : /\ attrs[i].oid = o /\ ~AttrBad(attrs[i])
                                    /\ \A j \in 1..n : attrs[j].oid = o => j = i
                                    /\ t.out[o] = Head(attrs[i].vals).v
               ELSE t.out[o] = Absent /\ \A j \in 1..n : attrs[j].oid # o
    <3>1. CASE o = a.oid
      <4>1. \A j \in 1..(n-1) : attrs[j].oid # o BY Zenon, <1>2, <2>1, <3>1 DEF ReadSoFar
      <4>2. \A j \in 1..n : attrs[j].oid = o => j = n BY <4>1
      <4>3. n \in 1..n /\ t.out[o] = x /\ o \in t.seen BY <2>3, <2>4, <3>1
      <4> HIDE DEF t
      <4> QED BY Zenon, <2>1, <3>1, <4>2, <4>3
    <3>2. CASE o # a.oid
      <4>1. t.out[o] = r.out[o] /\ (o \in t.seen <=> o \in r.seen) BY Zenon, <2>3, <2>4, <3>2
      <4>2. \A j \in 1..n : attrs[j].oid = o => j \in 1..(n-1) BY <3>2
      <4>3. 1..(n-1) \subseteq 1..n OBVIOUS
      <4> HIDE DEF t
      <4> QED BY Zenon, <4>1, <4>2, <4>3 DEF ReadSoFar
    <3> QED BY Zenon, <3>1, <3>2
  <2> QED BY Zenon, <2>5 DEF ReadSoFar
<1> QED BY Zenon, <1>1, <1>2

(* A reader that has not failed has read as ReadSoFar says.                *)
LEMMA ReadInvariant ==
  ASSUME NEW attrs, Len(attrs) \in Nat, DOMAIN attrs = 1..Len(attrs)
  PROVE  \A n \in 0..Len(attrs) :
           ResultsAfter(attrs)[n].rc = "OK" => ReadSoFar(attrs, n, ResultsAfter(attrs)[n])
<1> DEFINE N == Len(attrs)
           g == ResultsAfter(attrs)
           T == {n \in 0..N : g[n].rc = "OK" => ReadSoFar(attrs, n, g[n])}
<1>1. /\ g[0] = [rc |-> "OK", seen |-> {}, out |-> NoResults]
      /\ \A n \in 0..N : g[n] \in ReaderStates(attrs)
      /\ \A n \in 1..N : g[n] = TakeAttr(g[n - 1], attrs[n])
  BY Zenon, ResultsRecursion
<1> HIDE DEF g
<1>2. 0 \in T
  <2>1. ReadSoFar(attrs, 0, g[0]) BY <1>1 DEF ReadSoFar, NoResults, Attributes
  <2> QED BY <2>1
<1>3. ASSUME NEW n \in 1..N, n - 1 \in T PROVE n \in T
  <2> SUFFICES ASSUME g[n].rc = "OK" PROVE ReadSoFar(attrs, n, g[n])
    OBVIOUS
  <2>1. g[n] = TakeAttr(g[n - 1], attrs[n]) /\ g[n - 1] \in ReaderStates(attrs) BY <1>1
  <2>2. g[n - 1].rc = "OK" BY Zenon, <2>1 DEF TakeAttr
  <2>3. ReadSoFar(attrs, n - 1, g[n - 1]) BY Zenon, <1>3, <2>2
  <2>4. n \in Nat \ {0} OBVIOUS
  <2> QED BY Zenon, <2>1, <2>2, <2>3, <2>4, ReadStep
<1>4. \A n \in 0..N : n \in T
  <2> HIDE DEF T
  <2> QED BY Zenon, <1>2, <1>3, LoopInduction
<1> QED BY Zenon, <1>4 DEF g

(* A list of at most one element, and not of none, has one.                *)
LEMMA OneElement ==
  ASSUME NEW S, NEW s \in Seq(S), s # <<>>, Len(s) <= 1
  PROVE  Len(s) = 1 /\ s = <<s[1]>> /\ Head(s) = s[1]
<1>1. Len(s) # 0 BY Zenon, EmptySeq
<1>2. Len(s) \in Nat OBVIOUS
<1> QED BY <1>1, <1>2

(* A pkiMessage that is accepted has each attribute once at most, in the   *)
(* right type and whole, so there is one way to read it                    *)
(* (wolfcert_scep_parse_pki_message).                                      *)
THEOREM MessagesReadUnambiguously ==
  ASSUME NEW m, ReadCall(m)
  PROVE  ReadUnambiguously(m)
<1> DEFINE p == ParseMessage(m)
           N == Len(m.attrs)
           r == ResultsAfter(m.attrs)[N]
           at(o) == {i \in DOMAIN m.attrs : m.attrs[i].oid = o}
<1>1. N \in Nat /\ DOMAIN m.attrs = 1..N BY DEF ReadCall
<1>2. p = IF r.rc = "OK" THEN [rc |-> "OK", by |-> m.by, content |-> m.content, out |-> r.out]
          ELSE [rc |-> r.rc, by |-> Absent, content |-> Absent, out |-> NoResults]
  BY Zenon DEF ParseMessage
<1>3. r.rc = "OK" => ReadSoFar(m.attrs, N, r) BY <1>1, ReadInvariant
<1> HIDE DEF r, N
<1>4. CASE r.rc # "OK"
  <2>1. p.rc # "OK" /\ p.out = NoResults /\ p.by = Absent /\ p.content = Absent BY <1>2, <1>4
  <2> QED BY Zenon, <2>1 DEF ReadUnambiguously
<1>5. CASE r.rc = "OK"
  <2>1. p.rc = "OK" /\ p.out = r.out BY <1>2, <1>5
  <2>2. ASSUME NEW o \in Attributes
        PROVE  \/ at(o) = {} /\ p.out[o] = Absent
               \/ \E i \in at(o) : /\ at(o) = {i}
                                   /\ \E x \in {m.attrs[i].vals[1]} :
                                        m.attrs[i].vals = <<x>> /\ x.v = p.out[o] /\ x.v # Nothing
    <3>1. CASE o \notin r.seen BY Zenon, <1>1, <1>3, <1>5, <2>1, <3>1 DEF ReadSoFar
    <3>2. CASE o \in r.seen
      <4>1. PICK i \in 1..N : /\ m.attrs[i].oid = o /\ ~AttrBad(m.attrs[i])
                              /\ \A j \in 1..N : m.attrs[j].oid = o => j = i
                              /\ r.out[o] = Head(m.attrs[i].vals).v
        BY Zenon, <1>3, <1>5, <3>2 DEF ReadSoFar
      <4>2. at(o) = {i} BY Zenon, <1>1, <4>1
      <4> DEFINE v == m.attrs[i].vals
      <4>3. v # Truncated /\ v # <<>> /\ Len(v) <= 1 /\ Head(v).v # Nothing
        <5>1. v \in Seq({v[k] : k \in DOMAIN v}) BY Zenon, <1>1, <4>1 DEF ReadCall, AttrBad
        <5>2. ~(Len(v) > 1) BY Zenon, <4>1 DEF AttrBad
        <5>3. Len(v) \in Nat BY <5>1
        <5> QED BY <4>1, <5>2, <5>3 DEF AttrBad
      <4>4. v \in Seq({v[k] : k \in DOMAIN v}) BY Zenon, <1>1, <4>1, <4>3 DEF ReadCall
      <4> HIDE DEF v
      <4>5. v = <<v[1]>> /\ Head(v) = v[1] BY Zenon, <4>3, <4>4, OneElement
      <4>6. \E x \in {v[1]} : v = <<x>> /\ x.v = p.out[o] /\ x.v # Nothing
        BY Zenon, <2>1, <4>1, <4>3, <4>5 DEF v
      <4> QED BY Zenon, <4>2, <4>6 DEF v
    <3> QED BY Zenon, <3>1, <3>2
  <2> QED BY Zenon, <2>1, <2>2 DEF ReadUnambiguously, Attributes
<1> QED BY Zenon, <1>4, <1>5

(* The six attributes, in the order they are written.                      *)
LEMMA OrderTable ==
  /\ Len(AttrOrder) = 6
  /\ \A i \in 1..6 : AttrOrder[i] \in Attributes
  /\ \A i, j \in 1..6 : AttrOrder[i] = AttrOrder[j] => i = j
  /\ \A o \in Attributes : \E i \in 1..6 : AttrOrder[i] = o
  /\ AttrOrder[1] = "messageType" /\ AttrOrder[2] = "transactionID"
  /\ AttrOrder[3] = "senderNonce" /\ AttrOrder[4] = "recipientNonce"
  /\ AttrOrder[5] = "pkiStatus" /\ AttrOrder[6] = "failInfo"
<1>1. /\ Len(AttrOrder) = 6
      /\ AttrOrder[1] = "messageType" /\ AttrOrder[2] = "transactionID"
      /\ AttrOrder[3] = "senderNonce" /\ AttrOrder[4] = "recipientNonce"
      /\ AttrOrder[5] = "pkiStatus" /\ AttrOrder[6] = "failInfo"
  BY Zenon DEF AttrOrder
<1>2. \A i \in 1..6 : i = 1 \/ i = 2 \/ i = 3 \/ i = 4 \/ i = 5 \/ i = 6 OBVIOUS
<1>3. \A i \in 1..6 : AttrOrder[i] \in Attributes
  BY Zenon, <1>1, <1>2 DEF Attributes, Text, Binary
<1>4. \A i, j \in 1..6 : AttrOrder[i] = AttrOrder[j] => i = j BY Zenon, <1>1, <1>2
<1>5. \A o \in Attributes : \E i \in 1..6 : AttrOrder[i] = o
  BY <1>1 DEF Attributes, Text, Binary
<1> QED BY Zenon, <1>1, <1>3, <1>4, <1>5

WriterStates(a) ==
  [rc : {"OK", "BAD_ARG", "MEMORY"}, used : Nat, attrs : Seq({Encoded(o, a[o]) : o \in Attributes})]

(* Adding one attribute keeps to the states of the writer.                 *)
LEMMA AddAttrTyped ==
  ASSUME NEW a, WriteCall(a), NEW o \in Attributes, NEW r \in WriterStates(a)
  PROVE  AddAttr(r, o, a) \in WriterStates(a)
<1> DEFINE E == {Encoded(x, a[x]) : x \in Attributes}
           e == Encoded(o, a[o])
<1>1. e \in E OBVIOUS
<1> HIDE DEF e, E
<1>2. r \in [rc : {"OK", "BAD_ARG", "MEMORY"}, used : Nat, attrs : Seq(E)] BY Zenon DEF WriterStates, E
<1>3. CASE r.rc # "OK" \/ a[o] = Absent BY Zenon, <1>3 DEF AddAttr
<1>4. CASE ~(r.rc # "OK" \/ a[o] = Absent) /\ (TagOf(o) = "printable" /\ ~a[o].printable)
  <2>1. AddAttr(r, o, a) = [r EXCEPT !.rc = "BAD_ARG"] BY Zenon, <1>4 DEF AddAttr
  <2> QED BY Zenon, <1>2, <2>1 DEF WriterStates, E
<1>5. CASE /\ ~(r.rc # "OK" \/ a[o] = Absent) /\ ~(TagOf(o) = "printable" /\ ~a[o].printable)
           /\ r.used + a[o].size > Scratch
  <2>1. AddAttr(r, o, a) = [r EXCEPT !.rc = "MEMORY"] BY Zenon, <1>5 DEF AddAttr
  <2> QED BY Zenon, <1>2, <2>1 DEF WriterStates, E
<1>6. CASE /\ ~(r.rc # "OK" \/ a[o] = Absent) /\ ~(TagOf(o) = "printable" /\ ~a[o].printable)
           /\ ~(r.used + a[o].size > Scratch)
  <2>1. AddAttr(r, o, a) = [r EXCEPT !.used = @ + a[o].size, !.attrs = Append(@, e)]
    BY Zenon, <1>6 DEF AddAttr, e
  <2>2. a[o].size \in Nat BY Zenon, <1>6 DEF WriteCall, IsValue, Attributes
  <2>3. r.used + a[o].size \in Nat /\ Append(r.attrs, e) \in Seq(E) BY <1>1, <1>2, <2>2
  <2>4. AddAttr(r, o, a) \in [rc : {"OK", "BAD_ARG", "MEMORY"}, used : Nat, attrs : Seq(E)]
    BY Zenon, <1>2, <2>1, <2>3
  <2> QED BY Zenon, <2>4 DEF WriterStates, E
<1> QED BY Zenon, <1>3, <1>4, <1>5, <1>6

(* The writer adds the attributes one at a time.                           *)
LEMMA AttribsRecursion ==
  ASSUME NEW a, WriteCall(a)
  PROVE  /\ AttribsAfter(a)[0] = [rc |-> "OK", used |-> 0, attrs |-> <<>>]
         /\ \A n \in 0..6 : AttribsAfter(a)[n] \in WriterStates(a)
         /\ \A n \in 1..6 : AttribsAfter(a)[n] = AddAttr(AttribsAfter(a)[n - 1], AttrOrder[n], a)
<1> DEFINE N == Len(AttrOrder)
           V == WriterStates(a)
           b == [rc |-> "OK", used |-> 0, attrs |-> <<>>]
           g == AttribsAfter(a)
           step == [x \in (1..N) \X V |-> AddAttr(x[2], AttrOrder[x[1]], a)]
<1>1. b \in V BY DEF WriterStates
<1> HIDE DEF V
<1>2. N = 6 BY Zenon, OrderTable
<1>3. \A n \in 1..N : \A r \in V : AddAttr(r, AttrOrder[n], a) \in V
  BY Zenon, <1>2, OrderTable, AddAttrTyped DEF V
<1> HIDE DEF N
<1>4. step \in [(1..N) \X V -> V] BY Zenon, <1>3
<1>5. \A n \in 1..N : \A r \in V : step[<<n, r>>] = AddAttr(r, AttrOrder[n], a) OBVIOUS
<1>6. PICK f \in [0..N -> V] : Iterates(f, b, N, step)
  <2>1. N \in Nat BY Zenon, <1>2
  <2> HIDE DEF step, g, b
  <2> QED BY Zenon, <1>1, <1>4, <2>1, RecursionExists
<1> HIDE DEF step, b
<1>7. \A i \in 1..N : f[i] = AddAttr(f[i-1], AttrOrder[i], a)
  <2>1. \A i \in 1..N : i - 1 \in 0..N BY <1>2
  <2> QED BY Zenon, <1>5, <1>6, <2>1 DEF Iterates
<1>8. f = [n \in 0..N |-> IF n = 0 THEN b ELSE AddAttr(f[n-1], AttrOrder[n], a)]
  BY <1>2, <1>6, <1>7 DEF Iterates
<1>9. g = [n \in 0..N |-> IF n = 0 THEN b ELSE AddAttr(g[n-1], AttrOrder[n], a)]
  BY Zenon, <1>8 DEF AttribsAfter, b, N
<1> HIDE DEF g
<1>10. g[0] = b /\ \A n \in 1..6 : g[n] = AddAttr(g[n-1], AttrOrder[n], a) BY <1>2, <1>9
<1>11. \A n \in 0..6 : g[n] \in V
  <2> DEFINE T == {n \in 0..6 : g[n] \in V}
  <2>1. 0 \in T BY <1>1, <1>10
  <2>2. ASSUME NEW n \in 1..6, n - 1 \in T PROVE n \in T BY <1>2, <1>3, <1>10, <2>2
  <2>3. \A n \in 0..6 : n \in T
    <3>1. 6 \in Nat OBVIOUS
    <3> HIDE DEF T
    <3> QED BY Zenon, <2>1, <2>2, <3>1, LoopInduction
  <2> QED BY Zenon, <2>3
<1> QED BY Zenon, <1>10, <1>11 DEF g, b, V

(* what has been written after n of the six attributes *)
WrittenSoFar(a, n, r) ==
  /\ \A k \in 1..Len(r.attrs) : \E i \in 1..n :
       a[AttrOrder[i]] # Absent /\ r.attrs[k] = Encoded(AttrOrder[i], a[AttrOrder[i]])
  /\ \A k, l \in 1..Len(r.attrs) : r.attrs[k].oid = r.attrs[l].oid => k = l
  /\ \A i \in 1..n : a[AttrOrder[i]] # Absent =>
       \E k \in 1..Len(r.attrs) : r.attrs[k] = Encoded(AttrOrder[i], a[AttrOrder[i]])
  /\ r.used <= Scratch

(* Adding one attribute keeps what WrittenSoFar says of the ones added,    *)
(* and takes their size of the scratch buffer.                             *)
LEMMA WriteStep ==
  ASSUME NEW a, WriteCall(a), NEW n \in 1..6, NEW r \in WriterStates(a),
         r.rc = "OK", WrittenSoFar(a, n - 1, r), AddAttr(r, AttrOrder[n], a).rc = "OK"
  PROVE  /\ WrittenSoFar(a, n, AddAttr(r, AttrOrder[n], a))
         /\ AddAttr(r, AttrOrder[n], a).used = r.used + SizeIn(a, AttrOrder[n])
<1> DEFINE o == AttrOrder[n]
           t == AddAttr(r, o, a)
           e == Encoded(o, a[o])
           L == Len(r.attrs)
<1>1. o \in Attributes /\ \A i \in 1..(n-1) : AttrOrder[i] # o BY OrderTable
<1>2. r.used \in Nat /\ L \in Nat /\ r.attrs \in Seq({Encoded(x, a[x]) : x \in Attributes})
  BY DEF WriterStates
<1>3. 1..(n-1) \subseteq 1..n /\ \A i \in 1..n : i \in 1..(n-1) \/ i = n OBVIOUS
<1>4. CASE a[o] = Absent
  <2>1. t = r BY Zenon, <1>4 DEF AddAttr
  <2>2. SizeIn(a, o) = 0 BY Zenon, <1>4 DEF SizeIn
  <2>3. WrittenSoFar(a, n, r)
    <3> HIDE DEF o, L
    <3>1. \A i \in 1..n : a[AttrOrder[i]] # Absent => i \in 1..(n-1) BY Zenon, <1>3, <1>4 DEF o
    <3> QED BY Zenon, <1>3, <3>1 DEF WrittenSoFar
  <2> HIDE DEF t, o
  <2> QED BY <1>2, <2>1, <2>2, <2>3 DEF t, o
<1>5. CASE a[o] # Absent
  <2>1. ~(TagOf(o) = "printable" /\ ~a[o].printable) /\ ~(r.used + a[o].size > Scratch)
    BY <1>5 DEF AddAttr
  <2>2. t = [r EXCEPT !.used = @ + a[o].size, !.attrs = Append(@, e)] BY Zenon, <1>5, <2>1 DEF AddAttr
  <2>3. t.used = r.used + a[o].size /\ t.attrs = Append(r.attrs, e) BY Zenon, <2>2 DEF WriterStates
  <2>4. SizeIn(a, o) = a[o].size /\ a[o].size \in Nat
    BY Zenon, <1>1, <1>5 DEF SizeIn, WriteCall, IsValue, Attributes
  <2>5. /\ Len(t.attrs) = L + 1
        /\ \A k \in 1..L : t.attrs[k] = r.attrs[k]
        /\ t.attrs[L + 1] = e
    BY <1>2, <2>3
  <2>6. t.used <= Scratch BY <1>2, <2>1, <2>3, <2>4, ScratchAssumption
  <2>7. e.oid = o BY Zenon DEF Encoded
  <2>8. ASSUME NEW k \in 1..L PROVE r.attrs[k].oid # o
    <3>1. PICK i \in 1..(n-1) : r.attrs[k] = Encoded(AttrOrder[i], a[AttrOrder[i]])
      BY Zenon DEF WrittenSoFar
    <3>2. r.attrs[k].oid = AttrOrder[i] BY <3>1 DEF Encoded
    <3> QED BY Zenon, <1>1, <3>2
  <2>9. \A k \in 1..(L + 1) : k \in 1..L \/ k = L + 1 BY <1>2
  <2>10. 1..L \subseteq 1..(L+1) /\ L + 1 \in 1..(L+1) BY <1>2
  <2> HIDE DEF t, e, L
  <2>11. \A k, l \in 1..(L + 1) : t.attrs[k].oid = t.attrs[l].oid => k = l
    <3>1. \A k, l \in 1..L : r.attrs[k].oid = r.attrs[l].oid => k = l BY Zenon DEF WrittenSoFar, L
    <3> QED BY Zenon, <2>5, <2>7, <2>8, <2>9, <3>1
  <2>12. \A k \in 1..(L + 1) : \E i \in 1..n :
           a[AttrOrder[i]] # Absent /\ t.attrs[k] = Encoded(AttrOrder[i], a[AttrOrder[i]])
    <3>1. \A k \in 1..L : \E i \in 1..(n-1) :
           a[AttrOrder[i]] # Absent /\ r.attrs[k] = Encoded(AttrOrder[i], a[AttrOrder[i]])
      BY Zenon DEF WrittenSoFar, L
    <3>2. n \in 1..n OBVIOUS
    <3> QED BY <1>3, <1>5, <2>5, <2>9, <3>1, <3>2 DEF e
  <2>13. \A i \in 1..n : a[AttrOrder[i]] # Absent =>
           \E k \in 1..(L + 1) : t.attrs[k] = Encoded(AttrOrder[i], a[AttrOrder[i]])
    <3>1. \A i \in 1..(n-1) : a[AttrOrder[i]] # Absent =>
           \E k \in 1..L : r.attrs[k] = Encoded(AttrOrder[i], a[AttrOrder[i]])
      BY Zenon DEF WrittenSoFar, L
    <3> QED BY Zenon, <1>3, <2>5, <2>10, <3>1 DEF e
  <2>14. WrittenSoFar(a, n, t) BY Zenon, <2>5, <2>6, <2>11, <2>12, <2>13 DEF WrittenSoFar
  <2> QED BY Zenon, <2>3, <2>4, <2>14 DEF t
<1> QED BY Zenon, <1>4, <1>5

(* A writer that has not failed has written as WrittenSoFar says.          *)
LEMMA WriteInvariant ==
  ASSUME NEW a, WriteCall(a)
  PROVE  \A n \in 0..6 : AttribsAfter(a)[n].rc = "OK" =>
           /\ WrittenSoFar(a, n, AttribsAfter(a)[n])
           /\ n > 0 => /\ AttribsAfter(a)[n - 1].rc = "OK"
                       /\ AttribsAfter(a)[n].used = AttribsAfter(a)[n - 1].used + SizeIn(a, AttrOrder[n])
<1> DEFINE g == AttribsAfter(a)
           P(n) == /\ WrittenSoFar(a, n, g[n])
                   /\ n > 0 => /\ g[n - 1].rc = "OK"
                               /\ g[n].used = g[n - 1].used + SizeIn(a, AttrOrder[n])
           T == {n \in 0..6 : g[n].rc = "OK" => P(n)}
<1>1. /\ g[0] = [rc |-> "OK", used |-> 0, attrs |-> <<>>]
      /\ \A n \in 0..6 : g[n] \in WriterStates(a)
      /\ \A n \in 1..6 : g[n] = AddAttr(g[n - 1], AttrOrder[n], a)
  BY Zenon, AttribsRecursion
<1> HIDE DEF g
<1>2. 0 \in T
  <2>1. WrittenSoFar(a, 0, g[0])
    <3>1. g[0].used = 0 /\ g[0].attrs = <<>> BY <1>1
    <3>2. Len(g[0].attrs) = 0 BY Zenon, <3>1
    <3> QED BY <3>1, <3>2, ScratchAssumption DEF WrittenSoFar
  <2> QED BY <2>1
<1>3. ASSUME NEW n \in 1..6, n - 1 \in T PROVE n \in T
  <2> SUFFICES ASSUME g[n].rc = "OK" PROVE P(n)
    OBVIOUS
  <2>1. g[n] = AddAttr(g[n - 1], AttrOrder[n], a) /\ g[n - 1] \in WriterStates(a) BY <1>1
  <2>2. g[n - 1].rc = "OK" BY Zenon, <2>1 DEF AddAttr
  <2>3. WrittenSoFar(a, n - 1, g[n - 1]) BY Zenon, <1>3, <2>2
  <2>4. /\ WrittenSoFar(a, n, g[n])
        /\ g[n].used = g[n - 1].used + SizeIn(a, AttrOrder[n])
    BY Zenon, <2>1, <2>2, <2>3, WriteStep
  <2> QED BY Zenon, <2>2, <2>4
<1>4. \A n \in 0..6 : n \in T
  <2>1. 6 \in Nat OBVIOUS
  <2> HIDE DEF T
  <2> QED BY Zenon, <1>2, <1>3, <2>1, LoopInduction
<1> HIDE DEF P
<1>5. \A n \in 0..6 : g[n].rc = "OK" => P(n) BY Zenon, <1>4
<1> QED BY Zenon, <1>5 DEF P, g

(* A message that is built has all the attributes given, and has used as   *)
(* much of the scratch buffer as they take together.                       *)
LEMMA WholeMessage ==
  ASSUME NEW a, WriteCall(a), AttribsAfter(a)[6].rc = "OK"
  PROVE  /\ WrittenSoFar(a, 6, AttribsAfter(a)[6])
         /\ AttribsAfter(a)[6].used =
              SizeIn(a, "messageType") + SizeIn(a, "transactionID") + SizeIn(a, "senderNonce")
                + SizeIn(a, "recipientNonce") + SizeIn(a, "pkiStatus") + SizeIn(a, "failInfo")
<1> DEFINE u(n) == AttribsAfter(a)[n].used
           s(o) == SizeIn(a, o)
<1>1. WrittenSoFar(a, 6, AttribsAfter(a)[6]) BY WriteInvariant
<1>2. AttribsAfter(a)[5].rc = "OK" /\ u(6) = u(5) + s("failInfo") BY WriteInvariant, OrderTable
<1>3. AttribsAfter(a)[4].rc = "OK" /\ u(5) = u(4) + s("pkiStatus") BY <1>2, WriteInvariant, OrderTable
<1>4. AttribsAfter(a)[3].rc = "OK" /\ u(4) = u(3) + s("recipientNonce") BY <1>3, WriteInvariant, OrderTable
<1>5. AttribsAfter(a)[2].rc = "OK" /\ u(3) = u(2) + s("senderNonce") BY <1>4, WriteInvariant, OrderTable
<1>6. AttribsAfter(a)[1].rc = "OK" /\ u(2) = u(1) + s("transactionID") BY <1>5, WriteInvariant, OrderTable
<1>7. u(1) = u(0) + s("messageType") BY <1>6, WriteInvariant, OrderTable
<1>8. u(0) = 0 BY AttribsRecursion
<1>9. \A o \in Attributes : s(o) \in Nat BY Zenon DEF SizeIn, WriteCall, IsValue, Attributes
<1>10. /\ s("messageType") \in Nat /\ s("transactionID") \in Nat /\ s("senderNonce") \in Nat
       /\ s("recipientNonce") \in Nat /\ s("pkiStatus") \in Nat /\ s("failInfo") \in Nat
  BY Zenon, <1>9 DEF Attributes, Text, Binary
<1> HIDE DEF u, s
<1>11. u(6) = s("messageType") + s("transactionID") + s("senderNonce")
                + s("recipientNonce") + s("pkiStatus") + s("failInfo")
  BY <1>2, <1>3, <1>4, <1>5, <1>6, <1>7, <1>8, <1>10
<1> QED BY Zenon, <1>1, <1>11 DEF u, s

(* Attributes that are well-formed and all different are accepted.         *)
LEMMA ParseSucceeds ==
  ASSUME NEW attrs, Len(attrs) \in Nat, DOMAIN attrs = 1..Len(attrs),
         \A i \in 1..Len(attrs) : ~AttrBad(attrs[i]),
         \A i, j \in 1..Len(attrs) : attrs[i].oid = attrs[j].oid => i = j
  PROVE  ResultsAfter(attrs)[Len(attrs)].rc = "OK"
<1> DEFINE N == Len(attrs)
           g == ResultsAfter(attrs)
           T == {n \in 0..N : g[n].rc = "OK"}
<1>1. /\ g[0] = [rc |-> "OK", seen |-> {}, out |-> NoResults]
      /\ \A n \in 1..N : g[n] = TakeAttr(g[n - 1], attrs[n])
      /\ \A n \in 0..N : g[n] \in ReaderStates(attrs)
  BY Zenon, ResultsRecursion
<1>2. \A n \in 0..N : g[n].rc = "OK" => ReadSoFar(attrs, n, g[n]) BY Zenon, ReadInvariant
<1> HIDE DEF g
<1>3. 0 \in T BY <1>1
<1>4. ASSUME NEW n \in 1..N, n - 1 \in T PROVE n \in T
  <2>1. g[n - 1].rc = "OK" /\ ReadSoFar(attrs, n - 1, g[n - 1]) BY Zenon, <1>2, <1>4
  <2>2. g[n] = TakeAttr(g[n - 1], attrs[n]) /\ g[n - 1] \in ReaderStates(attrs) BY <1>1
  <2>3. attrs[n].oid \in Attributes => attrs[n].oid \notin g[n - 1].seen
    <3> SUFFICES ASSUME attrs[n].oid \in Attributes, attrs[n].oid \in g[n - 1].seen PROVE FALSE
      OBVIOUS
    <3>1. PICK i \in 1..(n-1) : attrs[i].oid = attrs[n].oid BY Zenon, <2>1 DEF ReadSoFar
    <3>2. i \in 1..N /\ i # n OBVIOUS
    <3> QED BY Zenon, <3>1, <3>2
  <2>4. g[n].rc = "OK"
    <3> DEFINE r == g[n - 1]
               x == attrs[n]
    <3>1. ~AttrBad(x) OBVIOUS
    <3> HIDE DEF r, x
    <3>2. r \in ReaderStates(attrs) /\ r.rc = "OK" BY Zenon, <2>1, <2>2 DEF r
    <3>3. TakeAttr(r, x).rc = "OK"
      BY Zenon, <2>3, <3>1, <3>2 DEF TakeAttr, ReaderStates, Attributes, r, x
    <3> QED BY Zenon, <2>2, <3>3 DEF r, x
  <2> QED BY <2>4
<1>5. \A n \in 0..N : n \in T
  <2> HIDE DEF T
  <2> QED BY Zenon, <1>3, <1>4, LoopInduction
<1> QED BY <1>5 DEF g

(* A pkiMessage that can be built is parsed, to the signer, the content    *)
(* and the values it was built from, with no attribute lost or added, and  *)
(* its values fit the scratch buffer; one that does not fit is not built   *)
(* (wolfcert_scep_build_pki_message, wolfcert_scep_parse_pki_message).     *)
THEOREM MessagesReadAsWritten ==
  ASSUME NEW content, NEW by, NEW a, WriteCall(a)
  PROVE  WrittenAsRead(content, by, a)
<1> DEFINE s == AttribsAfter(a)[6]
           m == [by |-> by, content |-> content, attrs |-> s.attrs]
           p == ParseMessage(m)
           N == Len(s.attrs)
           r == ResultsAfter(s.attrs)[N]
<1>1. BuildMessage(content, by, a) = [rc |-> s.rc, msg |-> m]
  BY Zenon, OrderTable DEF BuildMessage
<1> SUFFICES ASSUME s.rc = "OK"
             PROVE  /\ p.rc = "OK" /\ p.by = by /\ p.content = content
                    /\ \A o \in Attributes : p.out[o] = IF a[o] # Absent THEN a[o].s ELSE Absent
                    /\ s.used <= Scratch
  <2>1. WrittenAsRead(content, by, a) = (s.rc = "OK" =>
          /\ p.rc = "OK" /\ p.by = by /\ p.content = content
          /\ \A o \in Text \cup Binary : p.out[o] = IF a[o] # Absent THEN a[o].s ELSE Absent
          /\ SizeIn(a, "messageType") + SizeIn(a, "transactionID") + SizeIn(a, "senderNonce")
               + SizeIn(a, "recipientNonce") + SizeIn(a, "pkiStatus") + SizeIn(a, "failInfo")
               <= Scratch)
    BY <1>1 DEF WrittenAsRead
  <2> HIDE DEF p, s
  <2> QED BY Zenon, <2>1, WholeMessage DEF Attributes, s
<1>2. WrittenSoFar(a, 6, s) BY Zenon, WholeMessage
<1>3. s.attrs \in Seq({Encoded(o, a[o]) : o \in Attributes}) BY AttribsRecursion DEF WriterStates
<1>4. N \in Nat /\ DOMAIN s.attrs = 1..N BY <1>3
<1>5. \A i \in 1..N : \E o \in Attributes : a[o] # Absent /\ s.attrs[i] = Encoded(o, a[o])
  BY Zenon, <1>2, OrderTable DEF WrittenSoFar
<1>6. ASSUME NEW o \in Attributes, a[o] # Absent
      PROVE  /\ Encoded(o, a[o]).oid = o /\ ~AttrBad(Encoded(o, a[o]))
             /\ Head(Encoded(o, a[o]).vals).v = a[o].s
  <2> DEFINE x == [tag |-> TagOf(o), v |-> a[o].s, nul |-> FALSE]
  <2>1. Encoded(o, a[o]).oid = o /\ Encoded(o, a[o]).vals = <<x>> BY Zenon DEF Encoded
  <2>2. x.v = a[o].s /\ x.tag = TagOf(o) /\ x.nul = FALSE OBVIOUS
  <2>3. a[o].s # Nothing BY Zenon, <1>6 DEF WriteCall, IsValue, Attributes
  <2>4. o \in Text => TagOf(o) = "printable" BY Zenon DEF TagOf, Text
  <2> HIDE DEF x
  <2>5. Head(<<x>>) = x /\ Len(<<x>>) = 1 /\ <<x>> # <<>> OBVIOUS
  <2>6. <<x>> # Truncated BY Zenon, <1>6, <2>1 DEF WriteCall, Attributes
  <2> QED BY <2>1, <2>2, <2>3, <2>4, <2>5, <2>6 DEF AttrBad
<1>7. \A i \in 1..N : ~AttrBad(s.attrs[i]) BY Zenon, <1>5, <1>6
<1>8. \A i, j \in 1..N : s.attrs[i].oid = s.attrs[j].oid => i = j BY Zenon, <1>2 DEF WrittenSoFar
<1>9. r.rc = "OK" BY Zenon, <1>4, <1>7, <1>8, ParseSucceeds
<1>10. p.rc = "OK" /\ p.by = by /\ p.content = content /\ p.out = r.out
  BY Zenon, <1>9 DEF ParseMessage
<1>11. ReadSoFar(s.attrs, N, r) BY <1>4, <1>9, ReadInvariant
<1> HIDE DEF s, m, p, N, r
<1>12. ASSUME NEW o \in Attributes PROVE r.out[o] = IF a[o] # Absent THEN a[o].s ELSE Absent
  <2>1. CASE a[o] # Absent
    <3>1. PICK k \in 1..N : s.attrs[k] = Encoded(o, a[o]) BY Zenon, <1>2, <2>1, OrderTable DEF WrittenSoFar, N
    <3>2. s.attrs[k].oid = o /\ Head(s.attrs[k].vals).v = a[o].s BY Zenon, <1>6, <2>1, <3>1
    <3> QED BY Zenon, <1>11, <2>1, <3>2 DEF ReadSoFar
  <2>2. CASE a[o] = Absent
    <3>1. \A k \in 1..N : s.attrs[k].oid # o BY <1>5, <1>6, <2>2
    <3> QED BY Zenon, <1>11, <2>2, <3>1 DEF ReadSoFar
  <2> QED BY Zenon, <2>1, <2>2
<1>13. s.used <= Scratch BY Zenon, <1>2 DEF WrittenSoFar
<1> QED BY Zenon, <1>10, <1>12, <1>13
-----------------------------------------------------------------------------
(* Every state is a call of an algorithm on one of its inputs.             *)
Called == alg \in Algs /\ in \in Inputs(alg)

(* The call stays what it is.                                              *)
LEMMA CalledHolds == Spec => []Called
<1>1. Init => Called
  BY Zenon DEF Init, Called
<1>2. Called /\ [Next]_vars => Called'
  BY Zenon DEF Called, Next, vars
<1> QED BY <1>1, <1>2, PTL DEF Spec

(* TrustedRecipient, for every served list and every pin: who a SCEP       *)
(* request is encrypted to and who may answer it is up to the pins, and    *)
(* never to the order of the list.                                         *)
THEOREM RecipientTrusted == Spec => []TrustedRecipient
<1>1. Called => TrustedRecipient
  BY Zenon, InputsAssumption, PinsDecide, OrderDoesNotDecide
  DEF Called, TrustedRecipient
<1> QED BY <1>1, CalledHolds, PTL

(* PolicyFollowed, for every policy, every request and every list of       *)
(* items.                                                                  *)
THEOREM PolicyHolds == Spec => []PolicyFollowed
<1>1. Called => PolicyFollowed
  BY Zenon, InputsAssumption, PolicyIsHonoured, PolicyReadBack
  DEF Called, PolicyFollowed
<1> QED BY <1>1, CalledHolds, PTL

(* MessagesAsWritten, for every set of values and every message received.  *)
THEOREM MessagesHold == Spec => []MessagesAsWritten
<1>1. Called => MessagesAsWritten
  BY Zenon, InputsAssumption, MessagesReadAsWritten, MessagesReadUnambiguously
  DEF Called, MessagesAsWritten
<1> QED BY <1>1, CalledHolds, PTL
=============================================================================

-------------------------- MODULE ScepEnrollProofs --------------------------
(***************************************************************************)
(* Proofs about the SCEP server and about enrolment end to end, for any    *)
(* number of keys, runs, polls, other clients, transactions and slots.     *)
(* First the queue and the registry of the server: every message does one  *)
(* of five things to them, and each property is proved for the five.  Then *)
(* the client, its network and the server together: a run saves the        *)
(* certificate issued for its own CSR, and its files stay a pair.  Last,   *)
(* what one run of scep_enroll costs and finds at the CA: it is issued one *)
(* certificate at most, by a count of what is issued and what may still    *)
(* be; and a run that polls has its request in the queue, by who goes by   *)
(* which transactionID.                                                    *)
(***************************************************************************)
EXTENDS ScepEnroll, SequenceTheorems, FiniteSetTheorems, TLAPS

Entries == [tid : Tids, csr : Csrs, signer : Keys \cup {CaKey}]

(* What a message may do to the server's state.                            *)
Mute ==
  /\ UNCHANGED <<cfg, pending, issued, certs, parks, recorded>>
  /\ reply'.st # "0"

Silent ==
  /\ UNCHANGED <<cfg, pending, issued, certs, parks, recorded>>
  /\ reply'.st = "0" => \E i \in 1..Len(issued) : reply'.cert = issued[i]

Parked(e) ==
  /\ HasRoom(e.tid) /\ pending' = Append(pending, e) /\ parks' = parks + 1
  /\ reply'.st # "0" /\ UNCHANGED <<cfg, issued, certs, recorded>>

Dropped(i) ==
  /\ pending' = Without(i) /\ reply'.st # "0"
  /\ UNCHANGED <<cfg, issued, certs, parks, recorded>>

Released(i) ==
  /\ pending' = Without(i)
  /\ Issue(pending[i].csr, pending[i].signer, pending[i].signer)
  /\ UNCHANGED <<cfg, parks>>

Granted(csr, signer) ==
  /\ ~RequireApproval
  /\ Issue(csr, signer, Target(signer))
  /\ UNCHANGED <<cfg, pending, parks>>

(* The inductive invariant: the types, and for the registry that its       *)
(* entries are the last ones recorded, one by one.                         *)
TypeInv ==
  /\ pending \in Seq(Entries) /\ parks \in Nat
  /\ certs \in Seq([csr : Csrs, by : Keys \cup {NoKey, CaKey}])
  /\ issued \in Seq(Nat) /\ recorded \in Seq(Nat)

RegistryInv ==
  /\ Len(issued) = IF Len(recorded) < IssuedMax THEN Len(recorded) ELSE IssuedMax
  /\ \A k \in 1..Len(issued) : issued[k] = recorded[Len(recorded) - Len(issued) + k]
  /\ \A k \in 1..Len(recorded) : recorded[k] \in 1..Len(certs)
  /\ reply.st = "0" => reply.cert \in 1..Len(certs)

ServerInv ==
  TypeInv /\ OneEntryPerTransaction /\ IssuedOncePerApproval /\ RegistryInv
-----------------------------------------------------------------------------
(* pending_remove takes out one entry: the last one moves into its place   *)
(* and all the others stay where they are.                                 *)
LEMMA WithoutOne ==
  ASSUME pending \in Seq(Entries), NEW i \in 1..Len(pending)
  PROVE  /\ Without(i) \in Seq(Entries)
         /\ Len(Without(i)) = Len(pending) - 1
         /\ \A j \in 1..Len(pending) - 1 :
              Without(i)[j] = IF j = i THEN pending[Len(pending)] ELSE pending[j]
<1> DEFINE moved == [pending EXCEPT ![i] = pending[Len(pending)]]
<1>1. Len(pending) \in Nat /\ pending[Len(pending)] \in Entries
  BY LenProperties, ElementOfSeq
<1>2. /\ moved \in Seq(Entries)
      /\ Len(moved) = Len(pending)
      /\ \A j \in 1..Len(pending) :
           moved[j] = IF j = i THEN pending[Len(pending)] ELSE pending[j]
  BY <1>1, ExceptSeq
<1>3. \A j \in 1..Len(pending) - 1 : moved[j] \in Entries
  BY <1>1, <1>2, ElementOfSeq
<1> HIDE DEF moved
<1>4. /\ SubSeq(moved, 1, Len(pending) - 1) \in Seq(Entries)
      /\ Len(SubSeq(moved, 1, Len(pending) - 1)) = Len(pending) - 1
      /\ \A j \in 1..Len(pending) - 1 : SubSeq(moved, 1, Len(pending) - 1)[j] = moved[j]
  <2>1. 1 \in Int /\ Len(pending) - 1 \in Int /\ 1 <= Len(pending)
    BY <1>1
  <2>2. /\ SubSeq(moved, 1, Len(pending) - 1) \in Seq(Entries)
        /\ Len(SubSeq(moved, 1, Len(pending) - 1)) =
             IF 1 <= Len(pending) - 1 THEN Len(pending) - 1 - 1 + 1 ELSE 0
        /\ \A j \in 1..Len(pending) - 1 - 1 + 1 :
             SubSeq(moved, 1, Len(pending) - 1)[j] = moved[1 + j - 1]
    BY <2>1, <1>3, SubSeqProperties
  <2>3. \A j \in 1..Len(pending) - 1 : j \in 1..Len(pending) - 1 - 1 + 1 /\ 1 + j - 1 = j
    BY <1>1
  <2>4. ASSUME NEW n \in Nat, 1 <= n
        PROVE  (IF 1 <= n - 1 THEN n - 1 - 1 + 1 ELSE 0) = n - 1
    BY <2>4
  <2>5. \A j \in 1..Len(pending) - 1 : SubSeq(moved, 1, Len(pending) - 1)[j] = moved[j]
    BY Zenon, <2>2, <2>3
  <2> QED BY Zenon, <1>1, <2>1, <2>2, <2>4, <2>5
<1> QED BY <1>1, <1>2, <1>4 DEF Without, moved

(* Without approval handle_enroll does nothing or issues.                  *)
LEMMA EnrollNowKinds ==
  ASSUME NEW mt, NEW signer, NEW renewed, NEW csr, EnrollNow(mt, signer, renewed, csr)
  PROVE  Mute \/ Granted(csr, signer)
<1>1. CASE IssueNoMemory
  BY Zenon, <1>1 DEF EnrollNow, IssueNoMemory, Mute, Reply, Http
<1>2. CASE IssueFails
  BY <1>2 DEF EnrollNow, IssueFails, Mute, Send, Failure, Reply, Http
<1>3. CASE Issue(csr, signer, Target(signer))
  BY Zenon, <1>3 DEF EnrollNow, Granted
<1> QED BY Zenon, <1>1, <1>2, <1>3 DEF EnrollNow

(* handle_enroll does one of: nothing, park the CSR, issue for it.         *)
LEMMA EnrollKinds ==
  ASSUME NEW mt, NEW t \in Tids, NEW signer \in Keys \cup {NoKey}, NEW renewed,
         NEW csr \in Csrs, Enroll(mt, t, signer, renewed, csr)
  PROVE  \/ Mute
         \/ Parked([tid |-> t, csr |-> csr, signer |-> Target(signer)])
         \/ Granted(csr, signer)
<1>1. CASE EnrollRefused(mt, signer, renewed, csr)
  BY <1>1 DEF EnrollRefused, Mute, Send, Failure, Reply, Http
<1>2. CASE Park(mt, t, signer, renewed, csr)
  BY <1>2 DEF Park, Parked, Send, Reply, Http
<1>3. CASE ParkFails(mt, t, signer, renewed, csr)
  BY <1>3 DEF ParkFails, Mute, Send, Failure, Reply, Http
<1>4. CASE Resent(mt, t, signer, renewed, csr)
  BY <1>4 DEF Resent, Mute, Send, Failure, Reply, Http
<1>5. CASE EnrollNow(mt, signer, renewed, csr)
  BY Zenon, <1>5, EnrollNowKinds
<1> QED BY Zenon, <1>1, <1>2, <1>3, <1>4, <1>5 DEF Enroll

(* What a poll may do to entry i.                                          *)
Polled(i, t, signer, subj) ==
  /\ Dropped(i) \/ Released(i)
  /\ Release(pending[i].tid, pending[i].signer, TRUE, subj)
  /\ pending[i].tid = t /\ pending[i].signer = signer

(* handle_get_cert_initial does one of: nothing, drop a request the CA     *)
(* refuses, release one its own signer asks for.                           *)
LEMMA PollKinds ==
  ASSUME NEW t, NEW signer, NEW named \in BOOLEAN, NEW subj, Poll(t, signer, named, subj)
  PROVE  Mute \/ \E i \in 1..Len(pending) : Polled(i, t, signer, subj)
<1>1. CASE PollRefused(t, signer, named, subj)
  <2>1. Mute
    BY <1>1 DEF PollRefused, Mute, Send, Failure, Reply, Http
  <2> QED BY Zenon, <2>1
<1>2. CASE PollNoMemory(t, signer, named, subj)
  BY Zenon, <1>2 DEF PollNoMemory, IssueNoMemory, Mute, Reply, Http
<1>3. CASE Release(t, signer, named, subj)
  <2>1. PICK i \in Slot(t) :
          /\ PollAccepted(i, signer, named, subj)
          /\ IssueFails \/ Issue(pending[i].csr, signer, pending[i].signer)
          /\ pending' = Without(i) /\ UNCHANGED <<cfg, parks>>
    BY Zenon, <1>3 DEF Release
  <2>2. /\ i \in 1..Len(pending) /\ pending[i].tid = t
        /\ signer = pending[i].signer /\ named
    BY Zenon, <2>1 DEF Slot, PollAccepted
  <2>3. Release(pending[i].tid, pending[i].signer, TRUE, subj)
    BY Zenon, <1>3, <2>2
  <2>4. CASE IssueFails
    <3>1. Dropped(i)
      BY <2>1, <2>4 DEF IssueFails, Dropped, Send, Failure, Reply, Http
    <3> QED BY Zenon, <2>2, <2>3, <3>1 DEF Polled
  <2>5. CASE Issue(pending[i].csr, signer, pending[i].signer)
    <3>1. Released(i)
      BY Zenon, <2>1, <2>2, <2>5 DEF Released
    <3> QED BY Zenon, <2>2, <2>3, <3>1 DEF Polled
  <2> QED BY Zenon, <2>1, <2>2, <2>3, <2>4, <2>5
<1> QED BY Zenon, <1>1, <1>2, <1>3 DEF Poll
-----------------------------------------------------------------------------
(* issued_record: a full registry loses its oldest entry, and the new one  *)
(* comes last.                                                             *)
LEMMA RecordedLast ==
  ASSUME issued \in Seq(Nat), Len(issued) <= IssuedMax, NEW n \in Nat
  PROVE  /\ Recorded(n) \in Seq(Nat)
         /\ Len(Recorded(n)) =
              IF Len(issued) = IssuedMax THEN IssuedMax ELSE Len(issued) + 1
         /\ \A k \in 1..Len(Recorded(n)) :
              Recorded(n)[k] = IF k = Len(Recorded(n)) THEN n
                               ELSE IF Len(issued) = IssuedMax THEN issued[k + 1]
                               ELSE issued[k]
<1>1. Len(issued) \in Nat /\ IssuedMax \in Nat /\ IssuedMax # 0
  BY Zenon, LenProperties, ScepServerAssumption
<1>2. CASE Len(issued) = IssuedMax
  <2>1. issued # <<>>
    BY Zenon, <1>1, <1>2, EmptySeq
  <2>2. /\ Tail(issued) \in Seq(Nat) /\ Len(Tail(issued)) = Len(issued) - 1
        /\ \A k \in 1..Len(Tail(issued)) : Tail(issued)[k] = issued[k + 1]
    BY Zenon, <2>1, HeadTailProperties
  <2> DEFINE t == Tail(issued)
  <2>3. t \in Seq(Nat) /\ Len(t) = IssuedMax - 1 /\ Recorded(n) = Append(t, n)
    BY Zenon, <1>2, <2>2 DEF Recorded
  <2>4. /\ Append(t, n) \in Seq(Nat) /\ Len(Append(t, n)) = Len(t) + 1
        /\ \A k \in 1..Len(t) : Append(t, n)[k] = t[k]
        /\ Append(t, n)[Len(t) + 1] = n
    BY Zenon, <2>3, AppendProperties
  <2>5. \A k \in 1..Len(t) : t[k] = issued[k + 1]
    BY Zenon, <2>2
  <2> HIDE DEF t
  <2>6. \A k \in 1..IssuedMax : k = IssuedMax \/ k \in 1..Len(t)
    BY <1>1, <2>3
  <2> QED BY <1>1, <1>2, <2>3, <2>4, <2>5, <2>6
<1>3. CASE Len(issued) # IssuedMax
  <2>1. Recorded(n) = Append(issued, n)
    BY Zenon, <1>3 DEF Recorded
  <2>2. /\ Append(issued, n) \in Seq(Nat) /\ Len(Append(issued, n)) = Len(issued) + 1
        /\ \A k \in 1..Len(issued) : Append(issued, n)[k] = issued[k]
        /\ Append(issued, n)[Len(issued) + 1] = n
    BY AppendProperties
  <2> QED BY <1>1, <1>3, <2>1, <2>2
<1> QED BY Zenon, <1>2, <1>3

(* issue_and_reply keeps the registry: whether the certificate is recorded *)
(* or not, the entries are the newest ones and all of them are issued.     *)
LEMMA IssueKeepsRegistry ==
  ASSUME TypeInv, RegistryInv, NEW csr \in Csrs, NEW by \in Keys \cup {NoKey, CaKey}, NEW to,
         Issue(csr, by, to)
  PROVE  /\ RegistryInv'
         /\ certs' \in Seq([csr : Csrs, by : Keys \cup {NoKey, CaKey}])
         /\ Len(certs') = Len(certs) + 1
         /\ issued' \in Seq(Nat) /\ recorded' \in Seq(Nat)
<1> DEFINE n == Len(certs) + 1
<1>1. /\ certs' = Append(certs, [csr |-> csr, by |-> by])
      /\ \/ issued' = Recorded(Len(certs')) /\ recorded' = Append(recorded, Len(certs'))
         \/ issued' = issued /\ recorded' = recorded
      /\ reply' \in {Reply("0", "none", to, Len(certs'), FALSE), Http("500")}
  BY Zenon DEF Issue, Send
<1>2. [csr |-> csr, by |-> by] \in [csr : Csrs, by : Keys \cup {NoKey, CaKey}]
  OBVIOUS
<1>3. /\ certs' \in Seq([csr : Csrs, by : Keys \cup {NoKey, CaKey}])
      /\ Len(certs') = n
  BY Zenon, <1>1, <1>2, AppendProperties DEF TypeInv
<1>4. Len(certs) \in Nat /\ Len(issued) \in Nat /\ Len(recorded) \in Nat
  BY Zenon, LenProperties DEF TypeInv
<1>5. (reply'.st = "0" => reply'.cert \in 1..Len(certs'))
  BY <1>1, <1>3, <1>4 DEF Reply, Http
<1>6. \A k \in 1..Len(recorded) : recorded[k] \in 1..n
  BY <1>4 DEF RegistryInv
<1> HIDE DEF n
<1>7. CASE issued' = issued /\ recorded' = recorded
  BY Zenon, <1>3, <1>5, <1>6, <1>7 DEF RegistryInv, TypeInv, n
<1>8. CASE issued' = Recorded(n) /\ recorded' = Append(recorded, n)
  <2>1. n \in Nat /\ Len(issued) <= IssuedMax /\ IssuedMax \in Nat
    BY <1>4, ScepServerAssumption DEF n, RegistryInv
  <2>2. issued \in Seq(Nat) /\ recorded \in Seq(Nat)
    BY Zenon DEF TypeInv
  <2>3. /\ issued' \in Seq(Nat)
        /\ Len(issued') = IF Len(issued) = IssuedMax THEN IssuedMax ELSE Len(issued) + 1
        /\ \A k \in 1..Len(issued') :
             issued'[k] = IF k = Len(issued') THEN n
                          ELSE IF Len(issued) = IssuedMax THEN issued[k + 1]
                          ELSE issued[k]
    BY Zenon, <1>8, <2>1, <2>2, RecordedLast
  <2>4. /\ recorded' \in Seq(Nat) /\ Len(recorded') = Len(recorded) + 1
        /\ \A k \in 1..Len(recorded) : recorded'[k] = recorded[k]
        /\ recorded'[Len(recorded) + 1] = n
    BY <1>8, <2>1, <2>2, AppendProperties
  <2>5. /\ Len(issued) = IF Len(recorded) < IssuedMax THEN Len(recorded) ELSE IssuedMax
        /\ \A k \in 1..Len(issued) : issued[k] = recorded[Len(recorded) - Len(issued) + k]
    BY Zenon DEF RegistryInv
  <2>6. Len(issued') = IF Len(recorded') < IssuedMax THEN Len(recorded') ELSE IssuedMax
    BY <1>4, <2>1, <2>3, <2>4, <2>5
  <2>7. ASSUME NEW k \in 1..Len(issued')
        PROVE  issued'[k] = recorded'[Len(recorded') - Len(issued') + k]
    <3>1. CASE k = Len(issued')
      BY <1>4, <2>1, <2>3, <2>4, <3>1
    <3>2. CASE k # Len(issued') /\ Len(issued) = IssuedMax
      <4>1. k + 1 \in 1..Len(issued) /\ issued'[k] = issued[k + 1]
        BY <1>4, <2>1, <2>3, <3>2
      <4>2. issued[k + 1] = recorded[Len(recorded) - Len(issued) + (k + 1)]
        BY Zenon, <2>5, <4>1
      <4>3. /\ Len(recorded) - Len(issued) + (k + 1) \in 1..Len(recorded)
            /\ Len(recorded') - Len(issued') + k = Len(recorded) - Len(issued) + (k + 1)
        <5>1. /\ Len(issued') = Len(issued) /\ Len(recorded') = Len(recorded) + 1
              /\ Len(issued) <= Len(recorded)
          BY <1>4, <2>1, <2>3, <2>4, <2>5, <3>2
        <5> QED BY <1>4, <4>1, <5>1
      <4> QED BY Zenon, <2>4, <4>1, <4>2, <4>3
    <3>3. CASE k # Len(issued') /\ Len(issued) # IssuedMax
      <4>1. k \in 1..Len(issued) /\ issued'[k] = issued[k]
        BY <1>4, <2>1, <2>3, <3>3
      <4>2. issued[k] = recorded[Len(recorded) - Len(issued) + k]
        BY Zenon, <2>5, <4>1
      <4>3. /\ Len(recorded) - Len(issued) + k \in 1..Len(recorded)
            /\ Len(recorded') - Len(issued') + k = Len(recorded) - Len(issued) + k
        <5>1. /\ Len(issued') = Len(issued) + 1 /\ Len(recorded') = Len(recorded) + 1
              /\ Len(issued) <= Len(recorded)
          BY <1>4, <2>1, <2>3, <2>4, <2>5, <3>3
        <5> QED BY <1>4, <4>1, <5>1
      <4> QED BY Zenon, <2>4, <4>1, <4>2, <4>3
    <3> QED BY Zenon, <3>1, <3>2, <3>3
  <2>8. \A k \in 1..Len(recorded') : recorded'[k] \in 1..Len(certs')
    <3>1. \A k \in 1..Len(recorded') : k = Len(recorded) + 1 \/ k \in 1..Len(recorded)
      BY <1>4, <2>4
    <3>2. n \in 1..n
      BY <1>4 DEF n
    <3> QED BY Zenon, <1>3, <1>6, <2>4, <3>1, <3>2
  <2> QED BY Zenon, <1>3, <1>5, <2>3, <2>4, <2>6, <2>7, <2>8 DEF RegistryInv, n
<1> QED BY Zenon, <1>1, <1>3, <1>7, <1>8
-----------------------------------------------------------------------------
(* What a message signed with `signer` does, and what any message does.    *)
StepBy(signer) ==
  \/ Silent
  \/ \E e \in Entries : e.signer = Target(signer) /\ Parked(e)
  \/ \E i \in 1..Len(pending), subj \in Subjects :
       /\ Dropped(i) \/ Released(i)
       /\ Release(pending[i].tid, pending[i].signer, TRUE, subj)
       /\ pending[i].signer = signer
  \/ \E csr \in Csrs : Granted(csr, signer)

Step ==
  \/ Silent
  \/ \E e \in Entries : Parked(e)
  \/ \E i \in 1..Len(pending), subj \in Subjects :
       /\ Dropped(i) \/ Released(i)
       /\ Release(pending[i].tid, pending[i].signer, TRUE, subj)
  \/ \E csr \in Csrs, signer \in Keys \cup {NoKey} : Granted(csr, signer)

(* Parking one request, if there is room for its transaction, keeps the    *)
(* queue free of doubles and within its size.                              *)
LEMMA ParkedKeepsInv ==
  ASSUME ServerInv, NEW e \in Entries, Parked(e)
  PROVE  ServerInv'
<1>1. Len(pending) \in Nat /\ Len(certs) \in Nat
  BY Zenon, LenProperties DEF ServerInv, TypeInv
<1>2. /\ pending' \in Seq(Entries) /\ Len(pending') = Len(pending) + 1
      /\ \A j \in 1..Len(pending) : pending'[j] = pending[j]
      /\ pending'[Len(pending) + 1] = e
  BY AppendProperties DEF ServerInv, TypeInv, Parked
<1>3. TypeInv'
  BY <1>2 DEF ServerInv, TypeInv, Parked
<1>4. OneEntryPerTransaction'
  <2>1. Len(pending) < PendingMax /\ \A j \in 1..Len(pending) : pending[j].tid # e.tid
    BY Zenon DEF Parked, HasRoom, Slot
  <2>2. Len(pending') <= PendingMax
    BY <1>1, <1>2, <2>1, ScepServerAssumption
  <2>3. ASSUME NEW i \in 1..Len(pending'), NEW j \in 1..Len(pending'),
               pending'[i].tid = pending'[j].tid
        PROVE  i = j
    <3>1. /\ i = Len(pending) + 1 \/ i \in 1..Len(pending)
          /\ j = Len(pending) + 1 \/ j \in 1..Len(pending)
      BY <1>1, <1>2
    <3> QED BY Zenon, <1>2, <2>1, <2>3, <3>1 DEF ServerInv, OneEntryPerTransaction
  <2> QED BY Zenon, <2>2, <2>3 DEF OneEntryPerTransaction
<1>5. IssuedOncePerApproval'
  BY <1>1, <1>2 DEF ServerInv, TypeInv, Parked, IssuedOncePerApproval, RequireApproval
<1>6. RegistryInv'
  BY Zenon DEF ServerInv, Parked, RegistryInv
<1> QED BY Zenon, <1>3, <1>4, <1>5, <1>6 DEF ServerInv

(* Taking an entry out keeps the queue free of doubles, though the last    *)
(* one changes its place.                                                  *)
LEMMA WithoutKeepsQueue ==
  ASSUME TypeInv, OneEntryPerTransaction, NEW i \in 1..Len(pending), pending' = Without(i)
  PROVE  /\ pending' \in Seq(Entries) /\ Len(pending') = Len(pending) - 1
         /\ OneEntryPerTransaction'
<1>1. Len(pending) \in Nat
  BY Zenon, LenProperties DEF TypeInv
<1>2. /\ pending' \in Seq(Entries) /\ Len(pending') = Len(pending) - 1
      /\ \A j \in 1..Len(pending) - 1 :
           pending'[j] = IF j = i THEN pending[Len(pending)] ELSE pending[j]
  BY Zenon, WithoutOne DEF TypeInv
<1>3. ASSUME NEW j \in 1..Len(pending'), NEW k \in 1..Len(pending'),
             pending'[j].tid = pending'[k].tid
      PROVE  j = k
  <2>1. /\ j \in 1..Len(pending) - 1 /\ k \in 1..Len(pending) - 1
        /\ j \in 1..Len(pending) /\ k \in 1..Len(pending)
        /\ Len(pending) \in 1..Len(pending) /\ j # Len(pending) /\ k # Len(pending)
    BY <1>1, <1>2
  <2> QED BY Zenon, <1>2, <1>3, <2>1 DEF OneEntryPerTransaction
<1>4. Len(pending') <= PendingMax
  BY <1>1, <1>2, ScepServerAssumption DEF OneEntryPerTransaction
<1> QED BY Zenon, <1>2, <1>3, <1>4 DEF OneEntryPerTransaction

(* Every kind of step keeps the invariant.                                 *)
LEMMA StepKeepsInv ==
  ASSUME ServerInv, Step
  PROVE  ServerInv'
<1>0. Len(pending) \in Nat /\ Len(certs) \in Nat /\ parks \in Nat
  BY Zenon, LenProperties DEF ServerInv, TypeInv
<1>1. CASE Silent
  <2>1. (reply'.st = "0" => reply'.cert \in 1..Len(certs'))
    <3>1. ASSUME NEW k \in 1..Len(issued) PROVE issued[k] \in 1..Len(certs)
      <4>1. Len(issued) \in Nat /\ Len(recorded) \in Nat /\ IssuedMax \in Nat
        BY Zenon, LenProperties, ScepServerAssumption DEF ServerInv, TypeInv
      <4>2. Len(recorded) - Len(issued) + k \in 1..Len(recorded)
        BY <4>1 DEF ServerInv, RegistryInv
      <4> QED BY Zenon, <4>2 DEF ServerInv, RegistryInv
    <3> QED BY Zenon, <1>1, <3>1 DEF Silent
  <2> QED BY Zenon, <1>1, <2>1 DEF Silent, ServerInv, TypeInv, OneEntryPerTransaction,
        IssuedOncePerApproval, RequireApproval, RegistryInv
<1>2. ASSUME NEW e \in Entries, Parked(e) PROVE ServerInv'
  BY Zenon, <1>2, ParkedKeepsInv
<1>3. ASSUME NEW i \in 1..Len(pending), Dropped(i) PROVE ServerInv'
  <2>1. /\ pending' \in Seq(Entries) /\ Len(pending') = Len(pending) - 1
        /\ OneEntryPerTransaction'
    BY Zenon, <1>3, WithoutKeepsQueue DEF ServerInv, Dropped
  <2>2. TypeInv' /\ RegistryInv'
    BY Zenon, <1>3, <2>1 DEF ServerInv, Dropped, TypeInv, RegistryInv
  <2>3. IssuedOncePerApproval'
    BY <1>0, <1>3, <2>1 DEF ServerInv, Dropped, IssuedOncePerApproval, RequireApproval
  <2> QED BY Zenon, <2>1, <2>2, <2>3 DEF ServerInv
<1>4. ASSUME NEW i \in 1..Len(pending), Released(i) PROVE ServerInv'
  <2>1. /\ pending' \in Seq(Entries) /\ Len(pending') = Len(pending) - 1
        /\ OneEntryPerTransaction'
    BY Zenon, <1>4, WithoutKeepsQueue DEF ServerInv, Released
  <2>2. pending[i] \in Entries
    BY Zenon, ElementOfSeq DEF ServerInv, TypeInv
  <2>3. /\ RegistryInv'
        /\ certs' \in Seq([csr : Csrs, by : Keys \cup {NoKey, CaKey}])
        /\ Len(certs') = Len(certs) + 1
        /\ issued' \in Seq(Nat) /\ recorded' \in Seq(Nat)
    BY Zenon, <1>4, <2>2, IssueKeepsRegistry DEF ServerInv, Released, Entries
  <2>4. TypeInv'
    BY Zenon, <1>4, <2>1, <2>3 DEF ServerInv, Released, TypeInv
  <2>5. IssuedOncePerApproval'
    BY <1>0, <1>4, <2>1, <2>3 DEF ServerInv, Released, IssuedOncePerApproval, RequireApproval
  <2> QED BY Zenon, <2>1, <2>3, <2>4, <2>5 DEF ServerInv
<1>5. ASSUME NEW csr \in Csrs, NEW signer \in Keys \cup {NoKey}, Granted(csr, signer)
      PROVE  ServerInv'
  <2>1. /\ RegistryInv'
        /\ certs' \in Seq([csr : Csrs, by : Keys \cup {NoKey, CaKey}])
        /\ issued' \in Seq(Nat) /\ recorded' \in Seq(Nat)
    BY Zenon, <1>5, IssueKeepsRegistry DEF ServerInv, Granted
  <2> QED BY Zenon, <1>5, <2>1 DEF ServerInv, Granted, TypeInv, OneEntryPerTransaction,
        IssuedOncePerApproval, RequireApproval
<1> QED BY Zenon, <1>1, <1>2, <1>3, <1>4, <1>5 DEF Step

(* A server that starts has an empty queue and an empty registry.          *)
LEMMA ServerStarts == ServerInit => ServerInv
  BY ScepServerAssumption, EmptySeq
  DEF ServerInit, ServerInv, TypeInv, OneEntryPerTransaction, IssuedOncePerApproval,
      RegistryInv, NoReply, Reply

(* An answer without a certificate is a silent one.                        *)
LEMMA MuteIsSilent == Mute => Silent
  BY Zenon DEF Mute, Silent

(* A request for a certificate is a step of one of the kinds.              *)
LEMMA EnrollStep ==
  ASSUME NEW mt, NEW t \in Tids, NEW signer \in Keys \cup {NoKey}, NEW b, NEW csr \in Csrs,
         Enroll(mt, t, signer, b, csr)
  PROVE  StepBy(signer)
<1> DEFINE e == [tid |-> t, csr |-> csr, signer |-> Target(signer)]
<1>1. e \in Entries /\ e.signer = Target(signer)
  BY Zenon DEF Entries, Target
<1>2. Mute \/ Parked(e) \/ Granted(csr, signer)
  BY Zenon, EnrollKinds
<1> QED BY Zenon, <1>1, <1>2, MuteIsSilent DEF StepBy

(* Likewise a poll, whoever sends it.                                      *)
LEMMA PollStep ==
  ASSUME NEW t, NEW signer, NEW b \in BOOLEAN, NEW subj \in Subjects, Poll(t, signer, b, subj)
  PROVE  StepBy(signer)
<1>1. Mute \/ \E i \in 1..Len(pending) : Polled(i, t, signer, subj)
  BY Zenon, PollKinds
<1> QED BY Zenon, <1>1, MuteIsSilent DEF StepBy, Polled

(* Every message of any client is a step of one of the kinds.              *)
LEMMA MessageKinds ==
  ASSUME NEW signer \in Keys \cup {NoKey}, NEW keys, Message(signer, keys)
  PROVE  StepBy(signer)
<1>1. ASSUME NEW mt, NEW t \in Tids, NEW csr \in Csrs, NEW b, Enroll(mt, t, signer, b, csr)
      PROVE  StepBy(signer)
  BY Zenon, <1>1, EnrollStep
<1>2. ASSUME NEW t \in Tids, NEW b \in BOOLEAN, NEW subj \in Subjects, Poll(t, signer, b, subj)
      PROVE  StepBy(signer)
  BY Zenon, <1>2, PollStep
<1>3. ASSUME NEW b \in BOOLEAN, NEW n \in 1..MaxIssues, GetCert(signer, b, n)
      PROVE  StepBy(signer)
  <2>1. Silent
    BY <1>3 DEF GetCert, Silent, Send, Failure, Reply, Http
  <2> QED BY Zenon, <2>1 DEF StepBy
<1> QED BY Zenon, <1>1, <1>2, <1>3 DEF Message

(* Whoever sent it.                                                        *)
LEMMA AnyStep == \A signer \in Keys \cup {NoKey} : StepBy(signer) => Step
  BY Zenon DEF StepBy, Step

(* A message that is not dispatched changes nothing but the reply.         *)
LEMMA NotHandledMute == NotHandled => Mute
  BY DEF NotHandled, Mute, Failure, Reply, Http

(* The invariant holds for any number of clients, keys and slots.          *)
THEOREM ServerInvHolds == ServerSpec => []ServerInv
<1>1. ServerNext => Step
  <2>1. ASSUME NEW signer \in Keys \cup {NoKey}, Message(signer, Keys) PROVE Step
    BY Zenon, <2>1, MessageKinds, AnyStep
  <2> QED BY Zenon, <2>1, NotHandledMute, MuteIsSilent DEF ServerNext, Step
<1>2. ServerInv /\ [ServerNext]_srv => ServerInv'
  <2>1. ASSUME ServerInv, UNCHANGED srv PROVE ServerInv'
    BY Zenon, <2>1 DEF srv, ServerInv, TypeInv, OneEntryPerTransaction, IssuedOncePerApproval,
       RequireApproval, RegistryInv
  <2> QED BY Zenon, <1>1, <2>1, StepKeepsInv
<1> QED BY <1>2, ServerStarts, PTL DEF ServerSpec

(* OneEntryPerTransaction for all constants: pending_find is never         *)
(* ambiguous and items[] never overflows.                                  *)
THEOREM OneEntryHolds == ServerSpec => []OneEntryPerTransaction
<1>1. ServerInv => OneEntryPerTransaction
  BY Zenon DEF ServerInv
<1> QED BY <1>1, ServerInvHolds, PTL

(* IssuedOncePerApproval for all constants: no order of requests, polls    *)
(* and lost replies makes handle_get_cert_initial issue twice for one      *)
(* parked request.                                                         *)
THEOREM IssuedOnceHolds == ServerSpec => []IssuedOncePerApproval
<1>1. ServerInv => IssuedOncePerApproval
  BY Zenon DEF ServerInv
<1> QED BY <1>1, ServerInvHolds, PTL

(* The entries one by one are the tail of the record as a whole.           *)
LEMMA RegistryIsTail == ServerInv => RegistryKeepsNewest
<1> SUFFICES ASSUME ServerInv PROVE RegistryKeepsNewest
  OBVIOUS
<1> DEFINE from == Len(recorded) - Len(issued) + 1
           tail == SubSeq(recorded, from, Len(recorded))
<1>1. /\ Len(issued) \in Nat /\ Len(recorded) \in Nat /\ IssuedMax \in Nat
      /\ issued \in Seq(Nat) /\ recorded \in Seq(Nat)
  BY Zenon, LenProperties, ScepServerAssumption DEF ServerInv, TypeInv
<1>2. /\ Len(issued) <= Len(recorded)
      /\ Len(recorded) >= IssuedMax => Len(issued) = IssuedMax
  BY <1>1 DEF ServerInv, RegistryInv
<1>3. /\ from \in Int /\ Len(recorded) - from + 1 = Len(issued)
      /\ (IF from <= Len(recorded) THEN Len(recorded) - from + 1 ELSE 0) = Len(issued)
      /\ \A i \in from..Len(recorded) : i \in 1..Len(recorded)
      /\ \A k \in 1..Len(issued) : from + k - 1 = Len(recorded) - Len(issued) + k
  BY <1>1, <1>2
<1> HIDE DEF from
<1>4. \A i \in from..Len(recorded) : recorded[i] \in Nat
  BY Zenon, <1>1, <1>3, ElementOfSeq
<1>5. /\ tail \in Seq(Nat)
      /\ Len(tail) = IF from <= Len(recorded) THEN Len(recorded) - from + 1 ELSE 0
      /\ \A k \in 1..Len(recorded) - from + 1 : tail[k] = recorded[from + k - 1]
  <2>1. from \in Int /\ Len(recorded) \in Int
    BY <1>1, <1>3
  <2> QED BY <1>4, <2>1, SubSeqProperties
<1> HIDE DEF tail
<1>6. issued = tail
  BY Zenon, <1>1, <1>3, <1>5, SeqEqual DEF ServerInv, RegistryInv
<1> QED BY Zenon, <1>2, <1>6 DEF from, tail, RegistryKeepsNewest, ServerInv, RegistryInv

(* RegistryKeepsNewest for all constants: GetCert serves the newest        *)
(* SCEP_ISSUED_MAX certificates that were recorded, and only issued ones.  *)
THEOREM RegistryHolds == ServerSpec => []RegistryKeepsNewest
  BY RegistryIsTail, ServerInvHolds, PTL

(* Taking out one entry leaves every other one in the queue.               *)
LEMMA NeighboursStay ==
  ASSUME TypeInv, NEW i \in 1..Len(pending), NEW j \in 1..Len(pending), j # i
  PROVE  Kept(pending[j], Without(i))
<1>1. Len(pending) \in Nat
  BY Zenon, LenProperties DEF TypeInv
<1>2. /\ Len(Without(i)) = Len(pending) - 1
      /\ \A n \in 1..Len(pending) - 1 :
           Without(i)[n] = IF n = i THEN pending[Len(pending)] ELSE pending[n]
  BY Zenon, WithoutOne DEF TypeInv
<1>3. CASE j = Len(pending)
  <2>1. i \in 1..Len(pending) - 1
    BY <1>1, <1>3
  <2> QED BY Zenon, <1>2, <1>3, <2>1 DEF Kept
<1>4. CASE j # Len(pending)
  <2>1. j \in 1..Len(pending) - 1
    BY <1>1, <1>4
  <2> QED BY Zenon, <1>2, <2>1 DEF Kept
<1> QED BY Zenon, <1>3, <1>4

(* No kind of step removes a request but the release of that very one, and *)
(* with approval required no other step issues.                            *)
LEMMA StepKeepsParked ==
  ASSUME TypeInv, Step
  PROVE  ParkedStep
<1>0. Len(pending) \in Nat
  BY Zenon, LenProperties DEF TypeInv
<1>1. CASE Silent
  BY Zenon, <1>1 DEF Silent, ParkedStep, Kept
<1>2. ASSUME NEW e \in Entries, Parked(e) PROVE ParkedStep
  <2>1. /\ Len(pending') = Len(pending) + 1
        /\ \A j \in 1..Len(pending) : pending'[j] = pending[j]
    BY <1>2, AppendProperties DEF TypeInv, Parked
  <2>2. \A j \in 1..Len(pending) : j \in 1..Len(pending')
    BY <1>0, <2>1
  <2> QED BY Zenon, <1>2, <2>1, <2>2 DEF Parked, ParkedStep, Kept
<1>3. ASSUME NEW i \in 1..Len(pending), NEW subj \in Subjects, Dropped(i) \/ Released(i),
             Release(pending[i].tid, pending[i].signer, TRUE, subj)
      PROVE  ParkedStep
  <2>2. pending' = Without(i)
    BY Zenon, <1>3 DEF Dropped, Released
  <2>3. ASSUME NEW j \in 1..Len(pending), j # i PROVE Kept(pending[j], pending')
    BY Zenon, <2>2, <2>3, NeighboursStay
  <2>4. ASSUME certs' # certs
        PROVE  /\ pending[i].csr = certs'[Len(certs')].csr
               /\ pending[i].signer = certs'[Len(certs')].by
    <3>1. certs' = Append(certs, [csr |-> pending[i].csr, by |-> pending[i].signer])
      BY Zenon, <1>3, <2>4 DEF Dropped, Released, Issue
    <3>2. pending[i] \in Entries
      BY Zenon, ElementOfSeq DEF TypeInv
    <3>3. [csr |-> pending[i].csr, by |-> pending[i].signer]
            \in [csr : Csrs, by : Keys \cup {NoKey, CaKey}]
      BY Zenon, <3>2 DEF Entries
    <3>4. certs'[Len(certs')] = [csr |-> pending[i].csr, by |-> pending[i].signer]
      BY <3>1, <3>3, AppendProperties DEF TypeInv
    <3> QED BY <3>4
  <2> QED BY Zenon, <1>3, <2>3, <2>4 DEF ParkedStep
<1>4. ASSUME NEW csr \in Csrs, NEW signer \in Keys \cup {NoKey}, Granted(csr, signer)
      PROVE  ParkedStep
  BY Zenon, <1>4 DEF Granted, ParkedStep, Kept
<1> QED BY Zenon, <1>1, <1>2, <1>3, <1>4 DEF Step

(* ParkedUntilReleased for all constants.                                  *)
THEOREM ParkedHolds == ServerSpec => ParkedUntilReleased
<1>1. ServerNext => Step
  <2>1. ASSUME NEW signer \in Keys \cup {NoKey}, Message(signer, Keys) PROVE Step
    BY Zenon, <2>1, MessageKinds, AnyStep
  <2> QED BY Zenon, <2>1, NotHandledMute, MuteIsSilent DEF ServerNext, Step
<1>2. ServerInv /\ [ServerNext]_srv => [ParkedStep]_srv
  BY Zenon, <1>1, StepKeepsParked DEF ServerInv
<1> QED BY <1>2, ServerInvHolds, PTL DEF ServerSpec, ParkedUntilReleased
-----------------------------------------------------------------------------
(* The process and its files.  Unless something could not be written, the  *)
(* files are a pair except while they are being replaced; a renewal keeps  *)
(* the key it found.                                                       *)
Runs == [pc : {"off", "ask", "sent", "sleep", "cert", "certopen", "key", "keyopen"},
         op : {"enroll", "reenroll", "pha"}, key : OwnKeys \cup {Nothing},
         cert : Certificates \cup {Nothing}, attempts : Nat, wrc : BOOLEAN,
         exit : {"none", "ok", "failed", "killed", "pending"}]

Files == [cert : Certificates \cup {Nothing, Torn}, key : OwnKeys \cup {Nothing, Torn}]

Pair ==
  IF disk.cert = Nothing THEN disk.key = Nothing
  ELSE disk.cert # Torn /\ disk.cert.key = disk.key

CliTypes ==
  /\ run \in Runs /\ disk \in Files /\ runs \in 0..MaxRuns /\ used \subseteq OwnKeys
  /\ run.pc # "off" => run.key \in OwnKeys
  /\ Saving => run.cert \in Certificates /\ run.cert.key = run.key
  /\ ~Saving => run.cert = Nothing
  /\ run.pc \in {"key", "keyopen"} => run.op # "reenroll"

FilesInv ==
  ~spoiled =>
    /\ run.pc \notin {"certopen", "key", "keyopen"} => Pair
    /\ run.pc \in {"key", "keyopen"} => disk.cert = run.cert
    /\ run.pc # "off" /\ run.op = "reenroll" => run.key = disk.key

CliInv == CliTypes /\ FilesInv
-----------------------------------------------------------------------------
(* Before the first run there are no files, or a pair.                     *)
LEMMA CliStarts == CliInit => CliInv
<1> SUFFICES ASSUME CliInit PROVE CliInv
  OBVIOUS
<1>1. OldKey \in OwnKeys
  BY Zenon, CliAssumption DEF OldKey
<1>2. Off \in Runs
  BY Zenon, CliAssumption DEF Off, Runs
<1>3. [no |-> 0, key |-> OldKey] \in Certificates
  BY Zenon, <1>1 DEF Certificates
<1>4. CliTypes
  BY <1>1, <1>2, <1>3, CliAssumption DEF CliInit, CliTypes, Files, Off, Saving
<1>5. Pair
  BY <1>1, <1>3, CliAssumption DEF CliInit, Pair, Certificates
<1> QED BY Zenon, <1>4, <1>5 DEF CliInit, CliInv, FilesInv, Off

(* A run that starts, and one that ends before it has a certificate, leave *)
(* the files alone.                                                        *)
LEMMA StartKeeps ==
  ASSUME CliInv, StartReenroll \/ \E k \in OwnKeys : StartEnroll(k, "enroll")
  PROVE  CliInv'
<1>1. CASE StartReenroll
  <2>1. disk.key \in OwnKeys /\ run.pc = "off"
    BY Zenon, <1>1, CliAssumption DEF StartReenroll, CliInv, CliTypes, Files
  <2>2. /\ run' = [Off EXCEPT !.pc = "ask", !.op = "reenroll", !.key = disk.key]
        /\ runs' = runs + 1 /\ runs < MaxRuns /\ UNCHANGED <<disk, used, spoiled>>
    BY Zenon, <1>1 DEF StartReenroll
  <2>3. run' \in Runs /\ run'.pc = "ask" /\ run'.key = disk.key /\ run'.cert = Nothing
    BY Zenon, <2>1, <2>2 DEF Off, Runs
  <2>4. CliTypes'
    BY <2>1, <2>2, <2>3, CliAssumption DEF CliInv, CliTypes, Saving
  <2> QED BY Zenon, <2>1, <2>2, <2>3, <2>4 DEF CliInv, FilesInv, Pair
<1>2. ASSUME NEW k \in OwnKeys, StartEnroll(k, "enroll") PROVE CliInv'
  <2>1. /\ run.pc = "off" /\ run' = [Off EXCEPT !.pc = "ask", !.op = "enroll", !.key = k]
        /\ runs' = runs + 1 /\ runs < MaxRuns /\ used' = used \cup {k}
        /\ UNCHANGED <<disk, spoiled>>
    BY Zenon, <1>2 DEF StartEnroll
  <2>2. /\ run' \in Runs /\ run'.pc = "ask" /\ run'.key = k /\ run'.cert = Nothing
        /\ run'.op = "enroll"
    BY Zenon, <2>1 DEF Off, Runs
  <2>3. CliTypes'
    BY <2>1, <2>2, CliAssumption DEF CliInv, CliTypes, Saving
  <2> QED BY Zenon, <2>1, <2>2, <2>3 DEF CliInv, FilesInv, Pair
<1> QED BY Zenon, <1>1, <1>2

(* A process that ends, with nothing written since the files were a pair   *)
(* or with an error on record, leaves them so.                             *)
LEMMA ExitKeeps ==
  ASSUME CliInv, NEW code \in {"ok", "failed", "killed"}, Exit(code), UNCHANGED <<runs, used>>,
         disk' \in Files, spoiled' \/ Pair'
  PROVE  CliInv'
<1>1. /\ run' \in Runs /\ run'.pc = "off" /\ run'.key = Nothing /\ run'.cert = Nothing
  BY Zenon DEF Exit, Off, Runs
<1>2. CliTypes'
  BY Zenon, <1>1 DEF CliInv, CliTypes, Saving
<1> QED BY Zenon, <1>1, <1>2 DEF CliInv, FilesInv

(* Going on from one file to the next, or to the end of the process.       *)
LEMMA ProceedKeeps ==
  ASSUME CliInv, Saving, NEW f \in {"cert", "key"}, run.pc \in {f, Opened[f]},
         NEW wrc \in BOOLEAN, Proceed(f, wrc), UNCHANGED <<runs, used>>, disk' \in Files,
         \/ spoiled'
         \/ f = "cert" /\ run.op # "reenroll" /\ disk'.cert = run.cert
         \/ (f = "key" \/ run.op = "reenroll") /\ Pair'
  PROVE  CliInv'
<1>1. CASE f = "cert" /\ run.op # "reenroll"
  <2>1. run' = [run EXCEPT !.pc = "key", !.wrc = wrc]
    BY Zenon, <1>1 DEF Proceed
  <2>2. /\ run' \in Runs /\ run'.pc = "key" /\ run'.key = run.key /\ run'.cert = run.cert
        /\ run'.op = run.op
    BY Zenon, <2>1 DEF CliInv, CliTypes, Runs
  <2>3. run.key \in OwnKeys /\ run.cert \in Certificates /\ run.cert.key = run.key
    BY Zenon DEF CliInv, CliTypes, Saving
  <2>4. CliTypes'
    BY Zenon, <1>1, <2>2, <2>3 DEF CliInv, CliTypes, Saving
  <2>5. FilesInv'
    BY Zenon, <1>1, <2>2 DEF FilesInv
  <2> QED BY Zenon, <2>4, <2>5 DEF CliInv
<1>2. CASE ~(f = "cert" /\ run.op # "reenroll")
  <2>1. PICK code \in {"ok", "failed", "killed"} : Exit(code)
    BY Zenon, <1>2 DEF Proceed
  <2>2. spoiled' \/ Pair'
    BY Zenon, <1>2
  <2> QED BY Zenon, <2>1, <2>2, ExitKeeps
<1> QED BY Zenon, <1>1, <1>2

(* write_file, for the certificate and then for the key: unless a write    *)
(* fails the two end up as a pair.                                         *)
LEMMA SaveKeeps ==
  ASSUME CliInv, Save
  PROVE  CliInv'
<1>0. run \in Runs /\ disk \in Files
  BY Zenon DEF CliInv, CliTypes
<1>1. ASSUME NEW f \in {"cert", "key"}, Truncate(f) PROVE CliInv'
  <2>1. /\ run.pc = f /\ run' = [run EXCEPT !.pc = Opened[f]]
        /\ disk' = [disk EXCEPT ![f] = Torn] /\ UNCHANGED <<runs, used, spoiled>>
    BY Zenon, <1>1 DEF Truncate, Goto
  <2>2. disk' \in Files /\ (f = "key" => disk'.cert = disk.cert) /\ (f = "cert" => disk'.key = disk.key)
    BY Zenon, <1>0, <2>1 DEF Files
  <2>3. /\ run' \in Runs /\ run'.key = run.key /\ run'.cert = run.cert /\ run'.op = run.op
        /\ f = "cert" => run'.pc = "certopen"
        /\ f = "key" => run'.pc = "keyopen"
    BY <1>0, <2>1 DEF Runs, Opened
  <2>4. run.key \in OwnKeys /\ run.cert \in Certificates /\ run.cert.key = run.key
    BY Zenon, <2>1 DEF CliInv, CliTypes, Saving
  <2>5. CliTypes'
    BY Zenon, <2>1, <2>2, <2>3, <2>4 DEF CliInv, CliTypes, Saving
  <2>6. FilesInv'
    BY Zenon, <2>1, <2>2, <2>3 DEF CliInv, CliTypes, FilesInv
  <2> QED BY Zenon, <2>5, <2>6 DEF CliInv
<1>2. ASSUME NEW f \in {"cert", "key"}, Fill(f) PROVE CliInv'
  <2>0. /\ run.pc = Opened[f] /\ Saving /\ run.wrc \in BOOLEAN /\ UNCHANGED <<runs, used>>
        /\ run.key \in OwnKeys /\ run.cert \in Certificates /\ run.cert.key = run.key
    BY <1>0, <1>2 DEF Fill, Opened, Saving, CliInv, CliTypes, Runs
  <2>1. CASE disk' = [disk EXCEPT ![f] = run[f]] /\ Proceed(f, run.wrc) /\ UNCHANGED spoiled
    <3>1. /\ disk' \in Files
          /\ f = "cert" => disk'.cert = run.cert /\ disk'.key = disk.key
          /\ f = "key" => disk'.cert = disk.cert /\ disk'.key = run.key
      BY Zenon, <1>0, <2>0, <2>1 DEF Files, Runs
    <3>2. \/ spoiled'
          \/ f = "cert" /\ run.op # "reenroll" /\ disk'.cert = run.cert
          \/ (f = "key" \/ run.op = "reenroll") /\ Pair'
      <4>1. CASE f = "cert" /\ run.op # "reenroll"
        BY Zenon, <3>1, <4>1
      <4>2. CASE f = "cert" /\ run.op = "reenroll" /\ ~spoiled
        <5>1. run.key = disk.key
          BY Zenon, <2>0, <4>2 DEF CliInv, FilesInv, Opened
        <5>2. disk'.cert = run.cert /\ disk'.key = run.key /\ run.cert # Nothing /\ run.cert # Torn
          BY Zenon, <2>0, <3>1, <4>2, <5>1, CliAssumption
        <5> QED BY Zenon, <2>0, <4>2, <5>2 DEF Pair
      <4>3. CASE f = "key" /\ ~spoiled
        <5>1. disk.cert = run.cert
          BY Zenon, <2>0, <4>3 DEF CliInv, FilesInv, Opened
        <5>2. disk'.cert = run.cert /\ disk'.key = run.key /\ run.cert # Nothing /\ run.cert # Torn
          BY Zenon, <2>0, <3>1, <4>3, <5>1, CliAssumption
        <5> QED BY Zenon, <2>0, <4>3, <5>2 DEF Pair
      <4>4. CASE spoiled
        BY Zenon, <2>1, <4>4
      <4> QED BY Zenon, <4>1, <4>2, <4>3, <4>4
    <3> QED BY Zenon, <2>0, <2>1, <3>1, <3>2, ProceedKeeps
  <2>2. CASE (\E wrc \in {run.wrc, TRUE} : Proceed(f, wrc)) /\ spoiled' = TRUE /\ UNCHANGED disk
    <3>1. PICK wrc \in BOOLEAN : Proceed(f, wrc)
      BY Zenon, <2>0, <2>2
    <3> QED BY Zenon, <1>0, <2>0, <2>2, <3>1, ProceedKeeps
  <2> QED BY Zenon, <1>2, <2>1, <2>2 DEF Fill
<1>3. ASSUME NEW f \in {"cert", "key"}, CannotOpen(f) PROVE CliInv'
  <2>1. Saving /\ run.pc = f /\ Proceed(f, TRUE) /\ spoiled' = TRUE /\ UNCHANGED <<disk, runs, used>>
    BY Zenon, <1>3 DEF CannotOpen, Saving
  <2> QED BY Zenon, <1>0, <2>1, ProceedKeeps
<1>4. CASE KeyNotExported
  <2>1. /\ Saving /\ run.pc = "key" /\ Proceed("key", run.wrc) /\ run.wrc \in BOOLEAN
        /\ spoiled' = TRUE /\ UNCHANGED <<disk, runs, used>>
    BY Zenon, <1>0, <1>4 DEF KeyNotExported, Saving, Runs
  <2> QED BY Zenon, <1>0, <2>1, ProceedKeeps
<1> QED BY Zenon, <1>1, <1>2, <1>3, <1>4 DEF Save

(* A kill while the files are written counts as a failed write.            *)
LEMMA KilledKeeps ==
  ASSUME CliInv, Killed
  PROVE  CliInv'
<1>1. Exit("killed") /\ spoiled' = TRUE /\ disk' \in Files /\ UNCHANGED <<runs, used>>
  BY Zenon DEF Killed, CliInv, CliTypes
<1> QED BY Zenon, <1>1, ExitKeeps

(* Giving up before there is a certificate.                                *)
LEMMA GiveUpKeeps ==
  ASSUME CliInv, run.pc \in {"ask", "sent", "sleep"}, GiveUp
  PROVE  CliInv'
<1>1. Exit("failed") /\ UNCHANGED <<disk, runs, used, spoiled>> /\ disk' \in Files
  BY Zenon DEF GiveUp, CliInv, CliTypes
<1>2. spoiled' \/ Pair'
  BY Zenon, <1>1 DEF CliInv, FilesInv, Pair
<1> QED BY Zenon, <1>1, <1>2, ExitKeeps

(* Moving between asking, waiting and pausing.                             *)
LEMMA MoveKeeps ==
  ASSUME CliInv, run.pc \in {"ask", "sent", "sleep"}, NEW to \in {"ask", "sent", "sleep"},
         run' \in Runs, run'.pc = to, run'.key = run.key, run'.cert = run.cert,
         run'.op = run.op, UNCHANGED <<disk, runs, used, spoiled>>
  PROVE  CliInv'
<1>1. CliTypes'
  BY Zenon DEF CliInv, CliTypes, Saving
<1>2. FilesInv'
  BY Zenon DEF CliInv, FilesInv, Pair
<1> QED BY Zenon, <1>1, <1>2 DEF CliInv

(* A certificate for the run's own key has arrived.                        *)
LEMMA ObtainKeeps ==
  ASSUME CliInv, run.pc = "sent", NEW c \in Certificates, c.key = run.key, Obtain(c)
  PROVE  CliInv' /\ Saving' /\ run'.cert = c /\ run'.key = run.key
<1>1. /\ run' = [run EXCEPT !.pc = "cert", !.cert = c] /\ run \in Runs
      /\ UNCHANGED <<disk, runs, used, spoiled>>
  BY Zenon DEF Obtain, CliInv, CliTypes
<1>2. /\ run' \in Runs /\ run'.pc = "cert" /\ run'.key = run.key /\ run'.cert = c
      /\ run'.op = run.op
  BY Zenon, <1>1 DEF Runs
<1>3. CliTypes'
  BY Zenon, <1>1, <1>2 DEF CliInv, CliTypes, Saving
<1>4. FilesInv'
  BY Zenon, <1>1, <1>2 DEF CliInv, FilesInv, Pair
<1> QED BY Zenon, <1>2, <1>3, <1>4 DEF CliInv, Saving
-----------------------------------------------------------------------------
(* What ties the process, the network and the server together: a request   *)
(* parked under a key of the client is the CSR for that key, and an answer *)
(* the client can open carries the certificate issued for it.              *)
IssuedFor(n, k) == n \in 1..Len(certs) /\ certs[n].csr = OwnCsr(k)

QueueInv ==
  \A i \in 1..Len(pending) :
    pending[i].signer \in OwnKeys => pending[i].csr = OwnCsr(pending[i].signer)

NetInv ==
  /\ wire \subseteq Requests
  /\ run.pc \in {"sent", "sleep"} => tid \in Tids
  /\ run.pc # "sent" => awaited = Nothing /\ back = Nothing

OwnInv ==
  /\ back # Nothing /\ back.st = "0" /\ back.to = run.key => IssuedFor(back.cert, run.key)
  /\ Saving => IssuedFor(run.cert.no, run.key)

EnrollInv == ServerInv /\ CliInv /\ QueueInv /\ NetInv /\ OwnInv

(* The client's CSRs, and its requests, have their types.                  *)
LEMMA OwnTypes ==
  /\ \A k \in Keys : OwnCsr(k) \in Csrs
  /\ OwnKeys \subseteq Keys /\ Subject \in Subjects
<1>1. Subject \in Subjects
  BY Zenon, ScepEnrollAssumption DEF Subject
<1> QED BY Zenon, <1>1, ScepEnrollAssumption DEF OwnCsr, Csrs

(* A certificate once issued keeps its number and what it was issued for.  *)
LEMMA CertsGrow ==
  ASSUME TypeInv, Step
  PROVE  \A n, k : IssuedFor(n, k) => IssuedFor(n, k)'
<1>1. ASSUME NEW csr \in Csrs, NEW by \in Keys \cup {NoKey, CaKey}, NEW to, Issue(csr, by, to)
      PROVE  \A n, k : IssuedFor(n, k) => IssuedFor(n, k)'
  <2>1. certs' = Append(certs, [csr |-> csr, by |-> by])
    BY Zenon, <1>1 DEF Issue
  <2>2. [csr |-> csr, by |-> by] \in [csr : Csrs, by : Keys \cup {NoKey, CaKey}]
    OBVIOUS
  <2>3. /\ Len(certs) \in Nat /\ Len(certs') = Len(certs) + 1
        /\ \A n \in 1..Len(certs) : certs'[n] = certs[n]
    BY <2>1, <2>2, AppendProperties, LenProperties DEF TypeInv
  <2>4. \A n \in 1..Len(certs) : n \in 1..Len(certs')
    BY <2>3
  <2> QED BY Zenon, <2>3, <2>4 DEF IssuedFor, OwnCsr
<1>2. CASE UNCHANGED certs
  BY Zenon, <1>2 DEF IssuedFor, OwnCsr
<1>3. ASSUME NEW i \in 1..Len(pending), Released(i)
      PROVE  \A n, k : IssuedFor(n, k) => IssuedFor(n, k)'
  <2>1. pending[i] \in Entries
    BY Zenon, ElementOfSeq DEF TypeInv
  <2> QED BY Zenon, <1>1, <1>3, <2>1 DEF Released, Entries
<1>4. ASSUME NEW csr \in Csrs, NEW signer \in Keys \cup {NoKey}, Granted(csr, signer)
      PROVE  \A n, k : IssuedFor(n, k) => IssuedFor(n, k)'
  BY Zenon, <1>1, <1>4 DEF Granted
<1> QED BY Zenon, <1>2, <1>3, <1>4 DEF Step, Silent, Parked, Dropped

(* Issuing answers with the number of the new certificate.                 *)
LEMMA IssueAnswers ==
  ASSUME TypeInv, NEW k \in Keys, NEW by \in Keys, NEW to, Issue(OwnCsr(k), by, to),
         reply'.st = "0"
  PROVE  IssuedFor(reply.cert, k)' /\ reply'.to = to
<1>1. /\ certs' = Append(certs, [csr |-> OwnCsr(k), by |-> by])
      /\ reply' \in {Reply("0", "none", to, Len(certs'), FALSE), Http("500")}
  BY Zenon DEF Issue, Send
<1>2. reply'.cert = Len(certs') /\ reply'.to = to
  BY <1>1 DEF Reply, Http
<1>3. [csr |-> OwnCsr(k), by |-> by] \in [csr : Csrs, by : Keys \cup {NoKey, CaKey}]
  BY Zenon, OwnTypes
<1>4. /\ Len(certs) \in Nat /\ Len(certs') = Len(certs) + 1
      /\ certs'[Len(certs')] = [csr |-> OwnCsr(k), by |-> by]
  BY <1>1, <1>3, AppendProperties, LenProperties DEF TypeInv
<1>5. Len(certs') \in 1..Len(certs')
  BY <1>4
<1> QED BY <1>2, <1>4, <1>5 DEF IssuedFor, OwnCsr

(* A step that parks under the client's keys only the client's CSRs.       *)
CleanStep ==
  \/ Silent
  \/ \E e \in Entries : Parked(e) /\ (e.signer \in OwnKeys => e.csr = OwnCsr(e.signer))
  \/ \E i \in 1..Len(pending), subj \in Subjects :
       /\ Dropped(i) \/ Released(i)
       /\ Release(pending[i].tid, pending[i].signer, TRUE, subj)
  \/ \E csr \in Csrs, signer \in Keys \cup {NoKey} : Granted(csr, signer)

(* The queue keeps what it has of the client under the client's keys: a    *)
(* new entry either is the client's own CSR or is not under its keys.      *)
LEMMA QueueKeeps ==
  ASSUME TypeInv, QueueInv, CleanStep
  PROVE  QueueInv'
<1>0. Len(pending) \in Nat
  BY Zenon, LenProperties DEF TypeInv
<1>1. CASE UNCHANGED pending
  BY Zenon, <1>1 DEF QueueInv, OwnCsr
<1>2. ASSUME NEW e \in Entries, Parked(e), e.signer \in OwnKeys => e.csr = OwnCsr(e.signer)
      PROVE  QueueInv'
  <2>1. /\ Len(pending') = Len(pending) + 1
        /\ \A j \in 1..Len(pending) : pending'[j] = pending[j]
        /\ pending'[Len(pending) + 1] = e
    BY <1>2, AppendProperties DEF TypeInv, Parked
  <2>2. \A j \in 1..Len(pending') : j \in 1..Len(pending) \/ j = Len(pending) + 1
    BY <1>0, <2>1
  <2> QED BY Zenon, <1>2, <2>1, <2>2 DEF QueueInv, OwnCsr
<1>3. ASSUME NEW i \in 1..Len(pending), Dropped(i) \/ Released(i) PROVE QueueInv'
  <2>1. /\ Len(pending') = Len(pending) - 1
        /\ \A j \in 1..Len(pending) - 1 :
             pending'[j] = IF j = i THEN pending[Len(pending)] ELSE pending[j]
    BY <1>3, WithoutOne DEF TypeInv, Dropped, Released
  <2>2. \A j \in 1..Len(pending') : j \in 1..Len(pending) - 1 /\ j \in 1..Len(pending)
    BY <1>0, <2>1
  <2>3. Len(pending) \in 1..Len(pending)
    BY <1>0
  <2> QED BY Zenon, <2>1, <2>2, <2>3 DEF QueueInv, OwnCsr
<1> QED BY Zenon, <1>1, <1>2, <1>3 DEF CleanStep, Silent, Granted
-----------------------------------------------------------------------------
(* The server's part of the invariant, and the certificates, survive it.   *)
LEMMA CleanStepKeeps ==
  ASSUME EnrollInv, CleanStep
  PROVE  /\ Step /\ ServerInv' /\ QueueInv'
         /\ \A n, k : IssuedFor(n, k) => IssuedFor(n, k)'
<1>1. Step
  BY Zenon DEF CleanStep, Step
<1>2. ServerInv /\ TypeInv /\ QueueInv
  BY Zenon DEF EnrollInv, ServerInv
<1> QED BY Zenon, <1>1, <1>2, StepKeepsInv, QueueKeeps, CertsGrow

(* What a message of another client does: it neither enters nor takes      *)
(* anything under the keys of this one.                                    *)
ForeignStep ==
  \/ Silent
  \/ \E e \in Entries : Parked(e) /\ e.signer \notin OwnKeys
  \/ \E i \in 1..Len(pending), subj \in Subjects :
       /\ Dropped(i) \/ Released(i)
       /\ Release(pending[i].tid, pending[i].signer, TRUE, subj)
       /\ pending[i].signer \notin OwnKeys
  \/ \E csr \in Csrs, signer \in Keys \cup {NoKey} : Granted(csr, signer) /\ signer \notin OwnKeys

(* Whoever has no key of the client can do no more than that.              *)
LEMMA OthersAreForeign ==
  ASSUME Others
  PROVE  ForeignStep
<1>1. /\ \A k \in Strangers : k \in Keys /\ k \notin OwnKeys
      /\ CaKey \notin OwnKeys /\ NoKey \notin OwnKeys /\ Strangers # {}
  BY Zenon, ScepEnrollAssumption, ScepServerAssumption DEF Strangers
<1>2. ASSUME NEW signer \in Strangers \cup {NoKey}, StepBy(signer) PROVE ForeignStep
  <2>1. signer \in Keys \cup {NoKey} /\ signer \notin OwnKeys /\ Target(signer) \notin OwnKeys
    BY Zenon, <1>1 DEF Target
  <2> QED BY Zenon, <1>2, <2>1 DEF StepBy, ForeignStep
<1>3. CASE NotHandled
  BY Zenon, <1>3, NotHandledMute, MuteIsSilent DEF ForeignStep
<1>4. ASSUME NEW signer \in Strangers \cup {NoKey}, Message(signer, Strangers)
      PROVE  ForeignStep
  BY Zenon, <1>1, <1>2, <1>4, MessageKinds
<1> DEFINE k == CHOOSE s \in Strangers : TRUE
<1>5. k \in Strangers /\ k \in Keys \cup {NoKey} /\ OwnCsr(k) \in Csrs
  BY Zenon, <1>1, OwnTypes
<1> HIDE DEF k
<1>6. CASE EnrollNow("19", k, FALSE, OwnCsr(k))
  BY Zenon, <1>1, <1>5, <1>6, EnrollNowKinds, MuteIsSilent DEF ForeignStep
<1>7. ASSUME NEW t \in Tids, Release(t, k, TRUE, Subject) PROVE ForeignStep
  <2>1. Poll(t, k, TRUE, Subject)
    BY Zenon, <1>7 DEF Poll
  <2> QED BY Zenon, <1>2, <1>5, <2>1, PollStep, OwnTypes
<1>8. ASSUME NEW t \in Tids, Park("19", t, k, FALSE, OwnCsr(k)) PROVE ForeignStep
  <2>1. Enroll("19", t, k, FALSE, OwnCsr(k))
    BY Zenon, <1>8 DEF Enroll
  <2> QED BY Zenon, <1>2, <1>5, <2>1, EnrollStep
<1> QED BY Zenon, <1>3, <1>4, <1>6, <1>7, <1>8 DEF Others, k

(* Another client's message touches nothing of this one.                   *)
LEMMA OthersKeep ==
  ASSUME EnrollInv, Others
  PROVE  EnrollInv' /\ Step
<1>1. CleanStep
  BY Zenon, OthersAreForeign DEF ForeignStep, CleanStep
<1>2. UNCHANGED <<cli, mode, net>>
  BY Zenon DEF Others
<1>3. CliInv' /\ NetInv'
  BY Zenon, <1>2 DEF EnrollInv, cli, net, CliInv, CliTypes, FilesInv, Pair, Saving, NetInv
<1>4. OwnInv'
  BY Zenon, <1>1, <1>2, CleanStepKeeps DEF EnrollInv, OwnInv, cli, net, Saving
<1> QED BY Zenon, <1>1, <1>3, <1>4, CleanStepKeeps DEF EnrollInv

(* The server's answer to a request of the client: a certificate in it was *)
(* issued for the CSR of the key that signed the request, and is encrypted *)
(* to that key.                                                            *)
LEMMA DeliverAnswers ==
  ASSUME EnrollInv, NEW m \in wire, Deliver(m)
  PROVE  /\ CleanStep
         /\ reply'.st = "0" => reply'.to = m.key /\ IssuedFor(reply.cert, m.key)'
<1>1. m \in Requests
  BY Zenon DEF EnrollInv, NetInv
<1>2. /\ m.key \in OwnKeys /\ m.key \in Keys /\ m.key # NoKey /\ m.tid \in Tids
      /\ OwnCsr(m.key) \in Csrs /\ Target(m.key) = m.key /\ Subject \in Subjects
  BY Zenon, <1>1, OwnTypes, ScepServerAssumption DEF Requests, Target
<1>3. TypeInv /\ QueueInv
  BY Zenon DEF EnrollInv, ServerInv
<1>4. CASE Mute
  BY Zenon, <1>4, MuteIsSilent DEF CleanStep, Mute
<1>5. CASE Enroll(m.mt, m.tid, m.key, TRUE, OwnCsr(m.key))
  <2> DEFINE e == [tid |-> m.tid, csr |-> OwnCsr(m.key), signer |-> m.key]
  <2>1. Mute \/ Parked(e) \/ Granted(OwnCsr(m.key), m.key)
    BY Zenon, <1>2, <1>5, EnrollKinds
  <2>2. CASE Parked(e)
    <3>1. e \in Entries /\ e.csr = OwnCsr(e.signer)
      BY Zenon, <1>2 DEF Entries
    <3>2. reply'.st # "0"
      BY Zenon, <2>2 DEF Parked
    <3> QED BY Zenon, <2>2, <3>1, <3>2 DEF CleanStep
  <2>3. CASE Granted(OwnCsr(m.key), m.key)
    <3>1. Issue(OwnCsr(m.key), m.key, m.key)
      BY Zenon, <1>2, <2>3 DEF Granted
    <3>2. CleanStep
      BY Zenon, <1>2, <2>3 DEF CleanStep
    <3> QED BY Zenon, <1>2, <1>3, <3>1, <3>2, IssueAnswers
  <2> QED BY Zenon, <1>4, <2>1, <2>2, <2>3
<1>6. CASE Poll(m.tid, m.key, TRUE, Subject)
  <2>1. Mute \/ \E i \in 1..Len(pending) : Polled(i, m.tid, m.key, Subject)
    BY Zenon, <1>6, PollKinds
  <2>2. CleanStep
    BY Zenon, <1>2, <2>1, MuteIsSilent DEF Polled, CleanStep
  <2>3. ASSUME NEW i \in 1..Len(pending), Polled(i, m.tid, m.key, Subject), reply'.st = "0"
        PROVE  reply'.to = m.key /\ IssuedFor(reply.cert, m.key)'
    <3>1. Released(i) /\ pending[i].signer = m.key
      BY Zenon, <2>3 DEF Polled, Dropped
    <3>2. pending[i].csr = OwnCsr(m.key)
      BY Zenon, <1>2, <1>3, <3>1 DEF QueueInv
    <3>3. Issue(OwnCsr(m.key), m.key, m.key)
      BY Zenon, <3>1, <3>2 DEF Released
    <3> QED BY Zenon, <1>2, <1>3, <2>3, <3>3, IssueAnswers
  <2> QED BY Zenon, <1>4, <2>1, <2>2, <2>3
<1>7. CASE StillPending(m)
  <2>1. Mute
    BY <1>7 DEF StillPending, Mute, Send, Reply, Http
  <2> QED BY Zenon, <1>4, <2>1
<1>8. CASE NotHandled
  BY Zenon, <1>4, <1>8, NotHandledMute
<1> QED BY Zenon, <1>5, <1>6, <1>7, <1>8 DEF Deliver

(* A request of the client reaches the server, in time or late.            *)
LEMMA DeliverKeeps ==
  ASSUME EnrollInv, NEW m \in wire, Deliver(m)
  PROVE  EnrollInv' /\ Step
<1>1. /\ CleanStep
      /\ reply'.st = "0" => reply'.to = m.key /\ IssuedFor(reply.cert, m.key)'
  BY Zenon, DeliverAnswers
<1>2. /\ Step /\ ServerInv' /\ QueueInv'
      /\ \A n, k : IssuedFor(n, k) => IssuedFor(n, k)'
  BY Zenon, <1>1, CleanStepKeeps
<1>3. /\ wire' = wire \ {m} /\ back' = IF m = awaited THEN reply' ELSE back
      /\ UNCHANGED <<cli, mode, tid, awaited, spent>>
  BY Zenon DEF Deliver
<1>4. CliInv'
  BY Zenon, <1>3 DEF EnrollInv, cli, CliInv, CliTypes, FilesInv, Pair, Saving
<1>5. m # Nothing
  BY Zenon, ScepEnrollAssumption DEF EnrollInv, NetInv
<1>6. NetInv'
  BY Zenon, <1>3, <1>5 DEF EnrollInv, NetInv, cli
<1>7. OwnInv'
  <2>1. (Saving => IssuedFor(run.cert.no, run.key))'
    BY Zenon, <1>2, <1>3 DEF EnrollInv, OwnInv, Saving, cli
  <2>2. CASE m = awaited
    BY Zenon, <1>1, <1>3, <2>1, <2>2 DEF OwnInv, cli
  <2>3. CASE m # awaited
    BY Zenon, <1>2, <1>3, <2>1, <2>3 DEF EnrollInv, OwnInv, cli
  <2> QED BY Zenon, <2>2, <2>3
<1> QED BY Zenon, <1>2, <1>4, <1>6, <1>7 DEF EnrollInv
-----------------------------------------------------------------------------
(* A step of the client that leaves the server alone, once what it does to *)
(* the process and to the network is known.                                *)
LEMMA ClientStep ==
  ASSUME EnrollInv, UNCHANGED srv, CliInv', NetInv',
         back' = Nothing \/ (back' = back /\ run'.key = run.key),
         ~Saving' \/ IssuedFor(run'.cert.no, run'.key)
  PROVE  EnrollInv'
<1>1. ServerInv' /\ QueueInv'
  BY Zenon DEF srv, EnrollInv, ServerInv, QueueInv, TypeInv, OneEntryPerTransaction,
     IssuedOncePerApproval, RequireApproval, RegistryInv, OwnCsr
<1>2. OwnInv'
  BY Zenon DEF srv, EnrollInv, OwnInv, IssuedFor, OwnCsr
<1> QED BY Zenon, <1>1, <1>2 DEF EnrollInv

(* The PKCSReq or RenewalReq, and each GetCertInitial after it.            *)
LEMMA TransmitKeeps ==
  ASSUME EnrollInv, run.pc \in {"ask", "sleep"}, NEW m \in Requests, NEW a \in Nat,
         Transmit(m, [run EXCEPT !.pc = "sent", !.attempts = a]), tid' \in Tids
  PROVE  EnrollInv'
<1>1. /\ run \in Runs /\ run' = [run EXCEPT !.pc = "sent", !.attempts = a]
      /\ wire' = wire \cup {m} /\ UNCHANGED <<disk, runs, used, spoiled, srv, back>>
  BY Zenon DEF EnrollInv, CliInv, CliTypes, Transmit, srv
<1>2. /\ run' \in Runs /\ run'.pc = "sent" /\ run'.key = run.key /\ run'.cert = run.cert
      /\ run'.op = run.op
  BY Zenon, <1>1 DEF Runs
<1>3. CliInv'
  BY Zenon, <1>1, <1>2, MoveKeeps DEF EnrollInv
<1>4. NetInv'
  BY Zenon, <1>1, <1>2 DEF EnrollInv, NetInv
<1> QED BY Zenon, <1>1, <1>2, <1>3, <1>4, ClientStep DEF Saving

(* Ask, with the transactionID of the run.                                 *)
LEMMA AskKeeps ==
  ASSUME EnrollInv, Ask
  PROVE  EnrollInv'
<1>1. run \in Runs /\ run.key \in OwnKeys /\ runs \in 0..MaxRuns /\ run.pc = "ask"
  BY Zenon DEF EnrollInv, CliInv, CliTypes, Ask
<1>2. PICK t \in NewTid, mt \in {"17", "19"} :
        tid' = t /\ Transmit([mt |-> mt, tid |-> t, key |-> run.key, run |-> runs],
                             [run EXCEPT !.pc = "sent"])
  BY Zenon DEF Ask
<1>3. t \in Tids
  BY Zenon, <1>1, ScepEnrollAssumption DEF NewTid
<1>4. [mt |-> mt, tid |-> t, key |-> run.key, run |-> runs] \in Requests
  BY Zenon, <1>1, <1>3 DEF Requests
<1>5. /\ run.attempts \in Nat
      /\ [run EXCEPT !.pc = "sent"] = [run EXCEPT !.pc = "sent", !.attempts = run.attempts]
  BY Zenon, <1>1 DEF Runs
<1> QED BY Zenon, <1>1, <1>2, <1>3, <1>4, <1>5, TransmitKeeps

(* AskAgain, under the transactionID of the first request.                 *)
LEMMA AskAgainKeeps ==
  ASSUME EnrollInv, AskAgain
  PROVE  EnrollInv'
<1>1. run \in Runs /\ run.key \in OwnKeys /\ runs \in 0..MaxRuns /\ run.pc = "sleep"
  BY Zenon DEF EnrollInv, CliInv, CliTypes, AskAgain
<1>2. tid \in Tids /\ tid' = tid
  BY Zenon, <1>1 DEF EnrollInv, NetInv, AskAgain
<1>3. [mt |-> "20", tid |-> tid, key |-> run.key, run |-> runs] \in Requests
  BY Zenon, <1>1, <1>2 DEF Requests
<1>4. /\ run.attempts + 1 \in Nat
      /\ [run EXCEPT !.pc = "sent", !.attempts = @ + 1]
           = [run EXCEPT !.pc = "sent", !.attempts = run.attempts + 1]
  BY <1>1 DEF Runs
<1> QED BY Zenon, <1>1, <1>2, <1>3, <1>4, TransmitKeeps DEF AskAgain

(* Nothing was obtained; nobody waits any more.                            *)
LEMMA GivesUp ==
  ASSUME EnrollInv, run.pc \in {"ask", "sent", "sleep"}, GiveUp, UNCHANGED <<srv, wire>>,
         awaited' = Nothing, back' = Nothing
  PROVE  EnrollInv'
<1>1. run'.pc = "off"
  BY Zenon DEF GiveUp, Exit, Off
<1>2. CliInv'
  BY Zenon, GiveUpKeeps DEF EnrollInv
<1>3. NetInv'
  BY Zenon, <1>1 DEF EnrollInv, NetInv
<1>4. ~Saving'
  BY Zenon, <1>1 DEF Saving
<1> QED BY Zenon, <1>2, <1>3, <1>4, ClientStep

(* The answer: PENDING, the certificate, or the end of the run.            *)
LEMMA ReceiveKeeps ==
  ASSUME EnrollInv, Receive
  PROVE  EnrollInv'
<1>1. /\ run \in Runs /\ run.pc = "sent" /\ run.key \in OwnKeys /\ tid \in Tids
      /\ back # Nothing /\ awaited' = Nothing /\ back' = Nothing /\ UNCHANGED <<srv, wire>>
  BY Zenon DEF EnrollInv, CliInv, CliTypes, NetInv, Receive
<1>2. CASE Goto("sleep") /\ UNCHANGED <<disk, runs, used, spoiled, tid>>
  <2>1. run' \in Runs /\ run' = [run EXCEPT !.pc = "sleep"]
    BY Zenon, <1>1, <1>2 DEF Goto, Runs
  <2>2. run'.pc = "sleep" /\ run'.key = run.key /\ run'.cert = run.cert /\ run'.op = run.op
    BY Zenon, <1>1, <2>1 DEF Runs
  <2>3. CliInv'
    BY Zenon, <1>1, <1>2, <2>1, <2>2, MoveKeeps DEF EnrollInv
  <2>4. NetInv'
    BY Zenon, <1>1, <1>2, <2>2 DEF EnrollInv, NetInv
  <2> QED BY Zenon, <1>1, <2>2, <2>3, <2>4, ClientStep DEF Saving
<1>3. CASE Opens /\ UNCHANGED tid /\ Obtain([no |-> back.cert, key |-> certs[back.cert].csr.key])
  <2> DEFINE c == [no |-> back.cert, key |-> certs[back.cert].csr.key]
  <2>1. IssuedFor(back.cert, run.key)
    BY Zenon, <1>1, <1>3 DEF EnrollInv, OwnInv, Opens
  <2>2. back.cert \in Nat /\ certs[back.cert].csr.key = run.key
    <3>1. Len(certs) \in Nat
      BY Zenon, LenProperties DEF EnrollInv, ServerInv, TypeInv
    <3>2. back.cert \in 1..Len(certs) /\ certs[back.cert].csr = OwnCsr(run.key)
      BY Zenon, <2>1 DEF IssuedFor
    <3>3. certs[back.cert].csr.key = run.key
      <4>1. OwnCsr(run.key).key = run.key
        BY Zenon DEF OwnCsr
      <4> QED BY Zenon, <3>2, <4>1
    <3> QED BY ONLY <3>1, <3>2, <3>3
  <2>3. c \in Certificates /\ c.key = run.key /\ c.no = back.cert
    BY Zenon, <1>1, <2>2 DEF Certificates
  <2>4. CliInv' /\ Saving' /\ run'.cert = c /\ run'.key = run.key
    <3> HIDE DEF c
    <3>1. Obtain(c)
      BY Zenon, <1>3 DEF c
    <3> QED BY Zenon, <1>1, <2>3, <3>1, ObtainKeeps DEF EnrollInv
  <2>5. run'.pc = "cert"
    BY Zenon, <1>1, <1>3 DEF Obtain, Runs
  <2>6. NetInv'
    BY Zenon, <1>1, <2>5 DEF EnrollInv, NetInv
  <2> HIDE DEF c
  <2> QED BY Zenon, <1>1, <2>1, <2>3, <2>4, <2>6, ClientStep
<1>4. CASE GiveUp
  BY Zenon, <1>1, <1>4, GivesUp
<1> QED BY Zenon, <1>2, <1>3, <1>4 DEF Receive

(* A step before or during a request fails.                                *)
LEMMA FailsKeeps ==
  ASSUME EnrollInv, Fails
  PROVE  EnrollInv'
  BY Zenon, GivesUp DEF Fails, Abandon

(* The process is killed while it writes its files.                        *)
LEMMA KillKeeps ==
  ASSUME EnrollInv, Kill
  PROVE  EnrollInv'
<1>1. Killed /\ awaited' = Nothing /\ back' = Nothing /\ UNCHANGED <<srv, wire>>
  BY Zenon DEF Kill, Abandon
<1>2. run'.pc = "off"
  BY Zenon, <1>1 DEF Killed, Exit, Off
<1>3. CliInv'
  BY Zenon, <1>1, KilledKeeps DEF EnrollInv
<1>4. NetInv'
  BY Zenon, <1>1, <1>2 DEF EnrollInv, NetInv
<1>5. ~Saving'
  BY Zenon, <1>2 DEF Saving
<1> QED BY Zenon, <1>1, <1>3, <1>4, <1>5, ClientStep

(* A new process finds nothing of an earlier one but its files.            *)
LEMMA StartRunKeeps ==
  ASSUME EnrollInv, StartRun
  PROVE  EnrollInv'
<1>1. /\ StartReenroll \/ \E k \in OwnKeys : StartEnroll(k, "enroll")
      /\ UNCHANGED <<srv, net>>
  BY Zenon DEF StartRun
<1>2. run.pc = "off" /\ run'.pc = "ask"
  BY Zenon, <1>1 DEF StartReenroll, StartEnroll, Off
<1>3. CliInv'
  BY Zenon, <1>1, StartKeeps DEF EnrollInv
<1>4. NetInv' /\ back' = Nothing
  BY Zenon, <1>1, <1>2 DEF EnrollInv, NetInv, net
<1>5. ~Saving'
  BY Zenon, <1>2 DEF Saving
<1> QED BY Zenon, <1>1, <1>3, <1>4, <1>5, ClientStep

(* Saving holds on to the certificate until the process is off.            *)
LEMMA SaveStep ==
  ASSUME EnrollInv, Save, UNCHANGED <<srv, mode, net>>
  PROVE  EnrollInv'
<1>1. CliInv'
  BY Zenon, SaveKeeps DEF EnrollInv
<1>2. run \in Runs /\ Saving
  <2>1. ASSUME NEW f \in {"cert", "key"}, Truncate(f) \/ Fill(f) \/ CannotOpen(f)
        PROVE  run.pc \in {"cert", "certopen", "key", "keyopen"}
    <3>1. run.pc = f \/ run.pc = Opened[f]
      BY Zenon, <2>1 DEF Truncate, Fill, CannotOpen
    <3> QED BY <3>1 DEF Opened
  <2> QED BY Zenon, <2>1 DEF EnrollInv, CliInv, CliTypes, Saving, Save, KeyNotExported
<1>3. run'.pc = "off" \/ (run'.pc \in {"certopen", "key", "keyopen"}
                          /\ run'.key = run.key /\ run'.cert = run.cert)
  <2>1. ASSUME NEW f \in {"cert", "key"}, NEW wrc, Proceed(f, wrc)
        PROVE  \/ run'.pc = "off"
               \/ run'.pc = "key" /\ run'.key = run.key /\ run'.cert = run.cert
    BY Zenon, <1>2, <2>1 DEF Proceed, Exit, Off, Runs
  <2>2. ASSUME NEW f \in {"cert", "key"}, Truncate(f)
        PROVE  /\ run'.pc \in {"certopen", "keyopen"}
               /\ run'.key = run.key /\ run'.cert = run.cert
    BY <1>2, <2>2 DEF Truncate, Goto, Opened, Runs
  <2> QED BY Zenon, <2>1, <2>2 DEF Save, KeyNotExported, Fill, CannotOpen
<1>4. IssuedFor(run.cert.no, run.key)
  BY Zenon, <1>2 DEF EnrollInv, OwnInv
<1>5. back = Nothing /\ back' = Nothing
  BY Zenon, <1>2 DEF EnrollInv, NetInv, Saving, net
<1>6. NetInv'
  BY Zenon, <1>2, <1>3 DEF EnrollInv, NetInv, net, Saving
<1>7. ~Saving' \/ IssuedFor(run'.cert.no, run'.key)
  BY Zenon, <1>3, <1>4 DEF Saving
<1> QED BY Zenon, <1>1, <1>5, <1>6, <1>7, ClientStep
-----------------------------------------------------------------------------
(* Every step of the whole keeps the invariant, and is a step of the       *)
(* server of one of the kinds, or none.                                    *)
LEMMA EnrollNextKeeps ==
  ASSUME EnrollInv, [ScepEnrollNext]_scep
  PROVE  EnrollInv' /\ (Step \/ UNCHANGED srv)
<1>1. CASE Others
  BY Zenon, <1>1, OthersKeep
<1>2. ASSUME NEW m \in wire, Deliver(m) PROVE EnrollInv' /\ Step
  BY Zenon, <1>2, DeliverKeeps
<1>3. CASE StartRun
  BY Zenon, <1>3, StartRunKeeps DEF StartRun
<1>4. CASE Client
  <2>1. UNCHANGED srv
    BY Zenon, <1>4 DEF Client, Proceeds, Ask, AskAgain, Transmit, Receive, Fails
  <2> QED BY Zenon, <1>4, <2>1, AskKeeps, AskAgainKeeps, ReceiveKeeps, FailsKeeps, SaveStep DEF Client, Proceeds
<1>5. CASE Kill
  BY Zenon, <1>5, KillKeeps DEF Kill
<1>6. CASE UNCHANGED scep
  BY <1>6 DEF scep, srv, cli, net, EnrollInv, ServerInv, QueueInv, TypeInv,
     OneEntryPerTransaction, IssuedOncePerApproval, RequireApproval, RegistryInv, OwnCsr,
     CliInv, CliTypes, FilesInv, Pair, Saving, NetInv, OwnInv, IssuedFor
<1> QED BY Zenon, <1>1, <1>2, <1>3, <1>4, <1>5, <1>6 DEF ScepEnrollNext

(* EnrollInv is inductive: it holds in every state of every enrolment.     *)
THEOREM EnrollInvHolds == ScepEnrollSpec => []EnrollInv
<1>1. ScepEnrollInit => EnrollInv
  <2> SUFFICES ASSUME ScepEnrollInit PROVE EnrollInv
    OBVIOUS
  <2>1. ServerInv /\ CliInv
    BY Zenon, ServerStarts, CliStarts DEF ScepEnrollInit
  <2>2. pending = << >> /\ run.pc = "off" /\ back = Nothing /\ awaited = Nothing /\ wire = {}
    BY Zenon DEF ScepEnrollInit, ServerInit, CliInit, Off
  <2> QED BY <2>1, <2>2 DEF EnrollInv, QueueInv, NetInv, OwnInv, Saving
<1>2. EnrollInv /\ [ScepEnrollNext]_scep => EnrollInv'
  BY Zenon, EnrollNextKeeps
<1> QED BY <1>1, <1>2, PTL DEF ScepEnrollSpec

(* OwnCertificate for all constants: whatever other clients send and       *)
(* however late messages arrive, scep_enroll ends up with the certificate  *)
(* issued for the CSR it built.                                            *)
THEOREM OwnCertificateHolds == ScepEnrollSpec => []OwnCertificate
<1>1. EnrollInv => OwnCertificate
  BY Zenon DEF EnrollInv, CliInv, CliTypes, OwnInv, IssuedFor, OwnCertificate
<1> QED BY <1>1, EnrollInvHolds, PTL

(* PairOnDisk for all constants: the files write_file leaves are a         *)
(* certificate and its key unless a write failed.                          *)
THEOREM PairOnDiskHolds == ScepEnrollSpec => []PairOnDisk
<1>1. EnrollInv => PairOnDisk
  BY Zenon DEF EnrollInv, CliInv, FilesInv, Pair, PairOnDisk, Saving
<1> QED BY <1>1, EnrollInvHolds, PTL

(* The server keeps its promises (one entry per transactionID, one         *)
(* certificate per approval, the newest certificates in the registry) when *)
(* it is composed with this client and its network.                        *)
THEOREM ServerHolds ==
  ScepEnrollSpec => [](OneEntryPerTransaction /\ IssuedOncePerApproval /\ RegistryKeepsNewest)
<1>1. EnrollInv => OneEntryPerTransaction /\ IssuedOncePerApproval /\ RegistryKeepsNewest
  BY Zenon, RegistryIsTail DEF EnrollInv, ServerInv
<1> QED BY <1>1, EnrollInvHolds, PTL

(* ParkedUntilReleased for all constants, with this client: a parked       *)
(* request stays until the poll that releases it, and with approval        *)
(* required nothing else issues.                                           *)
THEOREM ParkedStaysHolds == ScepEnrollSpec => ParkedUntilReleased
<1>1. EnrollInv /\ [ScepEnrollNext]_scep => [ParkedStep]_srv
  <2> SUFFICES ASSUME EnrollInv, [ScepEnrollNext]_scep PROVE [ParkedStep]_srv
    OBVIOUS
  <2>1. Step \/ UNCHANGED srv
    BY Zenon, EnrollNextKeeps
  <2>2. TypeInv
    BY Zenon DEF EnrollInv, ServerInv
  <2> QED BY Zenon, <2>1, <2>2, StepKeepsParked
<1> QED BY <1>1, EnrollInvHolds, PTL DEF ScepEnrollSpec, ParkedUntilReleased
-----------------------------------------------------------------------------
(* OneCertPerRun.  What a run may still be given is counted with what it   *)
(* has been given: a request parked, one on its way, and one that is still *)
(* to be sent stand for a certificate each.                                *)
Unit(b) == IF b THEN 1 ELSE 0

OwnCerts == {n \in 1..Len(certs) : certs[n].by \in OwnKeys}

OwnParked == {i \in 1..Len(pending) : pending[i].signer \in OwnKeys}

OnWire == {m \in wire : m.mt # "20"}

Left == Cardinality(OwnCerts) + Cardinality(OwnParked)

Owed == Cardinality(OnWire) + Unit(run.pc = "ask")

CountInv == IsFiniteSet(wire) /\ Left + Owed <= runs

(* Places in a sequence are finitely many.                                 *)
LEMMA FewPlaces ==
  ASSUME NEW n \in Nat, NEW S, S \subseteq 1..n
  PROVE  IsFiniteSet(S) /\ Cardinality(S) \in Nat
<1>1. IsFiniteSet(1..n)
  BY FS_Interval
<1>2. IsFiniteSet(S)
  BY Zenon, <1>1, FS_Subset
<1> QED BY Zenon, <1>2, FS_CardinalityType

(* What is counted is finite.                                              *)
LEMMA CountsAreNumbers ==
  ASSUME TypeInv
  PROVE  /\ IsFiniteSet(OwnParked) /\ Cardinality(OwnParked) \in Nat
         /\ IsFiniteSet(OwnCerts) /\ Cardinality(OwnCerts) \in Nat
         /\ Len(pending) \in Nat /\ Len(certs) \in Nat
<1>1. Len(pending) \in Nat /\ Len(certs) \in Nat
  BY Zenon, LenProperties DEF TypeInv
<1>2. OwnParked \subseteq 1..Len(pending) /\ OwnCerts \subseteq 1..Len(certs)
  BY Zenon DEF OwnParked, OwnCerts
<1> QED BY Zenon, <1>1, <1>2, FewPlaces

(* A new queue entry adds one if it is under a key of the client.          *)
LEMMA ParkCounts ==
  ASSUME TypeInv, NEW e \in Entries, Parked(e)
  PROVE  Cardinality(OwnParked') = Cardinality(OwnParked) + Unit(e.signer \in OwnKeys)
<1>1. /\ Len(pending) \in Nat /\ Len(pending') = Len(pending) + 1
      /\ \A j \in 1..Len(pending) : pending'[j] = pending[j]
      /\ pending'[Len(pending) + 1] = e
  BY AppendProperties, LenProperties DEF TypeInv, Parked
<1>2. \A j : j \in 1..Len(pending') <=> j \in 1..Len(pending) \/ j = Len(pending) + 1
  BY <1>1
<1>3. Len(pending) + 1 \notin OwnParked
  BY <1>1 DEF OwnParked
<1>4. CASE e.signer \in OwnKeys
  <2>1. OwnParked' = OwnParked \cup {Len(pending) + 1}
    BY Zenon, <1>1, <1>2, <1>4 DEF OwnParked
  <2> QED BY Zenon, <1>3, <1>4, <2>1, CountsAreNumbers, FS_AddElement DEF Unit
<1>5. CASE e.signer \notin OwnKeys
  <2>1. OwnParked' = OwnParked
    BY Zenon, <1>1, <1>2, <1>5 DEF OwnParked
  <2> QED BY <1>5, <2>1, CountsAreNumbers DEF Unit
<1> QED BY Zenon, <1>4, <1>5

(* So does a certificate asked for with one.                               *)
LEMMA IssueCounts ==
  ASSUME TypeInv, NEW csr \in Csrs, NEW by \in Keys \cup {NoKey, CaKey}, NEW to, Issue(csr, by, to)
  PROVE  Cardinality(OwnCerts') = Cardinality(OwnCerts) + Unit(by \in OwnKeys)
<1>1. certs' = Append(certs, [csr |-> csr, by |-> by])
  BY Zenon DEF Issue
<1>2. [csr |-> csr, by |-> by] \in [csr : Csrs, by : Keys \cup {NoKey, CaKey}]
  OBVIOUS
<1>3. /\ Len(certs) \in Nat /\ Len(certs') = Len(certs) + 1
      /\ \A j \in 1..Len(certs) : certs'[j] = certs[j]
      /\ certs'[Len(certs) + 1] = [csr |-> csr, by |-> by]
  BY <1>1, <1>2, AppendProperties, LenProperties DEF TypeInv
<1>4. certs'[Len(certs) + 1].by = by
  BY <1>3
<1>5. \A j : j \in 1..Len(certs') <=> j \in 1..Len(certs) \/ j = Len(certs) + 1
  BY <1>3
<1>6. Len(certs) + 1 \notin OwnCerts
  BY <1>3 DEF OwnCerts
<1>7. CASE by \in OwnKeys
  <2>1. OwnCerts' = OwnCerts \cup {Len(certs) + 1}
    BY Zenon, <1>3, <1>4, <1>5, <1>7 DEF OwnCerts
  <2> QED BY Zenon, <1>6, <1>7, <2>1, CountsAreNumbers, FS_AddElement DEF Unit
<1>8. CASE by \notin OwnKeys
  <2>1. OwnCerts' = OwnCerts
    BY Zenon, <1>3, <1>4, <1>5, <1>8 DEF OwnCerts
  <2> QED BY <1>8, <2>1, CountsAreNumbers DEF Unit
<1> QED BY Zenon, <1>7, <1>8

(* pending_remove takes away one of the client's entries if it was asked   *)
(* to, and none if not, although the last entry changes its place.         *)
LEMMA DequeueCounts ==
  ASSUME TypeInv, NEW k \in 1..Len(pending), pending' = Without(k)
  PROVE  Cardinality(OwnParked') = Cardinality(OwnParked) - Unit(pending[k].signer \in OwnKeys)
<1> DEFINE n == Len(pending)
           Mine(j) == pending[j].signer \in OwnKeys
<1>1. /\ n \in Nat /\ 1 <= n /\ n \in 1..n /\ Len(pending') = n - 1
      /\ \A j \in 1..n - 1 : pending'[j] = IF j = k THEN pending[n] ELSE pending[j]
  <2>1. n \in Nat
    BY Zenon, CountsAreNumbers
  <2>2. 1 <= n /\ n \in 1..n
    BY <2>1
  <2> QED BY Zenon, <2>1, <2>2, WithoutOne DEF TypeInv
<1>2. \A j : j \in 1..n - 1 <=> j \in 1..n /\ j # n
  BY <1>1
<1>3. \A j : j \in OwnParked' <=> j \in 1..n - 1 /\ (IF j = k THEN Mine(n) ELSE Mine(j))
  BY Zenon, <1>1 DEF OwnParked
<1>4. \A j : j \in OwnParked <=> j \in 1..n /\ Mine(j)
  BY Zenon DEF OwnParked
<1>5. k \in 1..n
  OBVIOUS
<1> HIDE DEF n
<1>6. \A S, x : IsFiniteSet(S) => IsFiniteSet(S \ {x}) /\ Cardinality(S \ {x}) \in Nat
  BY Zenon, FS_RemoveElement, FS_CardinalityType
<1>7. CASE Mine(n)
  <2>1. n \in OwnParked
    BY Zenon, <1>1, <1>4, <1>7
  <2>2. Cardinality(OwnParked \ {n}) = Cardinality(OwnParked) - 1
    BY Zenon, <2>1, CountsAreNumbers, FS_RemoveElement
  <2>3. CASE k = n \/ Mine(k)
    <3>1. OwnParked' = OwnParked \ {n}
      BY Zenon, <1>1, <1>2, <1>3, <1>4, <1>5, <1>7, <2>3
    <3>2. Mine(k)
      BY Zenon, <1>7, <2>3
    <3> QED BY Zenon, <2>2, <3>1, <3>2 DEF Unit
  <2>4. CASE k # n /\ ~Mine(k)
    <3>1. OwnParked' = (OwnParked \ {n}) \cup {k} /\ k \notin OwnParked
      BY Zenon, <1>1, <1>2, <1>3, <1>4, <1>5, <1>7, <2>4
    <3>2. Cardinality((OwnParked \ {n}) \cup {k}) = Cardinality(OwnParked \ {n}) + 1
      BY Zenon, <1>6, <3>1, CountsAreNumbers, FS_AddElement
    <3> QED BY <2>2, <2>4, <3>1, <3>2, CountsAreNumbers DEF Unit
  <2> QED BY Zenon, <2>3, <2>4
<1>8. CASE ~Mine(n)
  <2>1. OwnParked' = OwnParked \ {k}
    BY Zenon, <1>1, <1>2, <1>3, <1>4, <1>5, <1>8
  <2>2. CASE Mine(k)
    <3>1. k \in OwnParked
      BY Zenon, <1>4, <1>5, <2>2
    <3>2. Cardinality(OwnParked \ {k}) = Cardinality(OwnParked) - 1
      BY Zenon, <3>1, CountsAreNumbers, FS_RemoveElement
    <3> QED BY Zenon, <2>1, <2>2, <3>2 DEF Unit
  <2>3. CASE ~Mine(k)
    <3>1. OwnParked \ {k} = OwnParked
      BY Zenon, <1>4, <2>3
    <3>2. Cardinality(OwnParked') = Cardinality(OwnParked) /\ Cardinality(OwnParked) \in Nat
      BY Zenon, <2>1, <3>1, CountsAreNumbers
    <3> QED BY <2>3, <3>2 DEF Unit
  <2> QED BY Zenon, <2>2, <2>3
<1> QED BY Zenon, <1>7, <1>8

(* What is left behind grows by no more than what is owed shrinks.         *)
LEMMA Balance ==
  ASSUME NEW left \in Nat, NEW left2 \in Nat, NEW owed \in Nat, NEW owed2 \in Nat,
         NEW new \in Nat, NEW n \in Nat,
         left + owed <= n, left2 <= left + new, owed2 + new <= owed
  PROVE  left2 + owed2 <= n
  OBVIOUS

(* A release turns a queue entry into at most one certificate, under the   *)
(* same key.                                                               *)
LEMMA TakenCounts ==
  ASSUME TypeInv, NEW i \in 1..Len(pending), Dropped(i) \/ Released(i)
  PROVE  Left \in Nat /\ Left' \in Nat /\ Left' <= Left
<1> DEFINE P == Cardinality(OwnParked)
           Q == Cardinality(OwnCerts)
           u == Unit(pending[i].signer \in OwnKeys)
<1>1. P \in Nat /\ Q \in Nat /\ Len(pending) \in Nat /\ u \in {0, 1}
  BY Zenon, CountsAreNumbers DEF Unit
<1>2. P' = P - u
  BY Zenon, DequeueCounts DEF Dropped, Released
<1>3. P' \in Nat
  <2>1. Len(pending') = Len(pending) - 1
    BY Zenon, WithoutOne DEF TypeInv, Dropped, Released
  <2>2. Len(pending') \in Nat
    BY <1>1, <2>1
  <2>3. OwnParked' \subseteq 1..Len(pending')
    BY Zenon DEF OwnParked
  <2> QED BY Zenon, <2>2, <2>3, FewPlaces
<1>4. Q' = Q \/ Q' = Q + u
  <2>1. CASE Dropped(i)
    BY Zenon, <2>1 DEF Dropped, OwnCerts
  <2>2. CASE Released(i)
    <3>1. pending[i].csr \in Csrs /\ pending[i].signer \in Keys \cup {NoKey, CaKey}
      <4>1. pending[i] \in Entries
        BY Zenon, ElementOfSeq DEF TypeInv
      <4> QED BY Zenon, <4>1 DEF Entries
    <3> QED BY Zenon, <2>2, <3>1, IssueCounts DEF Released
  <2> QED BY Zenon, <2>1, <2>2
<1> HIDE DEF P, Q, u
<1>5. Q + P \in Nat /\ Q' + P' \in Nat /\ Q' + P' <= Q + P
  BY <1>1, <1>2, <1>3, <1>4
<1> QED BY Zenon, <1>5 DEF Left, P, Q

(* A request parked or granted under `by` counts if the key is the         *)
(* client's.                                                               *)
LEMMA GivenCounts ==
  ASSUME TypeInv, NEW by \in Keys \cup {NoKey, CaKey},
         \/ \E e \in Entries : e.signer = by /\ Parked(e)
         \/ \E csr \in Csrs : Granted(csr, by)
  PROVE  Left \in Nat /\ Left' \in Nat /\ Left' = Left + Unit(by \in OwnKeys)
<1> DEFINE P == Cardinality(OwnParked)
           Q == Cardinality(OwnCerts)
           u == Unit(by \in OwnKeys)
<1>1. P \in Nat /\ Q \in Nat /\ u \in {0, 1}
  BY Zenon, CountsAreNumbers DEF Unit
<1>2. (P' = P + u /\ Q' = Q) \/ (P' = P /\ Q' = Q + u)
  <2>1. ASSUME NEW e \in Entries, e.signer = by, Parked(e) PROVE P' = P + u /\ Q' = Q
    <3>1. P' = P + u
      BY Zenon, <2>1, ParkCounts
    <3> QED BY Zenon, <2>1, <3>1 DEF Parked, OwnCerts
  <2>2. ASSUME NEW csr \in Csrs, Granted(csr, by) PROVE P' = P /\ Q' = Q + u
    <3>1. Q' = Q + u
      BY Zenon, <2>2, IssueCounts DEF Granted
    <3> QED BY Zenon, <2>2, <3>1 DEF Granted, OwnParked
  <2> QED BY Zenon, <2>1, <2>2
<1> HIDE DEF P, Q, u
<1>3. Q + P \in Nat /\ Q' + P' \in Nat /\ Q' + P' = (Q + P) + u
  BY <1>1, <1>2
<1> QED BY Zenon, <1>3 DEF Left, P, Q, u

(* A step that touches neither the queue nor the certificates.             *)
LEMMA NoneCounts ==
  ASSUME TypeInv, UNCHANGED <<pending, certs>>
  PROVE  Left \in Nat /\ Left' = Left
  BY CountsAreNumbers DEF Left, OwnParked, OwnCerts

(* Messages of other clients do not count.                                 *)
LEMMA ForeignCounts ==
  ASSUME TypeInv, ForeignStep
  PROVE  Left \in Nat /\ Left' \in Nat /\ Left' <= Left
<1>1. CASE Silent
  <2>1. Left \in Nat /\ Left' = Left
    BY Zenon, <1>1, NoneCounts DEF Silent
  <2> QED BY <2>1
<1>2. ASSUME NEW i \in 1..Len(pending), Dropped(i) \/ Released(i)
      PROVE  Left \in Nat /\ Left' \in Nat /\ Left' <= Left
  BY Zenon, <1>2, TakenCounts
<1>3. ASSUME NEW by \in Keys \cup {NoKey, CaKey}, by \notin OwnKeys,
             \/ \E e \in Entries : e.signer = by /\ Parked(e)
             \/ \E csr \in Csrs : Granted(csr, by)
      PROVE  Left \in Nat /\ Left' \in Nat /\ Left' <= Left
  <2>1. Left \in Nat /\ Left' \in Nat /\ Left' = Left + 0
    BY Zenon, <1>3, GivenCounts DEF Unit
  <2> QED BY <2>1
<1>4. \A e \in Entries : e.signer \in Keys \cup {NoKey, CaKey}
  BY Zenon DEF Entries
<1> QED BY Zenon, <1>1, <1>2, <1>3, <1>4 DEF ForeignStep

(* What is owed is a number.                                               *)
LEMMA OwedIsNumber ==
  ASSUME IsFiniteSet(wire)
  PROVE  IsFiniteSet(OnWire) /\ Cardinality(OnWire) \in Nat /\ Owed \in Nat
<1>1. IsFiniteSet(OnWire)
  BY Zenon, FS_Subset DEF OnWire
<1>2. Cardinality(OnWire) \in Nat
  BY Zenon, <1>1, FS_CardinalityType
<1> QED BY <1>1, <1>2 DEF Owed, Unit

(* A request that arrives is no longer owed: it is parked, granted or      *)
(* refused, and a poll asks for nothing new.                               *)
LEMMA DeliverCounts ==
  ASSUME EnrollInv, CountInv, NEW m \in wire, Deliver(m)
  PROVE  CountInv'
<1>1. /\ m \in Requests /\ TypeInv /\ runs \in Nat
      /\ wire' = wire \ {m} /\ UNCHANGED <<run, runs>>
  BY CliAssumption DEF EnrollInv, ServerInv, NetInv, CliInv, CliTypes, Deliver, cli
<1>2. /\ m.key \in OwnKeys /\ m.key \in Keys /\ m.tid \in Tids /\ m.mt \in {"17", "19", "20"}
      /\ OwnCsr(m.key) \in Csrs /\ Target(m.key) = m.key
  BY Zenon, <1>1, OwnTypes, ScepServerAssumption DEF Requests, Target
<1>3. IsFiniteSet(wire')
  BY Zenon, <1>1, FS_RemoveElement DEF CountInv
<1>4. IsFiniteSet(OnWire) /\ Owed \in Nat /\ Cardinality(OnWire) \in Nat
  BY Zenon, OwedIsNumber DEF CountInv
<1>5. OnWire' = OnWire \ {m} /\ (m \in OnWire <=> m.mt # "20")
  BY Zenon, <1>1 DEF OnWire
<1>6. /\ Cardinality(OnWire') = Cardinality(OnWire) - Unit(m.mt # "20")
      /\ Cardinality(OnWire') \in Nat
  <2>1. /\ IsFiniteSet(OnWire \ {m})
        /\ Cardinality(OnWire \ {m}) =
             IF m \in OnWire THEN Cardinality(OnWire) - 1 ELSE Cardinality(OnWire)
    BY Zenon, <1>4, FS_RemoveElement
  <2>2. Cardinality(OnWire \ {m}) \in Nat
    BY Zenon, <2>1, FS_CardinalityType
  <2> QED BY <1>4, <1>5, <2>1, <2>2 DEF Unit
<1> DEFINE new == Unit(m.mt # "20")
<1>7. new \in Nat /\ Owed' \in Nat /\ Owed' + new <= Owed
  BY <1>1, <1>4, <1>6 DEF Owed, Unit
<1>8. Left \in Nat /\ Left' \in Nat /\ Left' <= Left + new
  <2>1. CASE Mute \/ StillPending(m)
    <3>1. Left \in Nat /\ Left' = Left
      BY Zenon, <1>1, <2>1, NoneCounts DEF Mute, StillPending
    <3> QED BY <1>7, <3>1
  <2>2. CASE m.mt # "20" /\ Enroll(m.mt, m.tid, m.key, TRUE, OwnCsr(m.key))
    <3> DEFINE e == [tid |-> m.tid, csr |-> OwnCsr(m.key), signer |-> m.key]
    <3>1. Mute \/ Parked(e) \/ Granted(OwnCsr(m.key), m.key)
      BY Zenon, <1>2, <2>2, EnrollKinds
    <3>2. e \in Entries /\ e.signer = m.key
      BY Zenon, <1>2 DEF Entries
    <3> HIDE DEF e
    <3>3. ASSUME ~Mute PROVE Left \in Nat /\ Left' \in Nat /\ Left' = Left + 1
      <4>1. \/ \E x \in Entries : x.signer = m.key /\ Parked(x)
            \/ \E csr \in Csrs : Granted(csr, m.key)
        BY Zenon, <1>2, <3>1, <3>2, <3>3
      <4>2. Left \in Nat /\ Left' \in Nat /\ Left' = Left + Unit(m.key \in OwnKeys)
        BY Zenon, <1>1, <1>2, <4>1, GivenCounts
      <4> QED BY Zenon, <1>2, <4>2 DEF Unit
    <3>4. new = 1
      BY Zenon, <2>2 DEF Unit
    <3> QED BY <2>1, <3>3, <3>4
  <2>3. CASE Poll(m.tid, m.key, TRUE, Subject)
    <3>1. Mute \/ \E i \in 1..Len(pending) : Polled(i, m.tid, m.key, Subject)
      BY Zenon, <2>3, PollKinds
    <3>2. ASSUME ~Mute PROVE Left \in Nat /\ Left' \in Nat /\ Left' <= Left
      BY Zenon, <1>1, <3>1, <3>2, TakenCounts DEF Polled
    <3>3. ASSUME NEW a \in Nat, NEW b \in Nat, b <= a PROVE b <= a + new
      BY <1>7, <3>3
    <3> QED BY Zenon, <2>1, <3>2, <3>3
  <2>4. CASE NotHandled
    BY Zenon, <2>1, <2>4, NotHandledMute
  <2> QED BY Zenon, <1>2, <2>1, <2>2, <2>3, <2>4 DEF Deliver
<1> HIDE DEF new
<1>9. Left + Owed <= runs
  BY Zenon DEF CountInv
<1>10. Left' + Owed' <= runs
  BY Zenon, <1>1, <1>4, <1>7, <1>8, <1>9, Balance
<1> QED BY Zenon, <1>1, <1>3, <1>10 DEF CountInv

(* Nor do steps of the client count, except that it asks.                  *)
LEMMA ClientCounts ==
  ASSUME EnrollInv, CountInv, StartRun \/ Client \/ Kill
  PROVE  CountInv'
<1>1. TypeInv /\ runs \in Nat /\ run \in Runs /\ runs \in 0..MaxRuns /\ UNCHANGED srv
  BY CliAssumption DEF EnrollInv, ServerInv, CliInv, CliTypes, StartRun, Client, Proceeds, Kill, Ask,
     AskAgain, Transmit, Receive, Fails
<1>2. Left \in Nat /\ Left' = Left
  BY Zenon, <1>1, NoneCounts DEF srv
<1>3. IsFiniteSet(OnWire) /\ Owed \in Nat /\ Cardinality(OnWire) \in Nat /\ IsFiniteSet(wire)
  BY Zenon, OwedIsNumber DEF CountInv
<1>4. CASE StartRun
  <2>1. UNCHANGED wire /\ runs' = runs + 1 /\ run.pc = "off" /\ run'.pc = "ask"
    BY Zenon, <1>4 DEF StartRun, net, StartReenroll, StartEnroll, Off
  <2>2. Owed' = Owed + 1
    BY <1>3, <2>1 DEF Owed, OnWire, Unit
  <2> QED BY <1>1, <1>2, <1>3, <2>1, <2>2 DEF CountInv
<1>5. CASE Ask
  <2>1. PICK t \in NewTid, mt \in IF run.op = "reenroll" THEN {"17", "19"} ELSE {"19"} :
          Transmit([mt |-> mt, tid |-> t, key |-> run.key, run |-> runs],
                   [run EXCEPT !.pc = "sent"])
    BY <1>5, Zenon DEF Ask
  <2> DEFINE m == [mt |-> mt, tid |-> t, key |-> run.key, run |-> runs]
  <2>2. wire' = wire \cup {m} /\ run' = [run EXCEPT !.pc = "sent"] /\ UNCHANGED runs
    BY Zenon, <2>1 DEF Transmit
  <2>3. run'.pc = "sent" /\ run.pc = "ask"
    BY Zenon, <1>1, <1>5, <2>2 DEF Runs, Ask
  <2>4. OnWire' = OnWire \cup {m}
    BY <2>1, <2>2 DEF OnWire
  <2> HIDE DEF m
  <2>5. IsFiniteSet(wire')
    BY Zenon, <1>3, <2>2, FS_AddElement
  <2>6. Cardinality(OnWire') \in Nat /\ Cardinality(OnWire') <= Cardinality(OnWire) + 1
    <3>1. /\ IsFiniteSet(OnWire \cup {m})
          /\ Cardinality(OnWire \cup {m}) =
               IF m \in OnWire THEN Cardinality(OnWire) ELSE Cardinality(OnWire) + 1
      BY Zenon, <1>3, FS_AddElement
    <3> QED BY <1>3, <2>4, <3>1
  <2>7. Owed' \in Nat /\ Owed' <= Owed
    BY <1>3, <2>3, <2>6 DEF Owed, Unit
  <2>8. ASSUME NEW l \in Nat, NEW o \in Nat, NEW p \in Nat, NEW n \in Nat, l + o <= n, p <= o
        PROVE  l + p <= n
    BY <2>8
  <2> QED BY Zenon, <1>1, <1>2, <1>3, <2>2, <2>5, <2>7, <2>8 DEF CountInv
<1>6. CASE AskAgain
  <2> DEFINE m == [mt |-> "20", tid |-> tid, key |-> run.key, run |-> runs]
  <2>1. /\ wire' = wire \cup {m} /\ UNCHANGED runs
        /\ run' = [run EXCEPT !.pc = "sent", !.attempts = @ + 1]
    BY Zenon, <1>6 DEF AskAgain, Transmit
  <2>2. run'.pc = "sent" /\ run.pc = "sleep"
    BY Zenon, <1>1, <1>6, <2>1 DEF Runs, AskAgain
  <2>3. OnWire' = OnWire
    BY <2>1 DEF OnWire
  <2> HIDE DEF m
  <2>4. IsFiniteSet(wire')
    BY Zenon, <1>3, <2>1, FS_AddElement
  <2>5. Owed' = Owed
    BY Zenon, <1>3, <2>2, <2>3 DEF Owed, Unit
  <2> QED BY Zenon, <1>2, <2>1, <2>4, <2>5 DEF CountInv
<1>7. CASE Receive \/ Fails \/ (Save /\ UNCHANGED <<srv, mode, net>>) \/ Kill
  <2>1. UNCHANGED <<wire, runs>>
    BY Zenon, <1>7 DEF Receive, Fails, Save, Kill, net, Obtain, GiveUp, Killed, KeyNotExported, Truncate,
                Fill, CannotOpen
  <2>2. run'.pc # "ask"
    <3>1. CASE Receive \/ Fails \/ Kill
      BY Zenon, <1>1, <3>1 DEF Receive, Fails, Kill, Goto, Obtain, GiveUp, Killed, Exit, Off, Runs
    <3>2. CASE Save
      <4>1. ASSUME NEW f \in {"cert", "key"}, NEW wrc, Proceed(f, wrc) PROVE run'.pc # "ask"
        BY Zenon, <1>1, <4>1 DEF Proceed, Exit, Off, Runs
      <4>2. ASSUME NEW f \in {"cert", "key"}, Truncate(f) PROVE run'.pc # "ask"
        BY <1>1, <4>2 DEF Truncate, Goto, Opened, Runs
      <4> QED BY Zenon, <3>2, <4>1, <4>2 DEF Save, KeyNotExported, Fill, CannotOpen
    <3> QED BY Zenon, <1>7, <3>1, <3>2
  <2>3. Owed' \in Nat /\ Owed' <= Owed
    BY <1>3, <2>1, <2>2 DEF Owed, OnWire, Unit
  <2>4. ASSUME NEW l \in Nat, NEW o \in Nat, NEW p \in Nat, NEW n \in Nat, l + o <= n, p <= o
        PROVE  l + p <= n
    BY <2>4
  <2> QED BY Zenon, <1>1, <1>2, <1>3, <2>1, <2>3, <2>4 DEF CountInv
<1> QED BY Zenon, <1>4, <1>5, <1>6, <1>7 DEF Client, Proceeds

(* Every step of the whole keeps the count.                                *)
LEMMA NextCounts ==
  ASSUME EnrollInv, CountInv, [ScepEnrollNext]_scep
  PROVE  CountInv'
<1>1. CASE Others
  <2>1. Left \in Nat /\ Left' \in Nat /\ Left' <= Left /\ Owed \in Nat /\ runs \in Nat
    BY <1>1, OthersAreForeign, ForeignCounts, OwedIsNumber, CliAssumption
    DEF EnrollInv, ServerInv, CountInv, CliInv, CliTypes
  <2>2. UNCHANGED <<run, runs, wire>>
    BY Zenon, <1>1 DEF Others, cli, net
  <2>3. Owed' = Owed
    BY Zenon, <2>2 DEF Owed, OnWire
  <2>4. ASSUME NEW l \in Nat, NEW m \in Nat, NEW o \in Nat, NEW n \in Nat, l + o <= n, m <= l
        PROVE  m + o <= n
    BY <2>4
  <2> QED BY Zenon, <2>1, <2>2, <2>3, <2>4 DEF CountInv
<1>2. CASE UNCHANGED scep
  <2>1. UNCHANGED <<run, runs, wire, pending, certs>>
    BY Zenon, <1>2 DEF scep, srv, cli, net
  <2> QED BY Zenon, <2>1 DEF CountInv, Left, Owed, OwnCerts, OwnParked, OnWire
<1> QED BY Zenon, <1>1, <1>2, DeliverCounts, ClientCounts DEF ScepEnrollNext

(* OneCertPerRun for all constants: whatever the network loses or delays,  *)
(* scep_enroll costs the CA one certificate.                               *)
THEOREM OneCertHolds == ScepEnrollSpec => []OneCertPerRun
<1>1. ScepEnrollInit => CountInv
  <2> SUFFICES ASSUME ScepEnrollInit PROVE CountInv
    OBVIOUS
  <2>1. Len(certs) = 0 /\ Len(pending) = 0 /\ wire = {} /\ run.pc = "off" /\ runs = 0
    BY Zenon DEF ScepEnrollInit, ServerInit, CliInit, Off
  <2>2. OwnCerts = {} /\ OwnParked = {} /\ OnWire = {}
    BY <2>1 DEF OwnCerts, OwnParked, OnWire
  <2> QED BY <2>1, <2>2, FS_EmptySet DEF CountInv, Left, Owed, Unit
<1>2. EnrollInv /\ CountInv /\ [ScepEnrollNext]_scep => CountInv'
  BY Zenon, NextCounts
<1>3. EnrollInv /\ CountInv => OneCertPerRun
  <2> SUFFICES ASSUME EnrollInv, CountInv PROVE OneCertPerRun
    OBVIOUS
  <2>1. TypeInv /\ runs \in Nat
    BY CliAssumption DEF EnrollInv, ServerInv, CliInv, CliTypes
  <2>2. Cardinality(OwnCerts) \in Nat /\ Cardinality(OwnParked) \in Nat /\ Owed \in Nat
    BY Zenon, <2>1, CountsAreNumbers, OwedIsNumber DEF CountInv
  <2>3. Cardinality(OwnCerts) <= runs
    BY <2>1, <2>2 DEF CountInv, Left
  <2> QED BY Zenon, <2>3 DEF OneCertPerRun, OwnCerts
<1> QED BY <1>1, <1>2, <1>3, EnrollInvHolds, PTL DEF ScepEnrollSpec
-----------------------------------------------------------------------------
(* ParkedForPoll.  With random transactionIDs nothing but the request that *)
(* is awaited goes by that of the run, so that its entry can only be taken *)
(* by the poll that is awaited; with derived ones an entry under a key of  *)
(* the client goes by the transactionID of that key.                       *)
Waiting == run.pc \in {"sent", "sleep"}

OwnEntry(t, k) == [tid |-> t, csr |-> OwnCsr(k), signer |-> k]

EntryParked == Kept(OwnEntry(tid, run.key), pending)

DrawnInv ==
  /\ \A m \in wire : m.tid \in spent
  /\ Waiting => tid \in spent /\ \A m \in wire : m.tid = tid => m = awaited
  /\ awaited # Nothing => awaited.tid = tid /\ awaited.key = run.key
  /\ back # Nothing => awaited \notin wire
  /\ PollAhead \/ (back # Nothing /\ back.st = "3") => EntryParked

QueueOf(S) == \A i \in 1..Len(pending) : pending[i] \in S

DerivedEntries == {e \in Entries : e.signer \in OwnKeys => e.tid = KeyTid[e.signer]}
ForeignEntries == {e \in Entries : e.signer \notin OwnKeys}

DerivedInv ==
  /\ Waiting => tid = KeyTid[run.key]
  /\ \A m \in wire : m.tid = KeyTid[m.key]
  /\ QueueOf(DerivedEntries)

TidInv ==
  /\ mode = "random" => DrawnInv
  /\ mode = "pubkey" => DerivedInv
  /\ mode = "none" => run.pc = "off" /\ wire = {} /\ QueueOf(ForeignEntries)

(* The queue after a step: as it was, one entry more, or one entry less.   *)
Grown(e) == pending' = Append(pending, e)
Shrunk(i) == pending' = Without(i)

(* What is in the queue stays there unless it is what the step takes out.  *)
LEMMA EntryStays ==
  ASSUME TypeInv, NEW e, Kept(e, pending),
         \/ UNCHANGED pending
         \/ \E x \in Entries : Grown(x)
         \/ \E i \in 1..Len(pending) : Shrunk(i) /\ pending[i] # e
  PROVE  Kept(e, pending')
<1>1. PICK j \in 1..Len(pending) : pending[j] = e
  BY Zenon DEF Kept
<1>2. ASSUME NEW x \in Entries, Grown(x) PROVE Kept(e, pending')
  <2>1. /\ Len(pending') = Len(pending) + 1 /\ pending'[j] = pending[j]
        /\ Len(pending) \in Nat
    BY <1>1, <1>2, AppendProperties, LenProperties DEF TypeInv, Grown
  <2>2. j \in 1..Len(pending')
    BY <2>1
  <2> QED BY Zenon, <1>1, <2>1, <2>2 DEF Kept
<1>3. ASSUME NEW i \in 1..Len(pending), Shrunk(i), pending[i] # e PROVE Kept(e, pending')
  BY Zenon, <1>1, <1>3, NeighboursStay DEF Shrunk
<1> QED BY Zenon, <1>2, <1>3

(* Nor does anything enter the queue but what the step puts there.         *)
LEMMA QueueStays ==
  ASSUME TypeInv, NEW S, QueueOf(S),
         \/ UNCHANGED pending
         \/ \E x \in Entries : x \in S /\ Grown(x)
         \/ \E i \in 1..Len(pending) : Shrunk(i)
  PROVE  QueueOf(S)'
<1>0. Len(pending) \in Nat
  BY Zenon, LenProperties DEF TypeInv
<1>1. CASE UNCHANGED pending
  BY Zenon, <1>1 DEF QueueOf
<1>2. ASSUME NEW x \in Entries, x \in S, Grown(x) PROVE QueueOf(S)'
  <2>1. /\ Len(pending') = Len(pending) + 1
        /\ \A j \in 1..Len(pending) : pending'[j] = pending[j]
        /\ pending'[Len(pending) + 1] = x
    BY <1>2, AppendProperties DEF TypeInv, Grown
  <2>2. \A j \in 1..Len(pending') : j \in 1..Len(pending) \/ j = Len(pending) + 1
    BY <1>0, <2>1
  <2> QED BY Zenon, <1>2, <2>1, <2>2 DEF QueueOf
<1>3. ASSUME NEW i \in 1..Len(pending), Shrunk(i) PROVE QueueOf(S)'
  <2>1. /\ Len(pending') = Len(pending) - 1
        /\ \A j \in 1..Len(pending) - 1 :
             pending'[j] = IF j = i THEN pending[Len(pending)] ELSE pending[j]
    BY Zenon, <1>3, WithoutOne DEF TypeInv, Shrunk
  <2>2. \A j \in 1..Len(pending') : j \in 1..Len(pending) - 1 /\ j \in 1..Len(pending)
    BY <1>0, <2>1
  <2>3. Len(pending) \in 1..Len(pending)
    BY <1>0
  <2> QED BY Zenon, <2>1, <2>2, <2>3 DEF QueueOf
<1> QED BY Zenon, <1>1, <1>2, <1>3

(* A request of the client may enter the queue under its own key and       *)
(* transactionID, and a poll may only take out what goes by both.          *)
LEMMA DeliverQueue ==
  ASSUME EnrollInv, NEW m \in wire, Deliver(m)
  PROVE  \/ UNCHANGED pending
         \/ OwnEntry(m.tid, m.key) \in Entries /\ Grown(OwnEntry(m.tid, m.key))
         \/ \E i \in 1..Len(pending) :
              Shrunk(i) /\ pending[i].tid = m.tid /\ pending[i].signer = m.key
<1>1. m \in Requests
  BY Zenon DEF EnrollInv, NetInv
<1>2. /\ m.key \in OwnKeys /\ m.key \in Keys /\ m.tid \in Tids
      /\ OwnCsr(m.key) \in Csrs /\ Target(m.key) = m.key
  BY Zenon, <1>1, OwnTypes, ScepServerAssumption DEF Requests, Target
<1>3. CASE Enroll(m.mt, m.tid, m.key, TRUE, OwnCsr(m.key))
  <2>1. \/ Mute \/ Parked(OwnEntry(m.tid, m.key))
        \/ Granted(OwnCsr(m.key), m.key)
    BY Zenon, <1>2, <1>3, EnrollKinds DEF OwnEntry
  <2>2. OwnEntry(m.tid, m.key) \in Entries
    BY Zenon, <1>2 DEF OwnEntry, Entries
  <2> QED BY Zenon, <2>1, <2>2 DEF Mute, Parked, Granted, Grown
<1>4. CASE Poll(m.tid, m.key, TRUE, Subject)
  <2>1. Mute \/ \E i \in 1..Len(pending) : Polled(i, m.tid, m.key, Subject)
    BY Zenon, <1>4, PollKinds
  <2> QED BY Zenon, <2>1 DEF Mute, Polled, Dropped, Released, Shrunk
<1> QED BY Zenon, <1>3, <1>4 DEF Deliver, StillPending, NotHandled

(* PENDING is answered only about a request that is in the queue.          *)
LEMMA DeliverPending ==
  ASSUME EnrollInv, NEW m \in wire, Deliver(m), reply'.st = "3"
  PROVE  Kept(OwnEntry(m.tid, m.key), pending')
<1>1. m \in Requests /\ TypeInv /\ QueueInv
  BY Zenon DEF EnrollInv, NetInv, ServerInv
<1>2. /\ m.key \in OwnKeys /\ m.key \in Keys /\ m.tid \in Tids
      /\ OwnCsr(m.key) \in Csrs /\ Target(m.key) = m.key
  BY Zenon, <1>1, OwnTypes, ScepServerAssumption DEF Requests, Target
<1>3. ASSUME NEW i \in Slot(m.tid), pending[i].signer = m.key, pending[i].csr = OwnCsr(m.key),
             UNCHANGED pending
      PROVE  Kept(OwnEntry(m.tid, m.key), pending')
  <2>1. pending[i] \in Entries /\ pending[i].tid = m.tid /\ i \in 1..Len(pending)
    BY Zenon, <1>1, ElementOfSeq DEF TypeInv, Slot
  <2>2. pending[i] = OwnEntry(m.tid, m.key)
    BY Zenon, <1>3, <2>1 DEF OwnEntry, Entries
  <2> QED BY Zenon, <1>3, <2>1, <2>2 DEF Kept
<1>4. CASE Enroll(m.mt, m.tid, m.key, TRUE, OwnCsr(m.key))
  <2>1. CASE Park(m.mt, m.tid, m.key, TRUE, OwnCsr(m.key))
    <3>1. pending' = Append(pending, OwnEntry(m.tid, m.key))
      BY Zenon, <1>2, <2>1 DEF Park, OwnEntry
    <3>2. OwnEntry(m.tid, m.key) \in Entries
      BY Zenon, <1>2 DEF OwnEntry, Entries
    <3>3. /\ Len(pending') = Len(pending) + 1 /\ Len(pending) \in Nat
          /\ pending'[Len(pending')] = OwnEntry(m.tid, m.key)
      BY <1>1, <3>1, <3>2, AppendProperties, LenProperties DEF TypeInv
    <3>4. Len(pending') \in 1..Len(pending')
      BY <3>3
    <3> QED BY Zenon, <3>3, <3>4 DEF Kept
  <2>2. CASE Resent(m.mt, m.tid, m.key, TRUE, OwnCsr(m.key))
    <3>1. PICK i \in Slot(m.tid) :
            Send(IF pending[i].signer = m.key /\ pending[i].csr = OwnCsr(m.key)
                 THEN Reply("3", "none", NoKey, 0, FALSE)
                 ELSE Failure("badRequest", TRUE))
      BY Zenon, <2>2 DEF Resent
    <3>2. pending[i].signer = m.key /\ pending[i].csr = OwnCsr(m.key)
      BY <3>1 DEF Send, Failure, Reply, Http
    <3> QED BY Zenon, <1>3, <2>2, <3>2 DEF Resent
  <2>3. CASE EnrollRefused(m.mt, m.key, TRUE, OwnCsr(m.key))
    BY <2>3 DEF EnrollRefused, Send, Failure, Reply, Http
  <2>4. CASE ParkFails(m.mt, m.tid, m.key, TRUE, OwnCsr(m.key))
    BY <2>4 DEF ParkFails, Send, Failure, Reply, Http
  <2>5. CASE EnrollNow(m.mt, m.key, TRUE, OwnCsr(m.key))
    <3>1. CASE IssueNoMemory
      BY Zenon, <3>1 DEF IssueNoMemory, Reply, Http
    <3>2. CASE IssueFails
      BY <3>2 DEF IssueFails, Send, Failure, Reply, Http
    <3>3. CASE Issue(OwnCsr(m.key), m.key, Target(m.key))
      BY <3>3 DEF Issue, Send, Reply, Http
    <3> QED BY Zenon, <2>5, <3>1, <3>2, <3>3 DEF EnrollNow
  <2> QED BY Zenon, <1>4, <2>1, <2>2, <2>3, <2>4, <2>5 DEF Enroll
<1>5. CASE Poll(m.tid, m.key, TRUE, Subject)
  <2>1. CASE PollRefused(m.tid, m.key, TRUE, Subject)
    BY <2>1 DEF PollRefused, Send, Failure, Reply, Http
  <2>2. CASE IssueNoMemory
    BY Zenon, <2>2 DEF IssueNoMemory, Reply, Http
  <2>3. CASE IssueFails
    BY <2>3 DEF IssueFails, Send, Failure, Reply, Http
  <2>4. ASSUME NEW csr, NEW by, NEW to, Issue(csr, by, to) PROVE FALSE
    BY <2>4 DEF Issue, Send, Reply, Http
  <2> QED BY Zenon, <1>5, <2>1, <2>2, <2>3, <2>4 DEF Poll, PollNoMemory, Release
<1>6. CASE StillPending(m)
  <2>1. PICK i \in Slot(m.tid) : PollAccepted(i, m.key, TRUE, Subject)
    BY Zenon, <1>6 DEF StillPending
  <2>2. pending[i].signer = m.key /\ pending[i].csr = OwnCsr(m.key)
    BY Zenon, <1>1, <1>2, <2>1 DEF PollAccepted, QueueInv, Slot
  <2> QED BY Zenon, <1>3, <1>6, <2>2 DEF StillPending
<1>7. CASE NotHandled
  BY <1>7 DEF NotHandled, Failure, Reply, Http
<1> QED BY Zenon, <1>4, <1>5, <1>6, <1>7 DEF Deliver
-----------------------------------------------------------------------------
(* What a step of the client does to the network: it sends a request under *)
(* the transactionID of the run, pauses after PENDING, or is or becomes    *)
(* one that waits for nothing.                                             *)
Sends(m) ==
  /\ m \in Requests /\ m.key = run.key /\ m.tid = tid'
  /\ wire' = wire \cup {m} /\ awaited' = m /\ UNCHANGED back
  /\ run'.pc = "sent" /\ run'.key = run.key
  /\ \/ /\ run.pc = "ask" /\ tid' \in NewTid /\ m.mt # "20"
        /\ spent' = IF mode = "random" THEN spent \cup {tid'} ELSE spent
     \/ run.pc = "sleep" /\ UNCHANGED <<tid, spent>>

Pauses ==
  /\ run.pc = "sent" /\ back # Nothing /\ back.st = "3"
  /\ run'.pc = "sleep" /\ run'.key = run.key /\ UNCHANGED <<wire, spent, tid>>

Rests == run'.pc \notin {"sent", "sleep"} /\ UNCHANGED <<wire, spent>>

(* Every step of the client is one of these.                               *)
LEMMA ClientShape ==
  ASSUME EnrollInv, StartRun \/ Client \/ Kill
  PROVE  UNCHANGED <<srv, mode>> /\ ((\E m : Sends(m)) \/ Pauses \/ Rests)
<1>1. run \in Runs /\ runs \in 0..MaxRuns /\ (run.pc # "off" => run.key \in OwnKeys)
  BY Zenon DEF EnrollInv, CliInv, CliTypes
<1>2. UNCHANGED <<srv, mode>>
  BY Zenon DEF StartRun, Client, Proceeds, Kill, Ask, AskAgain, Transmit, Receive, Fails
<1>3. CASE Ask
  <2>1. PICK t \in NewTid, mt \in {"17", "19"} :
          /\ tid' = t
          /\ spent' = IF mode = "random" THEN spent \cup {t} ELSE spent
          /\ Transmit([mt |-> mt, tid |-> t, key |-> run.key, run |-> runs],
                      [run EXCEPT !.pc = "sent"])
    BY Zenon, <1>3 DEF Ask
  <2>2. run.pc = "ask" /\ run.key \in OwnKeys
    BY Zenon, <1>1, <1>3 DEF Ask
  <2>3. t \in Tids
    BY Zenon, <2>2, ScepEnrollAssumption DEF NewTid
  <2> DEFINE m == [mt |-> mt, tid |-> t, key |-> run.key, run |-> runs]
  <2>4. m \in Requests /\ m.key = run.key /\ m.tid = t /\ m.mt # "20"
    BY Zenon, <1>1, <2>2, <2>3 DEF Requests
  <2> HIDE DEF m
  <2>5. /\ wire' = wire \cup {m} /\ awaited' = m /\ UNCHANGED back
        /\ run' = [run EXCEPT !.pc = "sent"]
    BY Zenon, <2>1 DEF Transmit, m
  <2>6. run'.pc = "sent" /\ run'.key = run.key
    BY Zenon, <1>1, <2>5 DEF Runs
  <2>7. Sends(m)
    BY Zenon, <2>1, <2>2, <2>4, <2>5, <2>6 DEF Sends
  <2> QED BY Zenon, <1>2, <2>7
<1>4. CASE AskAgain
  <2>1. run.pc = "sleep" /\ run.key \in OwnKeys /\ tid \in Tids /\ UNCHANGED <<tid, spent>>
    BY Zenon, <1>1, <1>4 DEF AskAgain, EnrollInv, NetInv
  <2> DEFINE m == [mt |-> "20", tid |-> tid, key |-> run.key, run |-> runs]
  <2>2. m \in Requests /\ m.key = run.key /\ m.tid = tid
    BY Zenon, <1>1, <2>1 DEF Requests
  <2> HIDE DEF m
  <2>3. /\ wire' = wire \cup {m} /\ awaited' = m /\ UNCHANGED back
        /\ run' = [run EXCEPT !.pc = "sent", !.attempts = @ + 1]
    BY Zenon, <1>4 DEF AskAgain, Transmit, m
  <2>4. run'.pc = "sent" /\ run'.key = run.key
    BY Zenon, <1>1, <2>3 DEF Runs
  <2>5. Sends(m)
    BY Zenon, <2>1, <2>2, <2>3, <2>4 DEF Sends
  <2> QED BY Zenon, <1>2, <2>5
<1>5. CASE Receive /\ PollsOn /\ Goto("sleep") /\ UNCHANGED tid
  <2>1. run'.pc = "sleep" /\ run'.key = run.key
    BY Zenon, <1>1, <1>5 DEF Goto, Runs
  <2>2. Pauses
    BY Zenon, <1>5, <2>1 DEF Pauses, Receive, PollsOn
  <2> QED BY Zenon, <1>2, <2>2
<1>6. CASE UNCHANGED <<wire, spent>> /\ (StartRun \/ Fails \/ Kill)
  <2>1. run'.pc \notin {"sent", "sleep"}
    BY Zenon, <1>6 DEF StartRun, StartReenroll, StartEnroll, Fails, Kill, GiveUp, Killed, Exit, Off
  <2> QED BY Zenon, <1>2, <1>6, <2>1 DEF Rests
<1>7. CASE UNCHANGED <<wire, spent>> /\ (GiveUp \/ \E c : Obtain(c))
  <2>1. run'.pc \notin {"sent", "sleep"}
    BY Zenon, <1>1, <1>7 DEF GiveUp, Exit, Off, Obtain, Runs
  <2> QED BY Zenon, <1>2, <1>7, <2>1 DEF Rests
<1>8. CASE Save /\ UNCHANGED net
  <2>1. ASSUME NEW f \in {"cert", "key"}, NEW wrc, Proceed(f, wrc)
        PROVE  run'.pc \notin {"sent", "sleep"}
    BY Zenon, <1>1, <2>1 DEF Proceed, Exit, Off, Runs
  <2>2. ASSUME NEW f \in {"cert", "key"}, Truncate(f) PROVE run'.pc \notin {"sent", "sleep"}
    BY <1>1, <2>2 DEF Truncate, Goto, Opened, Runs
  <2>3. run'.pc \notin {"sent", "sleep"}
    BY Zenon, <1>8, <2>1, <2>2 DEF Save, KeyNotExported, Fill, CannotOpen
  <2> QED BY Zenon, <1>2, <1>8, <2>3 DEF Rests, net
<1>9. CASE Receive
  BY Zenon, <1>5, <1>7, <1>9 DEF Receive
<1>10. StartRun \/ Fails \/ Kill => UNCHANGED <<wire, spent>>
  BY Zenon DEF StartRun, Fails, Kill, net
<1> QED BY Zenon, <1>3, <1>4, <1>6, <1>8, <1>9, <1>10 DEF Client, Proceeds

(* With random transactionIDs.                                             *)
LEMMA DrawnKeeps ==
  ASSUME EnrollInv, DrawnInv, mode = "random", [ScepEnrollNext]_scep
  PROVE  DrawnInv'
<1>1. /\ EnrollInv' /\ TypeInv /\ wire \subseteq Requests /\ Nothing \notin wire
      /\ run.pc # "sent" => awaited = Nothing /\ back = Nothing
      /\ run'.pc # "sent" => awaited' = Nothing /\ back' = Nothing
      /\ Waiting => run.key \in OwnKeys
  BY Zenon, EnrollNextKeeps, ScepEnrollAssumption
  DEF EnrollInv, ServerInv, NetInv, CliInv, CliTypes, Waiting
<1>2. CASE StartRun \/ Client \/ Kill
  <2>1. UNCHANGED pending /\ ((\E m : Sends(m)) \/ Pauses \/ Rests)
    BY Zenon, <1>2, ClientShape DEF srv
  <2>2. CASE Rests
    BY Zenon, <1>1, <2>2 DEF Rests, DrawnInv, Waiting, PollAhead
  <2>3. CASE Pauses
    <3>1. EntryParked'
      BY Zenon, <2>1, <2>3 DEF Pauses, DrawnInv, EntryParked, OwnEntry, OwnCsr
    <3>2. tid' \in spent' /\ \A m \in wire' : m.tid # tid'
      BY Zenon, <2>3 DEF Pauses, DrawnInv, Waiting
    <3> QED BY Zenon, <1>1, <2>3, <3>1, <3>2 DEF Pauses, DrawnInv
  <2>4. ASSUME NEW m, Sends(m) PROVE DrawnInv'
    <3>1. /\ m \in Requests /\ m.key = run.key /\ m.tid = tid' /\ wire' = wire \cup {m}
          /\ awaited' = m /\ UNCHANGED back /\ run'.pc = "sent" /\ run'.key = run.key
          /\ back' = Nothing
      BY Zenon, <1>1, <2>4 DEF Sends
    <3>2. \A x \in wire : x.tid \in spent /\ x.tid # tid'
      <4>1. CASE tid' \in NewTid
        <5>1. tid' \notin spent
          BY Zenon, <4>1 DEF NewTid
        <5> QED BY Zenon, <5>1 DEF DrawnInv
      <4>2. CASE run.pc = "sleep" /\ UNCHANGED tid
        BY Zenon, <1>1, <4>2 DEF DrawnInv, Waiting
      <4> QED BY Zenon, <2>4, <4>1, <4>2 DEF Sends
    <3>3. tid' \in spent' /\ spent \subseteq spent'
      BY Zenon, <2>4 DEF Sends, DrawnInv, Waiting
    <3>4. m.mt = "20" => EntryParked'
      <4>1. ASSUME m.mt = "20" PROVE run.pc = "sleep" /\ UNCHANGED tid
        BY Zenon, <2>4, <4>1 DEF Sends
      <4> QED BY Zenon, <2>1, <3>1, <4>1 DEF DrawnInv, PollAhead, EntryParked, OwnEntry, OwnCsr
    <3> QED BY Zenon, <3>1, <3>2, <3>3, <3>4 DEF DrawnInv, PollAhead
  <2> QED BY Zenon, <2>1, <2>2, <2>3, <2>4
<1>3. ASSUME UNCHANGED <<cli, net>>, EntryParked /\ Waiting => EntryParked' PROVE DrawnInv'
  <2>1. UNCHANGED <<run, tid, wire, awaited, back, spent>>
    BY Zenon, <1>3 DEF cli, net
  <2>2. PollAhead \/ (back # Nothing /\ back.st = "3") => Waiting
    BY Zenon, <1>1 DEF PollAhead, Waiting
  <2>3. (PollAhead \/ (back # Nothing /\ back.st = "3"))' => EntryParked'
    BY Zenon, <1>3, <2>1, <2>2 DEF DrawnInv, PollAhead
  <2> QED BY Zenon, <2>1, <2>3 DEF DrawnInv, Waiting
<1>4. CASE Others
  <2>1. UNCHANGED <<cli, net>> /\ UNCHANGED <<tid, run>>
    BY Zenon, <1>4 DEF Others, cli, net
  <2>2. ASSUME EntryParked, Waiting PROVE EntryParked'
    <3> DEFINE e == OwnEntry(tid, run.key)
    <3>1. Kept(e, pending) /\ e.signer \in OwnKeys
      BY Zenon, <1>1, <2>2 DEF EntryParked, OwnEntry
    <3>2. \/ UNCHANGED pending
          \/ \E x \in Entries : Grown(x)
          \/ \E i \in 1..Len(pending) : Shrunk(i) /\ pending[i].signer \notin OwnKeys
      BY Zenon, <1>4, OthersAreForeign
      DEF ForeignStep, Silent, Parked, Dropped, Released, Granted, Grown, Shrunk
    <3> HIDE DEF e
    <3>3. Kept(e, pending')
      BY Zenon, <1>1, <3>1, <3>2, EntryStays
    <3> QED BY Zenon, <2>1, <3>3 DEF e, EntryParked, OwnEntry, OwnCsr
  <2> QED BY Zenon, <1>3, <2>1, <2>2
<1>5. CASE UNCHANGED scep
  BY Zenon, <1>3, <1>5 DEF scep, srv, cli, net, EntryParked, OwnEntry, OwnCsr
<1>6. ASSUME NEW m \in wire, Deliver(m) PROVE DrawnInv'
  <2>1. /\ wire' = wire \ {m} /\ back' = IF m = awaited THEN reply' ELSE back
        /\ UNCHANGED <<run, tid, awaited, spent>> /\ m # Nothing
    BY Zenon, <1>1, <1>6 DEF Deliver, cli
  <2>2. CASE m = awaited
    <3>1. run.pc = "sent" /\ m.tid = tid /\ m.key = run.key
      BY Zenon, <1>1, <2>1, <2>2 DEF DrawnInv
    <3>2. reply'.st = "3" => EntryParked'
      BY Zenon, <1>6, <2>1, <3>1, DeliverPending DEF EntryParked, OwnEntry, OwnCsr
    <3>3. ~PollAhead'
      BY Zenon, <2>1, <2>2, <3>1 DEF PollAhead
    <3> QED BY Zenon, <2>1, <2>2, <3>2, <3>3 DEF DrawnInv, Waiting
  <2>3. CASE m # awaited
    <3>1. ASSUME EntryParked, Waiting PROVE EntryParked'
      <4> DEFINE e == OwnEntry(tid, run.key)
      <4>1. Kept(e, pending) /\ e.tid # m.tid
        BY Zenon, <2>3, <3>1 DEF EntryParked, OwnEntry, DrawnInv
      <4>2. \/ UNCHANGED pending
            \/ \E x \in Entries : Grown(x)
            \/ \E i \in 1..Len(pending) : Shrunk(i) /\ pending[i].tid = m.tid
        BY Zenon, <1>6, DeliverQueue
      <4> HIDE DEF e
      <4>3. Kept(e, pending')
        BY Zenon, <1>1, <4>1, <4>2, EntryStays
      <4> QED BY Zenon, <2>1, <4>3 DEF e, EntryParked, OwnEntry, OwnCsr
    <3>2. PollAhead \/ (back # Nothing /\ back.st = "3") => Waiting
      BY Zenon, <1>1 DEF PollAhead, Waiting
    <3>3. PollAhead' => PollAhead
      BY Zenon, <2>1 DEF PollAhead
    <3> QED BY Zenon, <2>1, <2>3, <3>1, <3>2, <3>3 DEF DrawnInv, Waiting
  <2> QED BY Zenon, <2>2, <2>3
<1> QED BY Zenon, <1>2, <1>4, <1>5, <1>6 DEF ScepEnrollNext

(* What another client puts in the queue is not under the client's keys.   *)
LEMMA OthersQueue ==
  ASSUME Others
  PROVE  \/ UNCHANGED pending
         \/ \E x \in Entries : x.signer \notin OwnKeys /\ Grown(x)
         \/ \E i \in 1..Len(pending) : Shrunk(i)
  BY Zenon, OthersAreForeign DEF ForeignStep, Silent, Parked, Dropped, Released, Granted, Grown, Shrunk

(* With transactionIDs derived from the key.                               *)
LEMMA DerivedKeeps ==
  ASSUME EnrollInv, DerivedInv, mode = "pubkey", [ScepEnrollNext]_scep
  PROVE  DerivedInv'
<1>1. TypeInv /\ QueueOf(DerivedEntries) /\ wire \subseteq Requests
  BY Zenon DEF EnrollInv, ServerInv, NetInv, DerivedInv
<1>2. CASE StartRun \/ Client \/ Kill
  <2>1. UNCHANGED pending /\ ((\E m : Sends(m)) \/ Pauses \/ Rests)
    BY Zenon, <1>2, ClientShape DEF srv
  <2>2. QueueOf(DerivedEntries)'
    BY Zenon, <1>1, <2>1, QueueStays
  <2>3. CASE Rests \/ Pauses
    BY Zenon, <2>2, <2>3 DEF Rests, Pauses, DerivedInv, Waiting
  <2>4. ASSUME NEW m, Sends(m) PROVE DerivedInv'
    <3>1. tid' = KeyTid[run.key]
      BY Zenon, <2>4 DEF Sends, NewTid, DerivedInv, Waiting
    <3> QED BY Zenon, <2>2, <2>4, <3>1 DEF Sends, DerivedInv
  <2> QED BY Zenon, <2>1, <2>3, <2>4
<1>3. CASE Others
  <2>1. UNCHANGED <<run, tid, wire>>
    BY Zenon, <1>3 DEF Others, cli, net
  <2>2. \A x \in Entries : x.signer \notin OwnKeys => x \in DerivedEntries
    BY Zenon DEF DerivedEntries
  <2>3. QueueOf(DerivedEntries)'
    BY Zenon, <1>1, <1>3, <2>2, OthersQueue, QueueStays
  <2> QED BY Zenon, <2>1, <2>3 DEF DerivedInv, Waiting
<1>4. CASE UNCHANGED scep
  <2>1. UNCHANGED <<run, tid, wire, pending>>
    BY Zenon, <1>4 DEF scep, srv, cli, net
  <2> QED BY Zenon, <2>1 DEF DerivedInv, Waiting, QueueOf
<1>5. ASSUME NEW m \in wire, Deliver(m) PROVE DerivedInv'
  <2>1. wire' = wire \ {m} /\ UNCHANGED <<run, tid>>
    BY Zenon, <1>5 DEF Deliver, cli
  <2>2. OwnEntry(m.tid, m.key) \in Entries => OwnEntry(m.tid, m.key) \in DerivedEntries
    BY Zenon DEF DerivedInv, DerivedEntries, OwnEntry
  <2>3. QueueOf(DerivedEntries)'
    BY Zenon, <1>1, <1>5, <2>2, DeliverQueue, QueueStays
  <2> QED BY Zenon, <2>1, <2>3 DEF DerivedInv, Waiting
<1> QED BY Zenon, <1>2, <1>3, <1>4, <1>5 DEF ScepEnrollNext

(* Where the client is never run.                                          *)
LEMMA IdleKeeps ==
  ASSUME EnrollInv, mode = "none", run.pc = "off", wire = {}, QueueOf(ForeignEntries),
         [ScepEnrollNext]_scep
  PROVE  (run.pc = "off" /\ wire = {} /\ QueueOf(ForeignEntries))'
<1>1. TypeInv
  BY Zenon DEF EnrollInv, ServerInv
<1>2. CASE Others
  <2>1. UNCHANGED <<run, wire>>
    BY Zenon, <1>2 DEF Others, cli, net
  <2>2. \A x \in Entries : x.signer \notin OwnKeys => x \in ForeignEntries
    BY Zenon DEF ForeignEntries
  <2>3. QueueOf(ForeignEntries)'
    BY Zenon, <1>1, <1>2, <2>2, OthersQueue, QueueStays
  <2> QED BY Zenon, <2>1, <2>3
<1>3. CASE UNCHANGED scep
  BY Zenon, <1>3 DEF scep, srv, cli, net, QueueOf
<1>4. ~(StartRun \/ Client \/ Kill)
  <2>1. ASSUME NEW f \in {"cert", "key"} PROVE f # "off" /\ Opened[f] # "off"
    BY DEF Opened
  <2>2. ~Save
    BY Zenon, <2>1 DEF Save, KeyNotExported, Truncate, Fill, CannotOpen
  <2> QED BY Zenon, <2>2 DEF StartRun, Client, Proceeds, Ask, AskAgain, Receive, Fails, Kill, Killed, Saving
<1> QED BY Zenon, <1>2, <1>3, <1>4 DEF ScepEnrollNext

(* TidInv is inductive together with EnrollInv.                            *)
LEMMA TidNextKeeps ==
  ASSUME EnrollInv, TidInv, [ScepEnrollNext]_scep
  PROVE  TidInv'
<1>1. UNCHANGED mode
  BY Zenon DEF ScepEnrollNext, StartRun, Client, Proceeds, Ask, AskAgain, Transmit, Receive, Fails, Kill, Others,
         Deliver, scep
<1>2. mode = "random" => DrawnInv'
  BY Zenon, DrawnKeeps DEF TidInv
<1>3. mode = "pubkey" => DerivedInv'
  BY Zenon, DerivedKeeps DEF TidInv
<1>4. mode = "none" => (run.pc = "off" /\ wire = {} /\ QueueOf(ForeignEntries))'
  BY Zenon, IdleKeeps DEF TidInv
<1> QED BY Zenon, <1>1, <1>2, <1>3, <1>4 DEF TidInv

(* ParkedForPoll for all constants: between PENDING and the arrival of its *)
(* poll a run with a random transactionID has its request in the queue,    *)
(* and with derived ones no key of the client is in it twice.              *)
THEOREM ParkedForPollHolds == ScepEnrollSpec => []ParkedForPoll
<1> DEFINE Inv == EnrollInv /\ TidInv /\ mode \in {"random", "pubkey", "none"}
<1>1. ScepEnrollInit => TidInv /\ mode \in {"random", "pubkey", "none"}
  <2> SUFFICES ASSUME ScepEnrollInit
               PROVE  TidInv /\ mode \in {"random", "pubkey", "none"}
    OBVIOUS
  <2>1. /\ Len(pending) = 0 /\ run.pc = "off" /\ wire = {} /\ awaited = Nothing
        /\ back = Nothing /\ mode \in {"random", "pubkey", "none"}
    BY Zenon, ScepEnrollAssumption DEF ScepEnrollInit, ServerInit, CliInit, Off
  <2>2. QueueOf(DerivedEntries) /\ QueueOf(ForeignEntries)
    BY <2>1 DEF QueueOf
  <2> QED BY Zenon, <2>1, <2>2 DEF TidInv, DrawnInv, DerivedInv, Waiting, PollAhead
<1>2. Inv /\ [ScepEnrollNext]_scep => (TidInv /\ mode \in {"random", "pubkey", "none"})'
  <2>1. ScepEnrollNext => UNCHANGED mode
    BY Zenon DEF ScepEnrollNext, StartRun, Client, Proceeds, Ask, AskAgain, Transmit, Receive, Fails, Kill,
           Others, Deliver
  <2> QED BY Zenon, <2>1, TidNextKeeps DEF scep
<1>3. Inv => ParkedForPoll
  <2> SUFFICES ASSUME Inv PROVE ParkedForPoll
    OBVIOUS
  <2>1. pending \in Seq(Entries) /\ OneEntryPerTransaction
    BY Zenon DEF EnrollInv, ServerInv, TypeInv
  <2>2. CASE mode = "random"
    <3>1. ASSUME PollAhead
          PROVE  \E i \in Slot(tid) :
                   pending[i].signer = run.key /\ pending[i].csr = OwnCsr(run.key)
      <4>1. PICK i \in 1..Len(pending) : pending[i] = OwnEntry(tid, run.key)
        BY Zenon, <2>2, <3>1 DEF TidInv, DrawnInv, EntryParked, Kept
      <4>2. /\ i \in Slot(tid) /\ pending[i].signer = run.key
            /\ pending[i].csr = OwnCsr(run.key)
        BY <4>1 DEF Slot, OwnEntry
      <4> QED BY Zenon, <4>2
    <3> QED BY Zenon, <2>2, <3>1 DEF ParkedForPoll
  <2>3. CASE mode = "pubkey"
    <3>1. ASSUME NEW i \in 1..Len(pending), NEW j \in 1..Len(pending),
                 pending[i].signer = pending[j].signer, pending[i].signer \in OwnKeys
          PROVE  i = j
      <4>1. pending[i].tid = pending[j].tid
        BY Zenon, <2>3, <3>1 DEF TidInv, DerivedInv, QueueOf, DerivedEntries
      <4> QED BY Zenon, <2>1, <4>1 DEF OneEntryPerTransaction
    <3> QED BY Zenon, <2>3, <3>1 DEF ParkedForPoll
  <2>4. CASE mode = "none"
    BY Zenon, <2>4 DEF TidInv, QueueOf, ForeignEntries, ParkedForPoll
  <2> QED BY Zenon, <2>2, <2>3, <2>4
<1> QED BY <1>1, <1>2, <1>3, EnrollInvHolds, PTL DEF ScepEnrollSpec
=============================================================================

------------------------------ MODULE EstProofs ------------------------------
(***************************************************************************)
(* Proofs about EST, for any clients, CSRs, configurations, output objects *)
(* and queue size.  The client session (EstSession) stays in step with the *)
(* HTTP session under it, and what a call returns agrees with the output   *)
(* it leaves.  The server, on its own (EstServer) and with the client and  *)
(* its connection (EstEnroll), issues once for what it parked once, and    *)
(* only to who was admitted.                                               *)
(***************************************************************************)
EXTENDS EstSession, EstEnroll, SequenceTheorems, FiniteSetTheorems, TLAPS

Outputs == [status : {"UNSET", "PENDING", "FAILURE", "SUCCESS"},
            data : BOOLEAN, retry : BOOLEAN]

EstTypes ==
  /\ inActive \in BOOLEAN /\ inMsg \in BOOLEAN /\ cred \in BOOLEAN
  /\ inOp \in Ops /\ lastOp \in Ops /\ out \in [Outs -> Outputs]
  /\ inOut \in Outs \cup {NoOut} /\ lastOut \in Outs \cup {NoOut}

(* A call runs only while a request is in flight, and the output of that   *)
(* request stays cleared until it is finished: neither a call that names   *)
(* the same object nor one for another object changes it.                  *)
InFlight ==
  /\ call # "none" => phase = "busy"
  /\ inActive => inOut \in Outs /\ out[inOut] = Cleared

(* VerdictConsistent, one output at a time and for the newest call.        *)
OutputOK(r) ==
  /\ r.status = "SUCCESS" => r.data
  /\ r.retry => r.status = "PENDING"
  /\ r.data => r.status \in {"SUCCESS", "UNSET"}

CallOK(op, rc, r) ==
  IF op \in EnrollOps
  THEN /\ rc = "OK" <=> r.status \in {"SUCCESS", "PENDING"}
       /\ r.data => r.status = "SUCCESS"
  ELSE /\ r.status = "UNSET"
       /\ r.data => rc = "OK"

SessionInv == EstTypes /\ InFlight /\ InStep /\ VerdictConsistent
-----------------------------------------------------------------------------
(* VerdictConsistent is what OutputOK and CallOK say.                      *)
LEMMA VerdictParts ==
  VerdictConsistent <=>
    /\ \A o \in Outs : OutputOK(out[o])
    /\ call = "none" /\ lastOut # NoOut => CallOK(lastOp, sret, out[lastOut])
BY DEF VerdictConsistent, OutputOK, CallOK

(* A cleared output goes with any error code.                              *)
LEMMA ClearedOK ==
  /\ Cleared \in Outputs /\ OutputOK(Cleared)
  /\ \A op \in Ops : \A rc : rc # "OK" => CallOK(op, rc, Cleared)
BY DEF Cleared, Outputs, OutputOK, CallOK

(* The outputs est_finish makes of a cleared one.                          *)
LEMMA Filled ==
  ASSUME NEW r, NEW st \in {"FAILURE", "SUCCESS", "UNSET"}
  PROVE  /\ r = [Cleared EXCEPT !.status = "PENDING", !.retry = TRUE] =>
              r = [status |-> "PENDING", data |-> FALSE, retry |-> TRUE]
         /\ r = [Cleared EXCEPT !.status = st] =>
              r = [status |-> st, data |-> FALSE, retry |-> FALSE]
         /\ r = [Cleared EXCEPT !.data = TRUE, !.status = st] =>
              r = [status |-> st, data |-> TRUE, retry |-> FALSE]
BY DEF Cleared

(* est_finish: the verdict on any response goes with the output it fills.  *)
LEMMA VerdictOK ==
  ASSUME NEW op \in Ops, NEW code \in StatusCodes, NEW body \in BodyKinds
  PROVE  LET v == Verdict(op, code, body)
         IN  v.res \in Outputs /\ OutputOK(v.res) /\ CallOK(op, v.rc, v.res)
<1> DEFINE rc == Verdict(op, code, body).rc
           r == Verdict(op, code, body).res
<1>1. \/ /\ op \in EnrollOps /\ rc = "OK"
         /\ r \in {[status |-> "PENDING", data |-> FALSE, retry |-> TRUE],
                   [status |-> "SUCCESS", data |-> TRUE, retry |-> FALSE]}
      \/ /\ op \in EnrollOps /\ rc # "OK"
         /\ r = [status |-> "FAILURE", data |-> FALSE, retry |-> FALSE]
      \/ rc # "OK" /\ r = Cleared
      \/ /\ op \notin EnrollOps /\ rc = "OK"
         /\ r \in {Cleared, [status |-> "UNSET", data |-> TRUE, retry |-> FALSE]}
  <2>1. CASE IsPending(op, code)
    BY <2>1, Filled DEF Verdict, IsPending
  <2>2. CASE ~IsPending(op, code) /\ op = "GET_CSRATTRS" /\ NoAttributes(code, body)
    BY <2>2 DEF Verdict, EnrollOps
  <2>3. CASE /\ ~IsPending(op, code) /\ ~(op = "GET_CSRATTRS" /\ NoAttributes(code, body))
             /\ code # 200
    <3>1. /\ rc \in {"AUTH", "HTTP"}
          /\ r = IF op \in EnrollOps THEN [Cleared EXCEPT !.status = "FAILURE"] ELSE Cleared
      BY <2>3 DEF Verdict
    <3> QED BY <3>1, Filled
  <2>4. CASE /\ ~IsPending(op, code) /\ ~(op = "GET_CSRATTRS" /\ NoAttributes(code, body))
             /\ code = 200
    BY <2>4, Filled DEF Verdict
  <2> QED BY <2>1, <2>2, <2>3, <2>4
<1> HIDE DEF rc, r
<1>2. \/ r = [status |-> "PENDING", data |-> FALSE, retry |-> TRUE]
      \/ r = [status |-> "SUCCESS", data |-> TRUE, retry |-> FALSE]
      \/ r = [status |-> "FAILURE", data |-> FALSE, retry |-> FALSE]
      \/ r = [status |-> "UNSET", data |-> TRUE, retry |-> FALSE]
      \/ r = [status |-> "UNSET", data |-> FALSE, retry |-> FALSE]
  BY <1>1 DEF Cleared
<1>3. r \in Outputs /\ OutputOK(r)
  <2>1. r \in Outputs
    <3>1. \A st \in {"UNSET", "PENDING", "FAILURE", "SUCCESS"}, d \in BOOLEAN, t \in BOOLEAN :
            [status |-> st, data |-> d, retry |-> t] \in Outputs
      BY DEF Outputs
    <3> QED BY <1>2, <3>1
  <2>2. OutputOK(r)
    BY <1>2 DEF OutputOK
  <2> QED BY <2>1, <2>2
<1>4. CallOK(op, rc, r)
  BY <1>1 DEF Cleared, CallOK
<1> QED BY <1>3, <1>4 DEF rc, r

(* est_call_clear leaves outputs in order, and the one it was given cleared*)
(* (the one in flight already is).                                         *)
LEMMA ClearOK ==
  ASSUME SessionInv, NEW o \in Outs, Clear(o)
  PROVE  /\ out' \in [Outs -> Outputs] /\ out'[o] = Cleared
         /\ \A p \in Outs : OutputOK(out'[p])
         /\ inActive => out'[inOut] = Cleared
<1>1. /\ out \in [Outs -> Outputs] /\ \A p \in Outs : OutputOK(out[p])
      /\ inActive => inOut \in Outs /\ out[inOut] = Cleared
  BY VerdictParts DEF SessionInv, EstTypes, InFlight
<1>2. CASE inActive /\ o = inOut
  BY <1>1, <1>2 DEF Clear
<1>3. CASE ~(inActive /\ o = inOut)
  <2>1. out' = [out EXCEPT ![o] = Cleared]
    BY <1>3 DEF Clear
  <2> QED BY <1>1, <2>1, ClearedOK
<1> QED BY <1>2, <1>3
-----------------------------------------------------------------------------
(* Before the session is opened.                                           *)
LEMMA SessionStarts == EstInit => SessionInv
<1> SUFFICES ASSUME EstInit PROVE SessionInv
  OBVIOUS
<1>1. EstTypes
  BY ClearedOK DEF EstInit, EstTypes, Ops
<1>2. InFlight /\ InStep
  BY DEF EstInit, CInit, InFlight, InStep
<1>3. VerdictConsistent
  BY VerdictParts, ClearedOK DEF EstInit
<1> QED BY <1>1, <1>2, <1>3 DEF SessionInv

(* A call that has returned without finishing a request: refused, or not   *)
(* sent.                                                                   *)
LEMMA RefusedKeepsInv ==
  ASSUME SessionInv, NEW op \in Ops, NEW o \in Outs, Clear(o),
         sret' # "OK", lastOut' = o, lastOp' = op, phase' = phase, call' = "none",
         cred' = cred,
         \/ UNCHANGED inflight
         \/ ~inActive /\ Reset
  PROVE  SessionInv'
<1>1. /\ out' \in [Outs -> Outputs] /\ out'[o] = Cleared
      /\ \A p \in Outs : OutputOK(out'[p])
      /\ inActive => out'[inOut] = Cleared
  BY ClearOK
<1>2. EstTypes'
  BY <1>1 DEF SessionInv, EstTypes, inflight, Reset
<1>3. InFlight' /\ InStep'
  BY <1>1 DEF SessionInv, InFlight, InStep, EstTypes, inflight, Reset
<1>4. CallOK(op, sret', out'[o])
  BY <1>1, ClearedOK
<1>5. VerdictConsistent'
  BY <1>1, <1>4 DEF VerdictConsistent, OutputOK, CallOK
<1> QED BY <1>2, <1>3, <1>5 DEF SessionInv

(* A call that ends the request in flight with output r and code rc.       *)
LEMMA FinishedKeepsInv ==
  ASSUME SessionInv, call # "none", NEW r \in Outputs, OutputOK(r), CallOK(inOp, sret', r),
         out' = [out EXCEPT ![inOut] = r], Reset, lastOut' = inOut, lastOp' = inOp,
         phase' \in {"ready", "dead"}, call' = "none", cred' = cred
  PROVE  SessionInv'
<1>1. /\ out \in [Outs -> Outputs] /\ \A p \in Outs : OutputOK(out[p])
      /\ inOut \in Outs /\ phase = "busy"
  BY VerdictParts DEF SessionInv, EstTypes, InFlight, InStep
<1>2. out' \in [Outs -> Outputs] /\ out'[inOut] = r /\ \A p \in Outs : OutputOK(out'[p])
  BY <1>1
<1>3. EstTypes'
  BY <1>2 DEF SessionInv, EstTypes, Reset
<1>4. InFlight' /\ InStep'
  BY <1>1 DEF SessionInv, InFlight, InStep, EstTypes, Reset
<1>5. VerdictConsistent'
  BY <1>2 DEF VerdictConsistent, OutputOK, CallOK
<1> QED BY <1>3, <1>4, <1>5 DEF SessionInv

(* Every step of the session keeps the invariant.                          *)
LEMMA SessionSteps == SessionInv /\ [EstNext]_evars => SessionInv'
<1> SUFFICES ASSUME SessionInv, [EstNext]_evars PROVE SessionInv'
  OBVIOUS
<1>1. CASE Open
  <2>1. EstTypes' /\ InFlight' /\ InStep'
    BY <1>1 DEF SessionInv, EstTypes, InFlight, InStep, Open, COpen, inflight
  <2>2. VerdictConsistent'
    BY <1>1 DEF SessionInv, VerdictConsistent, Open, COpen
  <2> QED BY <2>1, <2>2 DEF SessionInv
<1>2. CASE OpenFails \/ Close
  <2>1. EstTypes' /\ InFlight' /\ InStep'
    BY <1>2 DEF SessionInv, EstTypes, InFlight, InStep, OpenFails, Close, CClose, Reset, cvars
  <2>2. VerdictConsistent'
    BY <1>2 DEF SessionInv, VerdictConsistent, OpenFails, Close, CClose, cvars
  <2> QED BY <2>1, <2>2 DEF SessionInv
<1>3. CASE Want
  <2>1. inOut \in Outs /\ out[inOut] = Cleared /\ inOp \in Ops
    BY <1>3 DEF SessionInv, InFlight, InStep, EstTypes, Want, CWant
  <2>2. EstTypes' /\ InFlight' /\ InStep'
    BY <1>3, <2>1 DEF SessionInv, EstTypes, InFlight, InStep, Want, CWant, inflight
  <2>3. CallOK(lastOp', sret', out'[lastOut'])
    BY <1>3, <2>1, ClearedOK DEF Want
  <2>4. VerdictConsistent'
    BY <1>3, <2>3 DEF SessionInv, VerdictConsistent, CallOK, Want
  <2> QED BY <2>2, <2>4 DEF SessionInv
<1>4. CASE SendFails
  <2>1. inOut \in Outs /\ out[inOut] = Cleared /\ inOp \in Ops /\ sret' # "OK"
    BY <1>4 DEF SessionInv, InFlight, InStep, EstTypes, SendFails, CFail, Errors
  <2>2. out' = [out EXCEPT ![inOut] = Cleared]
    BY <1>4, <2>1 DEF SessionInv, EstTypes, SendFails
  <2> QED BY <1>4, <2>1, <2>2, ClearedOK, FinishedKeepsInv DEF SendFails, CFail
<1>5. ASSUME NEW code \in StatusCodes, NEW body \in BodyKinds, Finish(code, body)
      PROVE  SessionInv'
  <2>1. inOp \in Ops
    BY DEF SessionInv, EstTypes
  <2> QED BY <1>5, <2>1, VerdictOK, FinishedKeepsInv DEF Finish, CComplete
<1>6. ASSUME NEW op \in Ops, NEW o \in Outs, NotSent(op, o)
      PROVE  SessionInv'
  <2>1. phase' = phase /\ call' = "none" /\ sret' # "OK"
    BY <1>6 DEF NotSent, CBeginRefused, CRefuse, cvars
  <2> QED BY <1>6, <2>1, RefusedKeepsInv DEF NotSent, MayBegin
<1>7. ASSUME NEW op \in Ops, NEW o \in Outs, NEW enc, Resume(op, o, enc)
      PROVE  SessionInv'
  <2>1. EstTypes' /\ InFlight' /\ InStep'
    BY <1>7 DEF SessionInv, EstTypes, InFlight, InStep, Resume, CResume, inflight
  <2>2. VerdictConsistent'
    BY <1>7 DEF SessionInv, VerdictConsistent, Resume, CResume
  <2> QED BY <2>1, <2>2 DEF SessionInv
<1>8. ASSUME NEW op \in Ops, NEW o \in Outs, NEW enc, NEW nb, Refuse(op, o, enc, nb)
      PROVE  SessionInv'
  BY <1>8, RefusedKeepsInv DEF Refuse, cvars
<1>9. ASSUME NEW op \in Ops, NEW o \in Outs, NEW enc, NEW nb, Begin(op, o, enc, nb)
      PROVE  SessionInv'
  <2>1. /\ out' \in [Outs -> Outputs] /\ out'[o] = Cleared
        /\ \A p \in Outs : OutputOK(out'[p])
    BY <1>9, ClearOK DEF Begin
  <2>2. EstTypes' /\ InFlight' /\ InStep'
    BY <1>9, <2>1 DEF SessionInv, EstTypes, InFlight, InStep, Begin, CBegin
  <2>3. call' # "none"
    BY <1>9 DEF Begin, CBegin
  <2>4. VerdictConsistent'
    BY <2>1, <2>3 DEF VerdictConsistent, OutputOK
  <2> QED BY <2>2, <2>4 DEF SessionInv
<1>10. CASE UNCHANGED evars
  <2>1. EstTypes' /\ InFlight' /\ InStep'
    BY <1>10 DEF SessionInv, EstTypes, InFlight, InStep, evars, cvars, inflight
  <2>2. VerdictConsistent'
    BY <1>10 DEF SessionInv, VerdictConsistent, evars, cvars
  <2> QED BY <2>1, <2>2 DEF SessionInv
<1> QED BY <1>1, <1>2, <1>3, <1>4, <1>5, <1>6, <1>7, <1>8, <1>9, <1>10 DEF EstNext
-----------------------------------------------------------------------------
(* Every reachable state satisfies the inductive invariant.                *)
THEOREM SessionInvHolds == EstSpec => []SessionInv
BY SessionStarts, SessionSteps, PTL DEF EstSpec

(* est_session_reset runs on every path that ends a request: the session   *)
(* and the HTTP session under it never disagree on whether one is in       *)
(* flight, and nothing of a request outlives it.                           *)
THEOREM InStepHolds == EstSpec => []InStep
<1>1. SessionInv => InStep
  BY DEF SessionInv
<1> QED BY <1>1, SessionInvHolds, PTL

(* est_finish and every early return before it: what a call returns and    *)
(* the output it leaves agree, whatever calls were refused in between.     *)
THEOREM VerdictConsistentHolds == EstSpec => []VerdictConsistent
<1>1. SessionInv => VerdictConsistent
  BY DEF SessionInv
<1> QED BY <1>1, SessionInvHolds, PTL
-----------------------------------------------------------------------------
IsSeq(s) == \E S : s \in Seq(S)

(* The inductive invariant.  What the handshake has established of the     *)
(* connection is what IssuedToAdmitted needs at the gates.                 *)
ConnInv ==
  /\ Startable
  /\ open /\ tls /\ ClientCa /\ ~PostHandshake => peer # NoClient

TypeInv == IsSeq(pending) /\ IsSeq(certs) /\ parks \in Nat

EstInv == ConnInv /\ TypeInv /\ OnceParkedOnceIssued /\ IssuedToAdmitted

(* What a request may do to the queue and to the certificates.             *)
Kept == UNCHANGED <<pending, certs, parks>>

Parked(csr) ==
  /\ Slot(csr) = {} /\ HasRoom
  /\ pending' = Append(pending, csr) /\ parks' = parks + 1 /\ UNCHANGED certs


(* What a request, a connection or its end does to the server.             *)
Steps(path, auth, c, csr) ==
  \/ Refused(path, auth, c, csr)
  \/ Park(path, auth, c, csr)
  \/ EnrollNow(path, auth, c, csr)
-----------------------------------------------------------------------------
(* pending_remove takes out one entry: the last one moves into its place   *)
(* and all the others stay where they are.                                 *)
LEMMA WithoutOne ==
  ASSUME IsSeq(pending), NEW i \in 1..Len(pending)
  PROVE  /\ IsSeq(Without(i))
         /\ Len(Without(i)) = Len(pending) - 1
         /\ \A j \in 1..Len(pending) - 1 :
              Without(i)[j] = IF j = i THEN pending[Len(pending)] ELSE pending[j]
<1> PICK S : pending \in Seq(S)
  BY Zenon DEF IsSeq
<1> DEFINE moved == [pending EXCEPT ![i] = pending[Len(pending)]]
<1>1. Len(pending) \in Nat /\ pending[Len(pending)] \in S
  BY LenProperties, ElementOfSeq
<1>2. /\ moved \in Seq(S)
      /\ Len(moved) = Len(pending)
      /\ \A j \in 1..Len(pending) :
           moved[j] = IF j = i THEN pending[Len(pending)] ELSE pending[j]
  BY <1>1, ExceptSeq
<1>3. \A j \in 1..Len(pending) - 1 : moved[j] \in S
  BY <1>1, <1>2, ElementOfSeq
<1> HIDE DEF moved
<1>4. 1 \in Int /\ Len(pending) - 1 \in Int /\ 1 <= Len(pending)
  BY <1>1
<1>5. /\ SubSeq(moved, 1, Len(pending) - 1) \in Seq(S)
      /\ Len(SubSeq(moved, 1, Len(pending) - 1)) =
           IF 1 <= Len(pending) - 1 THEN Len(pending) - 1 - 1 + 1 ELSE 0
      /\ \A j \in 1..Len(pending) - 1 - 1 + 1 :
           SubSeq(moved, 1, Len(pending) - 1)[j] = moved[1 + j - 1]
  BY <1>3, <1>4, SubSeqProperties
<1>6. \A j \in 1..Len(pending) - 1 : j \in 1..Len(pending) - 1 - 1 + 1 /\ 1 + j - 1 = j
  BY <1>1
<1>7. ASSUME NEW n \in Nat, 1 <= n
      PROVE  (IF 1 <= n - 1 THEN n - 1 - 1 + 1 ELSE 0) = n - 1
  BY <1>7
<1>8. \A j \in 1..Len(pending) - 1 : SubSeq(moved, 1, Len(pending) - 1)[j] = moved[j]
  BY Zenon, <1>5, <1>6
<1>9. /\ Without(i) = SubSeq(moved, 1, Len(pending) - 1)
      /\ IsSeq(Without(i))
  BY Zenon, <1>5 DEF Without, moved, IsSeq
<1> QED BY <1>1, <1>2, <1>4, <1>5, <1>7, <1>8, <1>9

(* Append adds one element at the end.                                     *)
LEMMA AppendOne ==
  ASSUME NEW s, NEW e, IsSeq(s)
  PROVE  /\ IsSeq(Append(s, e)) /\ Len(s) \in Nat
         /\ Len(Append(s, e)) = Len(s) + 1
         /\ \A j \in 1..Len(s) : Append(s, e)[j] = s[j]
         /\ Append(s, e)[Len(s) + 1] = e
<1> PICK S : s \in Seq(S)
  BY Zenon DEF IsSeq
<1> DEFINE T == S \cup {e}
<1>1. s \in Seq(T) /\ e \in T
  <2>1. Len(s) \in Nat /\ s \in [1..Len(s) -> S]
    BY Zenon, LenProperties
  <2>2. s \in [1..Len(s) -> T]
    BY Zenon, <2>1
  <2> QED BY <2>1, <2>2
<1> HIDE DEF T
<1>2. Append(s, e) \in Seq(T)
  BY Zenon, <1>1, AppendProperties
<1>3. IsSeq(Append(s, e))
  BY Zenon, <1>2 DEF IsSeq
<1> QED BY <1>1, <1>3, AppendProperties, LenProperties
-----------------------------------------------------------------------------
(* A request that passes the gates comes from a client the configuration   *)
(* admits: the start-up checks, the handshake and the gates leave no other *)
(* way.                                                                    *)
LEMMA GateAdmits ==
  ASSUME NEW path, NEW auth, NEW c, NEW csr, ConnInv, open, Gate(path, auth, c, csr) = 0
  PROVE  /\ ~BasicUser /\ ~AllowAnonymous => Authenticated(c) # NoClient
         /\ PostHandshake /\ tls => Authenticated(c) # NoClient
         /\ path = "simplereenroll" => Authenticated(c) = csr.subj /\ csr.san
<1>1. ~PhaFails(c) /\ ~Anonymous
  BY DEF Gate
<1>2. path = "simplereenroll" => IdentityFault(c, csr) = 0
  BY <1>1 DEF Gate
<1>3. PostHandshake /\ tls => Authenticated(c) # NoClient
  BY Zenon, <1>1 DEF PhaFails
<1>4. ASSUME ~BasicUser, ~AllowAnonymous PROVE Authenticated(c) # NoClient
  <2>1. tls /\ ClientCa
    BY Zenon, <1>1, <1>4 DEF Anonymous, ConnInv, Startable
  <2>2. CASE PostHandshake
    BY Zenon, <1>3, <2>1, <2>2
  <2>3. CASE ~PostHandshake
    BY Zenon, <2>1, <2>3 DEF ConnInv, Authenticated
  <2> QED BY Zenon, <2>2, <2>3
<1>5. path = "simplereenroll" => Authenticated(c) = csr.subj /\ csr.san
  BY <1>2 DEF IdentityFault
<1> QED BY Zenon, <1>3, <1>4, <1>5

(* An answer keeps what is known of the connection, or ends it.            *)
LEMMA AnswerKeepsConn ==
  ASSUME NEW code, NEW p, ConnInv, Answer(code, p), UNCHANGED cfg,
         \/ code \notin {200, 202, 204}
         \/ p = peer
         \/ \E c : p = Authenticated(c)
  PROVE  ConnInv'
<1>1. Startable'
  BY Zenon DEF ConnInv, Startable, BasicUser, ClientCa, AllowAnonymous, PostHandshake
<1>2. CASE Closed
  BY Zenon, <1>1, <1>2 DEF Closed, ConnInv
<1>3. CASE ~Closed
  <2>1. code \in {200, 202, 204} /\ peer' = p /\ UNCHANGED <<open, tls>>
    BY Zenon, <1>3 DEF Answer
  <2>2. ~PostHandshake => peer' = peer
    BY Zenon, <2>1 DEF Authenticated
  <2> QED BY Zenon, <1>1, <2>1, <2>2 DEF ConnInv, ClientCa, PostHandshake
<1> QED BY Zenon, <1>2, <1>3

(* A request keeps what is known of the connection.                        *)
LEMMA StepKeepsConn ==
  ASSUME NEW path, NEW auth, NEW c, NEW csr, ConnInv, Steps(path, auth, c, csr)
  PROVE  ConnInv'
<1>1. CASE Refused(path, auth, c, csr)
  <2>1. PICK code : code \notin {200, 202, 204} /\ Answer(code, c)
    BY <1>1 DEF Refused, Gate, IdentityFault
  <2> QED BY Zenon, <1>1, <2>1, AnswerKeepsConn DEF Refused
<1>2. CASE Park(path, auth, c, csr)
  <2>1. Answer(202, Authenticated(c)) \/ Answer(503, c)
    BY Zenon, <1>2 DEF Park
  <2> QED BY <1>2, <2>1, AnswerKeepsConn DEF Park
<1>3. CASE EnrollNow(path, auth, c, csr)
  <2>1. Answer(400, c) \/ \E code \in {200, 500} : Answer(code, Authenticated(c))
    BY Zenon, <1>3 DEF EnrollNow, IssueFails, Issue
  <2> QED BY <1>3, <2>1, AnswerKeepsConn DEF EnrollNow
<1> QED BY Zenon, <1>1, <1>2, <1>3 DEF Steps

(* So do a connection and its end.                                         *)
LEMMA ConnectKeepsConn ==
  ASSUME ConnInv, Disconnect \/ \E t \in BOOLEAN : \E c : Connect(t, c)
  PROVE  ConnInv'
<1>1. UNCHANGED cfg
  BY Zenon DEF Disconnect, Connect
<1>2. Startable'
  BY Zenon, <1>1 DEF ConnInv, Startable, BasicUser, ClientCa, AllowAnonymous, PostHandshake
<1>3. CASE Disconnect
  BY Zenon, <1>2, <1>3 DEF ConnInv, Disconnect, Closed
<1>4. ASSUME NEW t \in BOOLEAN, NEW c, Connect(t, c) PROVE ConnInv'
  BY Zenon, <1>1, <1>2, <1>4 DEF ConnInv, Connect, HandshakeOK, ClientCa, PostHandshake
<1> QED BY Zenon, <1>3, <1>4
-----------------------------------------------------------------------------
(* A new CSR in the queue.                                                 *)
LEMMA ParkedKeeps ==
  ASSUME NEW csr, TypeInv, OnceParkedOnceIssued, Parked(csr), UNCHANGED cfg
  PROVE  TypeInv' /\ OnceParkedOnceIssued'
<1>1. /\ IsSeq(pending') /\ Len(pending) \in Nat
      /\ Len(pending') = Len(pending) + 1
      /\ \A j \in 1..Len(pending) : pending'[j] = pending[j]
      /\ pending'[Len(pending) + 1] = csr
  BY Zenon, AppendOne DEF TypeInv, Parked
<1>2. Len(certs) \in Nat
  BY Zenon, AppendOne DEF TypeInv
<1>3. TypeInv'
  BY <1>1 DEF TypeInv, Parked
<1>4. ASSUME RequireApproval PROVE OnceParkedOnceIssued'
  <2>1. \A i, j \in 1..Len(pending) : pending[i] = pending[j] => i = j
    BY Zenon, <1>4 DEF OnceParkedOnceIssued
  <2>2. \A i \in 1..Len(pending) : pending[i] # csr
    BY Zenon DEF Parked, Slot
  <2>3. \A i, j \in 1..Len(pending') : pending'[i] = pending'[j] => i = j
    BY <1>1, <2>1, <2>2
  <2>4. Len(certs') <= parks' - Len(pending')
    BY <1>1, <1>2, <1>4 DEF OnceParkedOnceIssued, Parked, TypeInv
  <2>5. Len(pending') <= PendingCap
    BY <1>1, EstServerAssumption DEF Parked, HasRoom
  <2> QED BY Zenon, <2>3, <2>4, <2>5 DEF OnceParkedOnceIssued
<1> QED BY Zenon, <1>3, <1>4 DEF OnceParkedOnceIssued, RequireApproval

(* handler_enroll issues, or fails to, after the CSR has left the queue.   *)
LEMMA EnrollNowKeeps ==
  ASSUME NEW path, NEW auth, NEW c, NEW csr, EnrollNow(path, auth, c, csr),
         TypeInv, OnceParkedOnceIssued
  PROVE  TypeInv' /\ OnceParkedOnceIssued'
<1>1. UNCHANGED <<cfg, parks>> /\ Dequeue(csr)
  BY Zenon DEF EnrollNow
<1>2. /\ IsSeq(certs') /\ Len(certs) \in Nat /\ Len(certs') \in Nat
      /\ Len(certs') <= Len(certs) + 1
  <2>1. certs' = certs \/ \E x : certs' = Append(certs, x)
    BY DEF EnrollNow, IssueFails, Issue
  <2>2. IsSeq(certs) /\ Len(certs) \in Nat
    BY Zenon, AppendOne DEF TypeInv
  <2>3. CASE certs' = certs
    BY <2>2, <2>3
  <2>4. ASSUME NEW x, certs' = Append(certs, x)
        PROVE  IsSeq(certs') /\ Len(certs') = Len(certs) + 1
    BY Zenon, <2>2, <2>4, AppendOne
  <2> QED BY <2>1, <2>2, <2>3, <2>4
<1>3. CASE RequireApproval
  <2>1. PICK k \in 1..Len(pending) : pending' = Without(k)
    BY Zenon, <1>1, <1>3 DEF Dequeue, Slot
  <2>2. Len(pending) \in Nat
    BY Zenon, AppendOne DEF TypeInv
  <2>3. /\ IsSeq(pending') /\ Len(pending') = Len(pending) - 1
        /\ \A j \in 1..Len(pending) - 1 :
             pending'[j] = IF j = k THEN pending[Len(pending)] ELSE pending[j]
    BY Zenon, <2>1, WithoutOne DEF TypeInv
  <2>4. \A i, j \in 1..Len(pending) : pending[i] = pending[j] => i = j
    BY Zenon, <1>3 DEF OnceParkedOnceIssued
  <2>5. ASSUME NEW i \in 1..Len(pending'), NEW j \in 1..Len(pending'), pending'[i] = pending'[j]
        PROVE  i = j
    <3>1. i \in 1..Len(pending) - 1 /\ j \in 1..Len(pending) - 1
      BY Zenon, <2>3
    <3>2. i \in 1..Len(pending) /\ j \in 1..Len(pending) /\ Len(pending) \in 1..Len(pending)
          /\ i # Len(pending) /\ j # Len(pending)
      BY <2>2, <3>1
    <3> QED BY Zenon, <2>3, <2>4, <2>5, <3>1, <3>2
  <2>6. Len(certs') <= parks' - Len(pending') /\ Len(pending') <= PendingCap
    BY <1>1, <1>2, <1>3, <2>2, <2>3, EstServerAssumption DEF OnceParkedOnceIssued, TypeInv
  <2> QED BY Zenon, <1>1, <1>2, <2>3, <2>5, <2>6 DEF TypeInv, OnceParkedOnceIssued
<1>4. CASE ~RequireApproval
  BY Zenon, <1>1, <1>2, <1>4 DEF Dequeue, TypeInv, OnceParkedOnceIssued, RequireApproval
<1> QED BY Zenon, <1>3, <1>4

(* Who a certificate was issued to is settled by the gates.                *)
LEMMA EnrollNowAdmits ==
  ASSUME NEW path, NEW auth, NEW c, NEW csr, EnrollNow(path, auth, c, csr),
         ConnInv, TypeInv, IssuedToAdmitted
  PROVE  IssuedToAdmitted'
<1>1. UNCHANGED cfg /\ open /\ Gate(path, auth, c, csr) = 0
  BY Zenon DEF EnrollNow
<1>2. CASE UNCHANGED certs
  BY Zenon, <1>1, <1>2 DEF IssuedToAdmitted, BasicUser, AllowAnonymous, PostHandshake
<1>3. CASE Issue(path, c, csr)
  <2> DEFINE new == [csr |-> csr, peer |-> Authenticated(c), tls |-> tls, path |-> path]
  <2>1. /\ Len(certs) \in Nat /\ Len(certs') = Len(certs) + 1
        /\ \A n \in 1..Len(certs) : certs'[n] = certs[n]
        /\ certs'[Len(certs) + 1] = new
    BY <1>3, AppendOne DEF Issue, TypeInv
  <2>2. /\ ~BasicUser /\ ~AllowAnonymous => new.peer # NoClient
        /\ PostHandshake /\ new.tls => new.peer # NoClient
        /\ new.path = "simplereenroll" => new.peer = new.csr.subj /\ new.csr.san
    BY Zenon, <1>1, GateAdmits
  <2> HIDE DEF new
  <2>3. ASSUME NEW n \in 1..Len(certs')
        PROVE  /\ ~BasicUser /\ ~AllowAnonymous => certs'[n].peer # NoClient
               /\ PostHandshake /\ certs'[n].tls => certs'[n].peer # NoClient
               /\ certs'[n].path = "simplereenroll" =>
                    certs'[n].peer = certs'[n].csr.subj /\ certs'[n].csr.san
    <3>1. n \in 1..Len(certs) \/ n = Len(certs) + 1
      BY <2>1
    <3>2. CASE n \in 1..Len(certs)
      BY Zenon, <2>1, <3>2 DEF IssuedToAdmitted
    <3>3. CASE n = Len(certs) + 1
      BY Zenon, <2>1, <2>2, <3>3
    <3> QED BY Zenon, <3>1, <3>2, <3>3
  <2> QED BY Zenon, <1>1, <2>3 DEF IssuedToAdmitted, BasicUser, AllowAnonymous, PostHandshake
<1> QED BY Zenon, <1>2, <1>3 DEF EnrollNow, IssueFails

(* Nothing else touches queue or certificates.                             *)
LEMMA KeptKeeps ==
  ASSUME Kept, UNCHANGED cfg, TypeInv, OnceParkedOnceIssued, IssuedToAdmitted
  PROVE  TypeInv' /\ OnceParkedOnceIssued' /\ IssuedToAdmitted'
<1>1. TypeInv'
  BY Zenon DEF Kept, TypeInv
<1>2. OnceParkedOnceIssued'
  BY Zenon DEF Kept, OnceParkedOnceIssued, RequireApproval
<1>3. IssuedToAdmitted'
  BY Zenon DEF Kept, IssuedToAdmitted, BasicUser, AllowAnonymous, PostHandshake
<1> QED BY Zenon, <1>1, <1>2, <1>3

(* A request for enrolment keeps the invariant, whoever sends it.          *)
LEMMA StepKeeps ==
  ASSUME NEW path, NEW auth, NEW c, NEW csr, EstInv, Steps(path, auth, c, csr)
  PROVE  EstInv'
<1>1. ConnInv'
  BY Zenon, StepKeepsConn DEF EstInv
<1>2. CASE Refused(path, auth, c, csr)
  BY Zenon, <1>1, <1>2, KeptKeeps DEF EstInv, Refused, Kept
<1>3. CASE Park(path, auth, c, csr)
  <2>1. CASE Kept
    BY Zenon, <1>1, <1>3, <2>1, KeptKeeps DEF EstInv, Park
  <2>2. CASE ~Kept
    <3>1. Parked(csr) /\ UNCHANGED <<cfg, certs>>
      BY Zenon, <1>3, <2>2 DEF Park, Parked, Kept
    <3>2. IssuedToAdmitted'
      BY Zenon, <3>1 DEF EstInv, IssuedToAdmitted, BasicUser, AllowAnonymous, PostHandshake
    <3> QED BY Zenon, <1>1, <3>1, <3>2, ParkedKeeps DEF EstInv
  <2> QED BY Zenon, <2>1, <2>2
<1>4. CASE EnrollNow(path, auth, c, csr)
  BY Zenon, <1>1, <1>4, EnrollNowKeeps, EnrollNowAdmits DEF EstInv
<1> QED BY Zenon, <1>2, <1>3, <1>4 DEF Steps

(* So does everything else that happens to the server.                     *)
LEMMA ElseKeeps ==
  ASSUME EstInv,
         \/ Other \/ Disconnect \/ StillPending
         \/ \E t \in BOOLEAN : \E c : Connect(t, c)
  PROVE  EstInv'
<1>1. Kept /\ UNCHANGED cfg
  BY Zenon DEF Other, Disconnect, StillPending, Connect, Kept
<1>2. ConnInv'
  <2>1. CASE Other
    BY Zenon, <1>1, <2>1, AnswerKeepsConn DEF Other, EstInv
  <2>2. CASE StillPending
    BY Zenon, <1>1, <2>2, AnswerKeepsConn DEF StillPending, EstInv
  <2> QED BY Zenon, <2>1, <2>2, ConnectKeepsConn DEF EstInv
<1> QED BY Zenon, <1>1, <1>2, KeptKeeps DEF EstInv
-----------------------------------------------------------------------------
(* The server starts with an empty queue and no connection.                *)
LEMMA EstStarts == EstServerInit => EstInv
<1> SUFFICES ASSUME EstServerInit PROVE EstInv
  OBVIOUS
<1>1. IsSeq(<< >>) /\ Len(<< >>) = 0
  <2>1. << >> \in Seq({})
    BY Zenon, EmptySeq
  <2> QED BY Zenon, <2>1 DEF IsSeq
<1>2. ConnInv /\ TypeInv
  BY Zenon, <1>1 DEF EstServerInit, ConnInv, TypeInv
<1>3. OnceParkedOnceIssued /\ IssuedToAdmitted
  BY <1>1, EstServerAssumption DEF EstServerInit, OnceParkedOnceIssued, IssuedToAdmitted
<1> QED BY Zenon, <1>2, <1>3 DEF EstInv

(* Every step of the server with arbitrary clients keeps the invariant.    *)
LEMMA ServerNextKeeps ==
  ASSUME EstInv, EstServerNext
  PROVE  EstInv'
<1>1. CASE Other \/ Disconnect \/ \E t \in BOOLEAN, c \in Answers : Connect(t, c)
  BY Zenon, <1>1, ElseKeeps
<1>2. ASSUME NEW path \in Paths, NEW auth \in BOOLEAN, NEW c \in Answers, NEW csr \in Csrs,
             Steps(path, auth, c, csr)
      PROVE  EstInv'
  BY Zenon, <1>2, StepKeeps
<1> QED BY Zenon, <1>1, <1>2 DEF EstServerNext, Steps

(* Nothing that leaves the server alone disturbs it.                       *)
LEMMA IdleKeeps ==
  ASSUME EstInv, UNCHANGED est
  PROVE  EstInv'
<1>1. Kept /\ UNCHANGED cfg /\ UNCHANGED conn
  BY Zenon DEF est, Kept
<1>2. ConnInv'
  BY Zenon, <1>1 DEF conn, EstInv, ConnInv, Startable, BasicUser, ClientCa, AllowAnonymous, PostHandshake
<1> QED BY Zenon, <1>1, <1>2, KeptKeeps DEF EstInv

(* So does every step of the composition, in which one of the clients is   *)
(* the command-line client and the connection may break.                   *)
LEMMA EnrollNextKeeps ==
  ASSUME EstInv, EstEnrollNext
  PROVE  EstInv'
<1>1. CASE StartRun \/ PostNext \/ Receive \/ Fails \/ (Save /\ UNCHANGED <<est, mode, net>>) \/ Kill
  <2>1. UNCHANGED est
    BY Zenon, <1>1 DEF StartRun, PostNext, Receive, Fails, Kill
  <2> QED BY Zenon, <2>1, IdleKeeps
<1>2. CASE Dial
  <2>1. \E t \in BOOLEAN : \E c : Connect(t, c)
    BY Zenon, <1>2 DEF Dial
  <2> QED BY Zenon, <2>1, ElseKeeps
<1>3. CASE Handle
  <2>1. \/ Other \/ StillPending
        \/ \E path, auth, c, csr : Steps(path, auth, c, csr)
    BY Zenon, <1>3 DEF Handle, Steps
  <2> QED BY Zenon, <2>1, ElseKeeps, StepKeeps
<1>4. CASE Drop
  BY Zenon, <1>4, ElseKeeps DEF Drop
<1>5. CASE Others
  <2>1. \/ EstServerNext
        \/ \E t \in BOOLEAN : \E c : Connect(t, c)
        \/ \E path, auth, c, csr : Steps(path, auth, c, csr)
    BY Zenon, <1>5 DEF Others, Steps
  <2> QED BY Zenon, <2>1, ServerNextKeeps, ElseKeeps, StepKeeps
<1> QED BY Zenon, <1>1, <1>2, <1>3, <1>4, <1>5 DEF EstEnrollNext, Client

(* The inductive invariant holds for the server with any clients           *)
(* (handle_request, handler_enroll).                                       *)
THEOREM EstInvHolds == EstServerSpec => []EstInv
<1>1. EstInv /\ [EstServerNext]_est => EstInv'
  BY Zenon, ServerNextKeeps, IdleKeeps
<1> QED BY <1>1, EstStarts, PTL DEF EstServerSpec

(* With approval required every certificate uses up one parking, whatever  *)
(* the order of POSTs, failures and reconnections (handler_enroll).        *)
THEOREM OnceParkedHolds == EstServerSpec => []OnceParkedOnceIssued
<1>1. EstInv => OnceParkedOnceIssued
  BY Zenon DEF EstInv
<1> QED BY <1>1, EstInvHolds, PTL

(* No certificate goes to a client that the configuration does not admit   *)
(* (check_basic_auth, ensure_post_handshake_auth, reenroll_identity_check).*)
THEOREM AdmittedHolds == EstServerSpec => []IssuedToAdmitted
<1>1. EstInv => IssuedToAdmitted
  BY Zenon DEF EstInv
<1> QED BY <1>1, EstInvHolds, PTL

(* Both hold with the command-line client, its poll loop and connections   *)
(* that break after the server has read a request.                         *)
THEOREM EstComposedHolds == EstEnrollSpec => [](OnceParkedOnceIssued /\ IssuedToAdmitted)
<1>1. EstEnrollInit => EstInv
  BY Zenon, EstStarts DEF EstEnrollInit
<1>2. EstInv /\ [EstEnrollNext]_enrol => EstInv'
  <2>1. UNCHANGED enrol => UNCHANGED est
    BY Zenon DEF enrol
  <2> QED BY Zenon, <2>1, EnrollNextKeeps, IdleKeeps
<1>3. EstInv => OnceParkedOnceIssued /\ IssuedToAdmitted
  BY Zenon DEF EstInv
<1> QED BY <1>1, <1>2, <1>3, PTL DEF EstEnrollSpec
-----------------------------------------------------------------------------
(* WaitsForOwnPost, of one step.                                           *)
Waits ==
  \A i \in 1..Len(pending) :
    \/ \E j \in 1..Len(pending') : pending'[j] = pending[i]
    \/ \E path \in Paths, auth \in BOOLEAN, c \in Answers :
         EnrollNow(path, auth, c, pending[i])

(* A request takes no CSR out of the queue but its own.                    *)
LEMMA StepWaits ==
  ASSUME NEW path \in Paths, NEW auth \in BOOLEAN, NEW c \in Answers, NEW csr,
         TypeInv, Steps(path, auth, c, csr)
  PROVE  Waits
<1>1. Len(pending) \in Nat
  BY Zenon, AppendOne DEF TypeInv
<1> SUFFICES ASSUME NEW i \in 1..Len(pending),
                    ~EnrollNow(path, auth, c, pending[i])
             PROVE  \E j \in 1..Len(pending') : pending'[j] = pending[i]
  BY Zenon DEF Waits
<1>2. CASE pending' = pending
  BY Zenon, <1>2
<1>3. CASE Park(path, auth, c, csr) /\ pending' # pending
  <2>1. pending' = Append(pending, csr)
    BY Zenon, <1>3 DEF Park
  <2>2. Len(pending') = Len(pending) + 1 /\ pending'[i] = pending[i]
    BY Zenon, <2>1, AppendOne DEF TypeInv
  <2>3. i \in 1..Len(pending')
    BY <1>1, <2>2
  <2> QED BY Zenon, <2>2, <2>3
<1>4. CASE EnrollNow(path, auth, c, csr) /\ pending' # pending
  <2>1. PICK k \in 1..Len(pending) : pending[k] = csr /\ pending' = Without(k)
    BY Zenon, <1>4 DEF EnrollNow, Dequeue, Slot
  <2>2. i # k
    BY Zenon, <1>4, <2>1
  <2>3. /\ Len(pending') = Len(pending) - 1
        /\ \A j \in 1..Len(pending) - 1 :
             pending'[j] = IF j = k THEN pending[Len(pending)] ELSE pending[j]
    BY Zenon, <2>1, WithoutOne DEF TypeInv
  <2>4. CASE i = Len(pending)
    <3>1. k \in 1..Len(pending) - 1
      BY <1>1, <2>2, <2>4
    <3> QED BY Zenon, <2>3, <2>4, <3>1
  <2>5. CASE i # Len(pending)
    <3>1. i \in 1..Len(pending) - 1
      BY <1>1, <2>5
    <3> QED BY Zenon, <2>2, <2>3, <3>1
  <2> QED BY Zenon, <2>4, <2>5
<1> QED BY Zenon, <1>2, <1>3, <1>4 DEF Steps, Refused

(* A step that leaves the queue alone takes nothing out of it.             *)
LEMMA KeptWaits ==
  ASSUME UNCHANGED pending
  PROVE  Waits
  BY Zenon DEF Waits

(* A step of the server with any clients.                                  *)
LEMMA ServerNextWaits ==
  ASSUME TypeInv, EstServerNext
  PROVE  Waits
<1>1. CASE Other \/ Disconnect \/ \E t \in BOOLEAN, c \in Answers : Connect(t, c)
  BY Zenon, <1>1, KeptWaits DEF Other, Disconnect, Connect
<1>2. ASSUME NEW path \in Paths, NEW auth \in BOOLEAN, NEW c \in Answers, NEW csr \in Csrs,
             Steps(path, auth, c, csr)
      PROVE  Waits
  BY Zenon, <1>2, StepWaits
<1> QED BY Zenon, <1>1, <1>2 DEF EstServerNext, Steps

(* A CSR leaves the queue only when that very CSR is POSTed again          *)
(* (handler_enroll).                                                       *)
THEOREM WaitsHolds == EstServerSpec => WaitsForOwnPost
<1>1. EstInv /\ [EstServerNext]_est => [Waits]_est
  BY Zenon, ServerNextWaits DEF EstInv
<1> QED BY <1>1, EstInvHolds, PTL DEF EstServerSpec, WaitsForOwnPost, Waits

(* The client posts to one of the two paths only.                          *)
PostInv == post # Nothing => post.path \in Paths

(* A step of the composition.                                              *)
LEMMA EnrollNextWaits ==
  ASSUME TypeInv, PostInv, EstEnrollNext
  PROVE  Waits /\ PostInv'
<1>1. Path \in Paths
  BY Zenon DEF Path, Paths
<1>2. \A what : Request(what).path \in Paths
  BY Zenon, <1>1 DEF Request
<1>3. Stranger.subj \in Answers /\ Device \in Answers /\ NoClient \in Answers
  BY Zenon, EstEnrollAssumption, EstServerAssumption DEF Stranger, Answers
<1>4. PostInv'
  <2>1. post' = post \/ post' = Nothing \/ \E what : post' = Request(what)
    BY Zenon DEF EstEnrollNext, StartRun, Client, Dial, PostNext, Receive, Fails, Kill, Handle,
           Drop, Others, net
  <2> QED BY Zenon, <1>2, <2>1 DEF PostInv
<1>5. CASE StartRun \/ Client \/ Kill \/ Drop
  <2>1. UNCHANGED pending
    BY Zenon, <1>5 DEF StartRun, Client, Kill, Drop, Dial, PostNext, Receive, Fails, Connect,
                Disconnect, est
  <2> QED BY Zenon, <1>4, <2>1, KeptWaits
<1>6. CASE Handle
  <2>1. \/ UNCHANGED pending
        \/ \E path \in Paths, auth \in BOOLEAN, c \in Answers : \E csr : Steps(path, auth, c, csr)
    BY Zenon, <1>3, <1>6 DEF Handle, Other, StillPending, Steps, PostInv
  <2> QED BY Zenon, <1>4, <2>1, KeptWaits, StepWaits
<1>7. CASE Others
  <2>1. \/ EstServerNext
        \/ UNCHANGED pending
        \/ \E path \in Paths, auth \in BOOLEAN, c \in Answers : \E csr : Steps(path, auth, c, csr)
    BY Zenon, <1>3, <1>7 DEF Others, Connect, Steps, Paths
  <2> QED BY Zenon, <1>4, <2>1, ServerNextWaits, KeptWaits, StepWaits
<1> QED BY Zenon, <1>5, <1>6, <1>7 DEF EstEnrollNext

(* The same with the command-line client.                                  *)
THEOREM WaitsComposedHolds == EstEnrollSpec => WaitsForOwnPost
<1>1. EstEnrollInit => EstInv /\ PostInv
  BY Zenon, EstStarts DEF EstEnrollInit, PostInv
<1>2. UNCHANGED enrol => UNCHANGED est /\ UNCHANGED post
  BY Zenon DEF enrol, net
<1>3. EstInv /\ PostInv /\ [EstEnrollNext]_enrol => EstInv' /\ PostInv'
  BY Zenon, <1>2, EnrollNextKeeps, IdleKeeps, EnrollNextWaits DEF EstInv, PostInv
<1>4. EstInv /\ PostInv /\ [EstEnrollNext]_enrol => [Waits]_est
  BY Zenon, <1>2, EnrollNextWaits DEF EstInv
<1> QED BY <1>1, <1>3, <1>4, PTL DEF EstEnrollSpec, WaitsForOwnPost, Waits
-----------------------------------------------------------------------------
(* OneRequestPerRun.  What a run may still ask for is counted with what it *)
(* has left behind: a run that has not posted yet, a request under way     *)
(* whose CSR is not in the queue, and a /cacerts answer after which the    *)
(* POST is still to come, stand for one certificate or CSR each.           *)
Unit(b) == IF b THEN 1 ELSE 0

OwnParked == {i \in 1..Len(pending) : Own(pending[i])}

OwnCerts == {n \in 1..Len(certs) : Own(certs[n].csr)}

AsksAnew == post # Nothing /\ (post.what = "cacerts" \/ Slot(post.csr) = {})

Fetched == back # Nothing /\ back.what = "cacerts"

Owed == Unit(run.pc = "ask") + Unit(AsksAnew) + Unit(Fetched)

CountInv ==
  /\ runs \in Nat
  /\ Cardinality(OwnParked) + Cardinality(OwnCerts) + Owed <= runs

Fields == {"pc", "op", "key", "cert", "attempts", "wrc", "exit"}

IsRun(r) == r = [f \in Fields |-> r[f]]

(* While the client waits for an answer or between two polls its CSR is the*)
(* one on the line, and a 202 it has been given stands for a queue entry.  *)
AskInv ==
  /\ IsRun(run)
  /\ ~RequireApproval => Len(pending) = 0
  /\ line = "client" => run.pc = "sent" /\ (post # Nothing => post.csr = OwnCsr)
  /\ post # Nothing => Own(post.csr) /\ back = Nothing
  /\ back # Nothing => run.pc = "sent"
  /\ run.pc = "sleep" => run.op = "enroll" /\ post = Nothing /\ Slot(OwnCsr) # {}
  /\ back # Nothing /\ back.what = "enroll" /\ back.code = 202 => Slot(OwnCsr) # {}

(* How many certificates and queue entries runs have left behind.          *)
Left == Cardinality(OwnParked) + Cardinality(OwnCerts)

(* What the handling of a POST of `csr` comes to.                          *)
Handled(csr) ==
  /\ Left \in Nat /\ Left' \in Nat
  /\ Left' <= Left + Unit(Own(csr) /\ Slot(csr) = {})
  /\ \A x : x # csr /\ Slot(x) # {} => (Slot(x))' # {}
  /\ reply' = 202 => (Slot(csr))' # {}
  /\ ~RequireApproval => Len(pending') = 0
  /\ UNCHANGED cfg
-----------------------------------------------------------------------------
(* Places in a sequence are finitely many.                                 *)
LEMMA FewPlaces ==
  ASSUME NEW n \in Nat, NEW S, S \subseteq 1..n
  PROVE  IsFiniteSet(S) /\ Cardinality(S) \in Nat
<1>1. IsFiniteSet(1..n)
  BY FS_Interval
<1>2. IsFiniteSet(S)
  BY Zenon, <1>1, FS_Subset
<1> QED BY Zenon, <1>2, FS_CardinalityType

(* The two counts are numbers.                                             *)
LEMMA CountsAreNumbers ==
  ASSUME TypeInv
  PROVE  /\ IsFiniteSet(OwnParked) /\ Cardinality(OwnParked) \in Nat
         /\ IsFiniteSet(OwnCerts) /\ Cardinality(OwnCerts) \in Nat
         /\ Len(pending) \in Nat /\ Len(certs) \in Nat
<1>1. Len(pending) \in Nat /\ Len(certs) \in Nat
  BY Zenon, AppendOne DEF TypeInv
<1>2. OwnParked \subseteq 1..Len(pending) /\ OwnCerts \subseteq 1..Len(certs)
  BY Zenon DEF OwnParked, OwnCerts
<1> QED BY Zenon, <1>1, <1>2, FewPlaces

(* A new queue entry adds one if the CSR is one of the client's.           *)
LEMMA ParkCounts ==
  ASSUME TypeInv, NEW csr, pending' = Append(pending, csr)
  PROVE  Cardinality(OwnParked') = Cardinality(OwnParked) + Unit(Own(csr))
<1>1. /\ Len(pending) \in Nat /\ Len(pending') = Len(pending) + 1
      /\ \A j \in 1..Len(pending) : pending'[j] = pending[j]
      /\ pending'[Len(pending) + 1] = csr
  BY Zenon, AppendOne DEF TypeInv
<1>2. \A j : j \in 1..Len(pending') <=> j \in 1..Len(pending) \/ j = Len(pending) + 1
  BY <1>1
<1>3. Len(pending) + 1 \notin OwnParked
  BY <1>1 DEF OwnParked
<1>4. CASE Own(csr)
  <2>1. OwnParked' = OwnParked \cup {Len(pending) + 1}
    BY Zenon, <1>1, <1>2, <1>4 DEF OwnParked
  <2> QED BY Zenon, <1>3, <1>4, <2>1, CountsAreNumbers, FS_AddElement DEF Unit
<1>5. CASE ~Own(csr)
  <2>1. OwnParked' = OwnParked
    BY Zenon, <1>1, <1>2, <1>5 DEF OwnParked
  <2> QED BY <1>5, <2>1, CountsAreNumbers DEF Unit
<1> QED BY Zenon, <1>4, <1>5

(* So does a new certificate.                                              *)
LEMMA IssueCounts ==
  ASSUME TypeInv, NEW x, certs' = Append(certs, x)
  PROVE  Cardinality(OwnCerts') = Cardinality(OwnCerts) + Unit(Own(x.csr))
<1>1. /\ Len(certs) \in Nat /\ Len(certs') = Len(certs) + 1
      /\ \A j \in 1..Len(certs) : certs'[j] = certs[j]
      /\ certs'[Len(certs) + 1] = x
  BY Zenon, AppendOne DEF TypeInv
<1>2. \A j : j \in 1..Len(certs') <=> j \in 1..Len(certs) \/ j = Len(certs) + 1
  BY <1>1
<1>3. Len(certs) + 1 \notin OwnCerts
  BY <1>1 DEF OwnCerts
<1>4. CASE Own(x.csr)
  <2>1. OwnCerts' = OwnCerts \cup {Len(certs) + 1}
    BY Zenon, <1>1, <1>2, <1>4 DEF OwnCerts
  <2> QED BY Zenon, <1>3, <1>4, <2>1, CountsAreNumbers, FS_AddElement DEF Unit
<1>5. CASE ~Own(x.csr)
  <2>1. OwnCerts' = OwnCerts
    BY Zenon, <1>1, <1>2, <1>5 DEF OwnCerts
  <2> QED BY <1>5, <2>1, CountsAreNumbers DEF Unit
<1> QED BY Zenon, <1>4, <1>5

(* pending_remove takes away one of the client's entries if it was asked   *)
(* to, and none if not, although the last entry changes its place.         *)
LEMMA DequeueCounts ==
  ASSUME TypeInv, NEW k \in 1..Len(pending), pending' = Without(k)
  PROVE  Cardinality(OwnParked') = Cardinality(OwnParked) - Unit(Own(pending[k]))
<1> DEFINE n == Len(pending)
<1>1. /\ n \in Nat /\ 1 <= n /\ n \in 1..n /\ Len(pending') = n - 1
      /\ \A j \in 1..n - 1 : pending'[j] = IF j = k THEN pending[n] ELSE pending[j]
  <2>1. n \in Nat
    BY Zenon, CountsAreNumbers
  <2>2. 1 <= n /\ n \in 1..n
    BY <2>1
  <2> QED BY Zenon, <2>1, <2>2, WithoutOne DEF TypeInv
<1>2. \A j : j \in 1..n - 1 <=> j \in 1..n /\ j # n
  BY <1>1
<1>3. \A j : j \in OwnParked' <=> j \in 1..n - 1 /\ Own(pending'[j])
  BY Zenon, <1>1 DEF OwnParked
<1>4. \A j : j \in OwnParked <=> j \in 1..n /\ Own(pending[j])
  BY Zenon DEF OwnParked
<1> HIDE DEF n
<1>5. \A S, x : IsFiniteSet(S) => IsFiniteSet(S \ {x}) /\ Cardinality(S \ {x}) \in Nat
  BY Zenon, FS_RemoveElement, FS_CardinalityType
<1>6. CASE Own(pending[n])
  <2>1. n \in OwnParked
    BY Zenon, <1>1, <1>4, <1>6
  <2>2. Cardinality(OwnParked \ {n}) = Cardinality(OwnParked) - 1
    BY Zenon, <2>1, CountsAreNumbers, FS_RemoveElement
  <2>3. CASE k = n \/ Own(pending[k])
    <3>1. OwnParked' = OwnParked \ {n}
      BY Zenon, <1>1, <1>2, <1>3, <1>4, <1>6, <2>3 DEF n
    <3>2. Own(pending[k])
      BY Zenon, <1>6, <2>3
    <3> QED BY Zenon, <2>2, <3>1, <3>2 DEF Unit
  <2>4. CASE k # n /\ ~Own(pending[k])
    <3>1. OwnParked' = (OwnParked \ {n}) \cup {k} /\ k \notin OwnParked
      BY Zenon, <1>1, <1>2, <1>3, <1>4, <1>6, <2>4 DEF n
    <3>2. Cardinality((OwnParked \ {n}) \cup {k}) = Cardinality(OwnParked \ {n}) + 1
      BY Zenon, <1>5, <3>1, CountsAreNumbers, FS_AddElement
    <3> QED BY <2>2, <2>4, <3>1, <3>2, CountsAreNumbers DEF Unit
  <2> QED BY Zenon, <2>3, <2>4
<1>7. CASE ~Own(pending[n])
  <2>1. OwnParked' = OwnParked \ {k}
    BY Zenon, <1>1, <1>2, <1>3, <1>4, <1>7 DEF n
  <2>2. CASE Own(pending[k])
    <3>1. k \in OwnParked
      BY Zenon, <1>4, <2>2 DEF n
    <3>2. Cardinality(OwnParked \ {k}) = Cardinality(OwnParked) - 1
      BY Zenon, <3>1, CountsAreNumbers, FS_RemoveElement
    <3> QED BY Zenon, <2>1, <2>2, <3>2 DEF Unit
  <2>3. CASE ~Own(pending[k])
    <3>1. OwnParked \ {k} = OwnParked
      BY Zenon, <1>4, <2>3
    <3>2. Cardinality(OwnParked') = Cardinality(OwnParked) /\ Cardinality(OwnParked) \in Nat
      BY Zenon, <2>1, <3>1, CountsAreNumbers
    <3> QED BY <2>3, <3>2 DEF Unit
  <2> QED BY Zenon, <2>2, <2>3
<1> QED BY Zenon, <1>6, <1>7

(* Whatever the server makes of a POST.                                    *)
LEMMA StepCounts ==
  ASSUME NEW path, NEW auth, NEW c, NEW csr, Steps(path, auth, c, csr),
         TypeInv, ~RequireApproval => Len(pending) = 0
  PROVE  Handled(csr)
<1> DEFINE P == Cardinality(OwnParked)
           Q == Cardinality(OwnCerts)
<1>1. P \in Nat /\ Q \in Nat /\ Len(pending) \in Nat
  BY Zenon, CountsAreNumbers
<1>2. UNCHANGED cfg
  BY Zenon DEF Steps, Refused, Park, EnrollNow
<1>3. CASE UNCHANGED <<pending, certs>> /\ reply' # 202
  BY <1>1, <1>2, <1>3 DEF Handled, Left, OwnParked, OwnCerts, Unit, Slot
<1>4. CASE Parked(csr) /\ RequireApproval
  <2>1. /\ pending' = Append(pending, csr) /\ UNCHANGED certs
        /\ Slot(csr) = {}
    BY Zenon, <1>4 DEF Parked
  <2>2. P' = P + Unit(Own(csr)) /\ Q' = Q
    BY Zenon, <2>1, ParkCounts DEF OwnCerts
  <2>3. /\ Len(pending') = Len(pending) + 1
        /\ \A j \in 1..Len(pending) : pending'[j] = pending[j]
        /\ pending'[Len(pending) + 1] = csr
    BY Zenon, <2>1, AppendOne DEF TypeInv
  <2>4. (Slot(csr))' # {}
    BY <1>1, <2>3 DEF Slot
  <2>5. ASSUME NEW x, Slot(x) # {} PROVE (Slot(x))' # {}
    BY <1>1, <2>3, <2>5 DEF Slot
  <2>6. Left \in Nat /\ Left' \in Nat /\ Left' <= Left + Unit(Own(csr) /\ Slot(csr) = {})
    BY <1>1, <2>1, <2>2 DEF Left, Unit
  <2> QED BY Zenon, <1>2, <1>4, <2>4, <2>5, <2>6 DEF Handled
<1>5. CASE EnrollNow(path, auth, c, csr)
  <2>1. reply' # 202
    <3>1. CASE IssueFails(c)
      BY <3>1 DEF IssueFails, Answer
    <3>2. CASE Issue(path, c, csr)
      <4>1. PICK code \in {200, 500} : Answer(code, Authenticated(c))
        BY Zenon, <3>2 DEF Issue
      <4> QED BY <4>1 DEF Answer
    <3> QED BY Zenon, <1>5, <3>1, <3>2 DEF EnrollNow
  <2>2. Q' \in Nat /\ Q' <= Q + Unit(Own(csr))
    <3>1. CASE UNCHANGED certs
      BY <1>1, <3>1 DEF OwnCerts, Unit
    <3>2. CASE Issue(path, c, csr)
      <4>1. PICK x : certs' = Append(certs, x) /\ x.csr = csr
        BY <3>2 DEF Issue
      <4> QED BY <1>1, <4>1, IssueCounts DEF Unit
    <3> QED BY Zenon, <1>5, <3>1, <3>2 DEF EnrollNow, IssueFails
  <2>3. CASE RequireApproval
    <3>1. PICK k \in 1..Len(pending) : pending[k] = csr /\ pending' = Without(k)
      BY Zenon, <1>5, <2>3 DEF EnrollNow, Dequeue, Slot
    <3>2. P' = P - Unit(Own(csr))
      BY Zenon, <3>1, DequeueCounts
    <3>3. P' \in Nat
      BY Zenon, <1>5, CountsAreNumbers, FewPlaces, WithoutOne, AppendOne, <3>1 DEF OwnParked, TypeInv
    <3>4. Left \in Nat /\ Left' \in Nat /\ Left' <= Left + Unit(Own(csr) /\ Slot(csr) = {})
      BY <1>1, <2>2, <3>2, <3>3 DEF Left, Unit
    <3>5. ASSUME NEW x, x # csr, Slot(x) # {} PROVE (Slot(x))' # {}
      <4>1. PICK i \in 1..Len(pending) : pending[i] = x
        BY Zenon, <3>5 DEF Slot
      <4>2. /\ Len(pending') = Len(pending) - 1
            /\ \A j \in 1..Len(pending) - 1 :
                 pending'[j] = IF j = k THEN pending[Len(pending)] ELSE pending[j]
        BY Zenon, <3>1, WithoutOne DEF TypeInv
      <4>3. i # k
        BY Zenon, <3>1, <3>5, <4>1
      <4>4. CASE i = Len(pending)
        <5>1. k \in 1..Len(pending) - 1
          BY <1>1, <4>3, <4>4
        <5> QED BY Zenon, <4>1, <4>2, <4>4, <5>1 DEF Slot
      <4>5. CASE i # Len(pending)
        <5>1. i \in 1..Len(pending) - 1
          BY <1>1, <4>5
        <5> QED BY Zenon, <4>1, <4>2, <4>3, <5>1 DEF Slot
      <4> QED BY Zenon, <4>4, <4>5
    <3> QED BY Zenon, <1>2, <2>1, <2>3, <3>4, <3>5 DEF Handled
  <2>4. CASE ~RequireApproval
    <3>1. UNCHANGED pending /\ Len(pending) = 0
      BY Zenon, <1>5, <2>4 DEF EnrollNow, Dequeue
    <3>2. Slot(csr) = {} /\ P' = P
      BY <3>1 DEF Slot, OwnParked
    <3>3. Left \in Nat /\ Left' \in Nat /\ Left' <= Left + Unit(Own(csr) /\ Slot(csr) = {})
      BY <1>1, <2>2, <3>2 DEF Left, Unit
    <3> QED BY Zenon, <1>2, <2>1, <3>1, <3>3 DEF Handled, Slot
  <2> QED BY Zenon, <2>3, <2>4
<1>6. CASE Refused(path, auth, c, csr)
  <2>1. reply' # 202
    BY <1>6 DEF Refused, Answer, Gate, IdentityFault
  <2> QED BY Zenon, <1>3, <1>6, <2>1 DEF Refused
<1>7. CASE Park(path, auth, c, csr)
  <2>1. RequireApproval /\ Slot(csr) = {} /\ UNCHANGED certs
    BY Zenon, <1>7 DEF Park
  <2>2. CASE UNCHANGED <<pending, parks>> /\ Answer(503, c)
    <3>1. reply' = 503
      BY Zenon, <2>2 DEF Answer
    <3> QED BY <1>3, <2>1, <2>2, <3>1
  <2>3. CASE HasRoom /\ pending' = Append(pending, csr) /\ parks' = parks + 1
    BY Zenon, <1>4, <2>1, <2>3 DEF Parked
  <2> QED BY Zenon, <1>7, <2>2, <2>3 DEF Park
<1> QED BY Zenon, <1>5, <1>6, <1>7 DEF Steps
-----------------------------------------------------------------------------
(* What is left behind grows by no more than what is owed shrinks.         *)
LEMMA Balance ==
  ASSUME NEW left \in Nat, NEW left2 \in Nat, NEW owed \in Nat, NEW owed2 \in Nat,
         NEW new \in Nat, NEW n \in Nat,
         left + owed <= n, left2 <= left + new, owed2 + new <= owed
  PROVE  left2 + owed2 <= n
  OBVIOUS

(* The client's CSRs carry its key; those of others do not.                *)
LEMMA OwnAndOthers ==
  /\ Own(OwnCsr)
  /\ \A csr \in Csrs : ~Own(csr)
  /\ Stranger \in Csrs
<1>1. Own(OwnCsr)
  BY Zenon DEF Own, OwnCsr
<1>2. ASSUME NEW csr \in Csrs PROVE ~Own(csr)
  BY EstServerAssumption DEF Own
<1>3. Stranger \in Csrs
  BY Zenon, EstEnrollAssumption DEF Stranger
<1> QED BY Zenon, <1>1, <1>2, <1>3

(* A process that goes on keeps its command and its key.                   *)
LEMMA RunGoesOn ==
  ASSUME IsRun(run), NEW pc, Goto(pc)
  PROVE  IsRun(run') /\ run'.pc = pc /\ run'.op = run.op /\ run'.key = run.key
  BY Zenon DEF IsRun, Fields, Goto

(* A process that ends keeps nothing.                                      *)
LEMMA RunEnds ==
  ASSUME NEW code, Exit(code)
  PROVE  IsRun(run') /\ run'.pc = "off"
  BY Zenon DEF IsRun, Fields, Exit, Off

(* The client starts.                                                      *)
LEMMA StartCounts ==
  ASSUME StartRun, AskInv, CountInv, TypeInv
  PROVE  AskInv' /\ CountInv'
<1>1. PICK op, k : run' = [Off EXCEPT !.pc = "ask", !.op = op, !.key = k]
  BY Zenon DEF StartRun, StartReenroll, StartEnroll
<1>2. IsRun(run') /\ run'.pc = "ask"
  BY Zenon, <1>1 DEF IsRun, Fields, Off
<1>3. runs' = runs + 1 /\ run.pc = "off" /\ UNCHANGED <<cfg, pending, certs, line, post, back>>
  BY Zenon DEF StartRun, StartReenroll, StartEnroll, est, net
<1>4. back = Nothing /\ line # "client"
  BY Zenon, <1>3 DEF AskInv
<1>5. AskInv'
  BY Zenon, <1>2, <1>3, <1>4 DEF AskInv, RequireApproval
<1>6. /\ OwnParked' = OwnParked /\ OwnCerts' = OwnCerts
      /\ AsksAnew' = AsksAnew /\ Fetched' = Fetched
  BY Zenon, <1>3 DEF OwnParked, OwnCerts, AsksAnew, Fetched, Slot
<1>7. CountInv'
  BY <1>2, <1>3, <1>6, CountsAreNumbers DEF CountInv, Owed, Unit
<1> QED BY Zenon, <1>5, <1>7

(* The client goes away, wherever it is, and may leave its request behind. *)
LEMMA LeaveCounts ==
  ASSUME IsRun(run'), run'.pc \notin {"ask", "sleep", "sent"}, Leave,
         UNCHANGED <<est, mode, post, runs>>, AskInv, CountInv, TypeInv
  PROVE  AskInv' /\ CountInv'
<1>1. UNCHANGED <<cfg, pending, certs>> /\ back' = Nothing /\ line' # "client"
  BY Zenon DEF Leave, est
<1>2. AskInv'
  BY Zenon, <1>1 DEF AskInv, RequireApproval
<1>3. OwnParked' = OwnParked /\ OwnCerts' = OwnCerts /\ AsksAnew' = AsksAnew /\ ~Fetched'
  BY Zenon, <1>1 DEF OwnParked, OwnCerts, AsksAnew, Fetched, Slot
<1>4. CountInv'
  BY <1>3, CountsAreNumbers DEF CountInv, Owed, Unit
<1> QED BY Zenon, <1>2, <1>4

(* The client connects and posts: what a run may ask for is on the line    *)
(* now, and a poll asks for nothing new.                                   *)
LEMMA DialCounts ==
  ASSUME Dial, AskInv, CountInv, TypeInv
  PROVE  AskInv' /\ CountInv'
<1>1. /\ UNCHANGED <<cfg, pending, certs, runs, mode, back>> /\ line' = "client"
      /\ post' = Request(IF run.op = "pha" THEN "cacerts" ELSE "enroll")
      /\ run.pc \in {"ask", "sleep"}
  BY Zenon DEF Dial, Connect
<1>2. /\ IsRun(run') /\ run'.pc = "sent" /\ run'.key = run.key
  BY Zenon DEF Dial, AskInv, IsRun, Fields
<1>3. back = Nothing
  BY Zenon, <1>1 DEF AskInv
<1>4. OwnCsr' = OwnCsr
  BY Zenon, <1>1, <1>2 DEF OwnCsr
<1>5. post'.csr = OwnCsr /\ (post'.what = "cacerts" => run.op = "pha")
  BY Zenon, <1>1 DEF Request
<1>6. AskInv'
  BY Zenon, <1>1, <1>2, <1>3, <1>4, <1>5, OwnAndOthers DEF AskInv, RequireApproval
<1>7. OwnParked' = OwnParked /\ OwnCerts' = OwnCerts /\ ~Fetched' /\ ~Fetched
  BY Zenon, <1>1, <1>3 DEF OwnParked, OwnCerts, Fetched
<1>8. run.pc = "sleep" => ~AsksAnew'
  BY Zenon, <1>1, <1>5 DEF AskInv, AsksAnew, Slot
<1>9. CountInv'
  BY <1>1, <1>2, <1>7, <1>8, CountsAreNumbers DEF CountInv, Owed, Unit
<1> QED BY Zenon, <1>6, <1>9

(* The POST after /cacerts.                                                *)
LEMMA PostNextCounts ==
  ASSUME PostNext, AskInv, CountInv, TypeInv
  PROVE  AskInv' /\ CountInv'
<1>1. /\ UNCHANGED <<cfg, pending, certs, run, runs, mode, line>>
      /\ run.pc = "sent" /\ back # Nothing /\ back.what = "cacerts"
      /\ post' = Request("enroll") /\ back' = Nothing
  BY Zenon DEF PostNext, est, cli
<1>2. OwnCsr' = OwnCsr /\ post'.csr = OwnCsr
  BY Zenon, <1>1 DEF OwnCsr, Request
<1>3. AskInv'
  BY Zenon, <1>1, <1>2, OwnAndOthers DEF AskInv, RequireApproval
<1>4. OwnParked' = OwnParked /\ OwnCerts' = OwnCerts /\ ~Fetched' /\ Fetched
  BY Zenon, <1>1 DEF OwnParked, OwnCerts, Fetched
<1>5. CountInv'
  BY <1>1, <1>4, CountsAreNumbers DEF CountInv, Owed, Unit
<1> QED BY Zenon, <1>3, <1>5

(* The client reads the answer: it has a certificate, gives up, or sleeps  *)
(* until the next poll with its CSR in the queue.                          *)
LEMMA ReceiveCounts ==
  ASSUME Receive, AskInv, CountInv, TypeInv
  PROVE  AskInv' /\ CountInv'
<1>1. /\ run.pc = "sent" /\ back # Nothing /\ post = Nothing /\ IsRun(run)
      /\ Leave /\ UNCHANGED <<est, mode, post, runs>>
  BY Zenon DEF Receive, Obtain, GiveUp, AskInv
<1>2. ASSUME IsRun(run'), run'.pc \notin {"ask", "sleep", "sent"}
      PROVE  AskInv' /\ CountInv'
  BY Zenon, <1>1, <1>2, LeaveCounts
<1>3. CASE \E c : Obtain(c)
  <2>1. IsRun(run') /\ run'.pc = "cert"
    BY Zenon, <1>1, <1>3 DEF Obtain, IsRun, Fields
  <2> QED BY Zenon, <1>2, <2>1
<1>4. CASE GiveUp
  BY Zenon, <1>2, <1>4, RunEnds DEF GiveUp
<1>5. CASE run' = [Off EXCEPT !.exit = "pending", !.attempts = run.attempts]
  <2>1. IsRun(run') /\ run'.pc = "off"
    BY Zenon, <1>5 DEF Off, IsRun, Fields
  <2> QED BY Zenon, <1>2, <2>1
<1>6. CASE back.what = "enroll" /\ back.code = 202 /\ PollsOn /\ Goto("sleep")
  <2>1. /\ IsRun(run') /\ run'.pc = "sleep" /\ run'.op = "enroll" /\ run'.key = run.key
    BY Zenon, <1>1, <1>6, RunGoesOn DEF PollsOn
  <2>2. UNCHANGED <<cfg, pending, certs>> /\ back' = Nothing /\ line' # "client"
    BY Zenon, <1>1 DEF Leave, est
  <2>3. OwnCsr' = OwnCsr /\ Slot(OwnCsr) # {}
    BY Zenon, <1>1, <1>6, <2>1 DEF OwnCsr, AskInv
  <2>4. (Slot(OwnCsr))' # {}
    BY Zenon, <2>2, <2>3 DEF Slot
  <2>5. AskInv'
    BY Zenon, <1>1, <2>1, <2>2, <2>4 DEF AskInv, RequireApproval
  <2>6. OwnParked' = OwnParked /\ OwnCerts' = OwnCerts /\ ~Fetched' /\ ~AsksAnew'
    BY Zenon, <1>1, <2>2 DEF OwnParked, OwnCerts, Fetched, AsksAnew
  <2>7. CountInv'
    BY <1>1, <2>1, <2>6, CountsAreNumbers DEF CountInv, Owed, Unit
  <2> QED BY Zenon, <2>5, <2>7
<1> QED BY Zenon, <1>3, <1>4, <1>5, <1>6 DEF Receive

(* The client gives up, saves what it has, or is killed.                   *)
LEMMA EndCounts ==
  ASSUME Fails \/ Kill \/ (Save /\ UNCHANGED <<est, mode, net>>), AskInv, CountInv, TypeInv
  PROVE  AskInv' /\ CountInv'
<1>1. CASE Fails \/ Kill
  <2>1. Leave /\ UNCHANGED <<est, mode, post, runs>> /\ \E code : Exit(code)
    BY Zenon, <1>1 DEF Fails, Kill, GiveUp, Killed
  <2> QED BY Zenon, <2>1, RunEnds, LeaveCounts
<1>2. CASE Save /\ UNCHANGED <<est, mode, net>>
  <2>1. UNCHANGED <<est, mode, post, line, back, runs>>
    BY Zenon, <1>2 DEF Save, KeyNotExported, Truncate, Fill, CannotOpen, net
  <2> Opened["cert"] = "certopen" /\ Opened["key"] = "keyopen"
    BY Zenon DEF Opened
  <2>2. run.pc \in {"cert", "certopen", "key", "keyopen"} /\ IsRun(run)
    BY Zenon, <1>2 DEF Save, KeyNotExported, Truncate, Fill, CannotOpen, AskInv
  <2>3. back = Nothing /\ line # "client"
    BY Zenon, <2>2 DEF AskInv
  <2>4. Leave
    BY Zenon, <2>1, <2>3 DEF Leave
  <2>5. \/ \E pc \in {"certopen", "keyopen"} : Goto(pc)
        \/ \E code : Exit(code)
        \/ \E wrc : run' = [run EXCEPT !.pc = "key", !.wrc = wrc]
    BY Zenon, <1>2 DEF Save, KeyNotExported, Truncate, Fill, CannotOpen, Proceed
  <2>6. IsRun(run') /\ run'.pc \notin {"ask", "sleep", "sent"}
    <3>1. ASSUME NEW wrc, run' = [run EXCEPT !.pc = "key", !.wrc = wrc]
          PROVE  IsRun(run') /\ run'.pc = "key"
      BY Zenon, <2>2, <3>1 DEF IsRun, Fields
    <3> QED BY Zenon, <2>2, <2>5, <3>1, RunGoesOn, RunEnds
  <2> QED BY Zenon, <2>1, <2>4, <2>6, LeaveCounts
<1> QED BY Zenon, <1>1, <1>2

(* The server handles the client's request.                                *)
LEMMA HandleCounts ==
  ASSUME Handle, AskInv, CountInv, TypeInv
  PROVE  AskInv' /\ CountInv'
<1>1. /\ post # Nothing /\ post' = Nothing /\ back = Nothing /\ Own(post.csr)
      /\ UNCHANGED <<run, runs, mode>>
      /\ line' = "client" => line = "client"
      /\ back' = IF line = "client"
                 THEN [what |-> post.what, code |-> reply', no |-> Len(certs')] ELSE back
  BY Zenon DEF Handle, AskInv, cli
<1>2. OwnCsr' = OwnCsr /\ run.pc # "sleep"
  BY Zenon, <1>1 DEF OwnCsr, AskInv
<1>3. line = "client" => run.pc = "sent" /\ post.csr = OwnCsr
  BY Zenon, <1>1 DEF AskInv
<1>4. CASE post.what = "cacerts"
  <2>1. UNCHANGED <<cfg, pending, certs>>
    BY <1>4 DEF Handle, Other
  <2>2. back' # Nothing => back'.what = "cacerts" /\ line = "client"
    BY Zenon, <1>1, <1>4
  <2>3. AskInv'
    BY Zenon, <1>1, <1>2, <1>3, <2>1, <2>2 DEF AskInv, RequireApproval
  <2>4. OwnParked' = OwnParked /\ OwnCerts' = OwnCerts /\ AsksAnew /\ ~AsksAnew' /\ ~Fetched
    BY Zenon, <1>1, <1>4, <2>1 DEF OwnParked, OwnCerts, AsksAnew, Fetched
  <2>5. CountInv'
    BY <1>1, <2>4, CountsAreNumbers DEF CountInv, Owed, Unit
  <2> QED BY Zenon, <2>3, <2>5
<1>5. CASE post.what # "cacerts"
  <2> PICK csr : csr = post.csr
    OBVIOUS
  <2>1. Handled(csr)
    <3>1. CASE StillPending
      <4>1. UNCHANGED <<cfg, pending, certs>> /\ Slot(csr) # {} /\ RequireApproval
        BY Zenon, <3>1 DEF StillPending
      <4>2. Left' = Left
        BY Zenon, <4>1 DEF Left, OwnParked, OwnCerts
      <4>3. Left \in Nat
        BY CountsAreNumbers DEF Left
      <4>4. \A x : Slot(x) # {} => (Slot(x))' # {}
        BY Zenon, <4>1 DEF Slot
      <4>5. Left' <= Left + Unit(Own(csr) /\ Slot(csr) = {})
        BY <4>2, <4>3 DEF Unit
      <4> QED BY Zenon, <4>1, <4>2, <4>3, <4>4, <4>5 DEF Handled
    <3>2. ASSUME NEW auth, NEW c, Steps(post.path, auth, c, post.csr)
          PROVE  Handled(csr)
      BY Zenon, <3>2, StepCounts DEF AskInv
    <3> QED BY Zenon, <1>5, <3>1, <3>2 DEF Handle, Steps
  <2>2. ~Fetched /\ ~Fetched'
    BY Zenon, <1>1, <1>5 DEF Fetched
  <2>3. back' # Nothing => line = "client" /\ (back'.code = 202 => reply' = 202)
    BY Zenon, <1>1
  <2>4. back' # Nothing /\ back'.code = 202 => (Slot(OwnCsr))' # {}
    <3>1. back' # Nothing /\ back'.code = 202 => csr = OwnCsr' /\ (Slot(csr))' # {}
      BY Zenon, <1>2, <1>3, <2>1, <2>3 DEF Handled
    <3> QED BY <3>1 DEF Slot
  <2>5. AskInv'
    BY Zenon, <1>1, <1>2, <1>3, <2>1, <2>3, <2>4 DEF AskInv, Handled, RequireApproval
  <2>6. AsksAnew <=> Slot(csr) = {}
    BY Zenon, <1>1, <1>5 DEF AsksAnew
  <2>7. ~AsksAnew'
    BY Zenon, <1>1 DEF AsksAnew
  <2>8. Left + Owed <= runs /\ runs \in Nat
    BY Zenon, CountsAreNumbers DEF CountInv, Left, Owed, Unit
  <2>9. Left' + Owed' <= runs'
    <3> DEFINE new == Unit(Own(csr) /\ Slot(csr) = {})
    <3>1. Owed \in Nat /\ Owed' \in Nat /\ new \in Nat /\ Owed' + new <= Owed
      BY <1>1, <2>2, <2>6, <2>7 DEF Owed, Unit
    <3>2. Left \in Nat /\ Left' \in Nat /\ Left' <= Left + new
      BY Zenon, <2>1 DEF Handled
    <3> HIDE DEF new
    <3> QED BY Zenon, <1>1, <2>8, <3>1, <3>2, Balance
  <2> QED BY Zenon, <1>1, <2>5, <2>8, <2>9, CountsAreNumbers DEF CountInv, Left, Owed, Unit
<1> QED BY Zenon, <1>4, <1>5

(* The server drops the connection, and a request nobody read with it.     *)
LEMMA DropCounts ==
  ASSUME Drop, AskInv, CountInv, TypeInv
  PROVE  AskInv' /\ CountInv'
<1>1. /\ UNCHANGED <<cfg, pending, certs, run, runs, mode, back>>
      /\ line' = "none" /\ post' = Nothing
  BY Zenon DEF Drop, Disconnect, cli
<1>2. OwnCsr' = OwnCsr
  BY Zenon, <1>1 DEF OwnCsr
<1>3. (Slot(OwnCsr))' = Slot(OwnCsr)
  BY Zenon, <1>1, <1>2 DEF Slot
<1>4. AskInv'
  BY Zenon, <1>1, <1>3 DEF AskInv, RequireApproval
<1>5. OwnParked' = OwnParked /\ OwnCerts' = OwnCerts /\ Fetched' = Fetched /\ ~AsksAnew'
  BY Zenon, <1>1 DEF OwnParked, OwnCerts, Fetched, AsksAnew
<1>6. CountInv'
  BY <1>1, <1>5, CountsAreNumbers DEF CountInv, Owed, Unit
<1> QED BY Zenon, <1>4, <1>6

(* Other clients neither take the client's CSR out of the queue nor get a  *)
(* certificate for it.                                                     *)
LEMMA OthersCount ==
  ASSUME Others, AskInv, CountInv, TypeInv
  PROVE  AskInv' /\ CountInv'
<1>1. /\ UNCHANGED <<run, runs, mode, post, back>>
      /\ line' = "client" => line = "client"
  BY Zenon DEF Others, cli
<1>2. OwnCsr' = OwnCsr
  BY Zenon, <1>1 DEF OwnCsr
<1>3. /\ UNCHANGED cfg /\ (~RequireApproval => Len(pending') = 0)
      /\ \A x : Own(x) /\ Slot(x) # {} => (Slot(x))' # {}
      /\ Left \in Nat /\ Left' \in Nat /\ Left' <= Left
  <2>1. CASE UNCHANGED <<cfg, pending, certs>>
    <3>1. Left \in Nat /\ Left' = Left
      BY <2>1, CountsAreNumbers DEF Left, OwnParked, OwnCerts
    <3>2. \A x : Own(x) /\ Slot(x) # {} => (Slot(x))' # {}
      BY Zenon, <2>1 DEF Slot
    <3> QED BY <2>1, <3>1, <3>2 DEF AskInv
  <2>2. CASE \E path, auth, c : \E csr \in Csrs : Steps(path, auth, c, csr)
    <3>1. PICK csr \in Csrs : Handled(csr)
      BY Zenon, <2>2, StepCounts DEF AskInv
    <3>2. ~Own(csr)
      BY Zenon, OwnAndOthers
    <3> QED BY <3>1, <3>2 DEF Handled, Unit
  <2>3. \/ UNCHANGED <<cfg, pending, certs>>
        \/ \E path, auth, c : \E csr \in Csrs : Steps(path, auth, c, csr)
    <3>1. CASE EstServerNext
      BY <3>1 DEF EstServerNext, Steps, Connect, Disconnect, Other
    <3>2. CASE ~EstServerNext
      <4>1. \/ \E c \in {Stranger.subj, NoClient} : Connect(TRUE, c)
            \/ \E c \in {Stranger.subj, NoClient} : \/ Park("simpleenroll", TRUE, c, Stranger)
                                                    \/ EnrollNow("simpleenroll", TRUE, c, Stranger)
        BY <3>2 DEF Others
      <4> QED BY Zenon, <4>1, OwnAndOthers DEF Steps, Connect
    <3> QED BY <3>1, <3>2
  <2> QED BY Zenon, <2>1, <2>2, <2>3
<1>4. Slot(OwnCsr) # {} => (Slot(OwnCsr))' # {}
  <2>1. PICK x : x = OwnCsr
    OBVIOUS
  <2>2. Slot(x) # {} => (Slot(x))' # {}
    BY Zenon, <1>3, <2>1, OwnAndOthers
  <2> QED BY Zenon, <1>2, <2>1, <2>2 DEF Slot
<1>5. AskInv'
  BY Zenon, <1>1, <1>2, <1>3, <1>4 DEF AskInv, RequireApproval
<1>6. Fetched' = Fetched
  BY Zenon, <1>1 DEF Fetched
<1>7. AsksAnew' => AsksAnew
  <2>1. CASE post = Nothing
    BY Zenon, <1>1, <2>1 DEF AsksAnew
  <2>2. CASE post # Nothing
    <3>1. PICK x : x = post.csr
      OBVIOUS
    <3>2. Slot(x) # {} => (Slot(x))' # {}
      BY Zenon, <1>3, <2>2, <3>1 DEF AskInv
    <3> QED BY Zenon, <1>1, <2>2, <3>1, <3>2 DEF AsksAnew, Slot
  <2> QED BY Zenon, <2>1, <2>2
<1>8. Left + Owed <= runs /\ runs \in Nat
  BY Zenon, CountsAreNumbers DEF CountInv, Left, Owed, Unit
<1>9. Owed \in Nat /\ Owed' \in Nat /\ Owed' <= Owed
  BY <1>1, <1>6, <1>7 DEF Owed, Unit
<1>10. Left \in Nat /\ Left' \in Nat /\ Left' <= Left
  BY Zenon, <1>3
<1>11. Left' + Owed' <= runs
  <2>1. ASSUME NEW l \in Nat, NEW m \in Nat, NEW o \in Nat, NEW p \in Nat, NEW n \in Nat,
               l + o <= n, m <= l, p <= o
        PROVE  m + p <= n
    BY <2>1
  <2> QED BY Zenon, <1>8, <1>9, <1>10, <2>1
<1> QED BY Zenon, <1>1, <1>5, <1>8, <1>11 DEF CountInv, Left

(* Every step of the composition keeps the count.                          *)
LEMMA EnrollNextCounts ==
  ASSUME EstEnrollNext, AskInv, CountInv, TypeInv
  PROVE  AskInv' /\ CountInv'
  BY Zenon, StartCounts, DialCounts, PostNextCounts, ReceiveCounts, EndCounts, HandleCounts, DropCounts,
     OthersCount DEF EstEnrollNext, Client

(* A run leaves behind one certificate or one CSR in the queue, however its*)
(* POSTs, polls and lost answers fall out (cmd_enroll, cmd_reenroll,       *)
(* handler_enroll).                                                        *)
THEOREM OneRequestHolds == EstEnrollSpec => []OneRequestPerRun
<1>1. EstEnrollInit => EstInv /\ AskInv /\ CountInv
  <2> SUFFICES ASSUME EstEnrollInit PROVE EstInv /\ AskInv /\ CountInv
    OBVIOUS
  <2>1. EstInv
    BY Zenon, EstStarts DEF EstEnrollInit
  <2>2. /\ run = Off /\ runs = 0 /\ line = "none" /\ post = Nothing /\ back = Nothing
        /\ Len(pending) = 0 /\ Len(certs) = 0
    BY Zenon DEF EstEnrollInit, CliInit, EstServerInit
  <2>3. IsRun(run) /\ run.pc = "off"
    BY Zenon, <2>2 DEF IsRun, Fields, Off
  <2>4. AskInv
    BY Zenon, <2>2, <2>3 DEF AskInv
  <2>5. OwnParked = {} /\ OwnCerts = {} /\ ~AsksAnew /\ ~Fetched
    BY <2>2 DEF OwnParked, OwnCerts, AsksAnew, Fetched
  <2>6. CountInv
    BY <2>2, <2>3, <2>5, FS_EmptySet DEF CountInv, Owed, Unit
  <2> QED BY Zenon, <2>1, <2>4, <2>6
<1>2. EstInv /\ AskInv /\ CountInv /\ [EstEnrollNext]_enrol => EstInv' /\ AskInv' /\ CountInv'
  <2>1. EstInv /\ AskInv /\ CountInv /\ EstEnrollNext => EstInv' /\ AskInv' /\ CountInv'
    BY Zenon, EnrollNextKeeps, EnrollNextCounts DEF EstInv
  <2>2. ASSUME EstInv, AskInv, CountInv, UNCHANGED enrol
        PROVE  EstInv' /\ AskInv' /\ CountInv'
    <3>1. UNCHANGED est /\ UNCHANGED <<cfg, pending, certs, run, runs, mode, line, post, back>>
      BY Zenon, <2>2 DEF enrol, est, cli, net
    <3>2. AskInv'
      BY Zenon, <2>2, <3>1 DEF AskInv, RequireApproval, Slot, OwnCsr
    <3>3. CountInv'
      BY Zenon, <2>2, <3>1 DEF CountInv, Owed, OwnParked, OwnCerts, AsksAnew, Fetched, Slot
    <3> QED BY Zenon, <2>2, <3>1, <3>2, <3>3, IdleKeeps
  <2> QED BY Zenon, <2>1, <2>2
<1>3. EstInv /\ CountInv => OneRequestPerRun
  BY CountsAreNumbers DEF EstInv, CountInv, Owed, Unit, OneRequestPerRun, OwnParked, OwnCerts
<1> QED BY <1>1, <1>2, <1>3, PTL DEF EstEnrollSpec
=============================================================================

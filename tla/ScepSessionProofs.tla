--------------------------- MODULE ScepSessionProofs ---------------------------
(***************************************************************************)
(* Proofs about the SCEP client session, for any number of output objects, *)
(* keys, certificates and requests and whatever CertReps the network       *)
(* delivers: a verdict is read only from what the CA signed for the        *)
(* request it is the verdict of, and nothing of a request outlives it.     *)
(***************************************************************************)
EXTENDS ScepSession, SequenceTheorems, TLAPS

AllTxids == {Nothing} \cup ({"key"} \X Keys) \cup ({"random"} \X Nat)
Requests == [op : Ops, txid : AllTxids, ask : Certs \cup {Nothing}]
Outputs  == [status : {"UNSET", "PENDING", "FAILURE", "SUCCESS"},
             cert : Certs \cup {Nothing}, txid : AllTxids,
             fail : BOOLEAN, data : BOOLEAN]
Origins  == [req : Nat, for : Nat, signed : BOOLEAN]

ScepTypes ==
  /\ inActive \in BOOLEAN /\ inMsg \in BOOLEAN /\ inOp \in Ops
  /\ inOut \in Outs \cup {NoOut} /\ lastOut \in Outs \cup {NoOut}
  /\ inTxid \in AllTxids
  /\ out \in [Outs -> Outputs] /\ from \in [Outs -> Origins]
  /\ reqs \in Seq(Requests) /\ serial = Len(reqs)

(* The request in flight is the newest one, its output stays cleared until *)
(* it is finished, and what the session checks a CertRep against is what   *)
(* that request asked.  Only a blocking call borrows from its caller.      *)
InFlight ==
  /\ call # "none" => phase = "busy"
  /\ call # "block" => inBundle # "caller" /\ inSigner # "caller"
  /\ inActive =>
       /\ inOut \in Outs /\ out[inOut] = Cleared
       /\ serial \in 1..Len(reqs) /\ reqs[serial].op = inOp
       /\ inOp \in PkiOps =>
            /\ inNonce = serial /\ inTxid = reqs[serial].txid
            /\ inOp = "GET_CERT" => inIas = reqs[serial].ask

(* AnswersOwnRequest and ResultConsistent, one output at a time: r was     *)
(* filled from f, an answer to one of the requests in log.                 *)
OutputOK(r, f, log) ==
  /\ r.status # "UNSET" =>
       /\ f.req \in 1..Len(log) /\ f.signed /\ f.for = f.req
       /\ r.txid = log[f.req].txid
  /\ r.cert # Nothing <=> r.status = "SUCCESS"
  /\ r.fail <=> r.status = "FAILURE"
  /\ r.cert # Nothing /\ log[f.req].op = "GET_CERT" => r.cert = log[f.req].ask

CallOK(rc, r) == rc = "OK" <=> r.status # "UNSET" \/ r.data

OutputsInv ==
  /\ \A o \in Outs : OutputOK(out[o], from[o], reqs)
  /\ call = "none" /\ lastOut # NoOut => CallOK(sret, out[lastOut])

SessionInv == ScepTypes /\ InFlight /\ NothingKept /\ OutputsInv
-----------------------------------------------------------------------------
(* A cleared output says nothing, and goes with any error code.            *)
LEMMA ClearedOK ==
  /\ Cleared \in Outputs /\ NoRep \in Origins
  /\ \A f, log : OutputOK(Cleared, f, log)
  /\ \A rc : rc # "OK" => CallOK(rc, Cleared)
BY DEF Cleared, NoRep, Outputs, Origins, AllTxids, OutputOK, CallOK

(* scep_call_clear leaves the outputs in order, and the one it was given   *)
(* cleared (the one in flight already is).                                 *)
LEMMA ClearOK ==
  ASSUME SessionInv, NEW o \in Outs, Clear(o)
  PROVE  /\ out' \in [Outs -> Outputs] /\ from' \in [Outs -> Origins]
         /\ \A p \in Outs : OutputOK(out'[p], from'[p], reqs)
         /\ out'[o] = Cleared
         /\ inActive => out'[inOut] = Cleared
<1>1. /\ out \in [Outs -> Outputs] /\ from \in [Outs -> Origins]
      /\ \A p \in Outs : OutputOK(out[p], from[p], reqs)
      /\ inActive => inOut \in Outs /\ out[inOut] = Cleared
  BY DEF SessionInv, ScepTypes, InFlight, OutputsInv
<1>2. CASE inActive /\ o = inOut
  BY <1>1, <1>2 DEF Clear
<1>3. CASE ~(inActive /\ o = inOut)
  <2>1. out' = [out EXCEPT ![o] = Cleared] /\ from' = [from EXCEPT ![o] = NoRep]
    BY <1>3 DEF Clear
  <2> QED BY <1>1, <2>1, ClearedOK
<1> QED BY <1>2, <1>3

(* A new request leaves what was read from earlier ones in order.          *)
LEMMA LogGrows ==
  ASSUME NEW log \in Seq(Requests), NEW q \in Requests, NEW r, NEW f, OutputOK(r, f, log)
  PROVE  OutputOK(r, f, Append(log, q))
<1>1. /\ Len(log) \in Nat /\ Len(Append(log, q)) = Len(log) + 1
      /\ \A k \in 1..Len(log) : Append(log, q)[k] = log[k]
  BY AppendProperties, LenProperties
<1>2. CASE r.status = "UNSET"
  BY <1>2 DEF OutputOK
<1>3. CASE r.status # "UNSET"
  <2>1. f.req \in 1..Len(log)
    BY <1>3 DEF OutputOK
  <2>2. f.req \in 1..Len(Append(log, q)) /\ Append(log, q)[f.req] = log[f.req]
    BY <1>1, <2>1
  <2> QED BY <1>3, <2>1, <2>2 DEF OutputOK
<1> QED BY <1>2, <1>3

(* scep_finish: the CertReps that pass the checks answer the request in    *)
(* flight.                                                                 *)
LEMMA CheckedRep ==
  ASSUME SessionInv, inActive, inOp \in PkiOps,
         NEW p \in SignedReps \cup OtherReps, CheckRep(p) = "OK"
  PROVE  /\ p.signed /\ p.for = serial /\ p.txid = inTxid
         /\ p.cert \in Certs /\ p.st \in {"0", "2", "3"}
<1>1. /\ p.signed /\ p.txid = inTxid /\ p.rn = inNonce /\ p.st \in {"0", "2", "3"}
  BY DEF CheckRep, NonceMatches
<1>2. p \in SignedReps
  BY <1>1 DEF OtherReps
<1>3. p.for = p.rn /\ p.cert \in Certs
  BY <1>2 DEF SignedReps
<1> QED BY <1>1, <1>3 DEF SessionInv, InFlight

(* What scep_session_finish makes of a CertRep that passed the checks.     *)
LEMMA ResultOK ==
  ASSUME SessionInv, inActive, inOp \in PkiOps,
         NEW p \in SignedReps \cup OtherReps, CheckRep(p) = "OK",
         NEW rc \in IF Result(p).status = "UNSET"
                    THEN {"PROTOCOL", "CRYPTO", "MEMORY"} ELSE {"OK"}
  PROVE  LET f == [req |-> serial, for |-> p.for, signed |-> p.signed]
         IN  /\ Result(p) \in Outputs /\ f \in Origins
             /\ OutputOK(Result(p), f, reqs) /\ CallOK(rc, Result(p))
<1> DEFINE f == [req |-> serial, for |-> p.for, signed |-> p.signed]
           r == Result(p)
<1>1. /\ p.signed /\ p.for = serial /\ p.txid = inTxid
      /\ p.cert \in Certs /\ p.st \in {"0", "2", "3"}
  BY CheckedRep
<1>2. /\ serial \in 1..Len(reqs) /\ serial \in Nat /\ inTxid = reqs[serial].txid
      /\ reqs[serial].op = inOp /\ inTxid \in AllTxids
      /\ inOp = "GET_CERT" => inIas = reqs[serial].ask
  BY LenProperties DEF SessionInv, ScepTypes, InFlight
<1>3. \/ /\ r.status \in {"PENDING", "FAILURE"} /\ r.cert = Nothing
         /\ r.fail = (r.status = "FAILURE")
      \/ r.status = "UNSET" /\ r.cert = Nothing /\ r.fail = FALSE
      \/ r.status = "SUCCESS" /\ r.cert = p.cert /\ r.fail = FALSE /\ Unwraps(p)
  BY <1>1 DEF Result, Cleared
<1>4. r \in Outputs /\ r.txid = inTxid /\ r.data = FALSE
  BY <1>1, <1>2 DEF Result, Cleared, Outputs
<1>5. f \in Origins /\ f.req = serial /\ f.for = serial /\ f.signed
  BY <1>1, <1>2 DEF Origins
<1>6. Nothing \notin Certs
  BY ScepAssumption
<1> HIDE DEF f, r
<1>7. OutputOK(r, f, reqs)
  BY <1>1, <1>2, <1>3, <1>4, <1>5, <1>6 DEF OutputOK, Unwraps
<1>8. CallOK(rc, r)
  BY <1>4 DEF CallOK, r
<1> QED BY <1>4, <1>5, <1>7, <1>8 DEF f, r
-----------------------------------------------------------------------------
(* Before the session is opened.                                           *)
LEMMA SessionStarts == ScepInit => SessionInv
<1> SUFFICES ASSUME ScepInit PROVE SessionInv
  OBVIOUS
<1>1. ScepTypes
  BY ClearedOK, EmptySeq DEF ScepInit, CInit, ScepTypes, Ops, GetOps, AllTxids
<1>2. InFlight /\ NothingKept
  BY DEF ScepInit, CInit, InFlight, NothingKept
<1>3. OutputsInv
  BY ClearedOK DEF ScepInit, OutputsInv
<1> QED BY <1>1, <1>2, <1>3 DEF SessionInv

(* A call that returns without finishing a request: refused, or not sent.  *)
LEMMA RefusedKeepsInv ==
  ASSUME SessionInv, NEW o \in Outs, Clear(o), sret' # "OK", lastOut' = o,
         phase' = phase, call = "none", call' = "none", serial' = serial, reqs' = reqs,
         \/ UNCHANGED inflight
         \/ ~inActive /\ Reset
  PROVE  SessionInv'
<1>1. /\ out' \in [Outs -> Outputs] /\ from' \in [Outs -> Origins]
      /\ \A p \in Outs : OutputOK(out'[p], from'[p], reqs)
      /\ out'[o] = Cleared
      /\ inActive => out'[inOut] = Cleared
  BY ClearOK
<1>2. ScepTypes'
  BY <1>1 DEF SessionInv, ScepTypes, AllTxids, inflight, Reset, Forget
<1>3. InFlight' /\ NothingKept'
  BY <1>1 DEF SessionInv, ScepTypes, InFlight, NothingKept, inflight, Reset, Forget
<1>4. OutputsInv'
  BY <1>1, ClearedOK DEF OutputsInv
<1> QED BY <1>2, <1>3, <1>4 DEF SessionInv

(* A call that ends the request in flight, leaving output r read from f.   *)
LEMMA FinishedKeepsInv ==
  ASSUME SessionInv, call # "none", NEW r \in Outputs, NEW f \in Origins,
         OutputOK(r, f, reqs), CallOK(sret', r),
         out' = [out EXCEPT ![inOut] = r], from' = [from EXCEPT ![inOut] = f],
         Reset, lastOut' = inOut, phase' \in {"ready", "dead"}, call' = "none",
         serial' = serial, reqs' = reqs
  PROVE  SessionInv'
<1>1. /\ out \in [Outs -> Outputs] /\ from \in [Outs -> Origins] /\ inOut \in Outs
      /\ \A p \in Outs : OutputOK(out[p], from[p], reqs)
  BY DEF SessionInv, ScepTypes, InFlight, NothingKept, OutputsInv
<1>2. /\ out' \in [Outs -> Outputs] /\ from' \in [Outs -> Origins] /\ out'[inOut] = r
      /\ \A p \in Outs : OutputOK(out'[p], from'[p], reqs)
  BY <1>1
<1>3. ScepTypes'
  BY <1>2 DEF SessionInv, ScepTypes, AllTxids, Reset, Forget
<1>4. InFlight' /\ NothingKept'
  BY DEF InFlight, NothingKept, Reset, Forget
<1>5. OutputsInv'
  BY <1>2 DEF OutputsInv
<1> QED BY <1>3, <1>4, <1>5 DEF SessionInv

(* A call that ends the request in flight and leaves its output cleared.   *)
LEMMA FailedKeepsInv ==
  ASSUME SessionInv, call # "none", sret' # "OK", UNCHANGED <<out, from>>,
         Reset, lastOut' = inOut, phase' \in {"ready", "dead"}, call' = "none",
         serial' = serial, reqs' = reqs
  PROVE  SessionInv'
<1>1. inOut \in Outs /\ out[inOut] = Cleared
  BY DEF SessionInv, InFlight, NothingKept
<1>2. /\ out \in [Outs -> Outputs] /\ from \in [Outs -> Origins]
      /\ out' = [out EXCEPT ![inOut] = Cleared] /\ from' = [from EXCEPT ![inOut] = from[inOut]]
  BY <1>1 DEF SessionInv, ScepTypes
<1>3. from[inOut] \in Origins
  BY <1>1, <1>2
<1> QED BY <1>2, <1>3, ClearedOK, FinishedKeepsInv

(* A call that puts request q in flight.                                   *)
LEMMA BegunKeepsInv ==
  ASSUME SessionInv, ~inActive, NEW op \in Ops, NEW o \in Outs, NEW nb \in BOOLEAN,
         NEW q \in Requests, CBegin(InResp, nb), Clear(o),
         inActive' = TRUE, inOp' = op, inOut' = o, inMsg' = TRUE,
         inTxid' \in AllTxids, reqs' = Append(reqs, q), q.op = op,
         op \in PkiOps => /\ inNonce' = serial + 1 /\ inTxid' = q.txid
                          /\ op = "GET_CERT" => inIas' = q.ask,
         nb => inBundle' # "caller" /\ inSigner' # "caller", lastOut' = lastOut
  PROVE  SessionInv'
<1>1. /\ out' \in [Outs -> Outputs] /\ from' \in [Outs -> Origins]
      /\ \A p \in Outs : OutputOK(out'[p], from'[p], reqs)
      /\ out'[o] = Cleared
  BY ClearOK
<1>2. reqs \in Seq(Requests) /\ serial = Len(reqs) /\ lastOut \in Outs \cup {NoOut}
  BY DEF SessionInv, ScepTypes
<1>3. /\ reqs' \in Seq(Requests) /\ Len(reqs') = Len(reqs) + 1
      /\ reqs'[Len(reqs) + 1] = q /\ Len(reqs) \in Nat
  BY <1>2, AppendProperties, LenProperties
<1>4. /\ phase' = "busy" /\ serial' = serial + 1
      /\ call' = IF nb THEN "nb" ELSE "block"
  BY DEF CBegin
<1>5. ScepTypes'
  BY <1>1, <1>2, <1>3, <1>4 DEF ScepTypes
<1>6. InFlight' /\ NothingKept'
  BY <1>1, <1>2, <1>3, <1>4 DEF InFlight, NothingKept
<1>7. \A p \in Outs : OutputOK(out'[p], from'[p], reqs')
  BY <1>1, <1>2, LogGrows
<1>8. OutputsInv'
  BY <1>4, <1>7 DEF OutputsInv
<1> QED BY <1>5, <1>6, <1>8 DEF SessionInv

(* The transactionIDs of earlier requests, which a poll may name.          *)
LEMMA TxidTypes ==
  ASSUME SessionInv, NEW op, NEW key \in Keys, NEW given \in Txids \cup {Nothing}
  PROVE  Txid(op, key, given) \in AllTxids
<1>1. Len(reqs) \in Nat /\ \A n \in 1..Len(reqs) : reqs[n] \in Requests
  BY LenProperties, ElementOfSeq DEF SessionInv, ScepTypes
<1>2. Txids \subseteq AllTxids
  BY <1>1 DEF Txids, Requests
<1>3. serial + 1 \in Nat
  BY <1>1 DEF SessionInv, ScepTypes
<1>4. <<"key", key>> \in AllTxids /\ <<"random", serial + 1>> \in AllTxids
      /\ Nothing \in AllTxids
  BY <1>3 DEF AllTxids
<1> QED BY <1>2, <1>4 DEF Txid
-----------------------------------------------------------------------------
(* The calls that begin a request.                                         *)
LEMMA BeginKeepsInv ==
  ASSUME SessionInv, NEW op \in Ops, NEW o \in Outs, NEW enc, NEW nb \in BOOLEAN
  PROVE  /\ BeginGet(op, o, enc, nb) => SessionInv'
         /\ \A key \in Keys, cert \in BOOLEAN, given \in Txids \cup {Nothing}, ask \in Certs :
              BeginPki(op, o, enc, nb, key, cert, given, ask) => SessionInv'
<1>1. ASSUME BeginGet(op, o, enc, nb) PROVE SessionInv'
  <2> DEFINE q == [op |-> op, txid |-> Nothing, ask |-> Nothing]
  <2>1. q \in Requests /\ q.op = op
    BY DEF Requests, AllTxids
  <2>2. inTxid' \in AllTxids /\ op \notin PkiOps
    BY <1>1 DEF SessionInv, ScepTypes, BeginGet, GetOps, PkiOps
  <2>3. nb => inBundle' # "caller" /\ inSigner' # "caller"
    BY <1>1 DEF SessionInv, NothingKept, BeginGet, Held
  <2> QED BY <1>1, <2>1, <2>2, <2>3, BegunKeepsInv DEF BeginGet
<1>2. ASSUME NEW key \in Keys, NEW cert \in BOOLEAN, NEW given \in Txids \cup {Nothing},
             NEW ask \in Certs, BeginPki(op, o, enc, nb, key, cert, given, ask)
      PROVE  SessionInv'
  <2> DEFINE q == [op |-> op, txid |-> inTxid', ask |-> inIas']
  <2>1. inTxid' \in AllTxids
    BY <1>2, TxidTypes DEF BeginPki
  <2>2. inIas' \in Certs \cup {Nothing}
    BY <1>2 DEF BeginPki
  <2>3. q \in Requests /\ q.op = op /\ q.txid = inTxid' /\ q.ask = inIas'
    BY <2>1, <2>2 DEF Requests
  <2>4. nb => inBundle' # "caller" /\ inSigner' # "caller"
    BY <1>2 DEF BeginPki, Held
  <2>5. reqs' = Append(reqs, q) /\ inNonce' = serial + 1
    BY <1>2 DEF BeginPki
  <2> HIDE DEF q
  <2> QED BY <1>2, <2>1, <2>3, <2>4, <2>5, BegunKeepsInv DEF BeginPki
<1> QED BY <1>1, <1>2

(* scep_session_finish on the response to a PKIOperation.                  *)
LEMMA FinishPkiKeepsInv ==
  ASSUME SessionInv, NEW p \in SignedReps \cup OtherReps, FinishPki(p)
  PROVE  SessionInv'
<1>1. /\ inActive /\ inOp \in PkiOps /\ call # "none" /\ Reset /\ lastOut' = inOut
      /\ phase' \in {"ready", "dead"} /\ call' = "none" /\ serial' = serial /\ reqs' = reqs
  BY DEF SessionInv, NothingKept, FinishPki, CComplete
<1>2. CASE /\ CheckRep(p) = "OK"
           /\ out' = [out EXCEPT ![inOut] = Result(p)]
           /\ from' = [from EXCEPT ![inOut] =
                         [req |-> serial, for |-> p.for, signed |-> p.signed]]
           /\ sret' \in IF Result(p).status = "UNSET"
                        THEN {"PROTOCOL", "CRYPTO", "MEMORY"} ELSE {"OK"}
  BY <1>1, <1>2, ResultOK, FinishedKeepsInv
<1>3. CASE UNCHANGED <<out, from>> /\ sret' # "OK"
  BY <1>1, <1>3, FailedKeepsInv
<1> QED BY <1>2, <1>3 DEF FinishPki

(* scep_session_finish on the response to a GET.                           *)
LEMMA FinishGetKeepsInv ==
  ASSUME SessionInv, NEW b \in BOOLEAN, FinishGet(b)
  PROVE  SessionInv'
<1>1. /\ inActive /\ call # "none" /\ Reset /\ lastOut' = inOut
      /\ phase' \in {"ready", "dead"} /\ call' = "none" /\ serial' = serial /\ reqs' = reqs
  BY DEF SessionInv, NothingKept, FinishGet, CComplete
<1>2. CASE /\ out' = [out EXCEPT ![inOut].data = TRUE]
           /\ from' = [from EXCEPT ![inOut] =
                         [req |-> serial, for |-> serial, signed |-> b]]
           /\ sret' = "OK"
  <2> DEFINE r == [status |-> "UNSET", cert |-> Nothing, txid |-> Nothing,
                   fail |-> FALSE, data |-> TRUE]
             f == [req |-> serial, for |-> serial, signed |-> b]
  <2>1. out \in [Outs -> Outputs] /\ inOut \in Outs /\ out[inOut] = Cleared
    BY <1>1 DEF SessionInv, ScepTypes, InFlight
  <2>2. out' = [out EXCEPT ![inOut] = r]
    <3>1. ASSUME NEW x, x = [Cleared EXCEPT !.data = TRUE] PROVE x = r
      BY <3>1 DEF Cleared
    <3>2. out' = [out EXCEPT ![inOut] = [Cleared EXCEPT !.data = TRUE]]
      BY <1>2, <2>1
    <3> QED BY <3>1, <3>2
  <2>3. r \in Outputs /\ OutputOK(r, f, reqs) /\ CallOK("OK", r)
    BY DEF Outputs, AllTxids, OutputOK, CallOK
  <2>4. serial \in Nat
    BY LenProperties DEF SessionInv, ScepTypes
  <2>5. f \in Origins
    BY <2>4 DEF Origins
  <2> HIDE DEF r, f
  <2>6. from' = [from EXCEPT ![inOut] = f]
    BY <1>2 DEF f
  <2> QED BY <1>1, <1>2, <2>2, <2>3, <2>5, <2>6, FinishedKeepsInv
<1>3. CASE UNCHANGED <<out, from>> /\ sret' # "OK"
  BY <1>1, <1>3, FailedKeepsInv
<1> QED BY <1>2, <1>3 DEF FinishGet

(* Every step of the session keeps the invariant.                          *)
LEMMA SessionSteps == SessionInv /\ [ScepNext]_svars => SessionInv'
<1> SUFFICES ASSUME SessionInv, [ScepNext]_svars PROVE SessionInv'
  OBVIOUS
<1>1. CASE Open
  <2>1. ScepTypes' /\ InFlight' /\ NothingKept'
    BY <1>1 DEF SessionInv, ScepTypes, InFlight, NothingKept, Open, COpen, inflight
  <2>2. OutputsInv'
    BY <1>1 DEF SessionInv, OutputsInv, Open, COpen
  <2> QED BY <2>1, <2>2 DEF SessionInv
<1>2. CASE Close
  <2>1. ScepTypes' /\ InFlight' /\ NothingKept'
    BY <1>2 DEF SessionInv, ScepTypes, AllTxids, InFlight, NothingKept, Close, CClose,
                Reset, Forget
  <2>2. OutputsInv'
    BY <1>2 DEF SessionInv, OutputsInv, Close, CClose
  <2> QED BY <2>1, <2>2 DEF SessionInv
<1>3. CASE Want
  <2>1. inOut \in Outs /\ out[inOut] = Cleared
    BY <1>3 DEF SessionInv, InFlight, NothingKept, Want, CWant
  <2>2. ScepTypes' /\ InFlight' /\ NothingKept'
    BY <1>3, <2>1 DEF SessionInv, ScepTypes, InFlight, NothingKept, Want, CWant, inflight
  <2>3. CallOK(sret', out'[lastOut'])
    BY <1>3, <2>1, ClearedOK DEF Want
  <2>4. OutputsInv'
    BY <1>3, <2>3 DEF SessionInv, OutputsInv, Want
  <2> QED BY <2>2, <2>4 DEF SessionInv
<1>4. CASE SendFails
  BY <1>4, FailedKeepsInv DEF SendFails, CFail, Errors
<1>5. CASE FinishStatus
  BY <1>5, FailedKeepsInv DEF FinishStatus, CComplete
<1>6. ASSUME NEW o \in Outs, NotSent(o) PROVE SessionInv'
  <2>1. /\ phase' = phase /\ call' = "none" /\ sret' # "OK" /\ serial' = serial
    BY <1>6 DEF NotSent, CBeginRefused, CRefuse, cvars
  <2> QED BY <1>6, <2>1, RefusedKeepsInv DEF NotSent
<1>7. ASSUME NEW op \in Ops, NEW o \in Outs, NEW enc, Resume(op, o, enc)
      PROVE  SessionInv'
  <2>1. ScepTypes' /\ InFlight' /\ NothingKept'
    BY <1>7 DEF SessionInv, ScepTypes, InFlight, NothingKept, Resume, CResume, inflight
  <2>2. OutputsInv'
    BY <1>7 DEF SessionInv, OutputsInv, Resume, CResume
  <2> QED BY <2>1, <2>2 DEF SessionInv
<1>8. ASSUME NEW op \in Ops, NEW o \in Outs, NEW enc, NEW nb, Refuse(op, o, enc, nb)
      PROVE  SessionInv'
  BY <1>8, RefusedKeepsInv DEF Refuse, cvars
<1>9. CASE UNCHANGED svars
  <2>1. ScepTypes' /\ InFlight' /\ NothingKept'
    BY <1>9 DEF SessionInv, ScepTypes, InFlight, NothingKept, svars, cvars, inflight
  <2>2. OutputsInv'
    BY <1>9 DEF SessionInv, OutputsInv, svars, cvars
  <2> QED BY <2>1, <2>2 DEF SessionInv
<1> QED BY <1>1, <1>2, <1>3, <1>4, <1>5, <1>6, <1>7, <1>8, <1>9,
           BeginKeepsInv, FinishPkiKeepsInv, FinishGetKeepsInv DEF ScepNext
-----------------------------------------------------------------------------
(* Every reachable state satisfies the inductive invariant.                *)
THEOREM SessionInvHolds == ScepSpec => []SessionInv
BY SessionStarts, SessionSteps, PTL DEF ScepSpec

(* scep_session_reset runs on every path that ends a request: no key,      *)
(* nonce, transactionID or borrowed buffer is left behind, and the session *)
(* and the HTTP session under it agree on whether a request is in flight.  *)
THEOREM NothingKeptHolds == ScepSpec => []NothingKept
<1>1. SessionInv => NothingKept
  BY DEF SessionInv
<1> QED BY <1>1, SessionInvHolds, PTL

(* The checks of scep_finish: a PKIOperation reports a verdict only from a *)
(* CertRep the CA signed for that very request.                            *)
THEOREM AnswersOwnRequestHolds == ScepSpec => []AnswersOwnRequest
<1>1. SessionInv => AnswersOwnRequest
  BY DEF SessionInv, OutputsInv, OutputOK, AnswersOwnRequest
<1> QED BY <1>1, SessionInvHolds, PTL

(* What a call returns and the output it leaves agree, and a GetCert       *)
(* succeeds only with the certificate it asked for.                        *)
THEOREM ResultConsistentHolds == ScepSpec => []ResultConsistent
<1>1. SessionInv => ResultConsistent
  BY DEF SessionInv, OutputsInv, OutputOK, CallOK, ResultConsistent
<1> QED BY <1>1, SessionInvHolds, PTL
=============================================================================

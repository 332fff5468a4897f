------------------------------ MODULE ScepSession ------------------------------
(***************************************************************************)
(* The SCEP client session of src/scep/scep_client.c: one pkiMessage or    *)
(* GET round trip at a time over an HTTP session (HttpContract), blocking  *)
(* or driven by repeated _nb calls that must name the operation, output    *)
(* and encoding in flight.  The network may hand the client any CertRep    *)
(* the CA has signed so far, for this request or an older one, and any     *)
(* message the CA has not signed.                                          *)
(***************************************************************************)
EXTENDS HttpContract, Sequences

CONSTANTS
  InResp,      \* the session's own WolfCertHttpResponse, in_resp
  Outs,        \* output objects of the caller
  NoOut,       \* in_out == NULL
  Keys,        \* signer keys
  Certs,       \* certificates a GetCert may name and a CertRep may carry
  Nothing,     \* no key, no transactionID, no certificate
  TxidMode     \* txid_mode: "pubkey" or "random"

ASSUME ScepAssumption ==
  /\ Resps = {InResp} /\ NoResp # InResp
  /\ NoOut \notin Outs /\ Nothing \notin Keys \cup Certs
  /\ TxidMode \in {"pubkey", "random"}
  /\ MaxReqs \in Nat

VARIABLES
  \* struct WolfCertScepSession; the phase of its http member is the contract's
  inActive,    \* in_active
  inOp,        \* in_op
  inEnc,       \* in_enc
  inOut,       \* in_out
  inMsg,       \* in_url, in_pki and in_req are held
  inBundle,    \* in_ca_bundle: "none", "own" copy or the "caller"'s
  inSigner,    \* in_signer: the same
  inKey,       \* in_signer_key
  inTxid,      \* in_txid
  inNonce,     \* in_nonce
  inIas,       \* in_ias: the certificate a GetCert asks for
  \* the caller
  out,         \* contents of the output objects
  sret,        \* what the newest finished call returned
  lastOut,     \* the output object it was given
  \* history: what each request asked, and what each output was filled from
  reqs, from

inflight == <<inActive, inOp, inEnc, inOut, inMsg, inBundle, inSigner, inKey,
              inTxid, inNonce, inIas>>
svars == <<cvars, inflight, out, sret, lastOut, reqs, from>>

GetOps == {"GET_CA_CAPS", "GET_CA_CERT", "GET_NEXT_CA_CERT"}
PkiOps == {"PKCS_REQ", "RENEWAL", "GET_CERT_INITIAL", "GET_CERT"}
Ops  == GetOps \cup PkiOps
Encs == {"PEM", "DER"}

Cleared == [status |-> "UNSET", cert |-> Nothing, txid |-> Nothing,
            fail |-> FALSE, data |-> FALSE]
NoRep == [req |-> 0, for |-> 0, signed |-> FALSE]

ScepInit ==
  /\ CInit
  /\ inActive = FALSE /\ inOp = "GET_CA_CAPS" /\ inEnc = "PEM" /\ inOut = NoOut
  /\ inMsg = FALSE /\ inBundle = "none" /\ inSigner = "none"
  /\ inKey = Nothing /\ inTxid = Nothing /\ inNonce = 0 /\ inIas = Nothing
  /\ out = [o \in Outs |-> Cleared] /\ sret = "OK" /\ lastOut = NoOut
  /\ reqs = <<>> /\ from = [o \in Outs |-> NoRep]
-----------------------------------------------------------------------------
(* scep_session_reset: in_op and in_enc are left, and only read while      *)
(* in_active.                                                              *)
Forget_ButKey ==
  /\ inOut' = NoOut /\ inMsg' = FALSE
  /\ inBundle' = "none" /\ inSigner' = "none"
  /\ inTxid' = Nothing /\ inNonce' = 0 /\ inIas' = Nothing
  /\ UNCHANGED <<inOp, inEnc, inKey>>

Forget ==
  /\ inOut' = NoOut /\ inMsg' = FALSE
  /\ inBundle' = "none" /\ inSigner' = "none" /\ inKey' = Nothing
  /\ inTxid' = Nothing /\ inNonce' = 0 /\ inIas' = Nothing
  /\ UNCHANGED <<inOp, inEnc>>

Reset == Forget /\ inActive' = FALSE

(* scep_call_clear: every call clears its output first, unless that is the *)
(* output of the request in flight.                                        *)
Clear(o) ==
  IF inActive /\ o = inOut
  THEN UNCHANGED <<out, from>>
  ELSE /\ out' = [out EXCEPT ![o] = Cleared]
       /\ from' = [from EXCEPT ![o] = NoRep]

(* wolfcert_scep_session_open (a failed open leaves nothing) and _close.   *)
Open ==
  /\ COpen
  /\ UNCHANGED <<inflight, out, sret, lastOut, reqs, from>>

Close ==
  /\ CClose
  /\ Reset
  /\ UNCHANGED <<out, sret, lastOut, reqs, from>>

(* scep_session_call returning before it has built a request: a request in *)
(* flight is continued by the _nb call naming its operation, output and    *)
(* encoding and by nothing else; otherwise scep_call_check refused.        *)
Continues(op, o, enc, nb) == nb /\ op = inOp /\ o = inOut /\ enc = inEnc

Refuse(op, o, enc, nb) ==
  /\ phase # "none" /\ call = "none"
  /\ \/ inActive /\ ~Continues(op, o, enc, nb) /\ sret' = "BAD_ARG"
     \/ ~inActive /\ sret' \in {"BAD_ARG", "UNSUPPORTED"}
  /\ Clear(o)
  /\ lastOut' = o
  /\ UNCHANGED <<cvars, inflight, reqs>>

(* scep_session_begin failing, or the HTTP session not taking the request  *)
(* that was built: whatever had been put in flight is reset.               *)
NotSent(o) ==
  /\ phase # "none" /\ call = "none" /\ ~inActive
  /\ \/ UNCHANGED cvars /\ sret' \in {"MEMORY", "CRYPTO", "UNSUPPORTED"}
     \/ CBeginRefused(InResp) /\ sret' = ret'
     \/ CRefuse /\ sret' = ret'
  /\ Reset
  /\ Clear(o)
  /\ lastOut' = o
  /\ UNCHANGED reqs

(* scep_build_txid: inherited, derived from the signer key, or random.     *)
Txid(op, key, given) ==
  CASE op = "GET_CERT_INITIAL" -> given
    [] op # "GET_CERT_INITIAL" /\ TxidMode = "pubkey" -> <<"key", key>>
    [] OTHER -> <<"random", serial + 1>>

Txids == {r.txid : r \in {reqs[n] : n \in 1..Len(reqs)}} \ {Nothing}

(* What the session keeps of the caller's buffers: an _nb request outlives *)
(* the call and copies them, a blocking one borrows them.  A request       *)
(* without a signer certificate makes a self-signed one of its own.        *)
Held(nb) == IF nb THEN "own" ELSE "caller"

HasCert(op) ==
  CASE op \in {"RENEWAL", "GET_CERT"} -> {TRUE}
    [] op = "GET_CERT_INITIAL" -> BOOLEAN
    [] OTHER -> {FALSE}

(* scep_session_begin_pki_op and scep_prepare, then the start of the send. *)
BeginPki(op, o, enc, nb, key, cert, given, ask) ==
  /\ op \in PkiOps /\ cert \in HasCert(op) /\ ~inActive
  /\ CBegin(InResp, nb)
  /\ Clear(o)
  /\ inActive' = TRUE /\ inOp' = op /\ inEnc' = enc /\ inOut' = o
  /\ inMsg' = TRUE
  /\ inBundle' = Held(nb)
  /\ inSigner' = IF cert THEN Held(nb) ELSE "own"
  /\ inKey' = key
  /\ inTxid' = Txid(op, key, given)
  /\ inNonce' = serial + 1
  /\ inIas' = IF op = "GET_CERT" THEN ask ELSE Nothing
  /\ reqs' = Append(reqs, [op |-> op, txid |-> inTxid', ask |-> inIas'])
  /\ UNCHANGED <<sret, lastOut>>

(* scep_session_begin_get, then the start of the send.                     *)
BeginGet(op, o, enc, nb) ==
  /\ op \in GetOps /\ ~inActive
  /\ CBegin(InResp, nb)
  /\ Clear(o)
  /\ inActive' = TRUE /\ inOp' = op /\ inEnc' = enc /\ inOut' = o
  /\ inMsg' = TRUE
  /\ inBundle' = IF op = "GET_NEXT_CA_CERT" THEN Held(nb) ELSE "none"
  /\ reqs' = Append(reqs, [op |-> op, txid |-> Nothing, ask |-> Nothing])
  /\ UNCHANGED <<inSigner, inKey, inTxid, inNonce, inIas, sret, lastOut>>

Resume(op, o, enc) ==
  /\ inActive /\ Continues(op, o, enc, TRUE)
  /\ CResume
  /\ UNCHANGED <<inflight, out, sret, lastOut, reqs, from>>
-----------------------------------------------------------------------------
(* scep_session_send after the HTTP session returned.                      *)
Want ==
  /\ CWant
  /\ sret' = "WANT" /\ lastOut' = inOut
  /\ UNCHANGED <<inflight, out, reqs, from>>

SendFails ==
  /\ CFail
  /\ Reset
  /\ sret' = ret' /\ lastOut' = inOut
  /\ UNCHANGED <<out, reqs, from>>

(* scep_session_finish on a response that carries no reply to parse.       *)
FinishStatus ==
  /\ CComplete
  /\ Reset
  /\ sret' \in {"HTTP"} \cup
               (IF inOp = "GET_NEXT_CA_CERT" THEN {"NOT_FOUND"} ELSE {})
  /\ lastOut' = inOut
  /\ UNCHANGED <<out, reqs, from>>

(* Messages a 200 response may carry (external).  The CA signs CertReps    *)
(* for requests it was sent, once it has them.                             *)
SignedReps ==
  {[signed |-> TRUE, for |-> n, certRep |-> TRUE, txid |-> reqs[n].txid,
    rn |-> n, st |-> st, fi |-> fi, env |-> env, cert |-> c] :
      n \in {m \in 1..Len(reqs) : reqs[m].op \in PkiOps},
      st \in {"0", "2", "3", "other"}, fi \in BOOLEAN, env \in BOOLEAN,
      c \in Certs}

OtherReps ==
  {[signed |-> FALSE, for |-> 0, certRep |-> b, txid |-> t, rn |-> n,
    st |-> "0", fi |-> TRUE, env |-> TRUE, cert |-> c] :
      b \in BOOLEAN, t \in {inTxid} \cup Txids, n \in 0..serial, c \in Certs}

(* scep_finish, the checks on the CertRep in their order.                  *)
NonceMatches_Any(p) == TRUE

NonceMatches(p) == p.rn = inNonce

CheckRep(p) ==
  IF ~p.certRep \/ p.txid # inTxid THEN "PROTOCOL"
  ELSE IF ~p.signed THEN "AUTH"
  ELSE IF \/ ~NonceMatches(p)
          \/ p.st \notin {"0", "2", "3"}
          \/ p.st = "2" /\ ~p.fi THEN "PROTOCOL"
  ELSE "OK"

(* The output a CertRep that passed the checks leaves: a certificate that  *)
(* cannot be unwrapped, or is not the one GetCert asked for, is no SUCCESS.*)
Unwraps_AnyCert(p) == p.env

Unwraps(p) == p.env /\ (inOp = "GET_CERT" => p.cert = inIas)

Result(p) ==
  CASE p.st = "3" -> [Cleared EXCEPT !.txid = p.txid, !.status = "PENDING"]
    [] p.st = "2" -> [Cleared EXCEPT !.txid = p.txid, !.status = "FAILURE",
                                     !.fail = TRUE]
    [] p.st = "0" -> [Cleared EXCEPT !.txid = p.txid,
                        !.status = IF Unwraps(p) THEN "SUCCESS" ELSE "UNSET",
                        !.cert = IF Unwraps(p) THEN p.cert ELSE Nothing]

(* scep_session_finish on a PKIOperation; memory may run out at any check. *)
FinishPki(p) ==
  /\ CComplete /\ inOp \in PkiOps
  /\ Reset
  /\ lastOut' = inOut
  /\ \/ /\ CheckRep(p) = "OK"
        /\ out' = [out EXCEPT ![inOut] = Result(p)]
        /\ from' = [from EXCEPT ![inOut] =
                      [req |-> serial, for |-> p.for, signed |-> p.signed]]
        /\ sret' \in IF Result(p).status = "UNSET"
                     THEN {"PROTOCOL", "CRYPTO", "MEMORY"} ELSE {"OK"}
     \/ /\ CheckRep(p) # "OK"
        /\ sret' = CheckRep(p)
        /\ UNCHANGED <<out, from>>
     \/ sret' \in {"MEMORY", "PARSE"} /\ UNCHANGED <<out, from>>
  /\ UNCHANGED reqs

(* scep_session_finish on the GETs: a GetNextCACert reply must be signed   *)
(* by the current CA, the others are taken as they come or do not parse.   *)
FinishGet(signed) ==
  /\ CComplete /\ inOp \in GetOps
  /\ Reset
  /\ lastOut' = inOut
  /\ \/ /\ inOp = "GET_NEXT_CA_CERT" => signed
        /\ out' = [out EXCEPT ![inOut].data = TRUE]
        /\ from' = [from EXCEPT ![inOut] =
                      [req |-> serial, for |-> serial, signed |-> signed]]
        /\ sret' = "OK"
     \/ /\ inOp # "GET_CA_CAPS"
        /\ sret' \in {"HTTP", "PARSE", "AUTH", "MEMORY"}
        /\ UNCHANGED <<out, from>>
  /\ UNCHANGED reqs
-----------------------------------------------------------------------------
ScepNext ==
  \/ Open \/ Close \/ Want \/ SendFails \/ FinishStatus
  \/ \E b \in BOOLEAN : FinishGet(b)
  \/ \E p \in SignedReps \cup OtherReps : FinishPki(p)
  \/ \E o \in Outs : NotSent(o)
  \/ \E op \in Ops, o \in Outs, enc \in Encs :
       \/ Resume(op, o, enc)
       \/ \E nb \in BOOLEAN :
            \/ Refuse(op, o, enc, nb)
            \/ BeginGet(op, o, enc, nb)
            \/ \E key \in Keys, cert \in BOOLEAN, t \in Txids \cup {Nothing},
                  ask \in Certs :
                 /\ op = "GET_CERT_INITIAL" <=> t # Nothing
                 /\ BeginPki(op, o, enc, nb, key, cert, t, ask)

ScepSpec == ScepInit /\ [][ScepNext]_svars
-----------------------------------------------------------------------------
(* Properties                                                              *)

(* The SCEP session and the HTTP session under it agree on whether a       *)
(* request is in flight, on every error path included.  Were they to part, *)
(* either the next call would be refused for ever or an old response would *)
(* be parsed as the answer to a new request.  Once no request is in flight *)
(* the session holds nothing of the last one: no key, nonce or             *)
(* transactionID and no pointer into caller memory; and a request that     *)
(* outlives its call refers to no buffer of the caller's but the output, as*)
(* the caller may free its certificates between _nb calls.                 *)
NothingKept ==
  /\ inActive <=> phase = "busy"
  /\ ~inActive => /\ inKey = Nothing /\ inNonce = 0 /\ inTxid = Nothing
                  /\ inIas = Nothing /\ ~inMsg /\ inOut = NoOut
                  /\ inBundle = "none" /\ inSigner = "none"
  /\ call = "none" => inBundle # "caller" /\ inSigner # "caller"

(* Whatever the network delivers, a PKIOperation reports SUCCESS, PENDING  *)
(* or FAILURE only from a CertRep the CA signed for that very request: an  *)
(* old answer to an earlier poll of the same transaction does not pass.    *)
AnswersOwnRequest ==
  \A o \in Outs : out[o].status # "UNSET" =>
    /\ from[o].signed /\ from[o].for = from[o].req
    /\ out[o].txid = reqs[from[o].req].txid

(* cert_pem is populated iff the status is SUCCESS (scep.h), failInfo iff  *)
(* it is FAILURE, a GetCert never succeeds with another certificate, and a *)
(* call returns OK exactly when it leaves a verdict or the bytes it read.  *)
ResultConsistent ==
  /\ \A o \in Outs :
       /\ out[o].cert # Nothing <=> out[o].status = "SUCCESS"
       /\ out[o].fail <=> out[o].status = "FAILURE"
       /\ out[o].cert # Nothing /\ reqs[from[o].req].op = "GET_CERT" =>
            out[o].cert = reqs[from[o].req].ask
  /\ call = "none" /\ lastOut # NoOut =>
       (sret = "OK" <=> out[lastOut].status # "UNSET" \/ out[lastOut].data)
=============================================================================

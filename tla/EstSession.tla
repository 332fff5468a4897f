------------------------------ MODULE EstSession ------------------------------
(***************************************************************************)
(* The EST client session of src/est/est_client.c: one round trip at a     *)
(* time over an HTTP session (HttpContract), blocking or driven by         *)
(* repeated _nb calls, and the verdict est_finish reads from the response. *)
(***************************************************************************)
EXTENDS HttpContract

CONSTANTS
  InResp,        \* the session's own WolfCertHttpResponse, in_resp
  Outs,          \* output objects of the caller
  NoOut          \* in_out == NULL

ASSUME EstAssumption ==
  /\ Resps = {InResp} /\ NoResp # InResp
  /\ NoOut \notin Outs

VARIABLES
  \* struct WolfCertEstSession; the phase of its http member is the contract's
  inActive,    \* in_active
  inOp,        \* in_op
  inEnc,       \* in_enc
  inOut,       \* in_out
  inMsg,       \* in_url, in_body and in_req are held
  cred,        \* basic_user and basic_pass are held
  hasIdentity, \* has_client_identity
  \* the caller
  out,         \* contents of the output objects
  sret,        \* what the newest finished call returned
  lastOut,     \* the output object it was given
  lastOp       \* the operation it ran

inflight == <<inActive, inOp, inEnc, inOut, inMsg>>
evars == <<cvars, inflight, cred, hasIdentity, out, sret, lastOut, lastOp>>

EnrollOps == {"SIMPLE_ENROLL", "SIMPLE_REENROLL"}
Ops == {"GET_CACERTS", "GET_CSRATTRS"} \cup EnrollOps

(* The wrappers fix the encoding of every operation but GET_CACERTS.       *)
EncsOf(op) == CASE op = "GET_CACERTS"  -> {"PEM", "DER"}
                [] op = "GET_CSRATTRS" -> {"DER"}
                [] OTHER -> {"PEM"}

Cleared == [status |-> "UNSET", data |-> FALSE, retry |-> FALSE]

EstInit ==
  /\ CInit
  /\ inActive = FALSE /\ inOp = "GET_CACERTS" /\ inEnc = "PEM"
  /\ inOut = NoOut /\ inMsg = FALSE /\ cred = FALSE /\ hasIdentity = FALSE
  /\ out = [o \in Outs |-> Cleared] /\ sret = "OK"
  /\ lastOut = NoOut /\ lastOp = "GET_CACERTS"
-----------------------------------------------------------------------------
Reset ==
  /\ inActive' = FALSE /\ inOut' = NoOut /\ inMsg' = FALSE
  /\ UNCHANGED <<inOp, inEnc>>

Clear(o) ==
  out' = IF inActive /\ o = inOut THEN out ELSE [out EXCEPT ![o] = Cleared]

(* wolfcert_est_session_open: the credentials are copied before the HTTP   *)
(* session is opened, and every failure closes what there is.              *)
OpenFails ==
  /\ phase = "none"
  /\ cred' = FALSE /\ hasIdentity' = FALSE
  /\ Reset
  /\ UNCHANGED <<cvars, out, sret, lastOut, lastOp>>

Open ==
  /\ COpen
  /\ cred' = TRUE /\ hasIdentity' \in BOOLEAN
  /\ UNCHANGED <<inflight, out, sret, lastOut, lastOp>>

Close ==
  /\ CClose
  /\ Reset
  /\ cred' = FALSE /\ hasIdentity' = FALSE
  /\ UNCHANGED <<out, sret, lastOut, lastOp>>

Continues(op, o, enc, nb) == nb /\ op = inOp /\ o = inOut /\ enc = inEnc

(* est_session_call up to est_session_begin.  est_call_check may refuse    *)
(* any call; a reenroll without the certificate to renew is always refused.*)
Refuse(op, o, enc, nb) ==
  /\ phase # "none" /\ call = "none"
  /\ inActive => ~Continues(op, o, enc, nb)
  /\ Clear(o)
  /\ sret' = "BAD_ARG" /\ lastOut' = o /\ lastOp' = op
  /\ UNCHANGED <<cvars, inflight, cred, hasIdentity>>

MayBegin(op) == ~inActive /\ (op = "SIMPLE_REENROLL" => hasIdentity)

NotSent(op, o) ==
  /\ phase # "none" /\ call = "none" /\ MayBegin(op)
  /\ \/ UNCHANGED cvars /\ sret' \in {"MEMORY", "CRYPTO"}
     \/ CBeginRefused(InResp) /\ sret' = ret'
     \/ CRefuse /\ sret' = ret'
  /\ Clear(o)
  /\ Reset
  /\ lastOut' = o /\ lastOp' = op
  /\ UNCHANGED <<cred, hasIdentity>>

Begin(op, o, enc, nb) ==
  /\ MayBegin(op)
  /\ CBegin(InResp, nb)
  /\ Clear(o)
  /\ inActive' = TRUE /\ inOp' = op /\ inEnc' = enc /\ inOut' = o
  /\ inMsg' = TRUE
  /\ UNCHANGED <<cred, hasIdentity, sret, lastOut, lastOp>>

Resume(op, o, enc) ==
  /\ inActive /\ Continues(op, o, enc, TRUE)
  /\ CResume
  /\ UNCHANGED <<inflight, cred, hasIdentity, out, sret, lastOut, lastOp>>

Want ==
  /\ CWant
  /\ sret' = "WANT" /\ lastOut' = inOut /\ lastOp' = inOp
  /\ UNCHANGED <<inflight, cred, hasIdentity, out>>

SendFails_NoReset ==
  /\ CFail
  /\ sret' = ret' /\ lastOut' = inOut /\ lastOp' = inOp
  /\ UNCHANGED <<inflight, cred, hasIdentity, out>>

SendFails ==
  /\ CFail
  /\ Reset
  /\ sret' = ret' /\ lastOut' = inOut /\ lastOp' = inOp
  /\ UNCHANGED <<cred, hasIdentity, out>>
-----------------------------------------------------------------------------
(* est_finish: status code and body of the response, and the verdict.      *)
StatusCodes == {200, 202, 204, 401, 403, 404, 405, 500, 501}
BodyKinds == {"empty", "good", "bad"}

NoAttributes(code, body) ==
  \/ code \in {204, 404, 405, 501}
  \/ code = 200 /\ body = "empty"

IsPending_AnyOp(op, code) == code = 202

IsPending(op, code) == op \in EnrollOps /\ code = 202

Verdict(op, code, body) ==
  IF IsPending(op, code)
  THEN [rc |-> "OK", res |-> [Cleared EXCEPT !.status = "PENDING", !.retry = TRUE]]
  ELSE IF op = "GET_CSRATTRS" /\ NoAttributes(code, body)
  THEN [rc |-> "OK", res |-> Cleared]
  ELSE IF code # 200
  THEN [rc |-> IF code \in {401, 403} THEN "AUTH" ELSE "HTTP",
        res |-> IF op \in EnrollOps
                THEN [Cleared EXCEPT !.status = "FAILURE"] ELSE Cleared]
  ELSE IF body = "empty" THEN [rc |-> "HTTP", res |-> Cleared]
  ELSE IF body = "bad"   THEN [rc |-> "PARSE", res |-> Cleared]
  ELSE [rc |-> "OK",
        res |-> [Cleared EXCEPT !.data = TRUE,
                   !.status = IF op \in EnrollOps THEN "SUCCESS" ELSE "UNSET"]]

Finish(code, body) ==
  /\ CComplete
  /\ out' = [out EXCEPT ![inOut] = Verdict(inOp, code, body).res]
  /\ sret' = Verdict(inOp, code, body).rc
  /\ Reset
  /\ lastOut' = inOut /\ lastOp' = inOp
  /\ UNCHANGED <<cred, hasIdentity>>

EstNext ==
  \/ Open \/ OpenFails \/ Close \/ Want \/ SendFails
  \/ \E code \in StatusCodes, body \in BodyKinds : Finish(code, body)
  \/ \E op \in Ops, o \in Outs :
       \/ NotSent(op, o)
       \/ \E enc \in EncsOf(op) :
            \/ Resume(op, o, enc)
            \/ \E nb \in BOOLEAN : Refuse(op, o, enc, nb) \/ Begin(op, o, enc, nb)

EstSpec == EstInit /\ [][EstNext]_evars
-----------------------------------------------------------------------------
(* Properties                                                              *)

(* The EST session and the HTTP session under it agree on whether a        *)
(* request is in flight, and nothing of a request outlives it; the basic   *)
(* credentials live exactly as long as the session.                        *)
InStep ==
  /\ inActive <=> phase = "busy"
  /\ ~inActive => ~inMsg /\ inOut = NoOut
  /\ cred <=> phase # "none"

(* What est.h promises of an enroll call: SUCCESS and PENDING return OK,   *)
(* everything else an error; a certificate comes with SUCCESS alone and a  *)
(* Retry-After with PENDING alone; only enroll calls have a status.        *)
VerdictConsistent ==
  /\ \A o \in Outs :
       /\ out[o].status = "SUCCESS" => out[o].data
       /\ out[o].retry => out[o].status = "PENDING"
       /\ out[o].data => out[o].status \in {"SUCCESS", "UNSET"}
  /\ call = "none" /\ lastOut # NoOut =>
       IF lastOp \in EnrollOps
       THEN /\ sret = "OK" <=> out[lastOut].status \in {"SUCCESS", "PENDING"}
            /\ out[lastOut].data => out[lastOut].status = "SUCCESS"
       ELSE /\ out[lastOut].status = "UNSET"
            /\ out[lastOut].data => sret = "OK"
=============================================================================

------------------------------ MODULE HttpContract ------------------------------
(***************************************************************************)
(* What one HTTP session promises the code above it: at most one request   *)
(* in flight, owned by one response object; a completed call has filled    *)
(* exactly that object, with a response read for exactly that request; a   *)
(* failed exchange ends the session for good; a refused call touches       *)
(* nothing.  Which request the server meant its response for is no part of *)
(* the promise: the session cannot know.  HttpSession implements this;     *)
(* EstSession and ScepSession build on it.                                 *)
(***************************************************************************)
EXTENDS Naturals

CONSTANTS Resps,     \* the caller's WolfCertHttpResponse objects
          NoResp,    \* sm_resp == NULL
          MaxReqs    \* bound: requests begun in one behaviour

VARIABLES phase,     \* "none", "ready", "busy" or "dead"
          owner,     \* the response object of the request in flight
          serial,    \* number of the newest request
          answer,    \* answer[r]: the request r was filled for, 0 if none
          call,      \* the call executing: "none", "nb" or "block"
          ret        \* what the newest finished call returned

cvars == <<phase, owner, serial, answer, call, ret>>

Errors == {"IO", "TLS", "PROTOCOL", "MEMORY"}

CInit ==
  /\ phase = "none"
  /\ owner = NoResp
  /\ serial = 0
  /\ answer = [r \in Resps |-> 0]
  /\ call = "none"
  /\ ret = "OK"

COpen ==
  /\ phase = "none"
  /\ phase' = "ready"
  /\ UNCHANGED <<owner, serial, answer, call, ret>>

\* A call with a fresh response object on an idle session starts an exchange.
CBegin(r, nb) ==
  /\ phase = "ready" /\ call = "none" /\ serial < MaxReqs
  /\ phase' = "busy"
  /\ owner' = r
  /\ serial' = serial + 1
  /\ answer' = [answer EXCEPT ![r] = 0]
  /\ call' = IF nb THEN "nb" ELSE "block"
  /\ UNCHANGED ret

\* A request that cannot be put together only clears its own response object.
CBeginRefused(r) ==
  /\ phase = "ready" /\ call = "none"
  /\ answer' = [answer EXCEPT ![r] = 0]
  /\ ret' \in {"BAD_ARG", "MEMORY"}
  /\ UNCHANGED <<phase, owner, serial, call>>

\* A call the session cannot take changes nothing but its own return code.
CRefuse ==
  /\ call = "none"
  /\ \/ phase = "busy" /\ ret' = "BAD_ARG"
     \/ phase = "dead" /\ ret' = "CONN_CLOSED"
  /\ UNCHANGED <<phase, owner, serial, answer, call>>

CResume ==
  /\ phase = "busy" /\ call = "none"
  /\ call' = "nb"
  /\ UNCHANGED <<phase, owner, serial, answer, ret>>

CWant ==
  /\ phase = "busy" /\ call = "nb"
  /\ call' = "none"
  /\ ret' = "WANT"
  /\ UNCHANGED <<phase, owner, serial, answer>>

CComplete ==
  /\ phase = "busy" /\ call # "none"
  /\ phase' \in {"ready", "dead"}
  /\ answer' = [answer EXCEPT ![owner] = serial]
  /\ owner' = NoResp
  /\ call' = "none"
  /\ ret' = "OK"
  /\ UNCHANGED serial

CFail ==
  /\ phase = "busy" /\ call # "none"
  /\ phase' = "dead"
  /\ owner' = NoResp
  /\ call' = "none"
  /\ ret' \in Errors
  /\ UNCHANGED <<serial, answer>>

CClose ==
  /\ phase # "none" /\ call = "none"
  /\ phase' = "none"
  /\ owner' = NoResp
  /\ UNCHANGED <<serial, answer, call, ret>>

CNext ==
  \/ COpen \/ CRefuse \/ CResume \/ CWant \/ CComplete \/ CFail \/ CClose
  \/ \E r \in Resps : CBeginRefused(r) \/ \E nb \in BOOLEAN : CBegin(r, nb)

CSpec == CInit /\ [][CNext]_cvars
=============================================================================

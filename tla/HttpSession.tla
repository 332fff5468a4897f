------------------------------ MODULE HttpSession ------------------------------
(***************************************************************************)
(* The HTTP/1.1 keep-alive session of src/http.c: the request state        *)
(* machine that survives WANT_READ / WANT_WRITE returns, on top of a byte  *)
(* transport.  A byte stream is a sequence of units; each unit knows which *)
(* request it belongs to or answers, which the program does not, so that   *)
(* a property can ask whose bytes ended up where.                          *)
(***************************************************************************)
EXTENDS Integers, Sequences

CONSTANTS
  Resps,         \* WolfCertHttpResponse objects of the caller
  NoResp,        \* sm_resp == NULL
  TLS,           \* the base URL is https
  HdrLens,       \* header units a response block may have before its end
  HeadLen,       \* units of a request head
  BodyLens,      \* units a request body may have
  SndCap,        \* units the send buffer of the connection holds
  WireCap,       \* units the connection holds towards the client
  HeaderBudget,  \* WOLFCERT_HTTP_HEADER_BUDGET
  MaxBody,       \* max_response_bytes
  ReadChunk,     \* WOLFCERT_HTTP_READ_CHUNK
  MaxInterim,    \* WOLFCERT_HTTP_MAX_INTERIM
  MaxReqs,       \* bound: requests begun
  MaxOpens,      \* bound: sessions opened
  MaxExcess      \* bound: what the server sends on a connection unasked

ASSUME SessionAssumption ==
  /\ NoResp \notin Resps
  /\ TLS \in BOOLEAN
  /\ HeadLen \in Nat \ {0}
  /\ BodyLens \subseteq Nat /\ HdrLens \subseteq Nat
  /\ {SndCap, HeaderBudget, ReadChunk} \subseteq Nat \ {0}
  /\ {WireCap, MaxBody, MaxInterim, MaxReqs, MaxOpens, MaxExcess} \subseteq Nat

VARIABLES
  \* struct WolfCertHttpSession
  life,        \* "none" or "open": the session object exists
  connected,   \* conn.connected
  closed,      \* closed
  state,       \* sm_state
  head,        \* sm_head is held (it carries the Authorization line)
  txOff,       \* sm_tx_off
  bodyLen,     \* sm_body_len
  rx,          \* sm_rx[0 .. sm_rx_len-1]
  hdrEnd,      \* sm_hdr_end
  interim,     \* sm_interim
  resp,        \* sm_resp
  \* the caller
  call,        \* the call executing: "none", "nb" or "block"
  ret,         \* what the newest finished call returned
  pub,         \* contents of the response objects
  \* the connection and the server
  sent,        \* every unit written on this connection
  rcvd,        \* how many of them the server has read
  owed,        \* the request the server has still to answer, 0 if none
  s2c,         \* units the server has sent and the client has not read
  peer,        \* "open" or "closed"
  hs,          \* the server has completed its side of the handshake
  excess,      \* what it has sent on this connection unasked
  \* counters of the model
  serial, opens, connects, disconnects

sess  == <<life, connected, closed, state, head, txOff, bodyLen, rx, hdrEnd,
           interim, resp>>
net   == <<sent, rcvd, owed, s2c, peer, hs, excess>>
count == <<serial, opens, connects, disconnects>>
vars  == <<sess, call, ret, pub, net, count>>

-----------------------------------------------------------------------------
(* Units.  A request is the units 1..len of its number.  A response block  *)
(* is header units "h" closed by "x" (interim 1xx), "f" (final, with its   *)
(* framing and the number of body units that follow) or "b" (a status line *)
(* the client cannot accept, or 101); body units are "d", the last chunk   *)
(* is "z", a malformed chunk line "b"; "g" is a stray unit.  Units that    *)
(* belong to no request the server owed an answer to are of request 0.     *)

RequestUnit(n, i, len) == [req |-> n, i |-> i, len |-> len]
Framing == {"cl", "chunked", "eof"}
Unit(n, k, fr, i) == [req |-> n, k |-> k, fr |-> fr, i |-> i]
Header(n, h) == [i \in 1..h |-> Unit(n, "h", "cl", i)]
Body(n, len) == [i \in 1..len |-> Unit(n, "d", "cl", i)]
Response(n, h, fr, len, z) ==
  Header(n, h) \o <<Unit(n, "f", fr, len)>> \o Body(n, len)
    \o IF fr = "chunked" THEN <<Unit(n, z, "cl", 0)>> ELSE <<>>
BlockEnds == {"x", "f", "b"}
NoPub == [for |-> 0, head |-> Unit(0, "f", "cl", 0), body |-> <<>>]

Least(a, b) == IF a <= b THEN a ELSE b
RxMax == MaxBody + HeaderBudget
-----------------------------------------------------------------------------
Blank ==
  /\ life = "none" /\ connected = FALSE /\ closed = FALSE /\ state = "IDLE"
  /\ head = FALSE /\ txOff = 0 /\ bodyLen = 0 /\ rx = <<>> /\ hdrEnd = 0
  /\ interim = 0 /\ resp = NoResp

Silent ==
  /\ sent = <<>> /\ rcvd = 0 /\ owed = 0 /\ s2c = <<>> /\ peer = "open"
  /\ hs = FALSE /\ excess = <<>>

Init ==
  /\ Blank
  /\ call = "none" /\ ret = "OK" /\ pub = [r \in Resps |-> NoPub]
  /\ Silent
  /\ serial = 0 /\ opens = 0 /\ connects = 0 /\ disconnects = 0

(* wolfcert_http_session_open: a failed dial leaves nothing behind, a      *)
(* failed TLS setup has to give the connection back.                       *)
OpenDialFails ==
  /\ life = "none" /\ opens < MaxOpens
  /\ opens' = opens + 1
  /\ UNCHANGED <<sess, call, ret, pub, net, serial, connects, disconnects>>

OpenTlsFails ==
  /\ life = "none" /\ opens < MaxOpens /\ TLS
  /\ opens' = opens + 1
  /\ connects' = connects + 1
  /\ disconnects' = disconnects + 1
  /\ UNCHANGED <<sess, call, ret, pub, net, serial>>

Open ==
  /\ life = "none" /\ opens < MaxOpens
  /\ life' = "open" /\ connected' = TRUE
  /\ state' = IF TLS THEN "HANDSHAKE" ELSE "IDLE"
  /\ opens' = opens + 1
  /\ connects' = connects + 1
  /\ UNCHANGED <<closed, head, txOff, bodyLen, rx, hdrEnd, interim, resp,
                 call, ret, pub, net, serial, disconnects>>

(* conn_close: the transport's disconnect callback, at most once.          *)
ConnClose ==
  /\ disconnects' = IF connected THEN disconnects + 1 ELSE disconnects
  /\ connected' = FALSE

(* wolfcert_http_session_close frees the session, a request in flight      *)
(* included; the connection's buffers go with it.                          *)
Close ==
  /\ life = "open" /\ call = "none"
  /\ ConnClose
  /\ life' = "none" /\ closed' = FALSE /\ state' = "IDLE"
  /\ head' = FALSE /\ txOff' = 0 /\ bodyLen' = 0 /\ rx' = <<>> /\ hdrEnd' = 0
  /\ interim' = 0 /\ resp' = NoResp
  /\ sent' = <<>> /\ rcvd' = 0 /\ owed' = 0 /\ s2c' = <<>> /\ peer' = "open"
  /\ hs' = FALSE /\ excess' = <<>>
  /\ UNCHANGED <<call, ret, pub, serial, opens, connects>>
-----------------------------------------------------------------------------
(* sm_reset, and sm_fail on top of it: sm_state is left as it was.         *)
SmReset_KeepsHead ==
  /\ txOff' = 0 /\ bodyLen' = 0 /\ rx' = <<>> /\ hdrEnd' = 0
  /\ interim' = 0 /\ resp' = NoResp /\ UNCHANGED head

SmReset ==
  /\ head' = FALSE /\ txOff' = 0 /\ bodyLen' = 0 /\ rx' = <<>> /\ hdrEnd' = 0
  /\ interim' = 0 /\ resp' = NoResp

SmFail_StaysOpen(rc) ==
  /\ SmReset
  /\ ret' = rc
  /\ call' = "none"
  /\ UNCHANGED <<life, connected, closed, state, pub, count>>

SmFail(rc) ==
  /\ closed' = TRUE
  /\ SmReset
  /\ ret' = rc
  /\ call' = "none"
  /\ UNCHANGED <<life, connected, state, pub, count>>

(* WANT_READ / WANT_WRITE out of sm_run.  A blocking call never reports    *)
(* it: with a transport that honours the mode it waits instead.            *)
Want ==
  /\ call = "nb"
  /\ call' = "none"
  /\ ret' = "WANT"
  /\ UNCHANGED <<sess, pub, net, count>>

(* http_session_call, the calls that return without reaching sm_run.       *)
CallClosed ==
  /\ life = "open" /\ call = "none" /\ closed
  /\ ret' = "CONN_CLOSED"
  /\ UNCHANGED <<sess, call, pub, net, count>>

CallBusy(r, nb) ==
  /\ life = "open" /\ call = "none" /\ ~closed
  /\ resp # NoResp /\ (~nb \/ r # resp)
  /\ ret' = "BAD_ARG"
  /\ UNCHANGED <<sess, call, pub, net, count>>

(* sm_begin refusing the request: a URL of another server, or no memory    *)
(* for the head.  The response object has been cleared by then.            *)
CallNotBegun(r) ==
  /\ life = "open" /\ call = "none" /\ ~closed /\ resp = NoResp
  /\ pub' = [pub EXCEPT ![r] = NoPub]
  /\ ret' \in {"BAD_ARG", "MEMORY"}
  /\ UNCHANGED <<sess, call, net, count>>

(* sm_begin and the entry into sm_run.  build_head resets sm_tx_off; a     *)
(* handshake that is still to be done is kept as the first state.          *)
CallBegin_KeepsOffset(r, nb, len) ==
  /\ life = "open" /\ call = "none" /\ ~closed /\ resp = NoResp
  /\ serial < MaxReqs
  /\ pub' = [pub EXCEPT ![r] = NoPub]
  /\ head' = TRUE
  /\ resp' = r /\ bodyLen' = len /\ interim' = 0
  /\ state' = IF state = "HANDSHAKE" THEN "HANDSHAKE" ELSE "WRITE_HEAD"
  /\ serial' = serial + 1
  /\ call' = IF nb THEN "nb" ELSE "block"
  /\ UNCHANGED <<life, connected, closed, txOff, rx, hdrEnd, ret, net, opens,
                 connects, disconnects>>

CallBegin(r, nb, len) ==
  /\ life = "open" /\ call = "none" /\ ~closed /\ resp = NoResp
  /\ serial < MaxReqs
  /\ pub' = [pub EXCEPT ![r] = NoPub]
  /\ head' = TRUE /\ txOff' = 0
  /\ resp' = r /\ bodyLen' = len /\ interim' = 0
  /\ state' = IF state = "HANDSHAKE" THEN "HANDSHAKE" ELSE "WRITE_HEAD"
  /\ serial' = serial + 1
  /\ call' = IF nb THEN "nb" ELSE "block"
  /\ UNCHANGED <<life, connected, closed, rx, hdrEnd, ret, net, opens,
                 connects, disconnects>>

CallResume ==
  /\ life = "open" /\ call = "none" /\ ~closed /\ resp # NoResp
  /\ call' = "nb"
  /\ UNCHANGED <<sess, ret, pub, net, count>>
-----------------------------------------------------------------------------
(* sm_run, one step per transport call or response block.                  *)

SmHandshake ==
  /\ call # "none" /\ state = "HANDSHAKE"
  /\ \/ /\ hs
        /\ state' = "WRITE_HEAD"
        /\ UNCHANGED <<life, connected, closed, head, txOff, bodyLen, rx,
                       hdrEnd, interim, resp, call, ret, pub, net, count>>
     \/ ~hs /\ peer = "open" /\ Want
     \/ ~hs /\ peer = "closed" /\ SmFail("TLS") /\ UNCHANGED net

(* nb_write: k more units of the n that follow unit `base` of the request; *)
(* WANT_WRITE when the send buffer is full, an error when nobody reads.    *)
SendRoom == SndCap - (Len(sent) - rcvd)

NbWrite(base, n, k) ==
  /\ k \in 1..Least(n - txOff, SendRoom)
  /\ sent' = sent \o [i \in 1..k |->
               RequestUnit(serial, base + txOff + i, HeadLen + bodyLen)]
  /\ UNCHANGED <<life, connected, closed, bodyLen, rx, hdrEnd, interim, resp,
                 call, ret, pub, rcvd, owed, s2c, peer, hs, excess, count>>

NbWriteWaits ==
  \/ SendRoom <= 0 /\ peer = "open" /\ Want
  \/ peer = "closed" /\ SmFail("IO") /\ UNCHANGED net

SmWriteHead ==
  /\ call # "none" /\ state = "WRITE_HEAD"
  /\ \/ \E k \in 1..HeadLen :
          /\ NbWrite(0, HeadLen, k)
          /\ \/ /\ txOff + k < HeadLen
                /\ txOff' = txOff + k
                /\ UNCHANGED <<head, state>>
             \/ /\ txOff + k = HeadLen
                /\ head' = FALSE
                /\ txOff' = 0
                /\ state' = IF bodyLen > 0 THEN "WRITE_BODY" ELSE "READ_HEAD"
     \/ NbWriteWaits

SmWriteBody ==
  /\ call # "none" /\ state = "WRITE_BODY"
  /\ \/ \E k \in 1..bodyLen :
          /\ NbWrite(HeadLen, bodyLen, k)
          /\ txOff' = txOff + k
          /\ state' = IF txOff + k = bodyLen THEN "READ_HEAD" ELSE state
          /\ UNCHANGED head
     \/ NbWriteWaits

(* nb_read_some.  With no room left one unit is probed for: it overruns    *)
(* the allowance, a close does not.  What the server has sent arrives in   *)
(* its own time, so that WANT_READ comes at any point of a response.       *)
NbReadSome(limit) ==
  \/ /\ Len(rx) > limit
     /\ SmFail("PROTOCOL")
     /\ UNCHANGED net
  \/ /\ Len(rx) = limit /\ s2c # <<>>
     /\ SmFail("PROTOCOL")
     /\ s2c' = Tail(s2c)
     /\ UNCHANGED <<sent, rcvd, owed, peer, hs, excess>>
  \/ /\ Len(rx) < limit
     /\ \E k \in 1..Least(Least(limit - Len(rx), ReadChunk), Len(s2c)) :
          /\ rx' = rx \o SubSeq(s2c, 1, k)
          /\ s2c' = SubSeq(s2c, k + 1, Len(s2c))
     /\ UNCHANGED <<life, connected, closed, state, head, txOff, bodyLen,
                    hdrEnd, interim, resp, call, ret, pub, sent, rcvd, owed,
                    peer, hs, excess, count>>
  \/ Len(rx) <= limit /\ Want

NbReadEnded(limit) == Len(rx) <= limit /\ s2c = <<>> /\ peer = "closed"

(* sm_read_head and inspect_headers.  The block ends at unit e of rx.      *)
BlockEnd(e) ==
  /\ rx[e].k \in BlockEnds
  /\ \A i \in 1..(e - 1) : rx[i].k \notin BlockEnds

StatusLineOK(e) == rx[e].k # "b" /\ \A i \in 1..e : rx[i].k # "g"

ReadMoreHead ==
  /\ \A i \in 1..Len(rx) : rx[i].k \notin BlockEnds
  /\ \/ /\ Len(rx) >= HeaderBudget
        /\ SmFail("PROTOCOL") /\ UNCHANGED net
     \/ /\ Len(rx) < HeaderBudget
        /\ \/ NbReadSome(HeaderBudget)
           \/ NbReadEnded(HeaderBudget) /\ SmFail("IO") /\ UNCHANGED net

BodyTooLong_Never(e) == FALSE

BodyTooLong(e) == rx[e].fr = "cl" /\ rx[e].i > MaxBody

BadHead(e) ==
  /\ \/ ~StatusLineOK(e)
     \/ rx[e].k = "x" /\ interim + 1 > MaxInterim
     \/ rx[e].k = "f" /\ BodyTooLong(e)
  /\ SmFail("PROTOCOL")
  /\ UNCHANGED net

DropInterim_NotCounted(e) ==
  /\ StatusLineOK(e) /\ rx[e].k = "x" /\ interim + 1 <= MaxInterim
  /\ rx' = SubSeq(rx, e + 1, Len(rx))
  /\ hdrEnd' = 0
  /\ UNCHANGED <<life, connected, closed, state, head, txOff, bodyLen, interim,
                 resp, call, ret, pub, net, count>>

DropInterim(e) ==
  /\ StatusLineOK(e) /\ rx[e].k = "x" /\ interim + 1 <= MaxInterim
  /\ interim' = interim + 1
  /\ rx' = SubSeq(rx, e + 1, Len(rx))
  /\ hdrEnd' = 0
  /\ UNCHANGED <<life, connected, closed, state, head, txOff, bodyLen, resp,
                 call, ret, pub, net, count>>

BodyState(fr) == CASE fr = "cl"      -> "READ_BODY_CL"
                   [] fr = "chunked" -> "READ_BODY_CHUNKED"
                   [] fr = "eof"     -> "READ_BODY_EOF"

TakeHead(e) ==
  /\ StatusLineOK(e) /\ rx[e].k = "f" /\ ~BodyTooLong(e)
  /\ hdrEnd' = e
  /\ state' = BodyState(rx[e].fr)
  /\ UNCHANGED <<life, connected, closed, head, txOff, bodyLen, rx, interim,
                 resp, call, ret, pub, net, count>>

SmReadHead ==
  /\ call # "none" /\ state = "READ_HEAD"
  /\ \/ ReadMoreHead
     \/ \E e \in 1..Len(rx) :
          BlockEnd(e) /\ (BadHead(e) \/ DropInterim(e) \/ TakeHead(e))

(* sm_take_body, sm_publish and sm_done: the response object is filled and *)
(* given back, the receive buffer is dropped whatever it still holds.      *)
Publish(body, close) ==
  /\ pub' = [pub EXCEPT ![resp] =
               [for |-> serial, head |-> rx[hdrEnd], body |-> body]]
  /\ closed' = (closed \/ close)
  /\ head' = FALSE /\ rx' = <<>> /\ hdrEnd' = 0 /\ resp' = NoResp
  /\ state' = "IDLE"
  /\ call' = "none"
  /\ ret' = "OK"
  /\ UNCHANGED <<life, connected, txOff, bodyLen, interim, net, count>>

ClEnd == hdrEnd + rx[hdrEnd].i

SmReadBodyCl_TakesShort ==
  /\ call # "none" /\ state = "READ_BODY_CL"
  /\ \/ /\ Len(rx) < ClEnd
        /\ \/ NbReadSome(ClEnd)
           \/ NbReadEnded(ClEnd) /\ Publish(SubSeq(rx, hdrEnd + 1, Len(rx)), TRUE)
     \/ /\ Len(rx) >= ClEnd
        /\ Publish(SubSeq(rx, hdrEnd + 1, ClEnd), Len(rx) > ClEnd)

SmReadBodyCl ==
  /\ call # "none" /\ state = "READ_BODY_CL"
  /\ \/ /\ Len(rx) < ClEnd
        /\ \/ NbReadSome(ClEnd)
           \/ NbReadEnded(ClEnd) /\ SmFail("IO") /\ UNCHANGED net
     \/ /\ Len(rx) >= ClEnd
        /\ Publish(SubSeq(rx, hdrEnd + 1, ClEnd), Len(rx) > ClEnd)

(* wolfcert_http_chunked_complete over what follows the header block: the  *)
(* message ends at unit e, is malformed, or needs more.                    *)
ChunkedEnd(e) ==
  /\ rx[e].k = "z"
  /\ \A i \in (hdrEnd + 1)..(e - 1) : rx[i].k = "d"
  /\ e - 1 - hdrEnd <= MaxBody

ChunkedBad ==
  \E e \in (hdrEnd + 1)..Len(rx) :
     /\ \A i \in (hdrEnd + 1)..(e - 1) : rx[i].k = "d"
     /\ \/ rx[e].k \notin {"d", "z"}
        \/ rx[e].k = "d" /\ e - hdrEnd > MaxBody

SmReadBodyChunked ==
  /\ call # "none" /\ state = "READ_BODY_CHUNKED"
  /\ \/ ChunkedBad /\ SmFail("PROTOCOL") /\ UNCHANGED net
     \/ \E e \in (hdrEnd + 1)..Len(rx) :
          /\ ChunkedEnd(e)
          /\ Publish(SubSeq(rx, hdrEnd + 1, e - 1), Len(rx) > e)
     \/ /\ \A i \in (hdrEnd + 1)..Len(rx) : rx[i].k = "d"
        /\ ~ChunkedBad
        /\ \/ NbReadSome(RxMax)
           \/ NbReadEnded(RxMax) /\ SmFail("IO") /\ UNCHANGED net

SmReadBodyEof ==
  /\ call # "none" /\ state = "READ_BODY_EOF"
  /\ \/ NbReadSome(hdrEnd + MaxBody)
     \/ /\ NbReadEnded(hdrEnd + MaxBody)
        /\ Publish(SubSeq(rx, hdrEnd + 1, Len(rx)), TRUE)

SmStep ==
  \/ SmHandshake \/ SmWriteHead \/ SmWriteBody \/ SmReadHead
  \/ SmReadBodyCl \/ SmReadBodyChunked \/ SmReadBodyEof

(* What a step may fail with for reasons of its own: a TLS or transport    *)
(* error, no memory for a buffer, WANT_* out of a blocking transport call. *)
FaultCodes == CASE state = "HANDSHAKE" -> {"TLS", "MEMORY", "IO"}
                [] state \in {"WRITE_HEAD", "WRITE_BODY"} -> {"IO"}
                [] OTHER -> {"IO", "MEMORY"}

SmFault ==
  /\ call # "none"
  /\ \E rc \in FaultCodes : SmFail(rc)
  /\ UNCHANGED net
-----------------------------------------------------------------------------
(* The server behind the connection (external): it answers each request,   *)
(* in order, possibly before it has read all of it, after any number of    *)
(* interim blocks; it may close at any time.  It may also send what it     *)
(* does not owe: stray units, or one more well-formed response.            *)
SrvUnchanged == UNCHANGED <<sess, call, ret, pub, count>>

SrvHandshake ==
  /\ TLS /\ life = "open" /\ peer = "open" /\ ~hs
  /\ hs' = TRUE
  /\ UNCHANGED <<sent, rcvd, owed, s2c, peer, excess>>
  /\ SrvUnchanged

SrvRecv ==
  /\ peer = "open" /\ rcvd < Len(sent)
  /\ rcvd' = rcvd + 1
  /\ owed' = IF sent[rcvd + 1].i = HeadLen THEN sent[rcvd + 1].req ELSE owed
  /\ UNCHANGED <<sent, s2c, peer, hs, excess>>
  /\ SrvUnchanged

SrvSend(units) ==
  /\ owed # 0 /\ peer = "open"
  /\ Len(s2c) + Len(units) <= WireCap
  /\ s2c' = s2c \o units
  /\ SrvUnchanged
  /\ UNCHANGED <<sent, rcvd, hs, excess>>

SrvInterim ==
  \E h \in HdrLens :
    /\ SrvSend(Header(owed, h) \o <<Unit(owed, "x", "cl", 0)>>)
    /\ UNCHANGED <<owed, peer>>

SrvAnswer ==
  \E h \in HdrLens, fr \in Framing, n \in 0..(MaxBody + 1), z \in {"z", "b"} :
    /\ SrvSend(Response(owed, h, fr, n, z))
    /\ owed' = 0
    /\ peer' = IF fr = "eof" THEN "closed" ELSE peer

SrvBadHead ==
  /\ SrvSend(<<Unit(owed, "b", "cl", 0)>>)
  /\ owed' = 0
  /\ UNCHANGED peer

SrvUnasked(k, units) ==
  /\ life = "open" /\ peer = "open" /\ owed = 0 /\ serial > 0
  /\ Len(excess) < MaxExcess /\ Len(s2c) + Len(units) <= WireCap
  /\ s2c' = s2c \o units
  /\ excess' = Append(excess, k)
  /\ UNCHANGED <<sent, rcvd, owed, hs>>
  /\ SrvUnchanged

SrvExcess ==
  \E k \in {"g", "b"} :
    SrvUnasked(k, <<Unit(0, k, "cl", 0)>>) /\ UNCHANGED peer

SrvSecond ==
  \E h \in HdrLens, fr \in Framing, n \in 0..(MaxBody + 1), z \in {"z", "b"} :
    /\ SrvUnasked("f", Response(0, h, fr, n, z))
    /\ peer' = IF fr = "eof" THEN "closed" ELSE peer

SrvClose ==
  /\ life = "open" /\ peer = "open"
  /\ peer' = "closed"
  /\ \E k \in 0..Len(s2c) : s2c' = SubSeq(s2c, 1, k)
  /\ UNCHANGED <<sent, rcvd, owed, hs, excess>>
  /\ SrvUnchanged

Server == \/ SrvHandshake \/ SrvRecv \/ SrvInterim \/ SrvAnswer \/ SrvBadHead
          \/ SrvExcess \/ SrvSecond \/ SrvClose

Caller ==
  \/ Open \/ OpenDialFails \/ OpenTlsFails \/ Close \/ CallClosed \/ CallResume
  \/ \E r \in Resps, nb \in BOOLEAN : CallBusy(r, nb)
  \/ \E r \in Resps : CallNotBegun(r)
  \/ \E r \in Resps, nb \in BOOLEAN, len \in BodyLens : CallBegin(r, nb, len)

Next == Caller \/ SmStep \/ SmFault \/ Server

Spec == Init /\ [][Next]_vars

(* Fairness: the process runs its own code, and what is under way arrives: *)
(* a call that can get on again and again does, between returns of WANT_*. *)
(* The caller of an _nb request calls again after WANT_* (ARCHITECTURE.md  *)
(* 4.3); the server completes handshakes, reads what arrives and says      *)
(* something, if only one more interim response, while it owes an answer.  *)
Fairness ==
  /\ SF_vars(SmStep /\ sess' # sess)
  /\ WF_vars(CallResume)
  /\ WF_vars(SrvHandshake)
  /\ WF_vars(SrvRecv)
  /\ WF_vars(SrvInterim \/ SrvAnswer \/ SrvBadHead)

LiveSpec == Spec /\ Fairness
-----------------------------------------------------------------------------
(* Properties                                                              *)

States == {"IDLE", "HANDSHAKE", "WRITE_HEAD", "WRITE_BODY", "READ_HEAD",
           "READ_BODY_CL", "READ_BODY_EOF", "READ_BODY_CHUNKED"}
Codes  == {"OK", "WANT", "BAD_ARG", "CONN_CLOSED", "IO", "TLS", "PROTOCOL",
           "MEMORY"}
Units  == [req : Nat, k : {"h", "x", "f", "b", "d", "z", "g"}, fr : Framing,
           i : Nat]
RequestUnits == [req : Nat, i : Nat, len : Nat]
Responses == [for : Nat, head : Units, body : Seq(Units)]

(* Every field of the session, the caller and the connection has its type. *)
TypeOK ==
  /\ life \in {"none", "open"} /\ state \in States
  /\ connected \in BOOLEAN /\ closed \in BOOLEAN /\ head \in BOOLEAN
  /\ txOff \in Nat /\ bodyLen \in Nat /\ hdrEnd \in Nat /\ interim \in Nat
  /\ rx \in Seq(Units) /\ resp \in Resps \cup {NoResp}
  /\ call \in {"none", "nb", "block"} /\ ret \in Codes
  /\ pub \in [Resps -> Responses]
  /\ sent \in Seq(RequestUnits) /\ rcvd \in Nat /\ owed \in Nat
  /\ s2c \in Seq(Units) /\ peer \in {"open", "closed"}
  /\ hs \in BOOLEAN /\ excess \in Seq({"g", "b", "f"})
  /\ serial \in Nat /\ opens \in Nat
  /\ connects \in Nat /\ disconnects \in Nat

(* sm_resp is set exactly while a request is under way: never on a closed  *)
(* or freed session, and an open session without one is at rest, so that   *)
(* the test on sm_resp in http_session_call is the right busy test.        *)
OneRequest ==
  /\ resp # NoResp => life = "open" /\ ~closed /\ state # "IDLE"
  /\ call # "none" => resp # NoResp
  /\ life = "open" /\ ~closed /\ resp = NoResp => state \in {"IDLE", "HANDSHAKE"}

(* Nothing of an exchange outlives it: once the session holds no request,  *)
(* whether it ended well, failed at any step or was closed, it holds no    *)
(* request head (with the credentials in it) and no received bytes that a  *)
(* later response could start with.  The head goes as soon as it is sent.  *)
NothingLeftOver ==
  /\ head => resp # NoResp /\ state \in {"HANDSHAKE", "WRITE_HEAD"}
  /\ resp = NoResp => rx = <<>> /\ hdrEnd = 0

(* The receive buffer never outgrows max_response_bytes plus the header    *)
(* budget, and no published body exceeds max_response_bytes, however the   *)
(* response is framed and fragmented.                                      *)
RxBounded ==
  /\ Len(rx) <= RxMax
  /\ \A r \in Resps : Len(pub[r].body) <= MaxBody

(* Where the receive buffer stands in each state: empty before the answer  *)
(* is read; within the header budget while its header block is; and with a *)
(* final header block at its front, which is what chose the state, while   *)
(* the body is.  It is what makes the properties above inductive.          *)
BodyStates == {"READ_BODY_CL", "READ_BODY_EOF", "READ_BODY_CHUNKED"}

ReceiveState ==
  /\ state \in {"IDLE", "HANDSHAKE", "WRITE_HEAD", "WRITE_BODY"} =>
       rx = <<>> /\ hdrEnd = 0
  /\ state = "READ_HEAD" => Len(rx) <= HeaderBudget /\ hdrEnd = 0
  /\ state \in BodyStates /\ resp # NoResp =>
       /\ hdrEnd \in 1..Len(rx) /\ hdrEnd <= HeaderBudget
       /\ rx[hdrEnd].k = "f" /\ state = BodyState(rx[hdrEnd].fr)
       /\ state = "READ_BODY_CL" => rx[hdrEnd].i <= MaxBody

SessionInv ==
  TypeOK /\ OneRequest /\ NothingLeftOver /\ RxBounded /\ ReceiveState

(* What a call publishes is one response of the server with the body that  *)
(* came with it, whole and in order, from whatever server; only a body     *)
(* delimited by the close of the connection can have been cut short.  And  *)
(* it answers the very request of the call, unless the server had sent a   *)
(* response on this connection that it did not owe: surplus already read   *)
(* closes the session, but a second response that comes late is taken for  *)
(* the answer to the next request.                                         *)
Whole(p) ==
  /\ \A i \in 1..Len(p.body) : p.body[i] = Unit(p.head.req, "d", "cl", i)
  /\ Len(p.body) <= p.head.i
  /\ p.head.fr # "eof" => Len(p.body) = p.head.i

AnsweredTwice == \E i \in 1..Len(excess) : excess[i] = "f"

ResponseMatches ==
  [][\A r \in Resps : pub'[r] # pub[r] /\ pub'[r] # NoPub =>
       /\ Whole(pub'[r]) /\ pub'[r].for = serial
       /\ ~AnsweredTwice => pub'[r].head.req = serial]_vars

(* Whatever WANT_WRITE returns interrupt a request, the server sees each   *)
(* request's units once, in order, and a new request only after the whole  *)
(* of the one before.                                                      *)
RequestsInOrder ==
  \A j \in 1..Len(sent) :
    \/ sent[j].i = 1 /\ (j = 1 \/ sent[j - 1].i = sent[j - 1].len)
    \/ /\ j > 1
       /\ sent[j].req = sent[j - 1].req
       /\ sent[j].i = sent[j - 1].i + 1

(* transport disconnect runs exactly once per successful connect, on every *)
(* error path included.                                                    *)
DisconnectOnce ==
  /\ connected <=> life = "open"
  /\ connects = disconnects + (IF connected THEN 1 ELSE 0)

(* A session that an exchange closed stays closed: until it is freed it    *)
(* sends nothing, takes no request and changes no response object.         *)
ClosedIsFinal ==
  [][closed /\ life = "open" =>
       \/ life' = "none"
       \/ closed' /\ UNCHANGED <<sent, resp, pub, serial>>]_vars

(* Every request ends, answered or failed, even when the server keeps      *)
(* sending interim responses instead of a final one.                       *)
RequestEnds == (resp # NoResp) ~> (resp = NoResp)

(* The session implements the contract the protocol layers rely on: among  *)
(* other things, only the call that owns the request in flight writes a    *)
(* response object, and a refused call changes nothing.                    *)
Contract ==
  INSTANCE HttpContract WITH
    phase   <- IF life = "none" THEN "none"
               ELSE IF resp # NoResp THEN "busy"
               ELSE IF closed THEN "dead" ELSE "ready",
    owner   <- resp,
    answer  <- [r \in Resps |-> pub[r].for]

ImplementsContract == Contract!CSpec
=============================================================================

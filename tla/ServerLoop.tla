----------------------------- MODULE ServerLoop -----------------------------
(* The in-tree server's thread: wolfcert_server_run accepts one connection  *)
(* at a time, runs the TLS handshake, and serves requests on it until the   *)
(* handler fails, the client asks for a close, wolfcert_server_stop is      *)
(* called by another thread, or the deadline of the handshake or of a       *)
(* request passes.  Every blocking call returns within                      *)
(* WOLFCERT_SERVER_IO_TIMEOUT_MS; the retry loops then ask io_should_stop.  *)
(*                                                                          *)
(* What a request says is left out: a request is a number of units that the *)
(* handler must receive, its answer a header part and a body part of some   *)
(* units that it must send.                                                 *)
EXTENDS Integers

CONSTANTS UsesTls,      \* srv->tls_ctx # NULL
          MaxRequest,   \* units of the longest request
          MaxPart,      \* units of the longest part of an answer
          WireCap,      \* units the peer can have under way
          Window        \* units the socket takes before the peer reads

ASSUME LoopAssumption ==
  /\ UsesTls \in BOOLEAN
  /\ MaxRequest \in Nat \ {0} /\ MaxPart \in Nat \ {0}
  /\ WireCap \in Nat \ {0} /\ Window \in Nat \ {0}

VARIABLES
  at,         \* where the server thread is
  within,     \* it is inside the retry loop of wolfcert_io_recv / _send
  stopping,   \* srv->stopping
  deadline,   \* srv->deadline_ms: "none" (0), "running" or "passed"
  armed,      \* srv->poll_timeouts_armed
  tls,        \* srv->tls_current # NULL
  keepAlive,  \* srv->keep_alive
  ok,         \* the handler is going to return WOLFCERT_OK
  need,       \* units of the request still to be received
  part,       \* units of the answer's part still to be sent
  open,       \* the accepted socket is open
  peer,       \* "open", "closed" (it sends no more) or "reset"
  wire,       \* units from the peer not yet received
  unread,     \* units sent that the peer has not read
  gaveUp,     \* history: a send failed for the deadline, the stop or a reset
  out,        \* history: units of the current answer handed to the socket
  late        \* history: transfers completed past the deadline or the stop

thread == <<at, within, deadline, armed, tls, keepAlive, ok, need, part, open>>
link   == <<peer, wire, unread>>
past   == <<gaveUp, out, late>>
vars   == <<thread, stopping, link, past>>

Places == {"poll", "check", "accept", "handshake", "recv", "sendHead",
           "sendBody", "again", "close", "returned", "pha"}

(* Mutant: the deadline is forgotten.                                       *)
IoShouldStop_StopOnly == stopping

IoShouldStop == stopping \/ deadline = "passed"

LoopInit ==
  /\ at = "poll" /\ within = FALSE /\ stopping = FALSE /\ deadline = "none"
  /\ armed = FALSE /\ tls = FALSE /\ keepAlive = FALSE /\ ok = TRUE
  /\ need = 0 /\ part = 0 /\ open = FALSE
  /\ peer = "closed" /\ wire = 0 /\ unread = 0
  /\ gaveUp = FALSE /\ out = 0 /\ late = 0

Go(place) ==
  /\ at' = place
  /\ UNCHANGED <<within, deadline, armed, tls, keepAlive, ok, need, part, open>>

-----------------------------------------------------------------------------
(* Accepting a connection *)

(* The head of the loop: a timeout or EINTR comes back here.                *)
Poll ==
  /\ at = "poll"
  /\ IF stopping THEN Go("returned")
     ELSE \E place \in {"poll", "check", "returned"} : Go(place)
  /\ UNCHANGED <<stopping, link, past>>

Check ==
  /\ at = "check"
  /\ Go(IF stopping THEN "returned" ELSE "accept")
  /\ UNCHANGED <<stopping, link, past>>

(* accept() fails for one peer or for good, or setsockopt() does.           *)
AcceptFails ==
  /\ at = "accept"
  /\ \E place \in {"poll", "returned"} : Go(place)
  /\ UNCHANGED <<stopping, link, past>>

(* One request: keep_alive = 1, arm_deadline, the handler starts to read.   *)
StartRequest ==
  /\ at' = "recv" /\ within' = FALSE /\ keepAlive' = TRUE /\ ok' = TRUE
  /\ deadline' = "running"
  /\ need' \in 1..MaxRequest
  /\ part' = 0
  /\ out' = 0

Accept ==
  /\ at = "accept"
  /\ armed' = TRUE /\ open' = TRUE
  /\ IF UsesTls
       THEN /\ at' = "handshake" /\ deadline' = "running"
            /\ UNCHANGED <<within, keepAlive, ok, need, part, out>>
       ELSE StartRequest
  /\ peer' = "open" /\ wire' = 0 /\ unread' = 0
  /\ gaveUp' = FALSE /\ late' = 0
  /\ UNCHANGED <<tls, stopping>>

(* wolfSSL_accept succeeded: srv->tls_current is set for the handlers.      *)
HandshakeDone ==
  /\ at = "handshake" /\ peer = "open"
  /\ tls' = TRUE
  /\ StartRequest
  /\ UNCHANGED <<armed, open, stopping, link, gaveUp, late>>

(* It failed, or wolfSSL_new did.                                           *)
HandshakeFails ==
  /\ at = "handshake"
  /\ Go("close")
  /\ UNCHANGED <<stopping, link, past>>

(* It wants I/O: it is called again until the server should stop.           *)
HandshakeWants ==
  /\ at = "handshake" /\ IoShouldStop
  /\ Go("close")
  /\ UNCHANGED <<stopping, link, past>>

-----------------------------------------------------------------------------
(* Receiving a request *)

(* The handler leaves the reading of the request and begins its answer.     *)
Answer(rc, keep) ==
  /\ at' = "sendHead" /\ within' = FALSE /\ need' = 0
  /\ part' \in 1..MaxPart
  /\ ok' = rc /\ keepAlive' = keep
  /\ UNCHANGED <<deadline, armed, tls, open, out>>

Late == late + (IF IoShouldStop THEN 1 ELSE 0)

(* Mutant: only the retry loops ask, which a trickling peer never enters.   *)
MayTransfer_Always == TRUE

(* wolfcert_io_recv and _send check before they touch the socket.           *)
MayTransfer == ~IoShouldStop

RecvEnter ==
  /\ at = "recv" /\ ~within
  /\ IF MayTransfer
       THEN /\ within' = TRUE
            /\ UNCHANGED <<at, deadline, armed, tls, keepAlive, ok, need, part,
                           open, out>>
       ELSE Answer(FALSE, FALSE)
  /\ UNCHANGED <<stopping, link, gaveUp, late>>

(* Some units arrive.  The last one leads to the handler's verdict, and a   *)
(* unit it cannot parse ends the request at once.                           *)
RecvData ==
  /\ at = "recv" /\ within /\ wire > 0
  /\ \E k \in 1..wire :
       /\ wire' = wire - k
       /\ \/ /\ k < need
             /\ need' = need - k /\ within' = FALSE
             /\ UNCHANGED <<at, deadline, armed, tls, keepAlive, ok, part, open,
                            out>>
          \/ /\ k >= need
             /\ \E rc, keep \in BOOLEAN : Answer(rc, keep)
          \/ /\ k >= need /\ tls
             /\ at' = "pha" /\ need' = 0 /\ within' = FALSE
             /\ UNCHANGED <<deadline, armed, tls, keepAlive, ok, part, open, out>>
          \/ Answer(FALSE, FALSE)
  /\ late' = Late
  /\ UNCHANGED <<stopping, peer, unread, gaveUp>>

(* End of stream, or a broken connection.                                   *)
RecvEnds ==
  /\ at = "recv" /\ within /\ peer # "open"
  /\ Answer(FALSE, FALSE)
  /\ UNCHANGED <<stopping, link, gaveUp, late>>

(* Any other error of wolfSSL_read or recv().                               *)
RecvErrors ==
  /\ at = "recv" /\ within
  /\ Answer(FALSE, FALSE)
  /\ UNCHANGED <<stopping, link, gaveUp, late>>

(* Mutant: an expired timeout is always retried.                            *)
RecvWants_Retries ==
  /\ at = "recv" /\ within /\ IoShouldStop
  /\ Go("recv")
  /\ UNCHANGED <<stopping, link, past>>

(* The receive timeout expired: retried until the server should stop.       *)
RecvWants ==
  /\ at = "recv" /\ within /\ IoShouldStop
  /\ Answer(FALSE, FALSE)
  /\ UNCHANGED <<stopping, link, gaveUp, late>>

(* ensure_post_handshake_auth waits for the client's certificate: it comes, *)
(* or the wait fails on an error or its own timeout.                        *)
PhaEnds ==
  /\ at = "pha"
  /\ \/ /\ peer = "open"
        /\ \E rc, keep \in BOOLEAN : Answer(rc, keep)
     \/ Answer(FALSE, keepAlive)
  /\ UNCHANGED <<stopping, link, gaveUp, late>>

(* wolfSSL_peek wants I/O: called again until the server should stop.       *)
PhaWants ==
  /\ at = "pha" /\ IoShouldStop
  /\ Answer(FALSE, keepAlive)
  /\ UNCHANGED <<stopping, link, gaveUp, late>>

-----------------------------------------------------------------------------
(* Sending the answer: send_all of the header, then send_all of the body *)

(* send_all is done with its part, whether or not it was all sent.          *)
PartDone ==
  /\ within' = FALSE
  /\ \/ /\ at = "sendHead" /\ at' = "sendBody" /\ part' \in 0..MaxPart
     \/ at = "sendBody" /\ at' = "again" /\ part' = 0
  /\ UNCHANGED <<deadline, armed, tls, keepAlive, ok, need, open>>

Sending == at \in {"sendHead", "sendBody"}

SendEnter ==
  /\ Sending /\ ~within
  /\ \/ /\ part > 0 /\ MayTransfer
        /\ within' = TRUE
        /\ UNCHANGED <<at, deadline, armed, tls, keepAlive, ok, need, part,
                       open, gaveUp>>
     \/ part > 0 /\ ~MayTransfer /\ PartDone /\ gaveUp' = TRUE
     \/ part = 0 /\ PartDone /\ UNCHANGED gaveUp
  /\ UNCHANGED <<stopping, link, out, late>>

SendData ==
  /\ Sending /\ within /\ peer # "reset" /\ unread < Window
  /\ \E k \in 1..part :
       /\ k <= Window - unread
       /\ part' = part - k /\ unread' = unread + k /\ out' = out + k
  /\ within' = FALSE /\ late' = Late
  /\ UNCHANGED <<at, deadline, armed, tls, keepAlive, ok, need, open, stopping,
                 peer, wire, gaveUp>>

(* The retry loop gives up, or the connection is gone.                      *)
SendFails ==
  /\ Sending /\ within /\ (peer = "reset" \/ IoShouldStop)
  /\ PartDone /\ gaveUp' = TRUE
  /\ UNCHANGED <<stopping, link, out, late>>

(* Any other error of wolfSSL_write or send(): memory, buffer space.  The   *)
(* connection is as usable as before, and send_all does not report it.      *)
SendErrors ==
  /\ Sending /\ within
  /\ PartDone
  /\ UNCHANGED <<stopping, link, past>>

-----------------------------------------------------------------------------
(* After a request *)

(* Mutant: the keep-alive loop does not ask io_should_stop.                 *)
KeepsServing_Always == ok /\ keepAlive

KeepsServing == ok /\ keepAlive /\ ~IoShouldStop

Again ==
  /\ at = "again"
  /\ IF KeepsServing
       THEN StartRequest /\ UNCHANGED <<armed, tls, open>>
       ELSE Go("close") /\ UNCHANGED out
  /\ UNCHANGED <<stopping, link, gaveUp, late>>

(* Mutant: tls_current still points at the freed TLS session.               *)
Teardown_KeepsTls ==
  /\ at = "close"
  /\ at' = "poll"
  /\ within' = FALSE /\ deadline' = "none" /\ armed' = FALSE /\ open' = FALSE
  /\ ok' = TRUE /\ need' = 0 /\ part' = 0
  /\ peer' = "closed" /\ wire' = 0 /\ unread' = 0
  /\ gaveUp' = FALSE /\ out' = 0 /\ late' = 0
  /\ UNCHANGED <<stopping, tls, keepAlive>>

(* tls_current, poll_timeouts_armed and deadline_ms are reset, the          *)
(* connection is closed.                                                    *)
Teardown ==
  /\ at = "close"
  /\ at' = "poll"
  /\ within' = FALSE /\ deadline' = "none" /\ armed' = FALSE /\ tls' = FALSE
  /\ ok' = TRUE /\ need' = 0 /\ part' = 0 /\ open' = FALSE
  /\ peer' = "closed" /\ wire' = 0 /\ unread' = 0
  /\ gaveUp' = FALSE /\ out' = 0 /\ late' = 0
  /\ UNCHANGED <<stopping, keepAlive>>

-----------------------------------------------------------------------------
(* The other actors *)

(* wolfcert_server_stop, from another thread.                               *)
Stop ==
  /\ ~stopping /\ stopping' = TRUE
  /\ UNCHANGED <<thread, link, past>>

(* The monotonic clock reaches deadline_ms.                                 *)
Tick ==
  /\ deadline = "running" /\ deadline' = "passed"
  /\ UNCHANGED <<at, within, armed, tls, keepAlive, ok, need, part, open,
                 stopping, link, past>>

PeerSends ==
  /\ open /\ peer = "open" /\ wire < WireCap
  /\ wire' = wire + 1
  /\ UNCHANGED <<thread, stopping, peer, unread, past>>

PeerReads ==
  /\ open /\ unread > 0
  /\ unread' = unread - 1
  /\ UNCHANGED <<thread, stopping, peer, wire, past>>

PeerCloses ==
  /\ open /\ peer = "open" /\ peer' = "closed"
  /\ UNCHANGED <<thread, stopping, wire, unread, past>>

PeerResets ==
  /\ open /\ peer # "reset" /\ peer' = "reset"
  /\ UNCHANGED <<thread, stopping, wire, unread, past>>

(* What the thread does by itself.                                          *)
Run ==
  \/ Poll \/ Check \/ AcceptFails \/ Accept \/ HandshakeWants
  \/ RecvEnter \/ RecvData \/ RecvEnds \/ RecvWants \/ PhaWants
  \/ SendEnter \/ SendData \/ SendFails \/ Again \/ Teardown

(* What it does when the peer's TLS messages let it.                        *)
TlsAnswer == HandshakeDone \/ HandshakeFails \/ PhaEnds

Peer == PeerSends \/ PeerReads \/ PeerCloses \/ PeerResets

(* What the system may do to it at any time.                                *)
IoErrors == RecvErrors \/ SendErrors

LoopNext == Run \/ TlsAnswer \/ IoErrors \/ Stop \/ Tick \/ Peer

LoopSpec == LoopInit /\ [][LoopNext]_vars

(* The thread is scheduled, every blocking call returns within its timeout, *)
(* and time passes.  Nothing is assumed of the peer, and no error of the    *)
(* system is counted on to end anything.                                    *)
FairLoopSpec == LoopSpec /\ WF_vars(Run) /\ WF_vars(Tick)

-----------------------------------------------------------------------------
(* Properties *)

(* The values srv's fields and the connection take.                         *)
LoopTypeOK ==
  /\ at \in Places
  /\ within \in BOOLEAN /\ stopping \in BOOLEAN /\ armed \in BOOLEAN
  /\ tls \in BOOLEAN /\ keepAlive \in BOOLEAN /\ ok \in BOOLEAN
  /\ open \in BOOLEAN /\ gaveUp \in BOOLEAN
  /\ deadline \in {"none", "running", "passed"}
  /\ peer \in {"open", "closed", "reset"}
  /\ need \in Nat /\ part \in Nat /\ wire \in Nat /\ unread \in Nat
  /\ out \in Nat /\ late \in Nat

(* No state of one connection reaches the next: between connections, and    *)
(* once wolfcert_server_run has returned, tls_current is NULL, the          *)
(* deadline is off, the timeouts are not armed and no socket is left open.  *)
NothingCarriedOver ==
  (at \in {"poll", "check", "accept", "returned"}) =>
     ~open /\ ~tls /\ ~armed /\ deadline = "none"

(* A peer that trickles its request, or drains its answer slowly, gets one  *)
(* more transfer through after the deadline or wolfcert_server_stop, never  *)
(* two: each wolfcert_io_recv and _send asks io_should_stop before it       *)
(* starts.                                                                  *)
OneLateTransfer == late <= 1

(* An answer given up for the deadline, the stop or a reset peer is the     *)
(* last thing on its connection: send_all gives up silently and the handler *)
(* may still return WOLFCERT_OK, yet neither the answer's body nor a later  *)
(* answer is sent after the gap.  An answer cut by another error is not:    *)
(* SendErrors leaves the connection usable, and the server goes on with it. *)
GivenUpIsLast == [][gaveUp => out' <= out]_vars

(* wolfcert_server_stop makes wolfcert_server_run return, whatever the peer *)
(* of the moment does or does not do.                                       *)
StopReturns == stopping ~> (at = "returned")

(* A request comes to its end, served or not, whatever its peer does: a     *)
(* silent or slow peer holds the only thread no longer than its deadline.   *)
RequestComesToEnd ==
  (at \in {"handshake", "recv", "pha", "sendHead", "sendBody"}) ~>
     (at \in {"again", "close"})

=============================================================================

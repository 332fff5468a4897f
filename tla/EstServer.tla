------------------------------- MODULE EstServer -------------------------------
(***************************************************************************)
(* The EST side of the in-tree server, src/est/est_server.c: client        *)
(* authentication per connection, with TLS 1.3 post-handshake              *)
(* authentication on demand, and the queue of CSRs waiting for approval,   *)
(* which is keyed by the CSR alone.  Requests arrive in any order on one   *)
(* connection after another; memory, the RNG and the CA may fail.          *)
(***************************************************************************)
EXTENDS Integers, Sequences

CONSTANTS
  Clients,          \* client identities: the subject of their certificate
  NoClient,         \* no peer certificate on the connection
  Csrs,             \* records: subj, kind ("good", "badsig", "unissuable"),
                    \* attrs (policy OIDs present), san (that of the peer)
  Configs,          \* the configurations a server may be started with
  PendingCap,       \* EST_PENDING_CAP
  MaxIssues,        \* bound: certificates the CA issues
  MaxParks          \* bound: CSRs put in the queue

ASSUME EstServerAssumption ==
  /\ NoClient \notin Clients
  /\ Csrs \subseteq [subj : Clients, kind : {"good", "badsig", "unissuable"},
                     attrs : BOOLEAN, san : BOOLEAN]
  /\ Configs \subseteq [basic : BOOLEAN, anonymous : BOOLEAN, pha : BOOLEAN,
                       clientCa : BOOLEAN, attrs : BOOLEAN, approval : BOOLEAN]
  /\ {PendingCap, MaxIssues, MaxParks} \subseteq Nat

VARIABLES
  cfg,       \* the server's configuration, fixed when it starts
  open,      \* a connection is being served
  tls,       \* tls_current is set: the connection is a TLS one
  peer,      \* the client certificate of the connection
  pending,   \* items[0 .. count-1] of EstPriv, by CSR hash
  reply,     \* status code of the newest response
  \* history
  certs,     \* every certificate issued, with the connection it was asked on
  parks      \* how many CSRs have been put in the queue

conn == <<open, tls, peer>>
est == <<cfg, conn, pending, reply, certs, parks>>

BasicUser       == cfg.basic      \* cfg_basic_user is set
AllowAnonymous  == cfg.anonymous  \* cfg.est_allow_anonymous_enroll
PostHandshake   == cfg.pha        \* cfg.tls_post_handshake_auth
ClientCa        == cfg.clientCa   \* cfg.tls_client_ca_pem is set
RequireAttrs    == cfg.attrs      \* cfg.est_require_csr_attributes
RequireApproval == cfg.approval   \* cfg.est_require_approval

(* wolfcert_server_start and tls_setup refuse any other configuration.     *)
Startable ==
  /\ BasicUser \/ ClientCa \/ AllowAnonymous
  /\ PostHandshake => ClientCa

EstServerInit ==
  /\ cfg \in Configs /\ Startable
  /\ open = FALSE /\ tls = FALSE /\ peer = NoClient
  /\ pending = <<>> /\ reply = 0 /\ certs = <<>> /\ parks = 0
-----------------------------------------------------------------------------
(* A connection: TLS under wolfcert_server_run, plain when the application *)
(* hands a descriptor to wolfcert_server_serve_fd.  With a client CA the   *)
(* handshake asks for a certificate and, unless it is deferred past the    *)
(* handshake, fails without one.                                           *)
HandshakeOK(t, c) ==
  /\ t \/ c = NoClient
  /\ c # NoClient => ClientCa
  /\ t /\ ClientCa /\ ~PostHandshake => c # NoClient

Connect(t, c) ==
  /\ ~open /\ HandshakeOK(t, c)
  /\ open' = TRUE /\ tls' = t /\ peer' = c /\ reply' = 0
  /\ UNCHANGED <<cfg, pending, certs, parks>>

Closed == open' = FALSE /\ tls' = FALSE /\ peer' = NoClient

(* The client leaves, or the deadline of the next request passes.          *)
Disconnect == open /\ Closed /\ UNCHANGED <<cfg, pending, reply, certs, parks>>

(* The answer to a request on a connection that has authenticated `p`.     *)
(* Only a handler that returned WOLFCERT_OK leaves the connection open, and*)
(* then the request itself may have asked for it to be closed.             *)
Answer(code, p) ==
  /\ reply' = code
  /\ \/ code \in {200, 202, 204} /\ peer' = p /\ UNCHANGED <<open, tls>>
     \/ Closed
-----------------------------------------------------------------------------
(* check_basic_auth; `auth` is whether the credentials match.              *)
BasicOK(auth) == BasicUser => auth

(* ensure_post_handshake_auth: `c` answers the CertificateRequest, NoClient*)
(* when no verified answer comes in time.  A certificate already held is   *)
(* kept, and the one obtained stays with the connection.                   *)
Authenticated(c) ==
  IF PostHandshake /\ tls /\ peer = NoClient THEN c ELSE peer

PhaFails(c) == PostHandshake /\ tls /\ Authenticated(c) = NoClient

Anonymous == ~BasicUser /\ ~AllowAnonymous /\ ~tls

(* reenroll_identity_check: 0 when the CSR renews the certificate of the   *)
(* connection, else the status it is refused with.                         *)
IdentityFault_AnySubject(c, csr) ==
  IF Authenticated(c) = NoClient THEN 403
  ELSE IF csr.kind = "badsig" THEN 400 ELSE 0

IdentityFault(c, csr) ==
  IF Authenticated(c) = NoClient THEN IF tls /\ ClientCa THEN 500 ELSE 403
  ELSE IF csr.kind = "badsig" \/ csr.subj # Authenticated(c) \/ ~csr.san
       THEN 400 ELSE 0

(* The gates of handle_request and handler_enroll, in their order.         *)
Gate(path, auth, c, csr) ==
  IF ~BasicOK(auth) THEN 401
  ELSE IF PhaFails(c) \/ Anonymous THEN 403
  ELSE IF path = "simplereenroll" /\ IdentityFault(c, csr) # 0
       THEN IdentityFault(c, csr)
  ELSE IF \/ RequireAttrs /\ ~csr.attrs
          \/ RequireApproval /\ csr.kind = "badsig"
       THEN 400 ELSE 0

Refused(path, auth, c, csr) ==
  /\ open
  /\ \/ Gate(path, auth, c, csr) # 0 /\ Answer(Gate(path, auth, c, csr), c)
     \* an empty body or one that is not base64, or no memory for a check
     \/ Gate(path, auth, c, csr) \notin {401, 403} /\ Answer(400, c)
     \/ /\ Gate(path, auth, c, csr) \notin {401, 403}
        /\ \/ path = "simplereenroll"
           \/ RequireApproval /\ (RequireAttrs => csr.attrs)
        /\ Answer(500, c)
  /\ UNCHANGED <<cfg, pending, certs, parks>>
-----------------------------------------------------------------------------
(* The queue of handler_enroll.                                            *)
Slot(csr) == {i \in 1..Len(pending) : pending[i] = csr}

Without_DropsLast(i) == SubSeq(pending, 1, Len(pending) - 1)

Without(i) ==
  SubSeq([pending EXCEPT ![i] = pending[Len(pending)]], 1, Len(pending) - 1)

(* The first POST of a CSR is parked with 202, or refused with 503 when    *)
(* the queue is full.                                                      *)
HasRoom == Len(pending) < PendingCap

Park(path, auth, c, csr) ==
  /\ open /\ Gate(path, auth, c, csr) = 0
  /\ RequireApproval /\ Slot(csr) = {}
  /\ \/ /\ HasRoom /\ parks < MaxParks
        /\ pending' = Append(pending, csr) /\ parks' = parks + 1
        /\ Answer(202, Authenticated(c))
     \/ ~HasRoom /\ Answer(503, c) /\ UNCHANGED <<pending, parks>>
  /\ UNCHANGED <<cfg, certs>>

(* The POST that is issued: the queue entry is gone before the CA is       *)
(* asked, whatever comes of it; the CA may refuse the CSR or fail, and     *)
(* building the response may fail after the certificate exists.            *)
Dequeue_OnSuccess(csr) ==
  IF RequireApproval
  THEN \E i \in Slot(csr) : pending' = IF reply' = 200 THEN Without(i) ELSE pending
  ELSE UNCHANGED pending

Dequeue(csr) ==
  IF RequireApproval
  THEN \E i \in Slot(csr) : pending' = Without(i)
  ELSE UNCHANGED pending

IssueFails(c) == Answer(400, c) /\ UNCHANGED certs

Issue(path, c, csr) ==
  /\ csr.kind = "good" /\ Len(certs) < MaxIssues
  /\ certs' = Append(certs, [csr |-> csr, peer |-> Authenticated(c),
                             tls |-> tls, path |-> path])
  /\ \E code \in {200, 500} : Answer(code, Authenticated(c))

EnrollNow(path, auth, c, csr) ==
  /\ open /\ Gate(path, auth, c, csr) = 0
  /\ IssueFails(c) \/ Issue(path, c, csr)
  /\ Dequeue(csr)
  /\ UNCHANGED <<cfg, parks>>

(* handler_cacerts, handler_csr_attrs, and requests for anything else.     *)
Other ==
  /\ open
  /\ \E code \in {200, 204, 400, 404, 500} : Answer(code, peer)
  /\ UNCHANGED <<cfg, pending, certs, parks>>

Paths == {"simpleenroll", "simplereenroll"}
Answers == Clients \cup {NoClient}

EstServerNext ==
  \/ Other
  \/ Disconnect
  \/ \E t \in BOOLEAN, c \in Answers : Connect(t, c)
  \/ \E path \in Paths, auth \in BOOLEAN, c \in Answers, csr \in Csrs :
       \/ Refused(path, auth, c, csr)
       \/ Park(path, auth, c, csr)
       \/ EnrollNow(path, auth, c, csr)

EstServerSpec == EstServerInit /\ [][EstServerNext]_est
-----------------------------------------------------------------------------
(* Properties                                                              *)

(* With approval required a CSR is parked once and every certificate uses  *)
(* up one parking: no order of POSTs, failures and reconnections makes the *)
(* CA issue twice for one 202, or outgrows EST_PENDING_CAP.                *)
OnceParkedOnceIssued ==
  RequireApproval =>
    /\ \A i, j \in 1..Len(pending) : pending[i] = pending[j] => i = j
    /\ Len(certs) <= parks - Len(pending)
    /\ Len(pending) <= PendingCap

(* A waiting CSR leaves the queue only when that very CSR is POSTed again: *)
(* finishing one leaves its neighbours in place.                           *)
WaitsForOwnPost ==
  [][\A i \in 1..Len(pending) :
       \/ \E j \in 1..Len(pending') : pending'[j] = pending[i]
       \/ \E path \in Paths, auth \in BOOLEAN, c \in Answers :
            EnrollNow(path, auth, c, pending[i])]_est

(* No certificate goes to a client the configuration does not admit.  The  *)
(* start-up checks, the handshake mode and the post-handshake gate together*)
(* mean that without Basic credentials and the anonymous opt-in the client *)
(* has proved possession of a certificate, and a post-handshake TLS client *)
(* always has; a reenroll renews exactly the identity so proved.           *)
IssuedToAdmitted ==
  \A n \in 1..Len(certs) :
    /\ ~BasicUser /\ ~AllowAnonymous => certs[n].peer # NoClient
    /\ PostHandshake /\ certs[n].tls => certs[n].peer # NoClient
    /\ certs[n].path = "simplereenroll" =>
         certs[n].peer = certs[n].csr.subj /\ certs[n].csr.san
=============================================================================

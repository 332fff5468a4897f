------------------------------ MODULE ScepServer ------------------------------
(***************************************************************************)
(* The SCEP side of the in-tree server, src/scep/scep_server.c: the queue  *)
(* of requests parked for approval, the registry GetCert answers from, and *)
(* the handlers of the PKIOperation messages.  Any client may send any     *)
(* message signed with a key it has, in any order, any number of times;    *)
(* memory, the RNG and the CA may fail at every call that uses them.       *)
(***************************************************************************)
EXTENDS Integers, Sequences

CONSTANTS
  Keys,             \* client keys
  NoKey,            \* a message without signer certificate
  Subjects,         \* subject names of CSRs
  Tids,             \* transactionIDs
  Configs,          \* the configurations a server may be started with
  PendingMax,       \* SCEP_PENDING_MAX
  IssuedMax,        \* SCEP_ISSUED_MAX
  MaxIssues,        \* bound: certificates the CA issues
  MaxParks          \* bound: requests put in the queue

(* A CA key stands in for the signer of a message that has none.           *)
CaKey == "ca"

ASSUME ScepServerAssumption ==
  /\ NoKey \notin Keys /\ CaKey \notin Keys
  /\ Configs \subseteq [approval : BOOLEAN, getCert : BOOLEAN]
  /\ PendingMax \in Nat /\ IssuedMax \in Nat \ {0}
  /\ MaxIssues \in Nat /\ MaxParks \in Nat

VARIABLES
  cfg,       \* the server's configuration, fixed when it starts
  pending,   \* items[0 .. count-1] of ScepPriv (polls is never read)
  issued,    \* issued[0 .. issued_count-1]: serial numbers
  reply,     \* the answer to the newest message
  \* history
  certs,     \* every certificate the CA has issued, by serial
  parks,     \* how many requests have been put in the queue
  recorded   \* every serial put in the registry

srv == <<cfg, pending, issued, reply, certs, parks, recorded>>

(* A CSR: its key and subject, and what is wrong with it.  "badchal" lacks *)
(* the configured challengePassword; an "unissuable" one verifies but is   *)
(* refused by wolfcert_ca_issue, e.g. for an otherName SAN.                *)
Csrs == [key : Keys, subj : Subjects,
         kind : {"good", "badchal", "badsig", "unissuable"}]

Reply(st, fail, to, cert, close) ==
  [st |-> st, fail |-> fail, to |-> to, cert |-> cert, close |-> close]
NoReply == Reply("none", "none", NoKey, 0, FALSE)
Http(code) == Reply(code, "none", NoKey, 0, TRUE)
Failure(fail, close) == Reply("2", fail, NoKey, 0, close)

RequireApproval == cfg.approval   \* cfg.scep_require_approval
EnableGetCert   == cfg.getCert    \* cfg.scep_enable_get_cert

ServerInit ==
  /\ cfg \in Configs
  /\ pending = <<>> /\ issued = <<>> /\ reply = NoReply
  /\ certs = <<>> /\ parks = 0 /\ recorded = <<>>
-----------------------------------------------------------------------------
(* pending_find and pending_remove: the last entry takes the free place.   *)
Slot(tid) == {i \in 1..Len(pending) : pending[i].tid = tid}

Without_DropsLast(i) == SubSeq(pending, 1, Len(pending) - 1)

Without(i) ==
  SubSeq([pending EXCEPT ![i] = pending[Len(pending)]], 1, Len(pending) - 1)

(* issued_record: the oldest entry makes room.                             *)
Recorded_EvictsNewest(n) ==
  IF Len(issued) = IssuedMax
  THEN Append(SubSeq(issued, 1, IssuedMax - 1), n)
  ELSE Append(issued, n)

Recorded(n) ==
  IF Len(issued) = IssuedMax THEN Append(Tail(issued), n) ELSE Append(issued, n)

(* send_cert_rep: the reply goes out, or the server runs out of memory or  *)
(* randomness and answers 500.                                             *)
Send(rep) == reply' \in {rep, Http("500")}

(* issue_and_reply.  `rc` is what it returns, `didIssue` its out argument. *)
IssueNoMemory ==
  /\ reply' = Http("500")
  /\ UNCHANGED <<issued, certs, recorded>>

IssueFails ==
  /\ Send(Failure("badRequest", TRUE))
  /\ UNCHANGED <<issued, certs, recorded>>

Issue(csr, by, to) ==
  /\ csr.kind = "good" /\ Len(certs) < MaxIssues
  /\ certs' = Append(certs, [csr |-> csr, by |-> by])
  /\ \/ /\ EnableGetCert
        /\ issued' = Recorded(Len(certs'))
        /\ recorded' = Append(recorded, Len(certs'))
     \/ UNCHANGED <<issued, recorded>>
  /\ Send(Reply("0", "none", to, Len(certs'), FALSE))
-----------------------------------------------------------------------------
(* handle_enroll: PKCSReq (19), RenewalReq (17).  `renewed` says that the  *)
(* signer certificate was issued by this CA.                               *)
SignerAccepted(mt, signer, renewed, csr) ==
  IF mt = "17" THEN signer # NoKey /\ renewed
  ELSE signer # NoKey => signer = csr.key

Target(signer) == IF signer = NoKey THEN CaKey ELSE signer

EnrollRefused(mt, signer, renewed, csr) ==
  /\ \/ ~SignerAccepted(mt, signer, renewed, csr)
     \/ csr.kind = "badchal"
     \/ RequireApproval /\ csr.kind = "badsig"
  /\ Send(Failure("badRequest", TRUE))
  /\ UNCHANGED <<cfg, pending, issued, certs, parks, recorded>>

MayEnroll(mt, signer, renewed, csr) ==
  SignerAccepted(mt, signer, renewed, csr) /\ csr.kind # "badchal"

MayPark(mt, signer, renewed, csr) ==
  RequireApproval /\ MayEnroll(mt, signer, renewed, csr) /\ csr.kind # "badsig"

HasRoom_AnyTid(tid) == Len(pending) < PendingMax

HasRoom(tid) == Slot(tid) = {} /\ Len(pending) < PendingMax

Park(mt, tid, signer, renewed, csr) ==
  /\ MayPark(mt, signer, renewed, csr) /\ parks < MaxParks
  /\ HasRoom(tid)
  /\ pending' = Append(pending, [tid |-> tid, csr |-> csr,
                                 signer |-> Target(signer)])
  /\ parks' = parks + 1
  /\ Send(Reply("3", "none", NoKey, 0, FALSE))
  /\ UNCHANGED <<cfg, issued, certs, recorded>>

(* pending_add failing, for want of a slot or of memory.                   *)
ParkFails(mt, tid, signer, renewed, csr) ==
  /\ MayPark(mt, signer, renewed, csr)
  /\ Slot(tid) = {}
  /\ Send(Failure("badRequest", FALSE))
  /\ UNCHANGED <<cfg, pending, issued, certs, parks, recorded>>

(* A transaction already parked: only its signer may send it again.        *)
Resent(mt, tid, signer, renewed, csr) ==
  /\ MayPark(mt, signer, renewed, csr)
  /\ \E i \in Slot(tid) :
       Send(IF pending[i].signer = signer /\ pending[i].csr = csr
            THEN Reply("3", "none", NoKey, 0, FALSE)
            ELSE Failure("badRequest", TRUE))
  /\ UNCHANGED <<cfg, pending, issued, certs, parks, recorded>>

EnrollNow(mt, signer, renewed, csr) ==
  /\ ~RequireApproval /\ MayEnroll(mt, signer, renewed, csr)
  /\ \/ IssueNoMemory \/ IssueFails
     \/ Issue(csr, signer, Target(signer))
  /\ UNCHANGED <<cfg, pending, parks>>

(* handle_get_cert_initial (20).  The poll names the issuer and the CSR's  *)
(* subject; `named` is FALSE when the issuer is not this CA.               *)
PollAccepted_AnyKey(i, signer, named, subj) ==
  named /\ pending[i].csr.subj = subj /\ signer # NoKey

PollAccepted(i, signer, named, subj) ==
  named /\ pending[i].csr.subj = subj /\ signer = pending[i].signer

PollRefused(tid, signer, named, subj) ==
  /\ \A i \in Slot(tid) : ~PollAccepted(i, signer, named, subj)
  /\ Send(Failure("badCertId", FALSE))
  /\ UNCHANGED <<cfg, pending, issued, certs, parks, recorded>>

(* Out of memory before issuing keeps the request for another poll.        *)
PollNoMemory(tid, signer, named, subj) ==
  /\ \E i \in Slot(tid) : PollAccepted(i, signer, named, subj)
  /\ IssueNoMemory
  /\ UNCHANGED <<cfg, pending, parks>>

Release_KeepsOn500(tid, signer, named, subj) ==
  /\ \E i \in Slot(tid) :
       /\ PollAccepted(i, signer, named, subj)
       /\ \/ IssueFails /\ pending' = Without(i)
          \/ /\ Issue(pending[i].csr, signer, pending[i].signer)
             /\ pending' = IF reply' = Http("500") THEN pending ELSE Without(i)
  /\ UNCHANGED <<cfg, parks>>

Release_MovedEntry(tid, signer, named, subj) ==
  /\ \E i \in Slot(tid) :
       /\ PollAccepted(i, signer, named, subj)
       /\ IssueFails \/ Issue(pending[Len(pending)].csr, signer, pending[i].signer)
       /\ pending' = Without(i)
  /\ UNCHANGED <<cfg, parks>>

Release(tid, signer, named, subj) ==
  /\ \E i \in Slot(tid) :
       /\ PollAccepted(i, signer, named, subj)
       /\ IssueFails \/ Issue(pending[i].csr, signer, pending[i].signer)
       /\ pending' = Without(i)
  /\ UNCHANGED <<cfg, parks>>

(* handle_get_cert (21), when enabled.                                     *)
GetCert(signer, named, n) ==
  /\ EnableGetCert
  /\ Send(IF signer = NoKey THEN Failure("badRequest", TRUE)
          ELSE IF ~named \/ \A i \in 1..Len(issued) : issued[i] # n
          THEN Failure("badCertId", FALSE)
          ELSE Reply("0", "none", signer, n, FALSE))
  /\ UNCHANGED <<cfg, pending, issued, certs, parks, recorded>>

(* handle_pki_op on what it dispatches to none of these: a message that    *)
(* does not parse, lacks an attribute, does not decrypt, is of another     *)
(* type, or finds no memory for a check.                                   *)
NotHandled ==
  /\ reply' \in {Http("400"), Http("500"), Failure("badAlg", TRUE),
                 Failure("badRequest", TRUE)}
  /\ UNCHANGED <<cfg, pending, issued, certs, parks, recorded>>

Enroll(mt, tid, signer, renewed, csr) ==
  \/ EnrollRefused(mt, signer, renewed, csr)
  \/ Park(mt, tid, signer, renewed, csr)
  \/ ParkFails(mt, tid, signer, renewed, csr)
  \/ Resent(mt, tid, signer, renewed, csr)
  \/ EnrollNow(mt, signer, renewed, csr)

Poll(tid, signer, named, subj) ==
  \/ PollRefused(tid, signer, named, subj)
  \/ PollNoMemory(tid, signer, named, subj)
  \/ Release(tid, signer, named, subj)

(* A message of one client: CSRs are for keys it can sign with.            *)
Message(signer, keys) ==
  \/ \E t \in Tids, csr \in Csrs :
       /\ csr.key \in keys
       /\ \/ Enroll("19", t, signer, FALSE, csr)
          \/ \E b \in BOOLEAN : Enroll("17", t, signer, b, csr)
  \/ \E b \in BOOLEAN :
       \/ \E t \in Tids, subj \in Subjects : Poll(t, signer, b, subj)
       \/ \E n \in 1..MaxIssues : GetCert(signer, b, n)

ServerNext == NotHandled \/ \E signer \in Keys \cup {NoKey} : Message(signer, Keys)

ServerSpec == ServerInit /\ [][ServerNext]_srv
-----------------------------------------------------------------------------
(* Properties                                                              *)

(* A transactionID is parked at most once, so that pending_find, which     *)
(* stops at the first match, finds the entry a poll is about; and never    *)
(* more of them than items[] has room for.                                 *)
OneEntryPerTransaction ==
  /\ \A i, j \in 1..Len(pending) : pending[i].tid = pending[j].tid => i = j
  /\ Len(pending) <= PendingMax

(* With approval required every certificate uses up one parked request:    *)
(* replayed requests, repeated polls and replies that cannot be sent never *)
(* make the CA issue twice for one approval.                               *)
IssuedOncePerApproval ==
  RequireApproval => Len(certs) <= parks - Len(pending)

(* A request in the queue stays there as it was parked until a poll for    *)
(* its own transaction, signed with the parking key, is answered by the    *)
(* CA: no other message, not even a poll for a neighbouring entry, removes *)
(* or changes it.  And with approval required a certificate is issued only *)
(* for a CSR in the queue, at the request of the key that parked it.       *)
Kept(e, q) == \E i \in 1..Len(q) : q[i] = e

ParkedStep ==
  /\ \A i \in 1..Len(pending) :
       \/ Kept(pending[i], pending')
       \/ \E subj \in Subjects :
            Release(pending[i].tid, pending[i].signer, TRUE, subj)
  /\ RequireApproval /\ certs' # certs =>
       \E i \in 1..Len(pending) :
         /\ pending[i].csr = certs'[Len(certs')].csr
         /\ pending[i].signer = certs'[Len(certs')].by

ParkedUntilReleased == [][ParkedStep]_srv

(* The registry holds the certificates recorded last, in order, and a      *)
(* SUCCESS reply always carries one that the CA has issued.                *)
RegistryKeepsNewest ==
  /\ issued = SubSeq(recorded, Len(recorded) - Len(issued) + 1, Len(recorded))
  /\ Len(recorded) >= IssuedMax => Len(issued) = IssuedMax
  /\ reply.st = "0" => reply.cert \in 1..Len(certs)

(* "Refuse now a CSR that could never issue, rather than park it."         *)
ParkedCanIssue == \A i \in 1..Len(pending) : pending[i].csr.kind = "good"
=============================================================================

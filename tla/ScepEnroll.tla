------------------------------ MODULE ScepEnroll ------------------------------
(***************************************************************************)
(* SCEP enrolment end to end: scep_enroll of cli/wolfcert_client.c and the *)
(* one-shot calls of scep_client.c below it, a network that loses and      *)
(* delays, and the server of ScepServer with its other clients.  A request *)
(* may reach the server long after the client has given up on it, and an   *)
(* answer may never arrive.  That an answer taken by the client is the     *)
(* server's answer to that very request is what ScepSession shows.         *)
(***************************************************************************)
EXTENDS ScepServer, Cli, FiniteSets

CONSTANTS TxidModes,   \* the --txid-mode of the client: random or pubkey
          KeyTid       \* the transactionID derived from a key

(* A pkiMessage of the client, and the run that sent it.                   *)
Requests == [mt : {"17", "19", "20"}, tid : Tids, key : OwnKeys, run : 0..MaxRuns]

ASSUME ScepEnrollAssumption ==
  /\ OwnKeys \subseteq Keys /\ OwnKeys # Keys /\ Subjects # {}
  /\ TxidModes \subseteq {"random", "pubkey", "none"}
  /\ KeyTid \in [OwnKeys -> Tids]
  /\ Nothing \notin Requests

VARIABLES
  mode,      \* the client's txid_mode, "none" if the client is never run
  tid,       \* the transactionID of the run
  wire,      \* requests of the client on their way to the server
  awaited,   \* the request the running process waits on
  back,      \* the answer to it, on its way back
  spent      \* transactionIDs drawn at random so far

net == <<tid, wire, awaited, back, spent>>
scep == <<srv, cli, mode, net>>

Subject == CHOOSE s \in Subjects : TRUE

(* The CSR of a run: RSA signatures are deterministic, so a CSR built again*)
(* for the same key and certificate is the same.                           *)
OwnCsr(k) == [key |-> k, subj |-> Subject, kind |-> "good"]

ScepEnrollInit ==
  /\ ServerInit /\ CliInit
  /\ mode \in TxidModes /\ (mode = "none" => used = {}) /\ tid = Nothing
  /\ wire = {} /\ awaited = Nothing /\ back = Nothing /\ spent = {}
-----------------------------------------------------------------------------
(* scep_build_txid, when there is no transaction to continue.  Which of the*)
(* transactionIDs is drawn makes no difference, as others may use any.     *)
NewTid_AlwaysRandom == Tids \ spent

NewTid ==
  IF mode = "pubkey" THEN {KeyTid[run.key]}
  ELSE {t \in Tids \ spent : t = CHOOSE u \in Tids \ spent : TRUE}

Transmit(m, r) ==
  /\ wire' = wire \cup {m} /\ awaited' = m /\ run' = r
  /\ UNCHANGED <<disk, runs, used, spoiled, srv, mode, back>>

(* The PKCSReq or RenewalReq.  Without the Renewal capability a renewal is *)
(* a PKCSReq signed by the certificate to be renewed.                      *)
Ask ==
  /\ run.pc = "ask"
  /\ \E t \in NewTid, mt \in IF run.op = "reenroll" THEN {"17", "19"} ELSE {"19"} :
       /\ tid' = t
       /\ spent' = IF mode = "random" THEN spent \cup {t} ELSE spent
       /\ Transmit([mt |-> mt, tid |-> t, key |-> run.key, run |-> runs],
                   [run EXCEPT !.pc = "sent"])

AskAgain_Uncounted ==
  /\ run.pc = "sleep"
  /\ Transmit([mt |-> "20", tid |-> tid, key |-> run.key, run |-> runs],
              [run EXCEPT !.pc = "sent"])
  /\ UNCHANGED <<tid, spent>>

(* The next GetCertInitial of the loop, after the pause.                   *)
AskAgain ==
  /\ run.pc = "sleep"
  /\ Transmit([mt |-> "20", tid |-> tid, key |-> run.key, run |-> runs],
              [run EXCEPT !.pc = "sent", !.attempts = @ + 1])
  /\ UNCHANGED <<tid, spent>>

(* Nobody waits for an answer any more.                                    *)
Abandon == awaited' = Nothing /\ back' = Nothing /\ tid' = Nothing

Fails_AsksAgain ==
  /\ run.pc \in {"ask", "sleep", "sent"}
  /\ IF run.pc = "sent" THEN Goto("ask") /\ UNCHANGED <<disk, runs, used, spoiled>>
     ELSE GiveUp
  /\ Abandon
  /\ UNCHANGED <<srv, mode, wire, spent>>

(* GetCACert, the pin, GetCACaps or building the request fails; or the     *)
(* connection breaks while the answer is awaited.  No request is tried a   *)
(* second time, and no wait is cut short: scep_client.c makes blocking     *)
(* calls, which have no timeout.                                           *)
Fails ==
  /\ run.pc \in {"ask", "sleep", "sent"}
  /\ GiveUp /\ Abandon
  /\ UNCHANGED <<srv, mode, wire, spent>>

(* The answer: PENDING is polled while attempts are left, a SUCCESS that   *)
(* the key can open has the certificate, everything else ends the run.     *)
PollsOn == back.st = "3" /\ run.attempts < PollAttempts

Opens == back.st = "0" /\ back.to = run.key

Receive ==
  /\ run.pc = "sent" /\ back # Nothing
  /\ awaited' = Nothing /\ back' = Nothing
  /\ \/ /\ PollsOn
        /\ Goto("sleep") /\ UNCHANGED <<disk, runs, used, spoiled, tid>>
     \/ /\ Opens
        /\ Obtain([no |-> back.cert, key |-> certs[back.cert].csr.key])
        /\ UNCHANGED tid
     \/ ~PollsOn /\ ~Opens /\ GiveUp /\ tid' = Nothing
  /\ UNCHANGED <<srv, mode, wire, spent>>

(* What the process does while no answer is outstanding; the GetCACert and *)
(* GetCACaps before the first request, answered, are part of Ask.          *)
Proceeds == Ask \/ AskAgain \/ Receive \/ (Save /\ UNCHANGED <<srv, mode, net>>)

Client == Proceeds \/ Fails

StartRun ==
  /\ mode # "none"
  /\ StartReenroll \/ \E k \in OwnKeys : StartEnroll(k, "enroll")
  /\ UNCHANGED <<srv, mode, net>>

Kill == Killed /\ Abandon /\ UNCHANGED <<srv, mode, wire, spent>>
-----------------------------------------------------------------------------
(* A CA whose operator takes longer (external): the in-tree server grants  *)
(* the first poll, another answers PENDING until it has an approval.       *)
StillPending(m) ==
  /\ \E i \in Slot(m.tid) : PollAccepted(i, m.key, TRUE, Subject)
  /\ Send(Reply("3", "none", NoKey, 0, FALSE))
  /\ UNCHANGED <<cfg, pending, issued, certs, parks, recorded>>

(* A request of the client reaches the server.  The certificate and the    *)
(* key of a renewal come from the files, where they need not match: such a *)
(* signature does not verify.                                              *)
Deliver(m) ==
  /\ \/ m.mt \in {"19", "17"} /\ Enroll(m.mt, m.tid, m.key, TRUE, OwnCsr(m.key))
     \/ m.mt = "20" /\ (Poll(m.tid, m.key, TRUE, Subject) \/ StillPending(m))
     \/ NotHandled
  /\ wire' = wire \ {m}
  /\ back' = IF m = awaited THEN reply' ELSE back
  /\ UNCHANGED <<cli, mode, tid, awaited, spent>>

(* Other clients, who cannot sign with the keys of this one.  A message    *)
(* the server refuses changes nothing but its own answer, so beside the    *)
(* client only what another parks, releases or has issued is looked at;    *)
(* with no such client around, everything any two of them may send.        *)
Strangers == Keys \ OwnKeys

Others ==
  /\ IF mode = "none"
     THEN NotHandled \/ \E signer \in Strangers \cup {NoKey} : Message(signer, Strangers)
     ELSE LET k == CHOOSE s \in Strangers : TRUE IN
          \/ EnrollNow("19", k, FALSE, OwnCsr(k))
          \/ \E t \in Tids : Release(t, k, TRUE, Subject) \/ Park("19", t, k, FALSE, OwnCsr(k))
  /\ UNCHANGED <<cli, mode, net>>

ScepEnrollNext ==
  \/ StartRun \/ Client \/ Kill \/ Others
  \/ \E m \in wire : Deliver(m)

(* A process that is not killed keeps running, and a request it waits on   *)
(* is answered unless the connection breaks first.  That the client cannot *)
(* do without: nothing in it ends a wait for a server that stays silent.   *)
(* No failure is counted on to end anything.                               *)
Answered == \E m \in wire : m = awaited /\ Deliver(m)

ScepEnrollSpec ==
  ScepEnrollInit /\ [][ScepEnrollNext]_scep /\ WF_scep(Proceeds) /\ WF_scep(Answered)
-----------------------------------------------------------------------------
(* Properties                                                              *)

(* Whatever the other clients send, also under the same transactionID, and *)
(* however late requests arrive, the certificate a run ends up with is the *)
(* one issued for its own CSR and key.                                     *)
OwnCertificate ==
  run.cert # Nothing => certs[run.cert.no].csr = OwnCsr(run.key)

(* A lost request or answer never makes the CA issue twice for one run:    *)
(* what a lost SUCCESS costs is that one certificate.                      *)
OneCertPerRun ==
  Cardinality({n \in 1..Len(certs) : certs[n].by \in OwnKeys}) <= runs

(* While a run is between PENDING and the arrival of its poll, its request *)
(* waits in the queue: nobody else can release, replace or crowd it out.   *)
(* With transactionIDs derived from the key a late poll of an earlier run  *)
(* can, but repeated runs of one key share one entry.                      *)
PollAhead ==
  run.pc = "sleep" \/ (awaited # Nothing /\ awaited.mt = "20" /\ awaited \in wire)

ParkedForPoll ==
  IF mode = "random"
  THEN PollAhead => \E i \in Slot(tid) :
         pending[i].signer = run.key /\ pending[i].csr = OwnCsr(run.key)
  ELSE \A i, j \in 1..Len(pending) :
         pending[i].signer = pending[j].signer /\ pending[i].signer \in OwnKeys
         => i = j

(* Every run ends, even against a CA that answers PENDING for ever: the    *)
(* polls are counted.  A server that does not answer at all, on a          *)
(* connection that does not break, is excluded by Answered.                *)
EnrollEnds == run.pc # "off" ~> run.pc = "off"
=============================================================================

------------------------------- MODULE EstEnroll -------------------------------
(***************************************************************************)
(* EST enrolment end to end: the EST arms of cmd_enroll and cmd_reenroll of*)
(* cli/wolfcert_client.c with wolfcert_client_reenroll and the one-shot    *)
(* calls of est_client.c below them, a connection that may break at any    *)
(* point, and the server of EstServer with its other clients.  A broken    *)
(* connection does not recall a request: the server may have read it.      *)
(***************************************************************************)
EXTENDS EstServer, Cli, FiniteSets

CONSTANTS Device,      \* the identity in the client's certificates
          Modes        \* how the client is used; see mode

ASSUME EstEnrollAssumption ==
  /\ Device \in Clients
  /\ Modes \subseteq {"randomised", "deterministic", "none"}
  /\ \E csr \in Csrs : csr.kind = "good" /\ csr.attrs /\ csr.subj # Device

VARIABLES
  mode,      \* the client's signature scheme, "none" if it is never run
  line,      \* who is at the other end of the server's connection: "none",
             \* "client", "left" (the client, but it has gone), "other"
  post,      \* the client's request, until the server has handled it
  back       \* the answer to it, until the client has read it

net == <<line, post, back>>
enrol == <<est, cli, mode, net>>

EstEnrollInit ==
  /\ EstServerInit /\ CliInit
  /\ mode \in Modes /\ (mode = "none" => used = {}) /\ line = "none" /\ post = Nothing /\ back = Nothing

(* A CSR of the client, built once per run.  With ECDSA two CSRs for the   *)
(* same key and name differ, with RSA and EdDSA they do not.               *)
OwnCsr_PerPost ==
  [subj |-> Device, kind |-> "good", attrs |-> TRUE, san |-> TRUE,
   key |-> run.key, sig |-> IF mode = "randomised" THEN <<runs, run.pc>> ELSE <<>>]

OwnCsr ==
  [subj |-> Device, kind |-> "good", attrs |-> TRUE, san |-> TRUE,
   key |-> run.key, sig |-> IF mode = "randomised" THEN <<runs, 0>> ELSE <<>>]

Path == IF run.op = "reenroll" THEN "simplereenroll" ELSE "simpleenroll"
-----------------------------------------------------------------------------
StartRun ==
  /\ mode # "none"
  /\ StartReenroll \/ \E k \in OwnKeys, op \in {"enroll", "pha"} : StartEnroll(k, op)
  /\ UNCHANGED <<est, mode, net>>

Request(what) == [what |-> what, path |-> Path, csr |-> OwnCsr]

(* est_one_shot: every call dials anew, with the client certificate it has *)
(* if the server asks for one.  --pha fetches /cacerts first and keeps the *)
(* connection for the POST.                                                *)
Dial_Uncounted ==
  /\ run.pc \in {"ask", "sleep"} /\ line = "none"
  /\ \E c \in {Device, NoClient} : Connect(TRUE, c)
  /\ line' = "client"
  /\ post' = Request(IF run.op = "pha" THEN "cacerts" ELSE "enroll")
  /\ Goto("sent")
  /\ UNCHANGED <<disk, runs, used, spoiled, mode, back>>

Dial ==
  /\ run.pc \in {"ask", "sleep"} /\ line = "none"
  /\ \E c \in {Device, NoClient} : Connect(TRUE, c)
  /\ line' = "client"
  /\ post' = Request(IF run.op = "pha" THEN "cacerts" ELSE "enroll")
  /\ run' = [run EXCEPT !.pc = "sent",
                        !.attempts = IF run.pc = "sleep" THEN @ + 1 ELSE @]
  /\ UNCHANGED <<disk, runs, used, spoiled, mode, back>>

(* The session is closed, after the answer or without it.                  *)
Leave ==
  /\ line' = IF line = "client" THEN "left" ELSE line
  /\ back' = Nothing

(* The server cannot be reached or the connection breaks.  No POST is      *)
(* repeated for that, and no wait is cut short: est_client.c makes         *)
(* blocking calls, which have no timeout.                                  *)
Fails ==
  /\ run.pc \in {"ask", "sleep", "sent"}
  /\ GiveUp /\ Leave
  /\ UNCHANGED <<est, mode, post>>

(* The second request of a --pha session.                                  *)
PostNext ==
  /\ run.pc = "sent" /\ back # Nothing
  /\ run.op = "pha" /\ back.what = "cacerts" /\ back.code = 200 /\ line = "client"
  /\ post' = Request("enroll") /\ back' = Nothing
  /\ UNCHANGED <<est, cli, mode, line>>

(* Only a plain enroll polls: --pha has no loop, and reenroll goes through *)
(* wolfcert_client_reenroll, which makes one attempt.                      *)
PollsOn == run.op = "enroll" /\ run.attempts < PollAttempts

(* The answer to the POST; a 202 that is not polled ends the run with      *)
(* WOLFCERT_ERR_PENDING.                                                   *)
Receive ==
  /\ run.pc = "sent" /\ back # Nothing
  /\ \/ /\ back.what = "enroll" /\ back.code = 200
        /\ Obtain([no |-> back.no, key |-> run.key])
     \/ /\ back.what = "enroll" /\ back.code = 202 /\ PollsOn
        /\ Goto("sleep") /\ UNCHANGED <<disk, runs, used, spoiled>>
     \/ /\ back.what = "enroll" /\ back.code = 202 /\ ~PollsOn
        /\ run' = [Off EXCEPT !.exit = "pending", !.attempts = run.attempts]
        /\ UNCHANGED <<disk, runs, used, spoiled>>
     \/ /\ IF back.what = "enroll" THEN back.code \notin {200, 202} ELSE back.code # 200
        /\ GiveUp
  /\ Leave
  /\ UNCHANGED <<est, mode, post>>

Client == Dial \/ PostNext \/ Receive \/ Fails \/ (Save /\ UNCHANGED <<est, mode, net>>)

(* What the process does without waiting on anybody: with the server gone, *)
(* reading ends at once.                                                   *)
Proceeds ==
  \/ PostNext \/ Receive \/ (Save /\ UNCHANGED <<est, mode, net>>)
  \/ run.pc = "sent" /\ line # "client" /\ Fails

Kill == Killed /\ Leave /\ UNCHANGED <<est, mode, post>>
-----------------------------------------------------------------------------
(* A CA whose operator takes longer (external): the in-tree server issues  *)
(* at the second POST, another answers 202 until it has an approval.       *)
StillPending ==
  /\ open /\ RequireApproval /\ Slot(post.csr) # {}
  /\ Answer(202, peer)
  /\ UNCHANGED <<cfg, pending, certs, parks>>

(* The server handles the client's request, in time or not.                *)
Handle ==
  /\ line \in {"client", "left"} /\ post # Nothing
  /\ IF post.what = "cacerts" THEN Other
     ELSE \/ StillPending
          \/ \E auth \in BOOLEAN, c \in {Device, NoClient} :
               \/ Refused(post.path, auth, c, post.csr)
               \/ Park(post.path, auth, c, post.csr)
               \/ EnrollNow(post.path, auth, c, post.csr)
  /\ post' = Nothing
  /\ back' = IF line = "client"
             THEN [what |-> post.what, code |-> reply', no |-> Len(certs')] ELSE back
  /\ line' = IF open' THEN line ELSE "none"
  /\ UNCHANGED <<cli, mode>>

(* The server notices that its peer is gone, or drops it.                  *)
Drop ==
  /\ line # "none" /\ Disconnect
  /\ line' = "none" /\ post' = Nothing
  /\ UNCHANGED <<cli, mode, back>>

(* Other clients.  Beside this one only those whose CSRs are parked or     *)
(* issued are looked at; without it, everything they may do.               *)
Stranger == CHOOSE csr \in Csrs : csr.kind = "good" /\ csr.attrs /\ csr.subj # Device

Others ==
  /\ UNCHANGED <<cli, mode, post, back>>
  /\ IF mode = "none" THEN EstServerNext /\ UNCHANGED line
     ELSE \/ line = "none" /\ Connect(TRUE, Stranger.subj) /\ line' = "other"
          \/ line = "none" /\ Connect(TRUE, NoClient) /\ line' = "other"
          \/ /\ line = "other"
             /\ \E c \in {Stranger.subj, NoClient} :
                  \/ Park("simpleenroll", TRUE, c, Stranger)
                  \/ EnrollNow("simpleenroll", TRUE, c, Stranger)
             /\ line' = IF open' THEN line ELSE "none"

EstEnrollNext == StartRun \/ Client \/ Kill \/ Handle \/ Drop \/ Others

(* A process that is not killed keeps running; whoever is connected to the *)
(* server is answered or dropped, and who waits to connect has a turn.     *)
(* That the client cannot do without: nothing in it ends a wait for a      *)
(* server that stays silent.  No failure to connect is counted on.         *)
EstEnrollSpec ==
  /\ EstEnrollInit /\ [][EstEnrollNext]_enrol
  /\ WF_enrol(Proceeds) /\ WF_enrol(Handle \/ Drop) /\ SF_enrol(Dial)
-----------------------------------------------------------------------------
(* Properties                                                              *)

(* A run asks the CA for one certificate: however its POSTs, polls and     *)
(* lost answers fall out, it leaves behind one certificate or one CSR in   *)
(* the queue, never both and never two.                                    *)
Own(csr) == "key" \in DOMAIN csr

OneRequestPerRun ==
  Cardinality({i \in 1..Len(pending) : Own(pending[i])}) +
  Cardinality({n \in 1..Len(certs) : Own(certs[n].csr)}) <= runs

(* Every run ends, even against a CA that answers 202 for ever: the polls  *)
(* are counted.  A server that neither answers nor drops the connection is *)
(* excluded by the fairness of Handle and Drop.                            *)
EnrollEnds == run.pc # "off" ~> run.pc = "off"

(* "--poll-attempts N  Retry on PENDING up to N times [...] Applies to SCEP*)
(* GetCertInitial and to EST /simpleenroll / /simplereenroll": a run that  *)
(* ends pending has polled as often as it was told to.                     *)
PollsAsTold == run.exit = "pending" => run.attempts = PollAttempts
=============================================================================

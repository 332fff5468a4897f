------------------------------ MODULE Algorithms ------------------------------
(***************************************************************************)
(* Calls of the pure algorithms: a state is a call that is about to be     *)
(* made or has been made, of one algorithm on one of its inputs.           *)
(***************************************************************************)
EXTENDS CaSelect, CsrAttrs, ScepMsg, Dial, RetryAfter

CONSTANT Inputs(_)     \* the inputs of each algorithm

VARIABLES alg, in, called
vars == <<alg, in, called>>

Algs == {"ca", "wait", "dial", "policy", "list", "write", "read", "body", "frame"}

(* An input is one the program can hand to the algorithm.  The bodies of   *)
(* ChunkScan may be anything.                                              *)
ASSUME InputsAssumption ==
  /\ \A x \in Inputs("ca") : CaCall(x.served, x.pin)
  /\ \A x \in Inputs("wait") : WaitCall(x.v, x.now)
  /\ \A x \in Inputs("dial") : DialCall(x.addrs, x.ms)
  /\ \A x \in Inputs("policy") : PolicyCall(x.wire, x.ask)
  /\ \A x \in Inputs("list") : ListCall(x.items)
  /\ \A x \in Inputs("write") : WriteCall(x.attrs)
  /\ \A x \in Inputs("read") : ReadCall(x)

Init == called = FALSE /\ alg \in Algs /\ in \in Inputs(alg)

Next == ~called /\ called' = TRUE /\ UNCHANGED <<alg, in>>

Spec == Init /\ [][Next]_vars
-----------------------------------------------------------------------------
(* Who a SCEP request is encrypted to, and who may answer it, is decided   *)
(* by the pins alone, and never by the order of the server's list          *)
(* (scep_ca_set_from_der, wolfcert_scep_select_ra_cert).                   *)
TrustedRecipient ==
  called /\ alg = "ca" =>
    OnlyPinned(in.served, in.pin) /\ AnyOrder(in.served, in.pin)

(* The two waits of a client: the one before the next attempt is what      *)
(* Retry-After says by the calendar, at most a day (parse_retry_after); the*)
(* connect timeout bounds the whole dial, and no reachable address is      *)
(* passed over while time is left (wolfcert_posix_connect).                *)
WaitsRight ==
  called => /\ alg = "wait" => WaitsAsTold(in.v, in.now)
            /\ alg = "dial" => WithinTimeout(in.addrs, in.ms)

(* The key and the signature of an EST request follow /csrattrs where the  *)
(* operator left them open, and client and server read the same policy     *)
(* (wolfcert_csr_attrs_apply, csr_attrs_enforce).                          *)
PolicyFollowed ==
  called => /\ alg = "policy" => PolicyHonoured(in.wire, in.ask)
            /\ alg = "list" => ReadBack(in.items)

(* A pkiMessage is read as it was written, or not at all                   *)
(* (wolfcert_scep_build_pki_message, wolfcert_scep_parse_pki_message).     *)
MessagesAsWritten ==
  called => /\ alg = "write" => WrittenAsRead(in.content, in.by, in.attrs)
            /\ alg = "read" => ReadUnambiguously(in)
=============================================================================

-------------------------------- MODULE Dial --------------------------------
(***************************************************************************)
(* wolfcert_posix_connect of src/net_posix.c: the addresses a host name    *)
(* resolves to are tried in turn, each with what is left of the timeout.   *)
(* An address is a record: answer ("connects", "refuses", "silent", or     *)
(* "noSocket" where socket() fails for it) and after, how many             *)
(* milliseconds the answer takes.                                          *)
(***************************************************************************)
EXTENDS Sequences, FiniteSetsExt

(* connect_timeout with no signal arriving: how it ends and what it takes. *)
(* ms <= 0 waits for ever; a silent address then ends when the kernel      *)
(* gives up, after a.after.                                                *)
Attempt(a, ms) ==
  IF a.answer # "silent" /\ (ms <= 0 \/ a.after < ms)
  THEN [end |-> IF a.answer = "connects" THEN "open" ELSE "failed", took |-> a.after]
  ELSE [end |-> "failed", took |-> IF ms <= 0 THEN a.after ELSE ms]

(* The loop: where stands the clock, which address is open (0: none), and  *)
(* whether the loop goes on or has been left.                              *)
AfterAttempt(s, t) ==
  IF t.end = "open" THEN [s EXCEPT !.at = @ + t.took, !.fd = s.i, !.loop = "left"]
  ELSE [s EXCEPT !.i = @ + 1, !.at = @ + t.took]

TryNext_FullTimeout(s, a, ms) ==
  IF s.loop = "left" THEN s ELSE AfterAttempt(s, Attempt(a, ms))

TryNext(s, a, ms) ==
  LET left == IF ms > 0 THEN ms - s.at ELSE ms
  IN IF s.loop = "left" THEN s
     ELSE IF ms > 0 /\ left <= 0 THEN [s EXCEPT !.loop = "left"]
     ELSE IF a.answer = "noSocket" THEN [s EXCEPT !.i = @ + 1]
     ELSE AfterAttempt(s, Attempt(a, left))

StatesOf(addrs, ms) ==
  LET s[n \in 0..Len(addrs)] ==
        IF n = 0 THEN [i |-> 1, at |-> 0, fd |-> 0, loop |-> "on"]
        ELSE TryNext(s[n - 1], addrs[n], ms)
  IN s

PosixConnect(addrs, ms) == StatesOf(addrs, ms)[Len(addrs)]
-----------------------------------------------------------------------------
(* The timeout bounds the whole connect, however many addresses there are, *)
(* and an address that answers in time is used unless the ones before it   *)
(* have used up the time.                                                  *)
Address == [answer : {"connects", "refuses", "silent", "noSocket"}, after : Nat]

DialCall(addrs, ms) == ms \in Int /\ addrs \in Seq(Address)

Cost(a, ms) == IF a.answer = "noSocket" THEN 0 ELSE IF a.answer = "silent" THEN ms ELSE a.after

Spent(addrs, ms) ==
  LET t[n \in 0..Len(addrs)] == IF n = 0 THEN 0 ELSE t[n - 1] + Cost(addrs[n], ms) IN t

WithinTimeout(addrs, ms) ==
  LET r == PosixConnect(addrs, ms)
      good == {i \in DOMAIN addrs : addrs[i].answer = "connects"}
  IN ms > 0 =>
       /\ r.at <= ms
       /\ r.fd # 0 <=> \E i \in good : Spent(addrs, ms)[i] < ms
       /\ r.fd # 0 => r.fd = Min(good)
=============================================================================

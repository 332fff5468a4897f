------------------------------- MODULE CaSelect -------------------------------
(***************************************************************************)
(* Which of the certificates a SCEP server offers are trusted, and which   *)
(* one the request is encrypted to: scep_ca_set_from_der and               *)
(* scep_ca_set_pick_ra of cli/wolfcert_client.c, on top of                 *)
(* wolfcert_scep_select_ra_cert of src/scep/scep_msg.c.  A certificate is  *)
(* a record: subj, iss and by (the key that signed it), key, rsa, ca, ku   *)
(* (the set of key usages, NoKu without the extension), valid.             *)
(***************************************************************************)
EXTENDS Sequences, FiniteSetsExt

CONSTANTS
  NoKu,        \* no keyUsage extension
  NoPin,       \* --ca-fingerprint is not given
  MaxCerts     \* MAX_PKCS7_CERTS

(* ra_candidate_parse                                                      *)
Usage(c, u) == c.ku # NoKu /\ u \in c.ku

Rank(c) ==
  CASE ~c.rsa -> -1
    [] c.rsa /\ c.ca -> 0
    [] c.rsa /\ ~c.ca /\ c.ku = NoKu -> 2
    [] c.rsa /\ ~c.ca /\ Usage(c, "keyEncipherment") ->
         IF Usage(c, "digitalSignature") THEN 3 ELSE 4
    [] c.rsa /\ ~c.ca /\ c.ku # NoKu /\ ~Usage(c, "keyEncipherment") ->
         IF Usage(c, "dataEncipherment") THEN 1 ELSE -1

SelfIssued(c) == c.subj = c.iss

(* ra_candidate_issued_ca                                                  *)
IssuedCa(b, i) ==
  \E j \in DOMAIN b \ {i} : b[j].ca /\ ~SelfIssued(b[j]) /\ b[j].iss = b[i].subj

(* wolfcert_scep_select_ra_cert: the candidates left after each pass over  *)
(* the bundle, as indices, and the verdict on them.                        *)
Best(b) == Max({-1} \cup {Rank(b[i]) : i \in DOMAIN b})

BestKept(b) ==
  {i \in DOMAIN b : Best(b) >= 0 /\ Rank(b[i]) = Best(b) /\ (Best(b) > 0 \/ ~IssuedCa(b, i))}

LowestKept(b) ==
  IF Best(b) = 0 /\ \E i \in BestKept(b) : ~SelfIssued(b[i])
  THEN {i \in BestKept(b) : ~SelfIssued(b[i])} ELSE BestKept(b)

Survivors(b) ==
  IF Best(b) = 0 /\ \E i \in LowestKept(b) : Usage(b[i], "keyEncipherment")
  THEN {i \in LowestKept(b) : Usage(b[i], "keyEncipherment")} ELSE LowestKept(b)

SelectRa_FirstWins(b) ==
  IF Survivors(b) = {} THEN [rc |-> "UNSUPPORTED", at |-> 0]
  ELSE [rc |-> "OK", at |-> Min(Survivors(b))]

SelectRa(b) ==
  IF Survivors(b) = {} THEN [rc |-> "UNSUPPORTED", at |-> 0]
  ELSE IF \E i, j \in Survivors(b) : b[i].key # b[j].key
  THEN [rc |-> "PROTOCOL", at |-> 0]
  ELSE [rc |-> "OK", at |-> Min(Survivors(b))]
-----------------------------------------------------------------------------
(* A fingerprint pin names a certificate: pin.ca one or NoPin, pin.ra any  *)
(* number, and only beside a CA pin (scep_pin_setup).                      *)
RaPinned(pin, c) == c \in pin.ra

SignedBy(c, issuer) ==
  issuer.ca /\ c.iss = issuer.subj /\ c.by = issuer.key /\ c.valid

(* scep_ca_set_from_der: the bundle of trusted certificates, as a function *)
(* from their places in it.  The pinned certificate stands in front, at 0; *)
(* the others keep the order, and so the place, they were served in.       *)
Failed(rc) == [rc |-> rc, bundle |-> <<>>, caIsRa |-> FALSE]

Pinned(served, pin) == {i \in DOMAIN served : served[i] = pin.ca}

KeptRas(served, pin) ==
  {i \in DOMAIN served \ {Min(Pinned(served, pin))} : RaPinned(pin, served[i])}

CaSet_ServedOrder(served, pin) ==
  LET p == Min(Pinned(served, pin)) IN
  IF pin.ca = NoPin THEN [rc |-> "OK", bundle |-> served, caIsRa |-> FALSE]
  ELSE IF Pinned(served, pin) = {} THEN Failed("AUTH")
  ELSE [rc |-> "OK", bundle |-> [i \in {p} \cup KeptRas(served, pin) |-> served[i]],
        caIsRa |-> RaPinned(pin, served[p])]

CaSet(served, pin) ==
  LET p    == Min(Pinned(served, pin))
      kept == KeptRas(served, pin)
  IN IF served = <<>> \/ Len(served) > MaxCerts THEN Failed("PARSE")
     ELSE IF pin.ca = NoPin
     THEN [rc |-> "OK", bundle |-> served, caIsRa |-> FALSE]
     ELSE IF \/ Pinned(served, pin) = {}
             \/ \E i \in kept : ~SignedBy(served[i], served[p])
             \/ \E c \in pin.ra : \A i \in DOMAIN served : served[i] # c
     THEN Failed("AUTH")
     ELSE [rc |-> "OK",
           bundle |-> [i \in {0} \cup kept |-> IF i = 0 THEN served[p] ELSE served[i]],
           caIsRa |-> RaPinned(pin, served[p])]

(* scep_ca_set_pick_ra, and what scep_resolve_ca returns.                  *)
Resolve(served, pin) ==
  LET cs   == CaSet(served, pin)
      pick == SelectRa(cs.bundle)
  IN IF cs.rc # "OK" THEN [rc |-> cs.rc, ra |-> NoPin, bundle |-> <<>>]
     ELSE IF pick.rc # "OK" THEN [rc |-> pick.rc, ra |-> NoPin, bundle |-> cs.bundle]
     ELSE IF pin.ra # {} /\ pick.at = 0 /\ ~cs.caIsRa
     THEN [rc |-> "AUTH", ra |-> NoPin, bundle |-> cs.bundle]
     ELSE [rc |-> "OK", ra |-> cs.bundle[pick.at], bundle |-> cs.bundle]

(* wolfcert_scep_verify_rep_signer: whose signature on a CertRep counts.   *)
MaySign(signer, bundle) == \E i \in DOMAIN bundle : bundle[i].key = signer.key
-----------------------------------------------------------------------------
(* What the client is given: a list of certificates, and pins for an RA    *)
(* only beside a pin for the CA (scep_pin_setup).                          *)
IsCert(c) == c.rsa \in BOOLEAN /\ c.ca \in BOOLEAN /\ c.valid \in BOOLEAN

CaCall(served, pin) ==
  /\ served \in Seq({served[i] : i \in DOMAIN served})
  /\ \A i \in DOMAIN served : IsCert(served[i])
  /\ pin.ca = NoPin => pin.ra = {}

(* Properties of one call                                                  *)

(* With pins only pinned certificates are ever trusted: the request goes   *)
(* to the named RA, or to the pinned CA when no RA is named; an RA counts  *)
(* only when the pinned CA vouches for it; and what signs the answer holds *)
(* the key of one of them.                                                 *)
OnlyPinned(served, pin) ==
  LET r == Resolve(served, pin) IN
  pin.ca # NoPin /\ r.rc = "OK" =>
    /\ IF pin.ra = {} THEN r.ra = pin.ca ELSE r.ra \in pin.ra
    /\ r.ra # pin.ca => SignedBy(r.ra, pin.ca)
    /\ \A c \in {served[i] : i \in DOMAIN served} : MaySign(c, r.bundle) =>
         \E d \in pin.ra \cup {pin.ca} : d.key = c.key

(* The order in which a server lists its certificates does not decide who  *)
(* gets the request: the verdict is the same for any other order, and so   *)
(* is the key.                                                             *)
Reordered(served, o) == [i \in DOMAIN served |-> served[o[i]]]

AnyOrder(served, pin) ==
  \A o \in Bijection(DOMAIN served, DOMAIN served) :
    LET r == Resolve(served, pin)
        t == Resolve(Reordered(served, o), pin)
    IN r.rc = t.rc /\ (r.rc = "OK" => r.ra.key = t.ra.key)
=============================================================================

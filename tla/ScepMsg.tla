------------------------------- MODULE ScepMsg -------------------------------
(***************************************************************************)
(* A SCEP pkiMessage, written and read: build_signed_attribs,              *)
(* wolfcert_scep_build_pki_message and wolfcert_scep_parse_pki_message of  *)
(* src/scep/scep_msg.c.  A message is [by, content, attrs]: the signer,    *)
(* the enveloped content (Absent in a detached SignedData) and the signed  *)
(* attributes in their order.  An attribute is [oid, vals]: its values,    *)
(* each [tag, v, nul], or Truncated.  Signing and verifying (wolfSSL's    *)
(* PKCS7) are external: a message that verifies has the signer it names.   *)
(***************************************************************************)
EXTENDS Integers, Sequences

CONSTANTS
  Absent,       \* no value: a NULL argument or result
  Nothing,      \* a value of no octets
  Truncated,    \* a value whose DER length runs past its end
  Scratch       \* sizeof(scratch), what the encoded attributes may take

ASSUME ScratchAssumption == Scratch \in Nat

Text   == {"messageType", "pkiStatus", "failInfo"}
Binary == {"transactionID", "senderNonce", "recipientNonce"}

AttrOrder == <<"messageType", "transactionID", "senderNonce", "recipientNonce",
               "pkiStatus", "failInfo">>

(* enc_printable_n and enc_octet; v is [s, size, printable]                *)
TagOf(oid) == IF oid \in {"senderNonce", "recipientNonce"} THEN "octet" ELSE "printable"

Encoded(oid, v) == [oid |-> oid, vals |-> <<[tag |-> TagOf(oid), v |-> v.s, nul |-> FALSE]>>]

(* build_signed_attribs: the attributes given, in a fixed order; one that  *)
(* is not printable or does not fit the scratch fails the message          *)
AddAttr(r, o, a) ==
  IF r.rc # "OK" \/ a[o] = Absent THEN r
  ELSE IF TagOf(o) = "printable" /\ ~a[o].printable THEN [r EXCEPT !.rc = "BAD_ARG"]
  ELSE IF r.used + a[o].size > Scratch THEN [r EXCEPT !.rc = "MEMORY"]
  ELSE [r EXCEPT !.used = @ + a[o].size, !.attrs = Append(@, Encoded(o, a[o]))]

AttribsAfter(a) ==
  LET r[n \in 0..Len(AttrOrder)] ==
        IF n = 0 THEN [rc |-> "OK", used |-> 0, attrs |-> <<>>]
        ELSE AddAttr(r[n - 1], AttrOrder[n], a)
  IN r

BuildMessage(content, by, a) ==
  LET s == AttribsAfter(a)[Len(AttrOrder)] IN
  [rc |-> s.rc, msg |-> [by |-> by, content |-> content, attrs |-> s.attrs]]

(* wolfcert_scep_parse_pki_message: the loop over the attributes, leaving  *)
(* at the first that is repeated or not a single non-empty value of its    *)
(* kind; every result is taken back when it leaves early                   *)
AttrBad_ManyValues(a) == a.vals = Truncated \/ a.vals = <<>>

AttrBad(a) ==
  \/ a.vals = Truncated \/ a.vals = <<>>
  \/ Head(a.vals).v = Nothing \/ Len(a.vals) > 1
  \/ a.oid \in Text /\ (Head(a.vals).tag # "printable" \/ Head(a.vals).nul)

NoResults == [o \in Text \cup Binary |-> Absent]

TakeAttr(r, a) ==
  IF r.rc # "OK" \/ a.oid \notin Text \cup Binary THEN r
  ELSE IF a.oid \in r.seen \/ AttrBad(a) THEN [r EXCEPT !.rc = "PROTOCOL"]
  ELSE [r EXCEPT !.seen = @ \cup {a.oid}, !.out[a.oid] = Head(a.vals).v]

ResultsAfter(attrs) ==
  LET r[n \in 0..Len(attrs)] ==
        IF n = 0 THEN [rc |-> "OK", seen |-> {}, out |-> NoResults]
        ELSE TakeAttr(r[n - 1], attrs[n])
  IN r

ParseMessage(m) ==
  LET r == ResultsAfter(m.attrs)[Len(m.attrs)] IN
  IF r.rc = "OK" THEN [rc |-> "OK", by |-> m.by, content |-> m.content, out |-> r.out]
  ELSE [rc |-> r.rc, by |-> Absent, content |-> Absent, out |-> NoResults]
-----------------------------------------------------------------------------
(* What callers write, a non-empty value or none for each attribute, and   *)
(* what arrives.                                                           *)
IsValue(v) == v.size \in Nat /\ v.printable \in BOOLEAN /\ v.s # Nothing

WriteCall(a) ==
  \A o \in Text \cup Binary :
    a[o] = Absent \/ (IsValue(a[o]) /\ Encoded(o, a[o]).vals # Truncated)

ReadCall(m) ==
  /\ m.attrs \in Seq({m.attrs[i] : i \in DOMAIN m.attrs})
  /\ \A i \in DOMAIN m.attrs :
       LET vals == m.attrs[i].vals IN
       vals = Truncated \/ vals \in Seq({vals[k] : k \in DOMAIN vals})

(* What one side writes the other reads: the same signer, content and      *)
(* attributes, absent ones absent; what cannot be written whole is not     *)
(* written at all.                                                         *)
SizeIn(a, o) == IF a[o] = Absent THEN 0 ELSE a[o].size

WrittenAsRead(content, by, a) ==
  LET b == BuildMessage(content, by, a)
      p == ParseMessage(b.msg)
  IN b.rc = "OK" =>
       /\ p.rc = "OK" /\ p.by = by /\ p.content = content
       /\ \A o \in Text \cup Binary : p.out[o] = IF a[o] # Absent THEN a[o].s ELSE Absent
       /\ SizeIn(a, "messageType") + SizeIn(a, "transactionID") + SizeIn(a, "senderNonce")
            + SizeIn(a, "recipientNonce") + SizeIn(a, "pkiStatus") + SizeIn(a, "failInfo")
            <= Scratch

(* A result comes from exactly one attribute of the message, with exactly  *)
(* one value, in whatever order the attributes stand; a message that is    *)
(* refused leaves nothing behind.                                          *)
ReadUnambiguously(m) ==
  LET p == ParseMessage(m)
      at(o) == {i \in DOMAIN m.attrs : m.attrs[i].oid = o}
  IN IF p.rc = "OK"
     THEN \A o \in Text \cup Binary :
            \/ at(o) = {} /\ p.out[o] = Absent
            \/ \E i \in at(o) : /\ at(o) = {i}
                                /\ \E x \in {m.attrs[i].vals[1]} :
                                     m.attrs[i].vals = <<x>> /\ x.v = p.out[o] /\ x.v # Nothing
     ELSE p.out = NoResults /\ p.by = Absent /\ p.content = Absent
=============================================================================

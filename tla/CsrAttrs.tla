------------------------------ MODULE CsrAttrs ------------------------------
(***************************************************************************)
(* The /csrattrs policy from both ends: src/est/csr_attrs.c builds and     *)
(* parses it, the client lets it choose the key and the signature          *)
(* (wolfcert_csr_attrs_apply, cmd_enroll, choose_sig_type of src/csr.c),   *)
(* and a server that enforces it looks for its bare OIDs in the request    *)
(* (csr_attrs_enforce of src/est/est_server.c).                            *)
(*                                                                         *)
(* An item is [kind, oid, vals], vals being the attribute's values (curve  *)
(* names, or "other").  On the wire it is [tag, oid, vals] where oid or    *)
(* vals may be Missing and the tag wrong.                                  *)
(***************************************************************************)
EXTENDS Sequences, FiniteSetsExt

CONSTANTS
  Missing,      \* a part a malformed item lacks
  KeyTypes,     \* the key types of this build
  Hashes        \* the SHA-2 sizes of wolfSSL, 256 always among them

SigAlgs == [sha256rsa   |-> [type |-> "rsa", hash |-> 256],
            sha512rsa   |-> [type |-> "rsa", hash |-> 512],
            ecdsa256    |-> [type |-> "ecc", hash |-> 256],
            ecdsa384    |-> [type |-> "ecc", hash |-> 384],
            ed25519     |-> [type |-> "ed25519", hash |-> 0],
            mldsa65     |-> [type |-> "mldsa65", hash |-> 0]]

Curves == [p256 |-> 256, p384 |-> 384, p521 |-> 521]

(* WolfCertCsrAttrHints, with the two flags as the set asks                *)
NoHints == [asks |-> {}, hash |-> 0, type |-> "none", curve |-> 0]

(* wolfcert_csr_attrs_build                                                *)
BuildItem(it) ==
  IF it.kind = "bare" THEN [tag |-> "oid", oid |-> it.oid, vals |-> <<>>]
  ELSE [tag |-> "seq", oid |-> it.oid, vals |-> it.vals]

Buildable(items) ==
  \A i \in DOMAIN items : items[i].kind = "attr" => items[i].vals # <<>>

Build(items) == [i \in DOMAIN items |-> BuildItem(items[i])]

(* wolfcert_est_parse_csr_attrs: the whole list or nothing                 *)
WellFormed(w) ==
  \/ w.tag = "oid"
  \/ w.tag = "seq" /\ w.oid # Missing /\ w.vals # Missing /\ w.vals # <<>>

ParseItem(w) ==
  [kind |-> IF w.tag = "oid" THEN "bare" ELSE "attr", oid |-> w.oid, vals |-> w.vals]

(* apply_sigalg, apply_pubkey_values and classify: what an item adds to    *)
(* the hints, over what earlier items left there                           *)
Classify_FirstWins(h, it) ==
  IF h.type # "none" THEN h
  ELSE IF it.oid \in DOMAIN SigAlgs THEN [h EXCEPT !.type = SigAlgs[it.oid].type] ELSE h

Classify(h, it) ==
  CASE it.oid \in {"challenge", "extreq"} -> [h EXCEPT !.asks = @ \cup {it.oid}]
    [] it.oid = "rsaKey" -> [h EXCEPT !.type = "rsa"]
    [] it.oid = "ecKey" ->
         [h EXCEPT !.type = "ecc",
                   !.curve = IF it.vals # <<>> /\ Head(it.vals) \in DOMAIN Curves
                             THEN Curves[Head(it.vals)] ELSE @]
    [] it.oid \in DOMAIN SigAlgs ->
         [h EXCEPT !.type = SigAlgs[it.oid].type,
                   !.hash = IF SigAlgs[it.oid].hash # 0 THEN SigAlgs[it.oid].hash ELSE @]
    [] OTHER -> h

(* the hints after each item                                               *)
HintsAfter(items) ==
  LET h[n \in 0..Len(items)] == IF n = 0 THEN NoHints ELSE Classify(h[n - 1], items[n]) IN h

ParsePolicy(wire) ==
  LET items == [i \in DOMAIN wire |-> ParseItem(wire[i])] IN
  IF \A i \in DOMAIN wire : WellFormed(wire[i])
  THEN [rc |-> "OK", items |-> items, hints |-> HintsAfter(items)[Len(items)]]
  ELSE [rc |-> "PARSE", items |-> <<>>, hints |-> NoHints]

(* wolfcert_csr_attrs_apply: hints fill only what was left open.  The rsa  *)
(* hint carries no size.                                                   *)
Apply_Overrides(cfg, h) == IF h.type = "none" THEN cfg ELSE [type |-> h.type, param |-> h.curve]

Apply(cfg, h) ==
  IF cfg.type # "none" \/ h.type = "none" THEN cfg
  ELSE [type |-> h.type,
        param |-> CASE cfg.param # 0 -> cfg.param
                    [] cfg.param = 0 /\ h.type = "rsa" -> 2048
                    [] cfg.param = 0 /\ h.type = "ecc" -> IF h.curve # 0 THEN h.curve ELSE 256
                    [] OTHER -> 0]

(* choose_sig_type with sig_type_for_hash and ecdsa_sig_for_curve          *)
ChooseSig(cfg, hash) ==
  LET wanted == IF cfg.type = "ecc" THEN IF cfg.param = 521 THEN 512 ELSE cfg.param ELSE 256
  IN CASE cfg.type \notin {"rsa", "ecc"} -> [type |-> cfg.type, hash |-> 0]
       [] cfg.type \in {"rsa", "ecc"} /\ hash # 0 ->
            [type |-> IF hash \in Hashes THEN cfg.type ELSE "UNSUPPORTED", hash |-> hash]
       [] cfg.type \in {"rsa", "ecc"} /\ hash = 0 ->
            [type |-> cfg.type, hash |-> Max({h \in Hashes : h <= wanted})]

(* The client's side of an enrolment with --csrattrs-auto: the request it  *)
(* sends, or why there is none.  ask: the key type and size of --key-type, *)
(* whether --challenge is given, whether a SAN is (which wolfSSL puts into *)
(* an extensionRequest).                                                   *)
NoCsr(rc) == [rc |-> rc, key |-> [type |-> "none", param |-> 0],
              sig |-> [type |-> "none", hash |-> 0], attrs |-> {}]

MakeCsr(wire, ask) ==
  LET p   == ParsePolicy(wire)
      cfg == Apply(ask.key, p.hints)
      key == IF cfg.type = "none" THEN [type |-> "ecc", param |-> 256] ELSE cfg
      sig == ChooseSig(key, p.hints.hash)
  IN IF p.rc # "OK" THEN NoCsr("PARSE")
     ELSE IF key.type \notin KeyTypes \/ sig.type = "UNSUPPORTED" THEN NoCsr("UNSUPPORTED")
     ELSE [rc |-> "OK", key |-> key, sig |-> sig,
           attrs |-> (IF ask.challenge THEN {"challenge"} ELSE {})
                       \cup (IF ask.san THEN {"extreq"} ELSE {})]

(* csr_attrs_enforce with csr__has_attr_oid                                *)
Enforce_AttributesToo(wire, csr) ==
  IF \A i \in DOMAIN wire : wire[i].oid \in csr.attrs THEN "OK" ELSE "PROTOCOL"

Enforce(wire, csr) ==
  LET p == ParsePolicy(wire) IN
  IF p.rc # "OK" THEN p.rc
  ELSE IF \A i \in DOMAIN p.items : p.items[i].kind = "bare" => p.items[i].oid \in csr.attrs
  THEN "OK" ELSE "PROTOCOL"
-----------------------------------------------------------------------------
(* What a server can send, and an operator ask for: a key size comes only  *)
(* with a key type.  What a server can build: a bare OID has no values.    *)
PolicyCall(wire, ask) ==
  /\ wire \in Seq({wire[i] : i \in DOMAIN wire})
  /\ ask.key.type = "none" => ask.key.param = 0

IsItem(it) ==
  /\ it = [kind |-> it.kind, oid |-> it.oid, vals |-> it.vals]
  /\ it.oid # Missing /\ it.vals # Missing
  /\ it.kind = "attr" \/ (it.kind = "bare" /\ it.vals = <<>>)

ListCall(items) ==
  items \in Seq({items[i] : i \in DOMAIN items}) /\ \A i \in DOMAIN items : IsItem(items[i])

(* What the operator chose is never changed.  What the operator left open  *)
(* follows the last item that names a key type, with the size of the last  *)
(* curve named, and the last hash named signs, whatever the key.  A policy *)
(* the library built is read back unchanged, one malformed item voids it   *)
(* for both ends, and an enforcing server turns a request away exactly     *)
(* when a bare OID is missing from it.                                     *)
NamesType(w)  == w.oid \in {"rsaKey", "ecKey"} \cup DOMAIN SigAlgs
NamesCurve(w) == w.oid = "ecKey" /\ w.vals # <<>> /\ Head(w.vals) \in DOMAIN Curves
NamesHash(w)  == w.oid \in DOMAIN SigAlgs /\ SigAlgs[w.oid].hash # 0

TypeOf(oid) == CASE oid = "rsaKey" -> "rsa" [] oid = "ecKey" -> "ecc"
                 [] OTHER -> SigAlgs[oid].type

PolicyHonoured(wire, ask) ==
  LET csr   == MakeCsr(wire, ask)
      bad   == \E i \in DOMAIN wire : ~WellFormed(wire[i])
      typed == {i \in DOMAIN wire : NamesType(wire[i])}
      curve == {i \in DOMAIN wire : NamesCurve(wire[i])}
      hash  == {i \in DOMAIN wire : NamesHash(wire[i])}
      bare  == {wire[i].oid : i \in {j \in DOMAIN wire : wire[j].tag = "oid"}}
      type  == IF typed = {} THEN "ecc" ELSE TypeOf(wire[Max(typed)].oid)
  IN IF bad THEN csr.rc = "PARSE" /\ Enforce(wire, csr) = "PARSE"
     ELSE csr.rc = "OK" =>
       /\ ask.key.type # "none" => csr.key = ask.key
       /\ ask.key.type = "none" =>
            /\ csr.key.type = type
            /\ type = "rsa" => csr.key.param = 2048
            /\ type = "ecc" => csr.key.param = IF typed = {} \/ curve = {} THEN 256
                                               ELSE Curves[Head(wire[Max(curve)].vals)]
       /\ hash # {} /\ csr.key.type \in {"rsa", "ecc"} =>
            csr.sig = [type |-> csr.key.type, hash |-> SigAlgs[wire[Max(hash)].oid].hash]
       /\ Enforce(wire, csr) = "OK" <=> bare \subseteq csr.attrs

ReadBack(items) == Buildable(items) => ParsePolicy(Build(items)).items = items
=============================================================================

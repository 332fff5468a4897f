---------------------------- MODULE MCAlgorithms ----------------------------
(***************************************************************************)
(* The pure algorithms, each on a bounded set of inputs: a state is a call *)
(* that is about to be made or has been made.                              *)
(***************************************************************************)
EXTENDS Algorithms, ChunkScan

Cert(s, i, b, k, rsa, ca, ku) ==
  [subj |-> s, iss |-> i, by |-> b, key |-> k, rsa |-> rsa, ca |-> ca, ku |-> ku,
   valid |-> TRUE]

Root   == Cert("root", "root", 1, 1, TRUE, TRUE, NoKu)
Sub    == Cert("sub", "root", 1, 2, TRUE, TRUE, {"keyEncipherment"})
Cross  == Cert("sub", "other", 9, 2, TRUE, TRUE, {})
EcRoot == Cert("ec", "ec", 3, 3, FALSE, TRUE, NoKu)
Ra     == Cert("ra", "root", 1, 4, TRUE, FALSE, {"keyEncipherment"})
RaSig  == Cert("ra", "root", 1, 5, TRUE, FALSE, {"digitalSignature"})
RaBoth == Cert("ra2", "root", 1, 6, TRUE, FALSE, {"keyEncipherment", "digitalSignature"})
RaOld  == [Ra EXCEPT !.valid = FALSE]
RaTwin == Cert("ra3", "sub", 2, 4, TRUE, FALSE, NoKu)
RaNew  == Cert("ra", "root", 1, 7, TRUE, FALSE, {"keyEncipherment"})

Certs  == {Root, Sub, Cross, EcRoot, Ra, RaSig, RaBoth, RaOld, RaTwin, RaNew}
Served == UNION {[1..n -> Certs] : n \in 0..3}
Pins   == [ca : {NoPin}, ra : {{}}]
            \cup [ca : {Root, Sub, EcRoot, Ra}, ra : {s \in SUBSET Certs : Cardinality(s) <= 1}]
            \cup {[ca |-> Root, ra |-> {Ra, RaSig}], [ca |-> Root, ra |-> {Root, Ra}]}

Pieces  == {<<"1", "CR", "LF">>, <<"2", "SP", ";", "x", "CR", "LF">>, <<"x", "CR", "LF">>,
            <<"x", "1", "CR", "LF">>, <<"0", "CR", "LF">>, <<"CR", "LF">>, <<"CR">>, <<"LF">>,
            <<"x", ":", "CR", "LF">>, <<"1", "f", "0">>, <<"0", "1", "SP", "CR", "LF">>}
Bodies  == {FlattenSeq(s) : s \in UNION {[1..n -> Pieces] : n \in 0..4}}
Payload == UNION {[1..n -> UNION {[1..m -> {"x", "CR", "0"}] : m \in 1..2}] : n \in 0..2}

Dates == [kind : {"date"}, fmt : {"imf", "asctime"},
          year : {1600, 1969, 2000, 2024, 2026, 2027, 2028, 2076, 2100},
          mon : 0..12, day : {0, 1, 28, 29, 30, 31}, tod : {0, 86400}]
           \cup [kind : {"date"}, fmt : {"rfc850"}, year : {0, 26, 27, 28, 75, 76, 77, 99},
                 mon : {0, 1, 2, 12}, day : {1, 28, 29, 31}, tod : {0, 86400}]
Numbers == [kind : {"digits"}, digits : UNION {[1..n -> {0, 4, 6, 8}] : n \in 1..6},
            blankTail : {TRUE}]
             \cup [kind : {"digits"}, digits : {<<1>>}, blankTail : {FALSE}]
Clocks == [day : {0, 20453, 20454, 20818, 20877, 21185}, sec : {0, 86399}]
Unset  == [day |-> 0, sec |-> 0]

Addresses == [answer : {"connects", "refuses", "silent"}, after : {0, 1, 3}]
               \cup [answer : {"noSocket"}, after : {0}]

Oids  == {"challenge", "extreq", "rsaKey", "ecKey", "unknown"} \cup DOMAIN SigAlgs
Wire  == [tag : {"oid"}, oid : Oids, vals : {<<>>}]
           \cup [tag : {"seq"}, oid : {"ecKey"}, vals : {<<"p384">>, <<"p521", "p256">>, <<"other">>}]
           \cup [tag : {"seq"}, oid : {"ecdsa384", "challenge"}, vals : {<<"other">>}]
           \cup {[tag |-> "seq", oid |-> Missing, vals |-> Missing],
                 [tag |-> "seq", oid |-> "ecKey", vals |-> <<>>],
                 [tag |-> "null", oid |-> Missing, vals |-> Missing]}
Items == [kind : {"bare"}, oid : Oids, vals : {<<>>}]
           \cup [kind : {"attr"}, oid : {"ecKey", "unknown"}, vals : {<<>>, <<"p384">>}]
Asks  == [key : {[type |-> "none", param |-> 0], [type |-> "rsa", param |-> 3072],
                 [type |-> "ecc", param |-> 521], [type |-> "ed25519", param |-> 0]},
          challenge : BOOLEAN, san : BOOLEAN]

Values   == {[s |-> "a", size |-> 1, printable |-> TRUE], [s |-> "b", size |-> 3, printable |-> TRUE],
             [s |-> "c", size |-> 1, printable |-> FALSE]}
Attrs    == [Text \cup Binary -> Values \cup {Absent}]
Raw(t)   == [tag |-> t, v |-> t, nul |-> FALSE]
Parts    == {Truncated, <<>>, <<Raw("printable")>>, <<Raw("octet")>>, <<Raw("octet"), Raw("printable")>>,
             <<[Raw("printable") EXCEPT !.v = Nothing]>>, <<[Raw("printable") EXCEPT !.nul = TRUE]>>}
Received == UNION {[1..n -> [oid : {"messageType", "transactionID", "other"}, vals : Parts]] : n \in 0..3}

MCInputs(a) ==
  CASE a = "ca" -> [served : Served, pin : Pins]
    [] a = "body" -> [raw : Bodies, max : {1, 3}]
    [] a = "frame" -> [chunks : Payload, ext : {<<>>, <<"SP", ";", "x">>},
                       trailers : {<<>>, <<"x", ":", "CR", "LF", "SP", "CR", "LF">>}]
    [] a = "wait" -> [v : Dates, now : Clocks] \cup [v : Numbers, now : {Unset}]
    [] a = "dial" -> [addrs : UNION {[1..n -> Addresses] : n \in 0..3}, ms : {0, 1, 3, 4}]
    [] a = "policy" -> [wire : UNION {[1..n -> Wire] : n \in 0..3}, ask : Asks]
    [] a = "list" -> [items : UNION {[1..n -> Items] : n \in 0..2}]
    [] a = "write" -> [content : {"env", Absent}, by : {"signer"}, attrs : Attrs]
    [] a = "read" -> [by : {"signer"}, content : {"env"}, attrs : Received]
-----------------------------------------------------------------------------
(* The incremental and the one-pass reader of a chunked body agree on      *)
(* every body and for every cut into reads, and on what a sender framed    *)
(* (wolfcert_http_chunked_complete, wolfcert_http_chunked_decode).         *)
ChunksAsSent ==
  called => /\ alg = "body" => AnyCut(in.raw, in.max) /\ ReadersAgree(in.raw, in.max)
            /\ alg = "frame" => AsSent(in.chunks, in.ext, in.trailers)
=============================================================================

------------------------- MODULE HttpSessionProofs --------------------------
(***************************************************************************)
(* Proofs about HttpSession for every value of its constants: the types    *)
(* and the shape of a session, its life cycle, the kinds of step that      *)
(* sm_run takes, and that requests reach the server whole and in order.    *)
(* Then what the session receives, for any number of requests and any      *)
(* lengths and limits: what is left of an answer in the stream, which is   *)
(* what has been received and not yet used and what is still under way;    *)
(* that a response is the answer to its own request, with the whole of its *)
(* body; and that the session implements HttpContract.                     *)
(***************************************************************************)
EXTENDS HttpSession, SequenceTheorems, TLAPS

(* A unit of the server's byte stream, as the Srv actions build it, is one  *)
(* of Units.                                                                *)
LEMMA UnitType ==
  ASSUME NEW n \in Nat, NEW k \in {"h", "x", "f", "b", "d", "z", "g"},
         NEW fr \in Framing, NEW i \in Nat
  PROVE  Unit(n, k, fr, i) \in Units
BY Zenon DEF Unit, Units

(* The body of a response of the given length is that many units.           *)
LEMMA BodyType ==
  ASSUME NEW n \in Nat, NEW len \in Nat
  PROVE  Body(n, len) \in Seq(Units) /\ Len(Body(n, len)) = len
<1>1. \A i \in 1..len : Unit(n, "d", "cl", i) \in Units
  BY UnitType DEF Framing
<1> QED BY <1>1 DEF Body

(* The header block of a response of the given length is that many units.   *)
LEMMA HeaderType ==
  ASSUME NEW n \in Nat, NEW h \in Nat
  PROVE  Header(n, h) \in Seq(Units) /\ Len(Header(n, h)) = h
<1>1. \A i \in 1..h : Unit(n, "h", "cl", i) \in Units
  BY UnitType DEF Framing
<1> QED BY <1>1 DEF Header

(* A response of the server is a sequence of units.                         *)
LEMMA ResponseType ==
  ASSUME NEW n \in Nat, NEW h \in Nat, NEW fr \in Framing, NEW len \in Nat,
         NEW z \in {"z", "b"}
  PROVE  Response(n, h, fr, len, z) \in Seq(Units)
<1> DEFINE a == Header(n, h)
           b == <<Unit(n, "f", fr, len)>>
           c == Body(n, len)
           d == IF fr = "chunked" THEN <<Unit(n, z, "cl", 0)>> ELSE <<>>
<1>1. a \in Seq(Units) /\ c \in Seq(Units)
  BY Zenon, HeaderType, BodyType
<1>2. b \in Seq(Units)
  <2>1. Unit(n, "f", fr, len) \in Units
    BY Zenon, UnitType
  <2> QED BY <2>1
<1>3. d \in Seq(Units)
  <2>1. Unit(n, z, "cl", 0) \in Units
    BY Zenon, UnitType DEF Framing
  <2> QED BY <2>1
<1>4. Response(n, h, fr, len, z) = a \o b \o c \o d
  BY Zenon DEF Response
<1> HIDE DEF a, b, c, d
<1>5. a \o b \o c \o d \in Seq(Units)
  BY Zenon, <1>1, <1>2, <1>3, ConcatProperties
<1> QED BY Zenon, <1>4, <1>5

(* The emptied buffers of sm_reset are sequences of units, and a new        *)
(* connection has carried nothing unasked.                                  *)
LEMMA Empties ==
  <<>> \in Seq(Units) /\ <<>> \in Seq(RequestUnits) /\ <<>> \in Seq({"g", "b", "f"})
OBVIOUS

(* The value of a response object that nothing was published to yet.        *)
LEMMA NoPubType == NoPub \in Responses
<1>1. Unit(0, "f", "cl", 0) \in Units
  BY Zenon, UnitType DEF Framing
<1> QED BY <1>1 DEF NoPub, Responses

(* A session that was never opened is well typed.                           *)
LEMMA TypeInit == Init => TypeOK
<1> SUFFICES ASSUME Init PROVE TypeOK
  OBVIOUS
<1>1. /\ connected \in BOOLEAN /\ closed \in BOOLEAN /\ head \in BOOLEAN
      /\ hs \in BOOLEAN
  BY Zenon DEF Init, Blank, Silent
<1>2. pub \in [Resps -> Responses]
  BY Zenon, NoPubType DEF Init
<1>3. /\ rx \in Seq(Units) /\ s2c \in Seq(Units) /\ sent \in Seq(RequestUnits)
      /\ resp \in Resps \cup {NoResp} /\ excess \in Seq({"g", "b", "f"})
  BY Zenon, Empties DEF Init, Blank, Silent
<1>4. /\ life \in {"none", "open"} /\ state \in States
      /\ call \in {"none", "nb", "block"} /\ ret \in Codes
      /\ peer \in {"open", "closed"}
  BY Zenon DEF Init, Blank, Silent, States, Codes
<1>5. /\ txOff \in Nat /\ bodyLen \in Nat /\ hdrEnd \in Nat /\ interim \in Nat
      /\ rcvd \in Nat /\ owed \in Nat /\ serial \in Nat
      /\ opens \in Nat /\ connects \in Nat /\ disconnects \in Nat
  BY Zenon DEF Init, Blank, Silent
<1> QED BY Zenon, <1>1, <1>2, <1>3, <1>4, <1>5 DEF TypeOK

(* sm_fail, which drops the request and closes the session, keeps the       *)
(* types.                                                                   *)
LEMMA TypeFail ==
  ASSUME TypeOK, NEW rc \in Codes, SmFail(rc), UNCHANGED net
  PROVE  TypeOK'
BY Zenon, Empties DEF TypeOK, SmFail, SmReset, net, count

(* Returning WANT_READ or WANT_WRITE keeps the types.                       *)
LEMMA TypeWant ==
  ASSUME TypeOK, Want
  PROVE  TypeOK'
BY Zenon DEF TypeOK, Want, sess, net, count, Codes

(* sm_publish, which fills the caller's response object, keeps the types.   *)
LEMMA TypePublish ==
  ASSUME TypeOK, NEW body \in Seq(Units), NEW close \in BOOLEAN,
         rx[hdrEnd] \in Units, Publish(body, close)
  PROVE  TypeOK'
<1>1. pub' \in [Resps -> Responses]
  BY Zenon DEF TypeOK, Publish, Responses
<1>2. /\ closed' \in BOOLEAN /\ head' \in BOOLEAN
  BY Zenon DEF TypeOK, Publish
<1> QED BY Zenon, <1>1, <1>2, Empties DEF TypeOK, Publish, net, count, States, Codes

(* nb_read_some keeps the types: what it appends to rx comes from the       *)
(* connection.                                                              *)
LEMMA TypeReadSome ==
  ASSUME TypeOK, NEW limit \in Nat, NbReadSome(limit)
  PROVE  TypeOK'
<1>1. CASE Len(rx) > limit /\ SmFail("PROTOCOL") /\ UNCHANGED net
  BY Zenon, <1>1, TypeFail DEF Codes
<1>2. CASE /\ s2c # <<>> /\ SmFail("PROTOCOL") /\ s2c' = Tail(s2c)
           /\ UNCHANGED <<sent, rcvd, owed, peer, hs, excess>>
  <2>1. s2c' \in Seq(Units)
    BY Zenon, <1>2, HeadTailProperties DEF TypeOK
  <2> QED BY Zenon, <1>2, <2>1, Empties DEF TypeOK, SmFail, SmReset, count, Codes
<1>3. CASE /\ \E k \in 1..Least(Least(limit - Len(rx), ReadChunk), Len(s2c)) :
                /\ rx' = rx \o SubSeq(s2c, 1, k)
                /\ s2c' = SubSeq(s2c, k + 1, Len(s2c))
           /\ UNCHANGED <<life, connected, closed, state, head, txOff, bodyLen,
                    hdrEnd, interim, resp, call, ret, pub, sent, rcvd, owed,
                    peer, hs, excess, count>>
  <2>1. PICK k \in 1..Least(Least(limit - Len(rx), ReadChunk), Len(s2c)) :
                         /\ rx' = rx \o SubSeq(s2c, 1, k)
                         /\ s2c' = SubSeq(s2c, k + 1, Len(s2c))
    BY Zenon, <1>3
  <2>2. k \in Nat /\ 1 <= k /\ k <= Len(s2c)
    BY SessionAssumption DEF TypeOK, Least
  <2>3. rx' \in Seq(Units) /\ s2c' \in Seq(Units)
    BY <2>1, <2>2 DEF TypeOK
  <2> QED BY Zenon, <1>3, <2>3 DEF TypeOK, count
<1>4. CASE Want
  BY Zenon, <1>4, TypeWant
<1> QED BY Zenon, <1>1, <1>2, <1>3, <1>4 DEF NbReadSome

(* nb_write hands the transport at least one unit, within what is left to   *)
(* write, and leaves the rest of the session as it was.                     *)
LEMMA TypeWriteSome ==
  ASSUME TypeOK, NEW base \in Nat, NEW n \in Nat, NEW k, NbWrite(base, n, k)
  PROVE  /\ k \in Nat \ {0} /\ txOff + k <= n
         /\ sent' \in Seq(RequestUnits)
         /\ Len(sent') = Len(sent) + k
         /\ life' \in {"none", "open"} /\ connected' \in BOOLEAN
         /\ closed' \in BOOLEAN /\ bodyLen' \in Nat /\ hdrEnd' \in Nat
         /\ interim' \in Nat /\ rx' \in Seq(Units)
         /\ resp' \in Resps \cup {NoResp}
<1>1. k \in Nat \ {0} /\ txOff + k <= n
  BY SessionAssumption DEF NbWrite, Least, SendRoom, TypeOK
<1> DEFINE new == [i \in 1..k |->
                     RequestUnit(serial, base + txOff + i, HeadLen + bodyLen)]
<1>2. \A i \in 1..k : RequestUnit(serial, base + txOff + i, HeadLen + bodyLen)
                        \in RequestUnits
  BY <1>1, SessionAssumption DEF TypeOK, RequestUnit, RequestUnits
<1>3. new \in Seq(RequestUnits) /\ Len(new) = k
  BY <1>1, <1>2
<1>4. sent' = sent \o new
  BY Zenon DEF NbWrite
<1> HIDE DEF new
<1>5. sent' \in Seq(RequestUnits) /\ Len(sent') = Len(sent) + k
  BY Zenon, <1>3, <1>4, ConcatProperties DEF TypeOK
<1> QED BY Zenon, <1>1, <1>5 DEF NbWrite, TypeOK

(* An nb_write that the transport accepts nothing from keeps the types.     *)
LEMMA TypeWriteWaits ==
  ASSUME TypeOK, NbWriteWaits
  PROVE  TypeOK'
BY Zenon, TypeWant, TypeFail DEF NbWriteWaits, Codes

(* Opening, closing, and every way http_session_call begins or refuses a    *)
(* request keep the types.                                                  *)
LEMMA TypeCaller == TypeOK /\ Caller => TypeOK'
<1> SUFFICES ASSUME TypeOK, Caller PROVE TypeOK'
  OBVIOUS
<1>1. CASE Open
  BY <1>1 DEF TypeOK, Open, net, States
<1>2. CASE OpenDialFails
  BY <1>2 DEF TypeOK, OpenDialFails, sess, net
<1>3. CASE OpenTlsFails
  BY <1>3 DEF TypeOK, OpenTlsFails, sess, net
<1>4. CASE Close
  <2>1. disconnects' \in Nat
    BY <1>4 DEF TypeOK, Close, ConnClose
  <2>2. connected' = FALSE
    BY Zenon, <1>4 DEF Close, ConnClose
  <2> QED BY Zenon, <1>4, <2>1, <2>2, Empties DEF TypeOK, Close, States
<1>5. CASE CallClosed
  BY Zenon, <1>5 DEF TypeOK, CallClosed, sess, net, count, Codes
<1>6. CASE CallResume
  BY Zenon, <1>6 DEF TypeOK, CallResume, sess, net, count
<1>7. ASSUME NEW r \in Resps, NEW nb \in BOOLEAN, CallBusy(r, nb)
      PROVE  TypeOK'
  BY Zenon, <1>7 DEF TypeOK, CallBusy, sess, net, count, Codes
<1>8. ASSUME NEW r \in Resps, CallNotBegun(r)
      PROVE  TypeOK'
  <2>1. pub' \in [Resps -> Responses]
    BY Zenon, <1>8, NoPubType DEF TypeOK, CallNotBegun
  <2> QED BY Zenon, <1>8, <2>1 DEF TypeOK, CallNotBegun, sess, net, count, Codes
<1>9. ASSUME NEW r \in Resps, NEW nb \in BOOLEAN, NEW len \in BodyLens,
             CallBegin(r, nb, len)
      PROVE  TypeOK'
  <2>1. pub' \in [Resps -> Responses]
    BY Zenon, <1>9, NoPubType DEF TypeOK, CallBegin
  <2>2. len \in Nat
    BY Zenon, SessionAssumption
  <2>3. call' \in {"none", "nb", "block"}
    BY Zenon, <1>9 DEF CallBegin
  <2> QED BY <1>9, <2>1, <2>2, <2>3 DEF TypeOK, CallBegin, net, States
<1> QED BY Zenon, <1>1, <1>2, <1>3, <1>4, <1>5, <1>6, <1>7, <1>8, <1>9 DEF Caller

(* Whatever the server at the other end sends keeps the types.              *)
LEMMA TypeServer == TypeOK /\ Server => TypeOK'
<1> SUFFICES ASSUME TypeOK, Server PROVE TypeOK'
  OBVIOUS
<1> DEFINE Sent(units) == SrvSend(units) /\ owed' \in Nat
                            /\ peer' \in {"open", "closed"}
<1>0. ASSUME NEW units \in Seq(Units), Sent(units)
      PROVE  TypeOK'
  <2>1. s2c' \in Seq(Units)
    BY Zenon, <1>0, ConcatProperties DEF TypeOK, SrvSend
  <2> QED BY Zenon, <1>0, <2>1 DEF TypeOK, SrvSend, SrvUnchanged, sess, count
<1>1. CASE SrvHandshake
  BY Zenon, <1>1 DEF TypeOK, SrvHandshake, SrvUnchanged, sess, count
<1>2. CASE SrvRecv
  <2>1. sent[rcvd + 1] \in RequestUnits
    BY <1>2, LenProperties DEF TypeOK, SrvRecv
  <2>2. owed' \in Nat
    BY Zenon, <1>2, <2>1 DEF TypeOK, SrvRecv, RequestUnits
  <2> QED BY <1>2, <2>2 DEF TypeOK, SrvRecv, SrvUnchanged, sess, count
<1>3. CASE SrvInterim
  <2>1. PICK h \in HdrLens :
          /\ SrvSend(Header(owed, h) \o <<Unit(owed, "x", "cl", 0)>>)
          /\ UNCHANGED <<owed, peer>>
    BY Zenon, <1>3 DEF SrvInterim
  <2>2. h \in Nat
    BY Zenon, SessionAssumption
  <2>3. Header(owed, h) \in Seq(Units) /\ Unit(owed, "x", "cl", 0) \in Units
    BY Zenon, <2>2, HeaderType, UnitType DEF TypeOK, Framing
  <2>4. <<Unit(owed, "x", "cl", 0)>> \in Seq(Units)
    BY <2>3
  <2>5. Header(owed, h) \o <<Unit(owed, "x", "cl", 0)>> \in Seq(Units)
    BY Zenon, <2>3, <2>4, ConcatProperties
  <2>6. owed' \in Nat /\ peer' \in {"open", "closed"}
    BY Zenon, <2>1 DEF TypeOK
  <2> QED BY Zenon, <2>1, <2>5, <2>6, <1>0
<1>4. CASE SrvAnswer
  <2>1. PICK h \in HdrLens, fr \in Framing, n \in 0..(MaxBody + 1), z \in {"z", "b"} :
          /\ SrvSend(Response(owed, h, fr, n, z))
          /\ owed' = 0
          /\ peer' = IF fr = "eof" THEN "closed" ELSE peer
    BY Zenon, <1>4 DEF SrvAnswer
  <2>2. h \in Nat /\ n \in Nat
    BY SessionAssumption
  <2>3. Response(owed, h, fr, n, z) \in Seq(Units)
    BY Zenon, <2>2, ResponseType DEF TypeOK
  <2>4. owed' \in Nat /\ peer' \in {"open", "closed"}
    BY Zenon, <2>1 DEF TypeOK
  <2> QED BY Zenon, <2>1, <2>3, <2>4, <1>0
<1>5. CASE SrvBadHead
  <2>1. Unit(owed, "b", "cl", 0) \in Units
    BY Zenon, UnitType DEF TypeOK, Framing
  <2>2. <<Unit(owed, "b", "cl", 0)>> \in Seq(Units)
    BY <2>1
  <2>3. owed' \in Nat /\ peer' \in {"open", "closed"}
    BY Zenon, <1>5 DEF SrvBadHead, TypeOK
  <2> QED BY Zenon, <1>5, <2>2, <2>3, <1>0 DEF SrvBadHead
<1>u. ASSUME NEW k \in {"g", "b", "f"}, NEW units \in Seq(Units), SrvUnasked(k, units),
             peer' \in {"open", "closed"}
      PROVE  TypeOK'
  <2>1. s2c' \in Seq(Units) /\ excess' \in Seq({"g", "b", "f"})
    BY Zenon, <1>u, ConcatProperties, AppendProperties DEF TypeOK, SrvUnasked
  <2> QED BY Zenon, <1>u, <2>1 DEF TypeOK, SrvUnasked, SrvUnchanged, sess, count
<1>6. CASE SrvExcess
  <2>1. PICK k \in {"g", "b"} : SrvUnasked(k, <<Unit(0, k, "cl", 0)>>) /\ UNCHANGED peer
    BY Zenon, <1>6 DEF SrvExcess
  <2>2. Unit(0, k, "cl", 0) \in Units
    BY Zenon, UnitType DEF Framing
  <2>3. <<Unit(0, k, "cl", 0)>> \in Seq(Units)
    BY <2>2
  <2> QED BY Zenon, <1>u, <2>1, <2>3 DEF TypeOK
<1>8. CASE SrvSecond
  <2>1. PICK h \in HdrLens, fr \in Framing, n \in 0..(MaxBody + 1), z \in {"z", "b"} :
          /\ SrvUnasked("f", Response(0, h, fr, n, z))
          /\ peer' = IF fr = "eof" THEN "closed" ELSE peer
    BY Zenon, <1>8 DEF SrvSecond
  <2>2. h \in Nat /\ n \in Nat /\ 0 \in Nat
    BY SessionAssumption
  <2>3. Response(0, h, fr, n, z) \in Seq(Units)
    BY Zenon, <2>2, ResponseType
  <2> QED BY Zenon, <1>u, <2>1, <2>3 DEF TypeOK
<1>7. CASE SrvClose
  <2>1. PICK k \in 0..Len(s2c) : s2c' = SubSeq(s2c, 1, k)
    BY Zenon, <1>7 DEF SrvClose
  <2>2. s2c' \in Seq(Units)
    BY <2>1 DEF TypeOK
  <2> QED BY Zenon, <1>7, <2>2 DEF TypeOK, SrvClose, SrvUnchanged, sess, count
<1> QED BY Zenon, <1>1, <1>2, <1>3, <1>4, <1>5, <1>6, <1>7, <1>8 DEF Server
-----------------------------------------------------------------------------
(* The inductive invariant SessionInv.                                     *)

Shape == OneRequest /\ NothingLeftOver /\ RxBounded /\ ReceiveState

(* A response object that nothing was published to holds no body.           *)
LEMMA NoPubShort == Len(NoPub.body) = 0
BY Zenon DEF NoPub

(* A session that was never opened holds no request and no bytes.           *)
LEMMA ShapeInit == Init => Shape
<1> SUFFICES ASSUME Init PROVE Shape
  OBVIOUS
<1>1. OneRequest /\ NothingLeftOver
  BY Zenon DEF Init, Blank, OneRequest, NothingLeftOver
<1>2. ReceiveState
  BY Zenon DEF Init, Blank, ReceiveState, BodyStates
<1>3. RxBounded
  BY NoPubShort, SessionAssumption DEF Init, Blank, RxBounded, RxMax
<1> QED BY Zenon, <1>1, <1>2, <1>3 DEF Shape

(* sm_fail leaves neither a request nor received bytes behind.              *)
LEMMA ShapeFail ==
  ASSUME TypeOK, Shape, NEW rc \in Codes, SmFail(rc)
  PROVE  Shape'
<1>1. OneRequest' /\ NothingLeftOver'
  BY Zenon DEF SmFail, SmReset, OneRequest, NothingLeftOver
<1>2. ReceiveState'
  BY SessionAssumption DEF SmFail, SmReset, ReceiveState, BodyStates
<1>3. RxBounded'
  BY SessionAssumption DEF SmFail, SmReset, Shape, RxBounded, RxMax
<1> QED BY Zenon, <1>1, <1>2, <1>3 DEF Shape

(* A step that leaves the session's fields alone keeps their relations.     *)
LEMMA ShapeSame ==
  ASSUME Shape, UNCHANGED <<sess, pub>>, call' \in {call, "none"}
  PROVE  Shape'
BY Zenon DEF Shape, OneRequest, NothingLeftOver, RxBounded, ReceiveState, BodyStates,
       sess

(* sm_publish ends the request and empties the receive buffer.              *)
LEMMA ShapePublish ==
  ASSUME TypeOK, Shape, NEW body \in Seq(Units), Len(body) <= MaxBody,
         NEW close \in BOOLEAN, Publish(body, close)
  PROVE  Shape'
<1>1. OneRequest' /\ NothingLeftOver'
  BY Zenon, SessionAssumption DEF Publish, OneRequest, NothingLeftOver
<1>2. ReceiveState'
  BY Zenon DEF Publish, ReceiveState, BodyStates
<1>3. \A r \in Resps : Len(pub'[r].body) <= MaxBody
  BY Zenon DEF Publish, Shape, RxBounded, TypeOK
<1>4. RxBounded'
  BY <1>3, SessionAssumption DEF Publish, RxBounded, RxMax
<1> QED BY Zenon, <1>1, <1>2, <1>4 DEF Shape

(* Opening, closing, and every way http_session_call begins or refuses a    *)
(* request keep the relations between the session's fields.                 *)
LEMMA ShapeCaller == TypeOK /\ Shape /\ Caller => Shape'
<1> SUFFICES ASSUME TypeOK, Shape, Caller PROVE Shape'
  OBVIOUS
<1> USE DEF Shape
<1>1. CASE Open
  <2>1. rx = <<>> /\ hdrEnd = 0 /\ resp = NoResp
    BY Zenon, <1>1 DEF Open, OneRequest, NothingLeftOver
  <2>2. OneRequest' /\ NothingLeftOver'
    BY Zenon, <1>1, <2>1 DEF Open, OneRequest, NothingLeftOver
  <2>3. ReceiveState' /\ RxBounded'
    BY Zenon, <1>1, <2>1 DEF Open, ReceiveState, BodyStates, RxBounded
  <2> QED BY Zenon, <2>2, <2>3
<1>2. CASE Close
  <2>1. OneRequest' /\ NothingLeftOver'
    BY Zenon, <1>2 DEF Close, OneRequest, NothingLeftOver
  <2>2. ReceiveState' /\ RxBounded'
    BY <1>2, SessionAssumption
    DEF Close, ReceiveState, BodyStates, RxBounded, RxMax
  <2> QED BY Zenon, <2>1, <2>2
<1>3. CASE \/ OpenDialFails \/ OpenTlsFails \/ CallClosed
           \/ \E r \in Resps, nb \in BOOLEAN : CallBusy(r, nb)
  <2>1. UNCHANGED <<sess, pub, call>>
    BY Zenon, <1>3 DEF OpenDialFails, OpenTlsFails, CallClosed, CallBusy
  <2> QED BY Zenon, <2>1, ShapeSame
<1>4. CASE CallResume
  BY Zenon, <1>4 DEF CallResume, OneRequest, NothingLeftOver, RxBounded, ReceiveState,
              BodyStates, sess
<1>5. ASSUME NEW r \in Resps, CallNotBegun(r)
      PROVE  Shape'
  <2>1. \A q \in Resps : Len(pub'[q].body) <= MaxBody
    BY <1>5, NoPubShort, SessionAssumption DEF CallNotBegun, RxBounded, TypeOK
  <2> QED BY Zenon, <1>5, <2>1 DEF CallNotBegun, OneRequest, NothingLeftOver, RxBounded,
                            ReceiveState, BodyStates, sess
<1>6. ASSUME NEW r \in Resps, NEW nb \in BOOLEAN, NEW len \in BodyLens,
             CallBegin(r, nb, len)
      PROVE  Shape'
  <2>1. rx = <<>> /\ hdrEnd = 0
    BY Zenon, <1>6 DEF CallBegin, NothingLeftOver
  <2>2. r # NoResp
    BY Zenon, SessionAssumption
  <2>3. OneRequest' /\ NothingLeftOver'
    BY Zenon, <1>6, <2>1, <2>2 DEF CallBegin, OneRequest, NothingLeftOver
  <2>4. \A q \in Resps : Len(pub'[q].body) <= MaxBody
    BY <1>6, NoPubShort, SessionAssumption DEF CallBegin, RxBounded, TypeOK
  <2>5. ReceiveState' /\ RxBounded'
    BY Zenon, <1>6, <2>1, <2>4 DEF CallBegin, ReceiveState, BodyStates, RxBounded
  <2> QED BY Zenon, <2>3, <2>5
<1> QED BY Zenon, <1>1, <1>2, <1>3, <1>4, <1>5, <1>6 DEF Caller

(* What the server at the other end leaves alone.                           *)
LEMMA ServerFrame ==
  ASSUME Server
  PROVE  SrvUnchanged /\ sent' = sent
<1>1. ASSUME NEW units, SrvSend(units) PROVE SrvUnchanged /\ sent' = sent
  BY Zenon, <1>1 DEF SrvSend
<1>2. CASE SrvInterim \/ SrvAnswer \/ SrvBadHead
  BY Zenon, <1>1, <1>2 DEF SrvInterim, SrvAnswer, SrvBadHead
<1>3. CASE SrvHandshake \/ SrvRecv \/ SrvExcess \/ SrvSecond \/ SrvClose
  BY Zenon, <1>3 DEF SrvHandshake, SrvRecv, SrvExcess, SrvSecond, SrvUnasked, SrvClose
<1> QED BY Zenon, <1>2, <1>3 DEF Server

(* The server at the other end changes none of the session's fields.        *)
LEMMA ShapeServer == Shape /\ Server => Shape'
<1> SUFFICES ASSUME Shape, Server PROVE Shape'
  OBVIOUS
<1>1. UNCHANGED <<sess, pub, call>>
  BY Zenon, ServerFrame DEF SrvUnchanged
<1> QED BY Zenon, <1>1, ShapeSame

(* A read either fails the session, reports WANT_READ, or appends units    *)
(* within the limit and leaves everything before them as it was.           *)
LEMMA ReadSomeCases ==
  ASSUME TypeOK, NEW limit \in Nat, NbReadSome(limit)
  PROVE  \/ SmFail("PROTOCOL")
         \/ Want
         \/ /\ Len(rx) <= Len(rx') /\ Len(rx') <= limit
            /\ \A i \in 1..Len(rx) : rx'[i] = rx[i]
            /\ UNCHANGED <<life, connected, closed, state, head, hdrEnd, resp,
                           call, pub>>
<1>1. CASE SmFail("PROTOCOL") \/ Want
  BY Zenon, <1>1
<1>2. CASE /\ \E k \in 1..Least(Least(limit - Len(rx), ReadChunk), Len(s2c)) :
                /\ rx' = rx \o SubSeq(s2c, 1, k)
                /\ s2c' = SubSeq(s2c, k + 1, Len(s2c))
           /\ Len(rx) < limit
           /\ UNCHANGED <<life, connected, closed, state, head, txOff, bodyLen,
                    hdrEnd, interim, resp, call, ret, pub, sent, rcvd, owed,
                    peer, hs, excess, count>>
  <2>1. PICK k \in 1..Least(Least(limit - Len(rx), ReadChunk), Len(s2c)) :
               rx' = rx \o SubSeq(s2c, 1, k)
    BY Zenon, <1>2
  <2>2. k \in Nat /\ 1 <= k /\ k <= Len(s2c) /\ k <= limit - Len(rx)
    BY SessionAssumption DEF TypeOK, Least
  <2> DEFINE new == SubSeq(s2c, 1, k)
  <2>3. new \in Seq(Units) /\ Len(new) = k
    BY <2>2 DEF TypeOK
  <2> HIDE DEF new
  <2>4. /\ Len(rx') = Len(rx) + k
        /\ \A i \in 1..Len(rx) : rx'[i] = rx[i]
    <3>1. rx' = rx \o new
      BY Zenon, <2>1 DEF new
    <3>2. rx \in Seq(Units)
      BY Zenon DEF TypeOK
    <3>3. /\ Len(rx \o new) = Len(rx) + Len(new)
          /\ \A i \in 1..(Len(rx) + Len(new)) :
               (rx \o new)[i] = IF i <= Len(rx) THEN rx[i] ELSE new[i - Len(rx)]
      BY Zenon, <3>2, <2>3, ConcatProperties
    <3>4. Len(rx) \in Nat
      BY <3>2
    <3> QED BY <3>1, <3>3, <3>4, <2>2, <2>3
  <2> QED BY <1>2, <2>2, <2>4 DEF TypeOK
<1> QED BY Zenon, <1>1, <1>2 DEF NbReadSome

(* nb_read_some, called with the limit of the state it is called in, keeps  *)
(* the receive buffer within that limit.                                    *)
LEMMA ShapeReadSome ==
  ASSUME TypeOK, Shape, call # "none", NEW limit \in Nat, NbReadSome(limit),
         limit <= RxMax, state = "READ_HEAD" => limit <= HeaderBudget,
         state \in BodyStates \cup {"READ_HEAD"}
  PROVE  Shape'
<1>1. CASE SmFail("PROTOCOL")
  BY Zenon, <1>1, ShapeFail DEF Codes
<1>2. CASE Want
  BY Zenon, <1>2, ShapeSame DEF Want
<1>3. CASE /\ Len(rx) <= Len(rx') /\ Len(rx') <= limit
           /\ \A i \in 1..Len(rx) : rx'[i] = rx[i]
           /\ UNCHANGED <<life, connected, closed, state, head, hdrEnd, resp,
                          call, pub>>
  <2> USE DEF Shape
  <2>0. rx' \in Seq(Units)
    BY Zenon, TypeReadSome DEF TypeOK
  <2>1. resp # NoResp
    BY Zenon DEF OneRequest
  <2>2. OneRequest' /\ NothingLeftOver'
    BY Zenon, <1>3, <2>1 DEF OneRequest, NothingLeftOver
  <2>3. RxBounded'
    <3>1. Len(rx') \in Nat /\ RxMax \in Nat
      BY <2>0, SessionAssumption DEF RxMax
    <3>2. Len(rx') <= limit /\ limit <= RxMax
      BY Zenon, <1>3
    <3>3. Len(rx') <= RxMax
      BY <3>1, <3>2
    <3> QED BY Zenon, <1>3, <3>3 DEF RxBounded
  <2>4. ReceiveState'
    <3>1. CASE state = "READ_HEAD"
      BY <1>3, <3>1, <2>0, SessionAssumption DEF ReceiveState, BodyStates
    <3>2. CASE state \in BodyStates
      <4>1. hdrEnd \in 1..Len(rx) /\ hdrEnd' = hdrEnd /\ rx'[hdrEnd] = rx[hdrEnd]
        BY Zenon, <1>3, <3>2, <2>1 DEF ReceiveState
      <4>2. hdrEnd \in 1..Len(rx')
        BY <4>1, <1>3, <2>0 DEF TypeOK
      <4> QED BY Zenon, <1>3, <3>2, <2>1, <4>1, <4>2 DEF ReceiveState, BodyStates
    <3> QED BY Zenon, <3>1, <3>2
  <2> QED BY Zenon, <2>2, <2>3, <2>4
<1> QED BY Zenon, <1>1, <1>2, <1>3, ReadSomeCases

(* sm_handshake, sm_write_head and sm_write_body keep the inductive         *)
(* invariant.                                                               *)
LEMMA StepWriting ==
  ASSUME SessionInv, SmHandshake \/ SmWriteHead \/ SmWriteBody
  PROVE  SessionInv'
<1> USE DEF SessionInv, Shape
<1>0. /\ resp # NoResp
      /\ state \in {"HANDSHAKE", "WRITE_HEAD", "WRITE_BODY"}
      /\ rx = <<>> /\ hdrEnd = 0
  BY Zenon DEF SmHandshake, SmWriteHead, SmWriteBody, OneRequest, ReceiveState
<1>w. CASE Want
  BY Zenon, <1>w, TypeWant, ShapeSame DEF Want
<1>f. ASSUME NEW rc \in Codes, SmFail(rc), UNCHANGED net
      PROVE  SessionInv'
  BY Zenon, <1>f, TypeFail, ShapeFail
<1>n. CASE NbWriteWaits
  BY Zenon, <1>n, <1>w, <1>f DEF NbWriteWaits, Codes
<1>s. ASSUME UNCHANGED <<life, closed, rx, hdrEnd, resp, call, pub>>,
             state' \in {"WRITE_HEAD", "WRITE_BODY", "READ_HEAD"},
             head' => head /\ state' = "WRITE_HEAD",
             TypeOK'
      PROVE  SessionInv'
  <2>1. OneRequest' /\ NothingLeftOver'
    BY Zenon, <1>s, <1>0 DEF OneRequest, NothingLeftOver
  <2>2. ReceiveState' /\ RxBounded'
    BY <1>s, <1>0, SessionAssumption DEF ReceiveState, BodyStates, RxBounded
  <2> QED BY Zenon, <1>s, <2>1, <2>2
<1>1. CASE SmHandshake
  <2>1. CASE /\ state' = "WRITE_HEAD"
             /\ UNCHANGED <<life, connected, closed, head, txOff, bodyLen, rx,
                       hdrEnd, interim, resp, call, ret, pub, net, count>>
    <3>1. TypeOK'
      BY Zenon, <2>1 DEF TypeOK, net, count, States
    <3> QED BY Zenon, <2>1, <3>1, <1>s
  <2> QED BY Zenon, <1>1, <2>1, <1>w, <1>f DEF SmHandshake, Codes
<1>2. CASE SmWriteHead
  <2>1. ASSUME NEW k \in 1..HeadLen, NbWrite(0, HeadLen, k),
               \/ /\ txOff + k < HeadLen
                  /\ txOff' = txOff + k
                  /\ UNCHANGED <<head, state>>
               \/ /\ txOff + k = HeadLen
                  /\ head' = FALSE
                  /\ txOff' = 0
                  /\ state' = IF bodyLen > 0 THEN "WRITE_BODY" ELSE "READ_HEAD"
        PROVE  SessionInv'
    <3>1. /\ k \in Nat
          /\ sent' \in Seq(RequestUnits)
      BY Zenon, <2>1, TypeWriteSome, SessionAssumption
    <3>2. txOff' \in Nat /\ state' \in States
      BY <1>2, <2>1, <3>1 DEF SmWriteHead, TypeOK, States
    <3>6. head' \in BOOLEAN
      BY Zenon, <2>1 DEF TypeOK
    <3>3. TypeOK'
      <4>1. /\ UNCHANGED <<life, connected, closed, bodyLen, rx, hdrEnd, interim,
                 resp, call, ret, pub, rcvd, owed, s2c, peer, hs, excess, serial,
                 opens, connects, disconnects>>
        BY Zenon, <2>1 DEF NbWrite, count
      <4> QED BY Zenon, <3>1, <3>2, <3>6, <4>1 DEF TypeOK
    <3>4. head' => head /\ state' = "WRITE_HEAD"
      BY Zenon, <1>2, <2>1 DEF SmWriteHead
    <3>5. state' \in {"WRITE_HEAD", "WRITE_BODY", "READ_HEAD"}
      BY Zenon, <1>2, <2>1 DEF SmWriteHead
    <3> QED BY Zenon, <2>1, <3>3, <3>4, <3>5, <1>s DEF NbWrite
  <2> QED BY Zenon, <1>2, <2>1, <1>n DEF SmWriteHead
<1>3. CASE SmWriteBody
  <2>1. ASSUME NEW k \in 1..bodyLen, NbWrite(HeadLen, bodyLen, k),
               txOff' = txOff + k,
               state' = IF txOff + k = bodyLen THEN "READ_HEAD" ELSE state,
               UNCHANGED head
        PROVE  SessionInv'
    <3>1. k \in Nat /\ sent' \in Seq(RequestUnits)
      BY Zenon, <2>1, TypeWriteSome, SessionAssumption DEF TypeOK
    <3>2. txOff' \in Nat /\ state' \in {"WRITE_BODY", "READ_HEAD"}
      BY <1>3, <2>1, <3>1 DEF SmWriteBody, TypeOK
    <3>3. TypeOK'
      BY Zenon, <2>1, <3>1, <3>2 DEF NbWrite, TypeOK, count, States
    <3>4. ~head
      BY Zenon, <1>3 DEF SmWriteBody, NothingLeftOver
    <3> QED BY Zenon, <2>1, <3>2, <3>3, <3>4, <1>s DEF NbWrite
  <2> QED BY Zenon, <1>3, <2>1, <1>n DEF SmWriteBody
<1> QED BY Zenon, <1>1, <1>2, <1>3

(* sm_read_head and the three body readers keep the inductive invariant:    *)
(* inspect_headers refuses a body that the buffer could not hold.           *)
LEMMA StepReading ==
  ASSUME SessionInv,
         SmReadHead \/ SmReadBodyCl \/ SmReadBodyChunked \/ SmReadBodyEof
  PROVE  SessionInv'
<1> USE DEF SessionInv, Shape
<1>0. /\ call # "none" /\ resp # NoResp
      /\ rx \in Seq(Units) /\ hdrEnd \in Nat /\ Len(rx) \in Nat
      /\ HeaderBudget \in Nat \ {0} /\ MaxBody \in Nat
  <2>1. call # "none"
    BY Zenon DEF SmReadHead, SmReadBodyCl, SmReadBodyChunked, SmReadBodyEof
  <2>2. resp # NoResp
    BY Zenon, <2>1 DEF OneRequest
  <2>3. rx \in Seq(Units) /\ hdrEnd \in Nat /\ Len(rx) \in Nat
    BY DEF TypeOK
  <2> QED BY Zenon, <2>1, <2>2, <2>3, SessionAssumption
<1>f. ASSUME NEW rc \in Codes, SmFail(rc), UNCHANGED net
      PROVE  SessionInv'
  BY Zenon, <1>f, TypeFail, ShapeFail
<1>r. ASSUME NEW limit \in Nat, NbReadSome(limit), limit <= RxMax,
             state = "READ_HEAD" => limit <= HeaderBudget,
             state \in BodyStates \cup {"READ_HEAD"}
      PROVE  SessionInv'
  <2>1. TypeOK'
    BY Zenon, <1>r, TypeReadSome
  <2>2. Shape'
    BY Zenon, <1>r, <1>0, ShapeReadSome
  <2> QED BY Zenon, <2>1, <2>2
<1>p. ASSUME NEW body \in Seq(Units), Len(body) <= MaxBody, NEW close \in BOOLEAN,
             Publish(body, close), state \in BodyStates
      PROVE  SessionInv'
  <2>1. rx[hdrEnd] \in Units
    BY Zenon, <1>p, <1>0, LenProperties DEF ReceiveState
  <2>2. TypeOK'
    BY Zenon, <1>p, <2>1, TypePublish
  <2>3. Shape'
    BY Zenon, <1>p, ShapePublish
  <2> QED BY Zenon, <2>2, <2>3
<1>1. CASE SmReadHead
  <2>0. state = "READ_HEAD" /\ Len(rx) <= HeaderBudget
    BY Zenon, <1>1 DEF SmReadHead, ReceiveState
  <2>1. CASE ReadMoreHead
    BY <2>0, <2>1, <1>f, <1>r, <1>0 DEF ReadMoreHead, Codes, RxMax
  <2>2. ASSUME NEW e \in 1..Len(rx), BadHead(e)
        PROVE  SessionInv'
    BY Zenon, <2>2, <1>f DEF BadHead, Codes
  <2>3. ASSUME NEW e \in 1..Len(rx), DropInterim(e)
        PROVE  SessionInv'
    <3>1. rx' \in Seq(Units) /\ Len(rx') <= Len(rx)
      BY <2>3, <1>0 DEF DropInterim
    <3>2. TypeOK'
      BY <2>3, <3>1 DEF DropInterim, TypeOK, net, count
    <3>3. Len(rx') <= HeaderBudget /\ Len(rx') <= RxMax
      BY <2>0, <3>1, <1>0 DEF RxMax
    <3>4. OneRequest' /\ NothingLeftOver'
      BY Zenon, <2>3, <1>0 DEF DropInterim, OneRequest, NothingLeftOver
    <3>5. ReceiveState' /\ RxBounded'
      BY Zenon, <2>3, <2>0, <3>3 DEF DropInterim, ReceiveState, BodyStates, RxBounded
    <3> QED BY Zenon, <3>2, <3>4, <3>5
  <2>4. ASSUME NEW e \in 1..Len(rx), TakeHead(e)
        PROVE  SessionInv'
    <3>0. /\ rx[e].k = "f" /\ ~BodyTooLong(e)
          /\ hdrEnd' = e /\ state' = BodyState(rx[e].fr)
          /\ UNCHANGED <<life, connected, closed, head, txOff, bodyLen, rx,
                         interim, resp, call, ret, pub, net, count>>
      BY Zenon, <2>4 DEF TakeHead
    <3>e. e \in Nat /\ e <= HeaderBudget
      BY <2>0, <1>0
    <3>1. rx[e] \in Units
      BY Zenon, <1>0, LenProperties
    <3>2. state' \in BodyStates /\ state' = BodyState(rx[e].fr)
      BY Zenon, <3>0, <3>1 DEF BodyState, BodyStates, Units, Framing
    <3>3. state' = "READ_BODY_CL" => rx[e].fr = "cl"
      BY Zenon, <3>1, <3>2 DEF BodyState, Units, Framing
    <3>4. state' = "READ_BODY_CL" => rx[e].i <= MaxBody
      <4>1. rx[e].i \in Nat
        BY Zenon, <3>1 DEF Units
      <4> QED BY <3>0, <4>1, <3>3, <1>0 DEF BodyTooLong
    <3>5. TypeOK'
      <4>1. state' \in States
        BY Zenon, <3>2 DEF States, BodyStates
      <4>2. hdrEnd' \in Nat
        BY Zenon, <3>0, <3>e
      <4> QED BY Zenon, <3>0, <4>1, <4>2 DEF TypeOK, net, count
    <3>6. OneRequest'
      BY Zenon, <3>0, <3>2, <1>0 DEF OneRequest, BodyStates
    <3>7. NothingLeftOver'
      BY Zenon, <2>0, <3>0, <1>0 DEF NothingLeftOver
    <3>8. RxBounded'
      BY Zenon, <3>0 DEF RxBounded
    <3>9. ReceiveState'
      <4>1. state' \notin {"IDLE", "HANDSHAKE", "WRITE_HEAD", "WRITE_BODY",
                           "READ_HEAD"}
        BY Zenon, <3>2 DEF BodyStates
      <4> QED BY Zenon, <4>1, <3>0, <3>e, <3>2, <3>4 DEF ReceiveState
    <3> QED BY Zenon, <3>5, <3>6, <3>7, <3>8, <3>9
  <2> QED BY Zenon, <1>1, <2>1, <2>2, <2>3, <2>4 DEF SmReadHead
<1>2. CASE SmReadBodyCl
  <2>0. /\ state = "READ_BODY_CL" /\ hdrEnd \in 1..Len(rx)
        /\ hdrEnd <= HeaderBudget /\ rx[hdrEnd].i <= MaxBody
    BY Zenon, <1>2, <1>0 DEF SmReadBodyCl, ReceiveState, BodyStates
  <2>1. rx[hdrEnd].i \in Nat
    <3>1. rx[hdrEnd] \in Units
      BY Zenon, <2>0, <1>0, LenProperties
    <3> QED BY Zenon, <3>1 DEF Units
  <2>2. ClEnd \in Nat /\ ClEnd <= RxMax /\ ClEnd - hdrEnd <= MaxBody /\ hdrEnd <= ClEnd
    BY <2>0, <2>1, <1>0 DEF RxMax, ClEnd
  <2>3. ASSUME NbReadSome(ClEnd) PROVE SessionInv'
    BY Zenon, <2>0, <2>2, <2>3, <1>r DEF BodyStates
  <2>4. ASSUME Len(rx) >= ClEnd, Publish(SubSeq(rx, hdrEnd + 1, ClEnd), Len(rx) > ClEnd)
        PROVE  SessionInv'
    <3>1. /\ SubSeq(rx, hdrEnd + 1, ClEnd) \in Seq(Units)
          /\ Len(SubSeq(rx, hdrEnd + 1, ClEnd)) <= MaxBody
      BY <2>4, <2>2, <2>0, <1>0
    <3>2. (Len(rx) > ClEnd) \in BOOLEAN
      OBVIOUS
    <3> QED BY Zenon, <2>0, <2>4, <3>1, <3>2, <1>p DEF BodyStates
  <2> QED BY Zenon, <1>2, <2>3, <2>4, <1>f DEF SmReadBodyCl, Codes
<1>3. CASE SmReadBodyChunked
  <2>0. state = "READ_BODY_CHUNKED" /\ hdrEnd \in 1..Len(rx)
    BY Zenon, <1>3, <1>0 DEF SmReadBodyChunked, ReceiveState, BodyStates
  <2>1. ASSUME NEW e \in (hdrEnd + 1)..Len(rx), ChunkedEnd(e),
               Publish(SubSeq(rx, hdrEnd + 1, e - 1), Len(rx) > e)
        PROVE  SessionInv'
    <3>1. /\ SubSeq(rx, hdrEnd + 1, e - 1) \in Seq(Units)
          /\ Len(SubSeq(rx, hdrEnd + 1, e - 1)) <= MaxBody
      BY <2>0, <2>1, <1>0 DEF ChunkedEnd
    <3>2. (Len(rx) > e) \in BOOLEAN
      OBVIOUS
    <3> QED BY Zenon, <2>0, <2>1, <3>1, <3>2, <1>p DEF BodyStates
  <2>2. ASSUME NbReadSome(RxMax) PROVE SessionInv'
    BY <2>0, <2>2, <1>0, <1>r DEF BodyStates, RxMax
  <2> QED BY Zenon, <1>3, <2>1, <2>2, <1>f DEF SmReadBodyChunked, Codes
<1>4. CASE SmReadBodyEof
  <2>0. /\ state = "READ_BODY_EOF" /\ hdrEnd \in 1..Len(rx)
        /\ hdrEnd <= HeaderBudget
    BY Zenon, <1>4, <1>0 DEF SmReadBodyEof, ReceiveState, BodyStates
  <2>1. ASSUME NbReadSome(hdrEnd + MaxBody) PROVE SessionInv'
    BY <2>0, <2>1, <1>0, <1>r DEF BodyStates, RxMax
  <2>2. ASSUME NbReadEnded(hdrEnd + MaxBody),
               Publish(SubSeq(rx, hdrEnd + 1, Len(rx)), TRUE)
        PROVE  SessionInv'
    <3>1. /\ SubSeq(rx, hdrEnd + 1, Len(rx)) \in Seq(Units)
          /\ Len(SubSeq(rx, hdrEnd + 1, Len(rx))) <= MaxBody
      BY <2>0, <2>2, <1>0 DEF NbReadEnded
    <3> QED BY Zenon, <2>0, <2>2, <3>1, <1>p DEF BodyStates
  <2> QED BY Zenon, <1>4, <2>1, <2>2 DEF SmReadBodyEof
<1> QED BY Zenon, <1>1, <1>2, <1>3, <1>4

(* Every step of the caller, the state machine and the server keeps the     *)
(* inductive invariant.                                                     *)
LEMMA SessionInductive == SessionInv /\ [Next]_vars => SessionInv'
<1> SUFFICES ASSUME SessionInv, [Next]_vars PROVE SessionInv'
  OBVIOUS
<1>0. TypeOK /\ Shape
  BY Zenon DEF SessionInv, Shape
<1>1. CASE Caller
  BY Zenon, <1>0, <1>1, TypeCaller, ShapeCaller DEF SessionInv, Shape
<1>2. CASE Server
  BY Zenon, <1>0, <1>2, TypeServer, ShapeServer DEF SessionInv, Shape
<1>3. CASE SmStep
  BY Zenon, <1>3, StepWriting, StepReading DEF SmStep
<1>4. CASE SmFault
  <2>1. PICK rc \in FaultCodes : SmFail(rc)
    BY Zenon, <1>4 DEF SmFault
  <2>2. rc \in Codes
    BY Zenon DEF FaultCodes, Codes
  <2>3. UNCHANGED net
    BY Zenon, <1>4 DEF SmFault
  <2> QED BY Zenon, <1>0, <2>1, <2>2, <2>3, TypeFail, ShapeFail DEF SessionInv, Shape
<1>5. CASE UNCHANGED vars
  <2>1. TypeOK'
    BY Zenon, <1>0, <1>5 DEF TypeOK, vars, sess, net, count
  <2>2. Shape'
    BY Zenon, <1>0, <1>5, ShapeSame DEF vars
  <2> QED BY Zenon, <2>1, <2>2 DEF SessionInv, Shape
<1> QED BY Zenon, <1>1, <1>2, <1>3, <1>4, <1>5 DEF Next

(* The inductive invariant holds in every reachable state, whatever the    *)
(* sizes, limits and bounds.                                               *)
THEOREM SessionInvHolds == Spec => []SessionInv
<1>1. Init => SessionInv
  BY Zenon, TypeInit, ShapeInit DEF SessionInv, Shape
<1> QED BY <1>1, SessionInductive, PTL DEF Spec

(* The session's fields, the response objects and the connection keep      *)
(* their types.                                                            *)
THEOREM TypeOKHolds == Spec => []TypeOK
<1>1. SessionInv => TypeOK
  BY Zenon DEF SessionInv
<1> QED BY <1>1, SessionInvHolds, PTL

(* http_session_call's busy test is right: sm_resp is set exactly while a  *)
(* request is under way, and never on a closed session.                    *)
THEOREM OneRequestHolds == Spec => []OneRequest
<1>1. SessionInv => OneRequest
  BY Zenon DEF SessionInv
<1> QED BY <1>1, SessionInvHolds, PTL

(* No exchange leaves a request head or received bytes behind.             *)
THEOREM NothingLeftOverHolds == Spec => []NothingLeftOver
<1>1. SessionInv => NothingLeftOver
  BY Zenon DEF SessionInv
<1> QED BY <1>1, SessionInvHolds, PTL

(* The receive buffer and the published bodies stay within their limits.   *)
THEOREM RxBoundedHolds == Spec => []RxBounded
<1>1. SessionInv => RxBounded
  BY Zenon DEF SessionInv
<1> QED BY <1>1, SessionInvHolds, PTL
-----------------------------------------------------------------------------
(* What the steps of a call leave alone, and that only a call takes them.  *)
LEMMA SmStepFrame ==
  ASSUME SmStep \/ SmFault
  PROVE  call # "none" /\ UNCHANGED <<life, connected, count>>
<1>1. CASE SmFault
  BY Zenon, <1>1 DEF SmFault, SmFail
<1>2. CASE SmHandshake
  BY Zenon, <1>2 DEF SmHandshake, Want, SmFail, sess
<1>3. CASE SmWriteHead
  BY Zenon, <1>3 DEF SmWriteHead, NbWrite, NbWriteWaits, Want, SmFail, sess
<1>4. CASE SmWriteBody
  BY Zenon, <1>4 DEF SmWriteBody, NbWrite, NbWriteWaits, Want, SmFail, sess
<1>5. ASSUME NEW limit, NbReadSome(limit)
      PROVE  UNCHANGED <<life, connected, count>>
  BY Zenon, <1>5 DEF NbReadSome, Want, SmFail, sess
<1>6. CASE SmReadHead
  BY Zenon, <1>6, <1>5 DEF SmReadHead, ReadMoreHead, BadHead, DropInterim, TakeHead, SmFail
<1>7. CASE SmReadBodyCl
  BY Zenon, <1>7, <1>5 DEF SmReadBodyCl, Publish, SmFail
<1>8. CASE SmReadBodyChunked
  BY Zenon, <1>8, <1>5 DEF SmReadBodyChunked, Publish, SmFail
<1>9. CASE SmReadBodyEof
  BY Zenon, <1>9, <1>5 DEF SmReadBodyEof, Publish
<1> QED BY Zenon, <1>1, <1>2, <1>3, <1>4, <1>6, <1>7, <1>8, <1>9 DEF SmStep

(* The transport's disconnect runs exactly once per successful connect,    *)
(* also when the session fails, is closed mid-request or never completes   *)
(* its TLS set-up.                                                         *)
THEOREM DisconnectOnceHolds == Spec => []DisconnectOnce
<1>1. Init => DisconnectOnce
  BY DEF Init, Blank, DisconnectOnce
<1>2. ASSUME TypeOK, DisconnectOnce, [Next]_vars PROVE DisconnectOnce'
  <2>1. CASE Open
    BY <1>2, <2>1 DEF Open, DisconnectOnce, TypeOK
  <2>2. CASE OpenTlsFails
    BY <1>2, <2>2 DEF OpenTlsFails, DisconnectOnce, TypeOK, sess
  <2>3. CASE Close
    <3>1. connected /\ connects = disconnects + 1
      BY Zenon, <1>2, <2>3 DEF Close, DisconnectOnce
    <3>2. disconnects' = disconnects + 1 /\ connected' = FALSE
          /\ life' = "none" /\ connects' = connects
      BY Zenon, <2>3, <3>1 DEF Close, ConnClose
    <3> QED BY <3>1, <3>2, <1>2 DEF DisconnectOnce, TypeOK
  <2>4. CASE UNCHANGED <<life, connected, connects, disconnects>>
    BY Zenon, <1>2, <2>4 DEF DisconnectOnce
  <2>5. Caller => Open \/ OpenTlsFails \/ Close
                  \/ UNCHANGED <<life, connected, connects, disconnects>>
    BY Zenon DEF Caller, OpenDialFails, CallClosed, CallResume, CallBusy,
           CallNotBegun, CallBegin, sess, count
  <2>6. CASE SmStep \/ SmFault
    BY Zenon, <2>6, <2>4, SmStepFrame DEF count
  <2>7. CASE Server
    BY Zenon, <2>7, <2>4, ServerFrame DEF SrvUnchanged, sess, count
  <2>8. CASE UNCHANGED vars
    BY Zenon, <2>8, <2>4 DEF vars, sess, count
  <2> QED BY Zenon, <1>2, <2>1, <2>2, <2>3, <2>4, <2>5, <2>6, <2>7, <2>8 DEF Next
<1>3. Spec => []TypeOK
  <2>1. SessionInv => TypeOK
    BY Zenon DEF SessionInv
  <2> QED BY <2>1, SessionInvHolds, PTL
<1> QED BY <1>1, <1>2, <1>3, PTL DEF Spec

(* A session that an exchange closed never sends, takes a request or       *)
(* touches a response object again.                                        *)
THEOREM ClosedIsFinalHolds == Spec => ClosedIsFinal
<1>1. ASSUME SessionInv, [Next]_vars, closed, life = "open", life' # "none"
      PROVE  closed' /\ UNCHANGED <<sent, resp, pub, serial>>
  <2>1. CASE Caller
    BY Zenon, <1>1, <2>1 DEF Caller, Open, OpenDialFails, OpenTlsFails, Close, CallClosed,
       CallResume, CallBusy, CallNotBegun, CallBegin, sess, net, count
  <2>2. CASE SmStep \/ SmFault
    <3>1. call # "none"
      BY Zenon, <2>2, SmStepFrame
    <3> QED BY Zenon, <1>1, <3>1 DEF SessionInv, OneRequest
  <2>3. CASE Server
    <3>1. sent' = sent /\ UNCHANGED <<sess, pub, count>>
      BY Zenon, <2>3, ServerFrame DEF SrvUnchanged
    <3> QED BY Zenon, <1>1, <3>1 DEF sess, count
  <2>4. CASE UNCHANGED vars
    BY Zenon, <1>1, <2>4 DEF vars, sess, net, count
  <2> QED BY Zenon, <1>1, <2>1, <2>2, <2>3, <2>4 DEF Next
<1>2. SessionInv /\ [Next]_vars =>
        [closed /\ life = "open" =>
           \/ life' = "none"
           \/ closed' /\ UNCHANGED <<sent, resp, pub, serial>>]_vars
  BY Zenon, <1>1
<1> QED BY <1>2, SessionInvHolds, PTL DEF Spec, ClosedIsFinal
-----------------------------------------------------------------------------
(* A unit's length is a number.                                            *)
LEMMA UnitFields ==
  ASSUME NEW s \in Seq(Units), NEW a \in 1..Len(s)
  PROVE  s[a] \in Units /\ s[a].i \in Nat /\ s[a].req \in Nat /\ s[a].fr \in Framing
<1>1. s[a] \in Units
  BY Zenon, ElementOfSeq
<1> QED BY Zenon, <1>1 DEF Units

(* The steps of sm_run, by what they do to the session and the stream.     *)

Stops ==
  /\ \E rc \in {"IO", "TLS", "PROTOCOL", "MEMORY"} : SmFail(rc)
  /\ s2c' = s2c \/ (s2c # <<>> /\ s2c' = Tail(s2c))
  /\ UNCHANGED <<sent, rcvd, owed, peer, hs, excess>>

HandshakeDone ==
  /\ state = "HANDSHAKE" /\ state' = "WRITE_HEAD"
  /\ UNCHANGED <<life, connected, closed, head, txOff, bodyLen, rx, hdrEnd,
                 interim, resp, call, ret, pub, net, count>>

WritesHead(k) ==
  /\ state = "WRITE_HEAD" /\ NbWrite(0, HeadLen, k)
  /\ \/ txOff + k < HeadLen /\ txOff' = txOff + k /\ UNCHANGED state
     \/ /\ txOff + k = HeadLen /\ txOff' = 0
        /\ state' = IF bodyLen > 0 THEN "WRITE_BODY" ELSE "READ_HEAD"

WritesBody(k) ==
  /\ state = "WRITE_BODY" /\ NbWrite(HeadLen, bodyLen, k)
  /\ txOff' = txOff + k
  /\ state' = IF txOff + k = bodyLen THEN "READ_HEAD" ELSE state

Reads ==
  /\ state \in {"READ_HEAD"} \cup BodyStates
  /\ \E k \in 1..Len(s2c) : /\ rx' = rx \o SubSeq(s2c, 1, k)
                            /\ s2c' = SubSeq(s2c, k + 1, Len(s2c))
  /\ UNCHANGED <<life, connected, closed, state, head, txOff, bodyLen,
                 hdrEnd, interim, resp, call, ret, pub, sent, rcvd, owed,
                 peer, hs, excess, count>>

Drops == state = "READ_HEAD" /\ \E e \in 1..Len(rx) : BlockEnd(e) /\ DropInterim(e)

Takes == state = "READ_HEAD" /\ \E e \in 1..Len(rx) : BlockEnd(e) /\ TakeHead(e)

PublishesCl ==
  /\ state = "READ_BODY_CL" /\ Len(rx) >= ClEnd
  /\ Publish(SubSeq(rx, hdrEnd + 1, ClEnd), Len(rx) > ClEnd)

PublishesChunked ==
  /\ state = "READ_BODY_CHUNKED"
  /\ \E e \in (hdrEnd + 1)..Len(rx) :
       ChunkedEnd(e) /\ Publish(SubSeq(rx, hdrEnd + 1, e - 1), Len(rx) > e)

PublishesEof ==
  /\ state = "READ_BODY_EOF" /\ s2c = <<>>
  /\ Publish(SubSeq(rx, hdrEnd + 1, Len(rx)), TRUE)

Publishes == PublishesCl \/ PublishesChunked \/ PublishesEof

(* These are all the steps there are.                                      *)
LEMMA StepKinds ==
  ASSUME SessionInv, SmStep \/ SmFault
  PROVE  /\ call # "none" /\ resp # NoResp /\ life = "open" /\ ~closed
         /\ \/ Want \/ Stops \/ HandshakeDone \/ Reads \/ Drops \/ Takes \/ Publishes
            \/ \E k : WritesHead(k) \/ WritesBody(k)
<1>1. call # "none" /\ resp # NoResp /\ life = "open" /\ ~closed
  BY Zenon, SmStepFrame DEF SessionInv, OneRequest
<1> DEFINE Kinds == \/ Want \/ Stops \/ HandshakeDone \/ Reads \/ Drops \/ Takes
                    \/ Publishes \/ \E k : WritesHead(k) \/ WritesBody(k)
<1> SUFFICES Kinds
  BY Zenon, <1>1
<1>2. ASSUME NEW rc \in {"IO", "TLS", "PROTOCOL", "MEMORY"}, SmFail(rc), UNCHANGED net
      PROVE  Stops
  BY Zenon, <1>2 DEF Stops, net
<1>3. ASSUME NEW limit \in Nat, state \in {"READ_HEAD"} \cup BodyStates, NbReadSome(limit)
      PROVE  Want \/ Stops \/ Reads
  <2>1. CASE \/ Len(rx) > limit /\ SmFail("PROTOCOL") /\ UNCHANGED net
             \/ /\ s2c # <<>> /\ SmFail("PROTOCOL") /\ s2c' = Tail(s2c)
                /\ UNCHANGED <<sent, rcvd, owed, peer, hs, excess>>
    BY Zenon, <2>1, <1>2 DEF Stops
  <2>2. CASE /\ \E k \in 1..Least(Least(limit - Len(rx), ReadChunk), Len(s2c)) :
                  /\ rx' = rx \o SubSeq(s2c, 1, k)
                  /\ s2c' = SubSeq(s2c, k + 1, Len(s2c))
             /\ UNCHANGED <<life, connected, closed, state, head, txOff, bodyLen,
                    hdrEnd, interim, resp, call, ret, pub, sent, rcvd, owed,
                    peer, hs, excess, count>>
    <3>1. Len(s2c) \in Nat /\ Len(rx) \in Nat /\ ReadChunk \in Nat
      BY Zenon, SessionAssumption, LenProperties DEF SessionInv, TypeOK
    <3>2. 1..Least(Least(limit - Len(rx), ReadChunk), Len(s2c)) \subseteq 1..Len(s2c)
      BY <3>1 DEF Least
    <3> QED BY <1>3, <2>2, <3>2, Zenon DEF Reads
  <2>3. CASE Want
    BY Zenon, <2>3
  <2> QED BY <1>3, <2>1, <2>2, <2>3, Zenon DEF NbReadSome
<1>4. NbWriteWaits => Want \/ Stops
  BY Zenon, <1>2 DEF NbWriteWaits
<1>5. CASE SmFault
  BY Zenon, <1>5, <1>2 DEF SmFault, FaultCodes
<1>6. CASE SmHandshake
  BY Zenon, <1>6, <1>2 DEF SmHandshake, HandshakeDone
<1>7. CASE SmWriteHead
  BY Zenon, <1>7, <1>4 DEF SmWriteHead, WritesHead
<1>8. CASE SmWriteBody
  BY Zenon, <1>8, <1>4 DEF SmWriteBody, WritesBody
<1>9. CASE SmReadHead
  <2>1. HeaderBudget \in Nat
    BY Zenon, SessionAssumption
  <2>2. ReadMoreHead => Want \/ Stops \/ Reads
    BY Zenon, <1>9, <1>2, <1>3, <2>1 DEF SmReadHead, ReadMoreHead
  <2>3. ASSUME NEW e \in 1..Len(rx), BlockEnd(e), BadHead(e) \/ DropInterim(e) \/ TakeHead(e)
        PROVE  Stops \/ Drops \/ Takes
    BY Zenon, <1>9, <1>2, <2>3 DEF SmReadHead, BadHead, Drops, Takes
  <2> QED BY Zenon, <1>9, <2>2, <2>3 DEF SmReadHead
<1>10. CASE SmReadBodyCl
  <2>1. ClEnd \in Nat
    <3>1. hdrEnd \in 1..Len(rx) /\ rx \in Seq(Units)
      BY Zenon, <1>1, <1>10 DEF SmReadBodyCl, SessionInv, ReceiveState, BodyStates, TypeOK
    <3> QED BY <3>1, UnitFields, LenProperties DEF ClEnd
  <2> QED BY Zenon, <1>10, <1>2, <1>3, <2>1 DEF SmReadBodyCl, BodyStates, Publishes, PublishesCl
<1>11. CASE SmReadBodyChunked
  <2>1. RxMax \in Nat
    BY SessionAssumption DEF RxMax
  <2>2. CASE ChunkedBad /\ SmFail("PROTOCOL") /\ UNCHANGED net
    BY Zenon, <1>2, <2>2
  <2>3. CASE \E e \in (hdrEnd + 1)..Len(rx) :
               ChunkedEnd(e) /\ Publish(SubSeq(rx, hdrEnd + 1, e - 1), Len(rx) > e)
    BY Zenon, <1>11, <2>3 DEF SmReadBodyChunked, Publishes, PublishesChunked
  <2>4. CASE NbReadSome(RxMax) \/ (NbReadEnded(RxMax) /\ SmFail("IO") /\ UNCHANGED net)
    BY Zenon, <1>11, <1>2, <1>3, <2>1, <2>4 DEF SmReadBodyChunked, BodyStates
  <2> QED BY Zenon, <1>11, <2>2, <2>3, <2>4 DEF SmReadBodyChunked
<1>12. CASE SmReadBodyEof
  <2>1. hdrEnd + MaxBody \in Nat
    BY SessionAssumption DEF SessionInv, TypeOK
  <2> QED BY <1>12, <1>3, <2>1, Zenon
          DEF SmReadBodyEof, NbReadEnded, BodyStates, Publishes, PublishesEof
<1> QED BY Zenon, <1>5, <1>6, <1>7, <1>8, <1>9, <1>10, <1>11, <1>12 DEF SmStep
-----------------------------------------------------------------------------
(* Requests in order.                                                      *)

(* How far the request under way has been written.                         *)
Offset == IF state = "WRITE_BODY" THEN HeadLen + txOff ELSE txOff

Writing == resp # NoResp /\ state \in {"WRITE_HEAD", "WRITE_BODY"}

Before(u, v) == u.req < v.req \/ (u.req = v.req /\ u.i < v.i)

(* The units written: request numbers and offsets only grow, and none is   *)
(* beyond the request under way.                                           *)
SentInv ==
  /\ rcvd <= Len(sent) /\ (life = "none" => sent = <<>>)
  /\ \A j \in 1..Len(sent) : sent[j].req <= serial
  /\ \A j, k \in 1..Len(sent) : j < k => Before(sent[j], sent[k])
  /\ resp # NoResp /\ state = "HANDSHAKE" => txOff = 0
  /\ resp # NoResp /\ state \in {"HANDSHAKE", "WRITE_HEAD", "WRITE_BODY"} =>
       \A j \in 1..Len(sent) : sent[j].req = serial => sent[j].i <= Offset

(* The last one is where the request has been left, or the end of one.     *)
LastInv ==
  life = "open" /\ ~closed =>
    IF Writing /\ Offset > 0
    THEN /\ Len(sent) > 0
         /\ sent[Len(sent)] = RequestUnit(serial, Offset, HeadLen + bodyLen)
    ELSE Len(sent) > 0 => sent[Len(sent)].i = sent[Len(sent)].len

OrderInv == SentInv /\ LastInv /\ RequestsInOrder

(* The units sent have numbers in their fields.                            *)
LEMMA SentFields ==
  ASSUME TypeOK
  PROVE  /\ Len(sent) \in Nat /\ Offset \in Nat /\ serial \in Nat /\ rcvd \in Nat
         /\ \A j \in 1..Len(sent) :
              sent[j].req \in Nat /\ sent[j].i \in Nat /\ sent[j].len \in Nat
<1>1. Len(sent) \in Nat /\ \A j \in 1..Len(sent) : sent[j] \in RequestUnits
  BY Zenon, LenProperties, ElementOfSeq DEF TypeOK
<1>2. \A j \in 1..Len(sent) :
        sent[j].req \in Nat /\ sent[j].i \in Nat /\ sent[j].len \in Nat
  BY Zenon, <1>1 DEF RequestUnits
<1>3. Offset \in Nat
  BY SessionAssumption DEF TypeOK, Offset
<1> QED BY Zenon, <1>1, <1>2, <1>3 DEF TypeOK

(* nb_write adds units that take up where the request was left.            *)
LEMMA WroteUnits ==
  ASSUME TypeOK, NEW base \in Nat, NEW n \in Nat, NEW k, NbWrite(base, n, k),
         Offset = base + txOff
  PROVE  /\ k \in Nat /\ k >= 1 /\ txOff + k <= n
         /\ Len(sent') = Len(sent) + k
         /\ \A j \in 1..Len(sent) : sent'[j] = sent[j]
         /\ \A i \in 1..k : sent'[Len(sent) + i] =
              [req |-> serial, i |-> Offset + i, len |-> HeadLen + bodyLen]
<1> DEFINE new == [i \in 1..k |-> RequestUnit(serial, base + txOff + i, HeadLen + bodyLen)]
<1>1. k \in Nat /\ k >= 1 /\ txOff + k <= n
  BY TypeWriteSome
<1>2. Len(sent) \in Nat /\ sent \in Seq(RequestUnits)
  BY Zenon, SentFields DEF TypeOK
<1>3. \A i \in 1..k : RequestUnit(serial, base + txOff + i, HeadLen + bodyLen) \in RequestUnits
  <2>1. ASSUME NEW i \in 1..k
        PROVE  base + txOff + i \in Nat /\ HeadLen + bodyLen \in Nat /\ serial \in Nat
    BY <1>1, SessionAssumption DEF TypeOK
  <2> QED BY Zenon, <2>1 DEF RequestUnit, RequestUnits
<1>4. /\ new \in Seq(RequestUnits) /\ Len(new) = k
      /\ \A i \in 1..k : new[i] = RequestUnit(serial, base + txOff + i, HeadLen + bodyLen)
  BY <1>1, <1>3
<1>5. sent' = sent \o new
  BY Zenon DEF NbWrite
<1> HIDE DEF new
<1>6. /\ Len(sent \o new) = Len(sent) + Len(new)
      /\ \A i \in 1..Len(sent) + Len(new) :
           (sent \o new)[i] = IF i <= Len(sent) THEN sent[i] ELSE new[i - Len(sent)]
  BY Zenon, <1>2, <1>4, ConcatProperties
<1>7. \A j \in 1..Len(sent) : sent'[j] = sent[j]
  <2>1. \A j \in 1..Len(sent) : j \in 1..Len(sent) + k /\ j <= Len(sent)
    BY <1>1, <1>2
  <2> QED BY Zenon, <1>4, <1>5, <1>6, <2>1
<1>8. \A i \in 1..k : sent'[Len(sent) + i] = new[i]
  <2>1. \A i \in 1..k : /\ Len(sent) + i \in 1..Len(sent) + k
                        /\ ~(Len(sent) + i <= Len(sent)) /\ Len(sent) + i - Len(sent) = i
    BY <1>1, <1>2
  <2> QED BY <1>4, <1>5, <1>6, <2>1
<1>9. \A i \in 1..k : new[i] = [req |-> serial, i |-> Offset + i, len |-> HeadLen + bodyLen]
  BY Zenon, <1>4 DEF RequestUnit
<1> QED BY Zenon, <1>1, <1>4, <1>5, <1>6, <1>7, <1>8, <1>9

(* Both steps that write add the next units of the request under way.      *)
LEMMA WroteMore ==
  ASSUME TypeOK, NEW k, WritesHead(k) \/ WritesBody(k)
  PROVE  /\ k \in Nat /\ k >= 1
         /\ Len(sent') = Len(sent) + k
         /\ \A j \in 1..Len(sent) : sent'[j] = sent[j]
         /\ \A i \in 1..k : sent'[Len(sent) + i] =
              [req |-> serial, i |-> Offset + i, len |-> HeadLen + bodyLen]
<1>1. CASE WritesHead(k)
  <2>1. NbWrite(0, HeadLen, k) /\ Offset = 0 + txOff /\ HeadLen \in Nat
    BY <1>1, SessionAssumption DEF WritesHead, Offset, TypeOK
  <2> QED BY Zenon, <2>1, WroteUnits
<1>2. CASE WritesBody(k)
  <2>1. NbWrite(HeadLen, bodyLen, k) /\ Offset = HeadLen + txOff /\ HeadLen \in Nat
        /\ bodyLen \in Nat
    BY Zenon, <1>2, SessionAssumption DEF WritesBody, Offset, TypeOK
  <2> QED BY <2>1, WroteUnits, Zenon
<1> QED BY Zenon, <1>1, <1>2

(* So the order of the units is kept.                                      *)
LEMMA WroteInOrder ==
  ASSUME TypeOK, OrderInv, Writing, life = "open", ~closed, NEW k \in Nat, k >= 1,
         Len(sent') = Len(sent) + k,
         \A j \in 1..Len(sent) : sent'[j] = sent[j],
         \A i \in 1..k : sent'[Len(sent) + i] =
           [req |-> serial, i |-> Offset + i, len |-> HeadLen + bodyLen]
  PROVE  /\ \A j \in 1..Len(sent') : sent'[j].req <= serial
         /\ \A j, m \in 1..Len(sent') : j < m => Before(sent'[j], sent'[m])
         /\ \A j \in 1..Len(sent') : sent'[j].req = serial => sent'[j].i <= Offset + k
         /\ RequestsInOrder'
<1>1. /\ Len(sent) \in Nat /\ Offset \in Nat /\ serial \in Nat
      /\ \A j \in 1..Len(sent) :
           sent[j].req \in Nat /\ sent[j].i \in Nat /\ sent[j].len \in Nat
  BY Zenon, SentFields
<1>2. /\ \A j \in 1..Len(sent) : sent[j].req <= serial
      /\ \A j, m \in 1..Len(sent) : j < m => Before(sent[j], sent[m])
      /\ \A j \in 1..Len(sent) : sent[j].req = serial => sent[j].i <= Offset
  BY Zenon DEF OrderInv, SentInv, Writing
<1>3. ASSUME NEW j \in 1..Len(sent')
      PROVE  \/ j \in 1..Len(sent) /\ sent'[j] = sent[j]
             \/ /\ j - Len(sent) \in 1..k
                /\ sent'[j].req = serial /\ sent'[j].i = Offset + (j - Len(sent))
  <2>1. CASE j <= Len(sent)
    BY <1>1, <2>1
  <2>2. CASE j > Len(sent)
    <3>1. j - Len(sent) \in 1..k /\ Len(sent) + (j - Len(sent)) = j
      BY <1>1, <2>2
    <3>2. sent'[Len(sent) + (j - Len(sent))] =
            [req |-> serial, i |-> Offset + (j - Len(sent)), len |-> HeadLen + bodyLen]
      BY Zenon, <3>1
    <3> QED BY <3>1, <3>2
  <2> QED BY <1>1, <2>1, <2>2
<1>4. \A j \in 1..Len(sent') : sent'[j].req <= serial
  BY <1>1, <1>2, <1>3
<1>5. \A j \in 1..Len(sent') : sent'[j].req = serial => sent'[j].i <= Offset + k
  <2> SUFFICES ASSUME NEW j \in 1..Len(sent'), sent'[j].req = serial
               PROVE  sent'[j].i <= Offset + k
    OBVIOUS
  <2>1. CASE j \in 1..Len(sent) /\ sent'[j] = sent[j]
    BY <1>1, <1>2, <2>1
  <2>2. CASE j - Len(sent) \in 1..k /\ sent'[j].i = Offset + (j - Len(sent))
    BY <1>1, <2>2
  <2> QED BY Zenon, <1>3, <2>1, <2>2
<1>6. ASSUME NEW j \in 1..Len(sent'), NEW m \in 1..Len(sent'), j < m
      PROVE  Before(sent'[j], sent'[m])
  <2>1. CASE m \in 1..Len(sent) /\ sent'[m] = sent[m]
    <3>1. j \in 1..Len(sent)
      BY <1>1, <1>6, <2>1
    <3> QED BY Zenon, <1>2, <1>6, <2>1, <3>1
  <2>2. CASE /\ m - Len(sent) \in 1..k
             /\ sent'[m].req = serial /\ sent'[m].i = Offset + (m - Len(sent))
    <3>1. CASE j \in 1..Len(sent) /\ sent'[j] = sent[j]
      BY <1>1, <1>2, <2>2, <3>1 DEF Before
    <3>2. CASE sent'[j].req = serial /\ sent'[j].i = Offset + (j - Len(sent))
      BY <1>1, <1>6, <2>2, <3>2 DEF Before
    <3> QED BY Zenon, <1>3, <3>1, <3>2
  <2> QED BY Zenon, <1>3, <2>1, <2>2
<1>7. RequestsInOrder'
  <2> SUFFICES ASSUME NEW j \in 1..Len(sent')
               PROVE  \/ sent'[j].i = 1 /\ (j = 1 \/ sent'[j - 1].i = sent'[j - 1].len)
                      \/ /\ j > 1
                         /\ sent'[j].req = sent'[j - 1].req
                         /\ sent'[j].i = sent'[j - 1].i + 1
    BY Zenon DEF RequestsInOrder
  <2>1. CASE j <= Len(sent)
    <3>1. j \in 1..Len(sent) /\ (j > 1 => j - 1 \in 1..Len(sent))
      BY <1>1, <2>1
    <3>2. sent'[j] = sent[j] /\ (j > 1 => sent'[j - 1] = sent[j - 1])
      BY Zenon, <3>1
    <3> QED BY <3>1, <3>2 DEF OrderInv, RequestsInOrder
  <2>2. CASE j = Len(sent) + 1
    <3>1. sent'[j].req = serial /\ sent'[j].i = Offset + 1
      BY <1>1, <1>3, <2>2
    <3>2. CASE Len(sent) = 0
      <4>1. Offset = 0
        BY <1>1, <3>2 DEF OrderInv, LastInv
      <4> QED BY <1>1, <2>2, <3>1, <3>2, <4>1
    <3>3. CASE Len(sent) > 0
      <4>1. j - 1 = Len(sent) /\ Len(sent) \in 1..Len(sent) /\ j > 1
        BY <1>1, <2>2, <3>3
      <4>2. sent'[j - 1] = sent[Len(sent)]
        BY Zenon, <4>1
      <4>3. CASE Offset > 0
        <5>1. sent[Len(sent)].req = serial /\ sent[Len(sent)].i = Offset
          BY <3>3, <4>3 DEF OrderInv, LastInv, RequestUnit
        <5> QED BY Zenon, <3>1, <4>1, <4>2, <5>1
      <4>4. CASE Offset = 0
        <5>1. sent[Len(sent)].i = sent[Len(sent)].len
          BY <1>1, <3>3, <4>4 DEF OrderInv, LastInv
        <5> QED BY <3>1, <4>2, <4>4, <5>1
      <4> QED BY <1>1, <4>3, <4>4
    <3> QED BY <1>1, <3>2, <3>3
  <2>3. CASE j > Len(sent) + 1
    <3>1. j - Len(sent) \in 1..k /\ (j - 1) - Len(sent) \in 1..k
      BY <1>1, <2>3
    <3>2. Len(sent) + (j - Len(sent)) = j /\ Len(sent) + ((j - 1) - Len(sent)) = j - 1 /\ j > 1
      BY <1>1, <2>3
    <3>a. sent'[Len(sent) + (j - Len(sent))] =
            [req |-> serial, i |-> Offset + (j - Len(sent)), len |-> HeadLen + bodyLen]
      BY Zenon, <3>1
    <3>b. sent'[Len(sent) + ((j - 1) - Len(sent))] =
            [req |-> serial, i |-> Offset + ((j - 1) - Len(sent)), len |-> HeadLen + bodyLen]
      BY Zenon, <3>1
    <3>3. /\ sent'[j].req = serial /\ sent'[j].i = Offset + (j - Len(sent))
          /\ sent'[j - 1].req = serial /\ sent'[j - 1].i = Offset + ((j - 1) - Len(sent))
      BY <3>2, <3>a, <3>b
    <3> QED BY <1>1, <3>2, <3>3
  <2> QED BY <1>1, <2>1, <2>2, <2>3
<1> QED BY Zenon, <1>4, <1>5, <1>6, <1>7
(* What has been written stays in order when a step leaves the request     *)
(* where it is.                                                            *)
LEMMA OrderSame ==
  ASSUME OrderInv, rcvd' <= Len(sent),
         UNCHANGED <<life, closed, state, txOff, bodyLen, resp, sent, serial>>
  PROVE  OrderInv'
BY DEF OrderInv, SentInv, LastInv, RequestsInOrder, Writing, Offset, Before

(* Also when the exchange is given up (sm_fail).                           *)
LEMMA OrderStops ==
  ASSUME OrderInv, Stops
  PROVE  OrderInv'
BY DEF OrderInv, SentInv, LastInv, RequestsInOrder, Before, Stops, SmFail, SmReset, count

(* Also while the answer is read and when its response is published.       *)
LEMMA OrderReading ==
  ASSUME OrderInv, UNCHANGED <<life, sent, rcvd, serial>>, ~closed' => ~closed,
         state \notin {"HANDSHAKE", "WRITE_HEAD", "WRITE_BODY"},
         state' \notin {"HANDSHAKE", "WRITE_HEAD", "WRITE_BODY"}
  PROVE  OrderInv'
BY DEF OrderInv, SentInv, LastInv, RequestsInOrder, Writing, Before

(* The end of the handshake finds nothing of the request written.          *)
LEMMA OrderHandshake ==
  ASSUME OrderInv, resp # NoResp, HandshakeDone
  PROVE  OrderInv'
<1>1. txOff = 0 /\ Offset = 0 /\ Offset' = 0 /\ ~Writing
  BY Zenon DEF OrderInv, SentInv, Offset, HandshakeDone, Writing
<1> QED BY <1>1 DEF OrderInv, SentInv, LastInv, RequestsInOrder, Before, HandshakeDone, net, count

(* A new request starts at its first unit (sm_begin, build_head).          *)
LEMMA OrderBegin ==
  ASSUME TypeOK, OrderInv, NEW r, NEW nb, NEW len, CallBegin(r, nb, len)
  PROVE  OrderInv'
<1>1. /\ UNCHANGED <<sent, rcvd, life, closed>> /\ serial' = serial + 1
      /\ resp = NoResp /\ txOff' = 0 /\ life = "open" /\ ~closed
      /\ state' \in {"HANDSHAKE", "WRITE_HEAD"}
  BY Zenon DEF CallBegin, net
<1>2. Offset' = 0 /\ ~Writing
  BY Zenon, <1>1 DEF Offset, Writing
<1>3. /\ Len(sent) \in Nat /\ serial \in Nat
      /\ \A j \in 1..Len(sent) : sent[j].req \in Nat /\ sent[j].req <= serial
  BY Zenon, SentFields DEF OrderInv, SentInv
<1>4. \A j \in 1..Len(sent) : sent[j].req <= serial + 1 /\ sent[j].req # serial + 1
  BY <1>3
<1>5. SentInv'
  BY <1>1, <1>4 DEF OrderInv, SentInv, Before
<1>6. LastInv'
  BY <1>1, <1>2 DEF OrderInv, LastInv
<1>7. RequestsInOrder'
  BY Zenon, <1>1 DEF OrderInv, RequestsInOrder
<1> QED BY Zenon, <1>5, <1>6, <1>7 DEF OrderInv

(* nb_write goes on where the request was left.                            *)
LEMMA OrderWrites ==
  ASSUME TypeOK, OrderInv, resp # NoResp, life = "open", ~closed,
         NEW k, WritesHead(k) \/ WritesBody(k)
  PROVE  OrderInv'
<1>1. Writing
  BY Zenon DEF Writing, WritesHead, WritesBody
<1>2. /\ k \in Nat /\ k >= 1
      /\ Len(sent') = Len(sent) + k
      /\ \A j \in 1..Len(sent) : sent'[j] = sent[j]
      /\ \A i \in 1..k : sent'[Len(sent) + i] =
           [req |-> serial, i |-> Offset + i, len |-> HeadLen + bodyLen]
  BY Zenon, WroteMore
<1>3. /\ \A j \in 1..Len(sent') : sent'[j].req <= serial
      /\ \A j, m \in 1..Len(sent') : j < m => Before(sent'[j], sent'[m])
      /\ \A j \in 1..Len(sent') : sent'[j].req = serial => sent'[j].i <= Offset + k
      /\ RequestsInOrder'
  BY Zenon, <1>1, <1>2, WroteInOrder
<1>4. UNCHANGED <<life, closed, resp, bodyLen, rcvd, serial>>
  BY Zenon DEF WritesHead, WritesBody, NbWrite, count
<1>5. \/ state' \in {"WRITE_HEAD", "WRITE_BODY"} /\ Offset' = Offset + k
      \/ state' = "READ_HEAD" /\ Offset + k = HeadLen + bodyLen
  <2>0. HeadLen \in Nat /\ bodyLen \in Nat /\ txOff \in Nat /\ k \in Nat
    BY Zenon, <1>2, SessionAssumption DEF TypeOK
  <2>1. CASE WritesHead(k)
    BY <2>0, <2>1 DEF WritesHead, Offset
  <2>2. CASE WritesBody(k)
    <3>1. /\ state = "WRITE_BODY" /\ txOff' = txOff + k
          /\ state' = IF txOff + k = bodyLen THEN "READ_HEAD" ELSE state
      BY Zenon, <2>2 DEF WritesBody
    <3> QED BY <2>0, <3>1 DEF Offset
  <2> QED BY Zenon, <2>1, <2>2
<1>6. /\ Len(sent) \in Nat /\ Len(sent') > 0 /\ rcvd <= Len(sent')
      /\ Offset \in Nat /\ Offset + k > 0
      /\ sent'[Len(sent')] = [req |-> serial, i |-> Offset + k, len |-> HeadLen + bodyLen]
  <2>1. Len(sent) \in Nat /\ rcvd \in Nat /\ Offset \in Nat /\ rcvd <= Len(sent)
    BY Zenon, SentFields DEF OrderInv, SentInv
  <2>2. k \in 1..k
    BY <1>2
  <2>3. sent'[Len(sent) + k] = [req |-> serial, i |-> Offset + k, len |-> HeadLen + bodyLen]
    BY Zenon, <1>2, <2>2
  <2>4. /\ Len(sent') = Len(sent) + k /\ Len(sent') > 0 /\ rcvd <= Len(sent')
        /\ Offset + k > 0
    BY <1>2, <2>1
  <2> QED BY Zenon, <2>1, <2>3, <2>4
<1>7. SentInv'
  BY Zenon, <1>3, <1>4, <1>5, <1>6 DEF SentInv
<1>8. LastInv'
  <2>1. CASE state' \in {"WRITE_HEAD", "WRITE_BODY"} /\ Offset' = Offset + k
    BY Zenon, <1>4, <1>6, <2>1 DEF LastInv, Writing, RequestUnit
  <2>2. CASE state' = "READ_HEAD" /\ Offset + k = HeadLen + bodyLen
    BY <1>6, <2>2 DEF LastInv, Writing
  <2> QED BY Zenon, <1>5, <2>1, <2>2
<1> QED BY Zenon, <1>3, <1>7, <1>8 DEF OrderInv
(* The order of the units is kept by every step.                           *)
LEMMA OrderInductive == SessionInv /\ OrderInv /\ [Next]_vars => OrderInv'
<1> SUFFICES ASSUME SessionInv, OrderInv, [Next]_vars PROVE OrderInv'
  OBVIOUS
<1>1. TypeOK /\ rcvd <= Len(sent)
  BY Zenon DEF SessionInv, OrderInv, SentInv
<1>2. CASE Caller
  <2>1. CASE Open
    <3>1. sent = <<>> /\ sent' = <<>> /\ rcvd' = rcvd /\ resp' = resp /\ resp = NoResp
      BY Zenon, <2>1 DEF Open, net, OrderInv, SentInv, SessionInv, OneRequest
    <3> QED BY <1>1, <3>1 DEF OrderInv, SentInv, LastInv, RequestsInOrder, Writing
  <2>2. CASE Close
    BY <2>2 DEF Close, OrderInv, SentInv, LastInv, RequestsInOrder, Writing
  <2>3. ASSUME NEW r \in Resps, NEW nb \in BOOLEAN, NEW len \in BodyLens, CallBegin(r, nb, len)
        PROVE  OrderInv'
    BY Zenon, <1>1, <2>3, OrderBegin
  <2>4. CASE UNCHANGED <<sess, net, serial>>
    BY Zenon, <1>1, <2>4, OrderSame DEF sess, net
  <2>5. \/ Open \/ Close \/ UNCHANGED <<sess, net, serial>>
        \/ \E r \in Resps, nb \in BOOLEAN, len \in BodyLens : CallBegin(r, nb, len)
    BY Zenon, <1>2 DEF Caller, OpenDialFails, OpenTlsFails, CallClosed, CallResume, CallBusy,
                CallNotBegun, count
  <2> QED BY Zenon, <2>1, <2>2, <2>3, <2>4, <2>5
<1>3. CASE SmStep \/ SmFault
  <2>1. /\ call # "none" /\ resp # NoResp /\ life = "open" /\ ~closed
        /\ \/ Want \/ Stops \/ HandshakeDone \/ Reads \/ Drops \/ Takes \/ Publishes
           \/ \E k : WritesHead(k) \/ WritesBody(k)
    BY Zenon, <1>3, StepKinds
  <2>2. CASE Want
    BY Zenon, <1>1, <2>2, OrderSame DEF Want, sess, net, count
  <2>3. CASE Stops
    BY Zenon, <2>3, OrderStops
  <2>4. CASE HandshakeDone
    BY Zenon, <2>1, <2>4, OrderHandshake
  <2>5. CASE Reads \/ Drops
    BY <2>5, OrderReading DEF Reads, Drops, DropInterim, BodyStates, net, count
  <2>6. CASE Takes
    <3>1. PICK e \in 1..Len(rx) : TakeHead(e)
      BY Zenon, <2>6 DEF Takes
    <3>2. rx[e].fr \in Framing
      BY Zenon, UnitFields DEF SessionInv, TypeOK
    <3>3. state' \in BodyStates
      BY Zenon, <3>1, <3>2 DEF TakeHead, BodyState, Framing, BodyStates
    <3> QED BY Zenon, <2>6, <3>1, <3>3, OrderReading DEF Takes, TakeHead, BodyStates, net, count
  <2>7. CASE Publishes
    BY <2>7, OrderReading, Zenon
       DEF Publishes, PublishesCl, PublishesChunked, PublishesEof, Publish, net, count
  <2>8. ASSUME NEW k, WritesHead(k) \/ WritesBody(k) PROVE OrderInv'
    BY Zenon, <1>1, <2>1, <2>8, OrderWrites
  <2> QED BY Zenon, <2>1, <2>2, <2>3, <2>4, <2>5, <2>6, <2>7, <2>8
<1>4. CASE Server
  <2>1. SrvUnchanged /\ sent' = sent
    BY Zenon, <1>4, ServerFrame
  <2>2. rcvd' = rcvd \/ SrvRecv
    BY <1>4, Zenon DEF Server, SrvHandshake, SrvInterim, SrvAnswer, SrvBadHead, SrvSend,
                SrvExcess, SrvSecond, SrvUnasked, SrvClose
  <2>3. rcvd' <= Len(sent)
    <3>1. Len(sent) \in Nat /\ rcvd \in Nat
      BY Zenon, <1>1, SentFields
    <3> QED BY <1>1, <2>2, <3>1 DEF SrvRecv
  <2> QED BY Zenon, <2>1, <2>3, OrderSame DEF SrvUnchanged, sess, count
<1>5. CASE UNCHANGED vars
  BY Zenon, <1>1, <1>5, OrderSame DEF vars, sess, net, count
<1> QED BY Zenon, <1>2, <1>3, <1>4, <1>5 DEF Next

(* The order of the units is an invariant.                                 *)
LEMMA OrderInvHolds == Spec => []OrderInv
<1>1. Init => OrderInv
  BY DEF Init, Blank, Silent, OrderInv, SentInv, LastInv, RequestsInOrder, Writing
<1> QED BY <1>1, OrderInductive, SessionInvHolds, PTL DEF Spec

(* Whatever WANT_WRITE returns interrupt a request, nb_write hands each of *)
(* its units to the connection once and in order, and a new request only   *)
(* after the whole of the one before.                                      *)
THEOREM RequestsInOrderHolds == Spec => []RequestsInOrder
<1>1. OrderInv => RequestsInOrder
  BY Zenon DEF OrderInv
<1> QED BY <1>1, OrderInvHolds, PTL
-----------------------------------------------------------------------------
stream == rx \o s2c

NoFinal(s) == \A a \in 1..Len(s) : s[a].k # "f"

(* At most one final head, of an answer to request n.                      *)
OneAnswer(s, n) ==
  \A a \in 1..Len(s) : s[a].k = "f" =>
    s[a].req = n /\ \A b \in 1..Len(s) : s[b].k = "f" => a = b

(* The body of a response follows its head, in order and as far as it      *)
(* goes; it is whole as long as the server has not closed.                 *)
BodyAt(s, a, p) ==
  /\ \A i \in 1..Len(s) - a : i <= s[a].i => s[a + i] = Unit(s[a].req, "d", "cl", i)
  /\ s[a].fr = "chunked" /\ a + s[a].i + 1 <= Len(s) => s[a + s[a].i + 1].k # "d"
  /\ s[a].fr = "eof" => p = "closed" /\ Len(s) <= a + s[a].i
  /\ p = "open" => Len(s) >= a + s[a].i + (IF s[a].fr = "chunked" THEN 1 ELSE 0)

BodyFollows(s, p) == \A a \in 1..Len(s) : s[a].k = "f" => BodyAt(s, a, p)

(* t is what is left of s when something is taken off its front, and, if   *)
(* the server has closed, off its end.                                     *)
Left(t, s, p) ==
  \E m \in Nat :
    /\ Len(t) + m <= Len(s) /\ (p = "open" => Len(t) + m = Len(s))
    /\ \A j \in 1..Len(t) : t[j] = s[j + m]
-----------------------------------------------------------------------------
(* A concatenation, unit by unit.                                          *)
LEMMA ConcatUnits ==
  ASSUME NEW s \in Seq(Units), NEW t \in Seq(Units)
  PROVE  /\ s \o t \in Seq(Units) /\ Len(s) \in Nat /\ Len(t) \in Nat
         /\ Len(s \o t) = Len(s) + Len(t)
         /\ \A j \in 1..Len(s) : (s \o t)[j] = s[j]
         /\ \A j \in 1..Len(t) : (s \o t)[Len(s) + j] = t[j]
<1>1. Len(s) \in Nat /\ Len(t) \in Nat
  BY Zenon, LenProperties
<1>2. /\ s \o t \in Seq(Units)
      /\ Len(s \o t) = Len(s) + Len(t)
      /\ \A i \in 1..Len(s) + Len(t) :
           (s \o t)[i] = IF i <= Len(s) THEN s[i] ELSE t[i - Len(s)]
  BY Zenon, ConcatProperties
<1>3. \A j \in 1..Len(s) : j \in 1..Len(s) + Len(t) /\ j <= Len(s)
  BY <1>1
<1>4. \A j \in 1..Len(t) : /\ Len(s) + j \in 1..Len(s) + Len(t)
                           /\ ~(Len(s) + j <= Len(s)) /\ Len(s) + j - Len(s) = j
  BY <1>1
<1> QED BY <1>1, <1>2, <1>3, <1>4

(* What is left of a stream still holds what is left of its bodies, and    *)
(* one answer at most if it held one at most.                              *)
LEMMA LeftKeeps ==
  ASSUME NEW s \in Seq(Units), NEW t \in Seq(Units), NEW n, NEW p, NEW q,
         q \in {"open", "closed"}, q = "open" => p = "open", Left(t, s, q)
  PROVE  /\ OneAnswer(s, n) => OneAnswer(t, n)
         /\ BodyFollows(s, p) => BodyFollows(t, q)
         /\ NoFinal(s) => NoFinal(t)
<1>1. PICK m \in Nat :
        /\ Len(t) + m <= Len(s) /\ (q = "open" => Len(t) + m = Len(s))
        /\ \A j \in 1..Len(t) : t[j] = s[j + m]
  BY Zenon DEF Left
<1>2. Len(s) \in Nat /\ Len(t) \in Nat
  BY Zenon, LenProperties
<1>3. \A j \in 1..Len(t) : j + m \in 1..Len(s)
  BY <1>1, <1>2
<1>4. NoFinal(s) => NoFinal(t)
  BY Zenon, <1>1, <1>3 DEF NoFinal
<1>5. ASSUME OneAnswer(s, n) PROVE OneAnswer(t, n)
  <2> SUFFICES ASSUME NEW a \in 1..Len(t), t[a].k = "f"
               PROVE  t[a].req = n /\ \A b \in 1..Len(t) : t[b].k = "f" => a = b
    BY Zenon DEF OneAnswer
  <2>1. t[a].req = n
    BY Zenon, <1>1, <1>3, <1>5 DEF OneAnswer
  <2>2. ASSUME NEW b \in 1..Len(t), t[b].k = "f" PROVE a = b
    <3>1. a + m = b + m
      BY <1>1, <1>3, <1>5, <2>2, Zenon DEF OneAnswer
    <3> QED BY <3>1, <1>2
  <2> QED BY Zenon, <2>1, <2>2
<1>6. ASSUME BodyFollows(s, p) PROVE BodyFollows(t, q)
  <2> SUFFICES ASSUME NEW a \in 1..Len(t), t[a].k = "f"
               PROVE  BodyAt(t, a, q)
    BY Zenon DEF BodyFollows
  <2>1. BodyAt(s, a + m, p) /\ t[a] = s[a + m]
    BY Zenon, <1>1, <1>3, <1>6 DEF BodyFollows
  <2>2. t[a].i \in Nat
    BY Zenon, UnitFields
  <2>3. ASSUME NEW i \in 1..Len(t) - a, i <= t[a].i PROVE t[a + i] = Unit(t[a].req, "d", "cl", i)
    <3>1. a + i \in 1..Len(t) /\ i \in 1..Len(s) - (a + m) /\ (a + i) + m = (a + m) + i
      BY <1>1, <1>2
    <3> QED BY <1>1, <2>1, <2>3, <3>1, Zenon DEF BodyAt
  <2>4. ASSUME t[a].fr = "chunked", a + t[a].i + 1 <= Len(t)
        PROVE  t[a + t[a].i + 1].k # "d"
    <3>0. /\ Len(t) + m <= Len(s) /\ Len(s) \in Nat /\ Len(t) \in Nat /\ t[a].i \in Nat
          /\ a + t[a].i + 1 <= Len(t)
      BY Zenon, <1>1, <1>2, <2>2, <2>4
    <3>1. /\ a + t[a].i + 1 \in 1..Len(t)
          /\ (a + t[a].i + 1) + m = (a + m) + t[a].i + 1
          /\ (a + m) + t[a].i + 1 <= Len(s)
      BY <3>0
    <3> QED BY Zenon, <1>1, <2>1, <2>4, <3>1 DEF BodyAt
  <2>5. t[a].fr = "eof" => q = "closed" /\ Len(t) <= a + t[a].i
    BY <1>1, <1>2, <2>1, <2>2 DEF BodyAt
  <2>6. ASSUME q = "open"
        PROVE  Len(t) >= a + t[a].i + (IF t[a].fr = "chunked" THEN 1 ELSE 0)
    <3>1. Len(s) >= (a + m) + t[a].i + (IF t[a].fr = "chunked" THEN 1 ELSE 0)
      BY Zenon, <2>1, <2>6 DEF BodyAt
    <3> QED BY <1>1, <1>2, <2>2, <2>6, <3>1
  <2> QED BY Zenon, <2>3, <2>4, <2>5, <2>6 DEF BodyAt
<1> QED BY Zenon, <1>4, <1>5, <1>6

(* Units behind what an open connection carries change nothing about the   *)
(* bodies in front of them.                                                *)
LEMMA MoreBodies ==
  ASSUME NEW s \in Seq(Units), NEW u \in Seq(Units), NEW p,
         BodyFollows(s, "open"), BodyFollows(u, p)
  PROVE  BodyFollows(s \o u, p)
<1> DEFINE t == s \o u
<1>1. /\ t \in Seq(Units) /\ Len(s) \in Nat /\ Len(u) \in Nat /\ Len(t) = Len(s) + Len(u)
      /\ \A j \in 1..Len(s) : t[j] = s[j]
      /\ \A j \in 1..Len(u) : t[Len(s) + j] = u[j]
  BY Zenon, ConcatUnits
<1> HIDE DEF t
<1>2. ASSUME NEW a \in 1..Len(s), t[a].k = "f" PROVE BodyAt(t, a, p)
  <2>1. s[a] = t[a] /\ BodyAt(s, a, "open")
    BY Zenon, <1>1, <1>2 DEF BodyFollows
  <2>2. s[a].i \in Nat
    BY Zenon, <2>1, UnitFields
  <2>3. /\ Len(s) >= a + s[a].i + (IF s[a].fr = "chunked" THEN 1 ELSE 0)
        /\ s[a].fr # "eof"
    BY Zenon, <2>1 DEF BodyAt
  <2>4. ASSUME NEW i \in 1..Len(t) - a, i <= t[a].i
        PROVE  t[a + i] = Unit(t[a].req, "d", "cl", i)
    <3>1. i <= s[a].i /\ i \in Nat
      BY <1>1, <2>1, <2>4
    <3>2. i \in 1..Len(s) - a /\ a + i \in 1..Len(s)
      BY <1>1, <2>1, <2>2, <2>3, <3>1
    <3> QED BY <1>1, <2>1, <3>1, <3>2, Zenon DEF BodyAt
  <2>5. ASSUME t[a].fr = "chunked" PROVE t[a + t[a].i + 1].k # "d"
    <3>1. a + s[a].i + 1 \in 1..Len(s) /\ s[a].fr = "chunked"
      BY <1>1, <2>1, <2>2, <2>3, <2>5
    <3>2. a + s[a].i + 1 <= Len(s)
      BY <1>1, <3>1
    <3>3. s[a + s[a].i + 1].k # "d"
      BY Zenon, <2>1, <3>1, <3>2 DEF BodyAt
    <3> QED BY Zenon, <1>1, <2>1, <3>1, <3>3
  <2>6. Len(t) >= a + t[a].i + (IF t[a].fr = "chunked" THEN 1 ELSE 0)
    BY <1>1, <2>1, <2>2, <2>3
  <2> QED BY Zenon, <2>1, <2>3, <2>4, <2>5, <2>6 DEF BodyAt
<1>3. ASSUME NEW c \in 1..Len(u), t[Len(s) + c].k = "f" PROVE BodyAt(t, Len(s) + c, p)
  <2> DEFINE a == Len(s) + c
  <2>1. t[a] = u[c] /\ BodyAt(u, c, p)
    BY Zenon, <1>1, <1>3 DEF BodyFollows
  <2>2. u[c].i \in Nat
    BY Zenon, UnitFields
  <2>3. ASSUME NEW i \in 1..Len(t) - a, i <= t[a].i
        PROVE  t[a + i] = Unit(t[a].req, "d", "cl", i)
    <3>1. i \in 1..Len(u) - c /\ c + i \in 1..Len(u) /\ Len(s) + (c + i) = a + i
      BY <1>1
    <3> QED BY <1>1, <2>1, <2>3, <3>1, Zenon DEF BodyAt
  <2>4. ASSUME t[a].fr = "chunked", a + t[a].i + 1 <= Len(t)
        PROVE  t[a + t[a].i + 1].k # "d"
    <3>0. a + u[c].i + 1 <= Len(t) /\ u[c].fr = "chunked"
      BY Zenon, <2>1, <2>4
    <3>1. /\ c + u[c].i + 1 \in 1..Len(u) /\ c + u[c].i + 1 <= Len(u)
          /\ Len(s) + (c + u[c].i + 1) = a + u[c].i + 1
      BY <1>1, <2>2, <3>0
    <3>2. u[c + u[c].i + 1].k # "d"
      BY Zenon, <2>1, <3>0, <3>1 DEF BodyAt
    <3> QED BY Zenon, <1>1, <2>1, <3>1, <3>2
  <2>5. t[a].fr = "eof" => p = "closed" /\ Len(t) <= a + t[a].i
    <3>1. u[c].fr = "eof" => p = "closed" /\ Len(u) <= c + u[c].i
      BY Zenon, <2>1 DEF BodyAt
    <3> QED BY <1>1, <2>1, <2>2, <3>1
  <2>6. p = "open" => Len(t) >= a + t[a].i + (IF t[a].fr = "chunked" THEN 1 ELSE 0)
    <3>1. p = "open" => Len(u) >= c + u[c].i + (IF u[c].fr = "chunked" THEN 1 ELSE 0)
      BY Zenon, <2>1 DEF BodyAt
    <3> QED BY <1>1, <2>1, <2>2, <3>1
  <2> HIDE DEF a
  <2>7. BodyAt(t, a, p)
    BY Zenon, <2>3, <2>4, <2>5, <2>6 DEF BodyAt
  <2> QED BY Zenon, <2>7 DEF a
<1>4. \A a \in 1..Len(t) : a \in 1..Len(s) \/ \E c \in 1..Len(u) : a = Len(s) + c
  <2> SUFFICES ASSUME NEW a \in 1..Len(t), a \notin 1..Len(s)
               PROVE  \E c \in 1..Len(u) : a = Len(s) + c
    BY Zenon
  <2>1. a - Len(s) \in 1..Len(u) /\ a = Len(s) + (a - Len(s))
    BY <1>1
  <2> QED BY Zenon, <2>1
<1>5. BodyFollows(t, p)
  BY Zenon, <1>2, <1>3, <1>4 DEF BodyFollows
<1> QED BY Zenon, <1>5 DEF t

(* Units without a final head, behind a stream, change nothing about the   *)
(* answer in front of them.                                                *)
LEMMA MoreKeeps ==
  ASSUME NEW s \in Seq(Units), NEW u \in Seq(Units), NEW n, NoFinal(u), OneAnswer(s, n)
  PROVE  /\ OneAnswer(s \o u, n)
         /\ NoFinal(s) => NoFinal(s \o u)
<1> DEFINE t == s \o u
<1>1. /\ t \in Seq(Units) /\ Len(s) \in Nat /\ Len(u) \in Nat /\ Len(t) = Len(s) + Len(u)
      /\ \A j \in 1..Len(s) : t[j] = s[j]
      /\ \A j \in 1..Len(u) : t[Len(s) + j] = u[j]
  BY Zenon, ConcatUnits
<1> HIDE DEF t
<1>2. ASSUME NEW a \in 1..Len(t), t[a].k = "f"
      PROVE  a \in 1..Len(s) /\ s[a] = t[a]
  <2>1. CASE a \in 1..Len(s)
    BY Zenon, <1>1, <2>1
  <2>2. CASE a \notin 1..Len(s)
    <3>1. a - Len(s) \in 1..Len(u) /\ Len(s) + (a - Len(s)) = a
      BY <1>1, <2>2
    <3> QED BY <1>1, <1>2, <3>1, Zenon DEF NoFinal
  <2> QED BY Zenon, <2>1, <2>2
<1>3. OneAnswer(t, n)
  BY Zenon, <1>2 DEF OneAnswer
<1>4. NoFinal(s) => NoFinal(t)
  BY Zenon, <1>2 DEF NoFinal
<1> QED BY Zenon, <1>3, <1>4 DEF t

(* The units of a response: headers, the final head, the body, and for a   *)
(* chunked body what ends it.                                              *)
ResponseLike(w, n, h, fr, len, z) ==
  /\ w \in Seq(Units)
  /\ Len(w) = h + 1 + len + (IF fr = "chunked" THEN 1 ELSE 0)
  /\ \A j \in 1..h : w[j].k = "h"
  /\ w[h + 1] = Unit(n, "f", fr, len)
  /\ \A i \in 1..len : w[h + 1 + i] = Unit(n, "d", "cl", i)
  /\ fr = "chunked" => w[h + 1 + len + 1] = Unit(n, z, "cl", 0)

(* It has one final head, at unit h + 1.                                   *)
LEMMA ResponseShape ==
  ASSUME NEW n \in Nat, NEW h \in Nat, NEW fr \in Framing, NEW len \in Nat,
         NEW z \in {"z", "b"}, NEW w, w = Response(n, h, fr, len, z)
  PROVE  ResponseLike(w, n, h, fr, len, z)
<1> DEFINE f  == <<Unit(n, "f", fr, len)>>
           e  == IF fr = "chunked" THEN <<Unit(n, z, "cl", 0)>> ELSE <<>>
           hf == Header(n, h) \o f
           hb == hf \o Body(n, len)
           u  == hb \o e
<1>1. /\ Unit(n, "f", fr, len) \in Units /\ Unit(n, z, "cl", 0) \in Units
  BY Zenon, UnitType DEF Framing
<1>2. f \in Seq(Units) /\ Len(f) = 1 /\ f[1] = Unit(n, "f", fr, len)
  BY <1>1
<1>3. /\ e \in Seq(Units) /\ Len(e) = (IF fr = "chunked" THEN 1 ELSE 0)
      /\ fr = "chunked" => e[1] = Unit(n, z, "cl", 0)
  BY <1>1
<1>4. /\ Header(n, h) \in Seq(Units) /\ Len(Header(n, h)) = h
      /\ \A j \in 1..h : Header(n, h)[j].k = "h"
  <2>1. \A j \in 1..h : Header(n, h)[j] = Unit(n, "h", "cl", j)
    BY Zenon DEF Header
  <2>2. \A j \in 1..h : Unit(n, "h", "cl", j).k = "h"
    BY Zenon DEF Unit
  <2> QED BY Zenon, <2>1, <2>2, HeaderType
<1>5. /\ Body(n, len) \in Seq(Units) /\ Len(Body(n, len)) = len
      /\ \A j \in 1..len : Body(n, len)[j] = Unit(n, "d", "cl", j)
  <2>1. \A j \in 1..len : Body(n, len)[j] = Unit(n, "d", "cl", j)
    BY Zenon DEF Body
  <2> QED BY Zenon, <2>1, BodyType
<1> HIDE DEF f, e
<1>6. /\ hf \in Seq(Units) /\ Len(hf) = h + 1
      /\ \A j \in 1..h : hf[j].k = "h"
      /\ hf[h + 1] = Unit(n, "f", fr, len)
  <2>1. /\ hf \in Seq(Units) /\ Len(hf) = Len(Header(n, h)) + Len(f)
        /\ \A j \in 1..Len(Header(n, h)) : hf[j] = Header(n, h)[j]
        /\ \A j \in 1..Len(f) : hf[Len(Header(n, h)) + j] = f[j]
    BY <1>2, <1>4, ConcatUnits, Zenon
  <2> HIDE DEF hf
  <2> QED BY <2>1, <1>2, <1>4
<1> HIDE DEF hf
<1>7. /\ hb \in Seq(Units) /\ Len(hb) = h + 1 + len
      /\ \A j \in 1..h + 1 : hb[j] = hf[j]
      /\ \A j \in 1..len : hb[h + 1 + j] = Unit(n, "d", "cl", j)
  <2>1. /\ hb \in Seq(Units) /\ Len(hb) = Len(hf) + Len(Body(n, len))
        /\ \A j \in 1..Len(hf) : hb[j] = hf[j]
        /\ \A j \in 1..Len(Body(n, len)) : hb[Len(hf) + j] = Body(n, len)[j]
    BY <1>5, <1>6, ConcatUnits, Zenon
  <2> HIDE DEF hb
  <2> QED BY Zenon, <2>1, <1>5, <1>6
<1> HIDE DEF hb
<1>8. /\ u \in Seq(Units)
      /\ Len(u) = h + 1 + len + Len(e)
      /\ \A j \in 1..h + 1 + len : u[j] = hb[j]
      /\ \A j \in 1..Len(e) : u[h + 1 + len + j] = e[j]
  <2>1. /\ u \in Seq(Units) /\ Len(u) = Len(hb) + Len(e)
        /\ \A j \in 1..Len(hb) : u[j] = hb[j]
        /\ \A j \in 1..Len(e) : u[Len(hb) + j] = e[j]
    BY <1>3, <1>7, ConcatUnits, Zenon
  <2> HIDE DEF u
  <2> QED BY Zenon, <1>7, <2>1
<1>9. /\ \A j \in 1..h : u[j].k = "h"
      /\ u[h + 1] = Unit(n, "f", fr, len)
      /\ \A i \in 1..len : u[h + 1 + i] = Unit(n, "d", "cl", i)
  <2>1. \A j \in 1..h : j \in 1..h + 1 + len /\ j \in 1..h + 1
    OBVIOUS
  <2>2. h + 1 \in 1..h + 1 + len /\ h + 1 \in 1..h + 1
    OBVIOUS
  <2>3. \A i \in 1..len : h + 1 + i \in 1..h + 1 + len
    OBVIOUS
  <2> QED BY Zenon, <1>6, <1>7, <1>8, <2>1, <2>2, <2>3
<1>10. fr = "chunked" => u[h + 1 + len + 1] = Unit(n, z, "cl", 0)
  BY <1>3, <1>8
<1>11. w = u
  BY Zenon DEF Response, u, hb, hf, f, e
<1> HIDE DEF u
<1> QED BY Zenon, <1>3, <1>8, <1>9, <1>10, <1>11 DEF ResponseLike

(* A response behind a stream that holds none.                             *)
LEMMA AnswerArrives ==
  ASSUME NEW s \in Seq(Units), NoFinal(s), NEW n \in Nat,
         NEW h \in Nat, NEW fr \in Framing, NEW len \in Nat, NEW z \in {"z", "b"},
         NEW p, fr = "eof" => p = "closed"
  PROVE  LET t == s \o Response(n, h, fr, len, z) IN
         OneAnswer(t, n) /\ BodyFollows(t, p)
<1> DEFINE u == Response(n, h, fr, len, z)
           t == s \o u
           a == Len(s) + h + 1
<1>w. u = Response(n, h, fr, len, z)
  OBVIOUS
<1> HIDE DEF u
<1>1. /\ u \in Seq(Units)
      /\ Len(u) = h + 1 + len + (IF fr = "chunked" THEN 1 ELSE 0)
      /\ \A j \in 1..h : u[j].k = "h"
      /\ u[h + 1] = Unit(n, "f", fr, len)
      /\ \A i \in 1..len : u[h + 1 + i] = Unit(n, "d", "cl", i)
      /\ fr = "chunked" => u[h + 1 + len + 1] = Unit(n, z, "cl", 0)
  <2>1. ResponseLike(u, n, h, fr, len, z)
    BY Zenon, <1>w, ResponseShape
  <2> QED BY Zenon, <2>1 DEF ResponseLike
<1>2. /\ t \in Seq(Units) /\ Len(s) \in Nat /\ Len(u) \in Nat /\ Len(t) = Len(s) + Len(u)
      /\ \A j \in 1..Len(s) : t[j] = s[j]
      /\ \A j \in 1..Len(u) : t[Len(s) + j] = u[j]
  BY <1>1, ConcatUnits, Zenon
<1> HIDE DEF t
<1>0. /\ Len(s) \in Nat /\ Len(u) = h + 1 + len + (IF fr = "chunked" THEN 1 ELSE 0)
      /\ Len(t) = Len(s) + Len(u)
  BY Zenon, <1>1, <1>2
<1>3. /\ Unit(n, "f", fr, len).k = "f" /\ Unit(n, "f", fr, len).req = n
      /\ Unit(n, "f", fr, len).fr = fr /\ Unit(n, "f", fr, len).i = len
      /\ \A i : Unit(n, "d", "cl", i).k = "d"
      /\ Unit(n, z, "cl", 0).k = z
  BY Zenon DEF Unit
<1>4. t[a] = Unit(n, "f", fr, len)
  <2>1. h + 1 \in 1..Len(u) /\ Len(s) + (h + 1) = a
    BY <1>0
  <2> QED BY Zenon, <1>1, <1>2, <2>1
<1>5. \A i \in 1..len : t[a + i] = Unit(n, "d", "cl", i)
  <2>1. \A i \in 1..len : h + 1 + i \in 1..Len(u) /\ Len(s) + (h + 1 + i) = a + i
    BY <1>0
  <2> QED BY Zenon, <1>1, <1>2, <2>1
<1>6. fr = "chunked" => t[a + len + 1] = Unit(n, z, "cl", 0)
  <2>1. fr = "chunked" => /\ h + 1 + len + 1 \in 1..Len(u)
                          /\ Len(s) + (h + 1 + len + 1) = a + len + 1
    BY <1>0
  <2> QED BY Zenon, <1>1, <1>2, <2>1
<1>7. ASSUME NEW b \in 1..Len(t), t[b].k = "f" PROVE b = a
  <2>1. CASE b \in 1..Len(s)
    BY Zenon, <1>2, <1>7, <2>1 DEF NoFinal
  <2>2. CASE b \in Len(s) + 1..Len(s) + h
    <3>1. b - Len(s) \in 1..h /\ b - Len(s) \in 1..Len(u) /\ Len(s) + (b - Len(s)) = b
      BY <1>0, <2>2
    <3> QED BY Zenon, <1>1, <1>2, <1>7, <3>1
  <2>3. CASE b \in a + 1..a + len
    <3>1. b - a \in 1..len /\ a + (b - a) = b
      BY <1>2, <2>3
    <3> QED BY Zenon, <1>3, <1>5, <1>7, <3>1
  <2>4. CASE b = a + len + 1 /\ fr = "chunked"
    BY Zenon, <1>3, <1>6, <1>7, <2>4
  <2>5. \/ b \in 1..Len(s) \/ b \in Len(s) + 1..Len(s) + h \/ b = a
        \/ b \in a + 1..a + len \/ (b = a + len + 1 /\ fr = "chunked")
    BY <1>0
  <2> QED BY Zenon, <2>1, <2>2, <2>3, <2>4, <2>5
<1>8. OneAnswer(t, n)
  BY Zenon, <1>3, <1>4, <1>7 DEF OneAnswer
<1>9. BodyAt(t, a, p)
  <2>1. t[a].i = len /\ t[a].fr = fr /\ t[a].req = n
    BY Zenon, <1>3, <1>4
  <2>2. Len(t) = a + len + (IF fr = "chunked" THEN 1 ELSE 0)
    BY <1>0
  <2>3. fr = "chunked" => t[a + len + 1].k # "d"
    BY Zenon, <1>3, <1>6
  <2>4. \A i \in 1..Len(t) - a : i <= len => t[a + i] = Unit(n, "d", "cl", i)
    <3>1. \A i \in 1..Len(t) - a : i <= len => i \in 1..len
      BY <1>2
    <3> QED BY Zenon, <1>5, <3>1
  <2>5. /\ fr = "eof" => Len(t) <= a + len
        /\ Len(t) >= a + len + (IF fr = "chunked" THEN 1 ELSE 0)
    BY <1>2, <2>2
  <2> HIDE DEF a
  <2> QED BY Zenon, <2>1, <2>3, <2>4, <2>5 DEF BodyAt
<1>10. BodyFollows(t, p)
  BY Zenon, <1>7, <1>9 DEF BodyFollows
<1> QED BY Zenon, <1>w, <1>8, <1>10 DEF t

(* A response is followed by its body.                                     *)
LEMMA ResponseBody ==
  ASSUME NEW n \in Nat, NEW h \in Nat, NEW fr \in Framing, NEW len \in Nat,
         NEW z \in {"z", "b"}, NEW p, fr = "eof" => p = "closed"
  PROVE  BodyFollows(Response(n, h, fr, len, z), p)
<1>1. <<>> \in Seq(Units) /\ NoFinal(<<>>)
  BY DEF NoFinal
<1>2. Response(n, h, fr, len, z) \in Seq(Units)
  BY Zenon, ResponseType
<1>3. <<>> \o Response(n, h, fr, len, z) = Response(n, h, fr, len, z)
  BY Zenon, <1>2, ConcatEmptySeq
<1>4. BodyFollows(<<>> \o Response(n, h, fr, len, z), p)
  BY Zenon, <1>1, AnswerArrives
<1> QED BY Zenon, <1>3, <1>4
-----------------------------------------------------------------------------
(* What the steps of a call leave of the stream.                           *)

(* Something taken off the front of a stream.                              *)
LEMMA LeftFront ==
  ASSUME NEW p \in Seq(Units), NEW t \in Seq(Units), NEW q
  PROVE  Left(t, p \o t, q)
<1>1. /\ Len(p) \in Nat /\ Len(t) \in Nat /\ Len(p \o t) = Len(p) + Len(t)
      /\ \A j \in 1..Len(t) : (p \o t)[Len(p) + j] = t[j]
  BY Zenon, ConcatUnits
<1>2. Len(t) + Len(p) = Len(p \o t)
  BY <1>1
<1>3. \A j \in 1..Len(t) : j + Len(p) = Len(p) + j
  BY <1>1
<1>4. \A j \in 1..Len(t) : t[j] = (p \o t)[j + Len(p)]
  BY Zenon, <1>1, <1>3
<1>5. Len(t) + Len(p) <= Len(p \o t)
  BY <1>1, <1>2
<1> QED BY Zenon, <1>1, <1>2, <1>4, <1>5 DEF Left

(* Something lost off its end when the server closes.                      *)
LEMMA LeftBack ==
  ASSUME NEW t \in Seq(Units), NEW r \in Seq(Units)
  PROVE  Left(t, t \o r, "closed")
<1>1. /\ Len(t) \in Nat /\ Len(r) \in Nat /\ Len(t \o r) = Len(t) + Len(r)
      /\ \A j \in 1..Len(t) : (t \o r)[j] = t[j]
  BY Zenon, ConcatUnits
<1>2. Len(t) + 0 <= Len(t \o r) /\ \A j \in 1..Len(t) : j + 0 = j
  BY <1>1
<1> QED BY <1>1, <1>2 DEF Left

(* A sequence is its first k elements and the rest.                        *)
LEMMA Split ==
  ASSUME NEW s \in Seq(Units), NEW k \in 0..Len(s)
  PROVE  /\ SubSeq(s, 1, k) \in Seq(Units) /\ SubSeq(s, k + 1, Len(s)) \in Seq(Units)
         /\ SubSeq(s, 1, k) \o SubSeq(s, k + 1, Len(s)) = s
<1>1. Len(s) \in Nat /\ k \in Nat
  BY LenProperties
<1>2. SubSeq(s, 1, k) \in Seq(Units) /\ SubSeq(s, k + 1, Len(s)) \in Seq(Units)
  BY <1>1
<1>3. 1 \in 1..Len(s) + 1 /\ k \in 1 - 1..Len(s) /\ Len(s) \in k..Len(s)
  BY <1>1
<1>4. SubSeq(s, 1, k) \o SubSeq(s, k + 1, Len(s)) = SubSeq(s, 1, Len(s))
  BY <1>3, ConcatAdjacentSubSeq, Zenon
<1> QED BY <1>2, <1>4, SubSeqFull, Zenon

(* Concatenation is associative.                                           *)
LEMMA Associative ==
  ASSUME NEW s \in Seq(Units), NEW t \in Seq(Units), NEW u \in Seq(Units)
  PROVE  (s \o t) \o u = s \o (t \o u)
BY ConcatAssociative

(* nb_read_some moves units within the stream.                             *)
LEMMA StreamReads ==
  ASSUME TypeOK, Reads
  PROVE  stream' = stream
<1>1. PICK k \in 1..Len(s2c) : /\ rx' = rx \o SubSeq(s2c, 1, k)
                               /\ s2c' = SubSeq(s2c, k + 1, Len(s2c))
  BY Zenon DEF Reads
<1>2. rx \in Seq(Units) /\ s2c \in Seq(Units) /\ k \in 0..Len(s2c)
  BY DEF TypeOK
<1> DEFINE a == SubSeq(s2c, 1, k)
           b == SubSeq(s2c, k + 1, Len(s2c))
<1>3. a \in Seq(Units) /\ b \in Seq(Units) /\ a \o b = s2c
  BY Zenon, <1>2, Split
<1> HIDE DEF a, b
<1>a. rx \in Seq(Units) /\ a \in Seq(Units) /\ b \in Seq(Units)
  BY Zenon, <1>2, <1>3
<1>4. (rx \o a) \o b = rx \o (a \o b)
  BY ONLY Zenon, <1>a, Associative
<1> QED BY <1>1, <1>3, <1>4, Zenon DEF stream, a, b

(* A dropped interim block comes off its front.                            *)
LEMMA StreamDrops ==
  ASSUME TypeOK, Drops
  PROVE  stream' \in Seq(Units) /\ Left(stream', stream, peer)
<1>1. PICK e \in 1..Len(rx) : rx' = SubSeq(rx, e + 1, Len(rx)) /\ s2c' = s2c
  BY Zenon DEF Drops, DropInterim, net
<1>2. rx \in Seq(Units) /\ s2c \in Seq(Units) /\ e \in 0..Len(rx)
  BY DEF TypeOK
<1> DEFINE a == SubSeq(rx, 1, e)
           b == SubSeq(rx, e + 1, Len(rx))
<1>3. a \in Seq(Units) /\ b \in Seq(Units) /\ a \o b = rx
  BY Zenon, <1>2, Split
<1>4. stream' = b \o s2c
  BY Zenon, <1>1 DEF stream
<1> HIDE DEF a, b
<1>a. s2c \in Seq(Units) /\ a \in Seq(Units) /\ b \in Seq(Units)
  BY Zenon, <1>2, <1>3
<1>b. (a \o b) \o s2c = a \o (b \o s2c)
  BY ONLY Zenon, <1>a, Associative
<1>c. b \o s2c \in Seq(Units)
  BY ONLY Zenon, <1>a, ConcatUnits
<1>5. (a \o b) \o s2c = a \o (b \o s2c) /\ b \o s2c \in Seq(Units)
  BY Zenon, <1>b, <1>c
<1>6. stream = a \o (b \o s2c)
  BY Zenon, <1>3, <1>5 DEF stream
<1>7. Left(b \o s2c, a \o (b \o s2c), peer)
  BY <1>3, <1>5, LeftFront, Zenon
<1> QED BY Zenon, <1>4, <1>5, <1>6, <1>7

(* When an exchange ends the receive buffer does, and at most one unit more. *)
LEMMA StreamEnds ==
  ASSUME TypeOK, rx' = <<>>, s2c' = s2c \/ (s2c # <<>> /\ s2c' = Tail(s2c))
  PROVE  /\ stream' \in Seq(Units) /\ Left(stream', stream, peer)
         /\ s2c' = s2c => stream' = s2c
<1>1. rx \in Seq(Units) /\ s2c \in Seq(Units)
  BY Zenon DEF TypeOK
<1>2. CASE s2c' = s2c
  <2>1. stream' = s2c
    BY Zenon, <1>1, <1>2, ConcatEmptySeq DEF stream
  <2>2. Left(s2c, rx \o s2c, peer)
    BY Zenon, <1>1, LeftFront
  <2> QED BY Zenon, <1>1, <2>1, <2>2 DEF stream
<1>3. CASE s2c # <<>> /\ s2c' = Tail(s2c) /\ s2c' # s2c
  <2> DEFINE a == SubSeq(s2c, 1, 1)
             b == SubSeq(s2c, 1 + 1, Len(s2c))
  <2>1. Len(s2c) \in Nat /\ Len(s2c) # 0
    BY <1>1, <1>3
  <2>2. 1 \in 0..Len(s2c) /\ 1 + 1 = 2
    BY <2>1
  <2>3. a \in Seq(Units) /\ b \in Seq(Units) /\ a \o b = s2c
    BY Zenon, <1>1, <2>2, Split
  <2>4. Tail(s2c) = b
    BY Zenon, <1>1, <1>3, <2>2, TailIsSubSeq
  <2> HIDE DEF a, b
  <2>5. stream' = b
    BY Zenon, <1>3, <2>3, <2>4, ConcatEmptySeq DEF stream
  <2>a. rx \in Seq(Units) /\ a \in Seq(Units) /\ b \in Seq(Units)
    BY Zenon, <1>1, <2>3
  <2>6. rx \o (a \o b) = (rx \o a) \o b /\ rx \o a \in Seq(Units)
    BY ONLY <2>a, Associative, ConcatUnits
  <2>7. Left(b, (rx \o a) \o b, peer)
    BY <2>3, <2>6, LeftFront, Zenon
  <2> QED BY <1>3, <2>3, <2>5, <2>6, <2>7, Zenon DEF stream
<1> QED BY Zenon, <1>2, <1>3
-----------------------------------------------------------------------------
(* Responses.  Whatever the server sends, the bodies follow their heads.   *)
WholeInv == BodyFollows(stream, peer)

UnopenedInv == life = "none" => rcvd = 0 /\ owed = 0 /\ s2c = <<>> /\ ~closed

(* Answers.  As long as the server has sent nothing but answers: it owes   *)
(* one at most, to the newest request; the stream holds one at most, to a  *)
(* request whose head the server has read; and between two requests there  *)
(* is neither.                                                             *)
HeadRcvd == \E j \in 1..rcvd : sent[j].req = serial /\ sent[j].i = HeadLen

AllHeadsRcvd == \A j \in (rcvd + 1)..Len(sent) : sent[j].i # HeadLen

OneAnswerInv ==
  /\ owed # 0 => owed = serial /\ HeadRcvd /\ NoFinal(stream)
  /\ OneAnswer(stream, serial)
  /\ ~NoFinal(stream) => HeadRcvd
  /\ \A j \in (rcvd + 1)..Len(sent) : sent[j].i = HeadLen => sent[j].req = serial

AtRestInv ==
  life = "open" /\ resp = NoResp /\ ~closed => owed = 0 /\ NoFinal(stream) /\ AllHeadsRcvd

AnswerInv == OneAnswerInv /\ AtRestInv

ExchangeInv == WholeInv /\ UnopenedInv /\ (~AnsweredTwice => AnswerInv)

(* The stream is a sequence of units.                                      *)
LEMMA StreamType ==
  ASSUME TypeOK
  PROVE  stream \in Seq(Units)
BY Zenon, ConcatUnits DEF TypeOK, stream

(* A head that has been read is not still to be read.                      *)
LEMMA HeadOnce ==
  ASSUME TypeOK, OrderInv, HeadRcvd, NEW j \in (rcvd + 1)..Len(sent),
         sent[j].i = HeadLen
  PROVE  sent[j].req # serial
<1>1. PICK i \in 1..rcvd : sent[i].req = serial /\ sent[i].i = HeadLen
  BY Zenon DEF HeadRcvd
<1>2. rcvd \in Nat /\ Len(sent) \in Nat /\ rcvd <= Len(sent) /\ HeadLen \in Nat
  BY Zenon, SentFields, SessionAssumption DEF OrderInv, SentInv
<1>3. i \in 1..Len(sent) /\ j \in 1..Len(sent) /\ i < j
  BY <1>2
<1>4. Before(sent[i], sent[j])
  BY Zenon, <1>3 DEF OrderInv, SentInv
<1>5. serial \in Nat
  BY Zenon DEF TypeOK
<1> QED BY <1>1, <1>2, <1>4, <1>5 DEF Before

(* A step that only takes something off the stream.                        *)
LEMMA AnswerLeft ==
  ASSUME TypeOK, OneAnswerInv, stream' \in Seq(Units), Left(stream', stream, peer'),
         peer' \in {"open", "closed"}, peer' = "open" => peer = "open",
         UNCHANGED <<sent, rcvd, owed, serial>>
  PROVE  OneAnswerInv' /\ (NoFinal(stream) => NoFinal(stream'))
<1>1. OneAnswer(stream', serial) /\ (NoFinal(stream) => NoFinal(stream'))
  <2>1. stream \in Seq(Units) /\ OneAnswer(stream, serial)
    BY Zenon, StreamType DEF OneAnswerInv
  <2> HIDE DEF stream
  <2> QED BY Zenon, <2>1, LeftKeeps
<1>2. HeadRcvd' <=> HeadRcvd
  BY Zenon DEF HeadRcvd
<1> QED BY Zenon, <1>1, <1>2 DEF OneAnswerInv

(* A step that changes none of it.                                         *)
LEMMA AnswerSame ==
  ASSUME AnswerInv, stream' = stream, UNCHANGED <<sent, rcvd, owed, serial, life, resp, closed>>
  PROVE  AnswerInv'
<1>1. (HeadRcvd' <=> HeadRcvd) /\ (AllHeadsRcvd' <=> AllHeadsRcvd)
  BY Zenon DEF HeadRcvd, AllHeadsRcvd
<1> QED BY Zenon, <1>1 DEF AnswerInv, OneAnswerInv, AtRestInv

(* Nothing is owed and nothing is in the stream.                           *)
LEMMA AnswerNone ==
  ASSUME rx' = <<>>, s2c' = <<>>, sent' = <<>>, rcvd' = 0, owed' = 0, ~closed'
  PROVE  AnswerInv' /\ ExchangeInv'
<1>1. <<>> \in Seq(Units)
  OBVIOUS
<1>2. stream' = <<>>
  BY Zenon, <1>1, ConcatEmptySeq DEF stream
<1>3. Len(stream') = 0 /\ Len(sent') = 0
  BY Zenon, <1>2
<1>4. NoFinal(stream') /\ OneAnswer(stream', serial') /\ BodyFollows(stream', peer')
  BY <1>3 DEF NoFinal, OneAnswer, BodyFollows
<1>5. AnswerInv'
  BY <1>3, <1>4 DEF AnswerInv, OneAnswerInv, AtRestInv, AllHeadsRcvd
<1> QED BY Zenon, <1>4, <1>5 DEF ExchangeInv, WholeInv, UnopenedInv

(* A new request starts with nothing owed and no answer in the stream.     *)
LEMMA AnswerBegin ==
  ASSUME TypeOK, AnswerInv, NEW r \in Resps, NEW nb, NEW len, CallBegin(r, nb, len)
  PROVE  AnswerInv'
<1>1. /\ owed' = 0 /\ NoFinal(stream) /\ AllHeadsRcvd
      /\ UNCHANGED <<rx, s2c, sent, rcvd, peer, life>> /\ life = "open" /\ resp' = r
  BY Zenon DEF AnswerInv, AtRestInv, CallBegin, net
<1>2. stream' = stream
  BY Zenon, <1>1 DEF stream
<1>3. NoFinal(stream') /\ OneAnswer(stream', serial')
  BY Zenon, <1>1, <1>2 DEF NoFinal, OneAnswer
<1>4. \A j \in (rcvd' + 1)..Len(sent') : sent'[j].i # HeadLen
  BY Zenon, <1>1 DEF AllHeadsRcvd
<1> QED BY Zenon, <1>1, <1>3, <1>4, SessionAssumption DEF AnswerInv, OneAnswerInv, AtRestInv

(* The units nb_write adds are of the newest request.                      *)
LEMMA AnswerWrites ==
  ASSUME TypeOK, OrderInv, AnswerInv, resp # NoResp, life = "open", ~closed,
         NEW k, WritesHead(k) \/ WritesBody(k)
  PROVE  AnswerInv'
<1>1. UNCHANGED <<life, closed, resp, rx, s2c, rcvd, owed, peer, serial>>
  BY Zenon DEF WritesHead, WritesBody, NbWrite, count
<1>2. /\ k \in Nat /\ k >= 1
      /\ Len(sent') = Len(sent) + k
      /\ \A j \in 1..Len(sent) : sent'[j] = sent[j]
      /\ \A i \in 1..k : sent'[Len(sent) + i] =
           [req |-> serial, i |-> Offset + i, len |-> HeadLen + bodyLen]
  BY Zenon, WroteMore
<1>3. rcvd \in Nat /\ Len(sent) \in Nat /\ rcvd <= Len(sent)
  BY Zenon, SentFields DEF OrderInv, SentInv
<1>4. stream' = stream
  BY Zenon, <1>1 DEF stream
<1>5. HeadRcvd => HeadRcvd'
  <2>1. \A j \in 1..rcvd : j \in 1..Len(sent)
    BY <1>3
  <2> QED BY <1>1, <1>2, <2>1, Zenon DEF HeadRcvd
<1>6. ASSUME NEW j \in (rcvd' + 1)..Len(sent'), sent'[j].i = HeadLen
      PROVE  sent'[j].req = serial'
  <2>1. CASE j <= Len(sent)
    <3>1. j \in 1..Len(sent) /\ j \in (rcvd + 1)..Len(sent)
      BY <1>1, <1>3, <2>1
    <3> QED BY <1>1, <1>2, <1>6, <3>1 DEF AnswerInv, OneAnswerInv
  <2>2. CASE j > Len(sent)
    <3>0. /\ k \in Nat /\ Len(sent) \in Nat /\ Len(sent') = Len(sent) + k
          /\ rcvd' \in Nat
      BY Zenon, <1>1, <1>2, <1>3
    <3>1. j - Len(sent) \in 1..k /\ Len(sent) + (j - Len(sent)) = j
      BY <2>2, <3>0
    <3>2. sent'[Len(sent) + (j - Len(sent))] =
            [req |-> serial, i |-> Offset + (j - Len(sent)), len |-> HeadLen + bodyLen]
      BY Zenon, <1>2, <3>1
    <3> QED BY <1>1, <3>1, <3>2
  <2> QED BY <1>1, <1>3, <2>1, <2>2
<1> QED BY Zenon, <1>1, <1>4, <1>5, <1>6 DEF AnswerInv, OneAnswerInv, AtRestInv

(* The final head that starts the receive buffer is the only one: when its *)
(* response is published no other is left, none is owed, and the request's *)
(* head has been read.                                                     *)
LEMMA AnswerPublishes ==
  ASSUME SessionInv, OrderInv, AnswerInv, resp # NoResp, life = "open", Publishes
  PROVE  AnswerInv' /\ owed = 0 /\ rx[hdrEnd].req = serial
<1>1. TypeOK /\ hdrEnd \in 1..Len(rx) /\ rx[hdrEnd].k = "f"
  BY Zenon DEF SessionInv, ReceiveState, BodyStates, Publishes, PublishesCl, PublishesChunked, PublishesEof
<1>2. /\ rx' = <<>> /\ UNCHANGED <<life, sent, rcvd, owed, s2c, peer, serial>>
  BY Zenon DEF Publishes, PublishesCl, PublishesChunked, PublishesEof, Publish, net, count
<1>3. /\ rx \in Seq(Units) /\ s2c \in Seq(Units) /\ Len(rx) \in Nat /\ Len(s2c) \in Nat
      /\ stream \in Seq(Units) /\ Len(stream) = Len(rx) + Len(s2c)
      /\ \A j \in 1..Len(rx) : stream[j] = rx[j]
      /\ \A j \in 1..Len(s2c) : stream[Len(rx) + j] = s2c[j]
  BY Zenon, <1>1, ConcatUnits DEF TypeOK, stream
<1>4. hdrEnd \in 1..Len(stream) /\ stream[hdrEnd] = rx[hdrEnd]
  BY <1>1, <1>3
<1>5. ~NoFinal(stream)
  BY Zenon, <1>1, <1>4 DEF NoFinal
<1>6. owed = 0 /\ HeadRcvd
  BY Zenon, <1>5 DEF AnswerInv, OneAnswerInv
<1>7. rx[hdrEnd].req = serial /\ \A b \in 1..Len(stream) : stream[b].k = "f" => hdrEnd = b
  BY Zenon, <1>1, <1>4 DEF AnswerInv, OneAnswerInv, OneAnswer
<1>8. NoFinal(s2c)
  <2> SUFFICES ASSUME NEW a \in 1..Len(s2c), s2c[a].k = "f" PROVE FALSE
    BY Zenon DEF NoFinal
  <2>1. Len(rx) + a \in 1..Len(stream) /\ hdrEnd # Len(rx) + a
    BY <1>1, <1>3
  <2> QED BY Zenon, <1>3, <1>7, <2>1
<1>9. stream' \in Seq(Units) /\ Left(stream', stream, peer) /\ stream' = s2c
  BY Zenon, <1>1, <1>2, StreamEnds
<1>10. OneAnswerInv'
  <2>1. peer \in {"open", "closed"} /\ OneAnswerInv
    BY Zenon, <1>1 DEF TypeOK, AnswerInv
  <2> QED BY Zenon, <1>1, <1>2, <1>9, <2>1, AnswerLeft
<1>11. AllHeadsRcvd
  BY Zenon, <1>1, <1>6, HeadOnce DEF AllHeadsRcvd, AnswerInv, OneAnswerInv
<1>12. AllHeadsRcvd'
  BY Zenon, <1>2, <1>11 DEF AllHeadsRcvd
<1>13. AtRestInv'
  BY Zenon, <1>2, <1>6, <1>8, <1>9, <1>12 DEF AtRestInv
<1> QED BY Zenon, <1>6, <1>7, <1>10, <1>13 DEF AnswerInv
(* Units the server adds behind an open connection's stream.               *)
LEMMA StreamMore ==
  ASSUME TypeOK, NEW u \in Seq(Units), s2c' = s2c \o u, rx' = rx
  PROVE  stream' = stream \o u
<1>1. rx \in Seq(Units) /\ s2c \in Seq(Units) /\ u \in Seq(Units)
  BY Zenon DEF TypeOK
<1>2. (rx \o s2c) \o u = rx \o (s2c \o u)
  BY ONLY Zenon, <1>1, Associative
<1> QED BY Zenon, <1>2 DEF stream

(* What the server takes off its end when it closes.                       *)
LEMMA StreamCloses ==
  ASSUME TypeOK, SrvClose, rx' = rx
  PROVE  stream' \in Seq(Units) /\ Left(stream', stream, "closed")
<1>1. PICK k \in 0..Len(s2c) : s2c' = SubSeq(s2c, 1, k)
  BY Zenon DEF SrvClose
<1>2. rx \in Seq(Units) /\ s2c \in Seq(Units)
  BY Zenon DEF TypeOK
<1> DEFINE a == SubSeq(s2c, 1, k)
           b == SubSeq(s2c, k + 1, Len(s2c))
<1>3. a \in Seq(Units) /\ b \in Seq(Units) /\ a \o b = s2c
  BY <1>2, Split, Zenon
<1>4. stream' = rx \o a
  BY Zenon, <1>1 DEF stream
<1> HIDE DEF a, b
<1>5. rx \in Seq(Units) /\ a \in Seq(Units) /\ b \in Seq(Units)
  BY Zenon, <1>2, <1>3
<1>6. rx \o (a \o b) = (rx \o a) \o b /\ rx \o a \in Seq(Units)
  BY ONLY <1>5, Associative, ConcatUnits
<1>7. Left(rx \o a, (rx \o a) \o b, "closed")
  BY <1>3, <1>6, LeftBack, Zenon
<1> QED BY Zenon, <1>3, <1>4, <1>6, <1>7 DEF stream

(* A single unit that is not a final head.                                 *)
LEMMA OneUnit ==
  ASSUME NEW x \in Units, x.k # "f"
  PROVE  <<x>> \in Seq(Units) /\ NoFinal(<<x>>)
<1>1. <<x>> \in Seq(Units) /\ Len(<<x>>) = 1 /\ <<x>>[1] = x
  OBVIOUS
<1> QED BY <1>1 DEF NoFinal

(* An interim response has no final head.                                  *)
LEMMA InterimUnits ==
  ASSUME owed \in Nat, NEW h \in HdrLens
  PROVE  LET u == Header(owed, h) \o <<Unit(owed, "x", "cl", 0)>> IN
         u \in Seq(Units) /\ NoFinal(u)
<1> DEFINE e == <<Unit(owed, "x", "cl", 0)>>
           u == Header(owed, h) \o e
<1>2. h \in Nat
  BY Zenon, SessionAssumption
<1>3. e \in Seq(Units) /\ Len(e) = 1 /\ e[1].k = "x"
  <2>1. Unit(owed, "x", "cl", 0) \in Units
    BY Zenon, UnitType DEF Framing
  <2> QED BY <2>1 DEF Unit
<1>4. /\ Header(owed, h) \in Seq(Units) /\ Len(Header(owed, h)) = h
      /\ \A j \in 1..h : Header(owed, h)[j].k = "h"
  <2>1. \A j \in 1..h : Header(owed, h)[j] = Unit(owed, "h", "cl", j)
    BY Zenon DEF Header
  <2>2. \A j \in 1..h : Unit(owed, "h", "cl", j).k = "h"
    BY Zenon DEF Unit
  <2> QED BY Zenon, <1>2, <2>1, <2>2, HeaderType
<1> HIDE DEF e
<1>5. /\ u \in Seq(Units) /\ Len(u) = Len(Header(owed, h)) + Len(e)
      /\ \A j \in 1..Len(Header(owed, h)) : u[j] = Header(owed, h)[j]
      /\ \A j \in 1..Len(e) : u[Len(Header(owed, h)) + j] = e[j]
  BY <1>3, <1>4, ConcatUnits, Zenon
<1> HIDE DEF u
<1>6. NoFinal(u)
  <2> SUFFICES ASSUME NEW j \in 1..Len(u) PROVE u[j].k # "f"
    BY Zenon DEF NoFinal
  <2>1. j \in 1..h \/ j = h + 1
    BY <1>2, <1>3, <1>4, <1>5
  <2> QED BY <1>2, <1>3, <1>4, <1>5, <2>1
<1> QED BY Zenon, <1>5, <1>6 DEF u, e

(* Interim blocks, bad heads and stray units: no final head among them.    *)
LEMMA AnswerMore ==
  ASSUME TypeOK, AnswerInv, NEW u \in Seq(Units), NoFinal(u), s2c' = s2c \o u,
         owed' \in {0, owed}, UNCHANGED <<rx, sent, rcvd, serial, life, resp, closed>>
  PROVE  AnswerInv'
<1>1. stream' = stream \o u /\ stream \in Seq(Units)
  BY Zenon, StreamMore, StreamType
<1>2. OneAnswer(stream, serial)
  BY Zenon DEF AnswerInv, OneAnswerInv
<1>3. OneAnswer(stream', serial) /\ (NoFinal(stream) => NoFinal(stream'))
  <2> HIDE DEF stream
  <2> QED BY Zenon, <1>1, <1>2, MoreKeeps
<1>4. (HeadRcvd' <=> HeadRcvd) /\ (AllHeadsRcvd' <=> AllHeadsRcvd)
  BY Zenon DEF HeadRcvd, AllHeadsRcvd
<1>5. OneAnswerInv'
  BY Zenon, <1>3, <1>4 DEF AnswerInv, OneAnswerInv
<1>6. AtRestInv'
  BY Zenon, <1>3, <1>4 DEF AnswerInv, AtRestInv
<1> QED BY Zenon, <1>5, <1>6 DEF AnswerInv

(* Whatever the server does, it owes and sends one answer to a request,    *)
(* until it sends a second one.                                            *)
LEMMA AnswerServer ==
  ASSUME SessionInv, OrderInv, AnswerInv, Server
  PROVE  AnswerInv' \/ SrvSecond
<1>0. TypeOK /\ owed \in Nat /\ (owed # 0 => ~(life = "open" /\ resp = NoResp /\ ~closed))
  BY Zenon DEF SessionInv, TypeOK, AnswerInv, AtRestInv
<1>a. /\ UNCHANGED <<sent, rx, life, resp, closed, serial>>
  BY Zenon, ServerFrame DEF SrvUnchanged, sess, count
<1>1. CASE SrvHandshake
  <2>1. UNCHANGED <<rcvd, owed, s2c, peer>>
    BY Zenon, <1>1 DEF SrvHandshake
  <2> QED BY Zenon, <1>a, <2>1, AnswerSame DEF stream
<1>2. CASE SrvRecv
  <2>1. /\ rcvd \in Nat /\ Len(sent) \in Nat /\ rcvd' = rcvd + 1 /\ rcvd < Len(sent)
        /\ UNCHANGED <<s2c, peer>>
        /\ owed' = IF sent[rcvd + 1].i = HeadLen THEN sent[rcvd + 1].req ELSE owed
    BY Zenon, <1>0, <1>2, SentFields DEF SrvRecv
  <2>2. stream' = stream
    BY Zenon, <1>a, <2>1 DEF stream
  <2>3. HeadRcvd => HeadRcvd'
    <3>1. \A j \in 1..rcvd : j \in 1..rcvd'
      BY <2>1
    <3> QED BY Zenon, <1>a, <3>1 DEF HeadRcvd
  <2>4. rcvd + 1 \in (rcvd + 1)..Len(sent) /\ rcvd + 1 \in 1..rcvd'
    BY <2>1
  <2>5. \A j \in (rcvd' + 1)..Len(sent) : j \in (rcvd + 1)..Len(sent)
    BY <2>1
  <2>6. ASSUME sent[rcvd + 1].i = HeadLen
        PROVE  owed' = serial /\ HeadRcvd' /\ NoFinal(stream)
    <3>1. sent[rcvd + 1].req = serial
      BY Zenon, <2>4, <2>6 DEF AnswerInv, OneAnswerInv
    <3>2. HeadRcvd'
      BY Zenon, <1>a, <2>4, <2>6, <3>1 DEF HeadRcvd
    <3>3. ~HeadRcvd
      BY Zenon, <1>0, <2>4, <2>6, <3>1, HeadOnce
    <3> QED BY Zenon, <2>1, <2>6, <3>1, <3>2, <3>3 DEF AnswerInv, OneAnswerInv
  <2>7. OneAnswerInv'
    BY Zenon, <1>a, <2>1, <2>2, <2>3, <2>5, <2>6 DEF AnswerInv, OneAnswerInv
  <2>8. life = "open"
    BY <1>a, <2>1 DEF OrderInv, SentInv, SessionInv, TypeOK
  <2>9. AtRestInv'
    <3> SUFFICES ASSUME resp = NoResp, ~closed PROVE owed' = 0 /\ NoFinal(stream) /\ AllHeadsRcvd'
      BY Zenon, <1>a, <2>2, <2>8 DEF AtRestInv
    <3>1. owed = 0 /\ NoFinal(stream) /\ AllHeadsRcvd
      BY Zenon, <2>8 DEF AnswerInv, AtRestInv
    <3> QED BY Zenon, <1>a, <2>1, <2>4, <2>5, <3>1 DEF AllHeadsRcvd
  <2> QED BY Zenon, <2>7, <2>9 DEF AnswerInv
<1>3. CASE SrvInterim
  <2>1. PICK h \in HdrLens : /\ SrvSend(Header(owed, h) \o <<Unit(owed, "x", "cl", 0)>>)
                             /\ UNCHANGED <<owed, peer>>
    BY Zenon, <1>3 DEF SrvInterim
  <2>2. PICK u \in Seq(Units) : NoFinal(u) /\ SrvSend(u)
    BY Zenon, <1>0, <2>1, InterimUnits
  <2> QED BY <1>0, <1>a, <2>1, <2>2, AnswerMore, Zenon DEF SrvSend
<1>4. CASE SrvAnswer
  <2>1. PICK h \in HdrLens, fr \in Framing, n \in 0..(MaxBody + 1), z \in {"z", "b"} :
          SrvSend(Response(owed, h, fr, n, z)) /\ owed' = 0
    BY Zenon, <1>4 DEF SrvAnswer
  <2>2. h \in Nat /\ n \in Nat
    BY SessionAssumption
  <2> DEFINE u == Response(owed, h, fr, n, z)
  <2>3. u \in Seq(Units)
    BY Zenon, <1>0, <2>2, ResponseType
  <2>4. owed # 0 /\ s2c' = s2c \o u /\ rcvd' = rcvd
    BY Zenon, <2>1 DEF SrvSend
  <2> HIDE DEF u
  <2>6. stream' = stream \o u /\ stream \in Seq(Units)
    BY Zenon, <1>0, <1>a, <2>3, <2>4, StreamMore, StreamType
  <2>7. owed = serial /\ HeadRcvd /\ NoFinal(stream)
    BY Zenon, <2>4 DEF AnswerInv, OneAnswerInv
  <2>8. OneAnswer(stream', serial)
    <3>1. fr = "eof" => "closed" = "closed"
      OBVIOUS
    <3>2. OneAnswer(stream \o u, owed)
      <4> HIDE DEF stream
      <4> QED BY Zenon, <1>0, <2>2, <2>6, <2>7, <3>1, AnswerArrives DEF u
    <3> QED BY Zenon, <2>6, <2>7, <3>2
  <2>9. HeadRcvd'
    BY Zenon, <1>a, <2>4, <2>7 DEF HeadRcvd
  <2>10. OneAnswerInv'
    BY Zenon, <1>a, <2>1, <2>4, <2>8, <2>9 DEF AnswerInv, OneAnswerInv
  <2>11. AtRestInv'
    BY Zenon, <1>0, <1>a, <2>4 DEF AnswerInv, AtRestInv
  <2> QED BY Zenon, <2>10, <2>11 DEF AnswerInv
<1>6. CASE SrvBadHead
  <2>1. Unit(owed, "b", "cl", 0) \in Units /\ Unit(owed, "b", "cl", 0).k # "f"
    <3>1. Unit(owed, "b", "cl", 0).k = "b"
      BY Zenon DEF Unit
    <3> QED BY Zenon, <1>0, <3>1, UnitType DEF Framing
  <2>2. <<Unit(owed, "b", "cl", 0)>> \in Seq(Units) /\ NoFinal(<<Unit(owed, "b", "cl", 0)>>)
    BY Zenon, <2>1, OneUnit
  <2> QED BY <1>0, <1>6, <1>a, <2>2, AnswerMore, Zenon DEF SrvBadHead, SrvSend
<1>7. CASE SrvExcess
  <2>1. PICK k \in {"g", "b"} : SrvUnasked(k, <<Unit(0, k, "cl", 0)>>)
    BY Zenon, <1>7 DEF SrvExcess
  <2>2. Unit(0, k, "cl", 0) \in Units /\ Unit(0, k, "cl", 0).k # "f"
    <3>1. Unit(0, k, "cl", 0).k = k
      BY Zenon DEF Unit
    <3> QED BY Zenon, <3>1, UnitType DEF Framing
  <2>3. <<Unit(0, k, "cl", 0)>> \in Seq(Units) /\ NoFinal(<<Unit(0, k, "cl", 0)>>)
    BY Zenon, <2>2, OneUnit
  <2> QED BY <1>0, <1>a, <2>1, <2>3, AnswerMore, Zenon DEF SrvUnasked
<1>8. CASE SrvClose
  <2>2. peer' = "closed" /\ UNCHANGED <<rcvd, owed>>
    BY Zenon, <1>8 DEF SrvClose
  <2>8. Left(stream', stream, peer') /\ stream' \in Seq(Units)
    BY Zenon, <1>0, <1>8, <1>a, <2>2, StreamCloses
  <2>9. OneAnswerInv' /\ (NoFinal(stream) => NoFinal(stream'))
    BY Zenon, <1>0, <1>a, <2>2, <2>8, AnswerLeft DEF AnswerInv
  <2>10. AtRestInv'
    <3>1. AllHeadsRcvd' <=> AllHeadsRcvd
      BY Zenon, <1>a, <2>2 DEF AllHeadsRcvd
    <3> QED BY Zenon, <1>a, <2>2, <2>9, <3>1 DEF AnswerInv, AtRestInv
  <2> QED BY Zenon, <2>9, <2>10 DEF AnswerInv
<1> QED BY Zenon, <1>1, <1>2, <1>3, <1>4, <1>6, <1>7, <1>8 DEF Server

(* A connection is opened and closed with nothing in the stream.           *)
LEMMA FreshAnswers ==
  ASSUME SessionInv, OrderInv, UnopenedInv, Open \/ Close
  PROVE  AnswerInv' /\ ExchangeInv'
<1>1. CASE Open
  <2>1. /\ life = "none" /\ resp = NoResp
    BY Zenon, <1>1 DEF Open, SessionInv, OneRequest
  <2>2. rx = <<>> /\ sent = <<>> /\ s2c = <<>> /\ rcvd = 0 /\ owed = 0 /\ ~closed
    BY Zenon, <2>1 DEF SessionInv, NothingLeftOver, OrderInv, SentInv, UnopenedInv
  <2> QED BY Zenon, <1>1, <2>2, AnswerNone DEF Open, net
<1>2. CASE Close
  BY Zenon, <1>2, AnswerNone DEF Close
<1> QED BY Zenon, <1>1, <1>2

(* One answer to a request at most, and none between requests, is kept by  *)
(* every step but a second answer.                                         *)
LEMMA AnswerSteps ==
  ASSUME SessionInv, OrderInv, AnswerInv, UnopenedInv, [Next]_vars
  PROVE  AnswerInv' \/ SrvSecond
<1>0. TypeOK
  BY Zenon DEF SessionInv
<1>1. ASSUME UNCHANGED <<rx, s2c, sent, rcvd, owed, serial, life, resp, closed>> PROVE AnswerInv'
  <2>1. stream' = stream
    BY Zenon, <1>1 DEF stream
  <2> QED BY Zenon, <1>1, <2>1, AnswerSame
<1>2. CASE Caller
  <2>1. ASSUME Open \/ Close PROVE AnswerInv'
    BY Zenon, <2>1, FreshAnswers
  <2>2. CASE Open \/ Close
    BY Zenon, <2>1, <2>2
  <2>3. ASSUME NEW r \in Resps, NEW nb \in BOOLEAN, NEW len \in BodyLens, CallBegin(r, nb, len)
        PROVE  AnswerInv'
    BY Zenon, <1>0, <2>3, AnswerBegin
  <2>4. CASE UNCHANGED <<sess, net, serial>>
    BY Zenon, <1>1, <2>4 DEF sess, net
  <2>5. \/ Open \/ Close \/ UNCHANGED <<sess, net, serial>>
        \/ \E r \in Resps, nb \in BOOLEAN, len \in BodyLens : CallBegin(r, nb, len)
    BY Zenon, <1>2 DEF Caller, OpenDialFails, OpenTlsFails, CallClosed, CallResume, CallBusy,
                CallNotBegun, count
  <2> QED BY Zenon, <2>2, <2>3, <2>4, <2>5
<1>3. CASE SmStep \/ SmFault
  <2>1. /\ call # "none" /\ resp # NoResp /\ life = "open" /\ ~closed
        /\ \/ Want \/ Stops \/ HandshakeDone \/ Reads \/ Drops \/ Takes \/ Publishes
           \/ \E k : WritesHead(k) \/ WritesBody(k)
    BY Zenon, <1>3, StepKinds
  <2>2. CASE Want \/ HandshakeDone \/ Takes
    BY <1>1, <2>2, Zenon DEF Want, HandshakeDone, Takes, TakeHead, sess, net, count
  <2>3. CASE Stops
    <3>1. /\ rx' = <<>> /\ closed' /\ life' = "open"
          /\ UNCHANGED <<sent, rcvd, owed, peer, serial>>
          /\ s2c' = s2c \/ (s2c # <<>> /\ s2c' = Tail(s2c))
      BY Zenon, <2>1, <2>3 DEF Stops, SmFail, SmReset, count
    <3>2. stream' \in Seq(Units) /\ Left(stream', stream, peer)
      BY Zenon, <1>0, <3>1, StreamEnds
    <3>3. OneAnswerInv'
      BY Zenon, <1>0, <3>1, <3>2, AnswerLeft DEF AnswerInv, TypeOK
    <3> QED BY Zenon, <3>1, <3>3 DEF AnswerInv, AtRestInv
  <2>4. CASE Reads
    <3>1. stream' = stream
      BY Zenon, <1>0, <2>4, StreamReads
    <3> QED BY Zenon, <2>1, <2>4, <3>1, AnswerSame DEF Reads, count
  <2>5. CASE Drops
    <3>1. UNCHANGED <<sent, rcvd, owed, peer, serial, life, resp>>
      BY Zenon, <2>5 DEF Drops, DropInterim, net, count
    <3>2. stream' \in Seq(Units) /\ Left(stream', stream, peer)
      BY Zenon, <1>0, <2>5, StreamDrops
    <3>3. OneAnswerInv'
      BY Zenon, <1>0, <3>1, <3>2, AnswerLeft DEF AnswerInv, TypeOK
    <3> QED BY Zenon, <2>1, <3>1, <3>3 DEF AnswerInv, AtRestInv
  <2>6. CASE Publishes
    BY Zenon, <2>1, <2>6, AnswerPublishes
  <2>7. ASSUME NEW k, WritesHead(k) \/ WritesBody(k) PROVE AnswerInv'
    BY Zenon, <1>0, <2>1, <2>7, AnswerWrites
  <2> QED BY Zenon, <2>1, <2>2, <2>3, <2>4, <2>5, <2>6, <2>7
<1>4. CASE Server
  BY Zenon, <1>4, AnswerServer
<1>5. CASE UNCHANGED vars
  BY Zenon, <1>1, <1>5 DEF vars, sess, net, count
<1> QED BY Zenon, <1>2, <1>3, <1>4, <1>5 DEF Next

(* What the server sends in one step is followed by its body.              *)
LEMMA ServerSends ==
  ASSUME TypeOK, Server
  PROVE  \/ UNCHANGED <<s2c, peer>>
         \/ SrvClose
         \/ \E u \in Seq(Units) : /\ peer = "open" /\ s2c' = s2c \o u
                                 /\ BodyFollows(u, peer')
<1> DEFINE Sends(u) == peer = "open" /\ s2c' = s2c \o u /\ BodyFollows(u, peer')
<1>0. owed \in Nat /\ 0 \in Nat
  BY DEF TypeOK
<1>1. ASSUME NEW u \in Seq(Units), NoFinal(u) PROVE BodyFollows(u, peer')
  BY Zenon, <1>1 DEF NoFinal, BodyFollows
<1>2. ASSUME NEW x \in Units, x.k # "f" PROVE <<x>> \in Seq(Units) /\ BodyFollows(<<x>>, peer')
  BY Zenon, <1>1, <1>2, OneUnit
<1>3. CASE SrvInterim
  <2>1. PICK h \in HdrLens : SrvSend(Header(owed, h) \o <<Unit(owed, "x", "cl", 0)>>)
    BY Zenon, <1>3 DEF SrvInterim
  <2>2. PICK u \in Seq(Units) : NoFinal(u) /\ SrvSend(u)
    BY Zenon, <1>0, <2>1, InterimUnits
  <2> QED BY Zenon, <1>1, <2>2 DEF SrvSend
<1>4. ASSUME NEW n \in Nat, NEW h \in HdrLens, NEW fr \in Framing, NEW len \in 0..(MaxBody + 1),
             NEW z \in {"z", "b"}, peer = "open", s2c' = s2c \o Response(n, h, fr, len, z),
             peer' = IF fr = "eof" THEN "closed" ELSE peer
      PROVE  \E u \in Seq(Units) : Sends(u)
  <2>1. h \in Nat /\ len \in Nat /\ (fr = "eof" => peer' = "closed")
    BY <1>4, SessionAssumption
  <2>2. Response(n, h, fr, len, z) \in Seq(Units)
    BY Zenon, <2>1, ResponseType
  <2>3. BodyFollows(Response(n, h, fr, len, z), peer')
    BY Zenon, <2>1, ResponseBody
  <2> QED BY Zenon, <1>4, <2>2, <2>3
<1>5. CASE SrvAnswer
  BY Zenon, <1>0, <1>4, <1>5 DEF SrvAnswer, SrvSend
<1>6. CASE SrvSecond
  BY Zenon, <1>0, <1>4, <1>6 DEF SrvSecond, SrvUnasked
<1>7. CASE SrvBadHead
  <2>1. Unit(owed, "b", "cl", 0).k = "b"
    BY Zenon DEF Unit
  <2>2. Unit(owed, "b", "cl", 0) \in Units /\ Unit(owed, "b", "cl", 0).k # "f"
    BY Zenon, <1>0, <2>1, UnitType DEF Framing
  <2> QED BY Zenon, <1>2, <1>7, <2>2 DEF SrvBadHead, SrvSend
<1>8. CASE SrvExcess
  <2>1. PICK k \in {"g", "b"} : SrvUnasked(k, <<Unit(0, k, "cl", 0)>>)
    BY Zenon, <1>8 DEF SrvExcess
  <2>2. Unit(0, k, "cl", 0).k = k
    BY Zenon DEF Unit
  <2>3. Unit(0, k, "cl", 0) \in Units /\ Unit(0, k, "cl", 0).k # "f"
    BY Zenon, <1>0, <2>2, UnitType DEF Framing
  <2> QED BY Zenon, <1>2, <2>1, <2>3 DEF SrvUnasked
<1>9. CASE SrvHandshake \/ SrvRecv
  BY Zenon, <1>9 DEF SrvHandshake, SrvRecv
<1> QED BY Zenon, <1>3, <1>5, <1>6, <1>7, <1>8, <1>9 DEF Server

(* Every body follows its head, whatever the server sends and the client   *)
(* takes off.                                                              *)
LEMMA WholeSteps ==
  ASSUME SessionInv, OrderInv, WholeInv, UnopenedInv, [Next]_vars
  PROVE  WholeInv'
<1>0. TypeOK /\ stream \in Seq(Units) /\ peer \in {"open", "closed"}
  BY Zenon, StreamType DEF SessionInv, TypeOK
<1>1. ASSUME stream' = stream, peer' = peer PROVE WholeInv'
  BY Zenon, <1>1 DEF WholeInv
<1>2. ASSUME stream' \in Seq(Units), Left(stream', stream, peer'), peer' \in {"open", "closed"},
             peer' = "open" => peer = "open"
      PROVE  WholeInv'
  <2>1. BodyFollows(stream, peer)
    BY Zenon DEF WholeInv
  <2> HIDE DEF stream
  <2>2. BodyFollows(stream', peer')
    BY Zenon, <1>0, <1>2, <2>1, LeftKeeps
  <2> QED BY Zenon, <2>2 DEF WholeInv
<1>3. ASSUME UNCHANGED <<rx, s2c, peer>> PROVE WholeInv'
  BY Zenon, <1>1, <1>3 DEF stream
<1>4. CASE Caller
  <2>1. CASE Open \/ Close
    BY Zenon, <2>1, FreshAnswers DEF ExchangeInv
  <2>2. CASE UNCHANGED <<rx, s2c, peer>>
    BY Zenon, <1>3, <2>2
  <2>3. Open \/ Close \/ UNCHANGED <<rx, s2c, peer>>
    BY Zenon, <1>4 DEF Caller, OpenDialFails, OpenTlsFails, CallClosed, CallResume, CallBusy,
                CallNotBegun, CallBegin, sess, net
  <2> QED BY Zenon, <2>1, <2>2, <2>3
<1>5. CASE SmStep \/ SmFault
  <2>1. \/ Want \/ Stops \/ HandshakeDone \/ Reads \/ Drops \/ Takes \/ Publishes
        \/ \E k : WritesHead(k) \/ WritesBody(k)
    BY Zenon, <1>5, StepKinds
  <2>2. CASE Want \/ HandshakeDone \/ Takes \/ \E k : WritesHead(k) \/ WritesBody(k)
    BY <1>3, <2>2, Zenon DEF Want, HandshakeDone, Takes, TakeHead, WritesHead, WritesBody, NbWrite,
       sess, net
  <2>3. CASE Stops \/ Publishes
    <3>1. /\ rx' = <<>> /\ peer' = peer
          /\ s2c' = s2c \/ (s2c # <<>> /\ s2c' = Tail(s2c))
      BY Zenon, <2>3 DEF Stops, SmFail, SmReset, Publishes, PublishesCl, PublishesChunked,
                PublishesEof, Publish, net
    <3> QED BY Zenon, <1>0, <1>2, <3>1, StreamEnds
  <2>4. CASE Reads
    BY Zenon, <1>0, <1>1, <2>4, StreamReads DEF Reads
  <2>5. CASE Drops
    <3>1. peer' = peer
      BY Zenon, <2>5 DEF Drops, DropInterim, net
    <3> QED BY Zenon, <1>0, <1>2, <2>5, <3>1, StreamDrops
  <2> QED BY Zenon, <2>1, <2>2, <2>3, <2>4, <2>5
<1>6. CASE Server
  <2>0. rx' = rx
    BY Zenon, <1>6, ServerFrame DEF SrvUnchanged, sess
  <2>1. CASE UNCHANGED <<s2c, peer>>
    BY Zenon, <1>3, <2>0, <2>1
  <2>2. CASE SrvClose
    <3>1. peer' = "closed"
      BY Zenon, <2>2 DEF SrvClose
    <3>2. stream' \in Seq(Units) /\ Left(stream', stream, "closed")
      BY Zenon, <1>0, <2>0, <2>2, StreamCloses
    <3> QED BY Zenon, <1>2, <3>1, <3>2
  <2>3. ASSUME NEW u \in Seq(Units), peer = "open", s2c' = s2c \o u, BodyFollows(u, peer')
        PROVE  WholeInv'
    <3>1. stream' = stream \o u
      BY Zenon, <1>0, <2>0, <2>3, StreamMore
    <3>2. BodyFollows(stream, "open")
      BY Zenon, <2>3 DEF WholeInv
    <3>3. BodyFollows(stream \o u, peer')
      <4> HIDE DEF stream
      <4> QED BY Zenon, <1>0, <2>3, <3>2, MoreBodies
    <3> QED BY Zenon, <3>1, <3>3 DEF WholeInv
  <2> QED BY Zenon, <1>0, <1>6, <2>1, <2>2, <2>3, ServerSends
<1>7. CASE UNCHANGED vars
  BY Zenon, <1>3, <1>7 DEF vars, sess, net
<1> QED BY Zenon, <1>4, <1>5, <1>6, <1>7 DEF Next

(* Before a connection is opened nothing is owed or sent.                  *)
LEMMA UnopenedSteps ==
  ASSUME SessionInv, OrderInv, UnopenedInv, [Next]_vars
  PROVE  UnopenedInv'
<1>1. CASE Open \/ Close
  BY Zenon, <1>1, FreshAnswers DEF ExchangeInv
<1>2. CASE life' = life /\ ~(Open \/ Close)
  <2> SUFFICES ASSUME life = "none" PROVE UNCHANGED <<rcvd, owed, s2c, closed>>
    BY Zenon, <1>2 DEF UnopenedInv
  <2>1. ~(SmStep \/ SmFault)
    BY Zenon, StepKinds
  <2>2. CASE Caller
    BY Zenon, <1>2, <2>2 DEF Caller, OpenDialFails, OpenTlsFails, CallClosed, CallResume, CallBusy,
                CallNotBegun, CallBegin, sess, net
  <2>3. CASE Server
    <3>1. closed' = closed
      BY Zenon, <2>3, ServerFrame DEF SrvUnchanged, sess
    <3>2. owed = 0 /\ sent = <<>> /\ rcvd = 0
      BY Zenon DEF UnopenedInv, OrderInv, SentInv
    <3>3. ~(rcvd < Len(sent))
      BY <3>2
    <3> QED BY Zenon, <2>3, <3>1, <3>2, <3>3 DEF Server, SrvHandshake, SrvRecv, SrvInterim, SrvAnswer,
                SrvBadHead, SrvSend, SrvExcess, SrvSecond, SrvUnasked, SrvClose
  <2>4. CASE UNCHANGED vars
    BY Zenon, <2>4 DEF vars, sess, net
  <2> QED BY Zenon, <2>1, <2>2, <2>3, <2>4 DEF Next
<1>3. life' = life \/ Open \/ Close
  <2>1. CASE Caller
    BY Zenon, <2>1 DEF Caller, OpenDialFails, OpenTlsFails, CallClosed, CallResume, CallBusy,
                CallNotBegun, CallBegin, sess
  <2>2. CASE SmStep \/ SmFault
    BY Zenon, <2>2, SmStepFrame
  <2>3. CASE Server
    BY Zenon, <2>3, ServerFrame DEF SrvUnchanged, sess
  <2>4. CASE UNCHANGED vars
    BY Zenon, <2>4 DEF vars, sess
  <2> QED BY Zenon, <2>1, <2>2, <2>3, <2>4 DEF Next
<1> QED BY Zenon, <1>1, <1>2, <1>3

(* A second answer stays on record for as long as the connection lasts.    *)
LEMMA TwiceStays ==
  ASSUME SessionInv, [Next]_vars
  PROVE  /\ AnsweredTwice => AnsweredTwice' \/ Open \/ Close
         /\ SrvSecond => AnsweredTwice'
<1>0. excess \in Seq({"g", "b", "f"}) /\ Len(excess) \in Nat
  BY Zenon, LenProperties DEF SessionInv, TypeOK
<1>1. ASSUME excess' = excess PROVE AnsweredTwice => AnsweredTwice'
  BY Zenon, <1>1 DEF AnsweredTwice
<1>2. ASSUME NEW k \in {"g", "b", "f"}, excess' = Append(excess, k)
      PROVE  (AnsweredTwice => AnsweredTwice') /\ (k = "f" => AnsweredTwice')
  <2>1. /\ Len(excess') = Len(excess) + 1 /\ excess'[Len(excess) + 1] = k
        /\ \A i \in 1..Len(excess) : excess'[i] = excess[i]
    BY <1>0, <1>2
  <2>2. /\ Len(excess) + 1 \in 1..Len(excess')
        /\ \A i \in 1..Len(excess) : i \in 1..Len(excess')
    BY <1>0, <2>1
  <2> QED BY Zenon, <2>1, <2>2 DEF AnsweredTwice
<1>3. SrvSecond => AnsweredTwice'
  BY Zenon, <1>2 DEF SrvSecond, SrvUnasked
<1>4. \/ Open \/ Close \/ excess' = excess \/ \E k \in {"g", "b", "f"} : excess' = Append(excess, k)
  <2>1. CASE Caller
    BY Zenon, <2>1 DEF Caller, OpenDialFails, OpenTlsFails, CallClosed, CallResume, CallBusy,
                CallNotBegun, CallBegin, net
  <2>2. CASE SmStep \/ SmFault
    <3>1. \/ Want \/ Stops \/ HandshakeDone \/ Reads \/ Drops \/ Takes \/ Publishes
          \/ \E k : WritesHead(k) \/ WritesBody(k)
      BY Zenon, <2>2, StepKinds
    <3> QED BY <3>1, Zenon DEF Want, Stops, HandshakeDone, Reads, Drops, DropInterim, Takes, TakeHead,
               Publishes, PublishesCl, PublishesChunked, PublishesEof, Publish, WritesHead,
               WritesBody, NbWrite, net
  <2>3. CASE Server
    BY Zenon, <2>3 DEF Server, SrvHandshake, SrvRecv, SrvInterim, SrvAnswer, SrvBadHead, SrvSend,
                SrvExcess, SrvSecond, SrvUnasked, SrvClose
  <2>4. CASE UNCHANGED vars
    BY Zenon, <2>4 DEF vars, net
  <2> QED BY Zenon, <2>1, <2>2, <2>3, <2>4 DEF Next
<1> QED BY Zenon, <1>1, <1>2, <1>3, <1>4

(* All of it is an invariant.                                              *)
LEMMA ExchangeInvHolds == Spec => []ExchangeInv
<1>1. Init => ExchangeInv
  <2> SUFFICES ASSUME Init PROVE ExchangeInv
    OBVIOUS
  <2>1. rx = <<>> /\ s2c = <<>> /\ sent = <<>> /\ rcvd = 0 /\ owed = 0 /\ ~closed /\ life = "none"
    BY Zenon DEF Init, Blank, Silent
  <2>2. <<>> \in Seq(Units)
    OBVIOUS
  <2>3. stream = <<>>
    BY Zenon, <2>1, <2>2, ConcatEmptySeq DEF stream
  <2>4. Len(stream) = 0 /\ Len(sent) = 0
    BY Zenon, <2>1, <2>3
  <2>5. NoFinal(stream) /\ OneAnswer(stream, serial) /\ BodyFollows(stream, peer)
    BY <2>4 DEF NoFinal, OneAnswer, BodyFollows
  <2>6. AnswerInv
    BY <2>1, <2>4, <2>5 DEF AnswerInv, OneAnswerInv, AtRestInv
  <2> QED BY Zenon, <2>1, <2>5, <2>6 DEF ExchangeInv, WholeInv, UnopenedInv
<1>2. SessionInv /\ OrderInv /\ ExchangeInv /\ [Next]_vars => ExchangeInv'
  <2> SUFFICES ASSUME SessionInv, OrderInv, ExchangeInv, [Next]_vars PROVE ExchangeInv'
    OBVIOUS
  <2>1. WholeInv /\ UnopenedInv /\ (AnsweredTwice \/ AnswerInv)
    BY Zenon DEF ExchangeInv
  <2>2. WholeInv' /\ UnopenedInv'
    BY Zenon, <2>1, WholeSteps, UnopenedSteps
  <2>3. AnsweredTwice' \/ AnswerInv'
    BY Zenon, <2>1, TwiceStays, AnswerSteps, FreshAnswers
  <2> QED BY Zenon, <2>2, <2>3 DEF ExchangeInv
<1> QED BY <1>1, <1>2, SessionInvHolds, OrderInvHolds, PTL DEF Spec
-----------------------------------------------------------------------------
(* What a call publishes.                                                  *)

(* sm_take_body cuts out of the receive buffer the body that the server    *)
(* sent, whichever way it is delimited.                                    *)
LEMMA TakesBody ==
  ASSUME SessionInv, WholeInv, resp # NoResp, state \in BodyStates,
         NEW last \in Nat, hdrEnd <= last, last <= Len(rx),
         last <= hdrEnd + rx[hdrEnd].i
  PROVE  LET b == SubSeq(rx, hdrEnd + 1, last) IN
         /\ Len(b) = last - hdrEnd
         /\ \A i \in 1..Len(b) : b[i] = Unit(rx[hdrEnd].req, "d", "cl", i)
<1>1. /\ rx \in Seq(Units) /\ s2c \in Seq(Units)
      /\ hdrEnd \in 1..Len(rx) /\ rx[hdrEnd].k = "f"
  BY Zenon DEF SessionInv, TypeOK, ReceiveState
<1>2. /\ Len(rx) \in Nat /\ Len(s2c) \in Nat /\ Len(stream) = Len(rx) + Len(s2c)
      /\ \A j \in 1..Len(rx) : stream[j] = rx[j]
  BY Zenon, <1>1, ConcatUnits DEF stream
<1>3. hdrEnd \in 1..Len(stream) /\ stream[hdrEnd] = rx[hdrEnd]
  BY <1>1, <1>2
<1>4. BodyAt(stream, hdrEnd, peer)
  BY Zenon, <1>1, <1>3 DEF WholeInv, BodyFollows
<1>5. rx[hdrEnd].i \in Nat
  BY Zenon, <1>1, UnitFields
<1> DEFINE b == SubSeq(rx, hdrEnd + 1, last)
<1>6. Len(b) = last - hdrEnd /\ \A i \in 1..(last - hdrEnd) : b[i] = rx[hdrEnd + i]
  BY <1>1, <1>2
<1> HIDE DEF b
<1>7. ASSUME NEW i \in 1..Len(b) PROVE b[i] = Unit(rx[hdrEnd].req, "d", "cl", i)
  <2>1. /\ i \in 1..(last - hdrEnd) /\ i \in 1..Len(stream) - hdrEnd
        /\ hdrEnd + i \in 1..Len(rx) /\ i <= rx[hdrEnd].i
    BY <1>1, <1>2, <1>5, <1>6
  <2>2. stream[hdrEnd + i] = Unit(rx[hdrEnd].req, "d", "cl", i)
    BY Zenon, <1>3, <1>4, <2>1 DEF BodyAt
  <2> QED BY Zenon, <1>2, <1>6, <2>1, <2>2
<1> QED BY <1>6, <1>7, Zenon DEF b
(* Where a chunked body ends is where the server ended it: the scan stops  *)
(* at the first unit that is not data.                                     *)
LEMMA ChunkedWhole ==
  ASSUME SessionInv, WholeInv, resp # NoResp, state = "READ_BODY_CHUNKED",
         NEW e \in (hdrEnd + 1)..Len(rx), ChunkedEnd(e)
  PROVE  e - 1 = hdrEnd + rx[hdrEnd].i
<1>1. /\ rx \in Seq(Units) /\ s2c \in Seq(Units) /\ rx[hdrEnd].fr \in Framing
      /\ hdrEnd \in 1..Len(rx) /\ rx[hdrEnd].k = "f" /\ state = BodyState(rx[hdrEnd].fr)
      /\ rx[hdrEnd].i \in Nat
  BY UnitFields, Zenon DEF SessionInv, TypeOK, ReceiveState, BodyStates
<1>2. rx[hdrEnd].fr = "chunked"
  BY Zenon, <1>1 DEF BodyState, Framing
<1>3. /\ Len(rx) \in Nat /\ Len(s2c) \in Nat /\ Len(stream) = Len(rx) + Len(s2c)
      /\ \A j \in 1..Len(rx) : stream[j] = rx[j]
  BY <1>1, ConcatUnits, Zenon DEF stream
<1>4. hdrEnd \in 1..Len(stream) /\ stream[hdrEnd] = rx[hdrEnd]
  BY <1>1, <1>3
<1>5. BodyAt(stream, hdrEnd, peer)
  BY Zenon, <1>1, <1>4 DEF WholeInv, BodyFollows
<1>6. /\ rx[e].k = "z"
      /\ \A i \in (hdrEnd + 1)..(e - 1) : rx[i].k = "d"
  BY Zenon DEF ChunkedEnd
<1>7. CASE e - 1 < hdrEnd + rx[hdrEnd].i
  <2>1. /\ e - hdrEnd \in 1..Len(stream) - hdrEnd /\ e - hdrEnd <= rx[hdrEnd].i
        /\ hdrEnd + (e - hdrEnd) = e /\ e \in 1..Len(rx)
    BY <1>1, <1>3, <1>7
  <2>2. stream[hdrEnd + (e - hdrEnd)] = Unit(rx[hdrEnd].req, "d", "cl", e - hdrEnd)
    BY <1>4, <1>5, <2>1, Zenon DEF BodyAt
  <2>3. rx[e].k = "d"
    BY <1>3, <2>1, <2>2 DEF Unit
  <2> QED BY Zenon, <1>6, <2>3
<1>8. CASE e - 1 > hdrEnd + rx[hdrEnd].i
  <2>1. /\ hdrEnd + rx[hdrEnd].i + 1 \in (hdrEnd + 1)..(e - 1)
        /\ hdrEnd + rx[hdrEnd].i + 1 \in 1..Len(rx)
        /\ hdrEnd + rx[hdrEnd].i + 1 <= Len(stream)
    BY <1>1, <1>3, <1>8
  <2>2. stream[hdrEnd + rx[hdrEnd].i + 1].k # "d"
    BY Zenon, <1>2, <1>4, <1>5, <2>1 DEF BodyAt
  <2> QED BY <1>3, <1>6, <2>1, <2>2, Zenon
<1> QED BY <1>1, <1>7, <1>8

(* What is published is one response of the server, whole.                 *)
LEMMA PublishWhole ==
  ASSUME SessionInv, WholeInv, resp # NoResp, Publishes
  PROVE  \E p : /\ pub' = [pub EXCEPT ![resp] = p]
                /\ Whole(p) /\ p.for = serial /\ p.head = rx[hdrEnd]
<1>1. /\ rx \in Seq(Units) /\ s2c \in Seq(Units) /\ state \in BodyStates
      /\ hdrEnd \in 1..Len(rx) /\ rx[hdrEnd].k = "f" /\ state = BodyState(rx[hdrEnd].fr)
      /\ rx[hdrEnd].i \in Nat /\ rx[hdrEnd].fr \in Framing
  BY UnitFields, Zenon DEF SessionInv, TypeOK, ReceiveState, BodyStates,
     Publishes, PublishesCl, PublishesChunked, PublishesEof
<1>2. Len(rx) \in Nat
  BY Zenon, <1>1, LenProperties
<1>3. ASSUME NEW last \in Nat, hdrEnd <= last, last <= Len(rx),
             last <= hdrEnd + rx[hdrEnd].i,
             rx[hdrEnd].fr # "eof" => last = hdrEnd + rx[hdrEnd].i,
             NEW close, Publish(SubSeq(rx, hdrEnd + 1, last), close)
      PROVE  \E p : /\ pub' = [pub EXCEPT ![resp] = p]
                    /\ Whole(p) /\ p.for = serial /\ p.head = rx[hdrEnd]
  <2> DEFINE b == SubSeq(rx, hdrEnd + 1, last)
             p == [for |-> serial, head |-> rx[hdrEnd], body |-> b]
  <2>1. /\ Len(b) = last - hdrEnd
        /\ \A i \in 1..Len(b) : b[i] = Unit(rx[hdrEnd].req, "d", "cl", i)
    BY <1>1, <1>3, TakesBody, Zenon
  <2>2. pub' = [pub EXCEPT ![resp] = p]
    BY <1>3, Zenon DEF Publish
  <2> HIDE DEF b
  <2>3. p.head = rx[hdrEnd] /\ p.for = serial /\ p.body = b
    OBVIOUS
  <2> HIDE DEF p
  <2>4. Len(b) <= rx[hdrEnd].i /\ (rx[hdrEnd].fr # "eof" => Len(b) = rx[hdrEnd].i)
    BY <1>1, <1>2, <1>3, <2>1
  <2>5. Whole(p)
    BY Zenon, <2>1, <2>3, <2>4 DEF Whole
  <2> QED BY <2>2, <2>3, <2>5, Zenon
<1>4. CASE PublishesCl
  <2>1. ClEnd \in Nat /\ hdrEnd <= ClEnd /\ ClEnd <= Len(rx) /\ ClEnd <= hdrEnd + rx[hdrEnd].i
        /\ ClEnd = hdrEnd + rx[hdrEnd].i
    BY <1>1, <1>2, <1>4 DEF PublishesCl, ClEnd
  <2> QED BY Zenon, <1>3, <1>4, <2>1 DEF PublishesCl
<1>5. CASE PublishesChunked
  <2>1. PICK e \in (hdrEnd + 1)..Len(rx) :
          ChunkedEnd(e) /\ Publish(SubSeq(rx, hdrEnd + 1, e - 1), Len(rx) > e)
    BY Zenon, <1>5 DEF PublishesChunked
  <2>2. e - 1 = hdrEnd + rx[hdrEnd].i
    BY Zenon, <1>5, <2>1, ChunkedWhole DEF PublishesChunked
  <2>3. e - 1 \in Nat /\ hdrEnd <= e - 1 /\ e - 1 <= Len(rx) /\ e - 1 <= hdrEnd + rx[hdrEnd].i
    BY <1>1, <1>2, <2>2
  <2> QED BY Zenon, <1>3, <2>1, <2>2, <2>3
<1>6. CASE PublishesEof
  <2>1. rx[hdrEnd].fr = "eof" /\ s2c = <<>>
    BY Zenon, <1>1, <1>6 DEF PublishesEof, BodyState, Framing
  <2>2. stream = rx
    BY Zenon, <1>1, <2>1, ConcatEmptySeq DEF stream
  <2>3. Len(rx) <= hdrEnd + rx[hdrEnd].i
    BY Zenon, <1>1, <2>1, <2>2 DEF WholeInv, BodyFollows, BodyAt
  <2>4. hdrEnd <= Len(rx) /\ Len(rx) <= Len(rx)
    BY <1>1, <1>2
  <2> QED BY <1>2, <1>3, <1>6, <2>1, <2>3, <2>4, Zenon DEF PublishesEof
<1> QED BY Zenon, <1>4, <1>5, <1>6 DEF Publishes

(* Only a completed exchange fills a response object, and only a call that *)
(* begins one, or fails to, clears it.                                     *)
LEMMA PubSteps ==
  ASSUME SessionInv, [Next]_vars
  PROVE  \/ pub' = pub
         \/ \E r \in Resps : pub' = [pub EXCEPT ![r] = NoPub]
         \/ resp # NoResp /\ life = "open" /\ Publishes
<1>1. CASE Caller
  BY Zenon, <1>1 DEF Caller, Open, OpenDialFails, OpenTlsFails, Close, CallClosed, CallResume,
              CallBusy, CallNotBegun, CallBegin
<1>2. CASE SmStep \/ SmFault
  <2>1. /\ resp # NoResp /\ life = "open"
        /\ \/ Want \/ Stops \/ HandshakeDone \/ Reads \/ Drops \/ Takes \/ Publishes
           \/ \E k : WritesHead(k) \/ WritesBody(k)
    BY Zenon, <1>2, StepKinds
  <2> QED BY <2>1, Zenon DEF Want, Stops, SmFail, HandshakeDone, Reads, Drops, DropInterim, Takes,
             TakeHead, WritesHead, WritesBody, NbWrite
<1>3. CASE Server
  BY Zenon, <1>3, ServerFrame DEF SrvUnchanged
<1>4. CASE UNCHANGED vars
  BY Zenon, <1>4 DEF vars
<1> QED BY Zenon, <1>1, <1>2, <1>3, <1>4 DEF Next

(* What a call publishes is one response of the server with the body that  *)
(* came with it, whole and in order, from whatever server; only a body     *)
(* delimited by the close of the connection can have been cut short.  And  *)
(* it answers the very request of the call, unless the server had sent a   *)
(* response on this connection that it did not owe.                        *)
THEOREM ResponseMatchesHolds == Spec => ResponseMatches
<1> DEFINE A == \A r \in Resps : pub'[r] # pub[r] /\ pub'[r] # NoPub =>
                  /\ Whole(pub'[r]) /\ pub'[r].for = serial
                  /\ ~AnsweredTwice => pub'[r].head.req = serial
<1>1. ASSUME SessionInv, OrderInv, ExchangeInv, [Next]_vars PROVE A
  <2> SUFFICES ASSUME NEW r \in Resps, pub'[r] # pub[r], pub'[r] # NoPub
               PROVE  /\ Whole(pub'[r]) /\ pub'[r].for = serial
                      /\ ~AnsweredTwice => pub'[r].head.req = serial
    BY Zenon
  <2>1. pub \in [Resps -> Responses] /\ WholeInv
    BY Zenon, <1>1 DEF SessionInv, TypeOK, ExchangeInv
  <2>2. resp # NoResp /\ life = "open" /\ Publishes
    BY Zenon, <1>1, <2>1, PubSteps
  <2>3. PICK p : /\ pub' = [pub EXCEPT ![resp] = p]
                 /\ Whole(p) /\ p.for = serial /\ p.head = rx[hdrEnd]
    BY Zenon, <1>1, <2>1, <2>2, PublishWhole
  <2>4. pub'[r] = p
    BY Zenon, <2>1, <2>3
  <2>5. ~AnsweredTwice => rx[hdrEnd].req = serial
    BY Zenon, <1>1, <2>2, AnswerPublishes DEF ExchangeInv
  <2> QED BY Zenon, <2>3, <2>4, <2>5
<1>2. SessionInv /\ OrderInv /\ ExchangeInv /\ [Next]_vars => [A]_vars
  BY Zenon, <1>1
<1> HIDE DEF A
<1>3. Spec => [][A]_vars
  BY <1>2, SessionInvHolds, OrderInvHolds, ExchangeInvHolds, PTL DEF Spec
<1> QED BY <1>3 DEF ResponseMatches, A
-----------------------------------------------------------------------------
(* The contract.                                                           *)

(* Which request each response object was filled for.                      *)
answerBar == [r \in Resps |-> pub[r].for]

(* Clearing or filling a response object, as the contract sees it.         *)
LEMMA AnswerBar ==
  ASSUME TypeOK, NEW r \in Resps, NEW p, pub' = [pub EXCEPT ![r] = p]
  PROVE  answerBar' = [answerBar EXCEPT ![r] = p.for]
BY Zenon DEF answerBar, TypeOK

(* Every step of the session, its caller and its server is a step of the   *)
(* contract or leaves all that it speaks of alone.                         *)
LEMMA SessionRefines ==
  SessionInv /\ ExchangeInv /\ [Next]_vars => [Contract!CNext]_(Contract!cvars)
<1> SUFFICES ASSUME SessionInv, ExchangeInv, [Next]_vars
             PROVE  [Contract!CNext]_(Contract!cvars)
  OBVIOUS
<1>0. /\ TypeOK /\ life \in {"none", "open"} /\ (resp # NoResp => life = "open" /\ ~closed)
      /\ (life = "none" => ~closed) /\ NoResp \notin Resps /\ resp \in Resps \cup {NoResp}
  BY Zenon, SessionAssumption DEF SessionInv, TypeOK, OneRequest, ExchangeInv, UnopenedInv
<1>1. CASE UNCHANGED <<life, resp, closed, serial, pub, call, ret>>
  BY Zenon, <1>1 DEF Contract!cvars
<1>2. CASE Open
  <2>1. Contract!COpen
    BY <1>0, <1>2, Zenon DEF Open, Contract!COpen
  <2> QED BY Zenon, <2>1 DEF Contract!CNext
<1>3. CASE Close
  <2>1. Contract!CClose
    BY Zenon, <1>0, <1>3 DEF Close, Contract!CClose
  <2> QED BY Zenon, <2>1 DEF Contract!CNext
<1>4. CASE CallClosed
  <2>1. Contract!CRefuse
    BY Zenon, <1>0, <1>4 DEF CallClosed, Contract!CRefuse, sess, count
  <2> QED BY Zenon, <2>1 DEF Contract!CNext
<1>5. ASSUME NEW r \in Resps, NEW nb \in BOOLEAN, CallBusy(r, nb)
      PROVE  Contract!CNext
  <2>1. Contract!CRefuse
    BY Zenon, <1>0, <1>5 DEF CallBusy, Contract!CRefuse, sess, count
  <2> QED BY Zenon, <2>1 DEF Contract!CNext
<1>6. CASE CallResume
  <2>1. Contract!CResume
    BY Zenon, <1>0, <1>6 DEF CallResume, Contract!CResume, sess, count
  <2> QED BY Zenon, <2>1 DEF Contract!CNext
<1>7. NoPub.for = 0
  BY Zenon DEF NoPub
<1>8. ASSUME NEW r \in Resps, CallNotBegun(r) PROVE Contract!CNext
  <2>1. answerBar' = [answerBar EXCEPT ![r] = 0]
    BY <1>0, <1>7, <1>8, AnswerBar, Zenon DEF CallNotBegun
  <2>2. Contract!CBeginRefused(r)
    BY Zenon, <1>0, <1>8, <2>1 DEF CallNotBegun, Contract!CBeginRefused, answerBar, sess, count
  <2> QED BY Zenon, <2>2 DEF Contract!CNext
<1>9. ASSUME NEW r \in Resps, NEW nb \in BOOLEAN, NEW len \in BodyLens, CallBegin(r, nb, len)
      PROVE  Contract!CNext
  <2>1. answerBar' = [answerBar EXCEPT ![r] = 0]
    BY <1>0, <1>7, <1>9, AnswerBar, Zenon DEF CallBegin
  <2>2. Contract!CBegin(r, nb)
    BY Zenon, <1>0, <1>9, <2>1 DEF CallBegin, Contract!CBegin, answerBar
  <2> QED BY Zenon, <2>2 DEF Contract!CNext
<1>10. CASE Caller
  <2>1. \/ Open \/ Close \/ CallClosed \/ CallResume
        \/ UNCHANGED <<life, resp, closed, serial, pub, call, ret>>
        \/ \E r \in Resps, nb \in BOOLEAN : CallBusy(r, nb)
        \/ \E r \in Resps : CallNotBegun(r)
        \/ \E r \in Resps, nb \in BOOLEAN, len \in BodyLens : CallBegin(r, nb, len)
    BY Zenon, <1>10 DEF Caller, OpenDialFails, OpenTlsFails, sess
  <2> QED BY Zenon, <2>1, <1>1, <1>2, <1>3, <1>4, <1>5, <1>6, <1>8, <1>9
<1>11. CASE SmStep \/ SmFault
  <2>1. /\ call # "none" /\ resp # NoResp /\ life = "open" /\ ~closed
        /\ \/ Want \/ Stops \/ HandshakeDone \/ Reads \/ Drops \/ Takes \/ Publishes
           \/ \E k : WritesHead(k) \/ WritesBody(k)
    BY Zenon, <1>11, StepKinds
  <2>2. CASE Want
    <3>1. Contract!CWant
      BY Zenon, <2>1, <2>2 DEF Want, Contract!CWant, sess, count
    <3> QED BY Zenon, <3>1 DEF Contract!CNext
  <2>3. CASE Stops
    <3>1. Contract!CFail
      BY Zenon, <2>1, <2>3 DEF Stops, SmFail, SmReset, count, Contract!CFail, Contract!Errors
    <3> QED BY Zenon, <3>1 DEF Contract!CNext
  <2>4. CASE Publishes
    <3>1. PICK p : pub' = [pub EXCEPT ![resp] = p] /\ p.for = serial
      BY Zenon, <2>1, <2>4, PublishWhole DEF ExchangeInv
    <3>2. answerBar' = [answerBar EXCEPT ![resp] = serial]
      BY <1>0, <2>1, <3>1, AnswerBar, Zenon
    <3>3. /\ life' = life /\ resp' = NoResp /\ call' = "none" /\ ret' = "OK" /\ serial' = serial
      BY <2>4, Zenon DEF Publishes, PublishesCl, PublishesChunked, PublishesEof, Publish, count
    <3>4. Contract!CComplete
      BY Zenon, <2>1, <3>2, <3>3 DEF Contract!CComplete, answerBar
    <3> QED BY Zenon, <3>4 DEF Contract!CNext
  <2>5. CASE HandshakeDone \/ Reads \/ Drops \/ Takes \/ \E k : WritesHead(k) \/ WritesBody(k)
    BY <1>1, <2>5, Zenon DEF HandshakeDone, Reads, Drops, DropInterim, Takes, TakeHead, WritesHead,
       WritesBody, NbWrite, count
  <2> QED BY Zenon, <2>1, <2>2, <2>3, <2>4, <2>5
<1>12. CASE Server
  BY Zenon, <1>1, <1>12, ServerFrame DEF SrvUnchanged, sess, count
<1>13. CASE UNCHANGED vars
  BY Zenon, <1>1, <1>13 DEF vars, sess, count
<1> QED BY Zenon, <1>10, <1>11, <1>12, <1>13 DEF Next

(* The session is what EstSession and ScepSession take it for: it          *)
(* implements HttpContract, for every number of requests, response object  *)
(* and limit, however its transport and the server behave.                 *)
THEOREM ContractHolds == Spec => ImplementsContract
<1>1. Init => Contract!CInit
  BY DEF Init, Blank, Contract!CInit, NoPub
<1> QED BY <1>1, SessionRefines, SessionInvHolds, ExchangeInvHolds, PTL
        DEF Spec, ImplementsContract, Contract!CSpec
=============================================================================

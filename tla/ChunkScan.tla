------------------------------ MODULE ChunkScan ------------------------------
(***************************************************************************)
(* The two readers of a chunked body in src/http.c.  The incremental one,  *)
(* wolfcert_http_chunked_complete, is called again after every read with   *)
(* what it left in a WolfCertChunkScan, and decides when the message is    *)
(* whole; chunked_decode_into then decodes it in one pass.  A body is a    *)
(* sequence of bytes: the members of Hex stand for their digit, "CR" "LF"  *)
(* ";" ":" "SP" for themselves, anything else for any other byte.          *)
(* Positions count from 1, the source's from 0.                            *)
(***************************************************************************)
EXTENDS Integers, SequencesExt

CONSTANT SizeLimit   \* 0x0FFFFFFF: no digit may follow a size above it

Hex == [h \in {"0", "1", "2", "f"} |-> CASE h = "0" -> 0 [] h = "1" -> 1
                                         [] h = "2" -> 2 [] h = "f" -> 15]

CrlfAt(raw, i) == i + 1 <= Len(raw) /\ raw[i] = "CR" /\ raw[i + 1] = "LF"

(* find_crlf from i: the place of the next CRLF, or where to resume        *)
FindCrlf_SkipsTail(raw, i) ==
  Min({k \in i..Len(raw) : CrlfAt(raw, k)} \cup {Max({i, Len(raw) + 1})})

FindCrlf(raw, i) ==
  Min({k \in i..Len(raw) : CrlfAt(raw, k)} \cup {Max({i, Len(raw)})})

(* parse_chunk_size of the line raw[i .. e - 1]; -1 when it is malformed   *)
RECURSIVE SizeFrom(_, _, _, _)
SizeFrom(raw, k, e, v) ==      \* v is -1 until a digit has been read
  IF k = e \/ raw[k] = ";" THEN v
  ELSE IF v >= 0 /\ raw[k] = "SP"
  THEN LET n == Min({m \in k..(e - 1) : raw[m] # "SP"} \cup {e})
       IN IF n < e /\ raw[n] = ";" THEN v ELSE -1
  ELSE IF raw[k] \notin DOMAIN Hex \/ v > SizeLimit THEN -1
  ELSE SizeFrom(raw, k + 1, e, Max({v, 0}) * 16 + Hex[raw[k]])

ChunkSize(raw, i, e) == SizeFrom(raw, i, e, -1)

(* WolfCertChunkScan and wolfcert_http_chunked_complete: 1 whole, 0 more   *)
(* bytes needed, -1 malformed.                                             *)
FreshScan(max) == [pos |-> 1, crlf |-> 1, chunk |-> 0, max |-> max, total |-> 0,
                   inTrailers |-> FALSE]

Verdict(rc, st) == [rc |-> rc, st |-> st]

RECURSIVE Complete(_, _)
Complete(raw, st) ==
  IF st.pos > Len(raw) THEN Verdict(0, st)
  ELSE IF st.chunk > 0
  THEN IF st.chunk > Len(raw) - st.pos - 1 THEN Verdict(0, st)
       ELSE IF ~CrlfAt(raw, st.pos + st.chunk) THEN Verdict(-1, st)
       ELSE Complete(raw, [st EXCEPT !.pos = @ + st.chunk + 2, !.chunk = 0])
  ELSE LET at   == FindCrlf(raw, Max({st.crlf, st.pos}))
           seen == [st EXCEPT !.crlf = at]
           next == [seen EXCEPT !.pos = at + 2]
           size == ChunkSize(raw, st.pos, at)
       IN IF ~CrlfAt(raw, at) THEN Verdict(0, seen)
          ELSE IF st.inTrailers
          THEN IF at = st.pos THEN Verdict(1, next) ELSE Complete(raw, next)
          ELSE IF size < 0 THEN Verdict(-1, seen)
          ELSE IF st.max # 0 /\ size > st.max - st.total
          THEN Verdict(-1, [seen EXCEPT !.chunk = size])
          ELSE Complete(raw, [next EXCEPT !.chunk = size, !.total = @ + size,
                                          !.inTrailers = (size = 0)])
-----------------------------------------------------------------------------
(* check_trailers of what follows the last chunk                           *)
RECURSIVE TrailersOk(_, _)
TrailersOk(raw, i) ==
  LET e == FindCrlf(raw, i) IN
  /\ i <= Len(raw) /\ CrlfAt(raw, e)
  /\ e # i =>
       /\ \/ i # 1 /\ raw[i] = "SP"
          \/ raw[i] # ":" /\ \E k \in i..(e - 1) : raw[k] = ":"
       /\ TrailersOk(raw, e + 2)

(* chunked_decode_into and the limit of wolfcert_http_chunked_decode       *)
Refused == [ok |-> FALSE, body |-> <<>>]

RECURSIVE DecodeFrom(_, _, _)
DecodeFrom(raw, p, body) ==
  LET e == FindCrlf(raw, p)
      size == ChunkSize(raw, p, e)
      d == e + 2
  IN IF ~CrlfAt(raw, e) \/ size < 0 THEN Refused
     ELSE IF size = 0
     THEN IF TrailersOk(SubSeq(raw, d, Len(raw)), 1) THEN [ok |-> TRUE, body |-> body] ELSE Refused
     ELSE IF size > Len(raw) - d - 1 \/ ~CrlfAt(raw, d + size) THEN Refused
     ELSE DecodeFrom(raw, d + size + 2, body \o SubSeq(raw, d, d + size - 1))

Decode(raw, max) ==
  LET r == IF raw = <<>> THEN Refused ELSE DecodeFrom(raw, 1, <<>>)
  IN IF Len(r.body) > max THEN Refused ELSE r
-----------------------------------------------------------------------------
(* Properties of one body                                                  *)

(* Wherever the reads cut the body, the scan that resumes comes to the     *)
(* verdict of a scan that starts over, and to the same end of the message: *)
(* a CR or a size line split between two reads changes nothing.            *)
AnyCut(raw, max) ==
  \A i \in 0..Len(raw) : \A j \in (i + 1)..Len(raw) :
    LET once  == Complete(SubSeq(raw, 1, i), FreshScan(max))
        again == Complete(SubSeq(raw, 1, j), once.st)
        whole == Complete(SubSeq(raw, 1, j), FreshScan(max))
    IN once.rc = 0 => /\ again.rc = whole.rc
                      /\ again.st.pos = whole.st.pos
                      /\ again.st.total = whole.st.total

(* The two readers agree: a body the decoder takes has been found whole,   *)
(* holds what the scan counted and stays within the limit; a body found    *)
(* whole was not whole one byte earlier, and bytes that follow it (a       *)
(* pipelined request) change nothing.                                      *)
ReadersAgree(raw, max) ==
  LET c == Complete(raw, FreshScan(max))
      d == Decode(raw, max)
      end == c.st.pos - 1
  IN /\ d.ok => c.rc = 1 /\ Len(d.body) = c.st.total /\ Len(d.body) <= max
     /\ c.rc = 1 => /\ Complete(SubSeq(raw, 1, end - 1), FreshScan(max)).rc = 0
                    /\ Decode(SubSeq(raw, 1, end), max) = d

(* What a sender frames is what the receiver gets, for any cut of the      *)
(* payload into chunks, with or without extensions and trailers.           *)
Framed(chunks, ext, trailers) ==
  LET one(c) == <<IF Len(c) = 1 THEN "1" ELSE "2">> \o ext \o <<"CR", "LF">>
                   \o c \o <<"CR", "LF">>
  IN FoldLeft(LAMBDA s, c : s \o one(c), <<>>, chunks)
       \o <<"0", "CR", "LF">> \o trailers \o <<"CR", "LF">>

AsSent(chunks, ext, trailers) ==
  LET raw == Framed(chunks, ext, trailers)
      all == FoldLeft(LAMBDA s, c : s \o c, <<>>, chunks)
      c == Complete(raw \o <<"x">>, FreshScan(Len(all)))
  IN /\ Decode(raw, Len(all)) = [ok |-> TRUE, body |-> all]
     /\ c.rc = 1 /\ c.st.pos = Len(raw) + 1
=============================================================================

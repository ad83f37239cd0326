---------------------------- MODULE HttpResponse ----------------------------
(***************************************************************************)
(* net/http.rs: from the bytes https_request returned to a body.  What was *)
(* received is a sequence of wire elements: the head (status line and      *)
(* headers up to the empty line, one element because a head that is cut is *)
(* no head), then body bytes, and in a chunked body the lines with a       *)
(* chunk's size and the CRLF behind its data.                              *)
(***************************************************************************)
EXTENDS Integers, Sequences, SequencesExt

Bad == -1              \* stands for a number that does not parse

Header(name, value) == [name |-> name, value |-> value]
HeadWith(headers) == [head |-> TRUE, status |-> 200, headers |-> headers]
SizeLine(n) == [size |-> n]
CRLF == [crlf |-> TRUE]

Ok(body) == [ok |-> TRUE, body |-> body]
Err(e) == [ok |-> FALSE, error |-> e]
-----------------------------------------------------------------------------
IsSizeLine(x) == DOMAIN x = {"size"}

\* Seeded form: a chunk that is not all there is taken as far as it goes.
parse_chunked_Clamp(data) ==
    LET from[i \in 1 .. Len(data) + 1] ==
          IF i > Len(data) \/ ~ IsSizeLine(data[i]) THEN Err("InvalidChunk")
          ELSE LET n == data[i].size  last == IF i + n > Len(data) THEN Len(data) ELSE i + n
               IN  IF n = 0 THEN Ok(<<>>)
                   ELSE IF i + n + 1 > Len(data) THEN Ok(SubSeq(data, i + 1, last))
                   ELSE LET rest == from[i + n + 2]
                        IN  IF rest.ok THEN Ok(SubSeq(data, i + 1, i + n) \o rest.body)
                            ELSE rest
    IN  from[1]

\* A size line, that many bytes and two more, until a size of 0; whatever
\* follows that line is not looked at.
ChunkStep(data, from, i) ==
    IF i > Len(data) THEN Err("InvalidChunk")
    ELSE IF ~ IsSizeLine(data[i]) THEN Err("InvalidChunk")
    ELSE IF data[i].size = Bad THEN Err("InvalidChunk")
    ELSE IF data[i].size = 0 THEN Ok(<<>>)
    ELSE IF Len(data) - i < data[i].size + 1 THEN Err("InvalidChunk")
    ELSE LET rest == from[i + data[i].size + 2]
         IN  IF rest.ok THEN Ok(SubSeq(data, i + 1, i + data[i].size) \o rest.body)
             ELSE rest

parse_chunked(data) ==
    LET from[i \in 1 .. Len(data) + 1] == ChunkStep(data, from, i)
    IN  from[1]

Lengths(headers) == {k \in DOMAIN headers : headers[k].name = "content-length"}
is_chunked(headers) ==
    \E k \in DOMAIN headers : /\ headers[k].name = "transfer-encoding"
                              /\ headers[k].value = "chunked"

\* Seeded form: a Content-Length decides, whatever the encoding.
body_of_LengthFirst(headers, body_raw) ==
    LET length == headers[Min(Lengths(headers))].value
    IN  IF Lengths(headers) # {} THEN Ok(SubSeq(body_raw, 1, Min({length, Len(body_raw)})))
        ELSE IF is_chunked(headers) THEN parse_chunked(body_raw)
        ELSE Ok(body_raw)

\* Chunked wins over Content-Length, of several lengths the first counts, and
\* a length beyond what was received is no error.
body_of(headers, body_raw) ==
    LET length == headers[Min(Lengths(headers))].value
    IN  IF is_chunked(headers) THEN parse_chunked(body_raw)
        ELSE IF Lengths(headers) = {} THEN Ok(body_raw)
        ELSE IF length = Bad THEN Err("InvalidResponse")
        ELSE Ok(SubSeq(body_raw, 1, Min({length, Len(body_raw)})))

\* The status must be a number; it is handed on and no caller looks at it.
parse_response(raw) ==
    IF raw = <<>> THEN Err("InvalidResponse")
    ELSE IF raw[1].status = Bad THEN Err("InvalidStatus")
    ELSE body_of(raw[1].headers, Tail(raw))
-----------------------------------------------------------------------------
(* What servers send: a body framed by its length, by chunks (with or      *)
(* without a Content-Length, which then means nothing) or by the close.    *)

ByLength(body) == <<HeadWith(<<Header("content-length", Len(body))>>)>> \o body
ByClose(body) == <<HeadWith(<<>>)>> \o body
\* Two chunks of a byte each.
ByChunks(first, second) ==
    <<HeadWith(<<Header("content-length", 1), Header("transfer-encoding", "chunked")>>),
      SizeLine(1), first, CRLF, SizeLine(1), second, CRLF, SizeLine(0)>>
Malformed(body) == <<HeadWith(<<Header("content-length", Bad)>>)>> \o body

Received(wire, n) == SubSeq(wire, 1, n)

=============================================================================

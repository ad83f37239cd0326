--------------------------- MODULE LayerEnvelope ---------------------------
(***************************************************************************)
(* oci/layer.rs: from a stored blob to its tar stream.  A blob is a        *)
(* sequence of bytes; the flags byte (offset 3) is written as the set of   *)
(* optional fields it announces, and `inflate` is miniz_oxide.             *)
(***************************************************************************)
EXTENDS Integers, Sequences, SequencesExt

CONSTANTS MaxField,     \* bound on the length of an optional field
          MaxPayload,   \* bound on the length of a deflate stream
          MaxInflated   \* 256 MB, the most a layer may inflate to

ASSUME EnvelopeAssumption == {MaxField, MaxPayload, MaxInflated} \subseteq Nat

Failed == [ok |-> FALSE]
Slice(bytes) == [ok |-> TRUE, bytes |-> bytes]
-----------------------------------------------------------------------------
(* Offsets count from 0, as in the code; byte k of data is data[k + 1].    *)

\* Behind the NUL that ends a name or comment at or after an offset; Len + 1,
\* which no check lets pass, when there is none.
AfterNul(data, offset) ==
    LET nuls == {k \in offset .. Len(data) - 1 : data[k + 1] = 0}
    IN  IF nuls = {} THEN Len(data) + 1 ELSE Min(nuls) + 1

\* The 16-bit length in front of the extra field.
AfterExtra(data, offset) ==
    IF offset + 2 > Len(data) THEN Len(data) + 1
    ELSE offset + 2 + data[offset + 1] + 256 * data[offset + 2]

\* Seeded form: the checksum of the header is not skipped.
HeaderEnd_NoHcrc(data) ==
    LET skip(flag, offset, after) ==
          IF flag \in data[4] /\ offset <= Len(data) THEN after ELSE offset
        extra == skip("FEXTRA", 10, AfterExtra(data, 10))
        name == skip("FNAME", extra, AfterNul(data, extra))
    IN  skip("FCOMMENT", name, AfterNul(data, name))

\* Where the fixed header and the fields the flags announce end; beyond the
\* data when one of them does.  FHCRC moves the offset without a check.
HeaderEnd(data) ==
    LET skip(flag, offset, after) ==
          IF flag \in data[4] /\ offset <= Len(data) THEN after ELSE offset
        extra == skip("FEXTRA", 10, AfterExtra(data, 10))
        name == skip("FNAME", extra, AfterNul(data, extra))
        comment == skip("FCOMMENT", name, AfterNul(data, name))
    IN  skip("FHCRC", comment, comment + 2)

\* The bytes between header and trailer.
strip_gzip_header(data) ==
    IF Len(data) < 18 \/ data[1] # 31 \/ data[2] # 139 THEN Failed
    ELSE LET offset == HeaderEnd(data)  end == Len(data) - 8
         IN  IF offset >= Len(data) \/ offset > end THEN Failed
             ELSE Slice(SubSeq(data, offset + 1, end))

-----------------------------------------------------------------------------
(* A gzip member as RFC 1952 lays it out, and the inflate of a toy format  *)
(* in which a stream is whole when its first byte is its length.           *)

Absent == -1
Members == [extra : Absent .. MaxField, name : Absent .. MaxField,
            comment : Absent .. MaxField, hcrc : BOOLEAN, payload : 1 .. MaxPayload,
            fill : {0, 7}]

Field(n, bytes) == IF n = Absent THEN <<>> ELSE bytes
Fill(n, x) == [k \in 1 .. n |-> x]

Flags(m) == {f \in {"FEXTRA", "FNAME", "FCOMMENT", "FHCRC"} :
               \/ f = "FEXTRA" /\ m.extra # Absent
               \/ f = "FNAME" /\ m.name # Absent
               \/ f = "FCOMMENT" /\ m.comment # Absent
               \/ f = "FHCRC" /\ m.hcrc}

Payload(m) == <<m.payload>> \o Fill(m.payload - 1, m.fill)

Encode(m) ==
    <<31, 139, 8, Flags(m)>> \o Fill(6, 0)
      \o Field(m.extra, <<m.extra % 256, m.extra \div 256>> \o Fill(m.extra, m.fill))
      \o Field(m.name, Fill(m.name, 65) \o <<0>>)
      \o Field(m.comment, Fill(m.comment, 66) \o <<0>>)
      \o (IF m.hcrc THEN <<1, 1>> ELSE <<>>)
      \o Payload(m) \o Fill(8, 9)

Inflate(bytes) ==
    IF bytes # <<>> /\ Len(bytes) >= bytes[1] THEN Slice(SubSeq(bytes, 1, bytes[1])) ELSE Failed
-----------------------------------------------------------------------------
\* Seeded form: the limit is one byte short.
decompress_Short(data, media_type) ==
    IF "gz" \in media_type
    THEN LET deflate == strip_gzip_header(data)
             inflated == IF deflate.ok THEN Inflate(deflate.bytes) ELSE Failed
         IN  IF inflated.ok /\ Len(inflated.bytes) < MaxInflated THEN inflated ELSE Failed
    ELSE IF "tar" \in media_type /\ "zstd" \notin media_type THEN Slice(data)
    ELSE Failed

\* The substrings a media type is searched for, in the code's order; "gzip"
\* contains "gz".
decompress(data, media_type) ==
    IF "gz" \in media_type
    THEN LET deflate == strip_gzip_header(data)
             inflated == IF deflate.ok THEN Inflate(deflate.bytes) ELSE Failed
         IN  IF inflated.ok /\ Len(inflated.bytes) <= MaxInflated THEN inflated ELSE Failed
    ELSE IF "tar" \in media_type /\ "zstd" \notin media_type THEN Slice(data)
    ELSE Failed
-----------------------------------------------------------------------------
\* Every gzip member unpacks to its payload, up to the limit, with any
\* combination of optional fields.  No cut of one unpacks to anything: what is
\* handed to inflate is a proper prefix of the payload, never bytes of the
\* header or the trailer (layer.rs:13-22, 47-87).
EnvelopeIsStripped ==
    \A m \in Members :
        LET data == Encode(m)
            gzip == {"tar", "gz"}
        IN  /\ decompress(data, gzip) =
                  IF Len(Payload(m)) <= MaxInflated THEN Slice(Payload(m)) ELSE Failed
            /\ \A n \in 0 .. Len(data) - 1 :
                  LET cut == SubSeq(data, 1, n)
                      r == strip_gzip_header(cut)
                  IN  /\ r.ok => IsPrefix(r.bytes, Payload(m)) /\ r.bytes # Payload(m)
                      /\ decompress(cut, gzip) = Failed
=============================================================================

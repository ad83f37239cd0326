----------------------------- MODULE ImagePull -----------------------------
(***************************************************************************)
(* Pulling images: oci/registry.rs over net/http.rs over net/tls.rs, into  *)
(* oci/image_store.rs.  One Registry and one ImageStore; every operation   *)
(* is one call of https_request (module HttpsRequest, which this module    *)
(* extends), whose answer is parsed (HttpResponse), checked and kept.      *)
(*                                                                         *)
(* Nothing in the kernel calls these operations yet (`image pull` only     *)
(* notes a name), so the caller is left free: any operation next, for any  *)
(* image, whatever the last one returned.  It stores what an operation     *)
(* returned under the name it asked for.  The registry server is external. *)
(***************************************************************************)
EXTENDS HttpsRequest, HttpResponse, LayerEnvelope

CONSTANTS Images,     \* image names; one tag each
          Digests,    \* digests of layers
          LayersOf,   \* image -> the digests its manifest lists
          NoImage,    \* no token yet
          Framings    \* ways the server frames a body

ASSUME PullAssumption ==
    /\ LayersOf \in [Images -> Seq(Digests)] /\ NoImage \notin Images
    /\ "length" \in Framings

VARIABLES stage,    \* "free"; "wait" during a request; "again" between the two
                    \* requests of pull_manifest
          op,       \* the operation: kind, image, digest, token it sends
          reply,    \* what the server sends: document and framing
          token,    \* Registry.token: the image it was issued for
          layers,   \* ImageStore.layers: digest -> bytes
          images    \* ImageStore.images: image -> layers of its manifest

registryVars == <<token, layers, images>>
pullVars == <<stage, op, reply, registryVars>>
allVars == <<vars, pullVars>>
-----------------------------------------------------------------------------
(* Documents, as their bytes.  Two bytes stand for any body, so that a cut *)
(* may leave some of it.                                                   *)

Byte(doc, k) == [byte |-> k, of |-> doc]
Bytes(doc) == <<Byte(doc, 1), Byte(doc, 2)>>

TokenFor(i) == [doc |-> "token", image |-> i]
ManifestOf(i) == [doc |-> "manifest", image |-> i]
Blob(d) == [doc |-> "blob", digest |-> d]
ErrorPage == [doc |-> "error"]     \* JSON with neither token nor layers

Content(d) == Bytes(Blob(d))       \* the bytes whose SHA-256 is d

Documents == {TokenFor(i) : i \in Images} \cup {ManifestOf(i) : i \in Images}
             \cup {Blob(d) : d \in Digests} \cup {ErrorPage}

Wire(r) ==
    IF r.framing = "length" THEN ByLength(Bytes(r.doc))
    ELSE IF r.framing = "close" THEN ByClose(Bytes(r.doc))
    ELSE IF r.framing = "chunks" THEN ByChunks(Byte(r.doc, 1), Byte(r.doc, 2))
    ELSE Malformed(Bytes(r.doc))

\* The registry serves an image to who holds a token for that image, and may
\* fail anyway or serve another blob than the one asked for.
Answers(o) ==
    {ErrorPage} \cup
    IF o.kind = "token" THEN {TokenFor(o.image)}
    ELSE IF o.token # o.image THEN {}
    ELSE IF o.kind = "manifest" THEN {ManifestOf(o.image)}
    ELSE {Blob(d) : d \in Digests}
-----------------------------------------------------------------------------
(* Parsing JSON: a text that is cut does not parse; a value of another     *)
(* shape has no such field.                                                *)

IsJson(body) == \E doc \in Documents : body = Bytes(doc) /\ doc.doc # "blob"
Parsed(body) == CHOOSE doc \in Documents : body = Bytes(doc)

\* Seeded form: a manifest without layers is one with no layers.
from_json_Lenient(body) ==
    IF ~ IsJson(body) THEN Err("Json")
    ELSE IF Parsed(body).doc # "manifest" THEN Ok(<<>>)
    ELSE Ok(LayersOf[Parsed(body).image])

\* ImageManifest::from_json: config and schema version have defaults, the
\* layers must be there.
from_json(body) ==
    IF ~ IsJson(body) THEN Err("Json")
    ELSE IF Parsed(body).doc # "manifest" THEN Err("MissingField")
    ELSE Ok(LayersOf[Parsed(body).image])

token_of(body) ==
    IF ~ IsJson(body) THEN Err("Json")
    ELSE IF Parsed(body).doc # "token" THEN Err("Auth")
    ELSE Ok(Parsed(body).image)

verify_sha256(data, digest) == data = Content(digest)
-----------------------------------------------------------------------------
NoOp == [kind |-> "none"]
NoReply == [doc |-> ErrorPage, framing |-> "length"]

PullInit ==
    /\ Init
    /\ stage = "free" /\ op = NoOp /\ reply = NoReply
    /\ token = NoImage
    /\ layers = [d \in {} |-> <<>>] /\ images = [i \in {} |-> <<>>]

\* The request goes out, or fails before it does.
Request(o) ==
    /\ \/ Connect /\ stage' = "wait" /\ op' = o
       \/ Refuse /\ stage' = "free" /\ op' = NoOp
    /\ UNCHANGED <<reply, registryVars>>

authenticate(i) ==
    /\ stage = "free"
    /\ Request([kind |-> "token", image |-> i, then |-> FALSE])

pull_manifest(i) ==
    /\ stage = "free" /\ calls + 1 < MaxCalls
    /\ Request([kind |-> "token", image |-> i, then |-> TRUE])

fetch_manifest(i) ==
    /\ stage = "free"
    /\ Request([kind |-> "manifest", image |-> i, token |-> token])

\* pull_manifest once authenticate has returned Ok.
ThenFetch ==
    /\ stage = "again"
    /\ Request([kind |-> "manifest", image |-> op.image, token |-> token])

pull_layer(i, d) ==
    /\ stage = "free"
    /\ Request([kind |-> "layer", image |-> i, digest |-> d, token |-> token])

\* What http::get returns once https_request has.
Response == IF result # "ok" THEN Err("Network")
            ELSE parse_response(Received(Wire(reply), response))

Returns == stage = "wait" /\ pc = "idle" /\ UNCHANGED vars
Free == stage' = "free" /\ op' = NoOp /\ reply' = NoReply

\* Any error: token and store stay as they were.
Fails(r) == ~ r.ok /\ Free /\ UNCHANGED registryVars

Authenticated ==
    /\ Returns /\ op.kind = "token"
    /\ LET r == IF Response.ok THEN token_of(Response.body) ELSE Response
       IN  \/ Fails(r)
           \/ /\ r.ok
              /\ token' = r.body
              /\ IF op.then THEN stage' = "again" /\ UNCHANGED <<op, reply>> ELSE Free
              /\ UNCHANGED <<layers, images>>

\* store_image overwrites what is under the name.
store_image(i, manifest) ==
    images' = [x \in DOMAIN images \cup {i} |-> IF x = i THEN manifest ELSE images[x]]

ManifestFetched ==
    /\ Returns /\ op.kind = "manifest"
    /\ LET r == IF Response.ok THEN from_json(Response.body) ELSE Response
       IN  \/ Fails(r)
           \/ /\ r.ok
              /\ store_image(op.image, r.body)
              /\ Free
              /\ UNCHANGED <<token, layers>>

\* store_layer keeps what is already there.
store_layer(d, data) ==
    layers' = IF d \in DOMAIN layers THEN layers
              ELSE [x \in DOMAIN layers \cup {d} |-> IF x = d THEN data ELSE layers[x]]

\* Seeded form: the digest is not compared with the bytes.
LayerPulled_Unverified ==
    /\ Returns /\ op.kind = "layer"
    /\ \/ Fails(Response)
       \/ /\ Response.ok
          /\ store_layer(op.digest, Response.body)
          /\ Free
          /\ UNCHANGED <<token, images>>

LayerPulled ==
    /\ Returns /\ op.kind = "layer"
    /\ LET r == IF Response.ok /\ ~ verify_sha256(Response.body, op.digest)
                THEN Err("DigestMismatch") ELSE Response
       IN  \/ Fails(r)
           \/ /\ r.ok
              /\ store_layer(op.digest, r.body)
              /\ Free
              /\ UNCHANGED <<token, images>>

\* The server decides what it answers when it accepts.
PullAccept ==
    /\ stage = "wait" /\ server.conn = "syn"
    /\ \E doc \in Answers(op), f \in Framings : reply' = [doc |-> doc, framing |-> f]
    /\ Accept /\ server'.len = Len(Wire(reply'))
    /\ UNCHANGED <<stage, op, registryVars>>

Transport == (Caller \/ Reply \/ Close \/ Reset) /\ UNCHANGED pullVars

PullDone == /\ stage = "free" /\ pc = "idle" /\ calls = MaxCalls
            /\ UNCHANGED allVars

Operations == \/ \E i \in Images : authenticate(i) \/ pull_manifest(i) \/ fetch_manifest(i)
              \/ \E i \in DOMAIN images : \E d \in ToSet(images[i]) : pull_layer(i, d)

Registry == ThenFetch \/ Authenticated \/ ManifestFetched \/ LayerPulled

PullNext == Operations \/ Registry \/ PullAccept \/ Transport \/ PullDone

\* The code between two calls and the loops of a call run on; the server owes
\* nothing.
PullSpec ==
    /\ PullInit /\ [][PullNext]_allVars
    /\ WF_allVars(Registry) /\ WF_allVars(Caller /\ UNCHANGED pullVars)
    /\ WF_allVars(PollRound /\ ~polling' /\ UNCHANGED pullVars)
-----------------------------------------------------------------------------
PullTypeOK ==
    /\ TypeOK
    /\ stage \in {"free", "wait", "again"}
    /\ token \in Images \cup {NoImage}
    /\ reply \in [doc : Documents, framing : Framings]
    /\ DOMAIN layers \subseteq Digests /\ DOMAIN images \subseteq Images

\* Whatever was cut, refused, mixed up or refetched, the store holds under a
\* digest the bytes with that digest, and never replaces them
\* (registry.rs:86-88, image_store.rs:36-46).
Store == INSTANCE ContentStore
StoreSpec == Store!Spec

\* An image's entry is its own whole manifest, though no status is ever looked
\* at: an error page, another document or a cut one is refused by what it
\* lacks (registry.rs:67-69, manifest.rs:41-43).
ManifestsAreGenuine == \A i \in DOMAIN images : images[i] = LayersOf[i]

\* However a connection ends, a close loses nothing the server sent before it,
\* and a body that parses is the whole document unless the server itself reset
\* the connection or closed it early and the framing cannot tell: it has no end
\* mark, or a length that is not compared with what came.  Chunks always tell
\* (http.rs:81-101, tls.rs:136-154).
CutsAreSeen ==
    stage = "wait" /\ pc = "idle" /\ Response.ok =>
        /\ server.conn = "gone" => response = server.sent
        /\ IsPrefix(Response.body, Bytes(reply.doc))
        /\ \/ Response.body = Bytes(reply.doc)
           \/ /\ reply.framing # "chunks"
              /\ server.conn = "reset" \/ server.sent < server.len

\* "Use Content-Length if present" (http.rs:86): a body as long as announced.
LengthIsChecked ==
    stage = "wait" /\ pc = "idle" /\ reply.framing = "length" /\ Response.ok =>
        Len(Response.body) = Len(Bytes(reply.doc))

\* The layer decoder on every member of bounded size, checked once, before the
\* first request.
LayersUnpack == calls = 0 => EnvelopeIsStripped

\* Every operation returns, whatever the server accepts, answers, cuts or
\* resets, unless it keeps the connection open in silence for ever
\* (tls.rs:107-154).
OperationReturns == []<>(stage = "free") \/ <>[]Silent

\* "until the server closes the connection" (tls.rs:134), which one need not do.
OperationAlwaysReturns == []<>(stage = "free")
=============================================================================

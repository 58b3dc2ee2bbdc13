------------------------------- MODULE Format -------------------------------
(***************************************************************************)
(* The cassette file (crates/cassetter-core/src/cassette/format.rs and     *)
(* format_toml.rs): what a cassette is written as, and what is read back   *)
(* from a file of cassetter or of VCR.                                     *)
(*                                                                         *)
(* A body in a file is [shape, type, content].  The shape is that of the   *)
(* YAML node: "envelope" for a mapping {type, content}, "string",          *)
(* "string_map" for VCR's {string: ...}, "mapping" for any other mapping,  *)
(* "scalar" for a number or a boolean, "null" also for a missing node.     *)
(* Content is a record like a Body whose kind is "absent", "json" for the  *)
(* value of a JSON body, "text", or "hex" for a string of hex digits.      *)
(*                                                                         *)
(* `binaries` maps the placeholders that stand in the file for its         *)
(* !!binary scalars to their bytes (extract_binary_scalars).               *)
(***************************************************************************)
EXTENDS Scrub

Absent == Body("absent", NoDoc, NoText, NoBytes)
HexString(bytes) == Body("hex", NoDoc, NoText, bytes)
RawBody(type, content) == [type |-> type, content |-> content]
RawBody_default == RawBody("", Absent)
Envelope(raw) == [shape |-> "envelope", type |-> raw.type, content |-> raw.content]
VcrBody(shape, content) == [shape |-> shape, type |-> "", content |-> content]

(* A placeholder is an ordinary string, which a recorded body may be, too. *)
BINARY_SENTINEL_PREFIX == "__cassetter@binary@scalar@"
binary_sentinel(n) ==
    Text(<<Line(FALSE, PairsPayload(<<[key |-> BINARY_SENTINEL_PREFIX, val |-> n]>>))>>,
         TRUE)
Resolves(text, binaries) == \E n \in DOMAIN binaries : text = binary_sentinel(n)

-----------------------------------------------------------------------------
(* Reading.                                                                *)

(* A VCR string: nothing, JSON if it parses, otherwise text.               *)
vcr_string_to_raw_body(content) ==
    IF content = Body_text(NoText) THEN RawBody_default
    ELSE IF content.kind = "text" /\ IsJsonText(content.text)
    THEN RawBody("json", Body_json(DocOf(content.text)))
    ELSE RawBody("text", content)

deserialize_body(node) ==
    CASE node.shape \in {"null", "scalar"} -> RawBody_default
      [] node.shape = "string"             -> vcr_string_to_raw_body(node.content)
      [] node.shape = "envelope"           -> RawBody(node.type, node.content)
      [] node.shape = "string_map"         ->
             IF node.content.kind = "text" THEN vcr_string_to_raw_body(node.content)
             ELSE RawBody_default
      [] node.shape = "mapping"            -> RawBody("json", node.content)

(* The derived deserializer of the gRPC and WebSocket bodies: an Option    *)
(* reads null as None.                                                     *)
derive_body(node) ==
    RawBody(node.type,
            IF node.content.kind = "json" /\ node.content.doc = Doc(Null)
            THEN Absent ELSE node.content)

body_from_raw(raw, binaries) ==
    CASE raw.type = "json" /\ raw.content.kind = "json"   -> raw.content
      [] raw.type = "text" /\ raw.content.kind = "text"   ->
             IF Resolves(raw.content.text, binaries)
             THEN Body_binary(binaries[raw.content.text.lines[1].payload.pairs[1].val])
             ELSE raw.content
      [] raw.type = "binary" /\ raw.content.kind = "hex"  -> Body_binary(raw.content.raw)
      [] raw.type = "binary" /\ raw.content.kind = "text" -> raw.content
      [] OTHER                                            -> Body_none

IsU16(n) == n \in Nat /\ n < 65536

(* A number, or VCR's {code, message}; it has to fit a u16.                *)
deserialize_status(status) ==
    [ok |-> IsU16(status.code) /\ status.shape \in {"number", "code_map"},
     status |-> status.code]

(* A list of values, one value, or none; nested and null items are skipped *)
(* (a mapping in place of the list fails the load; no file here has one).  *)
(* A !!binary value reads as the text of its bytes (resolve_headers).      *)
deserialize_headers(headers) ==
    [n \in DOMAIN headers |->
        CASE headers[n].shape = "seq"  -> Without(headers[n].items, "nested")
          [] headers[n].shape = "null" -> <<>>
          [] OTHER                     -> headers[n].items]

request_from_raw(raw, binaries) ==
    [method |-> raw.method, uri |-> raw.uri,
     headers |-> deserialize_headers(raw.headers),
     body |-> IF raw.parsed_body # Absent THEN Body_json(raw.parsed_body.doc)
              ELSE body_from_raw(deserialize_body(raw.body), binaries)]

response_from_raw(raw, binaries) ==
    [status |-> deserialize_status(raw.status).status,
     headers |-> deserialize_headers(raw.headers), length |-> raw.length,
     body |-> IF raw.parsed_body # Absent THEN Body_json(raw.parsed_body.doc)
              ELSE body_from_raw(deserialize_body(raw.body), binaries)]

grpc_from_raw(raw, binaries) ==
    [raw EXCEPT !.request.body = body_from_raw(derive_body(@), binaries),
                !.response.body = body_from_raw(derive_body(@), binaries)]

Each(Op(_), s) == [k \in DOMAIN s |-> Op(s[k])]

frame_from_raw(raw, binaries) ==
    [raw EXCEPT !.body = body_from_raw(derive_body(@), binaries)]
ws_from_raw(raw, binaries) ==
    [raw EXCEPT !.frames = Each(LAMBDA f : frame_from_raw(f, binaries), raw.frames)]

(* A status that does not fit fails the whole load.                        *)
from_raw(raw, binaries) ==
    [ok |-> \A k \in DOMAIN raw.interactions :
                deserialize_status(raw.interactions[k].response.status).ok,
     cassette |->
       [interactions |->
           Each(LAMBDA i : [request  |-> request_from_raw(i.request, binaries),
                            response |-> response_from_raw(i.response, binaries)],
                raw.interactions),
        grpc_interactions |-> Each(LAMBDA i : grpc_from_raw(i, binaries),
                                   raw.grpc_interactions),
        ws_interactions |-> Each(LAMBDA i : ws_from_raw(i, binaries),
                                 raw.ws_interactions),
        observed_requests |-> Each(LAMBDA r : request_from_raw(r, binaries),
                                   raw.observed_requests)]]

-----------------------------------------------------------------------------
(* Writing.                                                                *)

(* The type and the content of a body; its bytes are hex digits.           *)
TypedBody(body) ==
    CASE body.kind = "json"   -> RawBody("json", body)
      [] body.kind = "text"   -> RawBody("text", body)
      [] body.kind = "binary" -> RawBody("binary", HexString(body.raw))
      [] body.kind = "none"   -> RawBody("none", Absent)

body_to_raw(body) == Envelope(TypedBody(body))

sorted_headers(headers) ==
    [n \in DOMAIN headers |-> [shape |-> "seq", items |-> headers[n]]]

request_to_raw(request) ==
    [method |-> request.method, uri |-> request.uri,
     headers |-> sorted_headers(request.headers),
     body |-> body_to_raw(request.body), parsed_body |-> Absent]

response_to_raw(response) ==
    [status |-> [shape |-> "number", code |-> response.status],
     headers |-> sorted_headers(response.headers), length |-> response.length,
     body |-> body_to_raw(response.body), parsed_body |-> Absent]

grpc_to_raw(i) ==
    [i EXCEPT !.request.body = body_to_raw(@), !.response.body = body_to_raw(@)]

frame_to_raw(frame) == [frame EXCEPT !.body = body_to_raw(@)]
ws_to_raw(i) == [i EXCEPT !.frames = Each(frame_to_raw, i.frames)]

(* The HTTP interactions in the given order, which is a permutation of     *)
(* their positions: save refuses any other.                                *)
InOrder(cassette, order) ==
    [k \in DOMAIN order |-> cassette.interactions[order[k]]]

(* A defect: a save of the HTTP client writes the protocols it knows.      *)
RecordedProtocols(cassette, order) ==
    [interactions |->
        Each(LAMBDA i : [request  |-> request_to_raw(i.request),
                         response |-> response_to_raw(i.response)],
             InOrder(cassette, order)),
     grpc_interactions |-> Each(grpc_to_raw, cassette.grpc_interactions),
     ws_interactions |-> Each(ws_to_raw, cassette.ws_interactions),
     observed_requests |-> <<>>]

to_raw(cassette, order) ==
    [interactions |->
        Each(LAMBDA i : [request  |-> request_to_raw(i.request),
                         response |-> response_to_raw(i.response)],
             InOrder(cassette, order)),
     grpc_interactions |-> Each(grpc_to_raw, cassette.grpc_interactions),
     ws_interactions |-> Each(ws_to_raw, cassette.ws_interactions),
     observed_requests |-> Each(request_to_raw, cassette.observed_requests)]

-----------------------------------------------------------------------------
(* TOML: HTTP alone, and JSON as a string, for TOML has no null.           *)

body_to_toml(body) ==
    CASE body.kind = "json"   -> RawBody("json", Body_text(CompactJson(body.doc)))
      [] body.kind = "text"   -> RawBody("text", body)
      [] body.kind = "binary" -> RawBody("binary", HexString(body.raw))
      [] body.kind = "none"   -> RawBody("none", Absent)

body_from_toml(raw) ==
    CASE raw.content.kind = "absent" -> [ok |-> TRUE, body |-> Body_none]
      [] raw.type = "json" /\ raw.content.kind = "text" ->
             IF IsJsonText(raw.content.text)
             THEN [ok |-> TRUE, body |-> Body_json(DocOf(raw.content.text))]
             ELSE [ok |-> FALSE, body |-> Body_none]
      [] raw.type = "text" /\ raw.content.kind = "text" -> [ok |-> TRUE, body |-> raw.content]
      [] raw.type = "binary" /\ raw.content.kind = "hex" ->
             [ok |-> TRUE, body |-> Body_binary(raw.content.raw)]
      [] OTHER -> [ok |-> FALSE, body |-> Body_none]

interaction_to_toml(i) ==
    [i EXCEPT !.request.body = body_to_toml(@), !.response.body = body_to_toml(@)]
interaction_from_toml(raw) ==
    [raw EXCEPT !.request.body = body_from_toml(@).body,
                !.response.body = body_from_toml(@).body]

to_toml(cassette, order) == Each(interaction_to_toml, InOrder(cassette, order))

NoCassette == [interactions |-> <<>>, grpc_interactions |-> <<>>,
               ws_interactions |-> <<>>, observed_requests |-> <<>>]

(* One body that cannot be read fails the whole load.                      *)
from_toml(raw) ==
    [ok |-> \A k \in DOMAIN raw : /\ body_from_toml(raw[k].request.body).ok
                                   /\ body_from_toml(raw[k].response.body).ok,
     cassette |->
        [NoCassette EXCEPT !.interactions = Each(interaction_from_toml, raw)]]

-----------------------------------------------------------------------------
(***************************************************************************)
(* cassette/mod.rs: a file is [toml, raw, binaries].  Saving fails for an  *)
(* order that is no permutation, and in TOML for a cassette that holds     *)
(* more than HTTP interactions.                                            *)
(***************************************************************************)
Saved(toml, raw) == [toml |-> toml, raw |-> raw, binaries |-> [n \in {} |-> NoBytes]]

load(file) ==
    IF file.toml THEN from_toml(file.raw) ELSE from_raw(file.raw, file.binaries)

TomlCanHold(cassette) ==
    /\ cassette.grpc_interactions = <<>>
    /\ cassette.ws_interactions = <<>>
    /\ cassette.observed_requests = <<>>

save(cassette, toml, order) ==
    Saved(toml, IF toml THEN to_toml(cassette, order) ELSE to_raw(cassette, order))
=============================================================================

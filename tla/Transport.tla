----------------------------- MODULE Transport ------------------------------
(***************************************************************************)
(* What the Rust SDK's transports make of the messages they carry          *)
(* (crates/cassetter/src: reqwest_body.rs, tonic_body.rs,                  *)
(* tonic_metadata.rs, recorder_state.rs).                                  *)
(*                                                                         *)
(* On the wire an HTTP request is [method, uri, headers, bytes], an HTTP   *)
(* response [status, headers, length, bytes] with -1 for a missing         *)
(* Content-Length, a gRPC request [path, headers, frame] and a gRPC        *)
(* response [http, headers, trailers, frame].  A header map is a function  *)
(* from names to sequences of values; Opaque is a value that is no text.   *)
(***************************************************************************)
EXTENDS CompareResponses

CONSTANTS
    ParseStatus,    \* the strings that parse as a u32 -> their value
    PercentDecode   \* wire form of a status message -> the message

Opaque == "opaque"

(* Every status up to 16 has a text, and what is said without being sent   *)
(* can be sent; markers are no texts.                                      *)
ASSUME StatusAssumption ==
    /\ \A n \in 0..16 : \E s \in DOMAIN ParseStatus : ParseStatus[s] = n
    /\ \A s \in DOMAIN ParseStatus : ParseStatus[s] \in Nat
    /\ \A m \in {"", "OK", "missing grpc-status"} :
         \E w \in DOMAIN PercentDecode : PercentDecode[w] = m
    /\ {"absent", Opaque} \cap (DOMAIN ParseStatus \cup DOMAIN PercentDecode) = {}

NoHeaders == [n \in {} |-> <<>>]

-----------------------------------------------------------------------------
(* reqwest_body.rs and reqwest.rs                                          *)

(* Values that are no text are left out, and names with nothing else.      *)
headers_to_map(headers) ==
    LET kept(n) == Without(headers[n], Opaque)
    IN  [n \in {m \in DOMAIN headers : kept(m) # <<>>} |-> kept(n)]

(* The first value of a header, whatever its case.                         *)
header(headers, name) ==
    LET named == {n \in DOMAIN headers : Lower[n] = name /\ headers[n] # <<>>}
    IN  IF named = {} THEN "absent" ELSE headers[CHOOSE n \in named : TRUE][1]

Read(bytes, headers) ==
    process_body(bytes, header(headers, "content-type"),
                 header(headers, "content-encoding"))

recorded_request(wire) ==
    [method |-> wire.method, uri |-> wire.uri,
     headers |-> headers_to_map(wire.headers),
     body |-> Read(wire.bytes, headers_to_map(wire.headers)).body]

(* A defect: the body is stored decoded and the header still says gzip.    *)
AllHeaders(headers) == headers

(* The body is stored decoded, so Content-Encoding goes.                   *)
stored_headers(headers) ==
    [n \in {m \in DOMAIN headers : Lower[m] # "content-encoding"} |-> headers[n]]

recorded_response(wire) ==
    [status |-> wire.status, length |-> wire.length,
     headers |-> stored_headers(headers_to_map(wire.headers)),
     body |-> Read(wire.bytes, headers_to_map(wire.headers)).body]

(* A Content-Length that is there is made true of what is stored.          *)
retag_content_length(response) ==
    IF response.body.kind = "none" \/ response.length = -1 THEN response
    ELSE [response EXCEPT !.length = Size(body_bytes(response.body))]

(* A recorded status outside 100..999 cannot be replayed.                  *)
Replayable(response) == response.status \in 100..999

replay_http(response) ==
    [status |-> response.status, headers |-> response.headers,
     length |-> response.length, bytes |-> body_bytes(response.body)]

-----------------------------------------------------------------------------
(* tonic_body.rs: the bytes of a body are a frame [kind, payload], whose   *)
(* kind is "one" for one uncompressed message, "empty", "short",           *)
(* "compressed" or "many".                                                 *)

decode_grpc_frame(frame) == [ok |-> frame.kind = "one", body |-> Body_binary(frame.payload)]

(* A defect: a message without bytes is taken for no message.              *)
DecodeNonEmpty(frame) ==
    IF frame.payload = NoBytes THEN [ok |-> TRUE, body |-> Body_none]
    ELSE decode_grpc_frame(frame)

decode_optional_grpc_frame(frame) ==
    IF frame.kind = "empty" THEN [ok |-> TRUE, body |-> Body_none]
    ELSE decode_grpc_frame(frame)

encode_grpc_frame(body) ==
    IF body.kind = "none" THEN [kind |-> "empty", payload |-> NoBytes]
    ELSE [kind |-> "one", payload |-> body.raw]

-----------------------------------------------------------------------------
(* tonic_metadata.rs                                                       *)

status_from_http(status) ==
    CASE status = 400                  -> 13
      [] status = 401                  -> 16
      [] status = 403                  -> 7
      [] status = 404                  -> 12
      [] status \in {429, 502, 503, 504} -> 14
      [] OTHER                         -> 2

(* The wording for a status that was derived is left out.                  *)
default_status_message(explicit_status, status) ==
    IF ~ explicit_status THEN "missing grpc-status" ELSE IF status = 0 THEN "OK" ELSE ""

(* The first value of `name` in the trailers, else in the headers.         *)
FromTrailersOrHeaders(name, headers, trailers) ==
    IF name \in DOMAIN trailers THEN trailers[name][1]
    ELSE IF name \in DOMAIN headers THEN headers[name][1] ELSE "absent"

(* A status that is no number up to 16 is an error; a message that is no   *)
(* text is passed over.                                                    *)
grpc_status(http, headers, trailers) ==
    LET code     == FromTrailersOrHeaders("grpc-status", headers, trailers)
        explicit == code # "absent"
        valid    == code \in DOMAIN ParseStatus /\ ParseStatus[code] <= 16
        status   == IF explicit THEN ParseStatus[code] ELSE status_from_http(http)
        message  == FromTrailersOrHeaders("grpc-message", headers, trailers)
    IN  IF explicit /\ ~ valid THEN [ok |-> FALSE, status |-> 0, message |-> ""]
        ELSE [ok |-> TRUE, status |-> status,
              message |-> IF message \in {"absent", Opaque}
                          THEN default_status_message(explicit, status)
                          ELSE PercentDecode[message]]

is_transport_header(name) ==
    name \in {"content-type", "content-length", "te", "user-agent", "grpc-status",
              "grpc-message", "grpc-encoding", "grpc-accept-encoding",
              "grpc-timeout", "date"}

(* Metadata that is no text is an error.                                   *)
metadata_to_map(headers) ==
    LET names == {n \in DOMAIN headers : ~ is_transport_header(n)}
    IN  [ok  |-> \A n \in names : \A k \in DOMAIN headers[n] : headers[n][k] # Opaque,
         map |-> [n \in names |-> headers[n]]]

Values(map, n) == IF n \in DOMAIN map THEN map[n] ELSE <<>>

merge_metadata(target, source) ==
    [n \in DOMAIN target \cup DOMAIN source |-> Values(target, n) \o Values(source, n)]

(* headers.insert                                                          *)
Insert(map, name, value) ==
    [n \in DOMAIN map \cup {name} |-> IF n = name THEN <<value>> ELSE map[n]]

(* What is sent for a message so that it decodes to it (NON_ALPHANUMERIC). *)
PercentEncode(message) == CHOOSE w \in DOMAIN PercentDecode : PercentDecode[w] = message
StatusText(n) == CHOOSE s \in DOMAIN ParseStatus : ParseStatus[s] = n

(* tonic_body.rs: the metadata are replayed as headers and as trailers.    *)
replay_grpc(response) ==
    LET metadata == Insert(response.metadata, "content-type", "application/grpc")
    IN  [http |-> 200, headers |-> metadata,
         trailers |-> Insert(Insert(metadata, "grpc-status", StatusText(response.status_code)),
                             "grpc-message", PercentEncode(response.status_message)),
         frame |-> encode_grpc_frame(response.body)]

(* A body that is neither binary nor none cannot be replayed.              *)
GrpcReplayable(response) == response.body.kind \in {"none", "binary"}
=============================================================================

------------------------------ MODULE Exchange ------------------------------
(***************************************************************************)
(* What is recorded is what is replayed.  The Rust SDK's reqwest client    *)
(* and tonic service (crates/cassetter/src) over the core's bodies,        *)
(* scrubbing and file formats: sessions that record, replay and verify     *)
(* complete messages, one after the other on one cassette file, and        *)
(* sessions of the Node binding in between.                                *)
(*                                                                         *)
(* One call is made at a time: how calls interleave is the subject of      *)
(* module Recorder.  So a recording is inserted at the end of its tape,    *)
(* and the order reserved for it is only pending or settled.               *)
(***************************************************************************)
EXTENDS Transport, RecordMode

CONSTANTS
    Security, Compare,   \* RecorderBuilder::security, ::compare
    MatchOn,             \* RecorderBuilder::match_on, among method, uri, body
    SessionModes,        \* the record modes sessions use
    HttpCalls,           \* <<wire request, wire response>>: what may be asked and answered
    GrpcCalls,           \* the same for unary RPCs
    NodeHttp, NodeGrpc, NodeWs,  \* interactions a Node program records
    InitialFiles,        \* cassette files written before
    Secrets,             \* the values that must not be written
    MaxInteractions      \* bound: interactions in a cassette that is added to

-----------------------------------------------------------------------------
(* What messages and files are made of.                                    *)

IsSeq(s) == s \in Seq(Elements(s))
IsFunction(f) == f = [x \in DOMAIN f |-> f[x]]

(* Header values are strings; "nested" marks a YAML node that is none.     *)
IsHeaders(h) == IsFunction(h) /\ \A n \in DOMAIN h : h[n] \in Seq(STRING \ {"nested"})

IsText(text) == text = Text(text.lines, text.nfc) /\ IsSeq(text.lines)

IsGrpc(wire) == "frame" \in DOMAIN wire

(* A status is a u16.  A message without a frame is no bytes, and a status *)
(* message that is text is percent-encoded.                                *)
ASSUME CallsAssumption ==
    /\ MatchOn \subseteq {"method", "uri", "body"}
    /\ SessionModes \subseteq Modes
    /\ \A c \in HttpCalls :
         /\ ~ IsGrpc(c[1])
         /\ IsHeaders(c[1].headers) /\ IsHeaders(c[2].headers)
         /\ IsU16(c[2].status) /\ IsText(c[2].bytes.text)
    /\ \A c \in GrpcCalls :
         /\ IsGrpc(c[1])
         /\ c[2].frame = [kind |-> c[2].frame.kind, payload |-> c[2].frame.payload]
         /\ c[2].frame.kind = "empty" => c[2].frame.payload = NoBytes
         /\ FromTrailersOrHeaders("grpc-message", c[2].headers, c[2].trailers)
              \in DOMAIN PercentDecode \cup {"absent", Opaque}

(* The content of a body as a file or a JavaScript object has it.          *)
IsContent(c) ==
    c \in {Absent, Body_json(c.doc), Body_text(c.text), HexString(c.raw)}

RequestShape(r) ==
    r = [method |-> r.method, uri |-> r.uri, headers |-> r.headers, body |-> r.body]
ResponseShape(r) ==
    r = [status |-> r.status, length |-> r.length, headers |-> r.headers, body |-> r.body]
HttpShape(i) ==
    /\ i = [request |-> i.request, response |-> i.response]
    /\ RequestShape(i.request) /\ ResponseShape(i.response)
GrpcShape(i) ==
    /\ i = [request |-> i.request, response |-> i.response, json_debug |-> i.json_debug]
    /\ i.request = [method |-> i.request.method, metadata |-> i.request.metadata,
                    body |-> i.request.body]
    /\ i.response = [status_code |-> i.response.status_code,
                     status_message |-> i.response.status_message,
                     metadata |-> i.response.metadata, body |-> i.response.body]
WsShape(i) ==
    /\ i = [uri |-> i.uri, headers |-> i.headers, frames |-> i.frames]
    /\ IsSeq(i.frames)
    /\ \A f \in Elements(i.frames) :
         f = [direction |-> f.direction, frame_type |-> f.frame_type, body |-> f.body]

(* A request or response in a YAML file: a body of one of the shapes, and  *)
(* headers with a list, one value or none.                                 *)
IsYaml(m) ==
    /\ m.body.shape \in {"null", "scalar", "string", "envelope", "string_map", "mapping"}
    /\ IsContent(m.body.content)
    /\ IsFunction(m.headers)
    /\ \A n \in DOMAIN m.headers :
         m.headers[n].items \in
             Seq(IF m.headers[n].shape = "seq" THEN STRING ELSE STRING \ {"nested"})
IsYamlFile(raw) ==
    /\ \A kind \in DOMAIN NoCassette : IsSeq(raw[kind])
    /\ \A i \in Elements(raw.interactions) : IsYaml(i.request) /\ IsYaml(i.response)
    /\ \A r \in Elements(raw.observed_requests) : IsYaml(r)
    /\ \A i \in Elements(raw.grpc_interactions) :
         GrpcShape(i) /\ IsContent(i.request.body.content) /\ IsContent(i.response.body.content)
    /\ \A i \in Elements(raw.ws_interactions) :
         WsShape(i) /\ \A f \in Elements(i.frames) : IsContent(f.body.content)
IsTomlFile(raw) ==
    /\ IsSeq(raw)
    /\ \A i \in Elements(raw) :
         /\ HttpShape(i) /\ IsU16(i.response.status)
         /\ IsHeaders(i.request.headers) /\ IsHeaders(i.response.headers)
         /\ IsContent(i.request.body.content) /\ IsContent(i.response.body.content)

ASSUME FilesAssumption ==
    \A f \in InitialFiles : IF f.toml THEN IsTomlFile(f.raw) ELSE IsYamlFile(f.raw)

(* A Node program records complete objects.  JSON null as the body of an   *)
(* RPC or a frame is not among them: it is read back as no body.           *)
NotNull(body) == body.content.kind = "json" => body.content.doc[<<>>] # Null
ASSUME NodeAssumption ==
    /\ \A v \in NodeHttp :
         /\ HttpShape(v) /\ v.response.status \in Int
         /\ IsHeaders(v.request.headers) /\ IsHeaders(v.response.headers)
         /\ IsContent(v.request.body.content) /\ IsContent(v.response.body.content)
    /\ \A v \in NodeGrpc :
         /\ GrpcShape(v)
         /\ \A b \in {v.request.body, v.response.body} : IsContent(b.content) /\ NotNull(b)
    /\ \A v \in NodeWs :
         /\ WsShape(v)
         /\ \A f \in Elements(v.frames) : IsContent(f.body.content) /\ NotNull(f.body)

-----------------------------------------------------------------------------
VARIABLES
    path_toml,   \* is_toml(path)
    disk,        \* the cassette file, or NoFile
    session,     \* State, or Closed
    call,        \* the call in progress, or Idle
    result,      \* the last call: what it returned, its request and response
    held, kept   \* ghost: the live exchanges recorded in the session's
                 \* cassette, and those in the file

vars == <<path_toml, disk, session, call, result, held, kept>>

HttpRequests == {c[1] : c \in HttpCalls}
GrpcRequests == {c[1] : c \in GrpcCalls}

NoFile == [toml |-> FALSE, raw |-> <<>>, binaries |-> <<>>]
Closed == [open |-> FALSE]
Idle == [phase |-> "idle"]
NoResult == [what |-> "none"]

Init ==
    /\ path_toml \in BOOLEAN
    /\ disk \in {NoFile} \cup {f \in InitialFiles : f.toml = path_toml}
    /\ session = Closed /\ call = Idle /\ result = NoResult
    /\ held = <<>> /\ kept = <<>>

-----------------------------------------------------------------------------
(* recorder_state.rs                                                       *)

Session(m, exists, cassette) ==
    [open |-> TRUE, mode |-> m, can_record |-> CanRecord(m, exists),
     cassette |-> cassette,
     played |-> [i \in DOMAIN cassette.interactions |-> FALSE],
     grpc_played |-> [i \in DOMAIN cassette.grpc_interactions |-> FALSE],
     pending |-> FALSE, errors |-> FALSE, save_empty |-> exists /\ m = "All"]

(* State::from_builder; a file that cannot be read gives no session.       *)
from_builder(m) ==
    LET exists == disk # NoFile
        loads  == exists /\ ~ Replaces(m)
    IN  /\ session = Closed
        /\ loads => load(disk).ok
        /\ session' = Session(m, exists, IF loads THEN load(disk).cassette ELSE NoCassette)
        /\ disk' = IF m = "Rewrite" THEN NoFile ELSE disk
        /\ kept' = IF m = "Rewrite" THEN <<>> ELSE kept
        /\ held' = IF loads THEN kept ELSE <<>>
        /\ result' = NoResult
        /\ UNCHANGED <<path_toml, call>>

-----------------------------------------------------------------------------
(* recorder.rs: looking for a recording                                    *)

(* A defect: the request is looked up as it was sent.                      *)
AsSent(request) == request

Probe(request) ==
    scrub_interaction(Security,
        [request |-> request,
         response |-> [status |-> 0, headers |-> NoHeaders, body |-> Body_none]]).request

Candidates(request) ==
    LET probe == Probe(request)
    IN  {i \in DOMAIN session.cassette.interactions :
            \A f \in MatchOn : session.cassette.interactions[i].request[f] = probe[f]}

(* A gRPC body is binary or absent, and those are not scrubbed.            *)
GrpcCandidates(request) ==
    {i \in DOMAIN session.cassette.grpc_interactions :
        LET recorded == session.cassette.grpc_interactions[i].request
        IN  recorded.method = request.method /\ recorded.body = request.body}

Take(candidates, played) ==
    LET fresh == {i \in candidates : ~ played[i]}
    IN  IF ~ Replays(session.mode) THEN 0
        ELSE IF fresh # {} THEN Min(fresh)
        ELSE IF ~ session.can_record /\ candidates # {} THEN Min(candidates) ELSE 0

Answer(what, request, response) ==
    result' = [what |-> what, request |-> request, response |-> response]

len(cassette) ==
    Len(cassette.interactions) + Len(cassette.grpc_interactions)
      + Len(cassette.ws_interactions) + Len(cassette.observed_requests)

(* reserve: an order is pending until the call records or fails.           *)
reserve(proto, wire, request) ==
    /\ session.can_record
    /\ len(session.cassette) < MaxInteractions
    /\ session' = [session EXCEPT !.pending = TRUE]
    /\ call' = [phase |-> "live", action |-> "record", proto |-> proto,
                wire |-> wire, request |-> request, recorded |-> <<>>]
    /\ result' = NoResult

NoMatch(wire) ==
    /\ ~ session.can_record
    /\ Answer("no match", wire, <<>>)
    /\ UNCHANGED <<session, call>>

-----------------------------------------------------------------------------
(* reqwest.rs: Client::execute up to the live request                      *)

PrepareHttp(wire) ==
    LET request == recorded_request(wire)
        n       == Take(Candidates(request), session.played)
        found   == session.cassette.interactions[n].response
    IN  \/ /\ n = 0
           /\ reserve("http", wire, request) \/ NoMatch(wire)
        \/ /\ n # 0 /\ session.mode # "Verify"
           /\ session' = [session EXCEPT !.played[n] = TRUE]
           /\ IF Replayable(found) THEN Answer("replayed", wire, replay_http(found))
              ELSE Answer("invalid", wire, <<>>)
           /\ UNCHANGED call
        \/ /\ n # 0 /\ session.mode = "Verify"
           /\ session' = [session EXCEPT !.played[n] = TRUE]
           /\ call' = [phase |-> "live", action |-> "verify", proto |-> "http",
                       wire |-> wire, request |-> request, recorded |-> found]
           /\ result' = NoResult

execute(wire) ==
    /\ session.open /\ call = Idle
    /\ IF Read(wire.bytes, headers_to_map(wire.headers)).ok THEN PrepareHttp(wire)
       ELSE Answer("invalid", wire, <<>>) /\ UNCHANGED <<session, call>>
    /\ UNCHANGED <<path_toml, disk, held, kept>>

(* tonic.rs: GrpcService::call up to the live request                      *)
grpc_request(wire) ==
    [method |-> wire.path, metadata |-> metadata_to_map(wire.headers).map,
     body |-> decode_grpc_frame(wire.frame).body]

PrepareGrpc(wire) ==
    LET request == grpc_request(wire)
        n       == Take(GrpcCandidates(request), session.grpc_played)
        found   == session.cassette.grpc_interactions[n].response
    IN  \/ /\ n = 0
           /\ reserve("grpc", wire, request) \/ NoMatch(wire)
        \/ /\ n # 0
           /\ session' = [session EXCEPT !.grpc_played[n] = TRUE]
           /\ IF GrpcReplayable(found) THEN Answer("replayed", wire, replay_grpc(found))
              ELSE Answer("invalid", wire, <<>>)
           /\ UNCHANGED call

GrpcService_call(wire) ==
    /\ session.open /\ call = Idle
    /\ IF decode_grpc_frame(wire.frame).ok /\ metadata_to_map(wire.headers).ok
       THEN PrepareGrpc(wire)
       ELSE Answer("invalid", wire, <<>>) /\ UNCHANGED <<session, call>>
    /\ UNCHANGED <<path_toml, disk, held, kept>>

-----------------------------------------------------------------------------
(* The live response arrives, or does not.                                 *)

(* The order is given up and the error remembered; a verify call just      *)
(* returns it.                                                             *)
fail_recording ==
    /\ session' = IF call.action = "record"
                  THEN [session EXCEPT !.pending = FALSE, !.errors = TRUE] ELSE session
    /\ Answer("failed", call.wire, <<>>)
    /\ UNCHANGED <<disk, held, kept>>

(* A defect: the error is returned and the order stays pending.            *)
FailQuietly ==
    Answer("failed", call.wire, <<>>) /\ UNCHANGED <<session, disk, held, kept>>

(* The response cannot be turned into an interaction.                      *)
reject_response == fail_recording

(* Recorder::save of `cassette`, the exchange `e` recorded last: requests  *)
(* that match alike stay in record order, the others are sorted by keys,   *)
(* which are abstract here.                                                *)
WriteOrders(tape) ==
    {o \in [DOMAIN tape -> DOMAIN tape] :
        /\ \A a, b \in DOMAIN tape : o[a] = o[b] => a = b
        /\ \A a, b \in DOMAIN tape :
             /\ a < b
             /\ \A f \in MatchOn : tape[o[a]].request[f] = tape[o[b]].request[f]
             => o[a] < o[b]}

RecordAndSave(next, e) ==
    /\ held' = Append(held, e)
    /\ IF path_toml /\ ~ TomlCanHold(next.cassette)
       THEN /\ session' = [next EXCEPT !.errors = TRUE]
            /\ Answer("failed", call.wire, <<>>)
            /\ UNCHANGED <<disk, kept>>
       ELSE /\ \E o \in WriteOrders(next.cassette.interactions) :
                  disk' = save(next.cassette, path_toml, o)
            /\ session' = next
            /\ kept' = held'
            /\ Answer("recorded", call.wire, e.response)

record_http(live) ==
    LET i      == scrub_interaction(Security, [request |-> call.request,
                                               response |-> recorded_response(live)])
        stored == [i EXCEPT !.response = retag_content_length(@)]
    IN  RecordAndSave(
          [session EXCEPT
             !.cassette.interactions = Append(@, stored),
             !.played = Append(@, TRUE),
             !.pending = FALSE, !.save_empty = FALSE],
          [proto |-> "http", request |-> call.wire, response |-> live])

(* A defect: the live response is compared before its length is made true. *)
NotRetagged(live) ==
    scrub_interaction(Security, [request |-> call.request,
                                 response |-> recorded_response(live)]).response

verifiable(live) ==
    retag_content_length(
        scrub_interaction(Security, [request |-> call.request,
                                     response |-> recorded_response(live)]).response)

verify_http(live) ==
    /\ Answer(IF Equivalent(Compare, call.recorded, verifiable(live))
              THEN "verified" ELSE "mismatch", call.wire, live)
    /\ UNCHANGED <<session, disk, held, kept>>

RespondHttp(live) ==
    /\ call.phase = "live" /\ call.proto = "http"
    /\ IF Read(live.bytes, headers_to_map(live.headers)).ok
       THEN IF call.action = "record" THEN record_http(live) ELSE verify_http(live)
       ELSE reject_response
    /\ call' = Idle
    /\ UNCHANGED path_toml

grpc_response(live) ==
    LET status == grpc_status(live.http, live.headers, live.trailers)
    IN  [status_code |-> status.status, status_message |-> status.message,
         metadata |-> merge_metadata(metadata_to_map(live.headers).map,
                                     metadata_to_map(live.trailers).map),
         body |-> decode_optional_grpc_frame(live.frame).body]
grpc_interaction(live) ==
    [request |-> call.request, response |-> grpc_response(live), json_debug |-> NoDoc]

record_grpc(live) ==
    RecordAndSave(
        [session EXCEPT
           !.cassette.grpc_interactions =
               Append(@, scrub_grpc_interaction(Security, grpc_interaction(live))),
           !.grpc_played = Append(@, TRUE),
           !.pending = FALSE, !.save_empty = FALSE],
        [proto |-> "grpc", request |-> call.wire, response |-> live])

RespondGrpc(live) ==
    /\ call.phase = "live" /\ call.proto = "grpc"
    /\ IF /\ decode_optional_grpc_frame(live.frame).ok
          /\ grpc_status(live.http, live.headers, live.trailers).ok
          /\ metadata_to_map(live.headers).ok /\ metadata_to_map(live.trailers).ok
       THEN record_grpc(live)
       ELSE reject_response
    /\ call' = Idle
    /\ UNCHANGED path_toml

(* The transport fails, before the response or while it is read.           *)
LiveFails ==
    /\ call.phase = "live"
    /\ fail_recording
    /\ call' = Idle
    /\ UNCHANGED path_toml

(* Recorder::finish; an `All` session without recordings empties the file. *)
finish ==
    /\ session.open /\ call = Idle
    /\ disk' = IF session.save_empty THEN save(session.cassette, path_toml, <<>>) ELSE disk
    /\ kept' = IF session.save_empty THEN <<>> ELSE kept
    /\ session' = Closed /\ held' = <<>>
    /\ result' = [what |-> IF session.errors THEN "errors"
                           ELSE IF session.pending THEN "incomplete" ELSE "ok"]
    /\ UNCHANGED <<path_toml, call>>

-----------------------------------------------------------------------------
(* crates/cassetter-node: a program loads the file, adds what it scrubbed  *)
(* and saves in the recorded order.                                        *)

(* The cassette a Node program starts from.                                *)
NodeCassette == IF disk = NoFile THEN NoCassette ELSE load(disk).cassette

NodeSaves(cassette) ==
    /\ session = Closed
    /\ disk # NoFile => load(disk).ok
    /\ len(NodeCassette) < MaxInteractions
    /\ path_toml => TomlCanHold(cassette)
    /\ disk' = save(cassette, path_toml, [k \in DOMAIN cassette.interactions |-> k])
    /\ result' = NoResult
    /\ UNCHANGED <<path_toml, session, call, held, kept>>

node_add_interaction(v) ==
    NodeSaves([NodeCassette EXCEPT !.interactions =
        Append(@, interaction_from_json(node_scrub_interaction(v, Security)))])

node_add_grpc_interaction(v) ==
    NodeSaves([NodeCassette EXCEPT !.grpc_interactions =
        Append(@, grpc_interaction_from_json(node_scrub_grpc_interaction(v, Security)))])

node_add_ws_interaction(v) ==
    NodeSaves([NodeCassette EXCEPT !.ws_interactions =
        Append(@, ws_interaction_from_json(node_scrub_ws_interaction(v, Security)))])

Next ==
    \/ \E m \in SessionModes : from_builder(m)
    \/ \E wire \in HttpRequests : execute(wire)
    \/ \E wire \in GrpcRequests : GrpcService_call(wire)
    \/ \E c \in HttpCalls : call # Idle /\ c[1] = call.wire /\ RespondHttp(c[2])
    \/ \E c \in GrpcCalls : call # Idle /\ c[1] = call.wire /\ RespondGrpc(c[2])
    \/ LiveFails
    \/ finish
    \/ \E v \in NodeHttp : node_add_interaction(v)
    \/ \E v \in NodeGrpc : node_add_grpc_interaction(v)
    \/ \E v \in NodeWs : node_add_ws_interaction(v)

Spec == Init /\ [][Next]_vars

-----------------------------------------------------------------------------
(* Properties                                                              *)

(* What the matcher sees of an HTTP request, and of an RPC.                *)
HttpKey(request) == [f \in MatchOn |-> request[f]]
GrpcKey(request) == <<request.method, request.body>>
Key(wire) == IF IsGrpc(wire) THEN GrpcKey(grpc_request(wire))
             ELSE HttpKey(Probe(recorded_request(wire)))

(* The exchanges in the file whose requests the matcher takes for `wire`.  *)
KeptFor(wire) ==
    {k \in DOMAIN kept : /\ IsGrpc(kept[k].request) = IsGrpc(wire)
                         /\ Key(kept[k].request) = Key(wire)}

(* Recordings that are no session's: those of the files that were there    *)
(* and those that Node programs add.                                       *)
ForeignHttp ==
    (UNION {Elements(load(f).cassette.interactions) : f \in {g \in InitialFiles : load(g).ok}})
      \cup {interaction_from_json(node_scrub_interaction(v, Security)) : v \in NodeHttp}
ForeignGrpc ==
    (UNION {Elements(load(f).cassette.grpc_interactions) : f \in {g \in InitialFiles : load(g).ok}})
      \cup {grpc_interaction_from_json(node_scrub_grpc_interaction(v, Security)) : v \in NodeGrpc}
ForeignHttpFor(wire) == {i \in ForeignHttp : HttpKey(i.request) = Key(wire)}
ForeignGrpcFor(wire) == {i \in ForeignGrpc : GrpcKey(i.request) = Key(wire)}

(* A request like one that was recorded is never reported as unmatched     *)
(* later: the request is scrubbed, written and read back to what the same  *)
(* request looks like when it is sent again (Recorder::prepare_http,       *)
(* prepare_grpc).                                                          *)
RecordedIsReplayed == result.what = "no match" => KeptFor(result.request) = {}

(* Reading a body tells the same as reading another; an empty text and no  *)
(* body are both no bytes.                                                 *)
Meaning(body) == IF body = Body_text(NoText) THEN Body_none ELSE body

SameToClient(live, replayed) ==
    LET said == Read(live.bytes, headers_to_map(live.headers)).body
        read == Read(replayed.bytes, replayed.headers)
    IN  /\ replayed.status = live.status
        /\ read.ok
        /\ Meaning(read.body) = Meaning(scrub_body(Security, said))
        /\ said # Body_none /\ live.length # -1 => replayed.length = Size(replayed.bytes)

(* Scrubbing leaves the header that says how to read a body.               *)
KeepsContentType ==
    \/ \A e \in Security.filter_headers : ~ e.keep => "content-type" \notin e.names
    \/ \E e \in Security.filter_headers : e.keep /\ "content-type" \in e.names

(* A client that reads a replayed response by its headers finds a response *)
(* the server gave to such a request, scrubbed: the status, the same       *)
(* document, text or bytes though they were decompressed, parsed, written  *)
(* and read on the way, and a Content-Length that is true.  Only a foreign *)
(* recording that matches is replayed otherwise, as it was                 *)
(* (Client::execute, replay_response).                                     *)
ReplayReadsAsTheLiveResponse ==
    result.what = "replayed" /\ ~ IsGrpc(result.request)
        => \/ \E k \in KeptFor(result.request) :
                  SameToClient(kept[k].response, result.response)
           \/ \E i \in ForeignHttpFor(result.request) :
                  result.response = replay_http(i.response)

SameToTonic(live, replayed) ==
    /\ grpc_status(live.http, live.headers, live.trailers)
         = grpc_status(replayed.http, replayed.headers, replayed.trailers)
    /\ live.frame = replayed.frame
    /\ \A n \in DOMAIN live.headers \cup DOMAIN live.trailers :
         \/ is_transport_header(n)
         \/ Lower[n] \in UNION {e.names : e \in Security.filter_headers}
         \/ Values(replayed.trailers, n)
               = Values(live.headers, n) \o Values(live.trailers, n)

(* A replayed RPC ends with the status and message of the recorded one,    *)
(* whether they came as trailers, as headers or only as an HTTP status,    *)
(* carries the same message frame, an empty message included, and the      *)
(* metadata (GrpcService::call, replay_response).                          *)
GrpcReplayTellsTheSame ==
    result.what = "replayed" /\ IsGrpc(result.request)
        => \/ \E k \in KeptFor(result.request) :
                  SameToTonic(kept[k].response, result.response)
           \/ \E i \in ForeignGrpcFor(result.request) :
                  result.response = replay_grpc(i.response)

(* Verify mode accepts a server that answers as it did when the cassette   *)
(* was recorded, in an earlier session and through either file format      *)
(* (Recorder::verify_http against record_http).                            *)
VerifyAcceptsItsOwnRecording ==
    result.what = "mismatch"
        => \/ \E k \in KeptFor(result.request) : kept[k].response # result.response
           \/ ForeignHttpFor(result.request) # {}

PayloadSays(pl) ==
    {pl.doc[p] : p \in DOMAIN pl.doc} \cup {pl.pairs[i].val : i \in DOMAIN pl.pairs}
TextSays(text) == UNION {PayloadSays(text.lines[k].payload) : k \in DOMAIN text.lines}
BodySays(body) ==
    {body.doc[p] : p \in DOMAIN body.doc} \cup TextSays(body.text) \cup TextSays(body.raw.text)
HeadersSay(headers) == UNION {{headers[n][k] : k \in DOMAIN headers[n]} : n \in DOMAIN headers}
UriSays(uri) == {uri.query[k].val : k \in DOMAIN uri.query}
                  \cup {uri.fragment[k].val : k \in DOMAIN uri.fragment}

HttpSays(i) == UriSays(i.request.uri) \cup HeadersSay(i.request.headers)
                 \cup HeadersSay(i.response.headers) \cup BodySays(i.request.body)
                 \cup BodySays(i.response.body)
GrpcSays(i) == HeadersSay(i.request.metadata) \cup HeadersSay(i.response.metadata)
                 \cup BodySays(i.request.body) \cup BodySays(i.response.body)
                 \cup {i.json_debug[p] : p \in DOMAIN i.json_debug}
WsSays(i) == UriSays(i.uri) \cup HeadersSay(i.headers)
               \cup UNION {BodySays(i.frames[k].body) : k \in DOMAIN i.frames}

(* What can be read in the file.                                           *)
CassetteSays(c) ==
    UNION ({HttpSays(i) : i \in Elements(c.interactions)}
      \cup {GrpcSays(i) : i \in Elements(c.grpc_interactions)}
      \cup {WsSays(i) : i \in Elements(c.ws_interactions)})

(* Secrets are sent only where the configuration looks for them: under     *)
(* filtered names, under sensitive keys at any depth of a document that is *)
(* parsed, and right after such a key where only the regular expressions   *)
(* look.                                                                   *)
HeadersHide(headers) ==
    \A n \in DOMAIN headers : \A k \in DOMAIN headers[n] : headers[n][k] \in Secrets =>
        /\ \E e \in Security.filter_headers : ~ e.keep /\ Lower[n] \in e.names
        /\ \A e \in Security.filter_headers : e.keep => Lower[n] \notin e.names

ArePairs(pairs) ==
    \A i \in DOMAIN pairs : pairs[i] = [key |-> pairs[i].key, val |-> pairs[i].val]
QueryHides(pairs) ==
    /\ ArePairs(pairs)
    /\ \A i \in DOMAIN pairs : pairs[i].val \in Secrets =>
         Lower[pairs[i].key] \in {Lower[f] : f \in Security.filter_query_parameters}
UriHides(uri) ==
    /\ uri = [path |-> uri.path, query |-> uri.query, fragment |-> uri.fragment]
    /\ QueryHides(uri.query) /\ QueryHides(uri.fragment)

DocHides(doc) ==
    \A p \in DOMAIN doc : doc[p] \in Secrets =>
        IsSeq(p) /\ \E i \in 1..Len(p) : SensitiveAt(Security, p, i)
SaysNone(pairs) == \A i \in DOMAIN pairs : pairs[i].val \notin Secrets

JsonHides(payload) == DocHides(payload.doc) /\ SaysNone(payload.pairs)
RegexHides(payload) ==
    /\ payload = [json |-> payload.json, doc |-> payload.doc,
                   compact |-> payload.compact, pairs |-> payload.pairs]
    /\ \A p \in DOMAIN payload.doc : payload.doc[p] \in Secrets =>
         p # <<>> /\ SensitiveAt(Security, p, Len(p))
    /\ ArePairs(payload.pairs)
    /\ \A i \in DOMAIN payload.pairs : payload.pairs[i].val \in Secrets =>
         matches_key(Security, payload.pairs[i].key)

LineHides(text, line) ==
    IF is_sse(text) /\ ~ line.data THEN Secrets \cap PayloadSays(line.payload) = {}
    ELSE IF line.payload.json /\ (line.data \/ IsJsonText(text)) THEN JsonHides(line.payload)
    ELSE RegexHides(line.payload)
TextHides(text) ==
    /\ text = Text(text.lines, text.nfc) /\ IsSeq(text.lines)
    /\ \A k \in DOMAIN text.lines : LineHides(text, text.lines[k])

BodyHides(body) ==
    /\ body.kind = "json" => DocHides(body.doc)
    /\ body.kind = "text" => TextHides(body.text)
    /\ body.kind = "binary" => Secrets \cap TextSays(body.raw.text) = {}
FrameHides(frame) ==
    IF frame.frame_type = "close" /\ frame.body.kind = "binary"
    THEN /\ TextHides(frame.body.raw.text)
         /\ LET raw == frame.body.raw
            IN  raw = [codec |-> raw.codec, utf8 |-> raw.utf8, text |-> raw.text,
                       raw |-> raw.raw, big |-> raw.big]
    ELSE BodyHides(frame.body)

HttpHides(i) ==
    /\ UriHides(i.request.uri)
    /\ HeadersHide(i.request.headers) /\ HeadersHide(i.response.headers)
    /\ BodyHides(i.request.body) /\ BodyHides(i.response.body)
GrpcHides(i) ==
    /\ HeadersHide(i.request.metadata) /\ HeadersHide(i.response.metadata)
    /\ BodyHides(i.request.body) /\ BodyHides(i.response.body) /\ DocHides(i.json_debug)
WsHides(i) ==
    /\ UriHides(i.uri) /\ HeadersHide(i.headers)
    /\ \A k \in DOMAIN i.frames : FrameHides(i.frames[k])

SecretsAreSentWhereLookedFor ==
    /\ Secrets \cap {Security.replacement, Obj, Arr, Null, "absent"} = {}
    /\ \A c \in HttpCalls : HttpHides([request |-> recorded_request(c[1]),
                                       response |-> recorded_response(c[2])])
    /\ \A c \in GrpcCalls : GrpcHides([request |-> grpc_request(c[1]),
                                       response |-> grpc_response(c[2]), json_debug |-> NoDoc])
    /\ \A v \in NodeHttp : HttpHides(interaction_from_json(v))
    /\ \A v \in NodeGrpc : GrpcHides(grpc_interaction_from_json(v))
    /\ \A v \in NodeWs : WsHides(ws_interaction_from_json(v))
    /\ \A f \in InitialFiles :
         load(f).ok => Secrets \cap CassetteSays(load(f).cassette) = {}

(* No value that the security configuration names is ever in the file:     *)
(* wherever it was sent (query, fragment, headers, metadata, form, JSON at *)
(* any depth, JSON in a text or an event stream, close frames) and whoever *)
(* recorded it (scrub_interaction and its gRPC and WebSocket forms).       *)
SecretsStayOut ==
    disk # NoFile /\ load(disk).ok => Secrets \cap CassetteSays(load(disk).cassette) = {}

(* Between calls no order is pending: whatever goes wrong after one was    *)
(* reserved, the call gives it up, so that finish reports an error and not *)
(* an incomplete recording (fail_recording).                               *)
ReservationSettled == session.open /\ call = Idle => ~ session.pending

(* A save that does not replace the file leaves what can be read in it.    *)
KeepsTheRest ==
    /\ disk # NoFile /\ disk' # NoFile /\ disk' # disk /\ load(disk).ok
    /\ session.open => ~ Replaces(session.mode)
    => /\ load(disk').ok
       /\ \A kind \in DOMAIN NoCassette :
            Elements(load(disk).cassette[kind]) \subseteq Elements(load(disk').cassette[kind])

(* Saving adds and never takes away: everything a session found in the     *)
(* file, other protocols and VCR's ways to write a body included, is read  *)
(* from the file after any save that does not replace it, and reads as     *)
(* before (from_raw after to_raw).                                         *)
SavesKeepTheRest == [][KeepsTheRest]_vars
=============================================================================

----------------------------- MODULE MCExchange -----------------------------
(* A small instance of Exchange: each of the calls exercises another way   *)
(* a message is read, scrubbed, written and replayed.                      *)
EXTENDS Exchange, TLC

MCIndexNames == {"[0]", "[1]"}
MCNumber == ("5" :> 5) @@ ("6" :> 6) @@ ("9" :> 9)

MCLower ==
    [n \in {"content-type", "content-encoding", "x-id", "authorization", "x-token",
            "x-token-keep", "token", "id", "user", "password", "access_token",
            "data", "n", BINARY_SENTINEL_PREFIX, "grpc-status", "grpc-message"} |-> n]
    @@ ("Authorization" :> "authorization") @@ ("Access%5FToken" :> "access_token")
    @@ ("Old_Password" :> "old_password")

MCContains ==
    [k \in {MCLower[n] : n \in DOMAIN MCLower} |->
        IF k \in {"password", "access_token"} THEN {k}
        ELSE IF k = "old_password" THEN {"password"} ELSE {}]

Hidden == "[FILTERED]"
MCSecurity ==
    SecurityConfig_new({GlobEntry({"x-token", "x-token-keep"}), KeepEntry("x-token-keep")},
                       {}, {"Old_Password"}, Hidden)
MCCompare == [headers |-> {"content-type", "content-length"},
              json_ignore |-> {<<"id">>, <<"data", "[1]">>}, sse |-> TRUE,
              float_tolerance |-> 1]
MCSecrets == {"s3cret", "tok"}

MCWidth == [v \in {"{}", "[]", "null", "bob", "1", "2", "5", "6", "9", "s3cret", "tok", "absent",
                   Hidden, "p1"} \cup DOMAIN MCLower |->
               IF v = Hidden THEN 12 ELSE IF v = "s3cret" THEN 8 ELSE 2]

StatusTexts == <<"0", "1", "2", "3", "4", "5", "6", "7", "8", "9", "10", "11", "12", "13",
                 "14", "15", "16", "17">>
MCParseStatus == [s \in Elements(StatusTexts) |->
                     (CHOOSE k \in DOMAIN StatusTexts : StatusTexts[k] = s) - 1]
MCPercentDecode == ("not%20found" :> "not found") @@ ("OK" :> "OK") @@ ("empty" :> "")
                     @@ ("missing%20grpc%2Dstatus" :> "missing grpc-status")

-----------------------------------------------------------------------------
Pair(k, v) == [key |-> k, val |-> v]
Json(doc, compact) == Text(<<Line(FALSE, JsonPayload(doc, compact))>>, TRUE)
Form(pairs) == Text(<<Line(FALSE, PairsPayload(pairs))>>, FALSE)
Plain == [n \in {"x-id"} |-> <<"1">>]
Typed(t) == ("content-type" :> <<t>>)
Uri(path, query, fragment) == [path |-> path, query |-> query, fragment |-> fragment]

(* Credentials in every place of a request, and again in the answer, which *)
(* is compressed, deep and laid out.                                       *)
Login ==
    [method |-> "POST",
     uri |-> Uri("/login", <<Pair("token", "tok"), Pair("id", "1")>>,
                 <<Pair("Access%5FToken", "tok")>>),
     headers |-> Typed("application/json") @@ ("authorization" :> <<"tok">>)
                   @@ ("x-token" :> <<"tok">>) @@ ("x-token-keep" :> <<"1">>),
     bytes |-> Bytes("identity",
         Json((<<>> :> Obj) @@ (<<"user">> :> "bob") @@ (<<"password">> :> "s3cret"), FALSE))]
Session1(id, n) ==
    [status |-> 200, length |-> 20,
     headers |-> Typed("application/json") @@ ("content-encoding" :> <<"gzip">>)
                   @@ ("x-id" :> <<"1", Opaque>>),
     bytes |-> Bytes("gzip",
         Json((<<>> :> Obj) @@ (<<"id">> :> id) @@ (<<"data">> :> Arr)
                @@ (<<"data", "[0]">> :> Obj) @@ (<<"data", "[0]", "Old_Password">> :> Obj)
                @@ (<<"data", "[0]", "Old_Password", "user">> :> "s3cret")
                @@ (<<"data", "[1]">> :> id) @@ (<<"n">> :> n), FALSE))]

(* A form, answered by an event stream.                                    *)
Ask ==
    [method |-> "POST", uri |-> Uri("/ask", <<>>, <<>>),
     headers |-> Typed("text/form"),
     bytes |-> Bytes("identity", Form(<<Pair("user", "bob"), Pair("password", "s3cret")>>))]
Stream(n) ==
    [status |-> 200, length |-> -1, headers |-> Typed("text/event-stream"),
     bytes |-> Bytes("identity",
         Text(<<Line(FALSE, PairsPayload(<<Pair("id", "1")>>)),
                Line(TRUE, JsonPayload((<<>> :> Obj) @@ (<<"access_token">> :> "tok")
                                         @@ (<<"n">> :> n), FALSE)),
                Line(TRUE, PairsPayload(<<Pair("password", "s3cret")>>))>>, TRUE))]

(* JSON that is said to be text, and a body that reads as a placeholder.   *)
Page == [method |-> "GET", uri |-> Uri("/page", <<Pair("token", "absent")>>, <<>>),
         headers |-> Plain, bytes |-> NoBytes]
TextJson == [status |-> 404, length |-> 11, headers |-> Typed("text/plain"),
             bytes |-> Bytes("identity", Json((<<>> :> Obj) @@ (<<"password">> :> "s3cret"), FALSE))]
Placeholder == [status |-> 200, length |-> 2, headers |-> Plain,
                bytes |-> Bytes("identity", binary_sentinel("p1"))]
NullJson == [status |-> 200, length |-> 4, headers |-> Plain,
             bytes |-> Bytes("br", Json(Doc(Null), TRUE))]
Picture == [status |-> 200, length |-> 9, headers |-> NoHeaders,
            bytes |-> RawBytes("identity", 9)]
NothingButLength == [status |-> 204, length |-> 7, headers |-> NoHeaders, bytes |-> NoBytes]
EmptyZipped == [status |-> 200, length |-> 3, bytes |-> Bytes("deflate", NoText),
                headers |-> ("content-encoding" :> <<"deflate">>)]
WrongZip == [status |-> 200, length |-> 3, bytes |-> Bytes("gzip", NoText),
             headers |-> ("content-encoding" :> <<"br">>)]
(* A request that cannot be read.                                          *)
BadRequest == [Page EXCEPT !.headers = ("content-encoding" :> <<"lzma">>),
                           !.bytes = RawBytes("identity", 1)]

MCHttpCalls ==
    {<<Login, Session1("1", "5")>>, <<Login, Session1("2", "6")>>, <<Login, Session1("1", "9")>>,
     <<Ask, Stream("5")>>, <<Ask, Stream("6")>>,
     <<BadRequest, Picture>>}
      \cup {<<Page, r>> : r \in {TextJson, Placeholder, NullJson, Picture,
                                 NothingButLength, EmptyZipped, WrongZip}}

-----------------------------------------------------------------------------
One(payload) == [kind |-> "one", payload |-> payload]
Frame(kind) == [kind |-> kind, payload |-> NoBytes]
Get == [path |-> "/Svc/Get", headers |-> ("authorization" :> <<"tok">>) @@ Plain,
        frame |-> One(RawBytes("identity", 3))]
Ping == [path |-> "/Svc/Ping", headers |-> Plain @@ Typed("application/grpc"),
         frame |-> One(NoBytes)]
Rpc(http, headers, trailers, frame) ==
    [http |-> http, headers |-> headers, trailers |-> trailers, frame |-> frame]

MCGrpcCalls ==
    {<<Get, Rpc(200, Plain, ("grpc-status" :> <<"0">>) @@ ("x-id" :> <<"2">>), One(RawBytes("identity", 4)))>>,
     <<Get, Rpc(200, ("grpc-status" :> <<"5">>) @@ ("grpc-message" :> <<"not%20found">>),
                NoHeaders, Frame("empty"))>>,
     <<Get, Rpc(200, NoHeaders, ("grpc-status" :> <<"17">>), One(NoBytes))>>,
     <<Ping, Rpc(200, NoHeaders, ("grpc-status" :> <<"5">>), One(NoBytes))>>,
     <<Ping, Rpc(404, Plain, NoHeaders, Frame("empty"))>>,
     <<Ping, Rpc(200, NoHeaders, NoHeaders, Frame("short"))>>,
     <<[Ping EXCEPT !.frame = Frame("compressed")], Rpc(200, NoHeaders, NoHeaders, Frame("empty"))>>}

-----------------------------------------------------------------------------
JsJson(doc) == RawBody("json", Body_json(doc))
MCNodeHttp ==
    {[request |-> [method |-> "GET", uri |-> Uri("/node", <<>>, <<>>), headers |-> NoHeaders,
                   body |-> RawBody("none", Absent)],
      response |-> [status |-> 200, length |-> -1, headers |-> ("Authorization" :> <<"tok">>),
                    body |-> RawBody("binary", HexString(RawBytes("identity", 2)))]]}
NodeRpc(doc) ==
    [request |-> [method |-> "/Svc/Node", metadata |-> ("Authorization" :> <<"tok">>),
                  body |-> JsJson(doc)],
     response |-> [status_code |-> 0, status_message |-> "OK", metadata |-> NoHeaders,
                   body |-> RawBody("none", Absent)],
     json_debug |-> (<<>> :> Obj) @@ (<<"password">> :> "s3cret")]
MCNodeGrpc == {NodeRpc((<<>> :> Obj) @@ (<<"user">> :> "bob"))}
Frames(bodies) == [k \in DOMAIN bodies |-> [direction |-> "recv", frame_type |-> bodies[k][1],
                                            body |-> bodies[k][2]]]
CloseBytes(reason) == [RawBytes("identity", 2) EXCEPT !.text = reason]
MCNodeWs ==
    {[uri |-> Uri("/ws", <<Pair("token", "tok")>>, <<>>), headers |-> NoHeaders,
      frames |-> Frames(<< <<"text", RawBody("text", Body_text(Form(<<Pair("Old_Password", "s3cret")>>)))>>,
          <<"close", RawBody("binary", HexString(CloseBytes(Form(<<Pair("password", "s3cret")>>))))>> >>)]}

-----------------------------------------------------------------------------
(* Files of VCR with each of its shapes of body, one with a status that    *)
(* does not fit, a file of observed requests, and TOML files of which one  *)
(* has a status that cannot be replayed and one a body that cannot be read.*)
VcrRequest(path, body) ==
    [method |-> "GET", uri |-> Uri(path, <<>>, <<>>),
     headers |-> ("x-id" :> [shape |-> "seq", items |-> <<"1", "nested">>]),
     body |-> body, parsed_body |-> Absent]
VcrResponse(code, body, parsed) ==
    [status |-> [shape |-> "code_map", code |-> code], length |-> -1,
     headers |-> ("x-id" :> [shape |-> "scalar", items |-> <<"1">>])
                   @@ ("id" :> [shape |-> "null", items |-> <<>>]),
     body |-> body, parsed_body |-> parsed]
Entry2(path, reqBody, code, body, parsed) ==
    [request |-> VcrRequest(path, reqBody), response |-> VcrResponse(code, body, parsed)]
NoRaw == [interactions |-> <<>>, grpc_interactions |-> <<>>, ws_interactions |-> <<>>,
          observed_requests |-> <<>>]
VcrFile(code) ==
    [toml |-> FALSE, binaries |-> ("p1" :> RawBytes("identity", 6)),
     raw |-> [NoRaw EXCEPT !.interactions =
       <<Entry2("/vcr", VcrBody("mapping", Body_json((<<>> :> Obj) @@ (<<"n">> :> "5"))), code,
                VcrBody("string_map", Body_text(binary_sentinel("p1"))), Absent)>>]]
VcrParsedFile ==
    [toml |-> FALSE, binaries |-> [n \in {} |-> NoBytes],
     raw |-> [NoRaw EXCEPT !.interactions =
       <<Entry2("/vcr2", VcrBody("string", Body_text(Json(Doc("5"), FALSE))), 200,
                VcrBody("scalar", Absent), Body_json(Doc("6")))>>]]
ObservedFile ==
    [toml |-> FALSE, binaries |-> [n \in {} |-> NoBytes],
     raw |-> [NoRaw EXCEPT !.observed_requests =
        <<VcrRequest("/hook", Envelope(RawBody("binary", Body_text(Json(Doc("6"), TRUE)))))>>]]
TomlFile(content) ==
    [toml |-> TRUE, binaries |-> [n \in {} |-> NoBytes],
     raw |-> <<[request |-> [method |-> "GET", uri |-> Uri("/toml", <<>>, <<>>),
                             headers |-> NoHeaders, body |-> RawBody("json", content)],
                response |-> [status |-> 99, length |-> -1, headers |-> NoHeaders,
                              body |-> RawBody("none", Absent)]]>>]
MCInitialFiles ==
    {VcrFile(200), VcrFile(70000), VcrParsedFile, ObservedFile,
     TomlFile(Body_text(Json(Doc("5"), FALSE))), TomlFile(Body_text(Form(<<>>)))}

-----------------------------------------------------------------------------
(* The hypotheses of the theorems about what is replayed and what is kept  *)
(* out of the file: the instance satisfies them.                           *)
ASSUME InstanceAssumption == KeepsContentType /\ SecretsAreSentWhereLookedFor
=============================================================================

--------------------------- MODULE MCReplayOrder ----------------------------
(* A small instance of ReplayOrder: two spellings of one method, two URIs, *)
(* headers that are subsets of one another and JSON bodies that differ     *)
(* inside or outside the ignored paths.                                    *)
EXTENDS ReplayOrder

MCMethods == {"get", "GET"}
MCFold == [m \in MCMethods |-> 1]
MCLowerFold == [n \in {"X-A", "x-a"} |-> 1]

NoHeaders == [n \in {} |-> 0]
OneHeader == [n \in {"X-A"} |-> 1]
OneHeaderLower == [n \in {"x-a"} |-> 1]

Json(core, noise, spelling) ==
    [core |-> core, noise |-> noise, spelling |-> spelling, kind |-> "json"]
Empty == [core |-> 0, noise |-> 0, spelling |-> 0, kind |-> "none"]

Req(m, u, h, b) == [method |-> m, uri |-> u, headers |-> h, body |-> b]

(* Requests whose equal JSON values are spelled alike.                     *)
MCRequests ==
    { Req("GET", 2, NoHeaders, Json(1, 1, 0)),
      Req("get", 2, OneHeader, Json(1, 2, 0)),
      Req("GET", 2, OneHeaderLower, Json(2, 1, 0)),
      Req("GET", 1, NoHeaders, Empty) }

MCMatchConfigs ==
    { <<"method", "uri">>, <<"uri", "headers">>, <<"method", "uri", "body">>,
      <<"headers", "json_body", "method">> }
=============================================================================

---------------------------- MODULE MCContainer -----------------------------
(* A small instance of Container: two HTTP recordings of requests that     *)
(* differ in the case of their method, one at another URI, two RPCs of one *)
(* method and a WebSocket session.                                         *)
EXTENDS Container

MCMethods == {"get", "GET"}
MCFold == [m \in MCMethods |-> 1]
MCLowerFold == [n \in {"x-a"} |-> 1]

NoBody == [core |-> 0, noise |-> 0, spelling |-> 0, kind |-> "none"]
Req(m, u) == [method |-> m, uri |-> u, headers |-> [n \in {} |-> 0], body |-> NoBody]

MCHttp == {[id |-> 1, req |-> Req("GET", 1)], [id |-> 2, req |-> Req("get", 1)],
           [id |-> 3, req |-> Req("GET", 2)]}
MCRequests == {Req("get", 1), Req("GET", 2)}
MCGrpc == {[id |-> 4, req |-> [method |-> "M", body |-> 1]],
           [id |-> 5, req |-> [method |-> "M", body |-> 2]]}
MCWs == {[id |-> 6, req |-> "ws1"]}
MCMatchConfigs == {<<"method", "uri">>, <<"method">>}
=============================================================================

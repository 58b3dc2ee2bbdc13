----------------------------- MODULE MCRecorder -----------------------------
(* A small instance of Recorder.  Two requests go to one URL and differ    *)
(* only in a header that scrubbing removes; a third goes to a URL that     *)
(* sorts before it.                                                        *)
EXTENDS Recorder

MCMethods == {"GET"}
MCFold == [m \in MCMethods |-> 1]
MCLowerFold == [n \in {"token"} |-> 1]

NoHeaders == [n \in {} |-> 0]
Token == [n \in {"token"} |-> 1]
Empty == [core |-> 0, noise |-> 0, spelling |-> 0, kind |-> "none"]
Req(u, h) == [method |-> "GET", uri |-> u, headers |-> h, body |-> Empty]

Plain == Req(2, NoHeaders)
Secret == Req(2, Token)
Other == Req(1, NoHeaders)
Rpc == [rpc |-> 1]

MCHttp == {Plain, Secret, Other}
MCGrpc == {Rpc}

MCScrub == [r \in MCHttp \cup MCGrpc |-> IF r = Secret THEN Plain ELSE r]

MCMatchOn == <<"method", "uri", "headers">>

(* A hand-edited file that is not in canonical order, one with an RPC and  *)
(* a WebSocket, and an empty cassette.                                     *)
MCFiles ==
    { [http |-> <<Plain, Other>>, grpc |-> <<>>, ws |-> 0],
      [http |-> <<>>, grpc |-> <<Rpc>>, ws |-> 1],
      [http |-> <<>>, grpc |-> <<>>, ws |-> 0] }
=============================================================================

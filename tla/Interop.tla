------------------------------- MODULE Interop ------------------------------
(***************************************************************************)
(* The plain-JSON form in which values cross the Node binding              *)
(* (crates/cassetter-core/src/interop.rs, crates/cassetter-node).  A       *)
(* JavaScript object is a record; "absent" stands for a missing field.     *)
(***************************************************************************)
EXTENDS Format

(* An interaction whose recorded body is a JS object {type, content}.      *)
body_to_json(body) == TypedBody(body)

(* A binary body that is no hex string and a body of an unknown type read  *)
(* as none; JSON null is a value here, and read as one.                    *)
body_from_json(v) ==
    CASE v.type = "json" /\ v.content.kind = "json"  -> v.content
      [] v.type = "text" /\ v.content.kind = "text"  -> v.content
      [] v.type = "binary" /\ v.content.kind = "hex" -> Body_binary(v.content.raw)
      [] OTHER                                       -> Body_none

(* A JS number becomes a u16 by truncation.                                *)
StatusFromJs(n) == n % 65536

request_to_json(r) == [r EXCEPT !.body = body_to_json(@)]
request_from_json(v) == [v EXCEPT !.body = body_from_json(@)]
response_to_json(r) == [r EXCEPT !.body = body_to_json(@)]
response_from_json(v) ==
    [v EXCEPT !.body = body_from_json(@), !.status = StatusFromJs(@)]

interaction_to_json(i) ==
    [request |-> request_to_json(i.request), response |-> response_to_json(i.response)]
interaction_from_json(v) ==
    [request |-> request_from_json(v.request), response |-> response_from_json(v.response)]

grpc_interaction_to_json(i) ==
    [i EXCEPT !.request.body = body_to_json(@), !.response.body = body_to_json(@)]
grpc_interaction_from_json(v) ==
    [v EXCEPT !.request.body = body_from_json(@), !.response.body = body_from_json(@)]

frame_to_json(frame) == [frame EXCEPT !.body = body_to_json(@)]
frame_from_json(v) == [v EXCEPT !.body = body_from_json(@)]
ws_interaction_to_json(i) == [i EXCEPT !.frames = Each(frame_to_json, i.frames)]
ws_interaction_from_json(v) == [v EXCEPT !.frames = Each(frame_from_json, v.frames)]

(***************************************************************************)
(* crates/cassetter-node/src/lib.rs: a scrub of the binding reads the      *)
(* object, scrubs it and writes it again.                                  *)
(***************************************************************************)
node_scrub_interaction(v, config) ==
    interaction_to_json(scrub_interaction(config, interaction_from_json(v)))
node_scrub_grpc_interaction(v, config) ==
    grpc_interaction_to_json(scrub_grpc_interaction(config, grpc_interaction_from_json(v)))
node_scrub_ws_interaction(v, config) ==
    ws_interaction_to_json(scrub_ws_interaction(config, ws_interaction_from_json(v)))
=============================================================================

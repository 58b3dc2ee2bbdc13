-------------------------- MODULE CompareResponses --------------------------
(***************************************************************************)
(* What verify mode compares (crates/cassetter/src/compare.rs).            *)
(*                                                                         *)
(* A Compare is [headers, json_ignore, sse, float_tolerance]: the lower    *)
(* case names its globs match, a set of paths, a Boolean and a number.     *)
(***************************************************************************)
EXTENDS Interop

CONSTANT Number   \* the JSON nodes that are integers -> their value

(* An ignored key goes, with what is under it; an ignored array item       *)
(* becomes null, for the items after it keep their positions.              *)
drop_paths(doc, ignored) ==
    LET Cut(q, i) == SubSeq(q, 1, i) \in ignored
    IN  [p \in {q \in DOMAIN doc : \A i \in 1..Len(q) :
                   Cut(q, i) => i = Len(q) /\ q[i] \in IndexNames}
            |-> IF p \in ignored THEN Null ELSE doc[p]]

(* The payloads of the data: lines, in order; one that is no JSON counts   *)
(* as a string.  Every data: line is an event of its own here.             *)
sse_events(text) ==
    LET data == SelectSeq(text.lines, LAMBDA line : line.data)
    IN  [k \in DOMAIN data |-> data[k].payload]

drop_from_event(payload, ignored) ==
    IF payload.json THEN [payload EXCEPT !.doc = drop_paths(@, ignored), !.compact = TRUE]
    ELSE payload

normalize(compare, response) ==
    [status    |-> response.status,
     headers   |-> {<<Lower[n], response.headers[n]>> :
                       n \in {k \in DOMAIN response.headers : Lower[k] \in compare.headers}},
     length    |-> IF "content-length" \in compare.headers THEN response.length ELSE -1,
     body_type |-> response.body.kind,
     json      |-> IF response.body.kind = "json"
                   THEN <<drop_paths(response.body.doc, compare.json_ignore)>> ELSE <<>>,
     events    |-> IF response.body.kind = "text" /\ compare.sse
                   THEN [k \in DOMAIN sse_events(response.body.text) |->
                            drop_from_event(sse_events(response.body.text)[k],
                                            compare.json_ignore)]
                   ELSE <<>>,
     text      |-> IF response.body.kind = "text" /\ ~ compare.sse
                   THEN response.body.text ELSE NoText,
     binary    |-> IF response.body.kind = "binary" THEN response.body.raw ELSE NoBytes]

(* A number within the tolerance of its recording is replaced by it.       *)
tolerate(recorded, live, tolerance) ==
    LET Near(a, b) == /\ a \in DOMAIN Number /\ b \in DOMAIN Number
                      /\ Number[a] - Number[b] \in -tolerance..tolerance
    IN  [p \in DOMAIN live |->
            IF p \in DOMAIN recorded /\ Near(recorded[p], live[p])
            THEN recorded[p] ELSE live[p]]

tolerate_event(recorded, live, tolerance) ==
    IF recorded.json /\ live.json
    THEN [live EXCEPT !.doc = tolerate(recorded.doc, @, tolerance)] ELSE live

(* The two responses are rendered alike.                                   *)
Equivalent(compare, recorded, live) ==
    LET expected == normalize(compare, recorded)
        actual   == normalize(compare, live)
        tol      == compare.float_tolerance
    IN  expected =
          [actual EXCEPT
             !.json = [k \in DOMAIN @ |->
                 IF k \in DOMAIN expected.json
                 THEN tolerate(expected.json[k], @[k], tol) ELSE @[k]],
             !.events = [k \in DOMAIN @ |->
                 IF k \in DOMAIN expected.events
                 THEN tolerate_event(expected.events[k], @[k], tol) ELSE @[k]]]
=============================================================================

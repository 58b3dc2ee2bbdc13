----------------------------- MODULE Container ------------------------------
(***************************************************************************)
(* The cassette container (crates/cassetter-core/src/cassette/mod.rs): the *)
(* interactions of three protocols, which of them were played, and the     *)
(* method+URI index that take_match builds when it first needs one and     *)
(* keeps.  The bindings expose every operation, so a program may call them *)
(* in any order.                                                           *)
(*                                                                         *)
(* An interaction is [id, req]; ids tell recordings of equal requests      *)
(* apart.  Positions are 1-based, and an operation that returns an error   *)
(* changes nothing.                                                        *)
(***************************************************************************)
EXTENDS Matching, SequencesExt

CONSTANTS
    Http, Grpc, Ws,   \* the interactions that occur
    Requests,         \* the requests looked for
    MatchConfigs,     \* the match_on lists of the calls of take_match
    MaxLen            \* bound: interactions of one protocol

VARIABLES
    tape,        \* protocol -> interactions, grpc_interactions, ws_interactions
    played,      \* protocol -> played_indices, grpc_played, ws_played
    index,       \* the cached index, or NoIndex
    recording,
    result,      \* what the last operation found or wrote
    used         \* ghost: the interactions that answered a request, were marked
                 \* or were recorded for one

vars == <<tape, played, index, recording, result, used>>

Protocols == {"http", "grpc", "ws"}
InteractionsOf(p) == IF p = "http" THEN Http ELSE IF p = "grpc" THEN Grpc ELSE Ws

ASSUME ContainerAssumption ==
    /\ MaxLen \in Nat
    /\ \A i \in Http : i.req.method \in Methods
    /\ \A r \in Requests : r.method \in Methods
    /\ \A p, q \in Protocols : \A i \in InteractionsOf(p), j \in InteractionsOf(q) :
         i.id = j.id => p = q /\ i = j

NoIndex == [built |-> FALSE, keys |-> <<>>]
Nothing == [what |-> "nothing"]
Found(p, request, match_on, n) ==
    [what |-> p, request |-> request, match_on |-> match_on, found |-> n]
Wrote(interactions) == [what |-> "file", interactions |-> interactions]

(* Cassette::new, or a cassette that was loaded.                           *)
Init ==
    /\ \E loaded \in {<<>>} \cup {<<i>> : i \in Http} :
         tape = [p \in Protocols |-> IF p = "http" THEN loaded ELSE <<>>]
    /\ played = [p \in Protocols |-> [k \in DOMAIN tape[p] |-> FALSE]]
    /\ index = NoIndex /\ recording \in BOOLEAN
    /\ result = Nothing /\ used = {}

set_recording(b) ==
    /\ recording' = b /\ result' = Nothing
    /\ UNCHANGED <<tape, played, index, used>>

-----------------------------------------------------------------------------
(* What the three protocols have in common.                                *)

Absent(p, i) == \A k \in DOMAIN tape[p] : tape[p][k].id # i.id

SetTape(p, s) ==
    /\ tape' = [tape EXCEPT ![p] = s]
    /\ played' = [played EXCEPT ![p] = [k \in DOMAIN s |-> FALSE]]
    /\ used' = used \ {i.id : i \in ToSet(tape[p]) \cup ToSet(s)}
    /\ result' = Nothing /\ UNCHANGED recording

(* A defect: the flag of an inserted interaction goes to the end.          *)
FlagAtEnd(p, n, i) ==
    /\ Len(tape[p]) < MaxLen /\ Absent(p, i)
    /\ n \in 1..(Len(tape[p]) + 1)
    /\ tape' = [tape EXCEPT ![p] = InsertAt(@, n, i)]
    /\ played' = [played EXCEPT ![p] = Append(@, recording)]
    /\ used' = IF recording THEN used \cup {i.id} ELSE used
    /\ result' = Nothing /\ UNCHANGED recording

(* vec.insert of the interaction and of its played flag.                   *)
InsertInto(p, n, i) ==
    /\ Len(tape[p]) < MaxLen /\ Absent(p, i)
    /\ n \in 1..(Len(tape[p]) + 1)
    /\ tape' = [tape EXCEPT ![p] = InsertAt(@, n, i)]
    /\ played' = [played EXCEPT ![p] = InsertAt(@, n, recording)]
    /\ used' = IF recording THEN used \cup {i.id} ELSE used
    /\ result' = Nothing /\ UNCHANGED recording

Mark(p, n) ==
    /\ n \in DOMAIN played[p]
    /\ played' = [played EXCEPT ![p][n] = TRUE]
    /\ used' = used \cup {tape[p][n].id}

(* A lookup that found position n, or nothing (0).                         *)
Answered(p, request, match_on, n) ==
    /\ IF n = 0 THEN UNCHANGED <<played, used>> ELSE Mark(p, n)
    /\ result' = Found(p, request, match_on, n)
    /\ UNCHANGED <<tape, recording>>

-----------------------------------------------------------------------------
(* HTTP                                                                    *)

set_interactions(s) ==
    SetTape("http", s) /\ index' = NoIndex

(* A defect: an append leaves the cached index as it is.                   *)
AddKeepingIndex(i) ==
    InsertInto("http", Len(tape.http) + 1, i) /\ UNCHANGED index

add_interaction(i) ==
    InsertInto("http", Len(tape.http) + 1, i) /\ index' = NoIndex

insert_interaction(n, i) ==
    InsertInto("http", n, i) /\ index' = NoIndex

mark_played(n) ==
    Mark("http", n) /\ result' = Nothing /\ UNCHANGED <<tape, index, recording>>

take_match(request, match_on) ==
    LET built == uses_method_uri_index(match_on) /\ ~ index.built
        n     == find_match_index_in(request, tape.http, played.http, match_on,
                                     index'.keys, ~ recording)
    IN  /\ index' = IF built THEN [built |-> TRUE, keys |-> build_index(tape.http)] ELSE index
        /\ Answered("http", request, match_on, n)

-----------------------------------------------------------------------------
(* gRPC                                                                    *)

set_grpc_interactions(s) ==
    SetTape("grpc", s) /\ UNCHANGED index

add_grpc_interaction(i) ==
    InsertInto("grpc", Len(tape.grpc) + 1, i) /\ UNCHANGED index

insert_grpc_interaction(n, i) ==
    InsertInto("grpc", n, i) /\ UNCHANGED index

mark_grpc_played(n) ==
    Mark("grpc", n) /\ result' = Nothing /\ UNCHANGED <<tape, index, recording>>

find_grpc_match_index_in(method) ==
    pick({k \in DOMAIN tape.grpc : tape.grpc[k].req.method = method},
         played.grpc, ~ recording)

take_grpc_match(method) ==
    /\ Answered("grpc", method, <<>>, find_grpc_match_index_in(method))
    /\ UNCHANGED index

take_grpc_request_match(request) ==
    /\ Answered("grpc", request, <<>>,
          find_grpc_request_match_index_in(request, tape.grpc, played.grpc, ~ recording))
    /\ UNCHANGED index

-----------------------------------------------------------------------------
(* WebSocket; a request is a URI                                           *)

set_ws_interactions(s) ==
    SetTape("ws", s) /\ UNCHANGED index

add_ws_interaction(i) ==
    InsertInto("ws", Len(tape.ws) + 1, i) /\ UNCHANGED index

mark_ws_played(n) ==
    Mark("ws", n) /\ result' = Nothing /\ UNCHANGED <<tape, index, recording>>

find_ws_match_index_in(uri) ==
    pick({k \in DOMAIN tape.ws : tape.ws[k].req = uri}, played.ws, ~ recording)

take_ws_match(uri) ==
    Answered("ws", uri, <<>>, find_ws_match_index_in(uri)) /\ UNCHANGED index

-----------------------------------------------------------------------------
(* What the serializers write: they skip an index they cannot resolve.     *)
to_raw(interactions, order) ==
    LET out[k \in 0..Len(order)] ==
          IF k = 0 THEN <<>>
          ELSE IF order[k] \in DOMAIN interactions
               THEN Append(out[k - 1], interactions[order[k]])
               ELSE out[k - 1]
    IN  out[Len(order)]

(* Cassette::save with an order of the caller.                             *)
save(order) ==
    /\ validate(order, Len(tape.http))
    /\ result' = Wrote(to_raw(tape.http, order))
    /\ UNCHANGED <<tape, played, index, recording, used>>

Tapes(interactions) ==
    {s \in UNION {[1..n -> interactions] : n \in 0..2} :
        \A a, b \in DOMAIN s : s[a].id = s[b].id => a = b}

(* With indexes repeated, left out and past the end.                       *)
Orders == UNION {[1..n -> 1..(MaxLen + 1)] : n \in 0..MaxLen}

Next ==
    \/ \E b \in BOOLEAN : set_recording(b)
    \/ \E s \in Tapes(Http) : set_interactions(s)
    \/ \E i \in Http : add_interaction(i)
    \/ \E i \in Http, n \in 1..MaxLen : insert_interaction(n, i)
    \/ \E n \in 1..MaxLen : mark_played(n)
    \/ \E r \in Requests, m \in MatchConfigs : take_match(r, m)
    \/ \E s \in Tapes(Grpc) : set_grpc_interactions(s)
    \/ \E i \in Grpc : add_grpc_interaction(i)
    \/ \E i \in Grpc, n \in 1..MaxLen : insert_grpc_interaction(n, i)
    \/ \E n \in 1..MaxLen : mark_grpc_played(n)
    \/ \E i \in Grpc : take_grpc_match(i.req.method)
    \/ \E i \in Grpc : take_grpc_request_match(i.req)
    \/ \E s \in Tapes(Ws) : set_ws_interactions(s)
    \/ \E i \in Ws : add_ws_interaction(i)
    \/ \E n \in 1..MaxLen : mark_ws_played(n)
    \/ \E i \in Ws : take_ws_match(i.req)
    \/ \E o \in Orders : save(o)

Spec == Init /\ [][Next]_vars

-----------------------------------------------------------------------------
(* Properties                                                              *)

(* An interaction counts as played when it, and not another at its         *)
(* position, answered a request, was marked, or was recorded for one:      *)
(* appending, inserting, replacing and looking up keep the two vectors of  *)
(* each protocol in step (played_indices, grpc_played, ws_played).         *)
PlayedFollowsInteraction ==
    \A p \in Protocols :
        /\ DOMAIN played[p] = DOMAIN tape[p]
        /\ \A k \in DOMAIN tape[p] : played[p][k] <=> tape[p][k].id \in used

(* Whatever was added, inserted or replaced since the index was built, and *)
(* with whatever configurations take_match was called before, it finds     *)
(* what a scan of all interactions finds ("Cached method+URI index,        *)
(* invalidated whenever `interactions` changes").                          *)
TakeIgnoresCache ==
    [][result'.what = "http" =>
         result'.found = pick(Matching(result'.request, tape.http, result'.match_on),
                              played.http, ~ recording)]_vars

(* A save never drops or repeats a recorded interaction, whatever order    *)
(* the caller passes (ordering::validate).                                 *)
FileHoldsAll ==
    [][result'.what = "file" =>
         /\ Len(result'.interactions) = Len(tape.http)
         /\ ToSet(result'.interactions) = ToSet(tape.http)]_vars
=============================================================================

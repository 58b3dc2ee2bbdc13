---------------------------- MODULE ReplayOrder -----------------------------
(***************************************************************************)
(* Does sorting a cassette on save change what it replays?                 *)
(*                                                                         *)
(* A session records interactions in the order their responses arrive and  *)
(* remembers, for each, the position its request had among the requests    *)
(* (`record_order`).  The save writes them in the order output_order       *)
(* returns.  A later session replays the file.  Beside it the module       *)
(* replays, request for request, the cassette the recording session meant: *)
(* the same interactions in the order they were requested.                 *)
(***************************************************************************)
EXTENDS Matching

CONSTANTS
    Requests,      \* the requests that occur
    MatchConfigs,  \* the match_on lists a user may configure
    MaxLen         \* bound: interactions in a cassette

ASSUME ReplayOrderAssumption ==
    /\ MaxLen \in Nat
    /\ \A r \in Requests : /\ r.method \in Methods
                           /\ r.uri \in Nat
                           /\ r.body \in BodyType
    /\ \A m \in MatchConfigs : /\ m \in Seq(KNOWN_MATCHERS)
                               /\ m # <<>>

VARIABLES
    match_on,      \* the configuration, the same for save and replay
    tape,          \* Cassette::interactions, in arrival order
    record_order,  \* record_order[i]: when the request of tape[i] was issued
    phase,         \* "recording" or "replaying"
    file,          \* file[k]: the position in tape of the k-th interaction of the file
    issued,        \* issued[k]: the position in tape of the k-th request issued
    allow_played,  \* the replaying session cannot record
    played,        \* Cassette::played_indices of the loaded file
    issued_played, \* the same for the cassette in issue order
    answer         \* the tape positions the last request got from each, 0 for none

vars == <<match_on, tape, record_order, phase, file, issued, allow_played,
          played, issued_played, answer>>

Init ==
    /\ match_on \in MatchConfigs
    /\ tape = <<>>
    /\ record_order = <<>>
    /\ phase = "recording"
    /\ file = <<>>
    /\ issued = <<>>
    /\ allow_played \in BOOLEAN
    /\ played = <<>>
    /\ issued_played = <<>>
    /\ answer = [file |-> 0, issued |-> 0]

(* The response to the request issued as number `t` arrives.               *)
add_interaction(r, t) ==
    /\ phase = "recording"
    /\ Len(tape) < MaxLen
    /\ \A i \in DOMAIN record_order : record_order[i] # t
    /\ tape' = Append(tape, [req |-> r])
    /\ record_order' = Append(record_order, t)
    /\ UNCHANGED <<match_on, phase, file, issued, allow_played, played,
                   issued_played, answer>>

(* Cassette::save with the order of output_order, then Cassette::load.     *)
save_and_load ==
    /\ phase = "recording"
    /\ phase' = "replaying"
    /\ \E o \in [1..Len(tape) -> 1..Len(tape)] :
         /\ output_order(o, tape, match_on, record_order)
         /\ file' = o
    /\ \E o \in [1..Len(tape) -> 1..Len(tape)] :
         /\ output_order(o, tape, <<>>, record_order)
         /\ issued' = o
    /\ played' = [k \in 1..Len(tape) |-> FALSE]
    /\ issued_played' = [k \in 1..Len(tape) |-> FALSE]
    /\ UNCHANGED <<match_on, tape, record_order, allow_played, answer>>

(* Which position of an arrangement of the tape answers r.                 *)
PositionFor(r, arrangement, was_played) ==
    pick(Matching(r, Arranged(tape, arrangement), match_on), was_played,
         allow_played)

(* The tape position at position k of an arrangement, 0 for none.          *)
TapeAt(arrangement, k) == IF k = 0 THEN 0 ELSE arrangement[k]

MarkPlayed(was_played, k) ==
    [i \in DOMAIN was_played |-> was_played[i] \/ i = k]

(* Cassette::take_match, on the file and on the cassette in issue order.   *)
take_match(r) ==
    /\ phase = "replaying"
    /\ LET f == PositionFor(r, file, played)
           s == PositionFor(r, issued, issued_played)
       IN  /\ played' = MarkPlayed(played, f)
           /\ issued_played' = MarkPlayed(issued_played, s)
           /\ answer' = [file |-> TapeAt(file, f), issued |-> TapeAt(issued, s)]
    /\ UNCHANGED <<match_on, tape, record_order, phase, file, issued, allow_played>>

Next ==
    \/ \E r \in Requests, t \in 1..MaxLen : add_interaction(r, t)
    \/ save_and_load
    \/ \E r \in Requests : take_match(r)

Spec == Init /\ [][Next]_vars

-----------------------------------------------------------------------------

TypeOK ==
    /\ match_on \in MatchConfigs
    /\ tape \in Seq([req : Requests])
    /\ record_order \in Seq(Nat)
    /\ Len(record_order) = Len(tape)
    /\ phase \in {"recording", "replaying"}
    /\ allow_played \in BOOLEAN
    /\ phase = "recording" => answer = [file |-> 0, issued |-> 0]
    /\ phase = "replaying" =>
         /\ file \in [1..Len(tape) -> 1..Len(tape)]
         /\ issued \in [1..Len(tape) -> 1..Len(tape)]
         /\ played \in [1..Len(tape) -> BOOLEAN]
         /\ issued_played \in [1..Len(tape) -> BOOLEAN]

(***************************************************************************)
(* Whatever the arrival order of the responses, every request sequence     *)
(* gets the same answers from the sorted file as from the cassette in      *)
(* issue order: output_order "makes the file canonical without changing    *)
(* what replays".                                                          *)
(***************************************************************************)
SortingKeepsReplay == answer.file = answer.issued

(***************************************************************************)
(* The same interactions are used up in both cassettes at all times, so    *)
(* that a session which may record sends the same requests to the server.  *)
(***************************************************************************)
SamePlayed ==
    phase = "replaying" =>
        \A a, b \in 1..Len(tape) :
            file[a] = issued[b] => played[a] = issued_played[b]

(***************************************************************************)
(* What the argument needs of the JSON text: two bodies with equal JSON    *)
(* values are written alike.  serde_json breaks it for 0.0 and -0.0.       *)
(***************************************************************************)
UniformSpelling ==
    \A q, r \in Requests :
        (q.body.kind = r.body.kind /\ q.body.core = r.body.core)
            => q.body.spelling = r.body.spelling

(***************************************************************************)
(* "Two runs of the same concurrent suite" write the same file: had the    *)
(* same responses arrived in any other order p, every order the save could *)
(* then have chosen writes the same interactions at the same places.       *)
(***************************************************************************)
FileIndependentOfArrival ==
    phase = "replaying" /\ (\A k \in DOMAIN played : ~ played[k]) =>
        LET n == Len(tape)
            Perms == {p \in [1..n -> 1..n] : EachOnce(p, n)}
            Rearranged(s, p) == [k \in 1..n |-> s[p[k]]]
        IN  \A p, o \in Perms :
               output_order(o, Rearranged(tape, p), match_on,
                            Rearranged(record_order, p))
                   => file = Rearranged(p, o)
=============================================================================

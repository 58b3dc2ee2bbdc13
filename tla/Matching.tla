------------------------------ MODULE Matching ------------------------------
(***************************************************************************)
(* The request matcher, the method+URI index and the canonical write order *)
(* of the Rust core (crates/cassetter-core/src/matching, cassette/index.rs *)
(* and cassette/ordering.rs), as constant-level operators.                 *)
(*                                                                         *)
(* A request is a record [method, uri, headers, body].  Strings are ranked *)
(* by naturals, because the code only compares them: equality decides a    *)
(* match and the order decides a sort.  Interactions are 1-based here and  *)
(* the answer 0 stands for the code's None.                                *)
(***************************************************************************)
EXTENDS Integers, Sequences, FiniteSets, FiniteSetsExt

CONSTANTS
    Methods,    \* the spellings of HTTP methods that occur
    AsciiFold,  \* method -> Nat: equal under eq_ignore_ascii_case
    UpperFold,  \* method -> Nat: equal after str::to_uppercase
    LowerFold   \* header name -> Nat: equal after str::to_lowercase

(***************************************************************************)
(* Two spellings that differ in ASCII case alone are also equal after the  *)
(* Unicode to_uppercase; the converse fails for some non-ASCII names.      *)
(***************************************************************************)
ASSUME FoldAssumption ==
    /\ AsciiFold \in [Methods -> Nat]
    /\ UpperFold \in [Methods -> Nat]
    /\ \A a, b \in Methods :
         AsciiFold[a] = AsciiFold[b] => UpperFold[a] = UpperFold[b]

KNOWN_MATCHERS == {"method", "uri", "headers", "body", "json_body"}

(***************************************************************************)
(* A body.  For a JSON body `core` is the value outside the ignored paths, *)
(* `noise` the value under them, and `spelling` tells apart two values     *)
(* that compare equal and print differently (0.0 and -0.0).  Other kinds   *)
(* of body have only a `core`.                                             *)
(***************************************************************************)
BodyType ==
    {b \in [kind : {"none", "text", "binary", "json"},
            core : Nat, noise : Nat, spelling : Nat] :
        b.kind # "json" => b.noise = 0 /\ b.spelling = 0}

-----------------------------------------------------------------------------
(* matching/matchers.rs                                                    *)

match_method(incoming, recorded) ==
    AsciiFold[incoming.method] = AsciiFold[recorded.method]

match_uri(incoming, recorded) == incoming.uri = recorded.uri

(***************************************************************************)
(* Every recorded header is among the incoming ones: under its own         *)
(* spelling if that is there, otherwise under another case.  (An incoming  *)
(* map with two spellings of one name would make `find` choose; the        *)
(* requests enumerated here have one spelling of each name.)               *)
(***************************************************************************)
match_headers(incoming, recorded) ==
    \A k \in DOMAIN recorded.headers :
        IF k \in DOMAIN incoming.headers
        THEN incoming.headers[k] = recorded.headers[k]
        ELSE \E j \in DOMAIN incoming.headers :
                 /\ LowerFold[j] = LowerFold[k]
                 /\ incoming.headers[j] = recorded.headers[k]

match_body(incoming, recorded) ==
    /\ incoming.body.kind = recorded.body.kind
    /\ incoming.body.core = recorded.body.core
    /\ incoming.body.noise = recorded.body.noise

match_json_body(incoming, recorded) ==
    IF incoming.body.kind = "json" /\ recorded.body.kind = "json"
    THEN incoming.body.core = recorded.body.core
    ELSE match_body(incoming, recorded)

matches(field, incoming, recorded) ==
    CASE field = "method"    -> match_method(incoming, recorded)
      [] field = "uri"       -> match_uri(incoming, recorded)
      [] field = "headers"   -> match_headers(incoming, recorded)
      [] field = "body"      -> match_body(incoming, recorded)
      [] field = "json_body" -> match_json_body(incoming, recorded)
      [] OTHER               -> FALSE

matches_all(incoming, recorded, match_on) ==
    \A f \in DOMAIN match_on : matches(match_on[f], incoming, recorded)

-----------------------------------------------------------------------------
(* matching/mod.rs: the first unplayed candidate that matches, otherwise   *)
(* the first played one when played ones are allowed, otherwise none (0).  *)

pick(candidates, played, allow_played) ==
    LET fresh == {i \in candidates : ~ (i \in DOMAIN played /\ played[i])}
    IN  IF fresh # {} THEN Min(fresh)
        ELSE IF allow_played /\ candidates # {} THEN Min(candidates)
        ELSE 0

(* The positions of `tape` whose request answers `request`.                *)
Matching(request, tape, match_on) ==
    {i \in DOMAIN tape : matches_all(request, tape[i].req, match_on)}

uses_method_uri_index(match_on) ==
    /\ \E f \in DOMAIN match_on : match_on[f] = "method"
    /\ \E f \in DOMAIN match_on : match_on[f] = "uri"

(* cassette/index.rs: an interaction is filed under its upper-cased method *)
(* and its URI.  An index is a function from positions to those keys.      *)
index_key(request) == <<UpperFold[request.method], request.uri>>

build_index(tape) == [i \in DOMAIN tape |-> index_key(tape[i].req)]

lookup(index, request) == {i \in DOMAIN index : index[i] = index_key(request)}

find_match_index_in(request, tape, played, match_on, index, allow_played) ==
    IF uses_method_uri_index(match_on)
    THEN pick(lookup(index, request) \cap Matching(request, tape, match_on),
              played, allow_played)
    ELSE pick(Matching(request, tape, match_on), played, allow_played)

(* gRPC interactions are compared by method and serialized request body    *)
(* (find_grpc_request_match_index_in); both are one key here.              *)
find_grpc_request_match_index_in(request, tape, played, allow_played) ==
    pick({i \in DOMAIN tape : tape[i].req = request}, played, allow_played)

-----------------------------------------------------------------------------
(* cassette/ordering.rs                                                    *)

canonical_body(body) == <<body.core, body.spelling, body.noise>>

canonical_body_without_ignored(body) == <<body.core, body.spelling, 0>>

(* `headers` adds nothing to the key.                                      *)
sort_key_field(field, request) ==
    CASE field = "method"    -> <<UpperFold[request.method], 0, 0>>
      [] field = "uri"       -> <<request.uri, 0, 0>>
      [] field = "body"      -> canonical_body(request.body)
      [] field = "json_body" -> canonical_body_without_ignored(request.body)
      [] OTHER               -> <<0, 0, 0>>

sort_key(request, match_on) ==
    [f \in DOMAIN match_on |-> sort_key_field(match_on[f], request)]

(* Comparison of two keys, field by field and component by component.      *)
KeyLess(a, b) ==
    \E f \in DOMAIN a : \E c \in 1..3 :
        /\ a[f][c] < b[f][c]
        /\ \A g \in DOMAIN a : g < f => a[g] = b[g]
        /\ \A d \in 1..3 : d < c => a[f][d] = b[f][d]

(* The order sort_by_key gives before the keys are compared: record order  *)
(* when one of the right length was passed, otherwise position.            *)
TieLessByArrival(x, y, tie_break, n) == x < y

TieLess(x, y, tie_break, n) ==
    IF Len(tie_break) = n
    THEN tie_break[x] < tie_break[y] \/ (tie_break[x] = tie_break[y] /\ x < y)
    ELSE x < y

(* x is written before y by the two stable sorts.                          *)
WrittenBefore(x, y, tape, match_on, tie_break) ==
    LET kx == sort_key(tape[x].req, match_on)
        ky == sort_key(tape[y].req, match_on)
    IN  KeyLess(kx, ky) \/ (kx = ky /\ TieLess(x, y, tie_break, Len(tape)))

(* An order of n interactions that writes each of them exactly once.       *)
EachOnce(order, n) ==
    /\ order \in [1..n -> 1..n]
    /\ \A a, b \in 1..n : order[a] = order[b] => a = b

(* `order` is what output_order returns for this tape: the positions,      *)
(* sorted.  `match_on` is empty when the caller asked for no canonical     *)
(* sort.                                                                   *)
output_order(order, tape, match_on, tie_break) ==
    /\ EachOnce(order, Len(tape))
    /\ \A a, b \in 1..Len(tape) :
         a < b => WrittenBefore(order[a], order[b], tape, match_on, tie_break)

(* A defect: an index may come twice.                                      *)
MarkedAgain(marks, idx, count) ==
    IF marks.refused \/ idx \notin 1..count
    THEN [marks EXCEPT !.refused = TRUE]
    ELSE [marks EXCEPT !.written = @ \cup {idx}]

(* One turn of the loop of `validate`: an index past the end, or one whose *)
(* slot of `written` is set, ends it with an error.                        *)
Marked(marks, idx, count) ==
    IF marks.refused \/ idx \notin 1..count \/ idx \in marks.written
    THEN [marks EXCEPT !.refused = TRUE]
    ELSE [marks EXCEPT !.written = @ \cup {idx}]

validate(order, count) ==
    LET marks[k \in 0..Len(order)] ==
          IF k = 0 THEN [refused |-> FALSE, written |-> {}]
          ELSE Marked(marks[k - 1], order[k], count)
    IN  ~ marks[Len(order)].refused /\ Len(order) = count

(* The interactions in the order `order` writes them.                      *)
Arranged(tape, order) == [k \in DOMAIN order |-> tape[order[k]]]
=============================================================================

-------------------------------- MODULE Scrub -------------------------------
(***************************************************************************)
(* Scrubbing (crates/cassetter-core/src/security): sensitive headers are   *)
(* removed, sensitive query parameters and body values replaced.           *)
(*                                                                         *)
(* A SecurityConfig is a record                                            *)
(*   filter_headers           a set of entries [keep, names]               *)
(*   filter_query_parameters  a set of names                               *)
(*   body_scrub_patterns      a set of patterns                            *)
(*   replacement              the placeholder                              *)
(* An entry stands for a header name or a glob: `names` are the lower-case *)
(* names it matches, `keep` says that it was written with a leading "!".   *)
(***************************************************************************)
EXTENDS Bodies

CONSTANTS
    Lower,     \* name or key -> its percent-decoded lower-case form
    Contains,  \* lower-case key -> the patterns that occur in it
    DEFAULT_FILTER_HEADERS, DEFAULT_FILTER_QUERY_PARAMS,
    DEFAULT_BODY_SCRUB_PATTERNS

Entry(name) == [keep |-> FALSE, names |-> {Lower[name]}]
KeepEntry(name) == [keep |-> TRUE, names |-> {Lower[name]}]
GlobEntry(names) == [keep |-> FALSE, names |-> {Lower[n] : n \in names}]

(***************************************************************************)
(* What the caller names is added to the defaults; a name that is there in *)
(* another case is not added again.                                        *)
(***************************************************************************)
extend_defaults(defaults, extra) ==
    defaults \cup {e \in extra : \A d \in defaults : Lower[d] # Lower[e]}

SecurityConfig_new(headers, query, patterns, replacement) ==
    [filter_headers |-> {Entry(n) : n \in DEFAULT_FILTER_HEADERS} \cup headers,
     filter_query_parameters |-> extend_defaults(DEFAULT_FILTER_QUERY_PARAMS, query),
     body_scrub_patterns |-> extend_defaults(DEFAULT_BODY_SCRUB_PATTERNS, patterns),
     replacement |-> replacement]

-----------------------------------------------------------------------------
(* security/headers.rs                                                     *)

(* A header stays unless an entry matches it, or if a "!" entry does.      *)
filter_headers(headers, filtered) ==
    [n \in {k \in DOMAIN headers :
              \/ \A e \in filtered : ~ e.keep => Lower[k] \notin e.names
              \/ \E e \in filtered : e.keep /\ Lower[k] \in e.names}
        |-> headers[n]]

(* key=value pairs; a piece without "=" has the value "absent".            *)
filter_pairs(pairs, filtered, replacement) ==
    [i \in DOMAIN pairs |->
        IF /\ pairs[i].val # "absent"
           /\ Lower[pairs[i].key] \in {Lower[f] : f \in filtered}
        THEN [pairs[i] EXCEPT !.val = replacement]
        ELSE pairs[i]]

(* A defect: the fragment is left as it is.                               *)
QueryOnly(uri, filtered, replacement) ==
    [uri EXCEPT !.query = filter_pairs(uri.query, filtered, replacement)]

(* Query and fragment: OAuth's implicit flow puts the token in the latter. *)
filter_query_params(uri, filtered, replacement) ==
    [uri EXCEPT !.query = filter_pairs(uri.query, filtered, replacement),
                !.fragment = filter_pairs(uri.fragment, filtered, replacement)]

-----------------------------------------------------------------------------
(* security/body.rs                                                        *)

matches_key(config, key) ==
    \E p \in config.body_scrub_patterns : Lower[p] \in Contains[Lower[key]]

SensitiveAt(config, path, i) ==
    path[i] \notin IndexNames /\ matches_key(config, path[i])

(* The value of a sensitive key, whatever it is, becomes the replacement;  *)
(* objects and arrays are searched to any depth.                           *)
scrub_json_value(config, doc) ==
    [p \in {q \in DOMAIN doc : \A i \in 1..(Len(q) - 1) : ~ SensitiveAt(config, q, i)}
        |-> IF p # <<>> /\ SensitiveAt(config, p, Len(p))
            THEN config.replacement ELSE doc[p]]

(* JSON text is written again, compactly, only if something was replaced.  *)
scrub_json_text(config, payload) ==
    LET scrubbed == scrub_json_value(config, payload.doc)
    IN  IF scrubbed = payload.doc THEN payload ELSE JsonPayload(scrubbed, TRUE)

(* The two regular expressions: "key": scalar and key=value.  They see no  *)
(* structure: an object or an array under a sensitive key stays.           *)
scrub_unstructured(config, payload) ==
    [payload EXCEPT
        !.doc = [p \in DOMAIN @ |->
            IF p # <<>> /\ SensitiveAt(config, p, Len(p)) /\ @[p] \notin {Obj, Arr}
            THEN config.replacement ELSE @[p]],
        !.pairs = [i \in DOMAIN @ |->
            IF matches_key(config, @[i].key)
            THEN [@[i] EXCEPT !.val = config.replacement] ELSE @[i]]]

(* A text with a data: line is an event stream, and only the payloads of   *)
(* its data: lines are scrubbed.                                           *)
is_sse(text) == \E i \in DOMAIN text.lines : text.lines[i].data

scrub_payload(config, payload) ==
    IF payload.json THEN scrub_json_text(config, payload)
    ELSE scrub_unstructured(config, payload)

scrub_sse(config, text) ==
    [text EXCEPT !.lines = [i \in DOMAIN text.lines |->
        LET line == text.lines[i]
        IN  IF line.data THEN Line(TRUE, scrub_payload(config, line.payload)) ELSE line]]

scrub_text(config, text) ==
    IF IsJsonText(text)
    THEN [text EXCEPT !.lines = <<Line(FALSE, scrub_json_text(config, @[1].payload))>>]
    ELSE IF is_sse(text) THEN scrub_sse(config, text)
    ELSE [text EXCEPT !.lines = [i \in DOMAIN text.lines |->
             Line(FALSE, scrub_unstructured(config, text.lines[i].payload))]]

scrub_body(config, body) ==
    CASE body.kind = "json" -> Body_json(scrub_json_value(config, body.doc))
      [] body.kind = "text" -> Body_text(scrub_text(config, body.text))
      [] OTHER              -> body

-----------------------------------------------------------------------------
(* security/mod.rs                                                         *)

ScrubRequest(config, request) ==
    [request EXCEPT !.headers = filter_headers(@, config.filter_headers),
                    !.uri = filter_query_params(@, config.filter_query_parameters,
                                                config.replacement),
                    !.body = scrub_body(config, @)]
ScrubResponse(config, response) ==
    [response EXCEPT !.headers = filter_headers(@, config.filter_headers),
                     !.body = scrub_body(config, @)]
scrub_interaction(config, i) ==
    [request |-> ScrubRequest(config, i.request), response |-> ScrubResponse(config, i.response)]

(* The same for either half of an RPC.                                     *)
ScrubGrpc(config, message) ==
    [message EXCEPT !.metadata = filter_headers(@, config.filter_headers),
                    !.body = scrub_body(config, @)]
scrub_grpc_interaction(config, i) ==
    [request |-> ScrubGrpc(config, i.request), response |-> ScrubGrpc(config, i.response),
     json_debug |-> scrub_json_value(config, i.json_debug)]

(* The bytes of a close frame are its code (raw) and its reason (text).    *)
scrub_frame(config, frame) ==
    IF frame.frame_type = "close" /\ frame.body.kind = "binary"
    THEN [frame EXCEPT !.body.raw.text = scrub_text(config, @)]
    ELSE [frame EXCEPT !.body = scrub_body(config, @)]

scrub_ws_interaction(config, i) ==
    [i EXCEPT !.headers = filter_headers(@, config.filter_headers),
              !.uri = filter_query_params(@, config.filter_query_parameters,
                                          config.replacement),
              !.frames = [k \in DOMAIN @ |-> scrub_frame(config, @[k])]]
=============================================================================

------------------------------- MODULE Bodies -------------------------------
(***************************************************************************)
(* Bodies: what travels on the wire, how crates/cassetter-core/src/body    *)
(* turns it into a Body, and JSON documents.                               *)
(*                                                                         *)
(* A JSON document is a function from a prefix-closed set of paths to      *)
(* nodes: Obj, Arr, or a scalar.  A path is a sequence of object keys and  *)
(* of array positions, which are the names in IndexNames.                  *)
(*                                                                         *)
(* A text is a sequence of lines.  The payload of a line is a JSON         *)
(* document with its layout, or a list of key=value pairs; `data` marks an *)
(* SSE data line; `nfc` says whether the text is in Unicode normal form.   *)
(***************************************************************************)
EXTENDS Integers, Sequences, FiniteSets, FiniteSetsExt

CONSTANTS
    Width,       \* scalar, key or value -> the bytes it takes
    IndexNames   \* the path elements that are array positions

(* The elements of a sequence, and a sequence without the elements x.      *)
Elements(s) == {s[k] : k \in DOMAIN s}
Without(s, x) ==
    LET upTo[k \in 0..Len(s)] ==
            IF k = 0 THEN <<>>
            ELSE IF s[k] = x THEN upTo[k - 1] ELSE Append(upTo[k - 1], s[k])
    IN  upTo[Len(s)]

Obj == "{}"
Arr == "[]"
Null == "null"

Doc(node) == [p \in {<<>>} |-> node]
NoDoc == Doc(Null)

(* A payload that is a JSON document, and one that is pairs.               *)
JsonPayload(doc, compact) ==
    [json |-> TRUE, doc |-> doc, compact |-> compact, pairs |-> <<>>]
PairsPayload(pairs) ==
    [json |-> FALSE, doc |-> NoDoc, compact |-> TRUE, pairs |-> pairs]

Line(data, payload) == [data |-> data, payload |-> payload]
Text(lines, nfc) == [lines |-> lines, nfc |-> nfc]
NoText == Text(<<>>, TRUE)

(* serde_json::from_str accepts the text as a whole.                       *)
IsJsonText(text) ==
    Len(text.lines) = 1 /\ ~ text.lines[1].data /\ text.lines[1].payload.json
DocOf(text) == text.lines[1].payload.doc

(* serde_json::to_string                                                   *)
CompactJson(doc) == Text(<<Line(FALSE, JsonPayload(doc, TRUE))>>, TRUE)

-----------------------------------------------------------------------------
(* Raw bytes: `codec` is how they are compressed, `text` what they say     *)
(* when they are UTF-8 and `raw` stands for them when they are not.        *)
(* `big` marks a body whose decompressed form exceeds the limit.           *)

Bytes(codec, text) ==
    [codec |-> codec, utf8 |-> TRUE, text |-> text, raw |-> 0, big |-> FALSE]
RawBytes(codec, n) ==
    [codec |-> codec, utf8 |-> FALSE, text |-> NoText, raw |-> n, big |-> FALSE]
NoBytes == Bytes("identity", NoText)

(* protocol/http.rs: BodyContent and the constructors of Body.             *)
Body(kind, doc, text, raw) ==
    [kind |-> kind, doc |-> doc, text |-> text, raw |-> raw]
Body_none == Body("none", NoDoc, NoText, NoBytes)
Body_json(doc) == Body("json", doc, NoText, NoBytes)
Body_text(text) == Body("text", NoDoc, text, NoBytes)
Body_binary(bytes) == Body("binary", NoDoc, NoText, bytes)

(* How many bytes a body takes when it is sent again.                      *)
PayloadSize(pl) ==
    IF pl.json
    THEN MapThenSumSet(LAMBDA p : Width[pl.doc[p]], DOMAIN pl.doc)
         + (IF pl.compact THEN 0 ELSE 7)
    ELSE MapThenSumSet(LAMBDA i : Width[pl.pairs[i].key] + Width[pl.pairs[i].val],
                       DOMAIN pl.pairs)
TextSize(text) ==
    MapThenSumSet(LAMBDA i : PayloadSize(text.lines[i].payload), DOMAIN text.lines)
Size(bytes) == IF bytes.utf8 THEN TextSize(bytes.text) ELSE bytes.raw

(***************************************************************************)
(* body/compression.rs: the decoded bytes, or a failure.  "deflate" reads  *)
(* zlib-wrapped and raw streams; past the limit nothing is returned, and   *)
(* the raw reading is not tried.  No Content-Encoding: the bytes as sent.  *)
(***************************************************************************)
Codecs(encoding) ==
    CASE encoding \in {"gzip", "x-gzip"} -> {"gzip"}
      [] encoding = "deflate"            -> {"zlib", "deflate"}
      [] encoding \in {"br", "zstd"}     -> {encoding}
      [] encoding \in {"identity", ""}   -> {"identity"}
      [] OTHER                           -> {}

decompress(bytes, encoding) ==
    IF encoding \in {"identity", ""}
    THEN [ok |-> ~ bytes.big, bytes |-> bytes]
    ELSE [ok    |-> bytes.codec \in Codecs(encoding) /\ ~ bytes.big,
          bytes |-> [bytes EXCEPT !.codec = "identity"]]

(* body/json.rs, on the media types that occur.                            *)
is_json_content_type(content_type) ==
    content_type \in {"application/json", "application/problem+json"}

(* body/unicode.rs                                                         *)
normalize_text(text) == [text EXCEPT !.nfc = TRUE]

(* Compressed bytes are not UTF-8.                                         *)
Readable(bytes) == bytes.utf8 /\ bytes.codec = "identity"

(* body/mod.rs: JSON by its content type, JSON by its looks when there is  *)
(* no content type, otherwise text, otherwise binary.  "absent" stands for *)
(* a header that is not there.                                             *)
process_body(bytes, content_type, content_encoding) ==
    LET plain == IF content_encoding = "absent"
                 THEN [ok |-> TRUE, bytes |-> bytes]
                 ELSE decompress(bytes, content_encoding)
        text  == plain.bytes.text
        as_json == /\ IsJsonText(text)
                   /\ is_json_content_type(content_type) \/ content_type = "absent"
        body  == IF ~ Readable(plain.bytes) THEN Body_binary(plain.bytes)
                 ELSE IF as_json THEN Body_json(DocOf(text))
                 ELSE Body_text(normalize_text(text))
    IN  IF bytes = NoBytes THEN [ok |-> TRUE, body |-> Body_none]
        ELSE [ok |-> plain.ok, body |-> IF plain.ok THEN body ELSE Body_none]

(* reqwest_body.rs: the bytes a recorded body is replayed as.              *)
body_bytes(body) ==
    CASE body.kind = "none"   -> NoBytes
      [] body.kind = "binary" -> body.raw
      [] body.kind = "text"   -> Bytes("identity", body.text)
      [] body.kind = "json"   -> Bytes("identity", CompactJson(body.doc))
=============================================================================

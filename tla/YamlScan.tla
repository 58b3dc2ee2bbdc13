------------------------------ MODULE YamlScan ------------------------------
(***************************************************************************)
(* extract_binary_scalars (crates/cassetter-core/src/cassette/format.rs):  *)
(* before a YAML cassette is parsed, its !!binary block scalars are cut    *)
(* out of the text line by line, knowing nothing of YAML but indentation.  *)
(*                                                                         *)
(* A document is a sequence of nodes [indent, kind, content]: `kind` is    *)
(* "plain" for a line of its own, "binary" and "block" for scalars with    *)
(* content lines below them.  A content line is "blank", a word, or        *)
(* Lookalike: recorded text that ends in "!!binary |" itself.  BadWord is  *)
(* text that is no base64.  The scanner sees lines [indent, look] only.    *)
(***************************************************************************)
EXTENDS Integers, Sequences, FiniteSets, FiniteSetsExt, SequencesExt

CONSTANTS
    Words,       \* base64 text
    MaxNodes,    \* bound: nodes of a document
    MaxContent,  \* bound: content lines of a scalar
    MaxIndent    \* bound: indentation of a node

ASSUME BoundsAssumption == {MaxNodes, MaxContent, MaxIndent} \subseteq Nat

VARIABLES
    document,    \* what the text means
    lines, at,   \* the text, and the line the scan is at (`i`)
    out, binaries

scan_vars == <<document, lines, at, out, binaries>>

BadWord == "bad"
Lookalike == "binary"
ContentLines == Words \cup {BadWord, Lookalike, "blank"}

(* The text of a binary scalar is base64, or a stray !!binary tag on text. *)
Nodes ==
    [indent : 0..MaxIndent, kind : {"plain"}, content : {<<>>}]
      \cup [indent : 0..MaxIndent, kind : {"binary", "block"},
            content : BoundedSeq(ContentLines, MaxContent)]

(* Nothing is nested in a scalar, so what follows is not deeper.           *)
Documents ==
    {d \in BoundedSeq(Nodes, MaxNodes) :
        \A k \in 1..(Len(d) - 1) : d[k].kind # "plain" => d[k + 1].indent <= d[k].indent}

Line(indent, look) == [indent |-> indent, look |-> look, number |-> 0]
binary_sentinel(indent, n) == [indent |-> indent, look |-> "sentinel", number |-> n]

(* The lines a node is written as: its key, and its content one deeper.    *)
ContentText(node) ==
    [k \in DOMAIN node.content |->
        Line(IF node.content[k] = "blank" THEN 0 ELSE node.indent + 1, node.content[k])]
NodeText(node) == <<Line(node.indent, node.kind)>> \o ContentText(node)

ScanInit ==
    /\ document \in Documents
    /\ lines = FlattenSeq([k \in DOMAIN document |-> NodeText(document[k])])
    /\ at = 1 /\ out = <<>> /\ binaries = <<>>

-----------------------------------------------------------------------------
(* One action per branch of the loop body.  A text without the tag is not  *)
(* scanned at all.                                                         *)

Blank(n) == lines[n].look = "blank"
is_binary_block(n) == lines[n].look = "binary"
tagged == \E n \in DOMAIN lines : is_binary_block(n)
opens_block_scalar(n) == lines[n].look \in {"binary", "block"}

(* The first line after n that is not blank and not deeper than it.        *)
EndOfBlock(n) ==
    Min({j \in (n + 1)..(Len(lines) + 1) :
            j = Len(lines) + 1 \/ (~ Blank(j) /\ lines[j].indent <= lines[n].indent)})

(* Blank lines at the end of the block stay with the parent.               *)
EndOfPayload(n) ==
    Max({n + 1} \cup {j + 1 : j \in {k \in (n + 1)..(EndOfBlock(n) - 1) : ~ Blank(k)}})

(* The lines that are not blank.                                           *)
Said(looks) ==
    LET said[k \in 0..Len(looks)] ==
            IF k = 0 THEN <<>>
            ELSE IF looks[k] = "blank" THEN said[k - 1] ELSE Append(said[k - 1], looks[k])
    IN  said[Len(looks)]
Looks(from, to) == Said([k \in 1..(to - from + 1) |-> lines[from + k - 1].look])

(* base64 decoding of the words.                                           *)
Decodes(words) == \A k \in DOMAIN words : words[k] \in Words

ExtractBinary ==
    LET payload == Looks(at + 1, EndOfPayload(at) - 1)
    IN  /\ tagged /\ at <= Len(lines) /\ is_binary_block(at) /\ Decodes(payload)
        /\ out' = Append(out, binary_sentinel(lines[at].indent, Len(binaries) + 1))
        /\ binaries' = Append(binaries, payload)
        /\ at' = EndOfPayload(at)
        /\ UNCHANGED <<document, lines>>

(* A defect: the content of other scalars is scanned, too.                 *)
CopyOpening ==
    /\ tagged /\ at <= Len(lines) /\ opens_block_scalar(at)
    /\ is_binary_block(at) => ~ Decodes(Looks(at + 1, EndOfPayload(at) - 1))
    /\ out' = Append(out, lines[at]) /\ at' = at + 1
    /\ UNCHANGED <<document, lines, binaries>>

(* Every other scalar, and a binary one that does not decode.              *)
CopyBlock ==
    /\ tagged /\ at <= Len(lines) /\ opens_block_scalar(at)
    /\ is_binary_block(at) => ~ Decodes(Looks(at + 1, EndOfPayload(at) - 1))
    /\ out' = out \o SubSeq(lines, at, EndOfBlock(at) - 1)
    /\ at' = EndOfBlock(at)
    /\ UNCHANGED <<document, lines, binaries>>

CopyLine ==
    /\ tagged /\ at <= Len(lines) /\ ~ opens_block_scalar(at)
    /\ out' = Append(out, lines[at]) /\ at' = at + 1
    /\ UNCHANGED <<document, lines, binaries>>

(* The text is borrowed.                                                   *)
Untouched ==
    /\ ~ tagged /\ at = 1 /\ lines # <<>>
    /\ out' = lines /\ at' = Len(lines) + 1
    /\ UNCHANGED <<document, lines, binaries>>

ScanNext == Untouched \/ ExtractBinary \/ CopyBlock \/ CopyLine

ScanSpec == ScanInit /\ [][ScanNext]_scan_vars

-----------------------------------------------------------------------------
(* The document again, each binary scalar that decodes in the place of its *)
(* text.                                                                   *)

Payload(node) == Said(node.content)
Extracted(node) == node.kind = "binary" /\ Decodes(Payload(node))
Trailing(node) ==
    LET said == {k \in DOMAIN node.content : node.content[k] # "blank"}
    IN  SubSeq(ContentText(node), Max({0} \cup said) + 1, Len(node.content))
Rank(k) == Cardinality({n \in 1..k : Extracted(document[n])})
Rewritten(k) ==
    IF Extracted(document[k])
    THEN <<binary_sentinel(document[k].indent, Rank(k))>> \o Trailing(document[k])
    ELSE NodeText(document[k])

(***************************************************************************)
(* The scan rewrites the binary scalars of the document and nothing else:  *)
(* every one that decodes becomes a placeholder numbered with the position *)
(* of its own bytes, and recorded text is copied even where it looks like  *)
(* one.                                                                    *)
(***************************************************************************)
OnlyBinaryScalarsExtracted ==
    at > Len(lines) =>
        /\ out = FlattenSeq([k \in DOMAIN document |-> Rewritten(k)])
        /\ Len(binaries) = Rank(Len(document))
        /\ \A k \in DOMAIN document :
             Extracted(document[k]) => binaries[Rank(k)] = Payload(document[k])
=============================================================================

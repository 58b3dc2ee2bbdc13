--------------------------- MODULE ExchangeProofs ---------------------------
(***************************************************************************)
(* What is recorded is found again, reads as it did, survives every later  *)
(* save and holds no secret, for any messages, security configuration,     *)
(* matcher list and files, and any number of sessions and recordings.      *)
(*                                                                         *)
(* The file comes first: what is saved loads as it was.  Then what a       *)
(* session and a Node program put into a cassette can be saved.  The       *)
(* inductive invariant says that a cassette holds what was recorded and    *)
(* what is foreign, and nothing else; the properties follow from what is   *)
(* stored of a message and what is made of it again.                       *)
(***************************************************************************)
EXTENDS Exchange, FiniteSetTheorems, WellFoundedInduction, TLAPS

-----------------------------------------------------------------------------
(* Facts about numbers.                                                     *)

(* A non-empty set of naturals has a least element, and Min returns it.    *)
LEMMA MinIsLeast ==
    ASSUME NEW T, T \subseteq Nat, T # {}
    PROVE  /\ Min(T) \in T
           /\ \A y \in T : Min(T) <= y
<1>1. \E x \in T : \A y \in T : ~ (<<y, x>> \in OpToRel(<, Nat))
  BY NatLessThanWellFounded, WFMin
<1>2. \E x \in T : \A y \in T : x <= y
  <2>1. PICK x \in T : \A y \in T : ~ (<<y, x>> \in OpToRel(<, Nat))
    BY <1>1
  <2>2. ASSUME NEW y \in T PROVE x <= y
    <3>1. ~ (y < x)
      BY <2>1 DEF OpToRel
    <3>. QED  BY <3>1
  <2>. QED  BY <2>2
<1>. QED  BY <1>2 DEF Min

(* An injection of 1..n into itself reaches every number.                  *)
LEMMA InjectionIsOnto ==
    ASSUME NEW n \in Nat, NEW f \in [1..n -> 1..n],
           \A a, b \in 1..n : f[a] = f[b] => a = b, NEW i \in 1..n
    PROVE  \E a \in 1..n : f[a] = i
<1>1. f \in Injection(1..n, 1..n)
  BY DEF Injection, IsInjective
<1>2. IsFiniteSet(1..n)
  BY FS_Interval
<1>3. f \in Surjection(1..n, 1..n)
  BY <1>1, <1>2, FS_Injection
<1>. QED  BY <1>3 DEF Surjection

-----------------------------------------------------------------------------
(* What a file says of a body, of headers and of interactions.             *)

(* What is left of each prefix of `s` without `x`.                         *)
Leaves(s, x, f, m) ==
    f = [k \in 0..m |-> IF k = 0 THEN <<>>
            ELSE IF s[k] = x THEN f[k - 1] ELSE Append(f[k - 1], s[k])]

(* Without is the last entry of a sequence of prefixes.                    *)
LEMMA WithoutIs ==
    ASSUME NEW S, NEW s \in Seq(S), NEW x
    PROVE  Without(s, x) = (CHOOSE f : Leaves(s, x, f, Len(s)))[Len(s)]
  BY DEF Without, Leaves

(* The folds of the definition exist (least counterexample).               *)
LEMMA LeavesExists ==
    ASSUME NEW S, NEW s \in Seq(S), NEW x, NEW m \in Nat
    PROVE  \E f : Leaves(s, x, f, m)
<1>. DEFINE T == {j \in Nat : ~ \E f : Leaves(s, x, f, j)}
<1>1. SUFFICES ASSUME T # {} PROVE FALSE
  BY <1>1
<1>. DEFINE n == Min(T)
<1>2. n \in Nat /\ (~ \E f : Leaves(s, x, f, n)) /\ \A j \in Nat : j < n => \E f : Leaves(s, x, f, j)
  <2>1. T \subseteq Nat
    OBVIOUS
  <2>2. n \in T /\ \A y \in T : n <= y
    <3>. HIDE DEF T
    <3>. QED BY <1>1, <2>1, MinIsLeast
  <2>3. n \in Nat /\ ~ \E f : Leaves(s, x, f, n)
    BY <2>2
  <2>4. ASSUME NEW j \in Nat, j < n PROVE \E f : Leaves(s, x, f, j)
    BY <2>2, <2>3, <2>4
  <2>. QED BY <2>3, <2>4
<1>. HIDE DEF n, T
<1>3. n # 0
  <2>1. Leaves(s, x, [k \in 0..0 |-> <<>>], 0)
    BY DEF Leaves
  <2>. QED BY <1>2, <2>1
<1>4. PICK f : Leaves(s, x, f, n - 1)
  BY <1>2, <1>3
<1>. DEFINE g == [k \in 0..n |-> IF k < n THEN f[k]
                           ELSE IF s[n] = x THEN f[n - 1] ELSE Append(f[n - 1], s[n])]
<1>5. Leaves(s, x, g, n)
  <2>1. \A k \in 0..(n - 1) :
          f[k] = IF k = 0 THEN <<>> ELSE IF s[k] = x THEN f[k - 1] ELSE Append(f[k - 1], s[k])
    BY <1>4 DEF Leaves
  <2>2. ASSUME NEW k \in 0..n
        PROVE  g[k] = IF k = 0 THEN <<>> ELSE IF s[k] = x THEN g[k - 1] ELSE Append(g[k - 1], s[k])
    BY <1>2, <1>3, <2>1
  <2>3. g = [k \in 0..n |-> g[k]]
    OBVIOUS
  <2>. HIDE DEF g
  <2>. QED  BY <2>2, <2>3 DEF Leaves
<1>. QED BY <1>2, <1>5

IsBody(b) ==
    \/ b = Body_none
    \/ \E d : b = Body_json(d)
    \/ \E t : b = Body_text(t)
    \/ \E r : b = Body_binary(r)
NoBinaries == [n \in {} |-> NoBytes]

(* The body a recording writes, by its kind.                               *)
LEMMA TypedBodies ==
    /\ TypedBody(Body_none) = RawBody("none", Absent)
    /\ \A d : TypedBody(Body_json(d)) = RawBody("json", Body_json(d))
    /\ \A t : TypedBody(Body_text(t)) = RawBody("text", Body_text(t))
    /\ \A r : TypedBody(Body_binary(r)) = RawBody("binary", HexString(r))
<1>1. TypedBody(Body_none) = RawBody("none", Absent)
  BY DEF TypedBody, Body_none, Body
<1>2. ASSUME NEW d PROVE TypedBody(Body_json(d)) = RawBody("json", Body_json(d))
  BY DEF TypedBody, Body_json, Body
<1>3. ASSUME NEW t PROVE TypedBody(Body_text(t)) = RawBody("text", Body_text(t))
  BY DEF TypedBody, Body_text, Body
<1>4. ASSUME NEW r PROVE TypedBody(Body_binary(r)) = RawBody("binary", HexString(r))
  BY DEF TypedBody, Body_binary, Body
<1>. QED BY <1>1, <1>2, <1>3, <1>4

(* A body is written as an envelope, which both readers of bodies open.    *)
(* The optional one takes null content for no content (deserialize_body,   *)
(* RawBody).                                                               *)
LEMMA EnvelopesRead ==
    ASSUME NEW type, NEW content
    PROVE  /\ deserialize_body(Envelope(RawBody(type, content))) = RawBody(type, content)
           /\ derive_body(Envelope(RawBody(type, content)))
                = RawBody(type, IF content.kind = "json" /\ content.doc = Doc(Null)
                                THEN Absent ELSE content)
  BY DEF deserialize_body, derive_body, Envelope, RawBody

(* A body reads back from YAML as it was.                                  *)
LEMMA BodyFromRaw ==
    ASSUME NEW b, IsBody(b)
    PROVE  body_from_raw(TypedBody(b), NoBinaries) = b
<1>1. CASE b = Body_none
  <2>1. body_from_raw(RawBody("none", Absent), NoBinaries) = Body_none
    BY DEF body_from_raw, RawBody, Absent, Body
  <2>. QED  BY <1>1, <2>1, TypedBodies
<1>2. ASSUME NEW d, b = Body_json(d) PROVE body_from_raw(TypedBody(b), NoBinaries) = b
  <2>1. body_from_raw(RawBody("json", Body_json(d)), NoBinaries) = Body_json(d)
    BY DEF body_from_raw, RawBody, Body_json, Body
  <2>. QED  BY <1>2, <2>1, TypedBodies
<1>3. ASSUME NEW t, b = Body_text(t) PROVE body_from_raw(TypedBody(b), NoBinaries) = b
  <2>1. ~ Resolves(t, NoBinaries)
     BY DEF Resolves, NoBinaries
  <2>2. body_from_raw(RawBody("text", Body_text(t)), NoBinaries) = Body_text(t)
    BY <2>1 DEF body_from_raw, RawBody, Body_text, Body
  <2>. QED  BY <1>3, <2>2, TypedBodies
<1>4. ASSUME NEW r, b = Body_binary(r) PROVE body_from_raw(TypedBody(b), NoBinaries) = b
  <2>1. body_from_raw(RawBody("binary", HexString(r)), NoBinaries) = Body_binary(r)
    BY DEF body_from_raw, RawBody, HexString, Body
  <2>. QED  BY <1>4, <2>1, TypedBodies
<1>. QED BY <1>1, <1>2, <1>3, <1>4 DEF IsBody

(* A body reads back from TOML as it was; JSON goes through its text.      *)
LEMMA BodyFromToml ==
    ASSUME NEW b, IsBody(b)
    PROVE  body_from_toml(body_to_toml(b)) = [ok |-> TRUE, body |-> b]
<1>1. CASE b = Body_none
  <2>1. body_to_toml(b) = RawBody("none", Absent)
    BY <1>1 DEF Body_none, Body, body_to_toml
  <2>2. body_from_toml(RawBody("none", Absent)) = [ok |-> TRUE, body |-> Body_none]
    BY DEF body_from_toml, Absent, Body, RawBody
  <2>. QED  BY <1>1, <2>1, <2>2
<1>2. ASSUME NEW d, b = Body_json(d) PROVE body_from_toml(body_to_toml(b)) = [ok |-> TRUE, body |-> b]
  <2>1. IsJsonText(CompactJson(d)) /\ DocOf(CompactJson(d)) = d
    BY DEF IsJsonText, CompactJson, DocOf, Text, Line, JsonPayload
  <2>2. body_to_toml(b) = RawBody("json", Body_text(CompactJson(d)))
    BY <1>2 DEF Body_json, Body, body_to_toml
  <2>3. body_from_toml(RawBody("json", Body_text(CompactJson(d)))) = [ok |-> TRUE, body |-> Body_json(d)]
    BY <2>1 DEF body_from_toml, Body_text, Body, RawBody
  <2>. QED BY <1>2, <2>2, <2>3
<1>3. ASSUME NEW t, b = Body_text(t) PROVE body_from_toml(body_to_toml(b)) = [ok |-> TRUE, body |-> b]
  <2>1. body_to_toml(b) = RawBody("text", b)
    BY <1>3 DEF Body_text, Body, body_to_toml
  <2>2. body_from_toml(RawBody("text", Body_text(t))) = [ok |-> TRUE, body |-> Body_text(t)]
    BY DEF body_from_toml, Body_text, Body, RawBody
  <2>. QED  BY <1>3, <2>1, <2>2
<1>4. ASSUME NEW r, b = Body_binary(r) PROVE body_from_toml(body_to_toml(b)) = [ok |-> TRUE, body |-> b]
  <2>1. body_to_toml(b) = RawBody("binary", HexString(r))
    BY <1>4 DEF Body_binary, Body, body_to_toml
  <2>2. body_from_toml(RawBody("binary", HexString(r))) = [ok |-> TRUE, body |-> Body_binary(r)]
    BY DEF body_from_toml, HexString, Body, RawBody
  <2>. QED  BY <1>4, <2>1, <2>2
<1>. QED BY <1>1, <1>2, <1>3, <1>4 DEF IsBody

(* What is left of the first k elements: no x, and all of them if none is. *)
LeftIn(S, s, x, k, left) ==
    /\ left \in Seq(S \ {x})
    /\ (\A j \in 1..k : s[j] # x) => left = SubSeq(s, 1, k)

(* Every prefix loses the element and nothing else.                        *)
LEMMA LeavesFacts ==
    ASSUME NEW S, NEW s \in Seq(S), NEW x, NEW m \in 0..Len(s), NEW f, Leaves(s, x, f, m)
    PROVE  \A k \in 0..m : LeftIn(S, s, x, k, f[k])
<1>. DEFINE P(k) == /\ f[k] \in Seq(S \ {x})
                    /\ (\A j \in 1..k : s[j] # x) => f[k] = SubSeq(s, 1, k)
            T == {k \in 0..m : ~ P(k)}
<1>0. m \in Nat /\ m <= Len(s) /\ Len(s) \in Nat /\ DOMAIN s = 1..Len(s)
  OBVIOUS
<1>1. \A k \in 0..m :
        f[k] = IF k = 0 THEN <<>> ELSE IF s[k] = x THEN f[k - 1] ELSE Append(f[k - 1], s[k])
  BY DEF Leaves
<1>2. P(0)
  <2>1. f[0] = <<>>
    BY <1>0, <1>1
  <2>2. SubSeq(s, 1, 0) = <<>>
    OBVIOUS
  <2>. QED  BY <2>1, <2>2
<1>3. ASSUME NEW k \in 1..m, P(k - 1) PROVE P(k)
  <2>1. s[k] \in S /\ k \in 0..m /\ k # 0 /\ k - 1 \in 0..m
    BY <1>0
  <2>2. CASE s[k] = x
    BY <1>1, <1>3, <2>1, <2>2
  <2>3. CASE s[k] # x
    <3>1. f[k] = Append(f[k - 1], s[k])
      BY <1>1, <2>1, <2>3
    <3>2. f[k] \in Seq(S \ {x})
      BY <1>3, <2>1, <2>3, <3>1
    <3>3. ASSUME \A j \in 1..k : s[j] # x PROVE f[k] = SubSeq(s, 1, k)
      <4>1. f[k - 1] = SubSeq(s, 1, k - 1)
        BY <1>3, <3>3
      <4>2. Append(SubSeq(s, 1, k - 1), s[k]) = SubSeq(s, 1, k)
        BY <1>0
      <4>. QED  BY <3>1, <4>1, <4>2
    <3>. QED  BY <3>2, <3>3
  <2>. QED  BY <2>2, <2>3
<1>. HIDE DEF P
<1>4. SUFFICES ASSUME T # {} PROVE FALSE
  BY DEF P, LeftIn
<1>5. T \subseteq Nat
  BY <1>0
<1>6. Min(T) \in T /\ \A y \in T : Min(T) <= y
  <2>. HIDE DEF T
  <2>. QED  BY <1>4, <1>5, MinIsLeast
<1>7. PICK n \in 0..m : ~ P(n) /\ \A k \in 0..m : k < n => P(k)
  BY <1>0, <1>6
<1>8. CASE n = 0
  BY <1>2, <1>7, <1>8
<1>9. CASE n # 0
  <2>1. n \in 1..m /\ n - 1 \in 0..m /\ n - 1 < n
    BY <1>0, <1>9
  <2>. QED  BY <1>3, <1>7, <2>1
<1>. QED  BY <1>8, <1>9

(* Without removes an element, and only that.                              *)
LEMMA WithoutFacts ==
    ASSUME NEW S, NEW s \in Seq(S), NEW x
    PROVE  /\ Without(s, x) \in Seq(S \ {x})
           /\ (\A j \in 1..Len(s) : s[j] # x) => Without(s, x) = s
<1>. DEFINE f == CHOOSE g : Leaves(s, x, g, Len(s))
<1>1. Len(s) \in Nat
  OBVIOUS
<1>2. Leaves(s, x, f, Len(s))
  BY <1>1, LeavesExists
<1>3. Without(s, x) = f[Len(s)]
  BY WithoutIs
<1>4. SubSeq(s, 1, Len(s)) = s
  OBVIOUS
<1>. HIDE DEF f
<1>5. LeftIn(S, s, x, Len(s), f[Len(s)])
  <2>1. Len(s) \in 0..Len(s)
    BY <1>1
  <2>. QED  BY <1>2, <2>1, LeavesFacts
<1>. QED  BY <1>3, <1>4, <1>5 DEF LeftIn

(* Headers read back as they were: none has an empty value.                *)
LEMMA HeadersFromFile ==
    ASSUME NEW h, IsHeaders(h)
    PROVE  deserialize_headers(sorted_headers(h)) = h
<1>1. \A n \in DOMAIN h : Without(h[n], "nested") = h[n]
  <2>1. ASSUME NEW s \in Seq(STRING \ {"nested"}) PROVE Without(s, "nested") = s
    <3>1. \A j \in 1..Len(s) : s[j] # "nested"
      OBVIOUS
    <3>. QED  BY <3>1, WithoutFacts
  <2>. QED  BY <2>1 DEF IsHeaders
<1>2. DOMAIN deserialize_headers(sorted_headers(h)) = DOMAIN h
  BY DEF deserialize_headers, sorted_headers
<1>3. ASSUME NEW n \in DOMAIN h PROVE deserialize_headers(sorted_headers(h))[n] = h[n]
  BY <1>1 DEF deserialize_headers, sorted_headers
<1>4. deserialize_headers(sorted_headers(h))
        = [n \in DOMAIN h |-> deserialize_headers(sorted_headers(h))[n]]
  BY <1>2 DEF deserialize_headers
<1>. QED  BY <1>3, <1>4 DEF IsHeaders, IsFunction

(***************************************************************************)
(* Interactions that both formats hold.                                    *)
(***************************************************************************)
ProperRequest(r) == RequestShape(r) /\ IsHeaders(r.headers) /\ IsBody(r.body)
ProperResponse(r) ==
    ResponseShape(r) /\ IsU16(r.status) /\ IsHeaders(r.headers) /\ IsBody(r.body)
ProperHttp(i) ==
    /\ i = [request |-> i.request, response |-> i.response]
    /\ ProperRequest(i.request) /\ ProperResponse(i.response)

(* JSON null is no body of an RPC or a frame.                              *)
SomeBody(b) == IsBody(b) /\ (b.kind = "json" => b.doc # Doc(Null))
ProperGrpc(i) == GrpcShape(i) /\ SomeBody(i.request.body) /\ SomeBody(i.response.body)
ProperWs(i) == WsShape(i) /\ \A f \in Elements(i.frames) : SomeBody(f.body)

WriteHttp(i) == [request |-> request_to_raw(i.request), response |-> response_to_raw(i.response)]
ReadHttp(r, b) ==
    [request |-> request_from_raw(r.request, b), response |-> response_from_raw(r.response, b)]

(* A request reads back from YAML as it was.                               *)
LEMMA RequestReadsBack ==
    ASSUME NEW r, ProperRequest(r)
    PROVE  request_from_raw(request_to_raw(r), NoBinaries) = r
<1>1. deserialize_headers(sorted_headers(r.headers)) = r.headers
  BY HeadersFromFile DEF ProperRequest
<1>2. body_from_raw(deserialize_body(body_to_raw(r.body)), NoBinaries) = r.body
  <2>1. PICK type, content : TypedBody(r.body) = RawBody(type, content)
    BY TypedBodies DEF ProperRequest, IsBody
  <2>2. deserialize_body(body_to_raw(r.body)) = TypedBody(r.body)
    BY <2>1, EnvelopesRead DEF body_to_raw
  <2>. QED  BY <2>2, BodyFromRaw DEF ProperRequest
<1>3. r = [method |-> r.method, uri |-> r.uri, headers |-> r.headers, body |-> r.body]
  BY DEF ProperRequest, RequestShape
<1>. QED  BY <1>1, <1>2, <1>3 DEF request_from_raw, request_to_raw

(* A response reads back from YAML; its status is a u16.                   *)
LEMMA ResponseReadsBack ==
    ASSUME NEW r, ProperResponse(r)
    PROVE  /\ response_from_raw(response_to_raw(r), NoBinaries) = r
           /\ deserialize_status(response_to_raw(r).status).ok
<1>1. deserialize_headers(sorted_headers(r.headers)) = r.headers
  BY HeadersFromFile DEF ProperResponse
<1>2. body_from_raw(deserialize_body(body_to_raw(r.body)), NoBinaries) = r.body
  <2>1. PICK type, content : TypedBody(r.body) = RawBody(type, content)
    BY TypedBodies DEF ProperResponse, IsBody
  <2>2. deserialize_body(body_to_raw(r.body)) = TypedBody(r.body)
    BY <2>1, EnvelopesRead DEF body_to_raw
  <2>. QED  BY <2>2, BodyFromRaw DEF ProperResponse
<1>3. r = [status |-> r.status, length |-> r.length, headers |-> r.headers, body |-> r.body]
  BY DEF ProperResponse, ResponseShape
<1>4. /\ deserialize_status(response_to_raw(r).status).ok
      /\ deserialize_status(response_to_raw(r).status).status = r.status
  BY DEF deserialize_status, response_to_raw, ProperResponse
<1>5. response_from_raw(response_to_raw(r), NoBinaries) = r
  BY <1>1, <1>2, <1>3, <1>4 DEF response_from_raw, response_to_raw
<1>. QED  BY <1>4, <1>5

(* An HTTP interaction reads back from YAML as it was.                     *)
LEMMA HttpReadsBack ==
    ASSUME NEW i, ProperHttp(i)
    PROVE  /\ ReadHttp(WriteHttp(i), NoBinaries) = i
           /\ deserialize_status(WriteHttp(i).response.status).ok
  BY RequestReadsBack, ResponseReadsBack DEF ProperHttp, ReadHttp, WriteHttp

(* The optional body of an RPC or a frame reads back, unless it is JSON    *)
(* null.                                                                   *)
LEMMA SomeBodyReadsBack ==
    ASSUME NEW b, SomeBody(b)
    PROVE  body_from_raw(derive_body(body_to_raw(b)), NoBinaries) = b
<1>1. PICK type, content : /\ TypedBody(b) = RawBody(type, content)
                           /\ ~ (content.kind = "json" /\ content.doc = Doc(Null))
  <2>1. CASE b = Body_none
    BY <2>1, TypedBodies DEF Absent, Body
  <2>2. ASSUME NEW d, b = Body_json(d)
        PROVE  TypedBody(b) = RawBody("json", b) /\ b.doc # Doc(Null)
    BY <2>2, TypedBodies DEF SomeBody, Body_json, Body
  <2>3. ASSUME NEW t, b = Body_text(t)
        PROVE  TypedBody(b) = RawBody("text", b) /\ b.kind # "json"
    BY <2>3, TypedBodies DEF Body_text, Body
  <2>4. ASSUME NEW r, b = Body_binary(r)
        PROVE  TypedBody(b) = RawBody("binary", HexString(r)) /\ HexString(r).kind # "json"
    BY <2>4, TypedBodies DEF HexString, Body
  <2>. QED  BY <2>1, <2>2, <2>3, <2>4 DEF SomeBody, IsBody
<1>2. derive_body(body_to_raw(b)) = TypedBody(b)
  BY <1>1, EnvelopesRead DEF body_to_raw
<1>. QED  BY <1>2, BodyFromRaw DEF SomeBody

(* An RPC reads back from YAML as it was.                                  *)
LEMMA GrpcReadsBack ==
    ASSUME NEW i, ProperGrpc(i)
    PROVE  grpc_from_raw(grpc_to_raw(i), NoBinaries) = i
<1>1. /\ body_from_raw(derive_body(body_to_raw(i.request.body)), NoBinaries) = i.request.body
      /\ body_from_raw(derive_body(body_to_raw(i.response.body)), NoBinaries) = i.response.body
  BY SomeBodyReadsBack DEF ProperGrpc
<1>. QED  BY <1>1 DEF ProperGrpc, GrpcShape, grpc_from_raw, grpc_to_raw

(* A WebSocket connection reads back from YAML as it was.                  *)
LEMMA WsReadsBack ==
    ASSUME NEW i, ProperWs(i)
    PROVE  ws_from_raw(ws_to_raw(i), NoBinaries) = i
<1>1. ASSUME NEW k \in DOMAIN i.frames
      PROVE  /\ i.frames[k] = [direction |-> i.frames[k].direction,
                               frame_type |-> i.frames[k].frame_type, body |-> i.frames[k].body]
             /\ body_from_raw(derive_body(body_to_raw(i.frames[k].body)), NoBinaries)
                  = i.frames[k].body
  BY SomeBodyReadsBack DEF ProperWs, WsShape, Elements
<1>2. i = [uri |-> i.uri, headers |-> i.headers, frames |-> i.frames]
  BY DEF ProperWs, WsShape
<1>. DEFINE out == [k \in DOMAIN i.frames |-> frame_to_raw(i.frames[k])]
            back == [k \in DOMAIN out |-> frame_from_raw(out[k], NoBinaries)]
            w == ws_to_raw(i)
<1>3. w = [uri |-> i.uri, headers |-> i.headers, frames |-> out]
  BY <1>2 DEF ws_to_raw, Each
<1>4. ws_from_raw(w, NoBinaries) = [uri |-> i.uri, headers |-> i.headers, frames |-> back]
  <2>. HIDE DEF w, out
  <2>. QED  BY <1>3 DEF ws_from_raw, Each
<1>5. ASSUME NEW k \in DOMAIN i.frames
      PROVE  frame_from_raw(frame_to_raw(i.frames[k]), NoBinaries) = i.frames[k]
  BY <1>1 DEF frame_from_raw, frame_to_raw
<1>. HIDE DEF w
<1>6. back = i.frames
  <2>1. i.frames \in Seq(Elements(i.frames))
    BY DEF ProperWs, WsShape, IsSeq
  <2>2. i.frames = [k \in DOMAIN i.frames |-> i.frames[k]]
    BY <2>1
  <2>. QED  BY <1>5, <2>2
<1>. QED  BY <1>2, <1>4, <1>6 DEF w

(* An HTTP interaction reads back from TOML as it was.                     *)
LEMMA TomlReadsBack ==
    ASSUME NEW i, ProperHttp(i)
    PROVE  /\ interaction_from_toml(interaction_to_toml(i)) = i
           /\ body_from_toml(interaction_to_toml(i).request.body).ok
           /\ body_from_toml(interaction_to_toml(i).response.body).ok
<1>1. /\ body_from_toml(body_to_toml(i.request.body)) = [ok |-> TRUE, body |-> i.request.body]
      /\ body_from_toml(body_to_toml(i.response.body)) = [ok |-> TRUE, body |-> i.response.body]
  BY BodyFromToml DEF ProperHttp, ProperRequest, ProperResponse
<1>. DEFINE t == interaction_to_toml(i)
<1>2. /\ i = [request |-> i.request, response |-> i.response]
      /\ i.request = [method |-> i.request.method, uri |-> i.request.uri,
                      headers |-> i.request.headers, body |-> i.request.body]
      /\ i.response = [status |-> i.response.status, length |-> i.response.length,
                       headers |-> i.response.headers, body |-> i.response.body]
  BY DEF ProperHttp, ProperRequest, ProperResponse, RequestShape, ResponseShape
<1>3. t = [i EXCEPT !.request.body = body_to_toml(@), !.response.body = body_to_toml(@)]
  BY DEF interaction_to_toml
<1>. HIDE DEF t
<1>4. /\ t.request.body = body_to_toml(i.request.body)
      /\ t.response.body = body_to_toml(i.response.body)
      /\ t = [request |-> t.request, response |-> t.response]
      /\ [t.request EXCEPT !.body = i.request.body] = i.request
      /\ [t.response EXCEPT !.body = i.response.body] = i.response
  BY <1>2, <1>3
<1>. DEFINE u == interaction_from_toml(t)
<1>5. u = [t EXCEPT !.request.body = body_from_toml(@).body, !.response.body = body_from_toml(@).body]
  BY DEF interaction_from_toml
<1>. HIDE DEF u
<1>6. u = [request |-> i.request, response |-> i.response]
  <2>1. u = [t EXCEPT !.request.body = i.request.body, !.response.body = i.response.body]
    BY <1>1, <1>4, <1>5
  <2>. QED  BY <1>4, <2>1
<1>. QED  BY <1>1, <1>2, <1>4, <1>6 DEF t, u

(* The cassettes that a file holds.                                        *)
Proper(c) ==
    /\ c = [interactions |-> c.interactions, grpc_interactions |-> c.grpc_interactions,
            ws_interactions |-> c.ws_interactions, observed_requests |-> c.observed_requests]
    /\ \A kind \in DOMAIN NoCassette : IsSeq(c[kind])
    /\ \A i \in Elements(c.interactions) : ProperHttp(i)
    /\ \A i \in Elements(c.grpc_interactions) : ProperGrpc(i)
    /\ \A i \in Elements(c.ws_interactions) : ProperWs(i)
    /\ \A r \in Elements(c.observed_requests) : ProperRequest(r)

IsOrder(o, tape) ==
    /\ o \in [DOMAIN tape -> DOMAIN tape]
    /\ \A a, b \in DOMAIN tape : o[a] = o[b] => a = b

Kinds == {"interactions", "grpc_interactions", "ws_interactions", "observed_requests"}

(* The four tapes of a cassette.                                           *)
LEMMA KindsAre == DOMAIN NoCassette = Kinds
  BY DEF NoCassette, Kinds

(* A sequence as a function.                                               *)
LEMMA SeqIsFunction ==
    ASSUME NEW s, IsSeq(s)
    PROVE  /\ Len(s) \in Nat /\ DOMAIN s = 1..Len(s)
           /\ s = [k \in DOMAIN s |-> s[k]]
           /\ \A k \in DOMAIN s : s[k] \in Elements(s)
  BY DEF IsSeq, Elements

(* A function on an initial segment of the positive numbers is a sequence. *)
LEMMA FunctionIsSeq ==
    ASSUME NEW n \in Nat, NEW f, f = [k \in 1..n |-> f[k]]
    PROVE  IsSeq(f) /\ Len(f) = n
<1>1. f \in [1..n -> Elements(f)]
  BY DEF Elements
<1>2. f \in Seq(Elements(f)) /\ Len(f) = n
  <2>. DEFINE S == Elements(f)
  <2>1. f \in [1..n -> S]
    BY <1>1
  <2>. HIDE DEF S
  <2>2. f \in Seq(S) /\ Len(f) = n
    BY <2>1
  <2>. QED  BY <2>2 DEF S
<1>. QED  BY <1>2 DEF IsSeq

(* The interactions in another order are the same interactions.            *)
LEMMA InOrderFacts ==
    ASSUME NEW c, IsSeq(c.interactions), NEW o, IsOrder(o, c.interactions)
    PROVE  /\ IsSeq(InOrder(c, o))
           /\ Elements(InOrder(c, o)) = Elements(c.interactions)
           /\ DOMAIN InOrder(c, o) = DOMAIN c.interactions
<1>. DEFINE s == c.interactions
            n == Len(s)
            t == InOrder(c, o)
<1>1. n \in Nat /\ DOMAIN s = 1..n /\ o \in [1..n -> 1..n] /\ \A a, b \in 1..n : o[a] = o[b] => a = b
  BY SeqIsFunction DEF IsOrder
<1>2. t = [k \in 1..n |-> s[o[k]]]
  BY <1>1 DEF InOrder
<1>. HIDE DEF s, n, t
<1>3. \A k \in 1..n : \E a \in 1..n : o[a] = k
  BY <1>1, InjectionIsOnto
<1>4. Elements(t) = Elements(s)
  <2>1. \A k \in 1..n : t[k] = s[o[k]] /\ o[k] \in 1..n
    BY <1>1, <1>2
  <2>2. DOMAIN t = 1..n
    BY <1>2
  <2>3. Elements(t) \subseteq Elements(s)
    BY <1>1, <2>1, <2>2 DEF Elements
  <2>4. Elements(s) \subseteq Elements(t)
    BY <1>1, <1>3, <2>1, <2>2 DEF Elements
  <2>. QED  BY <2>3, <2>4
<1>5. IsSeq(t)
  <2>1. t = [k \in 1..n |-> t[k]]
    BY <1>2
  <2>. QED  BY <1>1, <2>1, FunctionIsSeq
<1>. QED  BY <1>1, <1>2, <1>4, <1>5 DEF s, t, n

(* What is saved in YAML loads as it was.                                  *)
LEMMA YamlReadsBack ==
    ASSUME NEW c, Proper(c), NEW o, IsOrder(o, c.interactions)
    PROVE  /\ from_raw(to_raw(c, o), NoBinaries).ok
           /\ from_raw(to_raw(c, o), NoBinaries).cassette =
                [interactions |-> InOrder(c, o), grpc_interactions |-> c.grpc_interactions,
                 ws_interactions |-> c.ws_interactions, observed_requests |-> c.observed_requests]
<1>. DEFINE t == InOrder(c, o)
            http == [k \in DOMAIN t |-> WriteHttp(t[k])]
            grpc == [k \in DOMAIN c.grpc_interactions |-> grpc_to_raw(c.grpc_interactions[k])]
            ws   == [k \in DOMAIN c.ws_interactions |-> ws_to_raw(c.ws_interactions[k])]
            obs  == [k \in DOMAIN c.observed_requests |-> request_to_raw(c.observed_requests[k])]
            raw  == to_raw(c, o)
<1>0. \A kind \in Kinds : IsSeq(c[kind])
  BY KindsAre DEF Proper
<1>1. raw = [interactions |-> http, grpc_interactions |-> grpc, ws_interactions |-> ws,
             observed_requests |-> obs]
  BY DEF to_raw, Each, WriteHttp
<1>2. IsSeq(t) /\ \A k \in DOMAIN t : ProperHttp(t[k])
  <2>1. IsSeq(t) /\ Elements(t) = Elements(c.interactions)
    BY <1>0, InOrderFacts DEF Kinds
  <2>. QED  BY <2>1, SeqIsFunction DEF Proper
<1>. HIDE DEF t
<1>3. [k \in DOMAIN http |-> ReadHttp(http[k], NoBinaries)] = t
  <2>1. \A k \in DOMAIN t : ReadHttp(WriteHttp(t[k]), NoBinaries) = t[k]
    BY <1>2, HttpReadsBack
  <2>2. t = [k \in DOMAIN t |-> t[k]]
    BY <1>2, SeqIsFunction
  <2>. QED  BY <2>1, <2>2
<1>4. \A k \in DOMAIN http : deserialize_status(http[k].response.status).ok
  <2>1. \A k \in DOMAIN t : deserialize_status(WriteHttp(t[k]).response.status).ok
    BY <1>2, HttpReadsBack
  <2>. QED  BY <2>1
<1>5. [k \in DOMAIN grpc |-> grpc_from_raw(grpc[k], NoBinaries)] = c.grpc_interactions
  <2>1. IsSeq(c.grpc_interactions)
    BY <1>0 DEF Kinds
  <2>2. \A k \in DOMAIN c.grpc_interactions :
           grpc_from_raw(grpc_to_raw(c.grpc_interactions[k]), NoBinaries) = c.grpc_interactions[k]
    BY <2>1, SeqIsFunction, GrpcReadsBack DEF Proper
  <2>. QED  BY <2>1, <2>2, SeqIsFunction
<1>6. [k \in DOMAIN ws |-> ws_from_raw(ws[k], NoBinaries)] = c.ws_interactions
  <2>1. IsSeq(c.ws_interactions)
    BY <1>0 DEF Kinds
  <2>2. \A k \in DOMAIN c.ws_interactions :
           ws_from_raw(ws_to_raw(c.ws_interactions[k]), NoBinaries) = c.ws_interactions[k]
    BY <2>1, SeqIsFunction, WsReadsBack DEF Proper
  <2>. QED  BY <2>1, <2>2, SeqIsFunction
<1>7. [k \in DOMAIN obs |-> request_from_raw(obs[k], NoBinaries)] = c.observed_requests
  <2>1. IsSeq(c.observed_requests)
    BY <1>0 DEF Kinds
  <2>2. \A k \in DOMAIN c.observed_requests :
           request_from_raw(request_to_raw(c.observed_requests[k]), NoBinaries)
             = c.observed_requests[k]
    BY <2>1, SeqIsFunction, RequestReadsBack DEF Proper
  <2>. QED  BY <2>1, <2>2, SeqIsFunction
<1>. HIDE DEF http, grpc, ws, obs, raw
<1>8. from_raw(raw, NoBinaries).ok
  BY <1>1, <1>4 DEF from_raw
<1>9. from_raw(raw, NoBinaries).cassette =
        [interactions |-> [k \in DOMAIN http |-> ReadHttp(http[k], NoBinaries)],
         grpc_interactions |-> [k \in DOMAIN grpc |-> grpc_from_raw(grpc[k], NoBinaries)],
         ws_interactions |-> [k \in DOMAIN ws |-> ws_from_raw(ws[k], NoBinaries)],
         observed_requests |-> [k \in DOMAIN obs |-> request_from_raw(obs[k], NoBinaries)]]
  BY <1>1 DEF from_raw, Each, ReadHttp
<1>. QED  BY <1>3, <1>5, <1>6, <1>7, <1>8, <1>9 DEF raw, t

(* What is saved in TOML loads as it was.                                  *)
LEMMA TomlFileReadsBack ==
    ASSUME NEW c, Proper(c), NEW o, IsOrder(o, c.interactions)
    PROVE  /\ from_toml(to_toml(c, o)).ok
           /\ from_toml(to_toml(c, o)).cassette = [NoCassette EXCEPT !.interactions = InOrder(c, o)]
<1>. DEFINE t == InOrder(c, o)
            raw == to_toml(c, o)
<1>0. \A kind \in Kinds : IsSeq(c[kind])
  BY KindsAre DEF Proper
<1>1. raw = [k \in DOMAIN t |-> interaction_to_toml(t[k])]
  BY DEF to_toml, Each
<1>2. IsSeq(t) /\ \A k \in DOMAIN t : ProperHttp(t[k])
  <2>1. IsSeq(t) /\ Elements(t) = Elements(c.interactions)
    BY <1>0, InOrderFacts DEF Kinds
  <2>. QED  BY <2>1, SeqIsFunction DEF Proper
<1>. HIDE DEF t, raw
<1>3. [k \in DOMAIN raw |-> interaction_from_toml(raw[k])] = t
  <2>1. \A k \in DOMAIN t : interaction_from_toml(interaction_to_toml(t[k])) = t[k]
    BY <1>2, TomlReadsBack
  <2>2. t = [k \in DOMAIN t |-> t[k]]
    BY <1>2, SeqIsFunction
  <2>. QED  BY <1>1, <2>1, <2>2
<1>4. \A k \in DOMAIN raw : /\ body_from_toml(raw[k].request.body).ok
                            /\ body_from_toml(raw[k].response.body).ok
  <2>1. \A k \in DOMAIN t : /\ body_from_toml(interaction_to_toml(t[k]).request.body).ok
                            /\ body_from_toml(interaction_to_toml(t[k]).response.body).ok
    BY <1>2, TomlReadsBack
  <2>. QED  BY <1>1, <2>1
<1>5. from_toml(raw).ok
  BY <1>4 DEF from_toml
<1>6. from_toml(raw).cassette
        = [NoCassette EXCEPT !.interactions = [k \in DOMAIN raw |-> interaction_from_toml(raw[k])]]
  BY DEF from_toml, Each
<1>. QED  BY <1>3, <1>5, <1>6 DEF raw, t

(* What is read from a file that `c` was saved to.                         *)
ReadsAs(file, c, toml) ==
    /\ load(file).ok /\ Proper(load(file).cassette) /\ file.toml = toml /\ file # NoFile
    /\ \A kind \in DOMAIN NoCassette : Elements(load(file).cassette[kind]) = Elements(c[kind])

Rearranged(c, o) == [c EXCEPT !.interactions = InOrder(c, o)]

(* Loading what was saved gives the same cassette, the HTTP interactions   *)
(* in the order they were written in.                                      *)
LEMMA SaveLoads ==
    ASSUME NEW c, Proper(c), NEW toml \in BOOLEAN, toml => TomlCanHold(c),
           NEW o, IsOrder(o, c.interactions)
    PROVE  /\ load(save(c, toml, o)).cassette = Rearranged(c, o)
           /\ ReadsAs(save(c, toml, o), c, toml)
<1>. DEFINE f == save(c, toml, o)
            d == [c EXCEPT !.interactions = InOrder(c, o)]
<1>1. c = [interactions |-> c.interactions, grpc_interactions |-> c.grpc_interactions,
            ws_interactions |-> c.ws_interactions, observed_requests |-> c.observed_requests]
  BY DEF Proper
<1>2. load(f).ok /\ load(f).cassette = d
  <2>1. CASE toml
    <3>1. load(f) = from_toml(to_toml(c, o))
      BY <2>1 DEF load, save, Saved
    <3>2. [NoCassette EXCEPT !.interactions = InOrder(c, o)] = d
      BY <1>1, <2>1 DEF NoCassette, TomlCanHold
    <3>. QED  BY <3>1, <3>2, TomlFileReadsBack
  <2>2. CASE ~ toml
    <3>1. load(f) = from_raw(to_raw(c, o), NoBinaries)
      BY <2>2 DEF load, save, Saved, NoBinaries
    <3>2. [interactions |-> InOrder(c, o), grpc_interactions |-> c.grpc_interactions,
           ws_interactions |-> c.ws_interactions, observed_requests |-> c.observed_requests] = d
      BY <1>1
    <3>3. /\ from_raw(to_raw(c, o), NoBinaries).ok
          /\ from_raw(to_raw(c, o), NoBinaries).cassette = d
      BY <3>2, YamlReadsBack
    <3>. HIDE DEF d, f
    <3>. QED  BY <3>1, <3>3
  <2>. QED  BY <2>1, <2>2
<1>3. /\ d.interactions = InOrder(c, o) /\ d.grpc_interactions = c.grpc_interactions
      /\ d.ws_interactions = c.ws_interactions /\ d.observed_requests = c.observed_requests
      /\ d = [interactions |-> d.interactions, grpc_interactions |-> d.grpc_interactions,
              ws_interactions |-> d.ws_interactions, observed_requests |-> d.observed_requests]
  BY <1>1
<1>4. IsSeq(InOrder(c, o)) /\ Elements(InOrder(c, o)) = Elements(c.interactions)
  BY InOrderFacts, KindsAre DEF Proper, Kinds
<1>5. Proper(d)
  <2>. HIDE DEF d
  <2>. QED  BY <1>3, <1>4, KindsAre DEF Proper, Kinds
<1>6. \A kind \in DOMAIN NoCassette : Elements(d[kind]) = Elements(c[kind])
  <2>. HIDE DEF d
  <2>. QED  BY <1>3, <1>4, KindsAre DEF Kinds
<1>7. f.toml = toml /\ f # NoFile
  BY DEF save, Saved, NoFile, to_raw
<1>8. d = Rearranged(c, o)
  BY DEF Rearranged
<1>. HIDE DEF f, d
<1>9. ReadsAs(f, c, toml)
  BY <1>2, <1>5, <1>6, <1>7 DEF ReadsAs
<1>. QED  BY <1>2, <1>8, <1>9 DEF f

-----------------------------------------------------------------------------
(* What scrubbing makes of an interaction.                                 *)

(* What scrubbing does to each part of a request (scrub_interaction).      *)
LEMMA ScrubRequestParts ==
    ASSUME NEW q, RequestShape(q)
    PROVE  ScrubRequest(Security, q) =
             [method |-> q.method,
              uri |-> filter_query_params(q.uri, Security.filter_query_parameters,
                                          Security.replacement),
              headers |-> filter_headers(q.headers, Security.filter_headers),
              body |-> scrub_body(Security, q.body)]
<1>. DEFINE r == ScrubRequest(Security, q)
            h == filter_headers(q.headers, Security.filter_headers)
            u == filter_query_params(q.uri, Security.filter_query_parameters,
                                     Security.replacement)
            b == scrub_body(Security, q.body)
            r1 == [q EXCEPT !.headers = h]
            r2 == [r1 EXCEPT !.uri = u]
<1>1. q = [method |-> q.method, uri |-> q.uri, headers |-> q.headers, body |-> q.body]
  BY DEF RequestShape
<1>. HIDE DEF h, u, b
<1>2. r1.uri = q.uri /\ r2.body = q.body
  BY <1>1
<1>3. r = [[r1 EXCEPT !.uri = filter_query_params(@, Security.filter_query_parameters,
                                                  Security.replacement)]
             EXCEPT !.body = scrub_body(Security, @)]
  BY DEF ScrubRequest, h
<1>. HIDE DEF r1
<1>4. r = [r2 EXCEPT !.body = scrub_body(Security, @)]
  BY <1>2, <1>3 DEF u
<1>. HIDE DEF r2
<1>5. r = [r2 EXCEPT !.body = b]
  BY <1>2, <1>4 DEF b
<1>. HIDE DEF r
<1>6. r = [method |-> q.method, uri |-> u, headers |-> h, body |-> b]
  BY <1>1, <1>5 DEF r1, r2
<1>. QED  BY <1>6 DEF r, h, u, b

(* What scrubbing does to each part of a response.                         *)
LEMMA ScrubResponseParts ==
    ASSUME NEW p, ResponseShape(p)
    PROVE  ScrubResponse(Security, p) =
             [status |-> p.status, length |-> p.length,
              headers |-> filter_headers(p.headers, Security.filter_headers),
              body |-> scrub_body(Security, p.body)]
<1>. DEFINE r == ScrubResponse(Security, p)
            h == filter_headers(p.headers, Security.filter_headers)
            b == scrub_body(Security, p.body)
<1>1. p = [status |-> p.status, length |-> p.length, headers |-> p.headers, body |-> p.body]
  BY DEF ResponseShape
<1>2. r = [p EXCEPT !.headers = h, !.body = scrub_body(Security, @)]
  BY DEF ScrubResponse
<1>3. [p EXCEPT !.headers = h].body = p.body
  BY <1>1
<1>4. r = [p EXCEPT !.headers = h, !.body = b]
  BY <1>2, <1>3
<1>. HIDE DEF r, h, b
<1>5. r = [status |-> p.status, length |-> p.length, headers |-> h, body |-> b]
  BY <1>1, <1>4
<1>. QED  BY <1>5 DEF r, h, b

(* A scrubbed body is a body of the same kind; bytes are left alone.       *)
LEMMA ScrubbedBody ==
    ASSUME NEW b, IsBody(b)
    PROVE  /\ IsBody(scrub_body(Security, b))
           /\ b = Body_none => scrub_body(Security, b) = Body_none
           /\ \A d : b = Body_json(d)
                => scrub_body(Security, b) = Body_json(scrub_json_value(Security, d))
           /\ \A t : b = Body_text(t)
                => scrub_body(Security, b) = Body_text(scrub_text(Security, t))
           /\ \A r : b = Body_binary(r) => scrub_body(Security, b) = b
<1>1. b = Body_none => scrub_body(Security, b) = Body_none
  BY DEF scrub_body, Body_none, Body
<1>2. ASSUME NEW d, b = Body_json(d)
      PROVE  scrub_body(Security, b) = Body_json(scrub_json_value(Security, d))
  <2>1. b.kind = "json" /\ b.doc = d
    BY <1>2 DEF Body_json, Body
  <2>. QED  BY <2>1 DEF scrub_body
<1>3. ASSUME NEW t, b = Body_text(t)
      PROVE  scrub_body(Security, b) = Body_text(scrub_text(Security, t))
  <2>1. b.kind = "text" /\ b.text = t
    BY <1>3 DEF Body_text, Body
  <2>. QED  BY <2>1 DEF scrub_body
<1>4. ASSUME NEW r, b = Body_binary(r) PROVE scrub_body(Security, b) = b
  <2>1. b.kind = "binary"
    BY <1>4 DEF Body_binary, Body
  <2>. QED  BY <2>1 DEF scrub_body
<1>. QED  BY <1>1, <1>2, <1>3, <1>4 DEF IsBody

(* Some of the headers are headers.                                        *)
LEMMA Restricted ==
    ASSUME NEW h, IsHeaders(h), NEW S, S \subseteq DOMAIN h
    PROVE  IsHeaders([n \in S |-> h[n]])
  BY DEF IsHeaders, IsFunction

(* Filtered headers are headers.                                           *)
LEMMA FilteredHeaders ==
    ASSUME NEW h, IsHeaders(h), NEW f
    PROVE  IsHeaders(filter_headers(h, f))
<1>. DEFINE S == {k \in DOMAIN h :
              \/ \A e \in f : ~ e.keep => Lower[k] \notin e.names
              \/ \E e \in f : e.keep /\ Lower[k] \in e.names}
<1>1. filter_headers(h, f) = [n \in S |-> h[n]]
  BY DEF filter_headers
<1>2. S \subseteq DOMAIN h
  OBVIOUS
<1>. HIDE DEF S
<1>. QED  BY <1>1, <1>2, Restricted

(* What a wire header list is stored as is headers.                        *)
LEMMA MappedHeaders ==
    ASSUME NEW h, IsHeaders(h)
    PROVE  IsHeaders(headers_to_map(h)) /\ IsHeaders(stored_headers(headers_to_map(h)))
<1>. DEFINE S == {m \in DOMAIN h : Without(h[m], Opaque) # <<>>}
            g == headers_to_map(h)
<1>1. g = [n \in S |-> Without(h[n], Opaque)]
  BY DEF headers_to_map
<1>2. ASSUME NEW n \in DOMAIN h PROVE Without(h[n], Opaque) \in Seq(STRING \ {"nested"})
  <2>. DEFINE T == STRING \ {"nested"}
  <2>1. h[n] \in Seq(T)
    BY DEF IsHeaders
  <2>. HIDE DEF T
  <2>2. Without(h[n], Opaque) \in Seq(T \ {Opaque})
    BY <2>1, WithoutFacts
  <2>3. Without(h[n], Opaque) \in Seq(T)
    BY <2>2
  <2>. QED  BY <2>3 DEF T
<1>. HIDE DEF g
<1>3. IsHeaders(g)
  BY <1>1, <1>2 DEF IsHeaders, IsFunction
<1>4. IsHeaders(stored_headers(g))
  <2>. DEFINE T == {m \in DOMAIN g : Lower[m] # "content-encoding"}
  <2>1. stored_headers(g) = [n \in T |-> g[n]]
    BY DEF stored_headers
  <2>2. T \subseteq DOMAIN g
    OBVIOUS
  <2>. HIDE DEF T
  <2>. QED  BY <1>3, <2>1, <2>2, Restricted
<1>. QED  BY <1>3, <1>4 DEF g

(* What a message is read as is a body.                                    *)
LEMMA ReadIsBody ==
    ASSUME NEW bytes, NEW headers
    PROVE  IsBody(Read(bytes, headers).body)
<1>. DEFINE ct == header(headers, "content-type")
            ce == header(headers, "content-encoding")
<1>. HIDE DEF ct, ce
<1>1. IsBody(process_body(bytes, ct, ce).body)
  BY DEF process_body, IsBody
<1>. QED  BY <1>1 DEF Read, ct, ce

(* Only no body has the kind none.                                         *)
LEMMA KindOfBody ==
    ASSUME NEW b, IsBody(b)
    PROVE  b.kind = "none" <=> b = Body_none
  BY DEF IsBody, Body_none, Body_json, Body_text, Body_binary, Body

-----------------------------------------------------------------------------
(* What is recorded of an exchange.                                        *)

StoredRequest(wire) == ScrubRequest(Security, recorded_request(wire))
StoredResponse(live) == retag_content_length(ScrubResponse(Security, recorded_response(live)))
StoredHttp(e) == [request |-> StoredRequest(e.request), response |-> StoredResponse(e.response)]

(* A request is looked up as what would be stored of it                    *)
(* (Recorder::prepare_http).                                               *)
LEMMA ProbeIsStored ==
    ASSUME NEW wire
    PROVE  Probe(recorded_request(wire)) = StoredRequest(wire)
  BY DEF Probe, StoredRequest, scrub_interaction

(* What is stored of an exchange can be written to a file.                 *)
LEMMA StoredIsProper ==
    ASSUME NEW c \in HttpCalls
    PROVE  ProperRequest(StoredRequest(c[1])) /\ ProperResponse(StoredResponse(c[2]))
<1>0. IsHeaders(c[1].headers) /\ IsHeaders(c[2].headers) /\ IsU16(c[2].status)
  BY CallsAssumption
<1>. DEFINE q == recorded_request(c[1])
            p == recorded_response(c[2])
            s == ScrubResponse(Security, p)
<1>1. IsHeaders(q.headers) /\ IsBody(q.body) /\ RequestShape(q)
  BY <1>0, MappedHeaders, ReadIsBody DEF recorded_request, RequestShape
<1>2. IsHeaders(p.headers) /\ IsBody(p.body) /\ IsU16(p.status) /\ ResponseShape(p)
  BY <1>0, MappedHeaders, ReadIsBody DEF recorded_response, ResponseShape
<1>. HIDE DEF q, p
<1>3. ProperRequest(ScrubRequest(Security, q))
  <2>1. /\ IsHeaders(filter_headers(q.headers, Security.filter_headers))
        /\ IsBody(scrub_body(Security, q.body))
    BY <1>1, FilteredHeaders, ScrubbedBody
  <2>. QED  BY <1>1, <2>1, ScrubRequestParts DEF ProperRequest, RequestShape
<1>4. ProperResponse(s)
  <2>1. IsHeaders(filter_headers(p.headers, Security.filter_headers))
        /\ IsBody(scrub_body(Security, p.body))
    BY <1>2, FilteredHeaders, ScrubbedBody
  <2>. QED  BY <1>2, <2>1, ScrubResponseParts DEF ProperResponse, ResponseShape
<1>. HIDE DEF s
<1>5. ProperResponse(retag_content_length(s))
  <2>. DEFINE t == retag_content_length(s)
              n == Size(body_bytes(s.body))
  <2>1. t = s \/ t = [s EXCEPT !.length = n]
    BY DEF retag_content_length
  <2>. HIDE DEF t, n
  <2>2. CASE t = [s EXCEPT !.length = n]
    <3>1. s = [status |-> s.status, length |-> s.length, headers |-> s.headers, body |-> s.body]
      BY <1>4 DEF ProperResponse, ResponseShape
    <3>2. t = [status |-> s.status, length |-> n, headers |-> s.headers, body |-> s.body]
      BY <2>2, <3>1
    <3>3. /\ t.status = s.status /\ t.headers = s.headers /\ t.body = s.body
          /\ t = [status |-> t.status, length |-> t.length, headers |-> t.headers, body |-> t.body]
      BY <3>2
    <3>. QED  BY <1>4, <3>3 DEF t, ProperResponse, ResponseShape
  <2>. QED  BY <1>4, <2>1, <2>2 DEF t
<1>. QED  BY <1>3, <1>5 DEF StoredRequest, StoredResponse, q, p, s

(* The same for the interaction.                                           *)
LEMMA StoredHttpIsProper ==
    ASSUME NEW c \in HttpCalls, NEW e, e.request = c[1], e.response = c[2]
    PROVE  ProperHttp(StoredHttp(e))
  BY StoredIsProper DEF StoredHttp, ProperHttp

StoredGrpc(e) ==
    scrub_grpc_interaction(Security,
        [request |-> grpc_request(e.request), response |-> grpc_response(e.response),
         json_debug |-> NoDoc])

(* What scrubbing does to each part of an RPC.                             *)
LEMMA ScrubGrpcParts ==
    ASSUME NEW i, GrpcShape(i)
    PROVE  scrub_grpc_interaction(Security, i) =
             [request |-> [method |-> i.request.method,
                           metadata |-> filter_headers(i.request.metadata, Security.filter_headers),
                           body |-> scrub_body(Security, i.request.body)],
              response |-> [status_code |-> i.response.status_code,
                            status_message |-> i.response.status_message,
                            metadata |-> filter_headers(i.response.metadata, Security.filter_headers),
                            body |-> scrub_body(Security, i.response.body)],
              json_debug |-> scrub_json_value(Security, i.json_debug)]
<1>1. ASSUME NEW m, NEW h, NEW b, NEW r, h = filter_headers(m.metadata, Security.filter_headers),
             b = scrub_body(Security, m.body), r = ScrubGrpc(Security, m),
             m = [method |-> m.method, metadata |-> m.metadata, body |-> m.body]
      PROVE  r = [method |-> m.method, metadata |-> h, body |-> b]
  <2>1. [m EXCEPT !.metadata = h].body = m.body
    BY <1>1
  <2>2. r = [[m EXCEPT !.metadata = h] EXCEPT !.body = b]
    BY <1>1, <2>1 DEF ScrubGrpc
  <2>. QED  BY <1>1, <2>2
<1>2. ASSUME NEW m, NEW h, NEW b, NEW r, h = filter_headers(m.metadata, Security.filter_headers),
             b = scrub_body(Security, m.body), r = ScrubGrpc(Security, m),
             m = [status_code |-> m.status_code, status_message |-> m.status_message,
                  metadata |-> m.metadata, body |-> m.body]
      PROVE  r = [status_code |-> m.status_code, status_message |-> m.status_message,
                  metadata |-> h, body |-> b]
  <2>1. [m EXCEPT !.metadata = h].body = m.body
    BY <1>2
  <2>2. r = [[m EXCEPT !.metadata = h] EXCEPT !.body = b]
    BY <1>2, <2>1 DEF ScrubGrpc
  <2>. QED  BY <1>2, <2>2
<1>3. ScrubGrpc(Security, i.request) =
        [method |-> i.request.method,
         metadata |-> filter_headers(i.request.metadata, Security.filter_headers),
         body |-> scrub_body(Security, i.request.body)]
  BY <1>1 DEF GrpcShape
<1>4. ScrubGrpc(Security, i.response) =
        [status_code |-> i.response.status_code, status_message |-> i.response.status_message,
         metadata |-> filter_headers(i.response.metadata, Security.filter_headers),
         body |-> scrub_body(Security, i.response.body)]
  BY <1>2 DEF GrpcShape
<1>. QED  BY <1>3, <1>4 DEF scrub_grpc_interaction

(* Scrubbing a JSON document leaves its root as it is.                     *)
LEMMA ScrubKeepsRoot ==
    ASSUME NEW d
    PROVE  /\ <<>> \in DOMAIN d <=> <<>> \in DOMAIN scrub_json_value(Security, d)
           /\ <<>> \in DOMAIN d => scrub_json_value(Security, d)[<<>>] = d[<<>>]
<1>. DEFINE Kept(q) == \A i \in 1..(Len(q) - 1) : ~ SensitiveAt(Security, q, i)
            D == {q \in DOMAIN d : Kept(q)}
            Node(p) == IF p # <<>> /\ SensitiveAt(Security, p, Len(p))
                       THEN Security.replacement ELSE d[p]
<1>1. scrub_json_value(Security, d) = [p \in D |-> Node(p)]
  BY DEF scrub_json_value
<1>2. Kept(<<>>)
  BY Len(<<>>) = 0
<1>. HIDE DEF Kept
<1>. QED  BY <1>1, <1>2

(* The constructors of bodies and their fields.                            *)
LEMMA BodyFields ==
    /\ IsBody(Body_none) /\ Body_none.kind = "none"
    /\ \A d : IsBody(Body_json(d)) /\ Body_json(d).kind = "json" /\ Body_json(d).doc = d
    /\ \A t : IsBody(Body_text(t)) /\ Body_text(t).kind = "text" /\ Body_text(t).text = t
    /\ \A r : IsBody(Body_binary(r)) /\ Body_binary(r).kind = "binary" /\ Body_binary(r).raw = r
<1>1. /\ IsBody(Body_none) /\ \A d : IsBody(Body_json(d)) /\ \A t : IsBody(Body_text(t))
      /\ \A r : IsBody(Body_binary(r))
  BY DEF IsBody
<1>2. /\ Body_none.kind = "none"
      /\ \A d : Body_json(d).kind = "json" /\ Body_json(d).doc = d
      /\ \A t : Body_text(t).kind = "text" /\ Body_text(t).text = t
      /\ \A r : Body_binary(r).kind = "binary" /\ Body_binary(r).raw = r
  BY DEF Body_none, Body_json, Body_text, Body_binary, Body
<1>. QED  BY <1>1, <1>2

(* A body that is not JSON null at its root.                               *)
RootedBody(b) == b.kind = "json" => b.doc[<<>>] # Null \/ <<>> \notin DOMAIN b.doc

(* Scrubbing leaves such a body one that is no JSON null.                  *)
LEMMA RootedIsSome ==
    ASSUME NEW b, IsBody(b), RootedBody(b)
    PROVE  SomeBody(b) /\ SomeBody(scrub_body(Security, b)) /\ RootedBody(scrub_body(Security, b))
<1>1. ASSUME NEW d, d[<<>>] # Null \/ <<>> \notin DOMAIN d PROVE d # Doc(Null)
  BY <1>1 DEF Doc
<1>2. SomeBody(b)
  BY <1>1 DEF SomeBody, RootedBody
<1>3. CASE b = Body_none
  <2>1. scrub_body(Security, b) = b
    BY <1>3, ScrubbedBody
  <2>. QED  BY <1>2, <2>1
<1>4. ASSUME NEW d, b = Body_json(d)
      PROVE  SomeBody(scrub_body(Security, b)) /\ RootedBody(scrub_body(Security, b))
  <2>. DEFINE s == scrub_json_value(Security, d)
  <2>1. d[<<>>] # Null \/ <<>> \notin DOMAIN d
    BY <1>4 DEF RootedBody, Body_json, Body
  <2>2. s[<<>>] # Null \/ <<>> \notin DOMAIN s
    BY <2>1, ScrubKeepsRoot
  <2>3. scrub_body(Security, b) = Body_json(s)
    BY <1>4, ScrubbedBody
  <2>. HIDE DEF s
  <2>. QED  BY <1>1, <2>2, <2>3, BodyFields DEF SomeBody, RootedBody
<1>5. ASSUME NEW t, b = Body_text(t)
      PROVE  SomeBody(scrub_body(Security, b)) /\ RootedBody(scrub_body(Security, b))
  <2>1. scrub_body(Security, b) = Body_text(scrub_text(Security, t))
    BY <1>5, ScrubbedBody
  <2>. QED  BY <2>1, BodyFields DEF SomeBody, RootedBody
<1>6. ASSUME NEW r, b = Body_binary(r)
      PROVE  SomeBody(scrub_body(Security, b)) /\ RootedBody(scrub_body(Security, b))
  <2>1. scrub_body(Security, b) = b
    BY <1>6, ScrubbedBody
  <2>. QED  BY <1>2, <2>1
<1>. QED  BY <1>2, <1>3, <1>4, <1>5, <1>6 DEF IsBody

(* A scrubbed RPC can be written to a file.                                *)
LEMMA ScrubbedGrpcIsProper ==
    ASSUME NEW i, GrpcShape(i), IsBody(i.request.body), IsBody(i.response.body),
           RootedBody(i.request.body), RootedBody(i.response.body)
    PROVE  ProperGrpc(scrub_grpc_interaction(Security, i))
<1>1. /\ SomeBody(scrub_body(Security, i.request.body))
      /\ SomeBody(scrub_body(Security, i.response.body))
  BY RootedIsSome
<1>. DEFINE r == scrub_grpc_interaction(Security, i)
<1>2. /\ GrpcShape(r) /\ r.request.body = scrub_body(Security, i.request.body)
      /\ r.response.body = scrub_body(Security, i.response.body)
  BY ScrubGrpcParts DEF GrpcShape
<1>. HIDE DEF r
<1>3. ProperGrpc(r)
  BY <1>1, <1>2 DEF ProperGrpc
<1>. QED  BY <1>3 DEF r

(* The message of an RPC is bytes or none: nothing is scrubbed in it.      *)
LEMMA FramesDecode ==
    ASSUME NEW f
    PROVE  /\ IsBody(decode_grpc_frame(f).body) /\ decode_grpc_frame(f).body.kind = "binary"
           /\ IsBody(decode_optional_grpc_frame(f).body)
           /\ decode_optional_grpc_frame(f).body.kind \in {"none", "binary"}
           /\ scrub_body(Security, decode_grpc_frame(f).body) = decode_grpc_frame(f).body
           /\ scrub_body(Security, decode_optional_grpc_frame(f).body)
                = decode_optional_grpc_frame(f).body
<1>1. /\ decode_grpc_frame(f).body = Body_binary(f.payload)
      /\ \/ decode_optional_grpc_frame(f).body = Body_none
         \/ decode_optional_grpc_frame(f).body = Body_binary(f.payload)
  BY DEF decode_grpc_frame, decode_optional_grpc_frame
<1>2. IsBody(Body_none) /\ IsBody(Body_binary(f.payload))
  BY DEF IsBody
<1>3. Body_none.kind = "none" /\ Body_binary(f.payload).kind = "binary"
  BY DEF Body_none, Body_binary, Body
<1>4. /\ scrub_body(Security, Body_none) = Body_none
      /\ scrub_body(Security, Body_binary(f.payload)) = Body_binary(f.payload)
  BY <1>2, ScrubbedBody
<1>. QED  BY <1>1, <1>2, <1>3, <1>4

(* What is stored of an RPC: its matcher key is that of the request, and   *)
(* of its response only the metadata is changed.                           *)
LEMMA StoredGrpcParts ==
    ASSUME NEW e
    PROVE  /\ ProperGrpc(StoredGrpc(e))
           /\ GrpcKey(StoredGrpc(e).request) = GrpcKey(grpc_request(e.request))
           /\ StoredGrpc(e).response =
                [grpc_response(e.response) EXCEPT
                    !.metadata = filter_headers(@, Security.filter_headers)]
           /\ StoredGrpc(e).response.body.kind \in {"none", "binary"}
<1>. DEFINE q == grpc_request(e.request)
            p == grpc_response(e.response)
            i == [request |-> q, response |-> p, json_debug |-> NoDoc]
            s == scrub_grpc_interaction(Security, i)
<1>1. /\ q = [method |-> q.method, metadata |-> q.metadata, body |-> q.body]
      /\ q.body = decode_grpc_frame(e.request.frame).body
  BY DEF grpc_request
<1>2. /\ p = [status_code |-> p.status_code, status_message |-> p.status_message,
              metadata |-> p.metadata, body |-> p.body]
      /\ p.body = decode_optional_grpc_frame(e.response.frame).body
  BY DEF grpc_response
<1>. HIDE DEF q, p
<1>3. /\ IsBody(q.body) /\ q.body.kind = "binary" /\ scrub_body(Security, q.body) = q.body
      /\ IsBody(p.body) /\ p.body.kind \in {"none", "binary"} /\ scrub_body(Security, p.body) = p.body
  BY <1>1, <1>2, FramesDecode
<1>4. GrpcShape(i) /\ i.request = q /\ i.response = p
  BY <1>1, <1>2 DEF GrpcShape
<1>. HIDE DEF i
<1>5. ProperGrpc(s)
  BY <1>3, <1>4, ScrubbedGrpcIsProper DEF RootedBody
<1>6. /\ s.request = [method |-> q.method,
                      metadata |-> filter_headers(q.metadata, Security.filter_headers),
                      body |-> q.body]
      /\ s.response = [status_code |-> p.status_code, status_message |-> p.status_message,
                       metadata |-> filter_headers(p.metadata, Security.filter_headers),
                       body |-> p.body]
  BY <1>3, <1>4, ScrubGrpcParts
<1>. HIDE DEF s
<1>7. s.request.method = q.method /\ s.request.body = q.body
  BY <1>6
<1>8. s.response = [p EXCEPT !.metadata = filter_headers(@, Security.filter_headers)]
  <2>. DEFINE h == filter_headers(p.metadata, Security.filter_headers)
              r == s.response
  <2>1. r = [status_code |-> p.status_code, status_message |-> p.status_message,
             metadata |-> h, body |-> p.body]
    BY <1>6
  <2>. HIDE DEF r, h
  <2>2. r = [p EXCEPT !.metadata = h]
    BY <1>2, <2>1
  <2>. QED  BY <2>2 DEF r, h
<1>9. s.response.body.kind \in {"none", "binary"}
  BY <1>3, <1>6
<1>10. StoredGrpc(e) = s
  BY DEF StoredGrpc, s, i, q, p
<1>. QED  BY <1>5, <1>7, <1>8, <1>9, <1>10 DEF GrpcKey, q, p

-----------------------------------------------------------------------------
(* Recordings that are no session's are proper, too.                       *)

(* The content of a JSON, text or binary body is such a body.              *)
LEMMA ContentIsBody ==
    ASSUME NEW c, IsContent(c)
    PROVE  /\ c.kind = "json" => c = Body_json(c.doc)
           /\ c.kind = "text" => c = Body_text(c.text)
<1>1. /\ Absent.kind = "absent" /\ HexString(c.raw).kind = "hex"
      /\ Body_json(c.doc).kind = "json" /\ Body_text(c.text).kind = "text"
  BY DEF Absent, HexString, Body_json, Body_text, Body
<1>. QED  BY <1>1 DEF IsContent

(* The content of a file is a body, whatever its type says.                *)
LEMMA ContentFromRaw ==
    ASSUME NEW raw, IsContent(raw.content), NEW binaries
    PROVE  /\ IsBody(body_from_raw(raw, binaries))
           /\ body_from_raw(raw, binaries).kind = "json"
                => raw.content.kind = "json" /\ body_from_raw(raw, binaries) = raw.content
<1>. DEFINE r == body_from_raw(raw, binaries)
<1>1. \/ r = raw.content /\ raw.content.kind \in {"json", "text"}
      \/ \E x : r = Body_binary(x)
      \/ r = Body_none
  BY DEF body_from_raw
<1>. HIDE DEF r
<1>2. CASE r = raw.content /\ raw.content.kind \in {"json", "text"}
  BY <1>2, ContentIsBody, BodyFields DEF r
<1>3. ASSUME NEW x, r = Body_binary(x) PROVE IsBody(r) /\ r.kind # "json"
  BY <1>3, BodyFields
<1>4. CASE r = Body_none
  BY <1>4, BodyFields DEF r
<1>. QED  BY <1>1, <1>2, <1>3, <1>4 DEF r

(* A body node of YAML holds such content, in VCR's shapes too.            *)
LEMMA NodeContent ==
    ASSUME NEW node, IsContent(node.content),
           node.shape \in {"null", "scalar", "string", "envelope", "string_map", "mapping"}
    PROVE  IsContent(deserialize_body(node).content)
<1>1. IsContent(Absent) /\ \A d : IsContent(Body_json(d))
  BY DEF IsContent, Body_json, Body
<1>2. \A c, t : RawBody(t, c).content = c
  BY DEF RawBody
<1>3. IsContent(RawBody_default.content)
  BY <1>1, <1>2 DEF RawBody_default
<1>4. IsContent(vcr_string_to_raw_body(node.content).content)
  BY <1>1, <1>2, <1>3 DEF vcr_string_to_raw_body
<1>5. \/ deserialize_body(node) = RawBody_default
      \/ deserialize_body(node) = vcr_string_to_raw_body(node.content)
      \/ \E t : deserialize_body(node) = RawBody(t, node.content)
  BY DEF deserialize_body
<1>. QED  BY <1>2, <1>3, <1>4, <1>5

(* An optional body that was read is no JSON null.                         *)
LEMMA DerivedContent ==
    ASSUME NEW node, IsContent(node.content), NEW binaries
    PROVE  SomeBody(body_from_raw(derive_body(node), binaries))
<1>. DEFINE raw == derive_body(node)
<1>1. IsContent(Absent) /\ Absent.kind # "json"
  BY DEF IsContent, Absent, Body
<1>2. \/ raw.content = Absent
      \/ raw.content = node.content /\ ~ (node.content.kind = "json" /\ node.content.doc = Doc(Null))
  BY DEF derive_body, RawBody
<1>. HIDE DEF raw
<1>3. IsContent(raw.content)
  BY <1>1, <1>2
<1>4. /\ IsBody(body_from_raw(raw, binaries))
      /\ body_from_raw(raw, binaries).kind = "json"
           => raw.content.kind = "json" /\ body_from_raw(raw, binaries) = raw.content
  BY <1>3, ContentFromRaw
<1>5. SomeBody(body_from_raw(raw, binaries))
  BY <1>1, <1>2, <1>4 DEF SomeBody
<1>. QED  BY <1>5 DEF raw

(* The content of a TOML file is a body.                                   *)
LEMMA ContentFromToml ==
    ASSUME NEW raw, IsContent(raw.content)
    PROVE  IsBody(body_from_toml(raw).body)
<1>1. \/ body_from_toml(raw).body = Body_none
      \/ \E d : body_from_toml(raw).body = Body_json(d)
      \/ raw.content.kind = "text" /\ body_from_toml(raw).body = raw.content
      \/ \E r : body_from_toml(raw).body = Body_binary(r)
  BY DEF body_from_toml
<1>. QED  BY <1>1, ContentIsBody, BodyFields

(* The headers of a YAML file are headers.                                 *)
LEMMA HeadersOfYaml ==
    ASSUME NEW m, IsYaml(m)
    PROVE  IsHeaders(deserialize_headers(m.headers))
<1>. DEFINE g == deserialize_headers(m.headers)
            T == STRING \ {"nested"}
<1>1. g = [n \in DOMAIN m.headers |-> g[n]]
  BY DEF deserialize_headers
<1>2. ASSUME NEW n \in DOMAIN m.headers PROVE g[n] \in Seq(T)
  <2>. DEFINE h == m.headers[n]
  <2>1. h.items \in Seq(IF h.shape = "seq" THEN STRING ELSE T)
    BY DEF IsYaml
  <2>2. g[n] = IF h.shape = "seq" THEN Without(h.items, "nested")
               ELSE IF h.shape = "null" THEN <<>> ELSE h.items
    BY DEF deserialize_headers
  <2>. HIDE DEF g, h
  <2>3. CASE h.shape = "seq"
    <3>. DEFINE S == STRING
    <3>1. h.items \in Seq(S)
      BY <2>1, <2>3
    <3>. HIDE DEF S
    <3>2. Without(h.items, "nested") \in Seq(S \ {"nested"})
      BY <3>1, WithoutFacts
    <3>. QED  BY <2>2, <2>3, <3>2 DEF S
  <2>4. CASE h.shape # "seq"
    BY <2>1, <2>2, <2>4
  <2>. QED  BY <2>3, <2>4
<1>. HIDE DEF g
<1>3. IsHeaders(g)
  BY <1>1, <1>2 DEF IsHeaders, IsFunction
<1>. QED  BY <1>3 DEF g

(* A request that was read can be written.                                 *)
LEMMA YamlRequest ==
    ASSUME NEW m, IsYaml(m), NEW binaries
    PROVE  ProperRequest(request_from_raw(m, binaries))
<1>1. IsBody(body_from_raw(deserialize_body(m.body), binaries))
  BY NodeContent, ContentFromRaw DEF IsYaml
<1>2. IsHeaders(deserialize_headers(m.headers))
  BY HeadersOfYaml
<1>. DEFINE r == request_from_raw(m, binaries)
<1>3. /\ RequestShape(r) /\ r.headers = deserialize_headers(m.headers)
      /\ r.body = IF m.parsed_body # Absent THEN Body_json(m.parsed_body.doc)
                  ELSE body_from_raw(deserialize_body(m.body), binaries)
  BY DEF request_from_raw, RequestShape
<1>. HIDE DEF r
<1>4. ProperRequest(r)
  BY <1>1, <1>2, <1>3, BodyFields DEF ProperRequest
<1>. QED  BY <1>4 DEF r

(* A response that was read can be written.                                *)
LEMMA YamlResponse ==
    ASSUME NEW m, IsYaml(m), NEW binaries, deserialize_status(m.status).ok
    PROVE  ProperResponse(response_from_raw(m, binaries))
<1>1. IsBody(body_from_raw(deserialize_body(m.body), binaries))
  BY NodeContent, ContentFromRaw DEF IsYaml
<1>2. IsHeaders(deserialize_headers(m.headers))
  BY HeadersOfYaml
<1>3. IsU16(deserialize_status(m.status).status)
  BY DEF deserialize_status
<1>. DEFINE r == response_from_raw(m, binaries)
<1>4. /\ ResponseShape(r) /\ r.headers = deserialize_headers(m.headers)
      /\ r.status = deserialize_status(m.status).status
      /\ r.body = IF m.parsed_body # Absent THEN Body_json(m.parsed_body.doc)
                  ELSE body_from_raw(deserialize_body(m.body), binaries)
  BY DEF response_from_raw, ResponseShape
<1>. HIDE DEF r
<1>5. ProperResponse(r)
  BY <1>1, <1>2, <1>3, <1>4, BodyFields DEF ProperResponse
<1>. QED  BY <1>5 DEF r

(* An RPC that was read can be written.                                    *)
LEMMA YamlGrpc ==
    ASSUME NEW i, GrpcShape(i), IsContent(i.request.body.content),
           IsContent(i.response.body.content), NEW binaries
    PROVE  ProperGrpc(grpc_from_raw(i, binaries))
<1>. DEFINE r == grpc_from_raw(i, binaries)
            a == body_from_raw(derive_body(i.request.body), binaries)
            b == body_from_raw(derive_body(i.response.body), binaries)
<1>1. SomeBody(a) /\ SomeBody(b)
  BY DerivedContent
<1>2. r = [i EXCEPT !.request.body = a,
                    !.response.body = body_from_raw(derive_body(@), binaries)]
  BY DEF grpc_from_raw
<1>3. [i EXCEPT !.request.body = a].response.body = i.response.body
  BY DEF GrpcShape
<1>4. r = [i EXCEPT !.request.body = a, !.response.body = b]
  BY <1>2, <1>3
<1>. HIDE DEF r, a, b
<1>5. r = [request |-> [i.request EXCEPT !.body = a], response |-> [i.response EXCEPT !.body = b],
           json_debug |-> i.json_debug]
  BY <1>4 DEF GrpcShape
<1>6. GrpcShape(r) /\ r.request.body = a /\ r.response.body = b
  BY <1>5 DEF GrpcShape
<1>7. ProperGrpc(r)
  BY <1>1, <1>6 DEF ProperGrpc
<1>. QED  BY <1>7 DEF r

(* A WebSocket connection that was read can be written.                    *)
LEMMA YamlWs ==
    ASSUME NEW i, WsShape(i), \A f \in Elements(i.frames) : IsContent(f.body.content),
           NEW binaries
    PROVE  ProperWs(ws_from_raw(i, binaries))
<1>. DEFINE r == ws_from_raw(i, binaries)
            F == [k \in DOMAIN i.frames |-> frame_from_raw(i.frames[k], binaries)]
<1>0. IsSeq(i.frames)
  BY DEF WsShape
<1>1. r = [i EXCEPT !.frames = F]
  BY DEF ws_from_raw, Each
<1>2. ASSUME NEW k \in DOMAIN i.frames, NEW f, NEW g, f = i.frames[k], g = frame_from_raw(f, binaries)
      PROVE  /\ g = [direction |-> g.direction, frame_type |-> g.frame_type, body |-> g.body]
             /\ SomeBody(g.body)
  <2>1. /\ f = [direction |-> f.direction, frame_type |-> f.frame_type, body |-> f.body]
        /\ IsContent(f.body.content)
    BY <1>2 DEF WsShape, Elements
  <2>. DEFINE b == body_from_raw(derive_body(f.body), binaries)
  <2>2. SomeBody(b)
    BY <2>1, DerivedContent
  <2>3. g = [f EXCEPT !.body = b]
    BY <1>2 DEF frame_from_raw
  <2>. HIDE DEF b
  <2>4. g = [direction |-> f.direction, frame_type |-> f.frame_type, body |-> b]
    BY <2>1, <2>3
  <2>. QED  BY <2>2, <2>4
<1>3. IsSeq(F)
  <2>1. Len(i.frames) \in Nat /\ DOMAIN i.frames = 1..Len(i.frames)
    BY <1>0, SeqIsFunction
  <2>2. F = [k \in 1..Len(i.frames) |-> F[k]]
    BY <2>1
  <2>. HIDE DEF F
  <2>. QED  BY <2>1, <2>2, FunctionIsSeq
<1>4. \A g \in Elements(F) :
        /\ g = [direction |-> g.direction, frame_type |-> g.frame_type, body |-> g.body]
        /\ SomeBody(g.body)
  BY <1>2 DEF Elements
<1>. HIDE DEF r, F
<1>5. r = [uri |-> i.uri, headers |-> i.headers, frames |-> F]
  BY <1>1 DEF WsShape
<1>6. ProperWs(r)
  BY <1>3, <1>4, <1>5 DEF ProperWs, WsShape
<1>. QED  BY <1>6 DEF r

(* An interaction that was read from TOML can be written.                  *)
LEMMA TomlHttp ==
    ASSUME NEW i, HttpShape(i), IsU16(i.response.status), IsHeaders(i.request.headers),
           IsHeaders(i.response.headers), IsContent(i.request.body.content),
           IsContent(i.response.body.content)
    PROVE  ProperHttp(interaction_from_toml(i))
<1>. DEFINE r == interaction_from_toml(i)
            a == body_from_toml(i.request.body).body
            b == body_from_toml(i.response.body).body
<1>1. IsBody(a) /\ IsBody(b)
  BY ContentFromToml
<1>2. r = [i EXCEPT !.request.body = a, !.response.body = body_from_toml(@).body]
  BY DEF interaction_from_toml
<1>3. [i EXCEPT !.request.body = a].response.body = i.response.body
  BY DEF HttpShape
<1>4. r = [i EXCEPT !.request.body = a, !.response.body = b]
  BY <1>2, <1>3
<1>. HIDE DEF r, a, b
<1>5. r = [request |-> [i.request EXCEPT !.body = a], response |-> [i.response EXCEPT !.body = b]]
  BY <1>4 DEF HttpShape
<1>6. /\ HttpShape(r) /\ r.request.body = a /\ r.response.body = b
      /\ r.request.headers = i.request.headers /\ r.response.headers = i.response.headers
      /\ r.response.status = i.response.status
  BY <1>5 DEF HttpShape, RequestShape, ResponseShape
<1>7. ProperHttp(r)
  BY <1>1, <1>6 DEF ProperHttp, ProperRequest, ProperResponse, HttpShape
<1>. QED  BY <1>7 DEF r

(* A cassette that loads can be saved.                                     *)
LEMMA LoadedIsProper ==
    ASSUME NEW f \in InitialFiles, load(f).ok
    PROVE  Proper(load(f).cassette)
<1>. DEFINE c == load(f).cassette
            raw == f.raw
<1>1. CASE f.toml
  <2>. DEFINE t == [k \in DOMAIN raw |-> interaction_from_toml(raw[k])]
  <2>1. IsTomlFile(raw)
    BY <1>1, FilesAssumption
  <2>2. c = [NoCassette EXCEPT !.interactions = t]
    BY <1>1 DEF load, from_toml, Each
  <2>3. \A k \in DOMAIN raw : ProperHttp(t[k])
    BY <2>1, TomlHttp DEF IsTomlFile, Elements
  <2>4. IsSeq(t)
    <3>1. Len(raw) \in Nat /\ DOMAIN raw = 1..Len(raw)
      BY <2>1, SeqIsFunction DEF IsTomlFile
    <3>2. t = [k \in 1..Len(raw) |-> t[k]]
      BY <3>1
    <3>. HIDE DEF t
    <3>. QED  BY <3>1, <3>2, FunctionIsSeq
  <2>5. \A i \in Elements(t) : ProperHttp(i)
    BY <2>3 DEF Elements
  <2>. HIDE DEF c, t
  <2>6. c = [interactions |-> t, grpc_interactions |-> <<>>, ws_interactions |-> <<>>,
             observed_requests |-> <<>>]
    BY <2>2 DEF NoCassette
  <2>7. IsSeq(<<>>) /\ Elements(<<>>) = {}
    BY DEF IsSeq, Elements
  <2>8. Proper(c)
    BY <2>4, <2>5, <2>6, <2>7, KindsAre DEF Proper, Kinds
  <2>. QED  BY <2>8 DEF c
<1>2. CASE ~ f.toml
  <2>. DEFINE b == f.binaries
              http == [k \in DOMAIN raw.interactions |-> ReadHttp(raw.interactions[k], b)]
              grpc == [k \in DOMAIN raw.grpc_interactions |-> grpc_from_raw(raw.grpc_interactions[k], b)]
              ws == [k \in DOMAIN raw.ws_interactions |-> ws_from_raw(raw.ws_interactions[k], b)]
              obs == [k \in DOMAIN raw.observed_requests |->
                         request_from_raw(raw.observed_requests[k], b)]
  <2>1. IsYamlFile(raw)
    BY <1>2, FilesAssumption
  <2>2. c = [interactions |-> http, grpc_interactions |-> grpc, ws_interactions |-> ws,
             observed_requests |-> obs]
    BY <1>2 DEF load, from_raw, Each, ReadHttp
  <2>3. \A k \in DOMAIN raw.interactions :
           deserialize_status(raw.interactions[k].response.status).ok
    BY <1>2 DEF load, from_raw
  <2>4. \A k \in DOMAIN raw.interactions : ProperHttp(http[k])
    <3>1. ASSUME NEW k \in DOMAIN raw.interactions PROVE ProperHttp(ReadHttp(raw.interactions[k], b))
      <4>1. IsYaml(raw.interactions[k].request) /\ IsYaml(raw.interactions[k].response)
        BY <2>1 DEF IsYamlFile, Elements
      <4>. QED  BY <2>3, <4>1, YamlRequest, YamlResponse DEF ProperHttp, ReadHttp
    <3>. QED  BY <3>1
  <2>5. \A k \in DOMAIN raw.grpc_interactions : ProperGrpc(grpc[k])
    BY <2>1, YamlGrpc DEF IsYamlFile, Elements
  <2>6. \A k \in DOMAIN raw.ws_interactions : ProperWs(ws[k])
    <3>1. ASSUME NEW k \in DOMAIN raw.ws_interactions
          PROVE  ProperWs(ws_from_raw(raw.ws_interactions[k], b))
      <4>1. /\ WsShape(raw.ws_interactions[k])
            /\ \A g \in Elements(raw.ws_interactions[k].frames) : IsContent(g.body.content)
        BY <2>1 DEF IsYamlFile, Elements
      <4>. QED  BY <4>1, YamlWs
    <3>. QED  BY <3>1
  <2>7. \A k \in DOMAIN raw.observed_requests : ProperRequest(obs[k])
    BY <2>1, YamlRequest DEF IsYamlFile, Elements
  <2>8. ASSUME NEW s, IsSeq(s), NEW t, DOMAIN t = DOMAIN s, t = [k \in DOMAIN t |-> t[k]]
        PROVE  IsSeq(t)
    <3>1. Len(s) \in Nat /\ DOMAIN t = 1..Len(s)
      BY <2>8, SeqIsFunction
    <3>. QED  BY <2>8, <3>1, FunctionIsSeq
  <2>9. IsSeq(http) /\ IsSeq(grpc) /\ IsSeq(ws) /\ IsSeq(obs)
    <3>1. /\ IsSeq(raw.interactions) /\ IsSeq(raw.grpc_interactions)
          /\ IsSeq(raw.ws_interactions) /\ IsSeq(raw.observed_requests)
      BY <2>1, KindsAre DEF IsYamlFile, Kinds
    <3>2. IsSeq(http)
      <4>1. DOMAIN http = DOMAIN raw.interactions /\ http = [k \in DOMAIN http |-> http[k]]
        OBVIOUS
      <4>. HIDE DEF http
      <4>. QED  BY <2>8, <3>1, <4>1
    <3>3. IsSeq(grpc)
      <4>1. DOMAIN grpc = DOMAIN raw.grpc_interactions /\ grpc = [k \in DOMAIN grpc |-> grpc[k]]
        OBVIOUS
      <4>. HIDE DEF grpc
      <4>. QED  BY <2>8, <3>1, <4>1
    <3>4. IsSeq(ws)
      <4>1. DOMAIN ws = DOMAIN raw.ws_interactions /\ ws = [k \in DOMAIN ws |-> ws[k]]
        OBVIOUS
      <4>. HIDE DEF ws
      <4>. QED  BY <2>8, <3>1, <4>1
    <3>5. IsSeq(obs)
      <4>1. DOMAIN obs = DOMAIN raw.observed_requests /\ obs = [k \in DOMAIN obs |-> obs[k]]
        OBVIOUS
      <4>. HIDE DEF obs
      <4>. QED  BY <2>8, <3>1, <4>1
    <3>. QED  BY <3>2, <3>3, <3>4, <3>5
  <2>10. /\ \A i \in Elements(http) : ProperHttp(i)
         /\ \A i \in Elements(grpc) : ProperGrpc(i)
         /\ \A i \in Elements(ws) : ProperWs(i)
         /\ \A r \in Elements(obs) : ProperRequest(r)
    BY <2>4, <2>5, <2>6, <2>7 DEF Elements
  <2>. HIDE DEF c, http, grpc, ws, obs
  <2>11. Proper(c)
    BY <2>2, <2>9, <2>10, KindsAre DEF Proper, Kinds
  <2>. QED  BY <2>11 DEF c
<1>. QED  BY <1>1, <1>2

-----------------------------------------------------------------------------
(* What a Node program scrubs and adds.                                    *)

(* A body crosses the binding unchanged, and what a Node program gives for *)
(* one is one.                                                             *)
LEMMA BodyFromJson ==
    /\ \A b : IsBody(b) => body_from_json(body_to_json(b)) = b
    /\ \A v : IsContent(v.content) =>
         /\ IsBody(body_from_json(v))
         /\ NotNull(v) => RootedBody(body_from_json(v))
<1>1. ASSUME NEW b, IsBody(b) PROVE body_from_json(body_to_json(b)) = b
  <2>1. CASE b = Body_none
    <3>1. body_from_json(RawBody("none", Absent)) = Body_none
      BY DEF body_from_json, RawBody, Absent, Body
    <3>. QED  BY <2>1, <3>1, TypedBodies DEF body_to_json
  <2>2. ASSUME NEW d, b = Body_json(d) PROVE body_from_json(body_to_json(b)) = b
    <3>1. body_from_json(RawBody("json", Body_json(d))) = Body_json(d)
      BY DEF body_from_json, RawBody, Body_json, Body
    <3>. QED  BY <2>2, <3>1, TypedBodies DEF body_to_json
  <2>3. ASSUME NEW t, b = Body_text(t) PROVE body_from_json(body_to_json(b)) = b
    <3>1. body_from_json(RawBody("text", Body_text(t))) = Body_text(t)
      BY DEF body_from_json, RawBody, Body_text, Body
    <3>. QED  BY <2>3, <3>1, TypedBodies DEF body_to_json
  <2>4. ASSUME NEW r, b = Body_binary(r) PROVE body_from_json(body_to_json(b)) = b
    <3>1. body_from_json(RawBody("binary", HexString(r))) = Body_binary(r)
      BY DEF body_from_json, RawBody, HexString, Body
    <3>. QED  BY <2>4, <3>1, TypedBodies DEF body_to_json
  <2>. QED  BY <1>1, <2>1, <2>2, <2>3, <2>4 DEF IsBody
<1>2. ASSUME NEW v, IsContent(v.content)
      PROVE  /\ IsBody(body_from_json(v))
             /\ NotNull(v) => RootedBody(body_from_json(v))
  <2>. DEFINE r == body_from_json(v)
  <2>1. \/ r = v.content /\ v.content.kind \in {"json", "text"}
        \/ \E x : r = Body_binary(x)
        \/ r = Body_none
    BY DEF body_from_json
  <2>. HIDE DEF r
  <2>2. CASE r = v.content /\ v.content.kind \in {"json", "text"}
    BY <1>2, <2>2, ContentIsBody, BodyFields DEF r, NotNull, RootedBody
  <2>3. ASSUME NEW x, r = Body_binary(x) PROVE IsBody(r) /\ RootedBody(r)
    BY <2>3, BodyFields DEF RootedBody
  <2>4. CASE r = Body_none
    BY <2>4, BodyFields DEF r, RootedBody
  <2>. QED  BY <2>1, <2>2, <2>3, <2>4 DEF r
<1>. QED  BY <1>1, <1>2

(* A scrubbed interaction can be written.                                  *)
LEMMA ScrubbedIsProper ==
    ASSUME NEW i, ProperHttp(i)
    PROVE  ProperHttp(scrub_interaction(Security, i))
<1>. DEFINE q == i.request
            p == i.response
<1>1. ProperRequest(q) /\ ProperResponse(p)
  BY DEF ProperHttp
<1>. HIDE DEF q, p
<1>2. ProperRequest(ScrubRequest(Security, q))
  <2>1. /\ IsHeaders(filter_headers(q.headers, Security.filter_headers))
        /\ IsBody(scrub_body(Security, q.body))
    BY <1>1, FilteredHeaders, ScrubbedBody DEF ProperRequest
  <2>. QED  BY <1>1, <2>1, ScrubRequestParts DEF ProperRequest, RequestShape
<1>3. ProperResponse(ScrubResponse(Security, p))
  <2>1. /\ IsHeaders(filter_headers(p.headers, Security.filter_headers))
        /\ IsBody(scrub_body(Security, p.body))
    BY <1>1, FilteredHeaders, ScrubbedBody DEF ProperResponse
  <2>. QED  BY <1>1, <2>1, ScrubResponseParts DEF ProperResponse, ResponseShape
<1>. QED  BY <1>2, <1>3 DEF scrub_interaction, ProperHttp, q, p

(* An interaction crosses the binding unchanged.                           *)
LEMMA HttpFromJson ==
    ASSUME NEW i, ProperHttp(i)
    PROVE  interaction_from_json(interaction_to_json(i)) = i
<1>1. ASSUME NEW q, ProperRequest(q) PROVE request_from_json(request_to_json(q)) = q
  <2>. DEFINE b == body_to_json(q.body)
              w == request_to_json(q)
  <2>1. w = [q EXCEPT !.body = b]
    BY DEF request_to_json
  <2>. HIDE DEF w
  <2>2. q = [method |-> q.method, uri |-> q.uri, headers |-> q.headers, body |-> q.body]
    BY <1>1 DEF ProperRequest, RequestShape
  <2>3. body_from_json(b) = q.body
    BY <1>1, BodyFromJson DEF ProperRequest
  <2>. HIDE DEF b
  <2>4. w.body = b
    BY <2>1, <2>2
  <2>5. request_from_json(w) = [w EXCEPT !.body = q.body]
    BY <2>3, <2>4 DEF request_from_json
  <2>6. [w EXCEPT !.body = q.body] = q
    BY <2>1, <2>2
  <2>. QED  BY <2>5, <2>6 DEF w
<1>2. ASSUME NEW p, ProperResponse(p) PROVE response_from_json(response_to_json(p)) = p
  <2>. DEFINE b == body_to_json(p.body)
              w == response_to_json(p)
  <2>1. w = [p EXCEPT !.body = b]
    BY DEF response_to_json
  <2>. HIDE DEF w
  <2>2. p = [status |-> p.status, length |-> p.length, headers |-> p.headers, body |-> p.body]
    BY <1>2 DEF ProperResponse, ResponseShape
  <2>3. body_from_json(b) = p.body
    BY <1>2, BodyFromJson DEF ProperResponse
  <2>. HIDE DEF b
  <2>4. w.body = b /\ w.status = p.status
    BY <2>1, <2>2
  <2>5. p.status % 65536 = p.status
    BY <1>2 DEF ProperResponse, IsU16
  <2>6. [w EXCEPT !.body = p.body].status = p.status
    BY <2>1, <2>2
  <2>7. response_from_json(w) = [w EXCEPT !.body = p.body, !.status = p.status]
    <3>1. StatusFromJs(p.status) = p.status
      BY <2>5 DEF StatusFromJs
    <3>2. response_from_json(w) =
            [[w EXCEPT !.body = body_from_json(@)] EXCEPT !.status = StatusFromJs(@)]
      BY DEF response_from_json
    <3>3. response_from_json(w) = [[w EXCEPT !.body = p.body] EXCEPT !.status = StatusFromJs(@)]
      BY <2>3, <2>4, <3>2
    <3>. QED  BY <2>6, <3>1, <3>3
  <2>8. [w EXCEPT !.body = p.body, !.status = p.status] = p
    BY <2>1, <2>2
  <2>. QED  BY <2>7, <2>8 DEF w
<1>. QED  BY <1>1, <1>2 DEF interaction_from_json, interaction_to_json, ProperHttp

(* What a Node program scrubs and adds is the scrubbed interaction, and    *)
(* can be written.                                                         *)
LEMMA NodeHttpIsProper ==
    ASSUME NEW v \in NodeHttp
    PROVE  /\ ProperHttp(interaction_from_json(v))
           /\ interaction_from_json(node_scrub_interaction(v, Security))
                = scrub_interaction(Security, interaction_from_json(v))
           /\ ProperHttp(interaction_from_json(node_scrub_interaction(v, Security)))
<1>. DEFINE q == v.request
            p == v.response
            i == interaction_from_json(v)
<1>0. /\ RequestShape(q) /\ ResponseShape(p) /\ p.status \in Int /\ IsHeaders(q.headers)
      /\ IsHeaders(p.headers) /\ IsContent(q.body.content) /\ IsContent(p.body.content)
  BY NodeAssumption DEF HttpShape
<1>. HIDE DEF q, p
<1>1. ProperRequest(request_from_json(q))
  <2>. DEFINE b == body_from_json(q.body)
              w == request_from_json(q)
  <2>1. IsBody(b)
    BY <1>0, BodyFromJson
  <2>2. w = [q EXCEPT !.body = b]
    BY DEF request_from_json
  <2>. HIDE DEF w, b
  <2>3. w = [method |-> q.method, uri |-> q.uri, headers |-> q.headers, body |-> b]
    BY <1>0, <2>2 DEF RequestShape
  <2>4. ProperRequest(w)
    BY <1>0, <2>1, <2>3 DEF ProperRequest, RequestShape
  <2>. QED  BY <2>4 DEF w
<1>2. ProperResponse(response_from_json(p))
  <2>. DEFINE b == body_from_json(p.body)
              n == StatusFromJs(p.status)
              w == response_from_json(p)
  <2>1. IsBody(b)
    BY <1>0, BodyFromJson
  <2>2. IsU16(n)
    BY <1>0 DEF IsU16, StatusFromJs
  <2>3. [p EXCEPT !.body = b].status = p.status
    BY <1>0 DEF ResponseShape
  <2>4. w = [p EXCEPT !.body = b, !.status = n]
    BY <2>3 DEF response_from_json
  <2>. HIDE DEF w, b, n
  <2>5. w = [status |-> n, length |-> p.length, headers |-> p.headers, body |-> b]
    BY <1>0, <2>4 DEF ResponseShape
  <2>6. ProperResponse(w)
    BY <1>0, <2>1, <2>2, <2>5 DEF ProperResponse, ResponseShape
  <2>. QED  BY <2>6 DEF w
<1>3. ProperHttp(i)
  BY <1>1, <1>2 DEF ProperHttp, interaction_from_json, q, p
<1>. HIDE DEF i
<1>4. ProperHttp(scrub_interaction(Security, i))
  BY <1>3, ScrubbedIsProper
<1>5. interaction_from_json(interaction_to_json(scrub_interaction(Security, i)))
        = scrub_interaction(Security, i)
  BY <1>4, HttpFromJson
<1>. QED  BY <1>3, <1>4, <1>5 DEF node_scrub_interaction, i

(* The same for an RPC.                                                    *)
RootedGrpc(i) ==
    /\ GrpcShape(i) /\ IsBody(i.request.body) /\ IsBody(i.response.body)
    /\ RootedBody(i.request.body) /\ RootedBody(i.response.body)

(* An RPC crosses the binding unchanged.                                   *)
LEMMA GrpcFromJson ==
    ASSUME NEW i, ProperGrpc(i)
    PROVE  grpc_interaction_from_json(grpc_interaction_to_json(i)) = i
<1>. DEFINE a == body_to_json(i.request.body)
            b == body_to_json(i.response.body)
            w == grpc_interaction_to_json(i)
            r == grpc_interaction_from_json(w)
<1>1. body_from_json(a) = i.request.body /\ body_from_json(b) = i.response.body
  BY BodyFromJson DEF ProperGrpc, SomeBody
<1>2. GrpcShape(i)
  BY DEF ProperGrpc
<1>3. [i EXCEPT !.request.body = a].response.body = i.response.body
  BY <1>2 DEF GrpcShape
<1>4. w = [i EXCEPT !.request.body = a, !.response.body = body_to_json(@)]
  BY DEF grpc_interaction_to_json
<1>5. w = [i EXCEPT !.request.body = a, !.response.body = b]
  BY <1>3, <1>4
<1>. HIDE DEF w, a, b
<1>6. w.request.body = a /\ w.response.body = b
  BY <1>2, <1>5 DEF GrpcShape
<1>7. r = [w EXCEPT !.request.body = i.request.body, !.response.body = body_from_json(@)]
  BY <1>1, <1>6 DEF grpc_interaction_from_json
<1>8. [w EXCEPT !.request.body = i.request.body].response.body = w.response.body
  BY <1>2, <1>5 DEF GrpcShape
<1>9. r = [w EXCEPT !.request.body = i.request.body, !.response.body = i.response.body]
  BY <1>1, <1>6, <1>7, <1>8
<1>. HIDE DEF r
<1>10. r = i
  BY <1>2, <1>5, <1>9 DEF GrpcShape
<1>. QED  BY <1>10 DEF r, w

(* An RPC that a Node program scrubs and adds can be written.              *)
LEMMA NodeGrpcIsProper ==
    ASSUME NEW v \in NodeGrpc
    PROVE  /\ RootedGrpc(grpc_interaction_from_json(v))
           /\ grpc_interaction_from_json(node_scrub_grpc_interaction(v, Security))
                = scrub_grpc_interaction(Security, grpc_interaction_from_json(v))
           /\ ProperGrpc(grpc_interaction_from_json(node_scrub_grpc_interaction(v, Security)))
<1>. DEFINE a == body_from_json(v.request.body)
            b == body_from_json(v.response.body)
            i == grpc_interaction_from_json(v)
<1>0. /\ GrpcShape(v) /\ IsContent(v.request.body.content) /\ NotNull(v.request.body)
      /\ IsContent(v.response.body.content) /\ NotNull(v.response.body)
  BY NodeAssumption
<1>1. IsBody(a) /\ RootedBody(a) /\ IsBody(b) /\ RootedBody(b)
  BY <1>0, BodyFromJson
<1>2. [v EXCEPT !.request.body = a].response.body = v.response.body
  BY <1>0 DEF GrpcShape
<1>3. i = [v EXCEPT !.request.body = a, !.response.body = body_from_json(@)]
  BY DEF grpc_interaction_from_json
<1>4. i = [v EXCEPT !.request.body = a, !.response.body = b]
  BY <1>2, <1>3
<1>. HIDE DEF i, a, b
<1>5. i = [request |-> [v.request EXCEPT !.body = a], response |-> [v.response EXCEPT !.body = b],
           json_debug |-> v.json_debug]
  BY <1>0, <1>4 DEF GrpcShape
<1>6. GrpcShape(i) /\ i.request.body = a /\ i.response.body = b
  BY <1>0, <1>5 DEF GrpcShape
<1>7. RootedGrpc(i)
  BY <1>1, <1>6 DEF RootedGrpc
<1>8. ProperGrpc(scrub_grpc_interaction(Security, i))
  BY <1>7, ScrubbedGrpcIsProper DEF RootedGrpc
<1>9. grpc_interaction_from_json(grpc_interaction_to_json(scrub_grpc_interaction(Security, i)))
        = scrub_grpc_interaction(Security, i)
  BY <1>8, GrpcFromJson
<1>. QED  BY <1>7, <1>8, <1>9 DEF node_scrub_grpc_interaction, i

(* The same for a WebSocket connection.                                    *)
FrameShape(f) == f = [direction |-> f.direction, frame_type |-> f.frame_type, body |-> f.body]
RootedFrame(f) == FrameShape(f) /\ IsBody(f.body) /\ RootedBody(f.body)

(* A scrubbed frame is a frame whose body is no JSON null.                 *)
LEMMA ScrubbedFrame ==
    ASSUME NEW f, RootedFrame(f)
    PROVE  RootedFrame(scrub_frame(Security, f)) /\ SomeBody(scrub_frame(Security, f).body)
<1>. DEFINE g == scrub_frame(Security, f)
<1>1. f = [direction |-> f.direction, frame_type |-> f.frame_type, body |-> f.body]
  BY DEF RootedFrame, FrameShape
<1>2. CASE f.frame_type = "close" /\ f.body.kind = "binary"
  <2>1. PICK x : f.body = Body_binary(x)
    BY <1>2, BodyFields DEF RootedFrame, IsBody
  <2>. DEFINE y == [x EXCEPT !.text = scrub_text(Security, @)]
  <2>2. g = [f EXCEPT !.body.raw.text = scrub_text(Security, @)]
    BY <1>2 DEF scrub_frame
  <2>3. f.body.raw = x
    BY <2>1, BodyFields
  <2>4. g = [f EXCEPT !.body.raw = y]
    BY <2>2, <2>3
  <2>. HIDE DEF y, g
  <2>5. [f.body EXCEPT !.raw = y] = Body_binary(y)
    BY <2>1 DEF Body_binary, Body
  <2>6. g = [f EXCEPT !.body = Body_binary(y)]
    BY <2>4, <2>5
  <2>7. g = [direction |-> f.direction, frame_type |-> f.frame_type, body |-> Body_binary(y)]
    BY <1>1, <2>6
  <2>8. g.body = Body_binary(y) /\ FrameShape(g)
    BY <2>7 DEF FrameShape
  <2>9. RootedFrame(g) /\ SomeBody(g.body)
    BY <2>8, BodyFields DEF RootedFrame, RootedBody, SomeBody
  <2>. QED  BY <2>9 DEF g
<1>3. CASE ~ (f.frame_type = "close" /\ f.body.kind = "binary")
  <2>. DEFINE b == scrub_body(Security, f.body)
  <2>1. g = [f EXCEPT !.body = b]
    BY <1>3 DEF scrub_frame
  <2>2. SomeBody(b) /\ RootedBody(b) /\ IsBody(b)
    BY RootedIsSome, ScrubbedBody DEF RootedFrame
  <2>. HIDE DEF g, b
  <2>3. g = [direction |-> f.direction, frame_type |-> f.frame_type, body |-> b]
    BY <1>1, <2>1
  <2>4. g.body = b /\ FrameShape(g)
    BY <2>3 DEF FrameShape
  <2>5. RootedFrame(g) /\ SomeBody(g.body)
    BY <2>2, <2>4 DEF RootedFrame
  <2>. QED  BY <2>5 DEF g
<1>. QED  BY <1>2, <1>3

(* Doing something to every frame.                                         *)
LEMMA EachFrame ==
    ASSUME NEW i, i = [uri |-> i.uri, headers |-> i.headers, frames |-> i.frames],
           IsSeq(i.frames), NEW F, F = [k \in DOMAIN i.frames |-> F[k]],
           NEW r, r = [i EXCEPT !.frames = F]
    PROVE  /\ r = [uri |-> i.uri, headers |-> i.headers, frames |-> F]
           /\ IsSeq(F)
           /\ DOMAIN F = DOMAIN i.frames
<1>1. Len(i.frames) \in Nat /\ DOMAIN i.frames = 1..Len(i.frames)
  BY SeqIsFunction
<1>. QED  BY <1>1, FunctionIsSeq

(* A WebSocket connection crosses the binding unchanged.                   *)
LEMMA WsFromJson ==
    ASSUME NEW i, ProperWs(i)
    PROVE  ws_interaction_from_json(ws_interaction_to_json(i)) = i
<1>. DEFINE out == [k \in DOMAIN i.frames |-> frame_to_json(i.frames[k])]
            back == [k \in DOMAIN out |-> frame_from_json(out[k])]
            w == ws_interaction_to_json(i)
<1>1. i = [uri |-> i.uri, headers |-> i.headers, frames |-> i.frames] /\ IsSeq(i.frames)
  BY DEF ProperWs, WsShape
<1>2. w = [uri |-> i.uri, headers |-> i.headers, frames |-> out]
  BY <1>1 DEF ws_interaction_to_json, Each
<1>3. ws_interaction_from_json(w) = [uri |-> i.uri, headers |-> i.headers, frames |-> back]
  <2>. HIDE DEF w, out
  <2>. QED  BY <1>2 DEF ws_interaction_from_json, Each
<1>4. ASSUME NEW k \in DOMAIN i.frames
      PROVE  frame_from_json(frame_to_json(i.frames[k])) = i.frames[k]
  <2>. DEFINE f == i.frames[k]
              b == body_to_json(f.body)
              g == frame_to_json(f)
  <2>1. FrameShape(f) /\ body_from_json(b) = f.body
    BY BodyFromJson DEF ProperWs, WsShape, Elements, FrameShape, SomeBody
  <2>2. g = [f EXCEPT !.body = b]
    BY DEF frame_to_json
  <2>. HIDE DEF f, b, g
  <2>3. g.body = b
    BY <2>1, <2>2 DEF FrameShape
  <2>4. frame_from_json(g) = [g EXCEPT !.body = f.body]
    BY <2>1, <2>3 DEF frame_from_json
  <2>5. [g EXCEPT !.body = f.body] = f
    BY <2>1, <2>2 DEF FrameShape
  <2>. QED  BY <2>4, <2>5 DEF f, g
<1>5. i.frames = [k \in DOMAIN i.frames |-> i.frames[k]]
  BY <1>1, SeqIsFunction
<1>6. back = i.frames
  BY <1>4, <1>5
<1>. HIDE DEF w, back
<1>. QED  BY <1>1, <1>3, <1>6 DEF w

(* What scrubbing does to each part of a WebSocket connection.             *)
LEMMA ScrubWsParts ==
    ASSUME NEW i, i = [uri |-> i.uri, headers |-> i.headers, frames |-> i.frames]
    PROVE  scrub_ws_interaction(Security, i) =
             [uri |-> filter_query_params(i.uri, Security.filter_query_parameters,
                                          Security.replacement),
              headers |-> filter_headers(i.headers, Security.filter_headers),
              frames |-> [k \in DOMAIN i.frames |-> scrub_frame(Security, i.frames[k])]]
<1>. DEFINE h == filter_headers(i.headers, Security.filter_headers)
            u == filter_query_params(i.uri, Security.filter_query_parameters, Security.replacement)
            G == [k \in DOMAIN i.frames |-> scrub_frame(Security, i.frames[k])]
            s == scrub_ws_interaction(Security, i)
<1>1. s = [[[i EXCEPT !.headers = h] EXCEPT
              !.uri = filter_query_params(@, Security.filter_query_parameters, Security.replacement)]
             EXCEPT !.frames = [k \in DOMAIN @ |-> scrub_frame(Security, @[k])]]
  BY DEF scrub_ws_interaction
<1>. HIDE DEF s, h
<1>2. s = [[[i EXCEPT !.headers = h] EXCEPT !.uri = u]
             EXCEPT !.frames = [k \in DOMAIN @ |-> scrub_frame(Security, @[k])]]
  <2>1. [i EXCEPT !.headers = h].uri = i.uri
    OBVIOUS
  <2>. QED  BY <1>1, <2>1
<1>. HIDE DEF u
<1>3. s = [[[i EXCEPT !.headers = h] EXCEPT !.uri = u] EXCEPT !.frames = G]
  <2>1. [[i EXCEPT !.headers = h] EXCEPT !.uri = u].frames = i.frames
    OBVIOUS
  <2>. QED  BY <1>2, <2>1
<1>. HIDE DEF G
<1>4. s = [uri |-> u, headers |-> h, frames |-> G]
  BY <1>3
<1>. QED  BY <1>4 DEF s, h, u, G

(* What a Node program's object is read as.                                *)
LEMMA NodeWsReads ==
    ASSUME NEW v \in NodeWs, NEW i, i = ws_interaction_from_json(v)
    PROVE  /\ i = [uri |-> i.uri, headers |-> i.headers, frames |-> i.frames] /\ IsSeq(i.frames)
           /\ \A k \in DOMAIN i.frames : RootedFrame(i.frames[k])
<1>. DEFINE F == [k \in DOMAIN v.frames |-> frame_from_json(v.frames[k])]
<1>0. /\ v = [uri |-> v.uri, headers |-> v.headers, frames |-> v.frames] /\ IsSeq(v.frames)
      /\ \A k \in DOMAIN v.frames : /\ FrameShape(v.frames[k]) /\ IsContent(v.frames[k].body.content)
                                    /\ NotNull(v.frames[k].body)
  BY NodeAssumption DEF WsShape, FrameShape, Elements
<1>1. i = [v EXCEPT !.frames = F]
  BY DEF ws_interaction_from_json, Each
<1>2. ASSUME NEW k \in DOMAIN v.frames PROVE RootedFrame(frame_from_json(v.frames[k]))
  <2>. DEFINE f == v.frames[k]
              b == body_from_json(f.body)
              g == frame_from_json(f)
  <2>1. FrameShape(f) /\ IsBody(b) /\ RootedBody(b)
    BY <1>0, BodyFromJson
  <2>2. g = [f EXCEPT !.body = b]
    BY DEF frame_from_json
  <2>. HIDE DEF f, g, b
  <2>3. g = [direction |-> f.direction, frame_type |-> f.frame_type, body |-> b]
    BY <2>1, <2>2 DEF FrameShape
  <2>4. RootedFrame(g)
    BY <2>1, <2>3 DEF RootedFrame, FrameShape
  <2>. QED  BY <2>4 DEF f, g
<1>3. F = [k \in DOMAIN v.frames |-> F[k]] /\ \A k \in DOMAIN v.frames : RootedFrame(F[k])
  BY <1>2
<1>. HIDE DEF F
<1>4. i = [uri |-> v.uri, headers |-> v.headers, frames |-> F] /\ IsSeq(F) /\ DOMAIN F = DOMAIN v.frames
  BY <1>0, <1>1, <1>3, EachFrame
<1>. QED  BY <1>3, <1>4

(* A connection that a Node program scrubs and adds can be written.        *)
LEMMA NodeWsIsProper ==
    ASSUME NEW v \in NodeWs
    PROVE  /\ ws_interaction_from_json(node_scrub_ws_interaction(v, Security))
                = scrub_ws_interaction(Security, ws_interaction_from_json(v))
           /\ ProperWs(ws_interaction_from_json(node_scrub_ws_interaction(v, Security)))
<1>. DEFINE i == ws_interaction_from_json(v)
            G == [k \in DOMAIN i.frames |-> scrub_frame(Security, i.frames[k])]
            s == scrub_ws_interaction(Security, i)
<1>1. /\ i = [uri |-> i.uri, headers |-> i.headers, frames |-> i.frames] /\ IsSeq(i.frames)
      /\ \A k \in DOMAIN i.frames : RootedFrame(i.frames[k])
  BY NodeWsReads
<1>. HIDE DEF i
<1>2. s.frames = G /\ s = [uri |-> s.uri, headers |-> s.headers, frames |-> s.frames]
  BY <1>1, ScrubWsParts
<1>3. /\ \A k \in DOMAIN i.frames : RootedFrame(G[k]) /\ SomeBody(G[k].body)
      /\ G = [k \in DOMAIN i.frames |-> G[k]]
  BY <1>1, ScrubbedFrame
<1>. HIDE DEF s, G
<1>4. IsSeq(G)
  <2>1. Len(i.frames) \in Nat /\ DOMAIN i.frames = 1..Len(i.frames)
    BY <1>1, SeqIsFunction
  <2>. QED  BY <1>3, <2>1, FunctionIsSeq
<1>5. \A g \in Elements(G) : FrameShape(g) /\ SomeBody(g.body)
  BY <1>3 DEF Elements, RootedFrame
<1>6. ProperWs(s)
  BY <1>2, <1>4, <1>5 DEF ProperWs, WsShape, FrameShape
<1>7. ws_interaction_from_json(ws_interaction_to_json(s)) = s
  BY <1>6, WsFromJson
<1>. QED  BY <1>6, <1>7 DEF node_scrub_ws_interaction, s, i

-----------------------------------------------------------------------------
(* The inductive invariant.                                                *)

(* An exchange that was recorded.                                          *)
HttpExchange(e) ==
    /\ \E c \in HttpCalls : e = [proto |-> "http", request |-> c[1], response |-> c[2]]
    /\ Read(e.response.bytes, headers_to_map(e.response.headers)).ok
GrpcExchange(e) ==
    /\ \E c \in GrpcCalls : e = [proto |-> "grpc", request |-> c[1], response |-> c[2]]
    /\ decode_optional_grpc_frame(e.response.frame).ok
    /\ grpc_status(e.response.http, e.response.headers, e.response.trailers).ok
    /\ metadata_to_map(e.response.headers).ok /\ metadata_to_map(e.response.trailers).ok
History(h) == IsSeq(h) /\ \A e \in Elements(h) : HttpExchange(e) \/ GrpcExchange(e)

RecordedHttp(h) == {StoredHttp(e) : e \in {x \in Elements(h) : x.proto = "http"}}
RecordedGrpc(h) == {StoredGrpc(e) : e \in {x \in Elements(h) : x.proto = "grpc"}}

(* No session of the model records a WebSocket.                            *)
ForeignWs ==
    (UNION {Elements(load(f).cassette.ws_interactions) : f \in {g \in InitialFiles : load(g).ok}})
      \cup {ws_interaction_from_json(node_scrub_ws_interaction(v, Security)) : v \in NodeWs}

(* The cassette holds what was recorded in the exchanges `h`, and nothing  *)
(* else but what is foreign.                                               *)
Holds(c, h) ==
    /\ Proper(c)
    /\ RecordedHttp(h) \subseteq Elements(c.interactions)
    /\ Elements(c.interactions) \subseteq ForeignHttp \cup RecordedHttp(h)
    /\ RecordedGrpc(h) \subseteq Elements(c.grpc_interactions)
    /\ Elements(c.grpc_interactions) \subseteq ForeignGrpc \cup RecordedGrpc(h)
    /\ Elements(c.ws_interactions) \subseteq ForeignWs

FileFits(file, toml, k) ==
    /\ file = NoFile => k = <<>>
    /\ file # NoFile => file.toml = toml
    /\ file # NoFile /\ load(file).ok => Holds(load(file).cassette, k)

StateFields == {"open", "mode", "can_record", "cassette", "played", "grpc_played",
                "pending", "errors", "save_empty"}
IsState(s) == IsFunction(s) /\ DOMAIN s = StateFields /\ s.open = TRUE

(* The cassette and the flags of a session that holds the exchanges `h`.   *)
Tapes(s, h) ==
    /\ IsState(s)
    /\ s.mode \in Modes
    /\ s.can_record \in BOOLEAN /\ s.pending \in BOOLEAN /\ s.save_empty \in BOOLEAN
    /\ Holds(s.cassette, h)
    /\ s.played \in [DOMAIN s.cassette.interactions -> BOOLEAN]
    /\ s.grpc_played \in [DOMAIN s.cassette.grpc_interactions -> BOOLEAN]

(* What was not played yet comes from the file with the exchanges `k`.     *)
Fresh(s, k) ==
    /\ \A i \in DOMAIN s.cassette.interactions :
         ~ s.played[i] => /\ ~ Replaces(s.mode)
                          /\ s.cassette.interactions[i] \in ForeignHttp \cup RecordedHttp(k)
    /\ \A i \in DOMAIN s.cassette.grpc_interactions :
         ~ s.grpc_played[i] => /\ ~ Replaces(s.mode)
                               /\ s.cassette.grpc_interactions[i] \in ForeignGrpc \cup RecordedGrpc(k)

Keeps(s, h, k) ==
    /\ ~ s.can_record => h = k /\ Replays(s.mode)
    /\ ~ Replaces(s.mode) => Elements(k) \subseteq Elements(h)
    /\ s.save_empty => Replaces(s.mode) /\ s.cassette = NoCassette

(* A session that does not replace the file has read all of it.            *)
Covers(s, file) ==
    ~ Replaces(s.mode) /\ file # NoFile /\ load(file).ok
        => \A kind \in DOMAIN NoCassette :
             Elements(load(file).cassette[kind]) \subseteq Elements(s.cassette[kind])

(* The responses that may be replayed for a request.                       *)
ResponsesFor(k, wire) ==
    {i.response : i \in ForeignHttpFor(wire)}
      \cup {StoredHttp(e).response :
              e \in {x \in Elements(k) : x.proto = "http" /\ Key(x.request) = Key(wire)}}

CallFits(c, s, k) ==
    /\ c = [phase |-> "live", action |-> c.action, proto |-> c.proto, wire |-> c.wire,
            request |-> c.request, recorded |-> c.recorded]
    /\ c.proto \in {"http", "grpc"} /\ c.action \in {"record", "verify"}
    /\ c.proto = "http" => c.wire \in HttpRequests /\ c.request = recorded_request(c.wire)
    /\ c.proto = "grpc" => /\ c.wire \in GrpcRequests /\ c.request = grpc_request(c.wire)
                           /\ c.action = "record"
    /\ c.action = "record" => s.can_record
    /\ c.action = "verify" => c.recorded \in ResponsesFor(k, c.wire)

IInv ==
    /\ path_toml \in BOOLEAN
    /\ History(held) /\ History(kept)
    /\ FileFits(disk, path_toml, kept)
    /\ session # Closed =>
         /\ Tapes(session, held) /\ Fresh(session, kept)
         /\ Keeps(session, held, kept) /\ Covers(session, disk)
    /\ call # Idle => session # Closed /\ CallFits(call, session, kept)
    /\ session # Closed /\ session.pending => call # Idle /\ call.action = "record"

(* What Append returns.                                                    *)
LEMMA AppendFacts ==
    ASSUME NEW s, IsSeq(s), NEW x
    PROVE  /\ IsSeq(Append(s, x)) /\ Elements(Append(s, x)) = Elements(s) \cup {x}
           /\ Len(Append(s, x)) = Len(s) + 1 /\ DOMAIN Append(s, x) = 1..(Len(s) + 1)
           /\ Append(s, x)[Len(s) + 1] = x /\ \A k \in 1..Len(s) : Append(s, x)[k] = s[k]
<1>. DEFINE S == Elements(s) \cup {x}
            t == Append(s, x)
<1>1. s \in Seq(Elements(s))
  BY DEF IsSeq
<1>2. s \in Seq(S) /\ x \in S
  BY <1>1
<1>. HIDE DEF S
<1>3. /\ t \in Seq(S) /\ Len(t) = Len(s) + 1 /\ DOMAIN t = 1..(Len(s) + 1)
      /\ t[Len(s) + 1] = x /\ \A k \in 1..Len(s) : t[k] = s[k]
  BY <1>2
<1>4. Len(s) \in Nat /\ DOMAIN s = 1..Len(s)
  BY <1>2
<1>. HIDE DEF t
<1>5. Elements(t) = S
  BY <1>3, <1>4 DEF Elements, S
<1>. QED  BY <1>3, <1>5 DEF IsSeq, S, t

(* The empty history and the empty cassette.                               *)
LEMMA EmptyFacts ==
    /\ IsSeq(<<>>) /\ Elements(<<>>) = {} /\ History(<<>>)
    /\ RecordedHttp(<<>>) = {} /\ RecordedGrpc(<<>>) = {}
    /\ Holds(NoCassette, <<>>) /\ TomlCanHold(NoCassette)
    /\ IsOrder(<<>>, NoCassette.interactions)
<1>1. IsSeq(<<>>) /\ Elements(<<>>) = {}
  BY DEF IsSeq, Elements
<1>2. History(<<>>) /\ RecordedHttp(<<>>) = {} /\ RecordedGrpc(<<>>) = {}
  BY <1>1 DEF History, RecordedHttp, RecordedGrpc
<1>. DEFINE c == NoCassette
<1>3. c = [interactions |-> <<>>, grpc_interactions |-> <<>>, ws_interactions |-> <<>>,
           observed_requests |-> <<>>]
  BY DEF NoCassette
<1>. HIDE DEF c
<1>4. Proper(c)
  BY <1>1, <1>3, KindsAre DEF Proper, Kinds
<1>5. Holds(c, <<>>) /\ TomlCanHold(c)
  BY <1>1, <1>2, <1>3, <1>4 DEF Holds, TomlCanHold
<1>6. IsOrder(<<>>, c.interactions)
  <2>1. c.interactions = <<>>
    BY <1>3
  <2>2. DOMAIN <<>> = {} /\ <<>> \in [{} -> {}]
    OBVIOUS
  <2>. QED  BY <2>1, <2>2 DEF IsOrder
<1>. QED  BY <1>1, <1>2, <1>5, <1>6 DEF c

(* A longer history has recorded more.                                     *)
LEMMA RecordedGrows ==
    ASSUME NEW h, NEW k, Elements(h) \subseteq Elements(k)
    PROVE  RecordedHttp(h) \subseteq RecordedHttp(k) /\ RecordedGrpc(h) \subseteq RecordedGrpc(k)
  BY DEF RecordedHttp, RecordedGrpc

(* What a cassette holds depends on its elements only.                     *)
LEMMA HoldsSame ==
    ASSUME NEW c, NEW h, Holds(c, h), NEW d, Proper(d),
           \A kind \in DOMAIN NoCassette : Elements(d[kind]) = Elements(c[kind])
    PROVE  Holds(d, h)
<1>1. /\ Elements(d.interactions) = Elements(c.interactions)
      /\ Elements(d.grpc_interactions) = Elements(c.grpc_interactions)
      /\ Elements(d.ws_interactions) = Elements(c.ws_interactions)
  BY KindsAre DEF Kinds
<1>. QED  BY <1>1 DEF Holds

(* Setting flags changes nothing else.                                     *)
LEMMA SameTapes ==
    ASSUME NEW s, NEW t, NEW h, NEW k, NEW file,
           Tapes(s, h), Fresh(s, k), Keeps(s, h, k), Covers(s, file),
           IsState(t), t.mode = s.mode, t.can_record = s.can_record, t.cassette = s.cassette,
           t.save_empty = s.save_empty, t.pending \in BOOLEAN,
           t.played \in [DOMAIN s.cassette.interactions -> BOOLEAN],
           t.grpc_played \in [DOMAIN s.cassette.grpc_interactions -> BOOLEAN],
           \A i \in DOMAIN s.cassette.interactions : s.played[i] => t.played[i],
           \A i \in DOMAIN s.cassette.grpc_interactions : s.grpc_played[i] => t.grpc_played[i]
    PROVE  Tapes(t, h) /\ Fresh(t, k) /\ Keeps(t, h, k) /\ Covers(t, file)
<1>1. Tapes(t, h)
  BY DEF Tapes
<1>2. Fresh(t, k)
  BY DEF Fresh
<1>3. Keeps(t, h, k) /\ Covers(t, file)
  BY DEF Keeps, Covers
<1>. QED  BY <1>1, <1>2, <1>3

(* A file that was there before holds what is foreign.                     *)
LEMMA ForeignIsLoaded ==
    ASSUME NEW f \in InitialFiles, load(f).ok
    PROVE  Holds(load(f).cassette, <<>>)
<1>1. Proper(load(f).cassette)
  BY LoadedIsProper
<1>2. /\ Elements(load(f).cassette.interactions) \subseteq ForeignHttp
      /\ Elements(load(f).cassette.grpc_interactions) \subseteq ForeignGrpc
      /\ Elements(load(f).cassette.ws_interactions) \subseteq ForeignWs
  BY DEF ForeignHttp, ForeignGrpc, ForeignWs
<1>. QED  BY <1>1, <1>2, EmptyFacts DEF Holds

(* The invariant holds initially.                                          *)
LEMMA InitIInv == Init => IInv
<1>. SUFFICES ASSUME Init PROVE IInv
  OBVIOUS
<1>1. FileFits(disk, path_toml, kept)
  <2>1. disk # NoFile => disk \in InitialFiles /\ disk.toml = path_toml
    BY DEF Init
  <2>. QED  BY <2>1, ForeignIsLoaded DEF Init, FileFits
<1>2. History(held) /\ History(kept)
  BY EmptyFacts DEF Init
<1>. QED  BY <1>1, <1>2 DEF Init, IInv

(* State::from_builder                                                     *)
LEMMA FromBuilderIInv ==
    ASSUME IInv, NEW m \in SessionModes, from_builder(m)
    PROVE  IInv'
<1>. DEFINE exists == disk # NoFile
            loads == exists /\ ~ Replaces(m)
            c == IF loads THEN load(disk).cassette ELSE NoCassette
            s == Session(m, exists, c)
<1>1. /\ session = Closed /\ (loads => load(disk).ok) /\ session' = s
      /\ disk' = (IF m = "Rewrite" THEN NoFile ELSE disk)
      /\ kept' = (IF m = "Rewrite" THEN <<>> ELSE kept)
      /\ held' = (IF loads THEN kept ELSE <<>>)
      /\ path_toml' = path_toml /\ call' = call
  BY DEF from_builder
<1>2. m \in Modes
  BY CallsAssumption
<1>3. call = Idle
  BY <1>1 DEF IInv
<1>4. Holds(c, held')
  <2>1. CASE loads
    BY <1>1, <2>1 DEF IInv, FileFits
  <2>2. CASE ~ loads
    BY <1>1, <2>2, EmptyFacts
  <2>. QED  BY <2>1, <2>2
<1>. HIDE DEF c
<1>5. /\ s = [open |-> TRUE, mode |-> m, can_record |-> CanRecord(m, exists), cassette |-> c,
              played |-> [i \in DOMAIN c.interactions |-> FALSE],
              grpc_played |-> [i \in DOMAIN c.grpc_interactions |-> FALSE],
              pending |-> FALSE, errors |-> FALSE, save_empty |-> exists /\ m = "All"]
  BY DEF Session
<1>6. CanRecord(m, exists) \in BOOLEAN /\ (exists /\ m = "All") \in BOOLEAN
  BY DEF CanRecord
<1>. HIDE DEF s
<1>7. /\ s.mode = m /\ s.can_record = CanRecord(m, exists) /\ s.cassette = c
      /\ s.played = [i \in DOMAIN c.interactions |-> FALSE]
      /\ s.grpc_played = [i \in DOMAIN c.grpc_interactions |-> FALSE]
      /\ s.pending = FALSE /\ s.save_empty = (exists /\ m = "All")
      /\ IsState(s)
  BY <1>5 DEF IsState, IsFunction, StateFields
<1>8. Tapes(s, held')
  BY <1>2, <1>4, <1>6, <1>7 DEF Tapes
<1>9. ~ loads => c = NoCassette
  BY DEF c
<1>10. DOMAIN NoCassette.interactions = {} /\ DOMAIN NoCassette.grpc_interactions = {}
  BY DEF NoCassette
<1>11. Fresh(s, kept')
  <2>1. CASE loads
    <3>1. /\ Elements(c.interactions) \subseteq ForeignHttp \cup RecordedHttp(kept)
          /\ Elements(c.grpc_interactions) \subseteq ForeignGrpc \cup RecordedGrpc(kept)
      BY <1>1, <1>4, <2>1 DEF Holds
    <3>2. kept' = kept /\ ~ Replaces(s.mode)
      BY <1>1, <1>7, <2>1 DEF Replaces
    <3>. QED  BY <1>7, <3>1, <3>2 DEF Fresh, Elements
  <2>2. CASE ~ loads
    BY <1>7, <1>9, <1>10, <2>2 DEF Fresh
  <2>. QED  BY <2>1, <2>2
<1>12. Keeps(s, held', kept')
  <2>1. disk = NoFile => kept = <<>>
    BY DEF IInv, FileFits
  <2>2. ~ s.can_record => held' = kept' /\ Replays(s.mode)
    BY <1>1, <1>2, <1>7, <2>1 DEF CanRecord, Replays, Replaces, Modes
  <2>3. ~ Replaces(s.mode) => Elements(kept') \subseteq Elements(held')
    BY <1>1, <1>7, <2>1 DEF Replaces
  <2>4. s.save_empty => Replaces(s.mode) /\ s.cassette = NoCassette
    BY <1>7, <1>9 DEF Replaces
  <2>. QED  BY <2>2, <2>3, <2>4 DEF Keeps
<1>13. Covers(s, disk')
  <2>1. CASE loads
    <3>1. disk' = disk /\ c = load(disk).cassette
      BY <1>1, <2>1 DEF Replaces, c
    <3>. QED  BY <1>7, <3>1 DEF Covers
  <2>2. CASE ~ loads
    <3>1. Replaces(m) \/ disk' = NoFile
      BY <1>1, <2>2
    <3>. QED  BY <1>7, <3>1 DEF Covers
  <2>. QED  BY <2>1, <2>2
<1>14. FileFits(disk', path_toml', kept')
  BY <1>1 DEF IInv, FileFits
<1>15. History(held') /\ History(kept')
  BY <1>1, EmptyFacts DEF IInv
<1>16. ~ session'.pending
  BY <1>1, <1>7
<1>. QED  BY <1>1, <1>3, <1>8, <1>11, <1>12, <1>13, <1>14, <1>15, <1>16 DEF IInv

-----------------------------------------------------------------------------
(* What the matcher finds.                                                 *)

(* An exchange is one of its protocol.                                     *)
LEMMA ByProtocol ==
    ASSUME NEW h, History(h), NEW e \in Elements(h)
    PROVE  /\ e.proto = "http" => HttpExchange(e)
           /\ e.proto = "grpc" => GrpcExchange(e)
           /\ e.proto \in {"http", "grpc"}
<1>1. HttpExchange(e) \/ GrpcExchange(e)
  BY DEF History
<1>2. HttpExchange(e) => e.proto = "http"
  BY DEF HttpExchange
<1>3. GrpcExchange(e) => e.proto = "grpc"
  BY DEF GrpcExchange
<1>. QED  BY <1>1, <1>2, <1>3

(* A stored request is looked up by its own key: scrubbing it again, as    *)
(* the probe of a request is, would give the same.                         *)
LEMMA HttpKeys ==
    ASSUME NEW e, HttpExchange(e)
    PROVE  ~ IsGrpc(e.request) /\ HttpKey(StoredHttp(e).request) = Key(e.request)
<1>1. ~ IsGrpc(e.request)
  BY CallsAssumption DEF HttpExchange
<1>2. StoredHttp(e).request = StoredRequest(e.request)
  BY DEF StoredHttp
<1>. QED  BY <1>1, <1>2, ProbeIsStored DEF Key

(* The same for an RPC.                                                    *)
LEMMA GrpcKeys ==
    ASSUME NEW e, GrpcExchange(e)
    PROVE  IsGrpc(e.request) /\ GrpcKey(StoredGrpc(e).request) = Key(e.request)
<1>1. IsGrpc(e.request)
  <2>1. PICK c \in GrpcCalls : e = [proto |-> "grpc", request |-> c[1], response |-> c[2]]
    BY DEF GrpcExchange
  <2>2. IsGrpc(c[1])
    BY CallsAssumption
  <2>. QED  BY <2>1, <2>2
<1>. QED  BY <1>1, StoredGrpcParts DEF Key

(* Take finds nothing only if nothing matches, or if it may record; what   *)
(* it finds was not played, or nothing can be recorded.                    *)
LEMMA TakeFacts ==
    ASSUME NEW candidates, candidates \subseteq Nat \ {0}, NEW played
    PROVE  /\ /\ Take(candidates, played) = 0
              /\ Replays(session.mode) /\ ~ session.can_record
              => candidates = {}
           /\ Take(candidates, played) # 0
              => /\ Take(candidates, played) \in candidates
                 /\ played[Take(candidates, played)] => ~ session.can_record
<1>. DEFINE fresh == {i \in candidates : ~ played[i]}
            n == Take(candidates, played)
<1>1. fresh # {} => Min(fresh) \in fresh
  <2>1. fresh \subseteq Nat
    OBVIOUS
  <2>. HIDE DEF fresh
  <2>. QED  BY <2>1, MinIsLeast
<1>2. candidates # {} => Min(candidates) \in candidates
  <2>1. candidates \subseteq Nat
    OBVIOUS
  <2>. QED  BY <2>1, MinIsLeast
<1>3. n = IF ~ Replays(session.mode) THEN 0
          ELSE IF fresh # {} THEN Min(fresh)
          ELSE IF ~ session.can_record /\ candidates # {} THEN Min(candidates) ELSE 0
  BY DEF Take
<1>4. Min(fresh) \in fresh => Min(fresh) \in candidates /\ ~ played[Min(fresh)] /\ Min(fresh) # 0
  OBVIOUS
<1>. HIDE DEF n, fresh
<1>5. n = 0 /\ Replays(session.mode) /\ ~ session.can_record => candidates = {}
  BY <1>1, <1>2, <1>3, <1>4
<1>6. n # 0 => n \in candidates /\ (played[n] => ~ session.can_record)
  BY <1>1, <1>2, <1>3, <1>4
<1>. QED  BY <1>5, <1>6 DEF n

(* The candidates for a request are the recordings with its key            *)
(* (Cassette::find).                                                       *)
LEMMA HttpCandidates ==
    ASSUME IInv, session # Closed, NEW wire \in HttpRequests
    PROVE  /\ Candidates(recorded_request(wire)) =
                {i \in DOMAIN session.cassette.interactions :
                    HttpKey(session.cassette.interactions[i].request) = Key(wire)}
           /\ Candidates(recorded_request(wire)) \subseteq Nat \ {0}
<1>. DEFINE tape == session.cassette.interactions
            probe == Probe(recorded_request(wire))
<1>1. ~ IsGrpc(wire)
  BY CallsAssumption DEF HttpRequests
<1>2. Key(wire) = HttpKey(probe)
  BY <1>1 DEF Key
<1>3. ASSUME NEW r PROVE HttpKey(r) = HttpKey(probe) <=> \A f \in MatchOn : r[f] = probe[f]
  BY DEF HttpKey
<1>4. IsSeq(tape)
  BY KindsAre DEF IInv, Tapes, Holds, Proper, Kinds
<1>5. DOMAIN tape \subseteq Nat \ {0}
  BY <1>4, SeqIsFunction
<1>6. Candidates(recorded_request(wire)) =
        {i \in DOMAIN tape : \A f \in MatchOn : tape[i].request[f] = probe[f]}
  BY DEF Candidates
<1>. HIDE DEF tape, probe
<1>7. {i \in DOMAIN tape : \A f \in MatchOn : tape[i].request[f] = probe[f]}
        = {i \in DOMAIN tape : HttpKey(tape[i].request) = HttpKey(probe)}
  BY <1>3
<1>. QED  BY <1>2, <1>5, <1>6, <1>7 DEF tape

(* The same for an RPC.                                                    *)
LEMMA GrpcCandidatesAre ==
    ASSUME IInv, session # Closed, NEW wire \in GrpcRequests
    PROVE  /\ GrpcCandidates(grpc_request(wire)) =
                {i \in DOMAIN session.cassette.grpc_interactions :
                    GrpcKey(session.cassette.grpc_interactions[i].request) = Key(wire)}
           /\ GrpcCandidates(grpc_request(wire)) \subseteq Nat \ {0}
<1>. DEFINE tape == session.cassette.grpc_interactions
            q == grpc_request(wire)
<1>1. IsGrpc(wire)
  BY CallsAssumption DEF GrpcRequests
<1>2. Key(wire) = GrpcKey(q)
  BY <1>1 DEF Key
<1>3. \A r : GrpcKey(r) = GrpcKey(q) <=> r.method = q.method /\ r.body = q.body
  BY DEF GrpcKey
<1>4. IsSeq(tape)
  BY KindsAre DEF IInv, Tapes, Holds, Proper, Kinds
<1>5. DOMAIN tape \subseteq Nat \ {0}
  BY <1>4, SeqIsFunction
<1>6. GrpcCandidates(q) =
        {i \in DOMAIN tape : tape[i].request.method = q.method /\ tape[i].request.body = q.body}
  BY DEF GrpcCandidates
<1>. HIDE DEF tape, q
<1>. QED  BY <1>2, <1>3, <1>5, <1>6 DEF tape, q

(* What is found for a request is a foreign recording for it, or that of   *)
(* an exchange in the file that was recorded for such a request.           *)
LEMMA HttpFound ==
    ASSUME IInv, session # Closed, NEW wire \in HttpRequests, NEW n,
           n = Take(Candidates(recorded_request(wire)), session.played), n # 0
    PROVE  /\ n \in DOMAIN session.cassette.interactions
           /\ session.cassette.interactions[n].response \in ResponsesFor(kept, wire)
<1>. DEFINE tape == session.cassette.interactions
            i == tape[n]
<1>1. /\ n \in DOMAIN tape /\ HttpKey(i.request) = Key(wire)
      /\ session.played[n] => ~ session.can_record
  BY HttpCandidates, TakeFacts
<1>2. i \in ForeignHttp \cup RecordedHttp(kept)
  <2>1. CASE ~ session.played[n]
    BY <1>1, <2>1 DEF IInv, Fresh
  <2>2. CASE session.played[n]
    <3>1. held = kept
      BY <1>1, <2>2 DEF IInv, Keeps
    <3>2. i \in Elements(tape)
      BY <1>1 DEF Elements
    <3>. QED  BY <3>1, <3>2 DEF IInv, Tapes, Holds
  <2>. QED  BY <2>1, <2>2
<1>3. CASE i \in ForeignHttp
  BY <1>1, <1>3 DEF ResponsesFor, ForeignHttpFor
<1>4. CASE i \in RecordedHttp(kept)
  <2>1. PICK e \in Elements(kept) : e.proto = "http" /\ i = StoredHttp(e)
    BY <1>4 DEF RecordedHttp
  <2>2. HttpExchange(e)
    BY <2>1, ByProtocol DEF IInv
  <2>3. Key(e.request) = Key(wire)
    BY <1>1, <2>1, <2>2, HttpKeys
  <2>. QED  BY <1>1, <2>1, <2>3 DEF ResponsesFor
<1>. QED  BY <1>1, <1>2, <1>3, <1>4

GrpcResponsesFor(k, wire) ==
    {i.response : i \in ForeignGrpcFor(wire)}
      \cup {StoredGrpc(e).response :
              e \in {x \in Elements(k) : x.proto = "grpc" /\ Key(x.request) = Key(wire)}}

(* The same for an RPC.                                                    *)
LEMMA GrpcFound ==
    ASSUME IInv, session # Closed, NEW wire \in GrpcRequests, NEW n,
           n = Take(GrpcCandidates(grpc_request(wire)), session.grpc_played), n # 0
    PROVE  /\ n \in DOMAIN session.cassette.grpc_interactions
           /\ session.cassette.grpc_interactions[n].response \in GrpcResponsesFor(kept, wire)
<1>. DEFINE tape == session.cassette.grpc_interactions
            i == tape[n]
<1>1. /\ n \in DOMAIN tape /\ GrpcKey(i.request) = Key(wire)
      /\ session.grpc_played[n] => ~ session.can_record
  BY GrpcCandidatesAre, TakeFacts
<1>2. i \in ForeignGrpc \cup RecordedGrpc(kept)
  <2>1. CASE ~ session.grpc_played[n]
    BY <1>1, <2>1 DEF IInv, Fresh
  <2>2. CASE session.grpc_played[n]
    <3>1. held = kept
      BY <1>1, <2>2 DEF IInv, Keeps
    <3>2. i \in Elements(tape)
      BY <1>1 DEF Elements
    <3>. QED  BY <3>1, <3>2 DEF IInv, Tapes, Holds
  <2>. QED  BY <2>1, <2>2
<1>3. CASE i \in ForeignGrpc
  BY <1>1, <1>3 DEF GrpcResponsesFor, ForeignGrpcFor
<1>4. CASE i \in RecordedGrpc(kept)
  <2>1. PICK e \in Elements(kept) : e.proto = "grpc" /\ i = StoredGrpc(e)
    BY <1>4 DEF RecordedGrpc
  <2>2. GrpcExchange(e)
    BY <2>1, ByProtocol DEF IInv
  <2>3. Key(e.request) = Key(wire)
    BY <1>1, <2>1, <2>2, GrpcKeys
  <2>. QED  BY <1>1, <2>1, <2>3 DEF GrpcResponsesFor
<1>. QED  BY <1>1, <1>2, <1>3, <1>4

(* If nothing is found and nothing can be recorded, no exchange in the     *)
(* file was recorded for such a request.                                   *)
LEMMA NothingFound ==
    ASSUME IInv, session # Closed, ~ session.can_record, NEW wire,
           \/ /\ wire \in HttpRequests
              /\ Take(Candidates(recorded_request(wire)), session.played) = 0
           \/ /\ wire \in GrpcRequests
              /\ Take(GrpcCandidates(grpc_request(wire)), session.grpc_played) = 0
    PROVE  KeptFor(wire) = {}
<1>0. held = kept /\ Replays(session.mode) /\ Holds(session.cassette, kept)
  BY DEF IInv, Keeps, Tapes
<1>. SUFFICES ASSUME NEW k \in KeptFor(wire) PROVE FALSE
  OBVIOUS
<1>. DEFINE e == kept[k]
<1>1. k \in DOMAIN kept /\ IsGrpc(e.request) = IsGrpc(wire) /\ Key(e.request) = Key(wire)
  BY DEF KeptFor
<1>2. e \in Elements(kept)
  BY <1>1 DEF Elements
<1>. HIDE DEF e
<1>3. CASE wire \in HttpRequests /\ Take(Candidates(recorded_request(wire)), session.played) = 0
  <2>1. Candidates(recorded_request(wire)) = {}
    BY <1>0, <1>3, HttpCandidates, TakeFacts
  <2>2. ~ IsGrpc(wire)
    BY <1>3, CallsAssumption DEF HttpRequests
  <2>3. e.proto = "http" /\ HttpExchange(e)
    BY <1>1, <1>2, <2>2, ByProtocol, GrpcKeys DEF IInv
  <2>4. StoredHttp(e) \in Elements(session.cassette.interactions)
    BY <1>0, <1>2, <2>3 DEF Holds, RecordedHttp
  <2>5. PICK i \in DOMAIN session.cassette.interactions :
           session.cassette.interactions[i] = StoredHttp(e)
    BY <2>4 DEF Elements
  <2>6. HttpKey(session.cassette.interactions[i].request) = Key(wire)
    BY <1>1, <2>3, <2>5, HttpKeys
  <2>. QED  BY <1>3, <2>1, <2>6, HttpCandidates
<1>4. CASE wire \in GrpcRequests /\ Take(GrpcCandidates(grpc_request(wire)), session.grpc_played) = 0
  <2>1. GrpcCandidates(grpc_request(wire)) = {}
    BY <1>0, <1>4, GrpcCandidatesAre, TakeFacts
  <2>2. IsGrpc(wire)
    BY <1>4, CallsAssumption DEF GrpcRequests
  <2>3. e.proto = "grpc" /\ GrpcExchange(e)
    BY <1>1, <1>2, <2>2, ByProtocol, HttpKeys DEF IInv
  <2>4. StoredGrpc(e) \in Elements(session.cassette.grpc_interactions)
    BY <1>0, <1>2, <2>3 DEF Holds, RecordedGrpc
  <2>5. PICK i \in DOMAIN session.cassette.grpc_interactions :
           session.cassette.grpc_interactions[i] = StoredGrpc(e)
    BY <2>4 DEF Elements
  <2>6. GrpcKey(session.cassette.grpc_interactions[i].request) = Key(wire)
    BY <1>1, <2>3, <2>5, GrpcKeys
  <2>. QED  BY <1>4, <2>1, <2>6, GrpcCandidatesAre
<1>. QED  BY <1>3, <1>4

-----------------------------------------------------------------------------
(* The steps of a call keep the invariant.                                 *)

(* An open session is not the closed one.                                  *)
LEMMA OpenSession ==
    ASSUME session.open
    PROVE  session # Closed
  BY DEF Closed

(* Sessions that differ in one field.                                      *)
SameBut(s, t, x) == \A y \in StateFields : y # x => s[y] = t[y]

(* Assigning to a field of a session.                                      *)
LEMMA FieldSet ==
    ASSUME NEW t, IsState(t), NEW x \in StateFields \ {"open"}, NEW v, NEW s,
           s = [t EXCEPT ![x] = v]
    PROVE  IsState(s) /\ s[x] = v /\ SameBut(s, t, x)
<1>1. DOMAIN s = DOMAIN t /\ IsFunction(s)
  BY DEF IsFunction
<1>2. \A y \in DOMAIN t : s[y] = IF y = x THEN v ELSE t[y]
  OBVIOUS
<1>3. DOMAIN t = StateFields /\ t["open"] = TRUE /\ "open" \in StateFields
  BY DEF IsState, StateFields
<1>4. s[x] = v /\ \A y \in StateFields : y # x => s[y] = t[y]
  BY ONLY <1>2, <1>3, x \in StateFields \ {"open"}
<1>5. s["open"] = TRUE
  BY ONLY <1>2, <1>3, x \in StateFields \ {"open"}
<1>. QED  BY ONLY <1>1, <1>3, <1>4, <1>5 DEF IsState, SameBut

(* A step that changes the flags of the session only.                      *)
LEMMA FlagStep ==
    ASSUME IInv, session # Closed, UNCHANGED <<path_toml, disk, held, kept>>,
           Tapes(session', held), Fresh(session', kept), Keeps(session', held, kept),
           Covers(session', disk), session' # Closed,
           call' # Idle => CallFits(call', session', kept),
           session'.pending => call' # Idle /\ call'.action = "record"
    PROVE  IInv'
  BY DEF IInv

(* Setting a flag.                                                         *)
LEMMA Played ==
    ASSUME NEW f, NEW D, f \in [D -> BOOLEAN], NEW n
    PROVE  /\ [f EXCEPT ![n] = TRUE] \in [D -> BOOLEAN]
           /\ \A i \in D : f[i] => [f EXCEPT ![n] = TRUE][i]
  OBVIOUS

SameSession(s, t, h, k, file) ==
    /\ Tapes(s, h) /\ Fresh(s, k) /\ Keeps(s, h, k) /\ Covers(s, file)
    /\ s # Closed /\ s.can_record = t.can_record

(* A state of a session is not the closed one.                             *)
LEMMA NotClosed ==
    ASSUME NEW s, IsState(s)
    PROVE  s # Closed
  BY DEF IsState, Closed

(* Marking a recording as played.                                          *)
LEMMA MarkHttp ==
    ASSUME NEW t, NEW h, NEW k, NEW file,
           Tapes(t, h), Fresh(t, k), Keeps(t, h, k), Covers(t, file),
           NEW n, NEW s, s = [t EXCEPT !.played[n] = TRUE]
    PROVE  SameSession(s, t, h, k, file) /\ s.pending = t.pending
<1>. DEFINE f == [t.played EXCEPT ![n] = TRUE]
<1>1. s = [t EXCEPT !["played"] = f]
  OBVIOUS
<1>2. /\ f \in [DOMAIN t.cassette.interactions -> BOOLEAN]
      /\ \A i \in DOMAIN t.cassette.interactions : t.played[i] => f[i]
  BY Played DEF Tapes
<1>. HIDE DEF f
<1>3. IsState(s) /\ s.played = f /\ SameBut(s, t, "played")
  BY <1>1, FieldSet DEF Tapes, StateFields
<1>4. /\ s.mode = t.mode /\ s.can_record = t.can_record /\ s.cassette = t.cassette
      /\ s.grpc_played = t.grpc_played /\ s.pending = t.pending /\ s.save_empty = t.save_empty
  BY ONLY <1>3 DEF SameBut, StateFields
<1>5. t.grpc_played \in [DOMAIN t.cassette.grpc_interactions -> BOOLEAN] /\ t.pending \in BOOLEAN
  BY DEF Tapes
<1>6. Tapes(s, h) /\ Fresh(s, k) /\ Keeps(s, h, k) /\ Covers(s, file)
  BY <1>2, <1>3, <1>4, <1>5, SameTapes
<1>. QED  BY <1>3, <1>4, <1>6, NotClosed DEF SameSession

(* The same for an RPC.                                                    *)
LEMMA MarkGrpc ==
    ASSUME NEW t, NEW h, NEW k, NEW file,
           Tapes(t, h), Fresh(t, k), Keeps(t, h, k), Covers(t, file),
           NEW n, NEW s, s = [t EXCEPT !.grpc_played[n] = TRUE]
    PROVE  SameSession(s, t, h, k, file) /\ s.pending = t.pending
<1>. DEFINE f == [t.grpc_played EXCEPT ![n] = TRUE]
<1>1. s = [t EXCEPT !["grpc_played"] = f]
  OBVIOUS
<1>2. /\ f \in [DOMAIN t.cassette.grpc_interactions -> BOOLEAN]
      /\ \A i \in DOMAIN t.cassette.grpc_interactions : t.grpc_played[i] => f[i]
  BY Played DEF Tapes
<1>. HIDE DEF f
<1>3. IsState(s) /\ s.grpc_played = f /\ SameBut(s, t, "grpc_played")
  BY <1>1, FieldSet DEF Tapes, StateFields
<1>4. /\ s.mode = t.mode /\ s.can_record = t.can_record /\ s.cassette = t.cassette
      /\ s.played = t.played /\ s.pending = t.pending /\ s.save_empty = t.save_empty
  BY ONLY <1>3 DEF SameBut, StateFields
<1>5. t.played \in [DOMAIN t.cassette.interactions -> BOOLEAN] /\ t.pending \in BOOLEAN
  BY DEF Tapes
<1>6. Tapes(s, h) /\ Fresh(s, k) /\ Keeps(s, h, k) /\ Covers(s, file)
  BY <1>2, <1>3, <1>4, <1>5, SameTapes
<1>. QED  BY <1>3, <1>4, <1>6, NotClosed DEF SameSession

(* Another pending flag, and an error.                                     *)
LEMMA MarkPending ==
    ASSUME NEW t, NEW h, NEW k, NEW file,
           Tapes(t, h), Fresh(t, k), Keeps(t, h, k), Covers(t, file),
           NEW b \in BOOLEAN, NEW s, s = [t EXCEPT !.pending = b]
    PROVE  SameSession(s, t, h, k, file) /\ s.pending = b
<1>1. s = [t EXCEPT !["pending"] = b]
  OBVIOUS
<1>3. IsState(s) /\ s.pending = b /\ SameBut(s, t, "pending")
  BY <1>1, FieldSet DEF Tapes, StateFields
<1>4. /\ s.mode = t.mode /\ s.can_record = t.can_record /\ s.cassette = t.cassette
      /\ s.played = t.played /\ s.grpc_played = t.grpc_played /\ s.save_empty = t.save_empty
  BY ONLY <1>3 DEF SameBut, StateFields
<1>5. /\ t.played \in [DOMAIN t.cassette.interactions -> BOOLEAN]
      /\ t.grpc_played \in [DOMAIN t.cassette.grpc_interactions -> BOOLEAN]
  BY DEF Tapes
<1>6. Tapes(s, h) /\ Fresh(s, k) /\ Keeps(s, h, k) /\ Covers(s, file)
  BY <1>3, <1>4, <1>5, SameTapes
<1>. QED  BY <1>3, <1>4, <1>6, NotClosed DEF SameSession

(* Reporting an error.                                                     *)
LEMMA MarkErrors ==
    ASSUME NEW t, NEW h, NEW k, NEW file,
           Tapes(t, h), Fresh(t, k), Keeps(t, h, k), Covers(t, file),
           NEW s, s = [t EXCEPT !.errors = TRUE]
    PROVE  SameSession(s, t, h, k, file) /\ s.pending = t.pending
<1>1. s = [t EXCEPT !["errors"] = TRUE]
  OBVIOUS
<1>3. IsState(s) /\ SameBut(s, t, "errors")
  BY <1>1, FieldSet DEF Tapes, StateFields
<1>4. /\ s.mode = t.mode /\ s.can_record = t.can_record /\ s.cassette = t.cassette
      /\ s.played = t.played /\ s.grpc_played = t.grpc_played /\ s.pending = t.pending
      /\ s.save_empty = t.save_empty
  BY ONLY <1>3 DEF SameBut, StateFields
<1>5. /\ t.played \in [DOMAIN t.cassette.interactions -> BOOLEAN] /\ t.pending \in BOOLEAN
      /\ t.grpc_played \in [DOMAIN t.cassette.grpc_interactions -> BOOLEAN]
  BY DEF Tapes
<1>6. Tapes(s, h) /\ Fresh(s, k) /\ Keeps(s, h, k) /\ Covers(s, file)
  BY <1>3, <1>4, <1>5, SameTapes
<1>. QED  BY <1>3, <1>4, <1>6, NotClosed DEF SameSession

(* A step that leaves the session alone.                                   *)
LEMMA Unmarked ==
    ASSUME IInv, session # Closed, session' = session,
           call' # Idle => CallFits(call', session, kept),
           session.pending => call' # Idle /\ call'.action = "record",
           UNCHANGED <<path_toml, disk, held, kept>>
    PROVE  IInv'
  BY FlagStep DEF IInv

(* A step that changes flags only.                                         *)
LEMMA Flagged ==
    ASSUME IInv, session # Closed, UNCHANGED <<path_toml, disk, held, kept>>,
           SameSession(session', session, held, kept, disk),
           call' # Idle => CallFits(call', session', kept),
           session'.pending => call' # Idle /\ call'.action = "record"
    PROVE  IInv'
  BY FlagStep DEF SameSession

(* Recorder::reserve                                                       *)
LEMMA ReserveIInv ==
    ASSUME IInv, session # Closed, NEW proto, NEW wire, NEW request,
           reserve(proto, wire, request), UNCHANGED <<path_toml, disk, held, kept>>,
           \/ proto = "http" /\ wire \in HttpRequests /\ request = recorded_request(wire)
           \/ proto = "grpc" /\ wire \in GrpcRequests /\ request = grpc_request(wire)
    PROVE  IInv'
<1>1. /\ session.can_record /\ session' = [session EXCEPT !.pending = TRUE]
      /\ call' = [phase |-> "live", action |-> "record", proto |-> proto,
                  wire |-> wire, request |-> request, recorded |-> <<>>]
  BY DEF reserve
<1>2. SameSession(session', session, held, kept, disk)
  BY <1>1, MarkPending DEF IInv
<1>3. CallFits(call', session', kept)
  BY <1>1, <1>2 DEF CallFits, SameSession
<1>4. call' # Idle /\ call'.action = "record"
  BY <1>1 DEF Idle
<1>. QED  BY <1>2, <1>3, <1>4, Flagged

(* Client::execute                                                         *)
LEMMA ExecuteIInv ==
    ASSUME IInv, NEW wire \in HttpRequests, execute(wire)
    PROVE  IInv'
<1>1. session # Closed /\ call = Idle /\ UNCHANGED <<path_toml, disk, held, kept>>
  BY OpenSession DEF execute
<1>2. ~ session.pending
  BY <1>1 DEF IInv
<1>3. CASE UNCHANGED <<session, call>>
  BY <1>1, <1>2, <1>3, Unmarked
<1>4. CASE PrepareHttp(wire)
  <2>. DEFINE request == recorded_request(wire)
              n == Take(Candidates(request), session.played)
              found == session.cassette.interactions[n].response
  <2>1. CASE reserve("http", wire, request)
    BY <1>1, <2>1, ReserveIInv
  <2>2. CASE NoMatch(wire)
    BY <1>3, <2>2 DEF NoMatch
  <2>3. CASE n # 0 /\ session' = [session EXCEPT !.played[n] = TRUE] /\ call' = call
    <3>1. SameSession(session', session, held, kept, disk) /\ session'.pending = session.pending
      BY <1>1, <2>3, MarkHttp DEF IInv
    <3>. QED  BY <1>1, <1>2, <2>3, <3>1, Flagged
  <2>4. CASE /\ n # 0 /\ session' = [session EXCEPT !.played[n] = TRUE]
             /\ call' = [phase |-> "live", action |-> "verify", proto |-> "http",
                         wire |-> wire, request |-> request, recorded |-> found]
    <3>1. SameSession(session', session, held, kept, disk) /\ session'.pending = session.pending
      BY <1>1, <2>4, MarkHttp DEF IInv
    <3>2. found \in ResponsesFor(kept, wire)
      BY <1>1, <2>4, HttpFound
    <3>. HIDE DEF found
    <3>3. CallFits(call', session', kept)
      BY <2>4, <3>2 DEF CallFits
    <3>. QED  BY <1>1, <1>2, <3>1, <3>3, Flagged
  <2>. QED  BY <1>4, <2>1, <2>2, <2>3, <2>4 DEF PrepareHttp
<1>. QED  BY <1>3, <1>4 DEF execute

(* GrpcService::call                                                       *)
LEMMA GrpcCallIInv ==
    ASSUME IInv, NEW wire \in GrpcRequests, GrpcService_call(wire)
    PROVE  IInv'
<1>1. session # Closed /\ call = Idle /\ UNCHANGED <<path_toml, disk, held, kept>>
  BY OpenSession DEF GrpcService_call
<1>2. ~ session.pending
  BY <1>1 DEF IInv
<1>3. CASE UNCHANGED <<session, call>>
  BY <1>1, <1>2, <1>3, Unmarked
<1>4. CASE PrepareGrpc(wire)
  <2>. DEFINE request == grpc_request(wire)
              n == Take(GrpcCandidates(request), session.grpc_played)
  <2>1. CASE reserve("grpc", wire, request)
    BY <1>1, <2>1, ReserveIInv
  <2>2. CASE NoMatch(wire)
    BY <1>3, <2>2 DEF NoMatch
  <2>3. CASE n # 0 /\ session' = [session EXCEPT !.grpc_played[n] = TRUE] /\ call' = call
    <3>1. SameSession(session', session, held, kept, disk) /\ session'.pending = session.pending
      BY <1>1, <2>3, MarkGrpc DEF IInv
    <3>. QED  BY <1>1, <1>2, <2>3, <3>1, Flagged
  <2>. QED  BY <1>4, <2>1, <2>2, <2>3 DEF PrepareGrpc
<1>. QED  BY <1>3, <1>4 DEF GrpcService_call

(* fail_recording                                                          *)
LEMMA FailIInv ==
    ASSUME IInv, call # Idle, fail_recording, call' = Idle, path_toml' = path_toml
    PROVE  IInv'
<1>1. session # Closed /\ CallFits(call, session, kept) /\ UNCHANGED <<disk, held, kept>>
  BY DEF IInv, fail_recording
<1>2. CASE call.action = "record"
  <2>. DEFINE s == [session EXCEPT !.pending = FALSE]
  <2>1. session' = [s EXCEPT !.errors = TRUE]
    BY <1>2 DEF fail_recording
  <2>2. SameSession(s, session, held, kept, disk) /\ s.pending = FALSE
    BY <1>1, MarkPending DEF IInv
  <2>. HIDE DEF s
  <2>3. SameSession(session', s, held, kept, disk) /\ session'.pending = s.pending
    BY <2>1, <2>2, MarkErrors DEF SameSession
  <2>. QED  BY <1>1, <2>2, <2>3, Flagged DEF SameSession
<1>3. CASE call.action # "record"
  <2>1. session' = session /\ ~ session.pending
    BY <1>1, <1>3 DEF fail_recording, IInv
  <2>. QED  BY <1>1, <2>1, Unmarked
<1>. QED  BY <1>2, <1>3

(* Recorder::finish                                                        *)
LEMMA FinishIInv ==
    ASSUME IInv, finish
    PROVE  IInv'
<1>1. /\ session # Closed /\ call = Idle /\ call' = call /\ session' = Closed /\ held' = <<>>
      /\ path_toml' = path_toml
      /\ disk' = (IF session.save_empty THEN save(session.cassette, path_toml, <<>>) ELSE disk)
      /\ kept' = (IF session.save_empty THEN <<>> ELSE kept)
  BY OpenSession DEF finish
<1>2. CASE session.save_empty
  <2>1. disk' = save(NoCassette, path_toml, <<>>) /\ kept' = <<>>
    BY <1>1, <1>2 DEF IInv, Keeps
  <2>2. path_toml \in BOOLEAN
    BY DEF IInv
  <2>. DEFINE file == save(NoCassette, path_toml, <<>>)
  <2>3. ReadsAs(file, NoCassette, path_toml)
    <3>1. Proper(NoCassette) /\ IsOrder(<<>>, NoCassette.interactions) /\ TomlCanHold(NoCassette)
      BY EmptyFacts DEF Holds
    <3>. QED  BY <2>2, <3>1, SaveLoads
  <2>. HIDE DEF file
  <2>4. Holds(load(file).cassette, <<>>)
    BY <2>3, EmptyFacts, HoldsSame DEF ReadsAs
  <2>5. FileFits(disk', path_toml', kept')
    BY <1>1, <2>1, <2>3, <2>4 DEF FileFits, ReadsAs, file
  <2>. QED  BY <1>1, <2>1, <2>2, <2>5, EmptyFacts DEF IInv
<1>3. CASE ~ session.save_empty
  <2>1. disk' = disk /\ kept' = kept
    BY <1>1, <1>3
  <2>. QED  BY <1>1, <2>1, EmptyFacts DEF IInv
<1>. QED  BY <1>2, <1>3

-----------------------------------------------------------------------------
(* Recording keeps the invariant.                                          *)

(* What the session becomes when the exchange `e` is recorded.             *)
Added(s, t, h, k, e) ==
    /\ Tapes(s, Append(h, e)) /\ Fresh(s, k)
    /\ s.mode = t.mode /\ s.can_record = t.can_record
    /\ s.pending = FALSE /\ s.save_empty = FALSE
    /\ \A kind \in DOMAIN NoCassette :
         Elements(t.cassette[kind]) \subseteq Elements(s.cassette[kind])

Grown(f, b, S) ==
    /\ Append(f, b) \in [1..(Len(f) + 1) -> S] /\ Append(f, b)[Len(f) + 1] = b
    /\ \A i \in 1..Len(f) : Append(f, b)[i] = f[i]

(* A longer sequence.                                                      *)
LEMMA AppendIn ==
    ASSUME NEW S, NEW f \in Seq(S), NEW b \in S
    PROVE  Grown(f, b, S)
<1>1. Append(f, b) \in Seq(S) /\ Len(Append(f, b)) = Len(f) + 1
  OBVIOUS
<1>2. Append(f, b)[Len(f) + 1] = b /\ \A i \in 1..Len(f) : Append(f, b)[i] = f[i]
  OBVIOUS
<1>. DEFINE g == Append(f, b)
<1>3. g \in Seq(S) /\ Len(g) = Len(f) + 1
  BY <1>1
<1>. HIDE DEF g
<1>4. g \in [1..(Len(f) + 1) -> S]
  BY <1>3
<1>. QED  BY <1>2, <1>4 DEF g, Grown

PlayedMore(f, tape, x) ==
    /\ Append(f, TRUE) \in [DOMAIN Append(tape, x) -> BOOLEAN]
    /\ \A i \in DOMAIN Append(tape, x) :
         ~ Append(f, TRUE)[i] => i \in DOMAIN tape /\ ~ f[i] /\ Append(tape, x)[i] = tape[i]

(* The flag of a new recording is set, and no other changes.               *)
LEMMA PlayedGrows ==
    ASSUME NEW tape, IsSeq(tape), NEW f, f \in [DOMAIN tape -> BOOLEAN], NEW x
    PROVE  PlayedMore(f, tape, x)
<1>1. Len(tape) \in Nat /\ DOMAIN tape = 1..Len(tape)
  BY SeqIsFunction
<1>. DEFINE n == Len(tape)
<1>2. f \in Seq(BOOLEAN) /\ Len(f) = n
  BY <1>1
<1>. HIDE DEF n
<1>3. /\ Append(f, TRUE) \in [1..(n + 1) -> BOOLEAN] /\ Append(f, TRUE)[n + 1] = TRUE
      /\ \A i \in 1..n : Append(f, TRUE)[i] = f[i]
  <2>1. Grown(f, TRUE, BOOLEAN)
    BY <1>2, AppendIn
  <2>. QED  BY <1>2, <2>1 DEF Grown
<1>4. /\ DOMAIN Append(tape, x) = 1..(n + 1) /\ \A i \in 1..n : Append(tape, x)[i] = tape[i]
  BY AppendFacts DEF n
<1>5. \A i \in 1..(n + 1) : i \in 1..n \/ i = n + 1
  BY <1>1 DEF n
<1>. QED  BY <1>1, <1>3, <1>4, <1>5 DEF n, PlayedMore

(* One more exchange is one more recording.                                *)
LEMMA RecordedAppend ==
    ASSUME NEW h, IsSeq(h), NEW e
    PROVE  /\ Elements(Append(h, e)) = Elements(h) \cup {e}
           /\ RecordedHttp(Append(h, e))
                = RecordedHttp(h) \cup (IF e.proto = "http" THEN {StoredHttp(e)} ELSE {})
           /\ RecordedGrpc(Append(h, e))
                = RecordedGrpc(h) \cup (IF e.proto = "grpc" THEN {StoredGrpc(e)} ELSE {})
<1>. DEFINE g == Append(h, e)
<1>1. Elements(g) = Elements(h) \cup {e}
  BY AppendFacts
<1>. HIDE DEF g
<1>2. RecordedHttp(g) = RecordedHttp(h) \cup (IF e.proto = "http" THEN {StoredHttp(e)} ELSE {})
  BY <1>1 DEF RecordedHttp
<1>3. RecordedGrpc(g) = RecordedGrpc(h) \cup (IF e.proto = "grpc" THEN {StoredGrpc(e)} ELSE {})
  BY <1>1 DEF RecordedGrpc
<1>. QED  BY <1>1, <1>2, <1>3 DEF g

(* A cassette with one more interaction.                                   *)
MoreHttp(d, c, i) ==
    /\ Proper(d) /\ d.interactions = Append(c.interactions, i)
    /\ d.grpc_interactions = c.grpc_interactions
    /\ d.ws_interactions = c.ws_interactions
    /\ Elements(d.interactions) = Elements(c.interactions) \cup {i}
    /\ \A kind \in DOMAIN NoCassette : Elements(c[kind]) \subseteq Elements(d[kind])

(* Appending an HTTP interaction.                                          *)
LEMMA OneMoreHttp ==
    ASSUME NEW c, Proper(c), NEW i, ProperHttp(i),
           NEW d, d = [c EXCEPT !.interactions = Append(@, i)]
    PROVE  MoreHttp(d, c, i)
<1>1. c = [interactions |-> c.interactions, grpc_interactions |-> c.grpc_interactions,
           ws_interactions |-> c.ws_interactions, observed_requests |-> c.observed_requests]
  BY DEF Proper
<1>2. /\ d.interactions = Append(c.interactions, i) /\ d.grpc_interactions = c.grpc_interactions
      /\ d.ws_interactions = c.ws_interactions /\ d.observed_requests = c.observed_requests
      /\ d = [interactions |-> d.interactions, grpc_interactions |-> d.grpc_interactions,
              ws_interactions |-> d.ws_interactions, observed_requests |-> d.observed_requests]
  BY <1>1
<1>3. /\ IsSeq(d.interactions) /\ Elements(d.interactions) = Elements(c.interactions) \cup {i}
  BY <1>2, AppendFacts, KindsAre DEF Proper, Kinds
<1>4. Proper(d)
  BY <1>2, <1>3, KindsAre DEF Proper, Kinds
<1>. QED  BY <1>2, <1>3, <1>4, KindsAre DEF Kinds, MoreHttp

MoreGrpc(d, c, i) ==
    /\ Proper(d) /\ d.grpc_interactions = Append(c.grpc_interactions, i)
    /\ d.interactions = c.interactions
    /\ d.ws_interactions = c.ws_interactions
    /\ Elements(d.grpc_interactions) = Elements(c.grpc_interactions) \cup {i}
    /\ \A kind \in DOMAIN NoCassette : Elements(c[kind]) \subseteq Elements(d[kind])

(* Appending an RPC.                                                       *)
LEMMA OneMoreGrpc ==
    ASSUME NEW c, Proper(c), NEW i, ProperGrpc(i),
           NEW d, d = [c EXCEPT !.grpc_interactions = Append(@, i)]
    PROVE  MoreGrpc(d, c, i)
<1>1. c = [interactions |-> c.interactions, grpc_interactions |-> c.grpc_interactions,
           ws_interactions |-> c.ws_interactions, observed_requests |-> c.observed_requests]
  BY DEF Proper
<1>2. /\ d.grpc_interactions = Append(c.grpc_interactions, i) /\ d.interactions = c.interactions
      /\ d.ws_interactions = c.ws_interactions /\ d.observed_requests = c.observed_requests
      /\ d = [interactions |-> d.interactions, grpc_interactions |-> d.grpc_interactions,
              ws_interactions |-> d.ws_interactions, observed_requests |-> d.observed_requests]
  BY <1>1
<1>3. IsSeq(d.grpc_interactions)
        /\ Elements(d.grpc_interactions) = Elements(c.grpc_interactions) \cup {i}
  BY <1>2, AppendFacts, KindsAre DEF Proper, Kinds
<1>4. Proper(d)
  BY <1>2, <1>3, KindsAre DEF Proper, Kinds
<1>. QED  BY <1>2, <1>3, <1>4, KindsAre DEF Kinds, MoreGrpc

MoreWs(d, c, i) ==
    /\ Proper(d) /\ d.grpc_interactions = c.grpc_interactions
    /\ d.interactions = c.interactions
    /\ Elements(d.ws_interactions) = Elements(c.ws_interactions) \cup {i}
    /\ \A kind \in DOMAIN NoCassette : Elements(c[kind]) \subseteq Elements(d[kind])

(* Appending a WebSocket connection.                                       *)
LEMMA OneMoreWs ==
    ASSUME NEW c, Proper(c), NEW i, ProperWs(i),
           NEW d, d = [c EXCEPT !.ws_interactions = Append(@, i)]
    PROVE  MoreWs(d, c, i)
<1>1. c = [interactions |-> c.interactions, grpc_interactions |-> c.grpc_interactions,
           ws_interactions |-> c.ws_interactions, observed_requests |-> c.observed_requests]
  BY DEF Proper
<1>2. /\ d.ws_interactions = Append(c.ws_interactions, i) /\ d.interactions = c.interactions
      /\ d.grpc_interactions = c.grpc_interactions /\ d.observed_requests = c.observed_requests
      /\ d = [interactions |-> d.interactions, grpc_interactions |-> d.grpc_interactions,
              ws_interactions |-> d.ws_interactions, observed_requests |-> d.observed_requests]
  BY <1>1
<1>3. IsSeq(d.ws_interactions) /\ Elements(d.ws_interactions) = Elements(c.ws_interactions) \cup {i}
  BY <1>2, AppendFacts, KindsAre DEF Proper, Kinds
<1>4. Proper(d)
  BY <1>2, <1>3, KindsAre DEF Proper, Kinds
<1>. QED  BY <1>2, <1>3, <1>4, KindsAre DEF Kinds, MoreWs

(* Recording an HTTP exchange.                                             *)
LEMMA AddHttp ==
    ASSUME NEW t, NEW h, NEW k, Tapes(t, h), Fresh(t, k), IsSeq(h),
           NEW e, HttpExchange(e), NEW i, i = StoredHttp(e), NEW s,
           s = [t EXCEPT !.cassette.interactions = Append(@, i),
                         !.played = Append(@, TRUE), !.pending = FALSE, !.save_empty = FALSE]
    PROVE  Added(s, t, h, k, e)
<1>. DEFINE d == [t.cassette EXCEPT !.interactions = Append(@, i)]
            f == Append(t.played, TRUE)
            s1 == [t EXCEPT !["cassette"] = d]
            s2 == [s1 EXCEPT !["played"] = f]
            s3 == [s2 EXCEPT !["pending"] = FALSE]
<1>0. IsState(t) /\ Holds(t.cassette, h) /\ Proper(t.cassette) /\ IsSeq(t.cassette.interactions)
  BY KindsAre DEF Tapes, Holds, Proper, Kinds
<1>1. ProperHttp(i)
  BY StoredHttpIsProper DEF HttpExchange
<1>2. /\ Proper(d) /\ d.interactions = Append(t.cassette.interactions, i)
      /\ d.grpc_interactions = t.cassette.grpc_interactions
      /\ d.ws_interactions = t.cassette.ws_interactions
      /\ Elements(d.interactions) = Elements(t.cassette.interactions) \cup {i}
      /\ \A kind \in DOMAIN NoCassette : Elements(t.cassette[kind]) \subseteq Elements(d[kind])
  <2>1. d = [t.cassette EXCEPT !.interactions = Append(@, i)]
    OBVIOUS
  <2>. HIDE DEF d
  <2>2. MoreHttp(d, t.cassette, i)
    BY <1>0, <1>1, <2>1, OneMoreHttp
  <2>. QED  BY <2>2 DEF MoreHttp
<1>3. s = [[[[t EXCEPT !["cassette"] = d] EXCEPT !["played"] = Append(@, TRUE)]
               EXCEPT !["pending"] = FALSE] EXCEPT !["save_empty"] = FALSE]
  OBVIOUS
<1>. HIDE DEF d
<1>4. IsState(s1) /\ s1.cassette = d /\ SameBut(s1, t, "cassette")
  BY <1>0, FieldSet DEF StateFields
<1>. HIDE DEF s1
<1>5. s1.played = t.played
  BY ONLY <1>4 DEF SameBut, StateFields
<1>6. s = [[s2 EXCEPT !["pending"] = FALSE] EXCEPT !["save_empty"] = FALSE]
  BY <1>3, <1>5 DEF s1
<1>. HIDE DEF f
<1>7. IsState(s2) /\ s2.played = f /\ SameBut(s2, s1, "played")
  BY <1>4, FieldSet DEF StateFields
<1>. HIDE DEF s2
<1>8. IsState(s3) /\ s3.pending = FALSE /\ SameBut(s3, s2, "pending")
  BY <1>7, FieldSet DEF StateFields
<1>. HIDE DEF s3
<1>9. IsState(s) /\ s.save_empty = FALSE /\ SameBut(s, s3, "save_empty")
  BY <1>6, <1>8, FieldSet DEF StateFields, s3
<1>10. /\ s.mode = t.mode /\ s.can_record = t.can_record /\ s.cassette = d /\ s.played = f
       /\ s.grpc_played = t.grpc_played /\ s.pending = FALSE /\ s.save_empty = FALSE
  BY ONLY <1>4, <1>7, <1>8, <1>9 DEF SameBut, StateFields
<1>11. e.proto = "http"
  BY DEF HttpExchange
<1>12. Holds(d, Append(h, e))
  BY <1>0, <1>2, <1>11, RecordedAppend DEF Holds
<1>13. /\ f \in [DOMAIN d.interactions -> BOOLEAN]
       /\ \A j \in DOMAIN d.interactions :
            ~ f[j] => /\ j \in DOMAIN t.cassette.interactions /\ ~ t.played[j]
                      /\ d.interactions[j] = t.cassette.interactions[j]
  <2>. DEFINE tape == t.cassette.interactions
              p == t.played
  <2>1. IsSeq(tape) /\ p \in [DOMAIN tape -> BOOLEAN]
    BY <1>0 DEF Tapes
  <2>. HIDE DEF tape, p
  <2>2. PlayedMore(p, tape, i)
    BY <2>1, PlayedGrows
  <2>. QED  BY <1>2, <2>2 DEF PlayedMore, tape, p, f
<1>14. Tapes(s, Append(h, e))
  BY <1>2, <1>9, <1>10, <1>12, <1>13 DEF Tapes
<1>15. Fresh(s, k)
  BY <1>2, <1>10, <1>13 DEF Fresh
<1>. QED  BY <1>2, <1>10, <1>14, <1>15 DEF Added

(* Recording an RPC.                                                       *)
LEMMA AddGrpc ==
    ASSUME NEW t, NEW h, NEW k, Tapes(t, h), Fresh(t, k), IsSeq(h),
           NEW e, GrpcExchange(e), NEW i, i = StoredGrpc(e), NEW s,
           s = [t EXCEPT !.cassette.grpc_interactions = Append(@, i),
                         !.grpc_played = Append(@, TRUE), !.pending = FALSE, !.save_empty = FALSE]
    PROVE  Added(s, t, h, k, e)
<1>. DEFINE d == [t.cassette EXCEPT !.grpc_interactions = Append(@, i)]
            f == Append(t.grpc_played, TRUE)
            s1 == [t EXCEPT !["cassette"] = d]
            s2 == [s1 EXCEPT !["grpc_played"] = f]
            s3 == [s2 EXCEPT !["pending"] = FALSE]
<1>0. IsState(t) /\ Holds(t.cassette, h) /\ Proper(t.cassette) /\ IsSeq(t.cassette.grpc_interactions)
  BY KindsAre DEF Tapes, Holds, Proper, Kinds
<1>1. ProperGrpc(i)
  BY StoredGrpcParts
<1>2. /\ Proper(d) /\ d.grpc_interactions = Append(t.cassette.grpc_interactions, i)
      /\ d.interactions = t.cassette.interactions
      /\ d.ws_interactions = t.cassette.ws_interactions
      /\ Elements(d.grpc_interactions) = Elements(t.cassette.grpc_interactions) \cup {i}
      /\ \A kind \in DOMAIN NoCassette : Elements(t.cassette[kind]) \subseteq Elements(d[kind])
  <2>1. d = [t.cassette EXCEPT !.grpc_interactions = Append(@, i)]
    OBVIOUS
  <2>. HIDE DEF d
  <2>2. MoreGrpc(d, t.cassette, i)
    BY <1>0, <1>1, <2>1, OneMoreGrpc
  <2>. QED  BY <2>2 DEF MoreGrpc
<1>3. s = [[[[t EXCEPT !["cassette"] = d] EXCEPT !["grpc_played"] = Append(@, TRUE)]
               EXCEPT !["pending"] = FALSE] EXCEPT !["save_empty"] = FALSE]
  OBVIOUS
<1>. HIDE DEF d
<1>4. IsState(s1) /\ s1.cassette = d /\ SameBut(s1, t, "cassette")
  BY <1>0, FieldSet DEF StateFields
<1>. HIDE DEF s1
<1>5. s1.grpc_played = t.grpc_played
  BY ONLY <1>4 DEF SameBut, StateFields
<1>6. s = [[s2 EXCEPT !["pending"] = FALSE] EXCEPT !["save_empty"] = FALSE]
  BY <1>3, <1>5 DEF s1
<1>. HIDE DEF f
<1>7. IsState(s2) /\ s2.grpc_played = f /\ SameBut(s2, s1, "grpc_played")
  BY <1>4, FieldSet DEF StateFields
<1>. HIDE DEF s2
<1>8. IsState(s3) /\ s3.pending = FALSE /\ SameBut(s3, s2, "pending")
  BY <1>7, FieldSet DEF StateFields
<1>. HIDE DEF s3
<1>9. IsState(s) /\ s.save_empty = FALSE /\ SameBut(s, s3, "save_empty")
  BY <1>6, <1>8, FieldSet DEF StateFields, s3
<1>10. /\ s.mode = t.mode /\ s.can_record = t.can_record /\ s.cassette = d /\ s.grpc_played = f
       /\ s.played = t.played /\ s.pending = FALSE /\ s.save_empty = FALSE
  BY ONLY <1>4, <1>7, <1>8, <1>9 DEF SameBut, StateFields
<1>11. e.proto = "grpc"
  BY DEF GrpcExchange
<1>12. Holds(d, Append(h, e))
  BY <1>0, <1>2, <1>11, RecordedAppend DEF Holds
<1>13. /\ f \in [DOMAIN d.grpc_interactions -> BOOLEAN]
       /\ \A j \in DOMAIN d.grpc_interactions :
            ~ f[j] => /\ j \in DOMAIN t.cassette.grpc_interactions /\ ~ t.grpc_played[j]
                      /\ d.grpc_interactions[j] = t.cassette.grpc_interactions[j]
  <2>. DEFINE tape == t.cassette.grpc_interactions
              p == t.grpc_played
  <2>1. IsSeq(tape) /\ p \in [DOMAIN tape -> BOOLEAN]
    BY <1>0 DEF Tapes
  <2>. HIDE DEF tape, p
  <2>2. PlayedMore(p, tape, i)
    BY <2>1, PlayedGrows
  <2>. QED  BY <1>2, <2>2 DEF PlayedMore, tape, p, f
<1>14. Tapes(s, Append(h, e))
  BY <1>2, <1>9, <1>10, <1>12, <1>13 DEF Tapes
<1>15. Fresh(s, k)
  BY <1>2, <1>10, <1>13 DEF Fresh
<1>. QED  BY <1>2, <1>10, <1>14, <1>15 DEF Added

(* Recorder::record_http and record_grpc, up to the save.                  *)
LEMMA RecordIInv ==
    ASSUME IInv, session # Closed, session.can_record, NEW next, NEW e, RecordAndSave(next, e),
           call' = Idle, path_toml' = path_toml, HttpExchange(e) \/ GrpcExchange(e),
           Added(next, session, held, kept, e)
    PROVE  IInv'
<1>0. /\ path_toml \in BOOLEAN /\ History(held) /\ History(kept) /\ FileFits(disk, path_toml, kept)
      /\ Keeps(session, held, kept) /\ Covers(session, disk)
  BY DEF IInv
<1>. DEFINE h == Append(held, e)
<1>1. held' = h
  BY DEF RecordAndSave
<1>2. History(h) /\ Elements(held) \subseteq Elements(h)
  BY <1>0, AppendFacts DEF History
<1>3. /\ Tapes(next, h) /\ Fresh(next, kept) /\ next.mode = session.mode /\ next.can_record = TRUE
      /\ next.pending = FALSE /\ next.save_empty = FALSE
      /\ \A kind \in DOMAIN NoCassette :
           Elements(session.cassette[kind]) \subseteq Elements(next.cassette[kind])
  BY DEF Added, Tapes
<1>4. /\ Proper(next.cassette) /\ Holds(next.cassette, h) /\ IsState(next)
  BY <1>3 DEF Tapes, Holds
<1>. HIDE DEF h
<1>5. ~ Replaces(next.mode) => Elements(kept) \subseteq Elements(h)
  BY <1>0, <1>2, <1>3 DEF Keeps
<1>6. CASE path_toml /\ ~ TomlCanHold(next.cassette)
  <2>1. session' = [next EXCEPT !.errors = TRUE] /\ disk' = disk /\ kept' = kept
    BY <1>6 DEF RecordAndSave
  <2>2. Keeps(next, h, kept)
    BY <1>3, <1>5 DEF Keeps
  <2>3. Covers(next, disk)
    BY <1>0, <1>3 DEF Covers
  <2>4. SameSession(session', next, h, kept, disk) /\ session'.pending = next.pending
    BY <1>3, <2>1, <2>2, <2>3, MarkErrors
  <2>. QED  BY <1>0, <1>1, <1>2, <1>3, <2>1, <2>4 DEF IInv, SameSession
<1>7. CASE ~ (path_toml /\ ~ TomlCanHold(next.cassette))
  <2>1. PICK o \in WriteOrders(next.cassette.interactions) :
           disk' = save(next.cassette, path_toml, o)
    BY <1>7 DEF RecordAndSave
  <2>2. session' = next /\ kept' = h
    BY <1>1, <1>7 DEF RecordAndSave
  <2>3. IsOrder(o, next.cassette.interactions)
    BY DEF WriteOrders, IsOrder
  <2>. DEFINE file == save(next.cassette, path_toml, o)
  <2>4. ReadsAs(file, next.cassette, path_toml)
    BY <1>0, <1>4, <1>7, <2>3, SaveLoads
  <2>. HIDE DEF file
  <2>5. disk' = file
    BY <2>1 DEF file
  <2>6. Holds(load(file).cassette, h)
    BY <1>4, <2>4, HoldsSame DEF ReadsAs
  <2>7. FileFits(file, path_toml, h)
    BY <2>4, <2>6 DEF FileFits, ReadsAs
  <2>8. Fresh(next, h)
    BY <1>3, <1>5, RecordedGrows DEF Fresh
  <2>9. Keeps(next, h, h)
    BY <1>3 DEF Keeps
  <2>10. Covers(next, file)
    BY <2>4 DEF Covers, ReadsAs
  <2>11. next # Closed
    BY <1>4, NotClosed
  <2>. QED  BY <1>0, <1>1, <1>2, <1>3, <2>2, <2>5, <2>7, <2>8, <2>9, <2>10, <2>11 DEF IInv
<1>. QED  BY <1>6, <1>7

(* The exchange that a step records, and the session with it.              *)
Records(next, e) ==
    /\ HttpExchange(e) \/ GrpcExchange(e)
    /\ RecordAndSave(next, e) /\ Added(next, session, held, kept, e)

(* A live response of a recording call is recorded.                        *)
LEMMA HttpIsRecorded ==
    ASSUME IInv, NEW c \in HttpCalls, call # Idle, c[1] = call.wire, RespondHttp(c[2]),
           call.action = "record", Read(c[2].bytes, headers_to_map(c[2].headers)).ok
    PROVE  session.can_record /\ \E next, e : Records(next, e)
<1>. DEFINE live == c[2]
            e == [proto |-> "http", request |-> call.wire, response |-> live]
            i == StoredHttp(e)
            next == [session EXCEPT !.cassette.interactions = Append(@, i),
                                    !.played = Append(@, TRUE), !.pending = FALSE,
                                    !.save_empty = FALSE]
<1>1. session # Closed /\ CallFits(call, session, kept) /\ call.proto = "http"
  BY DEF IInv, RespondHttp
<1>2. call.request = recorded_request(call.wire) /\ session.can_record
  BY <1>1 DEF CallFits
<1>3. record_http(live)
  BY DEF RespondHttp
<1>4. HttpExchange(e)
  BY DEF HttpExchange
<1>5. RecordAndSave(next, e)
  <2>1. scrub_interaction(Security, [request |-> call.request,
                                     response |-> recorded_response(live)])
          = [request |-> ScrubRequest(Security, call.request),
             response |-> ScrubResponse(Security, recorded_response(live))]
    BY DEF scrub_interaction
  <2>2. [scrub_interaction(Security, [request |-> call.request,
                                      response |-> recorded_response(live)])
           EXCEPT !.response = retag_content_length(@)] = i
    BY <1>2, <2>1 DEF StoredHttp, StoredRequest, StoredResponse
  <2>. HIDE DEF i
  <2>. QED  BY <1>3, <2>2 DEF record_http
<1>. HIDE DEF i, e
<1>6. Added(next, session, held, kept, e)
  BY <1>1, <1>4, AddHttp DEF IInv, History, i
<1>. HIDE DEF next
<1>. QED  BY <1>2, <1>4, <1>5, <1>6 DEF Records

(* The live response of an HTTP call.                                      *)
LEMMA RespondHttpIInv ==
    ASSUME IInv, NEW c \in HttpCalls, call # Idle, c[1] = call.wire, RespondHttp(c[2])
    PROVE  IInv'
<1>. DEFINE ok == Read(c[2].bytes, headers_to_map(c[2].headers)).ok
<1>1. session # Closed /\ call' = Idle /\ path_toml' = path_toml
  BY DEF IInv, RespondHttp
<1>2. CASE ok /\ call.action = "record"
  BY <1>1, <1>2, HttpIsRecorded, RecordIInv DEF Records
<1>3. CASE ok /\ call.action # "record"
  <2>1. session' = session /\ UNCHANGED <<disk, held, kept>>
    BY <1>3 DEF RespondHttp, verify_http
  <2>2. ~ session.pending
    BY <1>1, <1>3 DEF IInv
  <2>. QED  BY <1>1, <2>1, <2>2, Unmarked
<1>4. CASE ~ ok
  <2>1. fail_recording
    BY <1>4 DEF RespondHttp, reject_response
  <2>. QED  BY <1>1, <2>1, FailIInv
<1>. QED  BY <1>2, <1>3, <1>4

(* The same for an RPC.                                                    *)
LEMMA GrpcIsRecorded ==
    ASSUME IInv, NEW c \in GrpcCalls, call # Idle, c[1] = call.wire, RespondGrpc(c[2]),
           decode_optional_grpc_frame(c[2].frame).ok,
           grpc_status(c[2].http, c[2].headers, c[2].trailers).ok,
           metadata_to_map(c[2].headers).ok, metadata_to_map(c[2].trailers).ok
    PROVE  session.can_record /\ \E next, e : Records(next, e)
<1>. DEFINE live == c[2]
            e == [proto |-> "grpc", request |-> call.wire, response |-> live]
            i == StoredGrpc(e)
            next == [session EXCEPT !.cassette.grpc_interactions = Append(@, i),
                                    !.grpc_played = Append(@, TRUE), !.pending = FALSE,
                                    !.save_empty = FALSE]
<1>1. session # Closed /\ CallFits(call, session, kept) /\ call.proto = "grpc"
  BY DEF IInv, RespondGrpc
<1>2. call.request = grpc_request(call.wire) /\ call.action = "record" /\ session.can_record
  BY <1>1 DEF CallFits
<1>3. record_grpc(live)
  BY DEF RespondGrpc
<1>4. GrpcExchange(e)
  BY DEF GrpcExchange
<1>5. RecordAndSave(next, e)
  <2>1. scrub_grpc_interaction(Security, grpc_interaction(live)) = i
    BY <1>2 DEF StoredGrpc, grpc_interaction
  <2>. HIDE DEF i
  <2>. QED  BY <1>3, <2>1 DEF record_grpc
<1>. HIDE DEF i, e
<1>6. Added(next, session, held, kept, e)
  BY <1>1, <1>4, AddGrpc DEF IInv, History, i
<1>. HIDE DEF next
<1>. QED  BY <1>2, <1>4, <1>5, <1>6 DEF Records

(* The live response of an RPC.                                            *)
LEMMA RespondGrpcIInv ==
    ASSUME IInv, NEW c \in GrpcCalls, call # Idle, c[1] = call.wire, RespondGrpc(c[2])
    PROVE  IInv'
<1>. DEFINE live == c[2]
            ok == /\ decode_optional_grpc_frame(live.frame).ok
                  /\ grpc_status(live.http, live.headers, live.trailers).ok
                  /\ metadata_to_map(live.headers).ok /\ metadata_to_map(live.trailers).ok
<1>1. session # Closed /\ call' = Idle /\ path_toml' = path_toml
  BY DEF IInv, RespondGrpc
<1>2. CASE ok
  BY <1>1, <1>2, GrpcIsRecorded, RecordIInv DEF Records
<1>3. CASE ~ ok
  <2>1. fail_recording
    BY <1>3 DEF RespondGrpc, reject_response
  <2>. QED  BY <1>1, <2>1, FailIInv
<1>. QED  BY <1>2, <1>3

(* A call whose transport fails.                                           *)
LEMMA LiveFailsIInv ==
    ASSUME IInv, LiveFails
    PROVE  IInv'
<1>1. call # Idle
  BY DEF LiveFails, Idle
<1>. QED  BY <1>1, FailIInv DEF LiveFails

-----------------------------------------------------------------------------
(* Node programs keep the invariant.                                       *)

(* What a Node program loads.                                              *)
LEMMA NodeCassetteHolds ==
    ASSUME IInv, disk # NoFile => load(disk).ok
    PROVE  Holds(NodeCassette, kept) /\ Proper(NodeCassette)
<1>1. CASE disk = NoFile
  BY <1>1, EmptyFacts DEF IInv, FileFits, NodeCassette, Holds
<1>2. CASE disk # NoFile
  BY <1>2 DEF IInv, FileFits, NodeCassette, Holds
<1>. QED  BY <1>1, <1>2

(* What NodeSaves needs of the cassette it saves.                          *)
NodeFits(c) ==
    /\ Holds(c, kept)
    /\ \A kind \in DOMAIN NoCassette : Elements(NodeCassette[kind]) \subseteq Elements(c[kind])

(* What a Node program saves reads as it was.                              *)
LEMMA SavedByNode ==
    ASSUME path_toml \in BOOLEAN, NEW c, Proper(c), NodeSaves(c)
    PROVE  ReadsAs(disk', c, path_toml)
<1>. DEFINE o == [k \in DOMAIN c.interactions |-> k]
            file == save(c, path_toml, o)
<1>1. disk' = file /\ (path_toml => TomlCanHold(c))
  BY DEF NodeSaves
<1>2. IsOrder(o, c.interactions)
  BY DEF IsOrder
<1>. HIDE DEF o
<1>3. ReadsAs(file, c, path_toml)
  BY <1>1, <1>2, SaveLoads
<1>. QED  BY <1>1, <1>3

(* A Node program that saves such a cassette keeps the invariant.          *)
LEMMA NodeIInv ==
    ASSUME IInv, NEW c, NodeFits(c), NodeSaves(c)
    PROVE  IInv'
<1>1. /\ session = Closed /\ UNCHANGED <<path_toml, session, call, held, kept>>
  BY DEF NodeSaves
<1>2. path_toml \in BOOLEAN /\ Holds(c, kept) /\ Proper(c)
  BY DEF IInv, Holds, NodeFits
<1>. DEFINE file == disk'
<1>3. ReadsAs(file, c, path_toml)
  BY <1>2, SavedByNode
<1>. HIDE DEF file
<1>4. Holds(load(file).cassette, kept)
  BY <1>2, <1>3, HoldsSame DEF ReadsAs
<1>5. FileFits(file, path_toml, kept)
  BY <1>3, <1>4 DEF FileFits, ReadsAs
<1>. QED  BY <1>1, <1>5 DEF IInv, file

(* addInteraction gives such a cassette.                                   *)
LEMMA NodeHttpFits ==
    ASSUME IInv, disk # NoFile => load(disk).ok, NEW v \in NodeHttp, NEW c,
           c = [NodeCassette EXCEPT !.interactions =
                  Append(@, interaction_from_json(node_scrub_interaction(v, Security)))]
    PROVE  NodeFits(c)
<1>. DEFINE i == interaction_from_json(node_scrub_interaction(v, Security))
            n == NodeCassette
<1>1. Holds(n, kept) /\ Proper(n)
  BY NodeCassetteHolds
<1>2. ProperHttp(i)
  BY NodeHttpIsProper
<1>3. i \in ForeignHttp
  BY DEF ForeignHttp
<1>4. c = [n EXCEPT !.interactions = Append(@, i)]
  OBVIOUS
<1>. HIDE DEF i, n
<1>5. MoreHttp(c, n, i)
  BY <1>1, <1>2, <1>4, OneMoreHttp
<1>6. Holds(c, kept)
  BY <1>1, <1>3, <1>5 DEF MoreHttp, Holds
<1>. QED  BY <1>5, <1>6 DEF MoreHttp, NodeFits, n

(* addGrpcInteraction gives such a cassette.                               *)
LEMMA NodeGrpcFits ==
    ASSUME IInv, disk # NoFile => load(disk).ok, NEW v \in NodeGrpc, NEW c,
           c = [NodeCassette EXCEPT !.grpc_interactions =
                  Append(@, grpc_interaction_from_json(node_scrub_grpc_interaction(v, Security)))]
    PROVE  NodeFits(c)
<1>. DEFINE i == grpc_interaction_from_json(node_scrub_grpc_interaction(v, Security))
            n == NodeCassette
<1>1. Holds(n, kept) /\ Proper(n)
  BY NodeCassetteHolds
<1>2. ProperGrpc(i)
  BY NodeGrpcIsProper
<1>3. i \in ForeignGrpc
  BY DEF ForeignGrpc
<1>4. c = [n EXCEPT !.grpc_interactions = Append(@, i)]
  OBVIOUS
<1>. HIDE DEF i, n
<1>5. MoreGrpc(c, n, i)
  BY <1>1, <1>2, <1>4, OneMoreGrpc
<1>6. Holds(c, kept)
  BY <1>1, <1>3, <1>5 DEF MoreGrpc, Holds
<1>. QED  BY <1>5, <1>6 DEF MoreGrpc, NodeFits, n

(* addWsInteraction gives such a cassette.                                 *)
LEMMA NodeWsFits ==
    ASSUME IInv, disk # NoFile => load(disk).ok, NEW v \in NodeWs, NEW c,
           c = [NodeCassette EXCEPT !.ws_interactions =
                  Append(@, ws_interaction_from_json(node_scrub_ws_interaction(v, Security)))]
    PROVE  NodeFits(c)
<1>. DEFINE i == ws_interaction_from_json(node_scrub_ws_interaction(v, Security))
            n == NodeCassette
<1>1. Holds(n, kept) /\ Proper(n)
  BY NodeCassetteHolds
<1>2. ProperWs(i)
  BY NodeWsIsProper
<1>3. i \in ForeignWs
  BY DEF ForeignWs
<1>4. c = [n EXCEPT !.ws_interactions = Append(@, i)]
  OBVIOUS
<1>. HIDE DEF i, n
<1>5. MoreWs(c, n, i)
  BY <1>1, <1>2, <1>4, OneMoreWs
<1>6. Holds(c, kept)
  BY <1>1, <1>3, <1>5 DEF MoreWs, Holds
<1>. QED  BY <1>5, <1>6 DEF MoreWs, NodeFits, n

(* A step of a Node program saves such a cassette.                         *)
NodeStep ==
    \/ \E v \in NodeHttp : node_add_interaction(v)
    \/ \E v \in NodeGrpc : node_add_grpc_interaction(v)
    \/ \E v \in NodeWs : node_add_ws_interaction(v)

(* So does every step of a Node program.                                   *)
LEMMA NodeSavesAll ==
    ASSUME IInv, NodeStep
    PROVE  \E c : NodeFits(c) /\ NodeSaves(c)
<1>1. CASE \E v \in NodeHttp : node_add_interaction(v)
  <2>1. PICK v \in NodeHttp : node_add_interaction(v)
    BY <1>1
  <2>. DEFINE c == [NodeCassette EXCEPT !.interactions =
                      Append(@, interaction_from_json(node_scrub_interaction(v, Security)))]
  <2>2. NodeSaves(c)
    BY <2>1 DEF node_add_interaction
  <2>3. disk # NoFile => load(disk).ok
    BY <2>2 DEF NodeSaves
  <2>4. NodeFits(c)
    BY <2>3, NodeHttpFits
  <2>. QED  BY <2>2, <2>4
<1>2. CASE \E v \in NodeGrpc : node_add_grpc_interaction(v)
  <2>1. PICK v \in NodeGrpc : node_add_grpc_interaction(v)
    BY <1>2
  <2>. DEFINE c == [NodeCassette EXCEPT !.grpc_interactions =
                      Append(@, grpc_interaction_from_json(node_scrub_grpc_interaction(v, Security)))]
  <2>2. NodeSaves(c)
    BY <2>1 DEF node_add_grpc_interaction
  <2>3. disk # NoFile => load(disk).ok
    BY <2>2 DEF NodeSaves
  <2>4. NodeFits(c)
    BY <2>3, NodeGrpcFits
  <2>. QED  BY <2>2, <2>4
<1>3. CASE \E v \in NodeWs : node_add_ws_interaction(v)
  <2>1. PICK v \in NodeWs : node_add_ws_interaction(v)
    BY <1>3
  <2>. DEFINE c == [NodeCassette EXCEPT !.ws_interactions =
                      Append(@, ws_interaction_from_json(node_scrub_ws_interaction(v, Security)))]
  <2>2. NodeSaves(c)
    BY <2>1 DEF node_add_ws_interaction
  <2>3. disk # NoFile => load(disk).ok
    BY <2>2 DEF NodeSaves
  <2>4. NodeFits(c)
    BY <2>3, NodeWsFits
  <2>. QED  BY <2>2, <2>4
<1>. QED  BY <1>1, <1>2, <1>3 DEF NodeStep

-----------------------------------------------------------------------------

(* The invariant is inductive.                                             *)
LEMMA NextIInv == IInv /\ [Next]_vars => IInv'
<1>. SUFFICES ASSUME IInv, [Next]_vars PROVE IInv'
  OBVIOUS
<1>1. CASE \E m \in SessionModes : from_builder(m)
  BY <1>1, FromBuilderIInv
<1>2. CASE \E wire \in HttpRequests : execute(wire)
  BY <1>2, ExecuteIInv
<1>3. CASE \E wire \in GrpcRequests : GrpcService_call(wire)
  BY <1>3, GrpcCallIInv
<1>4. CASE \E c \in HttpCalls : call # Idle /\ c[1] = call.wire /\ RespondHttp(c[2])
  BY <1>4, RespondHttpIInv
<1>5. CASE \E c \in GrpcCalls : call # Idle /\ c[1] = call.wire /\ RespondGrpc(c[2])
  BY <1>5, RespondGrpcIInv
<1>6. CASE LiveFails
  BY <1>6, LiveFailsIInv
<1>7. CASE finish
  BY <1>7, FinishIInv
<1>8. CASE NodeStep
  BY <1>8, NodeSavesAll, NodeIInv
<1>9. CASE UNCHANGED vars
  BY <1>9 DEF vars, IInv
<1>. QED  BY <1>1, <1>2, <1>3, <1>4, <1>5, <1>6, <1>7, <1>8, <1>9 DEF Next, NodeStep

(* The invariant holds.                                                    *)
LEMMA SpecIInv == Spec => []IInv
  BY InitIInv, NextIInv, PTL DEF Spec

(* Between calls no order is pending: a call that fails after it reserved  *)
(* one gives it up (fail_recording).                                       *)
THEOREM ReservationSettledHolds == Spec => []ReservationSettled
<1>1. IInv => ReservationSettled
  BY OpenSession DEF IInv, ReservationSettled
<1>. QED  BY <1>1, SpecIInv, PTL

-----------------------------------------------------------------------------
(* What a step reports.                                                    *)

Reported(what, request, response) ==
    [what |-> what, request |-> request, response |-> response]

NotFound(r) ==
    \E wire : KeptFor(wire) = {} /\ r = Reported("no match", wire, <<>>)
HttpReplayed(r) ==
    \E wire \in HttpRequests : \E p \in ResponsesFor(kept, wire) :
        r = Reported("replayed", wire, replay_http(p))
GrpcReplayed(r) ==
    \E wire \in GrpcRequests : \E p \in GrpcResponsesFor(kept, wire) :
        r = Reported("replayed", wire, replay_grpc(p))
Mismatched(r) ==
    \E wire \in HttpRequests : \E live : \E p \in ResponsesFor(kept, wire) :
        /\ ~ Equivalent(Compare, p, StoredResponse(live))
        /\ r = Reported("mismatch", wire, live)
Telling == {"no match", "replayed", "mismatch"}

(* Which report is which.                                                  *)
LEMMA ReportedResults ==
    ASSUME NEW r
    PROVE  /\ NotFound(r) => r.what = "no match"
           /\ HttpReplayed(r) => r.what = "replayed" /\ ~ IsGrpc(r.request)
           /\ GrpcReplayed(r) => r.what = "replayed" /\ IsGrpc(r.request)
           /\ Mismatched(r) => r.what = "mismatch"
<1>1. \A what, q, p : Reported(what, q, p).what = what /\ Reported(what, q, p).request = q
  BY DEF Reported
<1>2. /\ \A wire \in HttpRequests : ~ IsGrpc(wire)
      /\ \A wire \in GrpcRequests : IsGrpc(wire)
  BY CallsAssumption DEF HttpRequests, GrpcRequests
<1>3. NotFound(r) => r.what = "no match"
  <2>. SUFFICES ASSUME NEW wire, r = Reported("no match", wire, <<>>) PROVE r.what = "no match"
    BY DEF NotFound
  <2>. QED  BY <1>1
<1>4. HttpReplayed(r) => r.what = "replayed" /\ ~ IsGrpc(r.request)
  BY <1>1, <1>2 DEF HttpReplayed
<1>5. GrpcReplayed(r) => r.what = "replayed" /\ IsGrpc(r.request)
  BY <1>1, <1>2 DEF GrpcReplayed
<1>6. Mismatched(r) => r.what = "mismatch"
  BY <1>1 DEF Mismatched
<1>. QED  BY <1>3, <1>4, <1>5, <1>6

(* What Client::execute reports.                                           *)
LEMMA ExecuteResult ==
    ASSUME IInv, NEW wire \in HttpRequests, execute(wire)
    PROVE  /\ kept' = kept
           /\ result'.what \notin Telling \/ NotFound(result') \/ HttpReplayed(result')
<1>1. session # Closed /\ kept' = kept
  BY OpenSession DEF execute
<1>2. CASE Answer("invalid", wire, <<>>)
  BY <1>1, <1>2 DEF Answer, Telling
<1>3. CASE PrepareHttp(wire)
  <2>. DEFINE request == recorded_request(wire)
              n == Take(Candidates(request), session.played)
              found == session.cassette.interactions[n].response
  <2>1. CASE reserve("http", wire, request)
    BY <1>1, <2>1 DEF reserve, NoResult, Telling
  <2>2. CASE n = 0 /\ NoMatch(wire)
    <3>1. KeptFor(wire) = {}
      BY <1>1, <2>2, NothingFound DEF NoMatch
    <3>. QED  BY <1>1, <2>2, <3>1 DEF NoMatch, Answer, NotFound, Reported
  <2>3. CASE n # 0 /\ Answer("replayed", wire, replay_http(found))
    <3>1. found \in ResponsesFor(kept, wire)
      BY <1>1, <2>3, HttpFound
    <3>2. result' = Reported("replayed", wire, replay_http(found))
      BY <2>3 DEF Answer, Reported
    <3>. HIDE DEF found
    <3>3. HttpReplayed(result')
      BY <3>1, <3>2 DEF HttpReplayed
    <3>. QED  BY <1>1, <3>3
  <2>4. CASE result' = NoResult
    BY <1>1, <2>4 DEF NoResult, Telling
  <2>. QED  BY <1>2, <1>3, <2>1, <2>2, <2>3, <2>4 DEF PrepareHttp
<1>. QED  BY <1>2, <1>3 DEF execute

(* What GrpcService::call reports.                                         *)
LEMMA GrpcCallResult ==
    ASSUME IInv, NEW wire \in GrpcRequests, GrpcService_call(wire)
    PROVE  /\ kept' = kept
           /\ result'.what \notin Telling \/ NotFound(result') \/ GrpcReplayed(result')
<1>1. session # Closed /\ kept' = kept
  BY OpenSession DEF GrpcService_call
<1>2. CASE Answer("invalid", wire, <<>>)
  BY <1>1, <1>2 DEF Answer, Telling
<1>3. CASE PrepareGrpc(wire)
  <2>. DEFINE request == grpc_request(wire)
              n == Take(GrpcCandidates(request), session.grpc_played)
              found == session.cassette.grpc_interactions[n].response
  <2>1. CASE reserve("grpc", wire, request)
    BY <1>1, <2>1 DEF reserve, NoResult, Telling
  <2>2. CASE n = 0 /\ NoMatch(wire)
    <3>1. KeptFor(wire) = {}
      BY <1>1, <2>2, NothingFound DEF NoMatch
    <3>. QED  BY <1>1, <2>2, <3>1 DEF NoMatch, Answer, NotFound, Reported
  <2>3. CASE n # 0 /\ Answer("replayed", wire, replay_grpc(found))
    <3>1. found \in GrpcResponsesFor(kept, wire)
      BY <1>1, <2>3, GrpcFound
    <3>2. result' = Reported("replayed", wire, replay_grpc(found))
      BY <2>3 DEF Answer, Reported
    <3>. HIDE DEF found
    <3>3. GrpcReplayed(result')
      BY <3>1, <3>2 DEF GrpcReplayed
    <3>. QED  BY <1>1, <3>3
  <2>. QED  BY <1>2, <1>3, <2>1, <2>2, <2>3 DEF PrepareGrpc
<1>. QED  BY <1>2, <1>3 DEF GrpcService_call

(* A failure is no answer from the cassette.                               *)
LEMMA FailResult ==
    ASSUME fail_recording
    PROVE  result'.what \notin Telling
  BY DEF fail_recording, Answer, Telling

(* Neither is a recording.                                                 *)
LEMMA RecordResult ==
    ASSUME NEW next, NEW e, RecordAndSave(next, e)
    PROVE  result'.what \notin Telling
<1>1. Answer("failed", call.wire, <<>>) \/ Answer("recorded", call.wire, e.response)
  BY Zenon DEF RecordAndSave
<1>2. CASE Answer("failed", call.wire, <<>>)
  BY <1>2 DEF Answer, Telling
<1>3. CASE Answer("recorded", call.wire, e.response)
  BY <1>3 DEF Answer, Telling
<1>. QED  BY <1>1, <1>2, <1>3

(* A mismatch compares the live response with one that was recorded.       *)
LEMMA RespondHttpResult ==
    ASSUME IInv, NEW c \in HttpCalls, call # Idle, c[1] = call.wire, RespondHttp(c[2])
    PROVE  result'.what \notin Telling \/ (kept' = kept /\ Mismatched(result'))
<1>. DEFINE live == c[2]
<1>1. CallFits(call, session, kept)
  BY DEF IInv
<1>2. CASE record_http(live)
  BY <1>2, RecordResult DEF record_http
<1>3. CASE call.action # "record" /\ verify_http(live)
  <2>1. call.recorded \in ResponsesFor(kept, call.wire)
    BY <1>1, <1>3 DEF CallFits
  <2>2. verifiable(live) = StoredResponse(live)
    BY DEF verifiable, StoredResponse, scrub_interaction
  <2>3. CASE Equivalent(Compare, call.recorded, verifiable(live))
    BY <1>3, <2>3 DEF verify_http, Answer, Telling
  <2>4. CASE ~ Equivalent(Compare, call.recorded, verifiable(live))
    <3>1. result' = Reported("mismatch", call.wire, live) /\ kept' = kept
      BY <1>3, <2>4 DEF verify_http, Answer, Reported
    <3>2. call.wire \in HttpRequests
      BY DEF HttpRequests
    <3>. QED  BY <2>1, <2>2, <2>4, <3>1, <3>2 DEF Mismatched
  <2>. QED  BY <2>3, <2>4
<1>4. CASE reject_response
  BY <1>4, FailResult DEF reject_response
<1>. QED  BY <1>2, <1>3, <1>4 DEF RespondHttp

(* What a step reports.                                                    *)
LEMMA StepResult ==
    ASSUME IInv, [Next]_vars
    PROVE  \/ result' = result /\ kept' = kept
           \/ result'.what \notin Telling
           \/ /\ kept' = kept
              /\ \/ NotFound(result') \/ HttpReplayed(result')
                 \/ GrpcReplayed(result') \/ Mismatched(result')
<1>1. CASE \E m \in SessionModes : from_builder(m)
  BY <1>1 DEF from_builder, NoResult, Telling
<1>2. CASE \E wire \in HttpRequests : execute(wire)
  BY <1>2, ExecuteResult
<1>3. CASE \E wire \in GrpcRequests : GrpcService_call(wire)
  BY <1>3, GrpcCallResult
<1>4. CASE \E c \in HttpCalls : call # Idle /\ c[1] = call.wire /\ RespondHttp(c[2])
  BY <1>4, RespondHttpResult
<1>5. CASE \E c \in GrpcCalls : call # Idle /\ c[1] = call.wire /\ RespondGrpc(c[2])
  BY <1>5, RecordResult, FailResult DEF RespondGrpc, record_grpc, reject_response
<1>6. CASE LiveFails
  BY <1>6, FailResult DEF LiveFails
<1>7. CASE finish
  BY <1>7 DEF finish, Telling
<1>8. CASE NodeStep
  <2>1. result' = NoResult
    BY <1>8 DEF NodeStep, node_add_interaction, node_add_grpc_interaction,
                node_add_ws_interaction, NodeSaves
  <2>. QED  BY <2>1 DEF NoResult, Telling
<1>9. CASE UNCHANGED vars
  BY <1>9 DEF vars
<1>. QED  BY <1>1, <1>2, <1>3, <1>4, <1>5, <1>6, <1>7, <1>8, <1>9 DEF Next, NodeStep

(* A request like one that was recorded is never reported as unmatched     *)
(* (Recorder::prepare_http, prepare_grpc): what is written and read back   *)
(* of a scrubbed request is what the same request is looked up by.         *)
THEOREM RecordedIsReplayedHolds == Spec => []RecordedIsReplayed
<1>1. Init => RecordedIsReplayed
  BY DEF Init, NoResult, RecordedIsReplayed
<1>2. IInv /\ RecordedIsReplayed /\ [Next]_vars => RecordedIsReplayed'
  <2>. SUFFICES ASSUME IInv, RecordedIsReplayed, [Next]_vars,
                       result'.what = "no match"
                PROVE  KeptFor(result.request)' = {}
    BY DEF RecordedIsReplayed
  <2>1. CASE result' = result /\ kept' = kept
    BY <2>1 DEF RecordedIsReplayed, KeptFor
  <2>2. CASE kept' = kept /\ NotFound(result')
    <3>1. PICK wire : KeptFor(wire) = {} /\ result' = Reported("no match", wire, <<>>)
      BY <2>2 DEF NotFound
    <3>2. result'.request = wire
      BY <3>1 DEF Reported
    <3>. QED  BY <2>2, <3>1, <3>2 DEF KeptFor
  <2>3. ~ HttpReplayed(result') /\ ~ GrpcReplayed(result') /\ ~ Mismatched(result')
    BY ReportedResults
  <2>. QED  BY <2>1, <2>2, <2>3, StepResult DEF Telling
<1>. QED  BY <1>1, <1>2, SpecIInv, PTL DEF Spec

-----------------------------------------------------------------------------
(* Saves.                                                                  *)

(* A recording call keeps what the file has.                               *)
LEMMA RecordKeeps ==
    ASSUME IInv, session # Closed, \E next, e : Records(next, e)
    PROVE  KeepsTheRest
<1>1. PICK next, e : Records(next, e)
  OBVIOUS
<1>. SUFFICES ASSUME disk # NoFile, disk' # disk, load(disk).ok,
                     session.open => ~ Replaces(session.mode),
                     NEW kind \in DOMAIN NoCassette
              PROVE  /\ load(disk').ok
                     /\ Elements(load(disk).cassette[kind])
                          \subseteq Elements(load(disk').cassette[kind])
  <2>1. "interactions" \in DOMAIN NoCassette
    BY DEF NoCassette
  <2>. QED  BY <2>1 DEF KeepsTheRest
<1>2. /\ path_toml \in BOOLEAN /\ Tapes(session, held) /\ Covers(session, disk)
  BY DEF IInv
<1>3. ~ Replaces(session.mode)
  BY <1>2 DEF Tapes, IsState
<1>4. Elements(load(disk).cassette[kind]) \subseteq Elements(session.cassette[kind])
  BY <1>2, <1>3 DEF Covers
<1>5. /\ Elements(session.cassette[kind]) \subseteq Elements(next.cassette[kind])
      /\ Proper(next.cassette) /\ RecordAndSave(next, e)
  BY <1>1 DEF Records, Added, Tapes, Holds
<1>6. ~ (path_toml /\ ~ TomlCanHold(next.cassette))
  BY <1>5 DEF RecordAndSave
<1>7. PICK o \in WriteOrders(next.cassette.interactions) :
         disk' = save(next.cassette, path_toml, o)
  BY <1>5, <1>6 DEF RecordAndSave
<1>8. IsOrder(o, next.cassette.interactions)
  BY DEF WriteOrders, IsOrder
<1>. DEFINE file == save(next.cassette, path_toml, o)
<1>9. ReadsAs(file, next.cassette, path_toml)
  BY <1>2, <1>5, <1>6, <1>8, SaveLoads
<1>. HIDE DEF file
<1>10. disk' = file /\ load(file).ok
         /\ Elements(load(file).cassette[kind]) = Elements(next.cassette[kind])
  BY <1>7, <1>9 DEF ReadsAs, file
<1>. QED  BY <1>4, <1>5, <1>10

(* So does a Node program.                                                 *)
LEMMA NodeKeeps ==
    ASSUME IInv, NodeStep
    PROVE  KeepsTheRest
<1>1. PICK c : NodeFits(c) /\ NodeSaves(c)
  BY NodeSavesAll
<1>2. path_toml \in BOOLEAN /\ Proper(c)
  BY <1>1 DEF IInv, NodeFits, Holds
<1>. DEFINE file == disk'
<1>3. ReadsAs(file, c, path_toml)
  BY <1>1, <1>2, SavedByNode
<1>. HIDE DEF file
<1>4. ASSUME disk # NoFile, NEW kind \in DOMAIN NoCassette
      PROVE  Elements(load(disk).cassette[kind]) \subseteq Elements(load(file).cassette[kind])
  <2>1. Elements(load(disk).cassette[kind]) \subseteq Elements(c[kind])
    BY <1>1, <1>4 DEF NodeFits, NodeCassette
  <2>. QED  BY <1>3, <2>1 DEF ReadsAs
<1>. QED  BY <1>3, <1>4 DEF KeepsTheRest, ReadsAs, file

(* So does every step.                                                     *)
LEMMA StepKeeps ==
    ASSUME IInv, [Next]_vars
    PROVE  KeepsTheRest
<1>0. ASSUME disk' = disk \/ disk' = NoFile PROVE KeepsTheRest
  BY <1>0 DEF KeepsTheRest
<1>1. CASE \E m \in SessionModes : from_builder(m)
  BY <1>0, <1>1 DEF from_builder
<1>2. CASE \E wire \in HttpRequests : execute(wire)
  BY <1>0, <1>2 DEF execute
<1>3. CASE \E wire \in GrpcRequests : GrpcService_call(wire)
  BY <1>0, <1>3 DEF GrpcService_call
<1>4. CASE \E c \in HttpCalls : call # Idle /\ c[1] = call.wire /\ RespondHttp(c[2])
  <2>1. PICK c \in HttpCalls : call # Idle /\ c[1] = call.wire /\ RespondHttp(c[2])
    BY <1>4
  <2>. DEFINE ok == Read(c[2].bytes, headers_to_map(c[2].headers)).ok
  <2>2. CASE ok /\ call.action = "record"
    <3>1. session # Closed
      BY <2>1 DEF IInv
    <3>. QED  BY <2>1, <2>2, <3>1, HttpIsRecorded, RecordKeeps
  <2>3. CASE ~ (ok /\ call.action = "record")
    <3>1. disk' = disk
      BY <2>1, <2>3 DEF RespondHttp, verify_http, reject_response, fail_recording
    <3>. QED  BY <1>0, <3>1
  <2>. QED  BY <2>2, <2>3
<1>5. CASE \E c \in GrpcCalls : call # Idle /\ c[1] = call.wire /\ RespondGrpc(c[2])
  <2>1. PICK c \in GrpcCalls : call # Idle /\ c[1] = call.wire /\ RespondGrpc(c[2])
    BY <1>5
  <2>. DEFINE live == c[2]
              ok == /\ decode_optional_grpc_frame(live.frame).ok
                    /\ grpc_status(live.http, live.headers, live.trailers).ok
                    /\ metadata_to_map(live.headers).ok /\ metadata_to_map(live.trailers).ok
  <2>2. CASE ok
    <3>1. session # Closed
      BY <2>1 DEF IInv
    <3>. QED  BY <2>1, <2>2, <3>1, GrpcIsRecorded, RecordKeeps
  <2>3. CASE ~ ok
    <3>1. disk' = disk
      BY <2>1, <2>3 DEF RespondGrpc, reject_response, fail_recording
    <3>. QED  BY <1>0, <3>1
  <2>. QED  BY <2>2, <2>3
<1>6. CASE LiveFails
  BY <1>0, <1>6 DEF LiveFails, fail_recording
<1>7. CASE finish
  <2>1. session # Closed /\ session.open
    BY <1>7, OpenSession DEF finish
  <2>2. session.save_empty => Replaces(session.mode)
    BY <2>1 DEF IInv, Keeps
  <2>3. ~ session.save_empty => disk' = disk
    BY <1>7 DEF finish
  <2>4. CASE session.save_empty
    BY <2>1, <2>2, <2>4 DEF KeepsTheRest
  <2>. QED  BY <1>0, <2>3, <2>4
<1>8. CASE NodeStep
  BY <1>8, NodeKeeps
<1>9. CASE UNCHANGED vars
  BY <1>0, <1>9 DEF vars
<1>. QED  BY <1>1, <1>2, <1>3, <1>4, <1>5, <1>6, <1>7, <1>8, <1>9 DEF Next, NodeStep

(* Saving adds and never takes away: what could be read in the file, of    *)
(* every protocol, can be read in it after a save that does not replace    *)
(* it (Cassette::save of what Cassette::load gave).                        *)
THEOREM SavesKeepTheRestHolds == Spec => SavesKeepTheRest
<1>1. IInv /\ [Next]_vars => [KeepsTheRest]_vars
  BY StepKeeps
<1>. QED  BY <1>1, SpecIInv, PTL DEF Spec, SavesKeepTheRest

-----------------------------------------------------------------------------
(* A response compares equal to itself, whatever is ignored or tolerated.  *)

(* Numbers are within any tolerance of themselves.                         *)
LEMMA TolerateSame ==
    ASSUME NEW d, IsFunction(d), NEW tol
    PROVE  tolerate(d, d, tol) = d
  BY DEF tolerate, IsFunction

(* A document without the ignored paths is a document.                     *)
LEMMA DroppedIsFunction ==
    ASSUME NEW d, NEW ignored
    PROVE  IsFunction(drop_paths(d, ignored))
  BY DEF drop_paths, IsFunction

(* The same for the data of an event.                                      *)
LEMMA TolerateSameEvent ==
    ASSUME NEW payload, NEW ignored, NEW tol, NEW e, e = drop_from_event(payload, ignored)
    PROVE  tolerate_event(e, e, tol) = e
<1>1. CASE payload.json
  <2>. DEFINE d == drop_paths(payload.doc, ignored)
  <2>1. e = [payload EXCEPT !.doc = d, !.compact = TRUE]
    BY <1>1 DEF drop_from_event
  <2>2. IsFunction(d)
    BY DroppedIsFunction
  <2>. HIDE DEF d
  <2>3. IsFunction(e) /\ ("doc" \in DOMAIN e => e.doc = d)
    BY <2>1 DEF IsFunction
  <2>4. "doc" \in DOMAIN e => tolerate(e.doc, e.doc, tol) = e.doc
    BY <2>2, <2>3, TolerateSame
  <2>. DEFINE t == tolerate(e.doc, e.doc, tol)
  <2>5. tolerate_event(e, e, tol) = [e EXCEPT !.doc = t] \/ tolerate_event(e, e, tol) = e
    BY DEF tolerate_event
  <2>6. [e EXCEPT !.doc = t] = e
    <3>. HIDE DEF t
    <3>. QED  BY <2>3, <2>4 DEF IsFunction, t
  <2>. QED  BY <2>5, <2>6
<1>2. CASE ~ payload.json
  <2>1. e = payload
    BY <1>2 DEF drop_from_event
  <2>. QED  BY <1>2, <2>1 DEF tolerate_event
<1>. QED  BY <1>1, <1>2

(* Every response is equivalent to itself (compare_responses).             *)
LEMMA EquivalentToItself ==
    ASSUME NEW r
    PROVE  Equivalent(Compare, r, r)
<1>. DEFINE n == normalize(Compare, r)
            tol == Compare.float_tolerance
            J == [k \in DOMAIN n.json |-> IF k \in DOMAIN n.json
                                          THEN tolerate(n.json[k], n.json[k], tol) ELSE n.json[k]]
            E == [k \in DOMAIN n.events |->
                    IF k \in DOMAIN n.events
                    THEN tolerate_event(n.events[k], n.events[k], tol) ELSE n.events[k]]
<1>1. Equivalent(Compare, r, r) <=> n = [[n EXCEPT !.json = J] EXCEPT !.events = E]
  <2>1. Equivalent(Compare, r, r) <=>
          n = [n EXCEPT !.json = [k \in DOMAIN @ |->
                                    IF k \in DOMAIN n.json THEN tolerate(n.json[k], @[k], tol)
                                    ELSE @[k]],
                        !.events = [k \in DOMAIN @ |->
                                      IF k \in DOMAIN n.events
                                      THEN tolerate_event(n.events[k], @[k], tol) ELSE @[k]]]
    BY DEF Equivalent
  <2>. HIDE DEF n
  <2>. QED  BY <2>1
<1>2. n.json = <<>> \/ \E d : n.json = <<drop_paths(d, Compare.json_ignore)>>
  BY DEF normalize
<1>3. /\ IsFunction(n) /\ IsFunction(n.events)
      /\ \A k \in DOMAIN n.events : \E p : n.events[k] = drop_from_event(p, Compare.json_ignore)
  <2>1. IsFunction(n)
    BY DEF normalize, IsFunction
  <2>. DEFINE e == sse_events(r.body.text)
              D == [k \in DOMAIN e |-> drop_from_event(e[k], Compare.json_ignore)]
  <2>2. n.events = <<>> \/ n.events = D
    BY DEF normalize
  <2>. HIDE DEF n, e
  <2>3. CASE n.events = <<>>
    BY <2>1, <2>3 DEF IsFunction
  <2>4. CASE n.events = D
    BY <2>1, <2>4 DEF IsFunction
  <2>. QED  BY <2>2, <2>3, <2>4
<1>. HIDE DEF n
<1>4. J = n.json
  <2>1. CASE n.json = <<>>
    BY <2>1
  <2>2. CASE \E d : n.json = <<drop_paths(d, Compare.json_ignore)>>
    <3>1. PICK d : n.json = <<drop_paths(d, Compare.json_ignore)>>
      BY <2>2
    <3>. DEFINE x == drop_paths(d, Compare.json_ignore)
    <3>2. tolerate(x, x, tol) = x
      BY DroppedIsFunction, TolerateSame
    <3>. HIDE DEF x
    <3>. QED  BY <3>1, <3>2 DEF x
  <2>. QED  BY <1>2, <2>1, <2>2
<1>5. E = n.events
  <2>1. \A k \in DOMAIN n.events : tolerate_event(n.events[k], n.events[k], tol) = n.events[k]
    BY <1>3, TolerateSameEvent
  <2>. QED  BY <1>3, <2>1 DEF IsFunction
<1>. HIDE DEF J, E
<1>6. [[n EXCEPT !.json = J] EXCEPT !.events = E] = n
  BY <1>3, <1>4, <1>5 DEF IsFunction
<1>. QED  BY <1>1, <1>6

(* Verify mode accepts a server that answers as it did: a mismatch is      *)
(* reported only if a response recorded for such a request differs from    *)
(* the live one, or a foreign recording matches (Recorder::verify_http).   *)
THEOREM VerifyAcceptsItsOwnRecordingHolds == Spec => []VerifyAcceptsItsOwnRecording
<1>1. Init => VerifyAcceptsItsOwnRecording
  BY DEF Init, NoResult, VerifyAcceptsItsOwnRecording
<1>2. IInv /\ VerifyAcceptsItsOwnRecording /\ [Next]_vars => VerifyAcceptsItsOwnRecording'
  <2>. SUFFICES ASSUME IInv, VerifyAcceptsItsOwnRecording, [Next]_vars,
                       result'.what = "mismatch"
                PROVE  VerifyAcceptsItsOwnRecording'
    BY DEF VerifyAcceptsItsOwnRecording
  <2>1. CASE result' = result /\ kept' = kept
    BY <2>1 DEF VerifyAcceptsItsOwnRecording, KeptFor
  <2>2. CASE kept' = kept /\ Mismatched(result')
    <3>1. PICK wire \in HttpRequests : \E live : \E p \in ResponsesFor(kept, wire) :
             /\ ~ Equivalent(Compare, p, StoredResponse(live))
             /\ result' = Reported("mismatch", wire, live)
      BY <2>2 DEF Mismatched
    <3>2. PICK live : \E p \in ResponsesFor(kept, wire) :
             /\ ~ Equivalent(Compare, p, StoredResponse(live))
             /\ result' = Reported("mismatch", wire, live)
      BY <3>1
    <3>6. PICK p \in ResponsesFor(kept, wire) :
             /\ ~ Equivalent(Compare, p, StoredResponse(live))
             /\ result' = Reported("mismatch", wire, live)
      BY <3>2
    <3>3. result'.request = wire /\ result'.response = live
      BY <3>6 DEF Reported
    <3>4. CASE \E i \in ForeignHttpFor(wire) : p = i.response
      BY <3>3, <3>4 DEF VerifyAcceptsItsOwnRecording
    <3>5. CASE \E e \in Elements(kept) : /\ e.proto = "http" /\ Key(e.request) = Key(wire)
                                         /\ p = StoredHttp(e).response
      <4>1. PICK e \in Elements(kept) : /\ e.proto = "http" /\ Key(e.request) = Key(wire)
                                        /\ p = StoredHttp(e).response
        BY <3>5
      <4>2. e.response # live
        BY <3>6, <4>1, EquivalentToItself DEF StoredHttp
      <4>3. PICK k \in DOMAIN kept : kept[k] = e
        BY DEF Elements
      <4>4. ~ IsGrpc(wire) /\ ~ IsGrpc(e.request)
        BY <4>1, ByProtocol, HttpKeys, CallsAssumption DEF HttpRequests, IInv
      <4>5. k \in KeptFor(wire)' /\ kept'[k].response # live
        <5>1. IsGrpc(kept[k].request) = IsGrpc(wire)
          BY <4>3, <4>4 DEF IsGrpc
        <5>2. Key(kept[k].request) = Key(wire)
          BY <4>1, <4>3
        <5>3. k \in KeptFor(wire)
          BY <4>3, <5>1, <5>2 DEF KeptFor
        <5>4. KeptFor(wire)' = KeptFor(wire)
          BY <2>2 DEF KeptFor
        <5>. QED  BY <2>2, <4>2, <4>3, <5>3, <5>4
      <4>. QED  BY <3>3, <4>5 DEF VerifyAcceptsItsOwnRecording
    <3>. QED  BY <3>4, <3>5 DEF ResponsesFor
  <2>3. ~ HttpReplayed(result') /\ ~ GrpcReplayed(result') /\ ~ NotFound(result')
    BY ReportedResults
  <2>. QED  BY <2>1, <2>2, <2>3, StepResult DEF Telling
<1>. QED  BY <1>1, <1>2, SpecIInv, PTL DEF Spec

-----------------------------------------------------------------------------
(* A replayed RPC.                                                         *)

(* A status that was understood is one that gRPC has, and its message one  *)
(* that percent-decoding gives.                                            *)
LEMMA StatusFacts ==
    ASSUME NEW http, NEW headers, NEW trailers, grpc_status(http, headers, trailers).ok,
           FromTrailersOrHeaders("grpc-message", headers, trailers)
             \in DOMAIN PercentDecode \cup {"absent", Opaque}
    PROVE  /\ grpc_status(http, headers, trailers).status \in 0..16
           /\ \E w \in DOMAIN PercentDecode :
                PercentDecode[w] = grpc_status(http, headers, trailers).message
           /\ grpc_status(http, headers, trailers)
                = [ok |-> TRUE, status |-> grpc_status(http, headers, trailers).status,
                   message |-> grpc_status(http, headers, trailers).message]
<1>. DEFINE code == FromTrailersOrHeaders("grpc-status", headers, trailers)
            explicit == code # "absent"
            valid == code \in DOMAIN ParseStatus /\ ParseStatus[code] <= 16
            status == IF explicit THEN ParseStatus[code] ELSE status_from_http(http)
            message == FromTrailersOrHeaders("grpc-message", headers, trailers)
            said == IF message \in {"absent", Opaque}
                    THEN default_status_message(explicit, status) ELSE PercentDecode[message]
            g == grpc_status(http, headers, trailers)
<1>1. g = IF explicit /\ ~ valid THEN [ok |-> FALSE, status |-> 0, message |-> ""]
          ELSE [ok |-> TRUE, status |-> status, message |-> said]
  BY DEF grpc_status
<1>2. message \in DOMAIN PercentDecode \cup {"absent", Opaque}
  OBVIOUS
<1>3. status_from_http(http) \in 0..16
  BY DEF status_from_http
<1>4. explicit => valid
  <2>. SUFFICES ASSUME explicit, ~ valid PROVE FALSE
    OBVIOUS
  <2>1. g = [ok |-> FALSE, status |-> 0, message |-> ""]
    BY <1>1
  <2>2. g.ok
    OBVIOUS
  <2>. HIDE DEF g
  <2>. QED  BY ONLY <2>1, <2>2
<1>5. g = [ok |-> TRUE, status |-> status, message |-> said]
  BY <1>1, <1>4
<1>6. status \in 0..16
  <2>1. CASE explicit
    <3>1. \A x \in DOMAIN ParseStatus : ParseStatus[x] \in Nat
      BY StatusAssumption
    <3>. HIDE DEF code
    <3>2. ParseStatus[code] \in Nat /\ ParseStatus[code] <= 16
      BY <1>4, <2>1, <3>1
    <3>. QED  BY <2>1, <3>2
  <2>2. CASE ~ explicit
    BY <1>3, <2>2
  <2>. QED  BY <2>1, <2>2
<1>7. \E w \in DOMAIN PercentDecode : PercentDecode[w] = said
  <2>1. default_status_message(explicit, status) \in {"", "OK", "missing grpc-status"}
    BY DEF default_status_message
  <2>2. \A m \in {"", "OK", "missing grpc-status"} :
          \E w \in DOMAIN PercentDecode : PercentDecode[w] = m
    BY StatusAssumption
  <2>. HIDE DEF message, explicit, status
  <2>. QED  BY <1>2, <2>1, <2>2
<1>. HIDE DEF g, status, said
<1>. QED  BY <1>5, <1>6, <1>7 DEF g

(* Such a status and message are understood again when they are replayed.  *)
LEMMA ReplayedStatus ==
    ASSUME NEW r, r.status_code \in 0..16,
           \E w \in DOMAIN PercentDecode : PercentDecode[w] = r.status_message
    PROVE  grpc_status(replay_grpc(r).http, replay_grpc(r).headers, replay_grpc(r).trailers)
             = [ok |-> TRUE, status |-> r.status_code, message |-> r.status_message]
<1>. DEFINE p == replay_grpc(r)
            m == Insert(r.metadata, "content-type", "application/grpc")
            code == StatusText(r.status_code)
            said == PercentEncode(r.status_message)
            t1 == Insert(m, "grpc-status", code)
            t == Insert(t1, "grpc-message", said)
<1>1. p.trailers = t /\ p.http = 200 /\ p.headers = m
  BY DEF replay_grpc
<1>2. code \in DOMAIN ParseStatus /\ ParseStatus[code] = r.status_code
  BY StatusAssumption DEF StatusText
<1>3. said \in DOMAIN PercentDecode /\ PercentDecode[said] = r.status_message
  BY DEF PercentEncode
<1>4. code # "absent" /\ said \notin {"absent", Opaque}
  BY <1>2, <1>3, StatusAssumption
<1>. HIDE DEF m, code, said
<1>5. /\ "grpc-status" \in DOMAIN t /\ t["grpc-status"] = <<code>>
      /\ "grpc-message" \in DOMAIN t /\ t["grpc-message"] = <<said>>
  <2>1. "grpc-status" \in DOMAIN t1 /\ t1["grpc-status"] = <<code>>
    BY DEF Insert
  <2>. HIDE DEF t1
  <2>2. "grpc-message" \in DOMAIN t /\ t["grpc-message"] = <<said>>
    BY DEF Insert
  <2>3. "grpc-status" \in DOMAIN t /\ t["grpc-status"] = t1["grpc-status"]
    BY <2>1 DEF Insert, t
  <2>. QED  BY <2>1, <2>2, <2>3
<1>. HIDE DEF p, t
<1>6. /\ FromTrailersOrHeaders("grpc-status", m, t) = code
      /\ FromTrailersOrHeaders("grpc-message", m, t) = said
  BY <1>5 DEF FromTrailersOrHeaders
<1>7. grpc_status(200, m, t) = [ok |-> TRUE, status |-> r.status_code, message |-> r.status_message]
  <2>. DEFINE n == r.status_code
              w == r.status_message
  <2>1. ParseStatus[code] = n /\ ParseStatus[code] <= 16
    BY <1>2
  <2>2. PercentDecode[said] = w
    BY <1>3
  <2>. HIDE DEF n, w
  <2>3. code # "absent" /\ ~ (said \in {"absent", Opaque}) /\ code \in DOMAIN ParseStatus
    BY <1>2, <1>4
  <2>4. grpc_status(200, m, t) = [ok |-> TRUE, status |-> n, message |-> w]
    BY ONLY <1>6, <2>1, <2>2, <2>3 DEF grpc_status
  <2>. QED  BY <2>4 DEF n, w
<1>. QED  BY <1>1, <1>7 DEF p

(* What is stored of the response of an RPC.                               *)
LEMMA StoredGrpcResponse ==
    ASSUME NEW e
    PROVE  /\ StoredGrpc(e).response.status_code = grpc_response(e.response).status_code
           /\ StoredGrpc(e).response.status_message = grpc_response(e.response).status_message
           /\ StoredGrpc(e).response.body = grpc_response(e.response).body
           /\ StoredGrpc(e).response.metadata
                = filter_headers(grpc_response(e.response).metadata, Security.filter_headers)
<1>. DEFINE p == grpc_response(e.response)
            h == filter_headers(p.metadata, Security.filter_headers)
            r == StoredGrpc(e).response
<1>1. p = [status_code |-> p.status_code, status_message |-> p.status_message,
           metadata |-> p.metadata, body |-> p.body]
  BY DEF grpc_response
<1>2. r = [p EXCEPT !.metadata = h]
  BY StoredGrpcParts
<1>. HIDE DEF p, h, r
<1>3. /\ r.status_code = p.status_code /\ r.status_message = p.status_message
      /\ r.body = p.body /\ r.metadata = h
  BY <1>1, <1>2
<1>. QED  BY <1>3 DEF p, h, r

(* Metadata that is neither the transport's nor filtered is replayed.      *)
LEMMA MetadataReplayed ==
    ASSUME NEW live, NEW r, NEW n,
           r.metadata = filter_headers(grpc_response(live).metadata, Security.filter_headers),
           ~ is_transport_header(n), Lower[n] \notin UNION {e.names : e \in Security.filter_headers}
    PROVE  Values(replay_grpc(r).trailers, n) = Values(live.headers, n) \o Values(live.trailers, n)
<1>. DEFINE h == metadata_to_map(live.headers).map
            t == metadata_to_map(live.trailers).map
            g == merge_metadata(h, t)
            f == filter_headers(g, Security.filter_headers)
            t0 == Insert(f, "content-type", "application/grpc")
            code == StatusText(r.status_code)
            said == PercentEncode(r.status_message)
<1>1. r.metadata = f
  BY DEF grpc_response
<1>2. Values(h, n) = Values(live.headers, n) /\ Values(t, n) = Values(live.trailers, n)
  BY DEF metadata_to_map, Values
<1>. HIDE DEF h, t
<1>3. Values(g, n) = Values(h, n) \o Values(t, n)
  <2>1. CASE n \in DOMAIN h \cup DOMAIN t
    BY <2>1 DEF merge_metadata, Values
  <2>2. CASE n \notin DOMAIN h \cup DOMAIN t
    <3>1. Values(g, n) = <<>> /\ Values(h, n) = <<>> /\ Values(t, n) = <<>>
      BY <2>2 DEF merge_metadata, Values
    <3>2. <<>> \o <<>> = <<>>
      OBVIOUS
    <3>. QED  BY <3>1, <3>2
  <2>. QED  BY <2>1, <2>2
<1>. HIDE DEF g
<1>4. Values(f, n) = Values(g, n)
  BY DEF filter_headers, Values
<1>. HIDE DEF f
<1>5. n \notin {"content-type", "grpc-status", "grpc-message"}
  BY DEF is_transport_header
<1>6. replay_grpc(r).trailers = Insert(Insert(t0, "grpc-status", code), "grpc-message", said)
  BY <1>1 DEF replay_grpc
<1>. HIDE DEF code, said
<1>7. Values(Insert(Insert(t0, "grpc-status", code), "grpc-message", said), n) = Values(f, n)
  <2>1. Values(t0, n) = Values(f, n)
    BY <1>5 DEF Insert, Values, t0
  <2>. HIDE DEF t0
  <2>. DEFINE t1 == Insert(t0, "grpc-status", code)
  <2>2. Values(t1, n) = Values(t0, n)
    BY <1>5 DEF Insert, Values
  <2>. HIDE DEF t1
  <2>3. Values(Insert(t1, "grpc-message", said), n) = Values(t1, n)
    BY <1>5 DEF Insert, Values
  <2>. QED  BY <2>1, <2>2, <2>3 DEF t1
<1>. QED  BY <1>2, <1>3, <1>4, <1>6, <1>7

(* A message frame is framed again as it was, an empty one and none        *)
(* included.                                                               *)
LEMMA FrameReplayed ==
    ASSUME NEW frame, frame = [kind |-> frame.kind, payload |-> frame.payload],
           frame.kind = "empty" => frame.payload = NoBytes,
           decode_optional_grpc_frame(frame).ok
    PROVE  encode_grpc_frame(decode_optional_grpc_frame(frame).body) = frame
<1>1. Body_none.kind = "none"
  BY DEF Body_none, Body
<1>2. Body_binary(frame.payload).kind = "binary" /\ Body_binary(frame.payload).raw = frame.payload
  BY DEF Body_binary, Body
<1>3. CASE frame.kind = "empty"
  BY <1>1, <1>3 DEF decode_optional_grpc_frame, encode_grpc_frame
<1>4. CASE frame.kind # "empty"
  <2>1. frame.kind = "one" /\ decode_optional_grpc_frame(frame).body = Body_binary(frame.payload)
    BY <1>4 DEF decode_optional_grpc_frame, decode_grpc_frame
  <2>. QED  BY <1>2, <2>1 DEF encode_grpc_frame
<1>. QED  BY <1>3, <1>4

(* The replay of an RPC tells what its response did.                       *)
LEMMA RecordedTellsTheSame ==
    ASSUME NEW e, GrpcExchange(e)
    PROVE  SameToTonic(e.response, replay_grpc(StoredGrpc(e).response))
<1>. DEFINE live == e.response
            r == StoredGrpc(e).response
            g == grpc_status(live.http, live.headers, live.trailers)
<1>1. /\ live.frame = [kind |-> live.frame.kind, payload |-> live.frame.payload]
      /\ live.frame.kind = "empty" => live.frame.payload = NoBytes
      /\ FromTrailersOrHeaders("grpc-message", live.headers, live.trailers)
           \in DOMAIN PercentDecode \cup {"absent", Opaque}
      /\ g.ok /\ decode_optional_grpc_frame(live.frame).ok
  <2>1. PICK c \in GrpcCalls : e = [proto |-> "grpc", request |-> c[1], response |-> c[2]]
    BY DEF GrpcExchange
  <2>2. live = c[2]
    BY <2>1
  <2>. QED  BY <2>2, CallsAssumption DEF GrpcExchange
<1>2. /\ r.status_code = g.status /\ r.status_message = g.message
      /\ r.body = decode_optional_grpc_frame(live.frame).body
      /\ r.metadata = filter_headers(grpc_response(live).metadata, Security.filter_headers)
  BY StoredGrpcResponse DEF grpc_response
<1>. HIDE DEF live, r
<1>3. grpc_status(replay_grpc(r).http, replay_grpc(r).headers, replay_grpc(r).trailers) = g
  BY <1>1, <1>2, StatusFacts, ReplayedStatus
<1>4. replay_grpc(r).frame = live.frame
  BY <1>1, <1>2, FrameReplayed DEF replay_grpc
<1>5. \A n : \/ is_transport_header(n)
             \/ Lower[n] \in UNION {x.names : x \in Security.filter_headers}
             \/ Values(replay_grpc(r).trailers, n)
                  = Values(live.headers, n) \o Values(live.trailers, n)
  BY <1>2, MetadataReplayed
<1>6. SameToTonic(live, replay_grpc(r))
  BY <1>3, <1>4, <1>5 DEF SameToTonic
<1>. QED  BY <1>6 DEF live, r

(* A replayed RPC ends with the status and message of a recorded one,      *)
(* carries the same frame and the metadata (GrpcService::call,             *)
(* replay_response).                                                       *)
THEOREM GrpcReplayTellsTheSameHolds == Spec => []GrpcReplayTellsTheSame
<1>1. Init => GrpcReplayTellsTheSame
  BY DEF Init, NoResult, GrpcReplayTellsTheSame
<1>2. IInv /\ GrpcReplayTellsTheSame /\ [Next]_vars => GrpcReplayTellsTheSame'
  <2>. SUFFICES ASSUME IInv, GrpcReplayTellsTheSame, [Next]_vars,
                       result'.what = "replayed", IsGrpc(result'.request)
                PROVE  GrpcReplayTellsTheSame'
    BY DEF GrpcReplayTellsTheSame
  <2>1. CASE result' = result /\ kept' = kept
    BY <2>1 DEF GrpcReplayTellsTheSame, KeptFor
  <2>2. CASE kept' = kept /\ GrpcReplayed(result')
    <3>1. PICK wire \in GrpcRequests : \E p \in GrpcResponsesFor(kept, wire) :
             result' = Reported("replayed", wire, replay_grpc(p))
      BY <2>2 DEF GrpcReplayed
    <3>2. PICK p \in GrpcResponsesFor(kept, wire) :
             result' = Reported("replayed", wire, replay_grpc(p))
      BY <3>1
    <3>3. result'.request = wire /\ result'.response = replay_grpc(p)
      BY <3>2 DEF Reported
    <3>4. CASE \E i \in ForeignGrpcFor(wire) : p = i.response
      BY <3>3, <3>4 DEF GrpcReplayTellsTheSame
    <3>5. CASE \E e \in Elements(kept) : /\ e.proto = "grpc" /\ Key(e.request) = Key(wire)
                                         /\ p = StoredGrpc(e).response
      <4>1. PICK e \in Elements(kept) : /\ e.proto = "grpc" /\ Key(e.request) = Key(wire)
                                        /\ p = StoredGrpc(e).response
        BY <3>5
      <4>2. GrpcExchange(e)
        BY <4>1, ByProtocol DEF IInv
      <4>3. PICK k \in DOMAIN kept : kept[k] = e
        BY DEF Elements
      <4>4. IsGrpc(wire) /\ IsGrpc(e.request)
        BY <4>2, GrpcKeys, CallsAssumption DEF GrpcRequests
      <4>5. IsGrpc(kept[k].request) = IsGrpc(wire)
        BY <4>3, <4>4 DEF IsGrpc
      <4>6. k \in KeptFor(wire)
        BY <4>1, <4>3, <4>5 DEF KeptFor
      <4>7. KeptFor(wire)' = KeptFor(wire)
        BY <2>2 DEF KeptFor
      <4>8. SameToTonic(kept'[k].response, result'.response)
        BY <2>2, <3>3, <4>1, <4>2, <4>3, RecordedTellsTheSame
      <4>. QED  BY <3>3, <4>6, <4>7, <4>8 DEF GrpcReplayTellsTheSame
    <3>. QED  BY <3>4, <3>5 DEF GrpcResponsesFor
  <2>3. ~ HttpReplayed(result') /\ ~ NotFound(result') /\ ~ Mismatched(result')
    BY ReportedResults
  <2>. QED  BY <2>1, <2>2, <2>3, StepResult DEF Telling
<1>. QED  BY <1>1, <1>2, SpecIInv, PTL DEF Spec

-----------------------------------------------------------------------------
(* A replayed response, read again.                                        *)

MayBeJson(content_type) == is_json_content_type(content_type) \/ content_type = "absent"

(* What bytes that are not compressed are taken for.                       *)
Plainly(bytes, content_type) ==
    IF ~ Readable(bytes) THEN Body_binary(bytes)
    ELSE IF IsJsonText(bytes.text) /\ MayBeJson(content_type) THEN Body_json(DocOf(bytes.text))
    ELSE Body_text(normalize_text(bytes.text))

(* How bytes that are not compressed are read.                             *)
LEMMA ReadPlain ==
    ASSUME NEW bytes, NEW headers, header(headers, "content-encoding") = "absent"
    PROVE  /\ Read(bytes, headers).ok
           /\ bytes = NoBytes => Read(bytes, headers).body = Body_none
           /\ bytes # NoBytes =>
                Read(bytes, headers).body = Plainly(bytes, header(headers, "content-type"))
<1>. DEFINE ct == header(headers, "content-type")
            r == process_body(bytes, ct, "absent")
<1>1. Read(bytes, headers) = r
  BY DEF Read
<1>. HIDE DEF ct
<1>2. bytes = NoBytes => r = [ok |-> TRUE, body |-> Body_none]
  BY DEF process_body
<1>3. bytes # NoBytes => r = [ok |-> TRUE, body |-> Plainly(bytes, ct)]
  BY DEF process_body, Plainly, MayBeJson
<1>. HIDE DEF r
<1>. QED  BY <1>1, <1>2, <1>3 DEF ct

(* What a body was read from.                                              *)
LEMMA SaidIs ==
    ASSUME NEW bytes, NEW headers, Read(bytes, headers).ok
    PROVE  \/ Read(bytes, headers).body = Body_none
           \/ \E p : ~ Readable(p) /\ Read(bytes, headers).body = Body_binary(p)
           \/ /\ IsJsonText(bytes.text) /\ MayBeJson(header(headers, "content-type"))
              /\ Read(bytes, headers).body = Body_json(DocOf(bytes.text))
           \/ /\ ~ (IsJsonText(bytes.text) /\ MayBeJson(header(headers, "content-type")))
              /\ Read(bytes, headers).body = Body_text(normalize_text(bytes.text))
<1>. DEFINE ct == header(headers, "content-type")
            ce == header(headers, "content-encoding")
            b == Read(bytes, headers).body
            plain == IF ce = "absent" THEN [ok |-> TRUE, bytes |-> bytes]
                     ELSE decompress(bytes, ce)
            q == plain.bytes
            as_json == IsJsonText(q.text) /\ MayBeJson(ct)
            body == IF ~ Readable(q) THEN Body_binary(q)
                    ELSE IF as_json THEN Body_json(DocOf(q.text))
                    ELSE Body_text(normalize_text(q.text))
<1>1. bytes = NoBytes \/ b = body
  <2>1. Read(bytes, headers) = IF bytes = NoBytes THEN [ok |-> TRUE, body |-> Body_none]
                               ELSE [ok |-> plain.ok, body |-> IF plain.ok THEN body ELSE Body_none]
    BY DEF Read, process_body, MayBeJson
  <2>. HIDE DEF body, plain
  <2>. QED  BY <2>1
<1>2. bytes = NoBytes => b = Body_none
  BY DEF Read, process_body
<1>3. q.text = bytes.text
  <2>1. q = bytes \/ q = [bytes EXCEPT !.codec = "identity"]
    BY DEF decompress
  <2>. HIDE DEF q
  <2>2. CASE q = [bytes EXCEPT !.codec = "identity"]
    BY <2>2
  <2>. QED  BY <2>1, <2>2
<1>. HIDE DEF q, ct, ce, b
<1>4. CASE bytes # NoBytes
  <2>1. CASE ~ Readable(q)
    BY <1>1, <1>4, <2>1 DEF b
  <2>2. CASE Readable(q) /\ as_json
    BY <1>1, <1>3, <1>4, <2>2 DEF b, ct
  <2>3. CASE Readable(q) /\ ~ as_json
    BY <1>1, <1>3, <1>4, <2>3 DEF b, ct
  <2>. QED  BY <2>1, <2>2, <2>3
<1>. QED  BY <1>2, <1>4 DEF b

(* Assigning the value that is there.                                      *)
LEMMA SameValue ==
    ASSUME NEW f, IsFunction(f), NEW x, NEW v, f[x] = v
    PROVE  [f EXCEPT ![x] = v] = f
  BY DEF IsFunction

(* A text in normal form is what normalize_text makes of it.               *)
LEMMA Normalized ==
    ASSUME NEW lines, NEW v, v = TRUE, NEW s, s = [lines |-> lines, nfc |-> v]
    PROVE  normalize_text(s) = s
<1>1. IsFunction(s) /\ s["nfc"] = v
  BY DEF IsFunction
<1>2. [s EXCEPT !["nfc"] = v] = s
  BY ONLY <1>1, SameValue
<1>. QED  BY <1>2 DEF normalize_text

(* normalize_text changes the normal form only.                            *)
LEMMA NormalText ==
    ASSUME NEW t, IsText(t)
    PROVE  normalize_text(t) = [lines |-> t.lines, nfc |-> TRUE]
<1>. DEFINE v == TRUE
<1>1. t = [lines |-> t.lines, nfc |-> t.nfc]
  BY DEF IsText, Text
<1>2. normalize_text(t) = [t EXCEPT !.nfc = v]
  BY DEF normalize_text
<1>. HIDE DEF v
<1>3. [t EXCEPT !.nfc = v] = [lines |-> t.lines, nfc |-> v]
  BY <1>1
<1>. QED  BY <1>2, <1>3 DEF v

(* A text that scrubbing makes a JSON text was one.                        *)
LEMMA ScrubbedText ==
    ASSUME NEW config, NEW t, IsText(t)
    PROVE  /\ IsJsonText(scrub_text(config, normalize_text(t))) => IsJsonText(t)
           /\ normalize_text(scrub_text(config, normalize_text(t)))
                = scrub_text(config, normalize_text(t))
<1>. DEFINE n == normalize_text(t)
            s == scrub_text(config, n)
<1>1. n = [lines |-> t.lines, nfc |-> TRUE]
  BY NormalText
<1>. HIDE DEF n
<1>2. IsJsonText(n) <=> IsJsonText(t)
  BY <1>1 DEF IsJsonText
<1>3. IsSeq(t.lines)
  BY DEF IsText
<1>4. CASE IsJsonText(n)
  <2>1. PICK L : s = [n EXCEPT !.lines = L]
    BY <1>4 DEF scrub_text
  <2>. HIDE DEF s
  <2>2. s = [lines |-> L, nfc |-> TRUE]
    BY <1>1, <2>1
  <2>3. normalize_text(s) = s
    BY <2>2, Normalized
  <2>. QED  BY <1>2, <1>4, <2>3 DEF s, n
<1>5. CASE ~ IsJsonText(n)
  <2>. DEFINE L1 == [i \in DOMAIN n.lines |->
                       LET line == n.lines[i]
                       IN  IF line.data THEN Line(TRUE, scrub_payload(config, line.payload))
                           ELSE line]
              L2 == [i \in DOMAIN n.lines |->
                       Line(FALSE, scrub_unstructured(config, n.lines[i].payload))]
  <2>1. /\ is_sse(n) => s = [n EXCEPT !.lines = L1]
        /\ ~ is_sse(n) => s = [n EXCEPT !.lines = L2]
    BY <1>5 DEF scrub_text, scrub_sse
  <2>2. n.lines = t.lines
    BY <1>1
  <2>. DEFINE m == Len(t.lines)
  <2>3. m \in Nat /\ DOMAIN n.lines = 1..m
    BY <1>3, <2>2, SeqIsFunction
  <2>. HIDE DEF s
  <2>4. /\ is_sse(n) => s = [lines |-> L1, nfc |-> TRUE]
        /\ ~ is_sse(n) => s = [lines |-> L2, nfc |-> TRUE]
    <3>. HIDE DEF L1, L2
    <3>. QED  BY <1>1, <2>1
  <2>5. normalize_text(s) = s
    <3>. HIDE DEF L1, L2
    <3>1. CASE is_sse(n)
      BY <2>4, <3>1, Normalized
    <3>2. CASE ~ is_sse(n)
      BY <2>4, <3>2, Normalized
    <3>. QED  BY <3>1, <3>2
  <2>6. Len(L1) = m /\ Len(L2) = m
    <3>1. L1 = [k \in 1..m |-> L1[k]] /\ L2 = [k \in 1..m |-> L2[k]]
      BY <2>3
    <3>. HIDE DEF L1, L2, m
    <3>. QED  BY <2>3, <3>1, FunctionIsSeq
  <2>7. ~ IsJsonText(s)
    <3>1. SUFFICES ASSUME IsJsonText(s) PROVE FALSE
      OBVIOUS
    <3>2. CASE is_sse(n)
      <4>0. s.lines = L1
        <5>. HIDE DEF L1
        <5>. QED  BY <2>4, <3>2
      <4>1a. Len(L1) = 1 /\ ~ L1[1].data
        <5>. HIDE DEF L1, m
        <5>. QED  BY <4>0, <3>1 DEF IsJsonText
      <4>1b. m = 1
        <5>. HIDE DEF L1, m
        <5>. QED  BY <2>6, <4>1a
      <4>1. Len(L1) = 1 /\ ~ L1[1].data /\ m = 1
        <5>. HIDE DEF L1, m
        <5>. QED  BY <4>1a, <4>1b
      <4>2. DOMAIN n.lines = {1}
        BY <2>3, <4>1
      <4>3. n.lines[1].data
        BY <3>2, <4>2 DEF is_sse
      <4>4. L1[1] = Line(TRUE, scrub_payload(config, n.lines[1].payload))
        BY <4>2, <4>3
      <4>. QED  BY <4>1, <4>4 DEF Line
    <3>3. CASE ~ is_sse(n)
      <4>0. s.lines = L2
        <5>. HIDE DEF L2
        <5>. QED  BY <2>4, <3>3
      <4>1a. Len(L2) = 1 /\ L2[1].payload.json
        <5>. HIDE DEF L2, m
        <5>. QED  BY <4>0, <3>1 DEF IsJsonText
      <4>1b. m = 1
        <5>. HIDE DEF L2, m
        <5>. QED  BY <2>6, <4>1a
      <4>1. Len(L2) = 1 /\ L2[1].payload.json /\ m = 1
        <5>. HIDE DEF L2, m
        <5>. QED  BY <4>1a, <4>1b
      <4>2. DOMAIN n.lines = {1} /\ m = 1
        BY <2>3, <4>1
      <4>3. ~ n.lines[1].data
        BY <3>3, <4>2 DEF is_sse
      <4>4. L2[1] = Line(FALSE, scrub_unstructured(config, n.lines[1].payload))
        BY <4>2
      <4>5. scrub_unstructured(config, n.lines[1].payload).json
        BY <4>1, <4>4 DEF Line
      <4>6. n.lines[1].payload.json
        BY <4>5 DEF scrub_unstructured
      <4>. QED  BY <1>5, <2>2, <4>2, <4>3, <4>6 DEF IsJsonText
    <3>. QED  BY <3>2, <3>3
  <2>. QED  BY <2>5, <2>7 DEF s, n
<1>. QED  BY <1>4, <1>5

(* The bytes a stored body is replayed as, read without Content-Encoding   *)
(* under the recorded Content-Type.                                        *)
LEMMA BodyReadAgain ==
    ASSUME NEW bytes, IsText(bytes.text), NEW map, NEW H, Read(bytes, map).ok,
           header(H, "content-encoding") = "absent",
           header(H, "content-type") = header(map, "content-type")
    PROVE  /\ Read(body_bytes(scrub_body(Security, Read(bytes, map).body)), H).ok
           /\ Meaning(Read(body_bytes(scrub_body(Security, Read(bytes, map).body)), H).body)
                = Meaning(scrub_body(Security, Read(bytes, map).body))
           /\ Read(bytes, map).body # Body_none
                => scrub_body(Security, Read(bytes, map).body) # Body_none
<1>. DEFINE said == Read(bytes, map).body
            B == scrub_body(Security, said)
            again == Read(body_bytes(B), H)
            ct == header(map, "content-type")
<1>1. IsBody(said)
  BY ReadIsBody
<1>2. /\ again.ok
      /\ body_bytes(B) = NoBytes => again.body = Body_none
      /\ body_bytes(B) # NoBytes => again.body = Plainly(body_bytes(B), ct)
  BY ReadPlain
<1>3. \/ said = Body_none
      \/ \E p : ~ Readable(p) /\ said = Body_binary(p)
      \/ /\ IsJsonText(bytes.text) /\ MayBeJson(ct)
         /\ said = Body_json(DocOf(bytes.text))
      \/ /\ ~ (IsJsonText(bytes.text) /\ MayBeJson(ct))
         /\ said = Body_text(normalize_text(bytes.text))
  BY SaidIs
<1>4. /\ said = Body_none => B = Body_none
      /\ \A d : said = Body_json(d) => B = Body_json(scrub_json_value(Security, d))
      /\ \A t : said = Body_text(t) => B = Body_text(scrub_text(Security, t))
      /\ \A r : said = Body_binary(r) => B = said
  BY <1>1, ScrubbedBody
<1>5. NoBytes.utf8 /\ Readable(NoBytes) /\ NoBytes.text = NoText /\ Len(NoText.lines) = 0
  BY DEF NoBytes, Bytes, Readable, NoText, Text
<1>. HIDE DEF said, B, again, ct
<1>6. /\ Body_none.kind = "none" /\ Body_none # Body_text(NoText)
      /\ \A d : Body_json(d).kind = "json" /\ Body_json(d).doc = d
      /\ \A t : Body_text(t).kind = "text" /\ Body_text(t).text = t
      /\ \A r : Body_binary(r).kind = "binary" /\ Body_binary(r).raw = r
  BY DEF Body_none, Body_json, Body_text, Body_binary, Body
<1>7. CASE said = Body_none
  <2>1. B = Body_none /\ body_bytes(B) = NoBytes
    BY <1>4, <1>6, <1>7 DEF body_bytes
  <2>. QED  BY <1>2, <1>7, <2>1 DEF said, B, again
<1>8. CASE \E p : ~ Readable(p) /\ said = Body_binary(p)
  <2>1. PICK p : ~ Readable(p) /\ said = Body_binary(p)
    BY <1>8
  <2>2. B = Body_binary(p) /\ body_bytes(B) = p
    BY <1>4, <1>6, <2>1 DEF body_bytes
  <2>3. p # NoBytes
    BY <1>5, <2>1
  <2>4. again.body = B
    BY <1>2, <2>1, <2>2, <2>3 DEF Plainly
  <2>5. B # Body_none
    BY <1>6, <2>2
  <2>. QED  BY <1>2, <2>4, <2>5 DEF said, B, again
<1>9. CASE /\ IsJsonText(bytes.text) /\ MayBeJson(ct)
           /\ said = Body_json(DocOf(bytes.text))
  <2>. DEFINE D == scrub_json_value(Security, DocOf(bytes.text))
              j == CompactJson(D)
  <2>1. B = Body_json(D)
    BY <1>4, <1>9
  <2>. HIDE DEF D
  <2>2. body_bytes(B) = Bytes("identity", j)
    BY <1>6, <2>1 DEF body_bytes
  <2>3. IsJsonText(j) /\ DocOf(j) = D
    BY DEF IsJsonText, DocOf, CompactJson, Text, Line, JsonPayload
  <2>. HIDE DEF j
  <2>. DEFINE w == Bytes("identity", j)
  <2>4. w.text = j /\ Readable(w)
    BY DEF Bytes, Readable
  <2>. HIDE DEF w
  <2>5. w # NoBytes
    BY <1>5, <2>3, <2>4 DEF IsJsonText
  <2>6. Plainly(w, ct) = Body_json(D)
    BY <1>9, <2>3, <2>4 DEF Plainly
  <2>7. again.body = B /\ B # Body_none
    BY <1>2, <1>6, <2>1, <2>2, <2>5, <2>6 DEF w
  <2>. QED  BY <1>2, <2>7 DEF said, B, again
<1>10. CASE /\ ~ (IsJsonText(bytes.text) /\ MayBeJson(ct))
            /\ said = Body_text(normalize_text(bytes.text))
  <2>. DEFINE s == scrub_text(Security, normalize_text(bytes.text))
              w == Bytes("identity", s)
  <2>1. B = Body_text(s)
    BY <1>4, <1>10
  <2>2. ~ (IsJsonText(s) /\ MayBeJson(ct)) /\ normalize_text(s) = s
    BY <1>10, ScrubbedText
  <2>. HIDE DEF s
  <2>3. body_bytes(B) = w
    BY <1>6, <2>1 DEF body_bytes
  <2>4. w.text = s /\ Readable(w) /\ (s = NoText => w = NoBytes)
    BY DEF Bytes, Readable, NoBytes
  <2>. HIDE DEF w
  <2>5. w # NoBytes => again.body = Body_text(s)
    BY <1>2, <2>2, <2>3, <2>4 DEF Plainly
  <2>6. w = NoBytes => again.body = Body_none /\ s = NoText
    BY <1>2, <1>5, <2>3, <2>4
  <2>7. Meaning(again.body) = Meaning(B)
    BY <2>1, <2>5, <2>6 DEF Meaning
  <2>8. B # Body_none
    BY <1>6, <2>1
  <2>. QED  BY <1>2, <2>7, <2>8 DEF said, B, again
<1>. QED  BY <1>3, <1>7, <1>8, <1>9, <1>10

(* Content-Encoding goes; Content-Type stays.                              *)
LEMMA HeadersReadAgain ==
    ASSUME NEW map, NEW filters
    PROVE  /\ header(filter_headers(stored_headers(map), filters), "content-encoding") = "absent"
           /\ \/ \A e \in filters : ~ e.keep => "content-type" \notin e.names
              \/ \E e \in filters : e.keep /\ "content-type" \in e.names
              => header(filter_headers(stored_headers(map), filters), "content-type")
                   = header(map, "content-type")
<1>. DEFINE st == stored_headers(map)
            H == filter_headers(st, filters)
            keeps(x) == \/ \A e \in filters : ~ e.keep => x \notin e.names
                        \/ \E e \in filters : e.keep /\ x \in e.names
            S == {k \in DOMAIN map : Lower[k] # "content-encoding"}
            T == {k \in S : keeps(Lower[k])}
            named(h, name) == {n \in DOMAIN h : Lower[n] = name /\ h[n] # <<>>}
<1>1. st = [n \in S |-> map[n]]
  BY DEF stored_headers
<1>2. H = [n \in {k \in DOMAIN st : keeps(Lower[k])} |-> st[n]]
  BY DEF filter_headers
<1>. HIDE DEF H, st
<1>3. DOMAIN H = T /\ \A n \in T : H[n] = map[n]
  <2>. HIDE DEF keeps
  <2>. QED  BY <1>1, <1>2
<1>4. \A h, name : header(h, name) = IF named(h, name) = {} THEN "absent"
                                     ELSE h[CHOOSE n \in named(h, name) : TRUE][1]
  BY DEF header
<1>5. named(H, "content-encoding") = {}
  <2>. HIDE DEF keeps
  <2>. QED  BY <1>3
<1>6. ASSUME keeps("content-type")
      PROVE  header(H, "content-type") = header(map, "content-type")
  <2>1. named(H, "content-type") = named(map, "content-type")
    <3>1. \A n \in DOMAIN map : Lower[n] = "content-type" => n \in T
      <4>. HIDE DEF keeps
      <4>. QED  BY <1>6
    <3>2. T \subseteq DOMAIN map
      OBVIOUS
    <3>. HIDE DEF T
    <3>. QED  BY <1>3, <3>1, <3>2
  <2>. DEFINE N == named(map, "content-type")
              n0 == CHOOSE n \in N : TRUE
  <2>2. N # {} => n0 \in N
    OBVIOUS
  <2>3. N # {} => H[n0] = map[n0]
    <3>1. \A n \in named(H, "content-type") : n \in T
      <4>. HIDE DEF T
      <4>. QED  BY <1>3
    <3>. HIDE DEF N, T, n0
    <3>2. N # {} => n0 \in T
      BY <2>1, <2>2, <3>1 DEF N
    <3>. QED  BY <1>3, <3>2
  <2>4. header(map, "content-type") = IF N = {} THEN "absent" ELSE map[n0][1]
    BY <1>4
  <2>5. header(H, "content-type") = IF N = {} THEN "absent" ELSE H[n0][1]
    <3>1. header(H, "content-type") = IF named(H, "content-type") = {} THEN "absent"
             ELSE H[CHOOSE n \in named(H, "content-type") : TRUE][1]
      BY <1>4
    <3>. QED  BY <2>1, <3>1
  <2>. HIDE DEF N, n0
  <2>. QED  BY <2>3, <2>4, <2>5
<1>7. header(H, "content-encoding") = "absent"
  BY <1>4, <1>5
<1>. QED  BY <1>6, <1>7 DEF H, st

(* What is stored of an HTTP response.                                     *)
LEMMA StoredResponseParts ==
    ASSUME NEW c \in HttpCalls, NEW live, live = c[2]
    PROVE  /\ StoredResponse(live).status = live.status
           /\ StoredResponse(live).headers
                = filter_headers(stored_headers(headers_to_map(live.headers)),
                                 Security.filter_headers)
           /\ StoredResponse(live).body
                = scrub_body(Security, Read(live.bytes, headers_to_map(live.headers)).body)
           /\ StoredResponse(live).body # Body_none /\ live.length # -1
                => StoredResponse(live).length = Size(body_bytes(StoredResponse(live).body))
<1>. DEFINE p == recorded_response(live)
            s == ScrubResponse(Security, p)
            h == filter_headers(stored_headers(headers_to_map(live.headers)), Security.filter_headers)
            b == scrub_body(Security, Read(live.bytes, headers_to_map(live.headers)).body)
            t == retag_content_length(s)
            n == Size(body_bytes(b))
<1>1. /\ ResponseShape(p) /\ p.status = live.status /\ p.length = live.length
      /\ filter_headers(p.headers, Security.filter_headers) = h
      /\ scrub_body(Security, p.body) = b
  BY DEF recorded_response, ResponseShape
<1>2. IsBody(b)
  BY ReadIsBody, ScrubbedBody
<1>. HIDE DEF p, h, b
<1>3. s = [status |-> live.status, length |-> live.length, headers |-> h, body |-> b]
  BY <1>1, ScrubResponseParts
<1>. HIDE DEF s
<1>4. t = IF b.kind = "none" \/ live.length = -1 THEN s ELSE [s EXCEPT !.length = n]
  BY <1>3 DEF retag_content_length
<1>. HIDE DEF t, n
<1>5. CASE b.kind = "none" \/ live.length = -1
  BY <1>2, <1>3, <1>4, <1>5, KindOfBody DEF StoredResponse, t, s, p, h, b
<1>6. CASE ~ (b.kind = "none" \/ live.length = -1)
  <2>1. t = [s EXCEPT !.length = n]
    BY <1>4, <1>6
  <2>2. t.status = live.status /\ t.headers = h /\ t.body = b /\ t.length = n
    BY <1>3, <2>1
  <2>. QED  BY <2>2 DEF StoredResponse, t, s, p, h, b, n
<1>. QED  BY <1>5, <1>6

(* The replay of an HTTP response reads as it did.                         *)
LEMMA RecordedReadsTheSame ==
    ASSUME KeepsContentType, NEW e, HttpExchange(e)
    PROVE  SameToClient(e.response, replay_http(StoredHttp(e).response))
<1>. DEFINE live == e.response
            r == StoredResponse(live)
            q == replay_http(r)
            map == headers_to_map(live.headers)
            said == Read(live.bytes, map).body
<1>1. PICK c \in HttpCalls : live = c[2]
  <2>1. PICK c \in HttpCalls : e = [proto |-> "http", request |-> c[1], response |-> c[2]]
    BY DEF HttpExchange
  <2>. QED  BY <2>1
<1>2. IsText(live.bytes.text) /\ Read(live.bytes, map).ok
  BY <1>1, CallsAssumption DEF HttpExchange
<1>3. StoredHttp(e).response = r
  BY DEF StoredHttp
<1>. HIDE DEF live
<1>4. /\ r.status = live.status /\ r.body = scrub_body(Security, said)
      /\ r.headers = filter_headers(stored_headers(map), Security.filter_headers)
      /\ r.body # Body_none /\ live.length # -1 => r.length = Size(body_bytes(r.body))
  BY <1>1, StoredResponseParts
<1>5. /\ q.status = r.status /\ q.headers = r.headers /\ q.length = r.length
      /\ q.bytes = body_bytes(r.body)
  BY DEF replay_http
<1>. HIDE DEF r, q
<1>6. /\ header(q.headers, "content-encoding") = "absent"
      /\ header(q.headers, "content-type") = header(map, "content-type")
  BY <1>4, <1>5, HeadersReadAgain DEF KeepsContentType
<1>7. /\ Read(q.bytes, q.headers).ok
      /\ Meaning(Read(q.bytes, q.headers).body) = Meaning(scrub_body(Security, said))
      /\ said # Body_none => r.body # Body_none
  <2>. HIDE DEF map
  <2>. QED  BY <1>2, <1>4, <1>5, <1>6, BodyReadAgain
<1>8. SameToClient(live, q)
  <2>1. said # Body_none /\ live.length # -1 => q.length = Size(q.bytes)
    <3>. HIDE DEF said
    <3>. QED  BY <1>4, <1>5, <1>7
  <2>. QED  BY <1>4, <1>5, <1>7, <2>1 DEF SameToClient
<1>. QED  BY <1>3, <1>8 DEF live, q

(* Where scrubbing leaves Content-Type, a client that reads a replayed     *)
(* response by its headers finds the status, the scrubbed document, text   *)
(* or bytes and the length of a response the server gave to such a request *)
(* (Client::execute, replay_response); otherwise a foreign recording is    *)
(* replayed as it is.                                                      *)
THEOREM ReplayReadsAsTheLiveResponseHolds ==
    ASSUME KeepsContentType
    PROVE  Spec => []ReplayReadsAsTheLiveResponse
<1>1. Init => ReplayReadsAsTheLiveResponse
  BY DEF Init, NoResult, ReplayReadsAsTheLiveResponse
<1>2. IInv /\ ReplayReadsAsTheLiveResponse /\ [Next]_vars => ReplayReadsAsTheLiveResponse'
  <2>. SUFFICES ASSUME IInv, ReplayReadsAsTheLiveResponse, [Next]_vars,
                       result'.what = "replayed", ~ IsGrpc(result'.request)
                PROVE  ReplayReadsAsTheLiveResponse'
    BY DEF ReplayReadsAsTheLiveResponse, IsGrpc
  <2>1. CASE result' = result /\ kept' = kept
    BY <2>1 DEF ReplayReadsAsTheLiveResponse, KeptFor
  <2>2. CASE kept' = kept /\ HttpReplayed(result')
    <3>1. PICK wire \in HttpRequests : \E p \in ResponsesFor(kept, wire) :
             result' = Reported("replayed", wire, replay_http(p))
      BY <2>2 DEF HttpReplayed
    <3>2. PICK p \in ResponsesFor(kept, wire) :
             result' = Reported("replayed", wire, replay_http(p))
      BY <3>1
    <3>3. result'.request = wire /\ result'.response = replay_http(p)
      BY <3>2 DEF Reported
    <3>4. CASE \E i \in ForeignHttpFor(wire) : p = i.response
      BY <3>3, <3>4 DEF ReplayReadsAsTheLiveResponse
    <3>5. CASE \E e \in Elements(kept) : /\ e.proto = "http" /\ Key(e.request) = Key(wire)
                                         /\ p = StoredHttp(e).response
      <4>1. PICK e \in Elements(kept) : /\ e.proto = "http" /\ Key(e.request) = Key(wire)
                                        /\ p = StoredHttp(e).response
        BY <3>5
      <4>2. HttpExchange(e)
        BY <4>1, ByProtocol DEF IInv
      <4>3. PICK k \in DOMAIN kept : kept[k] = e
        BY DEF Elements
      <4>4. ~ IsGrpc(wire) /\ ~ IsGrpc(e.request)
        BY <4>2, HttpKeys, CallsAssumption DEF HttpRequests
      <4>5. IsGrpc(kept[k].request) = IsGrpc(wire)
        BY <4>3, <4>4 DEF IsGrpc
      <4>6. k \in KeptFor(wire)
        BY <4>1, <4>3, <4>5 DEF KeptFor
      <4>7. KeptFor(wire)' = KeptFor(wire)
        BY <2>2 DEF KeptFor
      <4>8. SameToClient(kept'[k].response, result'.response)
        BY <2>2, <3>3, <4>1, <4>2, <4>3, RecordedReadsTheSame
      <4>. QED  BY <3>3, <4>6, <4>7, <4>8 DEF ReplayReadsAsTheLiveResponse
    <3>. QED  BY <3>4, <3>5 DEF ResponsesFor
  <2>3. ~ GrpcReplayed(result') /\ ~ NotFound(result') /\ ~ Mismatched(result')
    BY ReportedResults
  <2>. QED  BY <2>1, <2>2, <2>3, StepResult DEF Telling
<1>. QED  BY <1>1, <1>2, SpecIInv, PTL DEF Spec

-----------------------------------------------------------------------------
(* Secrets.                                                                *)

SecretsAreNoMarkers ==
    Secrets \cap {Security.replacement, Obj, Arr, Null, "absent"} = {}

(* Filtered headers hold no secret.                                        *)
LEMMA HeadersClean ==
    ASSUME NEW h, HeadersHide(h)
    PROVE  Secrets \cap HeadersSay(filter_headers(h, Security.filter_headers)) = {}
<1>. DEFINE F == Security.filter_headers
            S == {k \in DOMAIN h :
                    \/ \A e \in F : ~ e.keep => Lower[k] \notin e.names
                    \/ \E e \in F : e.keep /\ Lower[k] \in e.names}
            g == filter_headers(h, F)
<1>1. g = [n \in S |-> h[n]]
  BY DEF filter_headers
<1>2. \A n \in S : n \in DOMAIN h /\ \A k \in DOMAIN h[n] : h[n][k] \notin Secrets
  BY DEF HeadersHide
<1>. HIDE DEF S, g
<1>3. \A n \in DOMAIN g : \A k \in DOMAIN g[n] : g[n][k] \notin Secrets
  BY <1>1, <1>2
<1>4. Secrets \cap HeadersSay(g) = {}
  BY <1>3 DEF HeadersSay
<1>. QED  BY <1>4 DEF g

(* Filtered pairs hold no secret.                                          *)
LEMMA PairsClean ==
    ASSUME SecretsAreNoMarkers, NEW pairs, QueryHides(pairs)
    PROVE  LET out == filter_pairs(pairs, Security.filter_query_parameters, Security.replacement)
           IN  \A i \in DOMAIN out : out[i].val \notin Secrets
<1>. DEFINE Q == Security.filter_query_parameters
            r == Security.replacement
            out == filter_pairs(pairs, Q, r)
<1>1. out = [i \in DOMAIN pairs |->
               IF pairs[i].val # "absent" /\ Lower[pairs[i].key] \in {Lower[f] : f \in Q}
               THEN [pairs[i] EXCEPT !.val = r] ELSE pairs[i]]
  BY DEF filter_pairs
<1>2. r \notin Secrets /\ "absent" \notin Secrets
  BY DEF SecretsAreNoMarkers
<1>. HIDE DEF r, out
<1>3. ASSUME NEW i \in DOMAIN pairs PROVE out[i].val \notin Secrets
  <2>. DEFINE p == pairs[i]
  <2>1. p = [key |-> p.key, val |-> p.val]
    BY DEF QueryHides, ArePairs
  <2>2. p.val \in Secrets => Lower[p.key] \in {Lower[f] : f \in Q}
    BY DEF QueryHides
  <2>3. out[i] = IF p.val # "absent" /\ Lower[p.key] \in {Lower[f] : f \in Q}
                 THEN [p EXCEPT !.val = r] ELSE p
    BY <1>1
  <2>. HIDE DEF p, Q
  <2>4. [p EXCEPT !.val = r].val = r
    BY <2>1
  <2>5. CASE p.val # "absent" /\ Lower[p.key] \in {Lower[f] : f \in Q}
    BY <1>2, <2>3, <2>4, <2>5
  <2>6. CASE ~ (p.val # "absent" /\ Lower[p.key] \in {Lower[f] : f \in Q})
    BY <1>2, <2>2, <2>3, <2>6
  <2>. QED  BY <2>5, <2>6
<1>4. DOMAIN out = DOMAIN pairs
  BY <1>1
<1>. QED  BY <1>3, <1>4 DEF out, r

(* A filtered URI holds no secret.                                         *)
LEMMA UriClean ==
    ASSUME SecretsAreNoMarkers, NEW uri, UriHides(uri)
    PROVE  Secrets \cap UriSays(filter_query_params(uri, Security.filter_query_parameters,
                                                    Security.replacement)) = {}
<1>. DEFINE a == filter_pairs(uri.query, Security.filter_query_parameters, Security.replacement)
            b == filter_pairs(uri.fragment, Security.filter_query_parameters, Security.replacement)
            u == filter_query_params(uri, Security.filter_query_parameters, Security.replacement)
<1>1. /\ \A i \in DOMAIN a : a[i].val \notin Secrets
      /\ \A i \in DOMAIN b : b[i].val \notin Secrets
  BY PairsClean DEF UriHides
<1>2. u = [uri EXCEPT !.query = a, !.fragment = b]
  BY DEF filter_query_params
<1>. HIDE DEF a, b, u
<1>3. u.query = a /\ u.fragment = b
  BY <1>2 DEF UriHides
<1>4. Secrets \cap UriSays(u) = {}
  BY <1>1, <1>3 DEF UriSays
<1>. QED  BY <1>4 DEF u

(* Below a sensitive key nothing is left, and at one the replacement is.   *)
LEMMA DocClean ==
    ASSUME SecretsAreNoMarkers, NEW doc, DocHides(doc)
    PROVE  \A p \in DOMAIN scrub_json_value(Security, doc) :
              scrub_json_value(Security, doc)[p] \notin Secrets
<1>. DEFINE D == {q \in DOMAIN doc : \A i \in 1..(Len(q) - 1) : ~ SensitiveAt(Security, q, i)}
            at(p) == p # <<>> /\ SensitiveAt(Security, p, Len(p))
            r == Security.replacement
            s == scrub_json_value(Security, doc)
<1>1. s = [p \in D |-> IF at(p) THEN r ELSE doc[p]]
  BY DEF scrub_json_value
<1>2. r \notin Secrets
  BY DEF SecretsAreNoMarkers
<1>3. ASSUME NEW p \in D, ~ at(p), doc[p] \in Secrets PROVE FALSE
  <2>1. p \in DOMAIN doc /\ \A i \in 1..(Len(p) - 1) : ~ SensitiveAt(Security, p, i)
    OBVIOUS
  <2>2. PICK i \in 1..Len(p) : SensitiveAt(Security, p, i)
    BY <1>3, <2>1 DEF DocHides
  <2>3. Len(p) \in Nat /\ (p = <<>> => Len(p) = 0)
    BY <1>3, <2>1, SeqIsFunction DEF DocHides
  <2>4. i = Len(p)
    BY <2>1, <2>2, <2>3
  <2>5. p # <<>>
    BY <2>2, <2>3
  <2>. QED  BY <1>3, <2>2, <2>4, <2>5
<1>. HIDE DEF D, at, r, s
<1>4. \A p \in DOMAIN s : s[p] \notin Secrets
  BY <1>1, <1>2, <1>3
<1>. QED  BY <1>4 DEF s

(* Nor does scrubbed JSON in a text.                                       *)
LEMMA JsonClean ==
    ASSUME SecretsAreNoMarkers, NEW payload, JsonHides(payload)
    PROVE  Secrets \cap PayloadSays(scrub_json_text(Security, payload)) = {}
<1>. DEFINE s == scrub_json_value(Security, payload.doc)
            t == scrub_json_text(Security, payload)
<1>1. \A p \in DOMAIN s : s[p] \notin Secrets
  BY DocClean DEF JsonHides
<1>2. t = IF s = payload.doc THEN payload ELSE JsonPayload(s, TRUE)
  BY DEF scrub_json_text
<1>. HIDE DEF s, t
<1>3. /\ JsonPayload(s, TRUE).doc = s
      /\ \A i \in DOMAIN JsonPayload(s, TRUE).pairs : FALSE
  BY DEF JsonPayload
<1>4. t.doc = s /\ \A i \in DOMAIN t.pairs : t.pairs[i].val \notin Secrets
  BY <1>2, <1>3 DEF JsonHides, SaysNone
<1>5. Secrets \cap PayloadSays(t) = {}
  BY <1>1, <1>4 DEF PayloadSays
<1>. QED  BY <1>5 DEF t

(* Nor does what the regular expressions were applied to.                  *)
LEMMA RegexClean ==
    ASSUME SecretsAreNoMarkers, NEW payload, RegexHides(payload)
    PROVE  Secrets \cap PayloadSays(scrub_unstructured(Security, payload)) = {}
<1>. DEFINE r == Security.replacement
            d == [p \in DOMAIN payload.doc |->
                    IF /\ p # <<>> /\ SensitiveAt(Security, p, Len(p))
                       /\ payload.doc[p] \notin {Obj, Arr}
                    THEN r ELSE payload.doc[p]]
            q == [i \in DOMAIN payload.pairs |->
                    IF matches_key(Security, payload.pairs[i].key)
                    THEN [payload.pairs[i] EXCEPT !.val = r] ELSE payload.pairs[i]]
            s == scrub_unstructured(Security, payload)
            s1 == [payload EXCEPT !.doc = d]
<1>0. r \notin Secrets /\ Obj \notin Secrets /\ Arr \notin Secrets
  BY DEF SecretsAreNoMarkers
<1>1. s = [[payload EXCEPT !.doc = d] EXCEPT
            !.pairs = [i \in DOMAIN @ |->
                         IF matches_key(Security, @[i].key)
                         THEN [@[i] EXCEPT !.val = r] ELSE @[i]]]
  BY DEF scrub_unstructured
<1>2. \A p \in DOMAIN d : d[p] \notin Secrets
  <2>. HIDE DEF r
  <2>. QED  BY <1>0 DEF RegexHides
<1>3. \A i \in DOMAIN q : q[i].val \notin Secrets
  <2>. SUFFICES ASSUME NEW i \in DOMAIN payload.pairs PROVE q[i].val \notin Secrets
    OBVIOUS
  <2>. DEFINE p == payload.pairs[i]
  <2>. HIDE DEF r
  <2>1. p = [key |-> p.key, val |-> p.val]
    BY DEF RegexHides, ArePairs
  <2>2. p.val \in Secrets => matches_key(Security, p.key)
    BY DEF RegexHides
  <2>3. q[i] = IF matches_key(Security, p.key) THEN [p EXCEPT !.val = r] ELSE p
    OBVIOUS
  <2>. HIDE DEF p, q
  <2>4. [p EXCEPT !.val = r].val = r
    BY <2>1
  <2>. QED  BY <1>0, <2>2, <2>3, <2>4
<1>4. payload = [json |-> payload.json, doc |-> payload.doc,
                 compact |-> payload.compact, pairs |-> payload.pairs]
  BY DEF RegexHides
<1>. HIDE DEF d, s
<1>5. s1.pairs = payload.pairs
  BY <1>4
<1>6. s = [s1 EXCEPT !.pairs = q]
  BY <1>1, <1>5
<1>. HIDE DEF q
<1>7. s.doc = d /\ s.pairs = q
  BY <1>4, <1>6
<1>8. Secrets \cap PayloadSays(s) = {}
  BY <1>2, <1>3, <1>7 DEF PayloadSays
<1>. QED  BY <1>8 DEF s

(* Nor does a line, scrubbed in the one way or the other.                  *)
LEMMA PayloadClean ==
    ASSUME SecretsAreNoMarkers, NEW payload,
           IF payload.json THEN JsonHides(payload) ELSE RegexHides(payload)
    PROVE  Secrets \cap PayloadSays(scrub_payload(Security, payload)) = {}
  BY JsonClean, RegexClean DEF scrub_payload

(* Nor does a scrubbed text or event stream.                               *)
LEMMA TextClean ==
    ASSUME SecretsAreNoMarkers, NEW text, TextHides(text)
    PROVE  Secrets \cap TextSays(scrub_text(Security, text)) = {}
<1>. DEFINE L == text.lines
            s == scrub_text(Security, text)
            L0 == <<Line(FALSE, scrub_json_text(Security, L[1].payload))>>
            L1 == [i \in DOMAIN L |->
                     LET line == L[i]
                     IN  IF line.data THEN Line(TRUE, scrub_payload(Security, line.payload))
                         ELSE line]
            L2 == [i \in DOMAIN L |-> Line(FALSE, scrub_unstructured(Security, L[i].payload))]
            clean(lines) == \A k \in DOMAIN lines : Secrets \cap PayloadSays(lines[k].payload) = {}
<1>0. text = [lines |-> L, nfc |-> text.nfc]
  BY DEF TextHides, Text
<1>1. ASSUME NEW lines, clean(lines), s = [text EXCEPT !.lines = lines]
      PROVE  Secrets \cap TextSays(s) = {}
  <2>. HIDE DEF s, L
  <2>1. s.lines = lines
    BY <1>0, <1>1
  <2>. QED  BY <1>1, <2>1 DEF TextSays
<1>2. \A data, pl : Line(data, pl).payload = pl
  BY DEF Line
<1>3. CASE IsJsonText(text)
  <2>1. s = [text EXCEPT !.lines = L0]
    BY <1>3 DEF scrub_text
  <2>2. 1 \in DOMAIN L
    <3>1. Len(L) = 1 /\ IsSeq(L)
      BY <1>3 DEF IsJsonText, TextHides
    <3>. HIDE DEF L
    <3>. QED  BY <3>1, SeqIsFunction
  <2>3. /\ LineHides(text, L[1]) /\ L[1].payload.json /\ ~ L[1].data
        /\ ~ is_sse(text)
    <3>1. DOMAIN L = {1}
      <4>1. Len(L) = 1 /\ IsSeq(L)
        BY <1>3 DEF IsJsonText, TextHides
      <4>. HIDE DEF L
      <4>. QED  BY <4>1, SeqIsFunction
    <3>. QED  BY <1>3, <2>2, <3>1 DEF TextHides, IsJsonText, is_sse
  <2>4. JsonHides(L[1].payload)
    BY <1>3, <2>3 DEF LineHides
  <2>5. Secrets \cap PayloadSays(scrub_json_text(Security, L[1].payload)) = {}
    BY <2>4, JsonClean
  <2>6. clean(L0)
    <3>. DEFINE x == Line(FALSE, scrub_json_text(Security, L[1].payload))
    <3>1. x.payload = scrub_json_text(Security, L[1].payload)
      BY <1>2
    <3>. HIDE DEF x
    <3>2. DOMAIN <<x>> = {1} /\ <<x>>[1] = x
      OBVIOUS
    <3>3. clean(<<x>>)
      BY <2>5, <3>1, <3>2
    <3>. QED  BY <3>3 DEF x
  <2>. HIDE DEF L0, s, clean
  <2>. QED  BY <1>1, <2>1, <2>6 DEF s
<1>4. CASE ~ IsJsonText(text) /\ is_sse(text)
  <2>1. s = [text EXCEPT !.lines = L1]
    BY <1>4 DEF scrub_text, scrub_sse
  <2>2. ASSUME NEW k \in DOMAIN L PROVE Secrets \cap PayloadSays(L1[k].payload) = {}
    <3>1. LineHides(text, L[k])
      BY DEF TextHides
    <3>2. CASE ~ L[k].data
      <4>1. L1[k] = L[k]
        BY <3>2
      <4>. QED  BY <1>4, <3>1, <3>2, <4>1 DEF LineHides
    <3>3. CASE L[k].data
      <4>1. L1[k].payload = scrub_payload(Security, L[k].payload)
        <5>1. L1[k] = Line(TRUE, scrub_payload(Security, L[k].payload))
          BY <3>3
        <5>. QED  BY <1>2, <5>1
      <4>2. IF L[k].payload.json THEN JsonHides(L[k].payload) ELSE RegexHides(L[k].payload)
        BY <1>4, <3>1, <3>3 DEF LineHides
      <4>. HIDE DEF L1
      <4>. QED  BY <4>1, <4>2, PayloadClean
    <3>. QED  BY <3>2, <3>3
  <2>3. DOMAIN L1 = DOMAIN L
    OBVIOUS
  <2>. HIDE DEF L1, s
  <2>4. clean(L1)
    BY <2>2, <2>3
  <2>. HIDE DEF clean
  <2>. QED  BY <1>1, <2>1, <2>4 DEF s
<1>5. CASE ~ IsJsonText(text) /\ ~ is_sse(text)
  <2>1. s = [text EXCEPT !.lines = L2]
    BY <1>5 DEF scrub_text
  <2>2. ASSUME NEW k \in DOMAIN L PROVE Secrets \cap PayloadSays(L2[k].payload) = {}
    <3>1. LineHides(text, L[k]) /\ ~ L[k].data
      BY <1>5 DEF TextHides, is_sse
    <3>2. RegexHides(L[k].payload)
      BY <1>5, <3>1 DEF LineHides
    <3>3. L2[k].payload = scrub_unstructured(Security, L[k].payload)
      <4>1. L2[k] = Line(FALSE, scrub_unstructured(Security, L[k].payload))
        OBVIOUS
      <4>. QED  BY <1>2, <4>1
    <3>. HIDE DEF L2
    <3>. QED  BY <3>2, <3>3, RegexClean
  <2>3. DOMAIN L2 = DOMAIN L
    OBVIOUS
  <2>. HIDE DEF L2, s
  <2>4. clean(L2)
    BY <2>2, <2>3
  <2>. HIDE DEF clean
  <2>. QED  BY <1>1, <2>1, <2>4 DEF s
<1>. QED  BY <1>3, <1>4, <1>5

(* What the three parts of a body say.                                     *)
LEMMA BodyParts ==
    ASSUME SecretsAreNoMarkers
    PROVE  /\ Secrets \cap BodySays(Body_none) = {}
           /\ \A d : (\A p \in DOMAIN d : d[p] \notin Secrets)
                => Secrets \cap BodySays(Body_json(d)) = {}
           /\ \A t : Secrets \cap TextSays(t) = {} => Secrets \cap BodySays(Body_text(t)) = {}
           /\ \A r : Secrets \cap TextSays(r.text) = {}
                => Secrets \cap BodySays(Body_binary(r)) = {}
<1>1. \A p \in DOMAIN NoDoc : NoDoc[p] \notin Secrets
  BY DEF NoDoc, Doc, SecretsAreNoMarkers
<1>2. TextSays(NoText) = {} /\ NoBytes.text = NoText
  BY DEF TextSays, NoText, Text, NoBytes, Bytes
<1>3. ASSUME NEW b, \A p \in DOMAIN b.doc : b.doc[p] \notin Secrets,
             Secrets \cap TextSays(b.text) = {}, Secrets \cap TextSays(b.raw.text) = {}
      PROVE  Secrets \cap BodySays(b) = {}
  BY <1>3 DEF BodySays
<1>4. /\ Body_none.doc = NoDoc /\ Body_none.text = NoText /\ Body_none.raw = NoBytes
      /\ \A d : /\ Body_json(d).doc = d /\ Body_json(d).text = NoText
                /\ Body_json(d).raw = NoBytes
      /\ \A t : /\ Body_text(t).doc = NoDoc /\ Body_text(t).text = t
                /\ Body_text(t).raw = NoBytes
      /\ \A r : /\ Body_binary(r).doc = NoDoc /\ Body_binary(r).text = NoText
                /\ Body_binary(r).raw = r
  BY DEF Body_none, Body_json, Body_text, Body_binary, Body
<1>5. Secrets \cap BodySays(Body_none) = {}
  BY <1>1, <1>2, <1>3, <1>4
<1>6. ASSUME NEW d, \A p \in DOMAIN d : d[p] \notin Secrets
      PROVE  Secrets \cap BodySays(Body_json(d)) = {}
  BY <1>1, <1>2, <1>3, <1>4, <1>6
<1>7. ASSUME NEW t, Secrets \cap TextSays(t) = {} PROVE Secrets \cap BodySays(Body_text(t)) = {}
  BY <1>1, <1>2, <1>3, <1>4, <1>7
<1>8. ASSUME NEW r, Secrets \cap TextSays(r.text) = {}
      PROVE  Secrets \cap BodySays(Body_binary(r)) = {}
  BY <1>1, <1>2, <1>3, <1>4, <1>8
<1>. QED  BY <1>5, <1>6, <1>7, <1>8

(* A scrubbed body holds no secret.                                        *)
LEMMA BodyClean ==
    ASSUME SecretsAreNoMarkers, NEW b, IsBody(b), BodyHides(b)
    PROVE  Secrets \cap BodySays(scrub_body(Security, b)) = {}
<1>1. CASE b = Body_none
  BY <1>1, BodyParts, ScrubbedBody
<1>2. ASSUME NEW d, b = Body_json(d) PROVE Secrets \cap BodySays(scrub_body(Security, b)) = {}
  <2>1. b.kind = "json" /\ b.doc = d
    BY <1>2 DEF Body_json, Body
  <2>2. \A p \in DOMAIN scrub_json_value(Security, d) : scrub_json_value(Security, d)[p] \notin Secrets
    BY <2>1, DocClean DEF BodyHides
  <2>. QED  BY <1>2, <2>2, BodyParts, ScrubbedBody
<1>3. ASSUME NEW t, b = Body_text(t) PROVE Secrets \cap BodySays(scrub_body(Security, b)) = {}
  <2>1. b.kind = "text" /\ b.text = t
    BY <1>3 DEF Body_text, Body
  <2>2. Secrets \cap TextSays(scrub_text(Security, t)) = {}
    BY <2>1, TextClean DEF BodyHides
  <2>. QED  BY <1>3, <2>2, BodyParts, ScrubbedBody
<1>4. ASSUME NEW r, b = Body_binary(r) PROVE Secrets \cap BodySays(scrub_body(Security, b)) = {}
  <2>1. b.kind = "binary" /\ b.raw = r
    BY <1>4 DEF Body_binary, Body
  <2>. QED  BY <1>4, <2>1, BodyParts, ScrubbedBody DEF BodyHides
<1>. QED  BY <1>1, <1>2, <1>3, <1>4 DEF IsBody

(* A scrubbed frame holds no secret, be it a close frame.                  *)
LEMMA FrameClean ==
    ASSUME SecretsAreNoMarkers, NEW f, RootedFrame(f), FrameHides(f)
    PROVE  Secrets \cap BodySays(scrub_frame(Security, f).body) = {}
<1>. DEFINE g == scrub_frame(Security, f)
<1>1. f = [direction |-> f.direction, frame_type |-> f.frame_type, body |-> f.body] /\ IsBody(f.body)
  BY DEF RootedFrame, FrameShape
<1>2. CASE f.frame_type = "close" /\ f.body.kind = "binary"
  <2>1. PICK x : f.body = Body_binary(x)
    BY <1>1, <1>2, BodyFields DEF IsBody
  <2>. DEFINE t == scrub_text(Security, x.text)
              y == [x EXCEPT !.text = t]
  <2>2. g = [f EXCEPT !.body.raw.text = scrub_text(Security, @)]
    BY <1>2 DEF scrub_frame
  <2>3. f.body.raw = x
    BY <2>1, BodyFields
  <2>4. g = [f EXCEPT !.body.raw = y]
    BY <2>2, <2>3
  <2>5. Secrets \cap TextSays(t) = {}
    BY <1>2, <2>3, TextClean DEF FrameHides
  <2>. HIDE DEF t
  <2>6. y.text = t
    <3>1. x = [codec |-> x.codec, utf8 |-> x.utf8, text |-> x.text, raw |-> x.raw, big |-> x.big]
      BY <1>2, <2>3 DEF FrameHides
    <3>. QED  BY <3>1
  <2>. HIDE DEF y, g
  <2>7. [f.body EXCEPT !.raw = y] = Body_binary(y)
    BY <2>1 DEF Body_binary, Body
  <2>8. g.body = Body_binary(y)
    BY <1>1, <2>4, <2>7
  <2>9. Secrets \cap BodySays(g.body) = {}
    BY <2>5, <2>6, <2>8, BodyParts
  <2>. QED  BY <2>9 DEF g
<1>3. CASE ~ (f.frame_type = "close" /\ f.body.kind = "binary")
  <2>. DEFINE b == scrub_body(Security, f.body)
  <2>1. g = [f EXCEPT !.body = b]
    BY <1>3 DEF scrub_frame
  <2>2. Secrets \cap BodySays(b) = {}
    BY <1>1, <1>3, BodyClean DEF FrameHides
  <2>. HIDE DEF g, b
  <2>3. g.body = b
    BY <1>1, <2>1
  <2>. QED  BY <2>2, <2>3 DEF g
<1>. QED  BY <1>2, <1>3

(* A scrubbed HTTP interaction holds no secret.                            *)
LEMMA HttpClean ==
    ASSUME SecretsAreNoMarkers, NEW i, HttpHides(i), RequestShape(i.request),
           IsBody(i.request.body), IsBody(i.response.body), NEW out,
           out.request = ScrubRequest(Security, i.request),
           out.response.headers = filter_headers(i.response.headers, Security.filter_headers),
           out.response.body = scrub_body(Security, i.response.body)
    PROVE  Secrets \cap HttpSays(out) = {}
<1>. DEFINE q == out.request
            p == out.response
<1>1. /\ q.uri = filter_query_params(i.request.uri, Security.filter_query_parameters,
                                     Security.replacement)
      /\ q.headers = filter_headers(i.request.headers, Security.filter_headers)
      /\ q.body = scrub_body(Security, i.request.body)
  BY ScrubRequestParts
<1>2. /\ Secrets \cap UriSays(q.uri) = {} /\ Secrets \cap HeadersSay(q.headers) = {}
      /\ Secrets \cap BodySays(q.body) = {}
  BY <1>1, UriClean, HeadersClean, BodyClean DEF HttpHides
<1>3. Secrets \cap HeadersSay(p.headers) = {} /\ Secrets \cap BodySays(p.body) = {}
  BY HeadersClean, BodyClean DEF HttpHides
<1>. QED  BY <1>2, <1>3 DEF HttpSays

(* A scrubbed RPC holds no secret.                                         *)
LEMMA GrpcClean ==
    ASSUME SecretsAreNoMarkers, NEW i, GrpcHides(i), GrpcShape(i),
           IsBody(i.request.body), IsBody(i.response.body)
    PROVE  Secrets \cap GrpcSays(scrub_grpc_interaction(Security, i)) = {}
<1>. DEFINE s == scrub_grpc_interaction(Security, i)
<1>1. /\ s.request.metadata = filter_headers(i.request.metadata, Security.filter_headers)
      /\ s.response.metadata = filter_headers(i.response.metadata, Security.filter_headers)
      /\ s.request.body = scrub_body(Security, i.request.body)
      /\ s.response.body = scrub_body(Security, i.response.body)
      /\ s.json_debug = scrub_json_value(Security, i.json_debug)
  BY ScrubGrpcParts
<1>. HIDE DEF s
<1>2. /\ Secrets \cap HeadersSay(s.request.metadata) = {}
      /\ Secrets \cap HeadersSay(s.response.metadata) = {}
  BY <1>1, HeadersClean DEF GrpcHides
<1>3. /\ Secrets \cap BodySays(s.request.body) = {}
      /\ Secrets \cap BodySays(s.response.body) = {}
  BY <1>1, BodyClean DEF GrpcHides
<1>4. \A p \in DOMAIN s.json_debug : s.json_debug[p] \notin Secrets
  BY <1>1, DocClean DEF GrpcHides
<1>5. Secrets \cap GrpcSays(s) = {}
  BY <1>2, <1>3, <1>4 DEF GrpcSays
<1>. QED  BY <1>5 DEF s

(* A scrubbed WebSocket connection holds no secret.                        *)
LEMMA WsClean ==
    ASSUME SecretsAreNoMarkers, NEW i, WsHides(i),
           i = [uri |-> i.uri, headers |-> i.headers, frames |-> i.frames],
           \A k \in DOMAIN i.frames : RootedFrame(i.frames[k])
    PROVE  Secrets \cap WsSays(scrub_ws_interaction(Security, i)) = {}
<1>. DEFINE s == scrub_ws_interaction(Security, i)
<1>1. /\ s.uri = filter_query_params(i.uri, Security.filter_query_parameters, Security.replacement)
      /\ s.headers = filter_headers(i.headers, Security.filter_headers)
      /\ s.frames = [k \in DOMAIN i.frames |-> scrub_frame(Security, i.frames[k])]
  BY ScrubWsParts
<1>. HIDE DEF s
<1>2. Secrets \cap UriSays(s.uri) = {} /\ Secrets \cap HeadersSay(s.headers) = {}
  BY <1>1, UriClean, HeadersClean DEF WsHides
<1>3. \A k \in DOMAIN s.frames : Secrets \cap BodySays(s.frames[k].body) = {}
  <2>1. \A k \in DOMAIN i.frames : Secrets \cap BodySays(scrub_frame(Security, i.frames[k]).body) = {}
    BY FrameClean DEF WsHides
  <2>2. DOMAIN s.frames = DOMAIN i.frames
        /\ \A k \in DOMAIN i.frames : s.frames[k] = scrub_frame(Security, i.frames[k])
    BY <1>1
  <2>. QED  BY <2>1, <2>2
<1>4. Secrets \cap WsSays(s) = {}
  BY <1>2, <1>3 DEF WsSays
<1>. QED  BY <1>4 DEF s

(* What was recorded, and what a Node program adds.                        *)
LEMMA StoredClean ==
    ASSUME SecretsAreSentWhereLookedFor, NEW e
    PROVE  /\ HttpExchange(e) => Secrets \cap HttpSays(StoredHttp(e)) = {}
           /\ GrpcExchange(e) => Secrets \cap GrpcSays(StoredGrpc(e)) = {}
<1>0. SecretsAreNoMarkers
  BY DEF SecretsAreSentWhereLookedFor, SecretsAreNoMarkers
<1>1. CASE HttpExchange(e)
  <2>1. PICK c \in HttpCalls : e = [proto |-> "http", request |-> c[1], response |-> c[2]]
    BY <1>1 DEF HttpExchange
  <2>2. e.request = c[1] /\ e.response = c[2]
    BY <2>1
  <2>. DEFINE q == recorded_request(c[1])
              p == recorded_response(c[2])
              i == [request |-> q, response |-> p]
              out == StoredHttp(e)
  <2>3. HttpHides(i)
    BY DEF SecretsAreSentWhereLookedFor
  <2>4. RequestShape(q) /\ IsBody(q.body) /\ IsBody(p.body)
    BY ReadIsBody DEF recorded_request, recorded_response, RequestShape
  <2>5. /\ p.headers = stored_headers(headers_to_map(c[2].headers))
        /\ p.body = Read(c[2].bytes, headers_to_map(c[2].headers)).body
    BY DEF recorded_response
  <2>6. out.request = ScrubRequest(Security, q) /\ out.response = StoredResponse(c[2])
    BY <2>2 DEF StoredHttp, StoredRequest
  <2>7. /\ out.response.headers = filter_headers(p.headers, Security.filter_headers)
        /\ out.response.body = scrub_body(Security, p.body)
    BY <2>5, <2>6, StoredResponseParts
  <2>8. i.request = q /\ i.response = p
    OBVIOUS
  <2>. HIDE DEF q, p, i, out
  <2>9. Secrets \cap HttpSays(out) = {}
    BY <1>0, <2>3, <2>4, <2>6, <2>7, <2>8, HttpClean
  <2>. QED  BY <1>1, <2>9, GrpcKeys, HttpKeys DEF out
<1>2. CASE GrpcExchange(e)
  <2>1. PICK c \in GrpcCalls : e = [proto |-> "grpc", request |-> c[1], response |-> c[2]]
    BY <1>2 DEF GrpcExchange
  <2>2. e.request = c[1] /\ e.response = c[2]
    BY <2>1
  <2>. DEFINE q == grpc_request(c[1])
              p == grpc_response(c[2])
              i == [request |-> q, response |-> p, json_debug |-> NoDoc]
  <2>3. GrpcHides(i)
    BY DEF SecretsAreSentWhereLookedFor
  <2>4. /\ IsBody(q.body) /\ IsBody(p.body)
        /\ q = [method |-> q.method, metadata |-> q.metadata, body |-> q.body]
        /\ p = [status_code |-> p.status_code, status_message |-> p.status_message,
                metadata |-> p.metadata, body |-> p.body]
    BY FramesDecode DEF grpc_request, grpc_response
  <2>5. StoredGrpc(e) = scrub_grpc_interaction(Security, i)
    BY <2>2 DEF StoredGrpc
  <2>. HIDE DEF q, p
  <2>6. GrpcShape(i) /\ i.request = q /\ i.response = p
    BY <2>4 DEF GrpcShape
  <2>. HIDE DEF i
  <2>7. Secrets \cap GrpcSays(StoredGrpc(e)) = {}
    BY <1>0, <2>3, <2>4, <2>5, <2>6, GrpcClean
  <2>. QED  BY <1>2, <2>7, GrpcKeys, HttpKeys
<1>. QED  BY <1>1, <1>2

(* What a Node program adds holds no secret.                               *)
LEMMA NodeClean ==
    ASSUME SecretsAreSentWhereLookedFor
    PROVE  /\ \A v \in NodeHttp : Secrets \cap
                HttpSays(interaction_from_json(node_scrub_interaction(v, Security))) = {}
           /\ \A v \in NodeGrpc : Secrets \cap
                GrpcSays(grpc_interaction_from_json(node_scrub_grpc_interaction(v, Security))) = {}
           /\ \A v \in NodeWs : Secrets \cap
                WsSays(ws_interaction_from_json(node_scrub_ws_interaction(v, Security))) = {}
<1>0. SecretsAreNoMarkers
  BY DEF SecretsAreSentWhereLookedFor, SecretsAreNoMarkers
<1>1. ASSUME NEW v \in NodeHttp
      PROVE  Secrets \cap HttpSays(interaction_from_json(node_scrub_interaction(v, Security))) = {}
  <2>. DEFINE i == interaction_from_json(v)
              out == scrub_interaction(Security, i)
  <2>1. ProperHttp(i) /\ interaction_from_json(node_scrub_interaction(v, Security)) = out
    BY NodeHttpIsProper
  <2>2. HttpHides(i)
    BY DEF SecretsAreSentWhereLookedFor
  <2>. HIDE DEF i
  <2>3. /\ out.request = ScrubRequest(Security, i.request)
        /\ out.response = ScrubResponse(Security, i.response)
    BY DEF scrub_interaction
  <2>4. /\ RequestShape(i.request) /\ IsBody(i.request.body)
        /\ ResponseShape(i.response) /\ IsBody(i.response.body)
    BY <2>1 DEF ProperHttp, ProperRequest, ProperResponse
  <2>. HIDE DEF out
  <2>5. /\ out.response.headers = filter_headers(i.response.headers, Security.filter_headers)
        /\ out.response.body = scrub_body(Security, i.response.body)
    BY <2>3, <2>4, ScrubResponseParts
  <2>6. Secrets \cap HttpSays(out) = {}
    BY <1>0, <2>2, <2>3, <2>4, <2>5, HttpClean
  <2>. QED  BY <2>1, <2>6
<1>2. ASSUME NEW v \in NodeGrpc
      PROVE  Secrets \cap
                GrpcSays(grpc_interaction_from_json(node_scrub_grpc_interaction(v, Security))) = {}
  BY <1>0, NodeGrpcIsProper, GrpcClean DEF SecretsAreSentWhereLookedFor, RootedGrpc
<1>3. ASSUME NEW v \in NodeWs
      PROVE  Secrets \cap WsSays(ws_interaction_from_json(node_scrub_ws_interaction(v, Security))) = {}
  <2>. DEFINE i == ws_interaction_from_json(v)
  <2>1. /\ i = [uri |-> i.uri, headers |-> i.headers, frames |-> i.frames]
        /\ \A k \in DOMAIN i.frames : RootedFrame(i.frames[k])
    BY NodeWsReads
  <2>2. WsHides(i)
    BY DEF SecretsAreSentWhereLookedFor
  <2>3. ws_interaction_from_json(node_scrub_ws_interaction(v, Security))
          = scrub_ws_interaction(Security, i)
    BY NodeWsIsProper
  <2>. HIDE DEF i
  <2>. QED  BY <1>0, <2>1, <2>2, <2>3, WsClean
<1>. QED  BY <1>1, <1>2, <1>3

(* What is foreign holds no secret.                                        *)
LEMMA ForeignClean ==
    ASSUME SecretsAreSentWhereLookedFor
    PROVE  /\ \A i \in ForeignHttp : Secrets \cap HttpSays(i) = {}
           /\ \A i \in ForeignGrpc : Secrets \cap GrpcSays(i) = {}
           /\ \A i \in ForeignWs : Secrets \cap WsSays(i) = {}
<1>1. ASSUME NEW f \in InitialFiles, load(f).ok
      PROVE  /\ \A i \in Elements(load(f).cassette.interactions) : Secrets \cap HttpSays(i) = {}
             /\ \A i \in Elements(load(f).cassette.grpc_interactions) : Secrets \cap GrpcSays(i) = {}
             /\ \A i \in Elements(load(f).cassette.ws_interactions) : Secrets \cap WsSays(i) = {}
  <2>1. Secrets \cap CassetteSays(load(f).cassette) = {}
    BY <1>1 DEF SecretsAreSentWhereLookedFor
  <2>. QED  BY <2>1 DEF CassetteSays
<1>2. \A i \in ForeignHttp : Secrets \cap HttpSays(i) = {}
  BY <1>1, NodeClean DEF ForeignHttp
<1>3. \A i \in ForeignGrpc : Secrets \cap GrpcSays(i) = {}
  BY <1>1, NodeClean DEF ForeignGrpc
<1>4. \A i \in ForeignWs : Secrets \cap WsSays(i) = {}
  BY <1>1, NodeClean DEF ForeignWs
<1>. QED  BY <1>2, <1>3, <1>4

(* Where secrets are sent only where the configuration looks for them,     *)
(* none can be read in the file: whoever recorded it, and whatever the     *)
(* file held before (scrub_interaction and its gRPC and WebSocket forms).  *)
THEOREM SecretsStayOutHolds ==
    ASSUME SecretsAreSentWhereLookedFor
    PROVE  Spec => []SecretsStayOut
<1>1. IInv => SecretsStayOut
  <2>. SUFFICES ASSUME IInv, disk # NoFile, load(disk).ok
                PROVE  Secrets \cap CassetteSays(load(disk).cassette) = {}
    BY DEF SecretsStayOut
  <2>. DEFINE c == load(disk).cassette
  <2>1. Holds(c, kept)
    BY DEF IInv, FileFits
  <2>2. History(kept)
    BY DEF IInv
  <2>. HIDE DEF c
  <2>3. ASSUME NEW i \in Elements(c.interactions) PROVE Secrets \cap HttpSays(i) = {}
    <3>1. i \in ForeignHttp \/ \E e \in Elements(kept) : e.proto = "http" /\ i = StoredHttp(e)
      BY <2>1 DEF Holds, RecordedHttp
    <3>. QED  BY <2>2, <3>1, ByProtocol, StoredClean, ForeignClean
  <2>4. ASSUME NEW i \in Elements(c.grpc_interactions) PROVE Secrets \cap GrpcSays(i) = {}
    <3>1. i \in ForeignGrpc \/ \E e \in Elements(kept) : e.proto = "grpc" /\ i = StoredGrpc(e)
      BY <2>1 DEF Holds, RecordedGrpc
    <3>. QED  BY <2>2, <3>1, ByProtocol, StoredClean, ForeignClean
  <2>5. ASSUME NEW i \in Elements(c.ws_interactions) PROVE Secrets \cap WsSays(i) = {}
    BY <2>1, ForeignClean DEF Holds
  <2>6. Secrets \cap CassetteSays(c) = {}
    BY <2>3, <2>4, <2>5 DEF CassetteSays
  <2>. QED  BY <2>6 DEF c
<1>. QED  BY <1>1, SpecIInv, PTL
=============================================================================

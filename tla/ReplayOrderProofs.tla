-------------------------- MODULE ReplayOrderProofs --------------------------
(***************************************************************************)
(* Sorting a cassette on save does not change what it replays, for every   *)
(* set of requests and match configurations and every cassette length.     *)
(***************************************************************************)
EXTENDS ReplayOrder, FiniteSetTheorems, WellFoundedInduction, TLAPS

-----------------------------------------------------------------------------
(* Facts about numbers.                                                     *)

(* A non-empty set of naturals has a least element, and Min returns it.    *)
LEMMA MinIsLeast ==
    ASSUME NEW T, T \subseteq Nat, T # {}
    PROVE  /\ Min(T) \in T
           /\ \A y \in T : Min(T) <= y
<1>1. \E x \in T : \A y \in T : ~ (<<y, x>> \in OpToRel(<, Nat))
  BY NatLessThanWellFounded, WFMin
<1>2. \E x \in T : \A y \in T : x <= y
  <2>1. PICK x \in T : \A y \in T : ~ (<<y, x>> \in OpToRel(<, Nat))
    BY <1>1
  <2>2. ASSUME NEW y \in T PROVE x <= y
    <3>1. ~ (y < x)
      BY <2>1 DEF OpToRel
    <3>. QED  BY <3>1
  <2>. QED  BY <2>2
<1>. QED  BY <1>2 DEF Min

(* An injection of 1..n into itself reaches every number.                  *)
LEMMA InjectionIsOnto ==
    ASSUME NEW n \in Nat, NEW f \in [1..n -> 1..n],
           \A a, b \in 1..n : f[a] = f[b] => a = b, NEW i \in 1..n
    PROVE  \E a \in 1..n : f[a] = i
<1>1. f \in Injection(1..n, 1..n)
  BY DEF Injection, IsInjective
<1>2. IsFiniteSet(1..n)
  BY FS_Interval
<1>3. f \in Surjection(1..n, 1..n)
  BY <1>1, <1>2, FS_Injection
<1>. QED  BY <1>3 DEF Surjection

(* What one valid order writes somewhere, another one writes too.          *)
LEMMA WrittenByBoth ==
    ASSUME NEW n \in Nat, NEW o, NEW p, EachOnce(o, n), EachOnce(p, n),
           NEW a \in 1..n
    PROVE  \E b \in 1..n : p[b] = o[a]
<1>1. o[a] \in 1..n
  BY DEF EachOnce
<1>2. p \in [1..n -> 1..n] /\ \A i, j \in 1..n : p[i] = p[j] => i = j
  BY DEF EachOnce
<1>3. PICK i \in 1..n : i = o[a]
  BY <1>1
<1>4. \E b \in 1..n : p[b] = i
  BY <1>2, InjectionIsOnto
<1>. QED  BY <1>3, <1>4

-----------------------------------------------------------------------------
(* The sort key                                                            *)

(* Every component of a key is a natural number.                           *)
LEMMA KeyFieldIsNatural ==
    ASSUME NEW r \in Requests, NEW m \in KNOWN_MATCHERS, NEW c \in 1..3
    PROVE  sort_key_field(m, r)[c] \in Nat
<1>1. /\ UpperFold[r.method] \in Nat
      /\ r.uri \in Nat
      /\ r.body.core \in Nat
      /\ r.body.noise \in Nat
      /\ r.body.spelling \in Nat
  BY ReplayOrderAssumption, FoldAssumption DEF BodyType
<1>2. c = 1 \/ c = 2 \/ c = 3
  OBVIOUS
<1>. QED
  BY <1>1, <1>2 DEF sort_key_field, KNOWN_MATCHERS, canonical_body,
                    canonical_body_without_ignored

(* No key comes before itself.                                             *)
LEMMA KeyLessIrreflexive ==
    ASSUME NEW r \in Requests, NEW mo \in Seq(KNOWN_MATCHERS)
    PROVE  ~ KeyLess(sort_key(r, mo), sort_key(r, mo))
<1>1. SUFFICES ASSUME NEW f \in DOMAIN mo, NEW c \in 1..3,
                      sort_key(r, mo)[f][c] < sort_key(r, mo)[f][c]
               PROVE  FALSE
  BY DEF KeyLess, sort_key
<1>2. sort_key(r, mo)[f] = sort_key_field(mo[f], r)
  BY DEF sort_key
<1>3. mo[f] \in KNOWN_MATCHERS
  OBVIOUS
<1>4. sort_key_field(mo[f], r)[c] \in Nat
  BY <1>3, KeyFieldIsNatural
<1>. QED  BY <1>1, <1>2, <1>4

(* A matcher that accepts two recorded requests for one incoming request   *)
(* gives them the same key component.                                      *)
LEMMA MatchedFieldsAgree ==
    ASSUME UniformSpelling,
           NEW r \in Requests, NEW p \in Requests, NEW q \in Requests,
           NEW m \in KNOWN_MATCHERS, matches(m, r, p), matches(m, r, q)
    PROVE  sort_key_field(m, p) = sort_key_field(m, q)
<1>1. CASE m = "method"
  <2>1. AsciiFold[p.method] = AsciiFold[q.method]
    BY <1>1 DEF matches, match_method
  <2>2. UpperFold[p.method] = UpperFold[q.method]
    BY <2>1, FoldAssumption, ReplayOrderAssumption
  <2>. QED  BY <1>1, <2>2 DEF sort_key_field
<1>2. CASE m = "uri"
  BY <1>2 DEF matches, match_uri, sort_key_field
<1>3. CASE m = "headers"
  BY <1>3 DEF sort_key_field
<1>4. CASE m = "body"
  <2>1. p.body.kind = q.body.kind /\ p.body.core = q.body.core
          /\ p.body.noise = q.body.noise
    BY <1>4 DEF matches, match_body
  <2>2. p.body.spelling = q.body.spelling
    BY <2>1 DEF UniformSpelling
  <2>. QED  BY <1>4, <2>1, <2>2 DEF sort_key_field, canonical_body
<1>5. CASE m = "json_body"
  <2>1. p.body.kind = q.body.kind /\ p.body.core = q.body.core
    BY <1>5 DEF matches, match_json_body, match_body
  <2>2. p.body.spelling = q.body.spelling
    BY <2>1 DEF UniformSpelling
  <2>. QED  BY <1>5, <2>1, <2>2 DEF sort_key_field, canonical_body_without_ignored
<1>. QED  BY <1>1, <1>2, <1>3, <1>4, <1>5 DEF KNOWN_MATCHERS

(* Two recorded requests that can both answer one request have equal keys: *)
(* "the key must never separate requests the matcher considers equal".     *)
LEMMA MatchedKeysEqual ==
    ASSUME UniformSpelling,
           NEW r \in Requests, NEW p \in Requests, NEW q \in Requests,
           NEW mo \in Seq(KNOWN_MATCHERS),
           matches_all(r, p, mo), matches_all(r, q, mo)
    PROVE  sort_key(p, mo) = sort_key(q, mo)
<1>1. ASSUME NEW f \in DOMAIN mo
      PROVE  sort_key_field(mo[f], p) = sort_key_field(mo[f], q)
  BY MatchedFieldsAgree DEF matches_all
<1>. QED  BY <1>1 DEF sort_key

(* Two different interactions cannot each come before the other.           *)
LEMMA TieLessAsymmetric ==
    ASSUME NEW t \in Seq(Nat), NEW n \in Nat, NEW x \in 1..n, NEW y \in 1..n,
           Len(t) = n, TieLess(x, y, t, n), TieLess(y, x, t, n)
    PROVE  FALSE
<1>1. t[x] \in Nat /\ t[y] \in Nat
  OBVIOUS
<1>. QED  BY <1>1 DEF TieLess

-----------------------------------------------------------------------------
(* Replay from the file and from the cassette in issue order               *)

(* A and B hold the same interactions under the arrangements o and p.      *)
Corresponding(A, B, o, p, n) ==
    \A a, b \in 1..n : o[a] = p[b] => (a \in A <=> b \in B)

(* Two interactions of A and B are arranged the same way by o and p.       *)
ArrangedAlike(A, B, o, p) ==
    \A a1, a2 \in A : \A b1, b2 \in B :
        o[a1] = p[b1] /\ o[a2] = p[b2] /\ a1 < a2 => ~ (b2 < b1)

(* The least members of two sets that correspond under two arrangements,   *)
(* and are arranged alike, correspond.                                     *)
LEMMA LeastCorrespond ==
    ASSUME NEW n \in Nat, NEW o, NEW p, EachOnce(o, n), EachOnce(p, n),
           NEW A \in SUBSET (1..n), NEW B \in SUBSET (1..n),
           Corresponding(A, B, o, p, n), ArrangedAlike(A, B, o, p)
    PROVE  /\ A = {} <=> B = {}
           /\ A # {} => o[Min(A)] = p[Min(B)]
<1>1. \A a \in 1..n : \E b \in 1..n : p[b] = o[a]
  BY WrittenByBoth
<1>2. \A b \in 1..n : \E a \in 1..n : o[a] = p[b]
  BY WrittenByBoth
<1>3. A = {} <=> B = {}
  BY <1>1, <1>2 DEF Corresponding
<1>4. ASSUME A # {} PROVE o[Min(A)] = p[Min(B)]
  <2>0. A \subseteq Nat /\ B \subseteq Nat
    OBVIOUS
  <2>1. A \subseteq Nat /\ B \subseteq Nat /\ B # {}
    BY <1>3, <1>4, <2>0
  <2>2. Min(A) \in A /\ \A y \in A : Min(A) <= y
    BY <1>4, <2>1, MinIsLeast
  <2>3. Min(B) \in B /\ \A y \in B : Min(B) <= y
    BY <2>1, MinIsLeast
  <2>4. PICK b \in 1..n : p[b] = o[Min(A)]
    BY <1>1, <2>2
  <2>5. PICK a \in 1..n : o[a] = p[Min(B)]
    BY <1>2, <2>3
  <2>6. a \in A /\ b \in B
    BY <2>2, <2>3, <2>4, <2>5 DEF Corresponding
  <2>7. Min(A) <= a /\ Min(B) <= b /\ Min(A) \in 1..n /\ Min(B) \in 1..n
    BY <2>2, <2>3, <2>6
  <2>8. ~ (Min(A) < a /\ Min(B) < b)
    BY <2>2, <2>3, <2>4, <2>5, <2>6 DEF ArrangedAlike
  <2>9. Min(A) = a \/ Min(B) = b
    BY <2>7, <2>8
  <2>. QED  BY <2>4, <2>5, <2>9
<1>. QED  BY <1>3, <1>4

(* The file and the issue order are the orders the save computed.          *)
OrdersComputed ==
    phase = "replaying" =>
        /\ output_order(file, tape, match_on, record_order)
        /\ output_order(issued, tape, <<>>, record_order)

(* Every recorded interaction answers one of the requests.                 *)
LEMMA TapeHoldsRequests ==
    ASSUME TypeOK, NEW x \in 1..Len(tape)
    PROVE  tape[x].req \in Requests
<1>. DEFINE S == [req : Requests]
<1>1. tape \in Seq(S)
  BY DEF TypeOK
<1>2. tape[x] \in S
  <2>. HIDE DEF S
  <2>. QED  BY <1>1
<1>. QED  BY <1>2

(* Interactions that answer the same request lie in the file in the order  *)
(* in which they were issued.                                              *)
LEMMA MatchedKeepIssueOrder ==
    ASSUME UniformSpelling, TypeOK, OrdersComputed, phase = "replaying",
           NEW r \in Requests,
           NEW a1 \in 1..Len(tape), NEW a2 \in 1..Len(tape),
           NEW b1 \in 1..Len(tape), NEW b2 \in 1..Len(tape),
           matches_all(r, tape[file[a1]].req, match_on),
           matches_all(r, tape[file[a2]].req, match_on),
           file[a1] = issued[b1], file[a2] = issued[b2],
           a1 < a2, b2 < b1
    PROVE  FALSE
<1>. DEFINE x == file[a1]
            y == file[a2]
<1>1. x \in 1..Len(tape) /\ y \in 1..Len(tape)
  BY DEF TypeOK
<1>2. tape[x].req \in Requests /\ tape[y].req \in Requests
  <2>. HIDE DEF x, y
  <2>. QED  BY <1>1, TapeHoldsRequests
<1>3. match_on \in Seq(KNOWN_MATCHERS)
  BY ReplayOrderAssumption DEF TypeOK
<1>4. sort_key(tape[x].req, match_on) = sort_key(tape[y].req, match_on)
  BY <1>2, <1>3, MatchedKeysEqual
<1>5. ~ KeyLess(sort_key(tape[x].req, match_on), sort_key(tape[y].req, match_on))
  BY <1>2, <1>3, <1>4, KeyLessIrreflexive
<1>6. WrittenBefore(x, y, tape, match_on, record_order)
  BY DEF OrdersComputed, output_order
<1>7. TieLess(x, y, record_order, Len(tape))
  BY <1>5, <1>6 DEF WrittenBefore
<1>8. WrittenBefore(y, x, tape, <<>>, record_order)
  BY DEF OrdersComputed, output_order
<1>9. TieLess(y, x, record_order, Len(tape))
  BY <1>8 DEF WrittenBefore, KeyLess, sort_key
<1>10. record_order \in Seq(Nat) /\ Len(record_order) = Len(tape) /\ Len(tape) \in Nat
  BY DEF TypeOK
<1>. QED  BY <1>1, <1>7, <1>9, <1>10, TieLessAsymmetric

(* The inductive invariant.                                                *)
IInv == TypeOK /\ OrdersComputed /\ SamePlayed

(* A request gets the same interaction from the file as from the cassette  *)
(* in issue order, or none from either.                                    *)
LEMMA SameAnswer ==
    ASSUME UniformSpelling, IInv, phase = "replaying", NEW r \in Requests
    PROVE  LET f == PositionFor(r, file, played)
               s == PositionFor(r, issued, issued_played)
           IN  \/ f = 0 /\ s = 0
               \/ /\ f \in 1..Len(tape) /\ s \in 1..Len(tape)
                  /\ file[f] = issued[s]
<1>. DEFINE n == Len(tape)
            A == Matching(r, Arranged(tape, file), match_on)
            B == Matching(r, Arranged(tape, issued), match_on)
            FA == {i \in A : ~ (i \in DOMAIN played /\ played[i])}
            FB == {i \in B : ~ (i \in DOMAIN issued_played /\ issued_played[i])}
<1>1. /\ n \in Nat
      /\ file \in [1..n -> 1..n] /\ issued \in [1..n -> 1..n]
      /\ played \in [1..n -> BOOLEAN] /\ issued_played \in [1..n -> BOOLEAN]
  BY DEF IInv, TypeOK
<1>2. EachOnce(file, n) /\ EachOnce(issued, n)
  BY DEF IInv, OrdersComputed, output_order
<1>3. A = {a \in 1..n : matches_all(r, tape[file[a]].req, match_on)}
  BY <1>1 DEF Matching, Arranged
<1>4. B = {b \in 1..n : matches_all(r, tape[issued[b]].req, match_on)}
  BY <1>1 DEF Matching, Arranged
<1>5. A \in SUBSET (1..n) /\ B \in SUBSET (1..n)
  BY <1>3, <1>4
<1>6. Corresponding(A, B, file, issued, n)
  BY <1>3, <1>4 DEF Corresponding
<1>7. Corresponding(FA, FB, file, issued, n)
  BY <1>1, <1>6 DEF IInv, SamePlayed, Corresponding
<1>8. ArrangedAlike(A, B, file, issued)
  <2>1. SUFFICES ASSUME NEW a1 \in A, NEW a2 \in A, NEW b1 \in B, NEW b2 \in B,
                        file[a1] = issued[b1], file[a2] = issued[b2],
                        a1 < a2, b2 < b1
                 PROVE  FALSE
    BY DEF ArrangedAlike
  <2>2. /\ a1 \in 1..n /\ a2 \in 1..n /\ b1 \in 1..n /\ b2 \in 1..n
        /\ matches_all(r, tape[file[a1]].req, match_on)
        /\ matches_all(r, tape[file[a2]].req, match_on)
    BY <1>3, <1>4
  <2>. QED  BY <2>1, <2>2, MatchedKeepIssueOrder DEF IInv
<1>9. FA \in SUBSET (1..n) /\ FB \in SUBSET (1..n)
  BY <1>5
<1>10. /\ A = {} <=> B = {}
       /\ A # {} => file[Min(A)] = issued[Min(B)]
  <2>1. n \in Nat
    BY <1>1
  <2>. HIDE DEF A, B, n
  <2>. QED  BY <2>1, <1>2, <1>5, <1>6, <1>8, LeastCorrespond
<1>11. /\ FA = {} <=> FB = {}
       /\ FA # {} => file[Min(FA)] = issued[Min(FB)]
  <2>1. ArrangedAlike(FA, FB, file, issued)
    BY <1>8 DEF ArrangedAlike
  <2>2. n \in Nat
    BY <1>1
  <2>. HIDE DEF FA, FB, n
  <2>. QED  BY <2>2, <1>2, <1>9, <1>7, <2>1, LeastCorrespond
<1>12. /\ A # {} => Min(A) \in A
       /\ B # {} => Min(B) \in B
       /\ FA # {} => Min(FA) \in FA
       /\ FB # {} => Min(FB) \in FB
  <2>1. A \subseteq Nat /\ B \subseteq Nat /\ FA \subseteq Nat /\ FB \subseteq Nat
    BY <1>5, <1>9
  <2>. QED  BY <2>1, MinIsLeast
<1>13. PositionFor(r, file, played) =
         IF FA # {} THEN Min(FA) ELSE IF allow_played /\ A # {} THEN Min(A) ELSE 0
  BY DEF PositionFor, pick
<1>14. PositionFor(r, issued, issued_played) =
         IF FB # {} THEN Min(FB) ELSE IF allow_played /\ B # {} THEN Min(B) ELSE 0
  BY DEF PositionFor, pick
<1>. HIDE DEF A, B, FA, FB
<1>. QED  BY <1>5, <1>9, <1>10, <1>11, <1>12, <1>13, <1>14

-----------------------------------------------------------------------------
(* The specification                                                       *)

(* The invariant holds of the empty cassette a session starts with.        *)
LEMMA InitIInv == Init => IInv
  BY DEF Init, IInv, TypeOK, OrdersComputed, SamePlayed

(* A response that arrives keeps the invariant.                            *)
LEMMA AddKeepsIInv ==
    ASSUME IInv, NEW r \in Requests, NEW t \in 1..MaxLen, add_interaction(r, t)
    PROVE  IInv'
<1>. DEFINE S == [req : Requests]
<1>1. tape \in Seq(S) /\ record_order \in Seq(Nat) /\ Len(record_order) = Len(tape)
  BY DEF IInv, TypeOK
<1>2. [req |-> r] \in S /\ t \in Nat
  OBVIOUS
<1>3. tape' \in Seq(S) /\ record_order' \in Seq(Nat)
        /\ Len(record_order') = Len(tape')
  <2>. HIDE DEF S
  <2>. QED  BY <1>1, <1>2 DEF add_interaction
<1>4. phase' = "recording"
  BY DEF add_interaction
<1>. QED
  BY <1>3, <1>4 DEF add_interaction, IInv, TypeOK, OrdersComputed, SamePlayed

(* Saving and loading computes the two orders and starts unplayed.         *)
LEMMA SaveKeepsIInv ==
    ASSUME IInv, save_and_load
    PROVE  IInv'
<1>1. /\ file' \in [1..Len(tape) -> 1..Len(tape)]
      /\ issued' \in [1..Len(tape) -> 1..Len(tape)]
      /\ output_order(file', tape, match_on, record_order)
      /\ output_order(issued', tape, <<>>, record_order)
  BY DEF save_and_load
<1>2. TypeOK'
  BY <1>1 DEF save_and_load, IInv, TypeOK
<1>3. OrdersComputed'
  BY <1>1 DEF save_and_load, OrdersComputed
<1>4. SamePlayed'
  BY <1>1 DEF save_and_load, SamePlayed
<1>. QED  BY <1>2, <1>3, <1>4 DEF IInv

(* A request takes the same interaction from both, and both mark it.       *)
LEMMA TakeMatchStep ==
    ASSUME UniformSpelling, IInv, NEW r \in Requests, take_match(r)
    PROVE  IInv' /\ SortingKeepsReplay'
<1>. DEFINE f == PositionFor(r, file, played)
            s == PositionFor(r, issued, issued_played)
<1>1. phase = "replaying"
  BY DEF take_match
<1>2. \/ f = 0 /\ s = 0
      \/ f \in 1..Len(tape) /\ s \in 1..Len(tape) /\ file[f] = issued[s]
  BY <1>1, SameAnswer
<1>3. /\ played' = MarkPlayed(played, f)
      /\ issued_played' = MarkPlayed(issued_played, s)
      /\ answer' = [file |-> TapeAt(file, f), issued |-> TapeAt(issued, s)]
      /\ UNCHANGED <<match_on, tape, record_order, phase, file, issued, allow_played>>
  BY DEF take_match
<1>4. /\ Len(tape) \in Nat
      /\ file \in [1..Len(tape) -> 1..Len(tape)]
      /\ issued \in [1..Len(tape) -> 1..Len(tape)]
      /\ played \in [1..Len(tape) -> BOOLEAN]
      /\ issued_played \in [1..Len(tape) -> BOOLEAN]
  BY <1>1 DEF IInv, TypeOK
<1>5. EachOnce(file, Len(tape)) /\ EachOnce(issued, Len(tape))
  BY <1>1 DEF IInv, OrdersComputed, output_order
<1>. HIDE DEF f, s
<1>6. /\ played' \in [1..Len(tape) -> BOOLEAN]
      /\ issued_played' \in [1..Len(tape) -> BOOLEAN]
  BY <1>3, <1>4 DEF MarkPlayed
<1>7. TypeOK'
  BY <1>1, <1>3, <1>6 DEF IInv, TypeOK
<1>8. OrdersComputed'
  BY <1>3 DEF IInv, OrdersComputed
<1>9. SamePlayed'
  <2>1. SUFFICES ASSUME NEW a \in 1..Len(tape), NEW b \in 1..Len(tape),
                        file[a] = issued[b]
                 PROVE  played'[a] = issued_played'[b]
    BY <1>3 DEF SamePlayed
  <2>2. played[a] = issued_played[b]
    BY <1>1, <2>1 DEF IInv, SamePlayed
  <2>3. a = f <=> b = s
    BY <1>2, <1>4, <1>5, <2>1 DEF EachOnce
  <2>. QED  BY <1>3, <1>4, <2>2, <2>3 DEF MarkPlayed
<1>10. SortingKeepsReplay'
  BY <1>2, <1>3 DEF SortingKeepsReplay, TapeAt
<1>. QED  BY <1>7, <1>8, <1>9, <1>10 DEF IInv

(***************************************************************************)
(* output_order "makes the file canonical without changing what replays":  *)
(* for every set of requests, every matcher configuration, every arrival   *)
(* order and every length, the sorted file answers each request as the     *)
(* cassette in issue order does, provided equal JSON values print alike.   *)
(***************************************************************************)
THEOREM SortingNeverChangesReplay ==
    ASSUME UniformSpelling
    PROVE  Spec => [](SortingKeepsReplay /\ SamePlayed)
<1>. DEFINE Inv == IInv /\ SortingKeepsReplay
<1>1. Init => Inv
  BY InitIInv DEF Init, SortingKeepsReplay
<1>2. Inv /\ [Next]_vars => Inv'
  <2>1. SUFFICES ASSUME Inv, [Next]_vars PROVE Inv'
    OBVIOUS
  <2>2. CASE UNCHANGED vars
    BY <2>1, <2>2 DEF vars, IInv, TypeOK, OrdersComputed, SamePlayed,
                      SortingKeepsReplay
  <2>3. ASSUME NEW r \in Requests, NEW t \in 1..MaxLen, add_interaction(r, t)
        PROVE  Inv'
    BY <2>1, <2>3, AddKeepsIInv DEF add_interaction, SortingKeepsReplay
  <2>4. CASE save_and_load
    BY <2>1, <2>4, SaveKeepsIInv DEF save_and_load, SortingKeepsReplay
  <2>5. ASSUME NEW r \in Requests, take_match(r)
        PROVE  Inv'
    BY <2>1, <2>5, TakeMatchStep
  <2>. QED  BY <2>1, <2>2, <2>3, <2>4, <2>5 DEF Next
<1>3. Inv => SortingKeepsReplay /\ SamePlayed
  BY DEF IInv
<1>. QED  BY <1>1, <1>2, <1>3, PTL DEF Spec

-----------------------------------------------------------------------------
(* The file does not depend on the order of arrival                        *)

(* There is one way to write 1..n so that the relation B, which never      *)
(* holds both ways, holds from each number to the later ones.              *)
LEMMA OneSorting ==
    ASSUME NEW n \in Nat, NEW B, NEW o, NEW p, EachOnce(o, n), EachOnce(p, n),
           \A x, y \in 1..n : ~ (<<x, y>> \in B /\ <<y, x>> \in B),
           \A a, b \in 1..n : a < b => <<o[a], o[b]>> \in B /\ <<p[a], p[b]>> \in B
    PROVE  o = p
<1>1. /\ o \in [1..n -> 1..n] /\ p \in [1..n -> 1..n]
      /\ \A a, b \in 1..n : /\ o[a] = o[b] => a = b
                            /\ p[a] = p[b] => a = b
  BY DEF EachOnce
<1>. DEFINE D == {a \in 1..n : o[a] # p[a]}
<1>2. SUFFICES ASSUME D # {} PROVE FALSE
  <2>1. (\A a \in 1..n : o[a] = p[a]) => o = p
    BY <1>1
  <2>. QED  BY <2>1
<1>3. D \subseteq Nat
  OBVIOUS
<1>4. PICK a \in 1..n : o[a] # p[a] /\ \A b \in 1..n : o[b] # p[b] => a <= b
  <2>1. Min(D) \in D /\ \A y \in D : Min(D) <= y
    <3>. HIDE DEF D
    <3>. QED  BY <1>2, <1>3, MinIsLeast
  <2>. QED  BY <2>1
<1>5. PICK b \in 1..n : p[b] = o[a]
  BY WrittenByBoth
<1>6. PICK c \in 1..n : o[c] = p[a]
  BY WrittenByBoth
<1>7. a < b
  <2>1. b # a
    BY <1>4, <1>5
  <2>2. ~ (b < a)
    BY <1>1, <1>4, <1>5
  <2>. QED  BY <2>1, <2>2
<1>8. a < c
  <2>1. c # a
    BY <1>4, <1>6
  <2>2. ~ (c < a)
    BY <1>1, <1>4, <1>6
  <2>. QED  BY <2>1, <2>2
<1>9. <<p[a], o[a]>> \in B /\ <<o[a], p[a]>> \in B
  BY <1>5, <1>6, <1>7, <1>8
<1>. QED  BY <1>1, <1>9

(* Of two keys, one at most comes before the other.                        *)
LEMMA KeyLessAsymmetric ==
    ASSUME NEW r \in Requests, NEW q \in Requests, NEW mo \in Seq(KNOWN_MATCHERS),
           KeyLess(sort_key(r, mo), sort_key(q, mo)),
           KeyLess(sort_key(q, mo), sort_key(r, mo))
    PROVE  FALSE
<1>. DEFINE a == sort_key(r, mo)
            b == sort_key(q, mo)
<1>1. DOMAIN a = DOMAIN mo /\ DOMAIN b = DOMAIN mo /\ DOMAIN mo \subseteq Nat
  BY DEF sort_key
<1>2. ASSUME NEW f \in DOMAIN mo, NEW c \in 1..3
      PROVE  a[f][c] \in Nat /\ b[f][c] \in Nat
  <2>1. mo[f] \in KNOWN_MATCHERS
    OBVIOUS
  <2>2. a[f] = sort_key_field(mo[f], r) /\ b[f] = sort_key_field(mo[f], q)
    BY DEF sort_key
  <2>. QED  BY <2>1, <2>2, KeyFieldIsNatural
<1>3. KeyLess(a, b) /\ KeyLess(b, a)
  OBVIOUS
<1>. HIDE DEF a, b
<1>4. PICK f \in DOMAIN mo, c \in 1..3 :
        /\ a[f][c] < b[f][c]
        /\ \A g \in DOMAIN mo : g < f => a[g] = b[g]
        /\ \A d \in 1..3 : d < c => a[f][d] = b[f][d]
  BY <1>1, <1>3 DEF KeyLess
<1>5. PICK g \in DOMAIN mo, d \in 1..3 :
        /\ b[g][d] < a[g][d]
        /\ \A h \in DOMAIN mo : h < g => b[h] = a[h]
        /\ \A e \in 1..3 : e < d => b[g][e] = a[g][e]
  BY <1>1, <1>3 DEF KeyLess
<1>6. f \in Nat /\ g \in Nat
  BY <1>1
<1>7. a[f][c] \in Nat /\ b[f][c] \in Nat /\ a[g][d] \in Nat /\ b[g][d] \in Nat
  BY <1>2
<1>8. a[f][c] # b[f][c] /\ a[g][d] # b[g][d]
  BY <1>4, <1>5, <1>7
<1>9. f = g
  BY <1>4, <1>5, <1>6, <1>8
<1>10. c = d
  BY <1>4, <1>5, <1>8, <1>9
<1>. QED  BY <1>4, <1>5, <1>7, <1>9, <1>10

(* Every request has a number of its own.                                  *)
DistinctOrders ==
    \A i, j \in DOMAIN record_order : record_order[i] = record_order[j] => i = j

(* The order output_order sorts by, as a relation on the tape.             *)
Sorting ==
    {z \in (1..Len(tape)) \X (1..Len(tape)) :
        LET kx == sort_key(tape[z[1]].req, match_on)
            ky == sort_key(tape[z[2]].req, match_on)
        IN  KeyLess(kx, ky) \/ (kx = ky /\ record_order[z[1]] < record_order[z[2]])}

LEMMA SortingAsymmetric ==
    ASSUME TypeOK, NEW x \in 1..Len(tape), NEW y \in 1..Len(tape),
           <<x, y>> \in Sorting, <<y, x>> \in Sorting
    PROVE  FALSE
<1>. DEFINE kx == sort_key(tape[x].req, match_on)
            ky == sort_key(tape[y].req, match_on)
<1>1. KeyLess(kx, ky) \/ (kx = ky /\ record_order[x] < record_order[y])
  BY DEF Sorting
<1>2. KeyLess(ky, kx) \/ (ky = kx /\ record_order[y] < record_order[x])
  BY DEF Sorting
<1>3. tape[x].req \in Requests /\ tape[y].req \in Requests
  BY TapeHoldsRequests
<1>4. match_on \in Seq(KNOWN_MATCHERS)
  BY ReplayOrderAssumption DEF TypeOK
<1>5. ~ (KeyLess(kx, ky) /\ KeyLess(ky, kx))
  BY <1>3, <1>4, KeyLessAsymmetric
<1>6. ~ KeyLess(kx, kx)
  BY <1>3, <1>4, KeyLessIrreflexive
<1>7. record_order[x] \in Nat /\ record_order[y] \in Nat
  BY DEF TypeOK
<1>. HIDE DEF kx, ky
<1>. QED  BY <1>1, <1>2, <1>5, <1>6, <1>7

(* What is written before is before in the sorting, when the requests have *)
(* different numbers.                                                      *)
LEMMA WrittenSorted ==
    ASSUME TypeOK, DistinctOrders,
           NEW s, NEW t, NEW p, NEW o, EachOnce(p, Len(tape)), EachOnce(o, Len(tape)),
           s = [k \in 1..Len(tape) |-> tape[p[k]]],
           t = [k \in 1..Len(tape) |-> record_order[p[k]]],
           output_order(o, s, match_on, t),
           NEW a \in 1..Len(tape), NEW b \in 1..Len(tape), a < b
    PROVE  <<p[o[a]], p[o[b]]>> \in Sorting
<1>. DEFINE n == Len(tape)
<1>1. n \in Nat /\ Len(record_order) = n /\ DOMAIN record_order = 1..n
  BY DEF TypeOK
<1>. HIDE DEF n
<1>2. Len(s) = n /\ Len(t) = n
  BY <1>1 DEF n
<1>3. PICK i \in 1..n : i = o[a]
  BY DEF EachOnce, n
<1>4. PICK j \in 1..n : j = o[b]
  BY DEF EachOnce, n
<1>5. i # j
  BY <1>1, <1>3, <1>4 DEF EachOnce, n
<1>6. PICK x \in 1..n : x = p[i]
  BY DEF EachOnce, n
<1>7. PICK y \in 1..n : y = p[j]
  BY DEF EachOnce, n
<1>8. x # y
  BY <1>5, <1>6, <1>7 DEF EachOnce, n
<1>9. s[i] = tape[x] /\ s[j] = tape[y] /\ t[i] = record_order[x] /\ t[j] = record_order[y]
  BY <1>6, <1>7 DEF n
<1>10. WrittenBefore(i, j, s, match_on, t)
  BY <1>2, <1>3, <1>4 DEF output_order, n
<1>11. t[i] # t[j]
  <2>1. \A k, l \in 1..n : record_order[k] = record_order[l] => k = l
    BY <1>1 DEF DistinctOrders
  <2>2. record_order[x] # record_order[y]
    BY <1>8, <2>1
  <2>. QED  BY <1>9, <2>2
<1>12. LET kx == sort_key(tape[x].req, match_on)
           ky == sort_key(tape[y].req, match_on)
       IN  KeyLess(kx, ky) \/ (kx = ky /\ record_order[x] < record_order[y])
  BY <1>2, <1>9, <1>10, <1>11 DEF WrittenBefore, TieLess
<1>13. <<x, y>> \in Sorting
  BY <1>12 DEF Sorting, n
<1>. QED  BY <1>3, <1>4, <1>6, <1>7, <1>13

(* What the argument needs: the file is the order the save computed, and   *)
(* the numbers of the requests differ.                                     *)
FileInv == TypeOK /\ OrdersComputed /\ DistinctOrders

LEMMA FileInvKept == FileInv /\ [Next]_vars => FileInv'
<1>1. SUFFICES ASSUME FileInv, [Next]_vars PROVE FileInv'
  OBVIOUS
<1>2. phase = "recording" => IInv
  BY <1>1 DEF FileInv, IInv, SamePlayed
<1>3. ASSUME NEW r \in Requests, NEW t \in 1..MaxLen, add_interaction(r, t)
      PROVE  FileInv'
  <2>1. /\ phase = "recording" /\ record_order' = Append(record_order, t)
        /\ \A i \in DOMAIN record_order : record_order[i] # t
    BY <1>3 DEF add_interaction
  <2>2. IInv'
    BY <1>2, <1>3, <2>1, AddKeepsIInv
  <2>3. DistinctOrders'
    <3>. DEFINE n == Len(record_order)
    <3>1. record_order \in Seq(Nat) /\ t \in Nat
      BY <1>1 DEF FileInv, TypeOK
    <3>2. /\ n \in Nat /\ DOMAIN record_order = 1..n /\ DOMAIN record_order' = 1..(n + 1)
          /\ \A i \in 1..n : record_order'[i] = record_order[i]
          /\ record_order'[n + 1] = t
      BY <2>1, <3>1
    <3>3. \A i \in 1..(n + 1) : i \in 1..n \/ i = n + 1
      BY <3>2
    <3>4. \A i, j \in 1..n : record_order[i] = record_order[j] => i = j
      BY <1>1, <3>2 DEF FileInv, DistinctOrders
    <3>. HIDE DEF n
    <3>5. SUFFICES ASSUME NEW i \in 1..(n + 1), NEW j \in 1..(n + 1),
                          record_order'[i] = record_order'[j]
                   PROVE  i = j
      BY <3>2 DEF DistinctOrders
    <3>6. CASE i \in 1..n /\ j \in 1..n
      BY <3>2, <3>4, <3>5, <3>6
    <3>7. CASE i \in 1..n /\ j = n + 1
      BY <2>1, <3>2, <3>5, <3>7
    <3>8. CASE i = n + 1 /\ j \in 1..n
      BY <2>1, <3>2, <3>5, <3>8
    <3>. QED  BY <3>3, <3>6, <3>7, <3>8
  <2>. QED  BY <2>2, <2>3 DEF IInv, FileInv
<1>4. CASE save_and_load
  <2>1. IInv' /\ UNCHANGED record_order
    BY <1>2, <1>4, SaveKeepsIInv DEF save_and_load
  <2>. QED  BY <1>1, <2>1 DEF IInv, FileInv, DistinctOrders
<1>5. ASSUME NEW r \in Requests, take_match(r)
      PROVE  FileInv'
  <2>1. /\ phase = "replaying"
        /\ \E f : played' = MarkPlayed(played, f)
        /\ \E s : issued_played' = MarkPlayed(issued_played, s)
        /\ UNCHANGED <<match_on, tape, record_order, phase, file, issued, allow_played>>
    BY <1>5 DEF take_match
  <2>2. played \in [1..Len(tape) -> BOOLEAN] /\ issued_played \in [1..Len(tape) -> BOOLEAN]
    BY <1>1, <2>1 DEF FileInv, TypeOK
  <2>3. played' \in [1..Len(tape) -> BOOLEAN] /\ issued_played' \in [1..Len(tape) -> BOOLEAN]
    BY <2>1, <2>2 DEF MarkPlayed
  <2>4. TypeOK'
    BY <1>1, <2>1, <2>3 DEF FileInv, TypeOK
  <2>5. OrdersComputed' /\ DistinctOrders'
    BY <1>1, <2>1 DEF FileInv, OrdersComputed, DistinctOrders
  <2>. QED  BY <2>4, <2>5 DEF FileInv
<1>6. CASE UNCHANGED vars
  BY <1>1, <1>6 DEF vars, FileInv, TypeOK, OrdersComputed, DistinctOrders
<1>. QED  BY <1>1, <1>3, <1>4, <1>5, <1>6 DEF Next

(***************************************************************************)
(* "Two runs of the same concurrent suite" write the same file: any order  *)
(* of arrival of the responses, and any order the save may compute for it, *)
(* puts the same interactions at the same places of the file, for every    *)
(* set of requests and match configurations and every cassette length.     *)
(***************************************************************************)
THEOREM FileNeverDependsOnArrival == Spec => []FileIndependentOfArrival
<1>1. Init => FileInv
  BY InitIInv DEF Init, IInv, FileInv, DistinctOrders
<1>2. FileInv => FileIndependentOfArrival
  <2>. DEFINE n == Len(tape)
              Rearranged(s, p) == [k \in 1..n |-> s[p[k]]]
  <2>1. SUFFICES ASSUME FileInv, phase = "replaying",
                        NEW p \in [1..n -> 1..n], NEW o \in [1..n -> 1..n],
                        EachOnce(p, n), EachOnce(o, n),
                        output_order(o, Rearranged(tape, p), match_on,
                                     Rearranged(record_order, p))
                 PROVE  file = Rearranged(p, o)
    BY DEF FileIndependentOfArrival
  <2>2. /\ n \in Nat /\ DOMAIN tape = 1..n /\ DOMAIN record_order = 1..n
        /\ tape = [k \in 1..n |-> tape[k]]
        /\ record_order = [k \in 1..n |-> record_order[k]]
    <3>. DEFINE S == [req : Requests]
    <3>1. tape \in Seq(S) /\ record_order \in Seq(Nat) /\ Len(record_order) = n
      BY <2>1 DEF FileInv, TypeOK
    <3>. HIDE DEF S
    <3>. QED  BY <3>1
  <2>3. output_order(file, tape, match_on, record_order) /\ EachOnce(file, n)
    BY <2>1 DEF FileInv, OrdersComputed, output_order
  <2>. DEFINE id == [k \in 1..n |-> k]
              R == Rearranged(p, o)
  <2>4. EachOnce(id, n) /\ \A k \in 1..n : id[k] = k
    BY DEF EachOnce
  <2>5. Rearranged(tape, id) = tape /\ Rearranged(record_order, id) = record_order
    BY <2>2
  <2>6. EachOnce(R, n) /\ \A k \in 1..n : R[k] = p[o[k]]
    <3>1. \A k \in 1..n : R[k] = p[o[k]] /\ o[k] \in 1..n /\ p[o[k]] \in 1..n
      BY <2>1
    <3>2. R \in [1..n -> 1..n]
      BY <3>1
    <3>. HIDE DEF R
    <3>3. ASSUME NEW a \in 1..n, NEW b \in 1..n, R[a] = R[b]
          PROVE  a = b
      BY <2>1, <3>1, <3>3 DEF EachOnce
    <3>. QED  BY <3>1, <3>2, <3>3 DEF EachOnce
  <2>. HIDE DEF R, id
  <2>7. \A a, b \in 1..n : a < b => <<R[a], R[b]>> \in Sorting
    <3>1. SUFFICES ASSUME NEW a \in 1..n, NEW b \in 1..n, a < b
                   PROVE  <<R[a], R[b]>> \in Sorting
      OBVIOUS
    <3>2. PICK s : s = Rearranged(tape, p)
      OBVIOUS
    <3>3. PICK t : t = Rearranged(record_order, p)
      OBVIOUS
    <3>4. output_order(o, s, match_on, t)
      BY <2>1, <3>2, <3>3
    <3>5. TypeOK /\ DistinctOrders
      BY <2>1 DEF FileInv
    <3>6. <<p[o[a]], p[o[b]]>> \in Sorting
      BY <2>1, <3>1, <3>2, <3>3, <3>4, <3>5, WrittenSorted
    <3>. QED  BY <2>6, <3>6
  <2>8. \A a, b \in 1..n : a < b => <<file[a], file[b]>> \in Sorting
    <3>1. SUFFICES ASSUME NEW a \in 1..n, NEW b \in 1..n, a < b
                   PROVE  <<file[a], file[b]>> \in Sorting
      OBVIOUS
    <3>2. <<id[file[a]], id[file[b]]>> \in Sorting
      BY <2>1, <2>3, <2>4, <2>5, <3>1, WrittenSorted DEF FileInv
    <3>3. file[a] \in 1..n /\ file[b] \in 1..n
      BY <2>3 DEF EachOnce
    <3>. QED  BY <2>4, <3>2, <3>3
  <2>9. \A x, y \in 1..n : ~ (<<x, y>> \in Sorting /\ <<y, x>> \in Sorting)
    BY <2>1, SortingAsymmetric DEF FileInv
  <2>10. file = R
    BY <2>2, <2>3, <2>6, <2>7, <2>8, <2>9, OneSorting
  <2>. QED  BY <2>10 DEF R
<1>. QED  BY <1>1, <1>2, FileInvKept, PTL DEF Spec
=============================================================================

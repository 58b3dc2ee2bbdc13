-------------------------- MODULE ContainerProofs ---------------------------
(***************************************************************************)
(* The container keeps its played flags and its cached index true, and     *)
(* saves everything, for any interactions, requests and configurations and *)
(* any sequence of operations.                                             *)
(***************************************************************************)
EXTENDS Container, FiniteSetTheorems, WellFoundedInduction, TLAPS

-----------------------------------------------------------------------------
(* Facts about numbers and sequences.                                      *)

(* An injection of 1..n into itself reaches every number.                  *)
LEMMA InjectionIsOnto ==
    ASSUME NEW n \in Nat, NEW f \in [1..n -> 1..n],
           \A a, b \in 1..n : f[a] = f[b] => a = b, NEW i \in 1..n
    PROVE  \E a \in 1..n : f[a] = i
<1>1. f \in Injection(1..n, 1..n)
  BY DEF Injection, IsInjective
<1>2. IsFiniteSet(1..n)
  BY FS_Interval
<1>3. f \in Surjection(1..n, 1..n)
  BY <1>1, <1>2, FS_Injection
<1>. QED  BY <1>3 DEF Surjection

(* What InsertAt returns.                                                  *)
LEMMA InsertAtFacts ==
    ASSUME NEW S, NEW s \in Seq(S), NEW k \in 1..(Len(s) + 1), NEW e \in S
    PROVE  /\ InsertAt(s, k, e) \in Seq(S)
           /\ Len(InsertAt(s, k, e)) = Len(s) + 1
           /\ \A j \in 1..(Len(s) + 1) :
                InsertAt(s, k, e)[j] = IF j < k THEN s[j]
                                       ELSE IF j = k THEN e ELSE s[j - 1]
<1>. DEFINE a == SubSeq(s, 1, k - 1)
            b == SubSeq(s, k, Len(s))
<1>1. a \in Seq(S) /\ Len(a) = k - 1 /\ \A j \in 1..(k - 1) : a[j] = s[j]
  OBVIOUS
<1>2. b \in Seq(S) /\ Len(b) = Len(s) - k + 1
        /\ \A j \in 1..(Len(s) - k + 1) : b[j] = s[k + j - 1]
  OBVIOUS
<1>3. InsertAt(s, k, e) = (a \o <<e>>) \o b
  BY DEF InsertAt
<1>. HIDE DEF a, b
<1>4. (a \o <<e>>) \in Seq(S) /\ Len(a \o <<e>>) = k
        /\ \A j \in 1..k : (a \o <<e>>)[j] = IF j < k THEN a[j] ELSE e
  BY <1>1
<1>. DEFINE c == a \o <<e>>
<1>. HIDE DEF c
<1>5. c \in Seq(S) /\ Len(c) = k
        /\ \A j \in 1..k : c[j] = IF j < k THEN a[j] ELSE e
  BY <1>4 DEF c
<1>6. (c \o b) \in Seq(S) /\ Len(c \o b) = Len(s) + 1
        /\ \A j \in 1..(Len(s) + 1) : (c \o b)[j] = IF j <= k THEN c[j] ELSE b[j - k]
  <2>1. c \in Seq(S) /\ b \in Seq(S) /\ Len(c) = k /\ Len(b) = Len(s) - k + 1
    BY <1>2, <1>5
  <2>2. (c \o b) \in Seq(S) /\ Len(c \o b) = Len(c) + Len(b)
    BY <2>1
  <2>3. \A j \in 1..(Len(c) + Len(b)) :
           (c \o b)[j] = IF j <= Len(c) THEN c[j] ELSE b[j - Len(c)]
    BY <2>1
  <2>4. Len(c) + Len(b) = Len(s) + 1
    BY <2>1
  <2>. QED  BY <2>1, <2>2, <2>3, <2>4
<1>7. InsertAt(s, k, e) = c \o b
  BY <1>3 DEF c
<1>8. ASSUME NEW j \in 1..(Len(s) + 1)
      PROVE  (c \o b)[j] = IF j < k THEN s[j] ELSE IF j = k THEN e ELSE s[j - 1]
  <2>1. CASE j < k
    BY <1>1, <1>5, <1>6, <2>1
  <2>2. CASE j = k
    BY <1>5, <1>6, <2>2
  <2>3. CASE j > k
    <3>1. (j - k) \in 1..(Len(s) - k + 1) /\ k + (j - k) - 1 = j - 1
      BY <2>3
    <3>2. (c \o b)[j] = b[j - k]
      BY <1>6, <2>3
    <3>3. b[j - k] = s[k + (j - k) - 1]
      BY <1>2, <3>1
    <3>4. (c \o b)[j] = s[j - 1]
      BY <3>1, <3>2, <3>3
    <3>5. ~ (j < k) /\ j # k
      BY <2>3
    <3>. QED  BY <3>4, <3>5
  <2>4. j < k \/ j = k \/ j > k
    OBVIOUS
  <2>. QED  BY <2>1, <2>2, <2>3, <2>4, Zenon
<1>. DEFINE d == c \o b
<1>9. /\ d \in Seq(S) /\ Len(d) = Len(s) + 1
      /\ \A j \in 1..(Len(s) + 1) :
           d[j] = IF j < k THEN s[j] ELSE IF j = k THEN e ELSE s[j - 1]
  BY <1>6, <1>8
<1>10. InsertAt(s, k, e) = d
  BY <1>7
<1>. HIDE DEF d
<1>. QED  BY <1>9, <1>10

(* Assigning to an element keeps a sequence a sequence of that length.     *)
LEMMA SeqExcept ==
    ASSUME NEW S, NEW s \in Seq(S), NEW i, NEW e \in S
    PROVE  [s EXCEPT ![i] = e] \in Seq(S) /\ Len([s EXCEPT ![i] = e]) = Len(s)
<1>. DEFINE t == [s EXCEPT ![i] = e]
<1>1. Len(s) \in Nat /\ DOMAIN s = 1..Len(s) /\ \A j \in 1..Len(s) : s[j] \in S
  OBVIOUS
<1>2. t \in [1..Len(s) -> S]
  BY <1>1
<1>. HIDE DEF t
<1>3. t \in Seq(S) /\ Len(t) = Len(s)
  BY <1>1, <1>2
<1>. QED  BY <1>3 DEF t

(* The same for the played flags.                                          *)
LEMMA SetFlag ==
    ASSUME NEW s \in Seq(BOOLEAN), NEW i
    PROVE  [s EXCEPT ![i] = TRUE] \in Seq(BOOLEAN) /\ Len([s EXCEPT ![i] = TRUE]) = Len(s)
<1>. DEFINE B == BOOLEAN
            yes == TRUE
<1>1. s \in Seq(B) /\ yes \in B
  OBVIOUS
<1>. HIDE DEF B, yes
<1>2. [s EXCEPT ![i] = yes] \in Seq(B) /\ Len([s EXCEPT ![i] = yes]) = Len(s)
  BY <1>1, SeqExcept
<1>. QED  BY <1>2 DEF B, yes

-----------------------------------------------------------------------------
(* The inductive invariant.                                                *)

(* A tape `s` of interactions with distinct ids, and flags `f` that say    *)
(* which of them are in `u`.                                               *)
InStep(s, f, u, S) ==
    /\ s \in Seq(S) /\ f \in Seq(BOOLEAN) /\ Len(f) = Len(s)
    /\ \A a, b \in 1..Len(s) : s[a].id = s[b].id => a = b
    /\ \A k \in 1..Len(s) : f[k] <=> s[k].id \in u

TapesInStep ==
    /\ DOMAIN tape = Protocols /\ DOMAIN played = Protocols
    /\ \A p \in Protocols : InStep(tape[p], played[p], used, InteractionsOf(p))

(* What counts as used is still on a tape.                                 *)
UsedOnTape ==
    \A u \in used : \E p \in Protocols : \E k \in 1..Len(tape[p]) : tape[p][k].id = u

(* There is no index, or the index of the interactions there are.          *)
CacheFresh ==
    index \in {NoIndex, [built |-> TRUE, keys |-> build_index(tape.http)]}

IInv ==
    /\ recording \in BOOLEAN
    /\ TapesInStep
    /\ UsedOnTape
    /\ CacheFresh

Flags == recording \in BOOLEAN /\ TapesInStep /\ UsedOnTape

-----------------------------------------------------------------------------
(* One tape.                                                               *)

(* Inserting a new interaction and its flag keeps the two in step.         *)
LEMMA InsertInStep ==
    ASSUME NEW S, NEW s, NEW f, NEW u, InStep(s, f, u, S),
           NEW n \in 1..(Len(s) + 1), NEW e \in S, NEW b \in BOOLEAN,
           \A k \in 1..Len(s) : s[k].id # e.id, e.id \notin u
    PROVE  InStep(InsertAt(s, n, e), InsertAt(f, n, b),
                  IF b THEN u \cup {e.id} ELSE u, S)
<1>. DEFINE t == InsertAt(s, n, e)
            g == InsertAt(f, n, b)
            v == IF b THEN u \cup {e.id} ELSE u
            B == BOOLEAN
<1>1. s \in Seq(S) /\ f \in Seq(B) /\ Len(f) = Len(s) /\ Len(s) \in Nat
  BY DEF InStep
<1>2. \A x, y \in 1..Len(s) : s[x].id = s[y].id => x = y
  BY DEF InStep
<1>3. \A k \in 1..Len(s) : f[k] <=> s[k].id \in u
  BY DEF InStep
<1>4. b \in B
  OBVIOUS
<1>. HIDE DEF B
<1>5. /\ t \in Seq(S) /\ Len(t) = Len(s) + 1
      /\ \A j \in 1..(Len(s) + 1) : t[j] = IF j < n THEN s[j] ELSE IF j = n THEN e ELSE s[j - 1]
  BY <1>1, InsertAtFacts
<1>6. /\ g \in Seq(B) /\ Len(g) = Len(s) + 1
      /\ \A j \in 1..(Len(s) + 1) : g[j] = IF j < n THEN f[j] ELSE IF j = n THEN b ELSE f[j - 1]
  BY <1>1, <1>4, InsertAtFacts
<1>. HIDE DEF t, g
<1>7. ASSUME NEW x \in 1..Len(t), NEW y \in 1..Len(t), t[x].id = t[y].id
      PROVE  x = y
  <2>. DEFINE At(j) == IF j < n THEN j ELSE j - 1
  <2>1. ASSUME NEW j \in 1..Len(t), j # n
        PROVE  At(j) \in 1..Len(s) /\ t[j] = s[At(j)]
    BY <1>1, <1>5, <2>1
  <2>2. CASE x # n /\ y # n
    <3>1. At(x) \in 1..Len(s) /\ At(y) \in 1..Len(s) /\ s[At(x)].id = s[At(y)].id
      BY <1>7, <2>1, <2>2
    <3>2. At(x) = At(y)
      BY <1>2, <3>1
    <3>. QED  BY <1>1, <1>5, <2>2, <3>2
  <2>3. ASSUME NEW j \in 1..Len(t), j # n
        PROVE  t[j].id # e.id
    BY <2>1, <2>3
  <2>4. t[n] = e
    BY <1>1, <1>5
  <2>. QED  BY <1>7, <2>2, <2>3, <2>4
<1>8. ASSUME NEW k \in 1..Len(t)
      PROVE  g[k] <=> t[k].id \in v
  <2>1. CASE k < n
    <3>1. k \in 1..Len(s) /\ t[k] = s[k] /\ g[k] = f[k]
      BY <1>1, <1>5, <1>6, <2>1
    <3>2. s[k].id # e.id
      BY <3>1
    <3>. QED  BY <1>3, <3>1, <3>2, Zenon
  <2>2. CASE k = n
    <3>1. t[k] = e /\ g[k] = b
      BY <1>1, <1>5, <1>6, <2>2
    <3>. QED  BY <3>1, Zenon
  <2>3. CASE k > n
    <3>1. (k - 1) \in 1..Len(s) /\ t[k] = s[k - 1] /\ g[k] = f[k - 1]
      BY <1>1, <1>5, <1>6, <2>3
    <3>2. s[k - 1].id # e.id
      BY <3>1
    <3>. QED  BY <1>3, <3>1, <3>2, Zenon
  <2>. QED  BY <1>1, <1>5, <2>1, <2>2, <2>3
<1>9. g \in Seq(BOOLEAN) /\ Len(g) = Len(t)
  BY <1>5, <1>6 DEF B
<1>10. InStep(t, g, v, S)
  <2>. HIDE DEF v
  <2>. QED  BY <1>5, <1>7, <1>8, <1>9 DEF InStep
<1>. QED  BY <1>10 DEF t, g

(* An insertion loses nothing.                                             *)
LEMMA InsertKeepsElements ==
    ASSUME NEW S, NEW s \in Seq(S), NEW n \in 1..(Len(s) + 1), NEW e \in S
    PROVE  /\ \E j \in 1..Len(InsertAt(s, n, e)) : InsertAt(s, n, e)[j] = e
           /\ \A k \in 1..Len(s) :
                \E j \in 1..Len(InsertAt(s, n, e)) : InsertAt(s, n, e)[j] = s[k]
<1>. DEFINE t == InsertAt(s, n, e)
<1>1. /\ Len(t) = Len(s) + 1
      /\ \A j \in 1..(Len(s) + 1) : t[j] = IF j < n THEN s[j] ELSE IF j = n THEN e ELSE s[j - 1]
  BY InsertAtFacts
<1>. HIDE DEF t
<1>2. n \in 1..Len(t) /\ t[n] = e
  BY <1>1
<1>3. ASSUME NEW k \in 1..Len(s) PROVE \E j \in 1..Len(t) : t[j] = s[k]
  <2>1. CASE k < n
    <3>1. k \in 1..Len(t) /\ t[k] = s[k]
      BY <1>1, <2>1
    <3>. QED  BY <3>1
  <2>2. CASE k >= n
    <3>1. (k + 1) \in 1..Len(t) /\ t[k + 1] = s[k]
      BY <1>1, <2>2
    <3>. QED  BY <3>1
  <2>. QED  BY <2>1, <2>2
<1>. QED  BY <1>2, <1>3 DEF t

(* A tape is not concerned by ids that are not on it.                      *)
LEMMA OtherInStep ==
    ASSUME NEW S, NEW s, NEW f, NEW u, NEW v, InStep(s, f, u, S),
           \A k \in 1..Len(s) : s[k].id \in u <=> s[k].id \in v
    PROVE  InStep(s, f, v, S)
  BY Zenon DEF InStep

(* Marking an interaction.                                                 *)
LEMMA MarkInStep ==
    ASSUME NEW S, NEW s, NEW f, NEW u, InStep(s, f, u, S), NEW n \in 1..Len(s)
    PROVE  InStep(s, [f EXCEPT ![n] = TRUE], u \cup {s[n].id}, S)
<1>. DEFINE g == [f EXCEPT ![n] = TRUE]
<1>1. g \in Seq(BOOLEAN) /\ Len(g) = Len(f)
  BY SetFlag DEF InStep
<1>2. DOMAIN f = 1..Len(s)
  BY DEF InStep
<1>3. ASSUME NEW k \in 1..Len(s)
      PROVE  g[k] <=> s[k].id \in u \cup {s[n].id}
  <2>1. CASE k = n
    BY <1>2, <2>1, Zenon
  <2>2. CASE k # n
    <3>1. g[k] = f[k]
      BY <1>2, <2>2, Zenon
    <3>2. s[k].id # s[n].id
      BY <2>2, Zenon DEF InStep
    <3>. QED  BY <3>1, <3>2, Zenon DEF InStep
  <2>. QED  BY <2>1, <2>2
<1>. HIDE DEF g
<1>4. InStep(s, g, u \cup {s[n].id}, S)
  BY <1>1, <1>3, Zenon DEF InStep
<1>. QED  BY <1>4 DEF g

(* A tape just set, none of it used.                                       *)
LEMMA SetInStep ==
    ASSUME NEW S, NEW s \in Tapes(S), NEW u, \A k \in 1..Len(s) : s[k].id \notin u
    PROVE  InStep(s, [k \in DOMAIN s |-> FALSE], u, S)
<1>1. PICK m \in 0..2 : s \in [1..m -> S]
  BY Zenon DEF Tapes
<1>2. m \in Nat /\ s \in Seq(S) /\ Len(s) = m /\ DOMAIN s = 1..m
  BY <1>1
<1>3. \A a, b \in 1..Len(s) : s[a].id = s[b].id => a = b
  BY <1>2 DEF Tapes
<1>. DEFINE B == BOOLEAN
            no == FALSE
            f == [k \in DOMAIN s |-> no]
<1>4. no \in B
  OBVIOUS
<1>. HIDE DEF B, no
<1>5. f \in Seq(B) /\ Len(f) = m /\ \A k \in 1..m : f[k] = no
  BY <1>2, <1>4
<1>. HIDE DEF f
<1>6. f \in Seq(BOOLEAN) /\ Len(f) = Len(s)
  BY <1>2, <1>5 DEF B
<1>7. \A k \in 1..Len(s) : f[k] <=> s[k].id \in u
  BY <1>2, <1>5, Zenon DEF no
<1>8. InStep(s, f, u, S)
  BY <1>2, <1>3, <1>6, <1>7, Zenon DEF InStep
<1>. QED  BY <1>8 DEF f, no

-----------------------------------------------------------------------------
(* What the protocols have in common.                                      *)

(* Interactions of two protocols have different ids.                       *)
LEMMA IdsOfOneProtocol ==
    ASSUME NEW p \in Protocols, NEW q \in Protocols, p # q,
           NEW i \in InteractionsOf(p), NEW j \in InteractionsOf(q)
    PROVE  i.id # j.id
  BY ContainerAssumption

(* What is on a tape is an interaction of its protocol.                    *)
LEMMA OnTape ==
    ASSUME TapesInStep, NEW p \in Protocols, NEW k \in 1..Len(tape[p])
    PROVE  tape[p][k] \in InteractionsOf(p)
<1>1. tape[p] \in Seq(InteractionsOf(p))
  BY Zenon DEF TapesInStep, InStep
<1>. QED  BY <1>1

(* Replacing a tape (set_interactions and its siblings) clears its flags.  *)
LEMMA SetTapeKeepsFlags ==
    ASSUME Flags, NEW p \in Protocols, NEW s \in Tapes(InteractionsOf(p)), SetTape(p, s)
    PROVE  Flags'
<1>. DEFINE gone == {i.id : i \in ToSet(tape[p]) \cup ToSet(s)}
<1>0. TapesInStep /\ UsedOnTape
  BY DEF Flags
<1>1. /\ DOMAIN tape' = Protocols /\ tape'[p] = s
      /\ DOMAIN played' = Protocols /\ played'[p] = [k \in DOMAIN s |-> FALSE]
      /\ \A q \in Protocols : q # p => tape'[q] = tape[q] /\ played'[q] = played[q]
  BY <1>0, Zenon DEF TapesInStep, SetTape
<1>2. used' = used \ gone /\ recording' \in BOOLEAN
  BY Zenon DEF SetTape, Flags
<1>3. s \in Seq(InteractionsOf(p)) /\ DOMAIN s = 1..Len(s)
  <2>1. PICK m \in 0..2 : s \in [1..m -> InteractionsOf(p)]
    BY Zenon DEF Tapes
  <2>. QED  BY <2>1
<1>4. ASSUME NEW k \in 1..Len(s) PROVE s[k].id \notin used'
  BY <1>2, <1>3 DEF ToSet
<1>5. InStep(tape'[p], played'[p], used', InteractionsOf(p))
  BY <1>1, <1>4, SetInStep
<1>6. ASSUME NEW i \in ToSet(tape[p]) \cup ToSet(s) PROVE i \in InteractionsOf(p)
  <2>1. tape[p] \in Seq(InteractionsOf(p))
    BY <1>0, Zenon DEF TapesInStep, InStep
  <2>. QED  BY <1>3, <2>1 DEF ToSet
<1>7. ASSUME NEW q \in Protocols, q # p
      PROVE  InStep(tape'[q], played'[q], used', InteractionsOf(q))
  <2>1. ASSUME NEW k \in 1..Len(tape[q]) PROVE tape[q][k].id \notin gone
    <3>1. tape[q][k] \in InteractionsOf(q)
      BY <1>0, OnTape
    <3>. QED  BY <1>6, <1>7, <3>1, IdsOfOneProtocol
  <2>2. InStep(tape[q], played[q], used, InteractionsOf(q))
    BY <1>0, Zenon DEF TapesInStep
  <2>3. InStep(tape[q], played[q], used', InteractionsOf(q))
    BY <1>2, <2>1, <2>2, OtherInStep
  <2>. QED  BY <1>1, <1>7, <2>3
<1>8. TapesInStep'
  BY <1>1, <1>5, <1>7, Zenon DEF TapesInStep
<1>9. ASSUME NEW u \in used'
      PROVE  \E q \in Protocols : \E k \in 1..Len(tape'[q]) : tape'[q][k].id = u
  <2>1. u \in used /\ u \notin gone
    BY <1>2
  <2>2a. PICK q \in Protocols : \E k \in 1..Len(tape[q]) : tape[q][k].id = u
    BY <1>0, <2>1, Zenon DEF UsedOnTape
  <2>2. PICK k \in 1..Len(tape[q]) : tape[q][k].id = u
    BY <2>2a
  <2>3. q # p
    <3>1. SUFFICES ASSUME q = p PROVE FALSE
      OBVIOUS
    <3>2. tape[p] \in Seq(InteractionsOf(p))
      BY <1>0, Zenon DEF TapesInStep, InStep
    <3>3. tape[p][k] \in ToSet(tape[p])
      BY <2>2, <3>1, <3>2 DEF ToSet
    <3>. QED  BY <2>1, <2>2, <3>1, <3>3
  <2>. QED  BY <1>1, <2>2, <2>3
<1>10. UsedOnTape'
  BY <1>9, Zenon DEF UsedOnTape
<1>. QED  BY <1>2, <1>8, <1>10 DEF Flags

(* Inserting or appending puts interaction and flag at the same position.  *)
LEMMA InsertKeepsFlags ==
    ASSUME Flags, NEW p \in Protocols, NEW i \in InteractionsOf(p), NEW n,
           InsertInto(p, n, i)
    PROVE  Flags'
<1>. DEFINE u == IF recording THEN used \cup {i.id} ELSE used
<1>0. TapesInStep /\ UsedOnTape /\ recording \in BOOLEAN
  BY DEF Flags
<1>1. /\ DOMAIN tape' = Protocols /\ tape'[p] = InsertAt(tape[p], n, i)
      /\ DOMAIN played' = Protocols /\ played'[p] = InsertAt(played[p], n, recording)
      /\ \A q \in Protocols : q # p => tape'[q] = tape[q] /\ played'[q] = played[q]
  BY <1>0, Zenon DEF TapesInStep, InsertInto
<1>2. used' = u /\ recording' = recording
  BY Zenon DEF InsertInto
<1>3. /\ tape[p] \in Seq(InteractionsOf(p)) /\ InStep(tape[p], played[p], used, InteractionsOf(p))
      /\ n \in 1..(Len(tape[p]) + 1)
  BY <1>0, Zenon DEF TapesInStep, InStep, InsertInto
<1>4. \A k \in 1..Len(tape[p]) : tape[p][k].id # i.id
  BY <1>3 DEF InsertInto, Absent
<1>5. i.id \notin used
  <2>1. SUFFICES ASSUME i.id \in used PROVE FALSE
    OBVIOUS
  <2>2a. PICK q \in Protocols : \E k \in 1..Len(tape[q]) : tape[q][k].id = i.id
    BY <1>0, <2>1, Zenon DEF UsedOnTape
  <2>2. PICK k \in 1..Len(tape[q]) : tape[q][k].id = i.id
    BY <2>2a
  <2>3. q # p
    BY <1>4, <2>2
  <2>4. tape[q][k] \in InteractionsOf(q)
    BY <1>0, OnTape
  <2>. QED  BY <2>2, <2>3, <2>4, IdsOfOneProtocol
<1>6. InStep(tape'[p], played'[p], used', InteractionsOf(p))
  <2>. HIDE DEF u
  <2>1. InStep(InsertAt(tape[p], n, i), InsertAt(played[p], n, recording),
               IF recording THEN used \cup {i.id} ELSE used, InteractionsOf(p))
    BY <1>0, <1>3, <1>4, <1>5, InsertInStep
  <2>. QED  BY <1>1, <1>2, <2>1 DEF u
<1>7. ASSUME NEW q \in Protocols, q # p
      PROVE  InStep(tape'[q], played'[q], used', InteractionsOf(q))
  <2>1. ASSUME NEW k \in 1..Len(tape[q]) PROVE tape[q][k].id # i.id
    <3>1. tape[q][k] \in InteractionsOf(q)
      BY <1>0, OnTape
    <3>. QED  BY <1>7, <3>1, IdsOfOneProtocol
  <2>2. InStep(tape[q], played[q], used, InteractionsOf(q))
    BY <1>0, Zenon DEF TapesInStep
  <2>3. \A k \in 1..Len(tape[q]) : tape[q][k].id \in used <=> tape[q][k].id \in used'
    BY <1>2, <2>1, Zenon
  <2>4. InStep(tape[q], played[q], used', InteractionsOf(q))
    BY <2>2, <2>3, OtherInStep
  <2>. QED  BY <1>1, <1>7, <2>4
<1>8. TapesInStep'
  BY <1>1, <1>6, <1>7, Zenon DEF TapesInStep
<1>9. /\ \E j \in 1..Len(tape'[p]) : tape'[p][j] = i
      /\ \A k \in 1..Len(tape[p]) : \E j \in 1..Len(tape'[p]) : tape'[p][j] = tape[p][k]
  <2>1. PICK s : s = tape[p]
    OBVIOUS
  <2>2. s \in Seq(InteractionsOf(p)) /\ n \in 1..(Len(s) + 1) /\ i \in InteractionsOf(p)
    BY <1>3, <2>1
  <2>3. /\ \E j \in 1..Len(InsertAt(s, n, i)) : InsertAt(s, n, i)[j] = i
        /\ \A k \in 1..Len(s) :
             \E j \in 1..Len(InsertAt(s, n, i)) : InsertAt(s, n, i)[j] = s[k]
    BY <2>2, InsertKeepsElements
  <2>. QED  BY <1>1, <2>1, <2>3, ZenonT(30)
<1>10. ASSUME NEW x \in used'
       PROVE  \E q \in Protocols : \E k \in 1..Len(tape'[q]) : tape'[q][k].id = x
  <2>1. CASE x = i.id
    BY <1>9, <2>1, Zenon
  <2>2. CASE x # i.id
    <3>1. x \in used
      BY <1>2, <2>2, Zenon
    <3>2. PICK q \in Protocols : \E k \in 1..Len(tape[q]) : tape[q][k].id = x
      BY <1>0, <3>1, Zenon DEF UsedOnTape
    <3>3. PICK k \in 1..Len(tape[q]) : tape[q][k].id = x
      BY <3>2
    <3>4. PICK j \in 1..Len(tape'[q]) : tape'[q][j] = tape[q][k]
      <4>1. CASE q = p
        BY <1>9, <3>3, <4>1, Zenon
      <4>2. CASE q # p
        BY <1>1, <3>3, <4>2, Zenon
      <4>. QED  BY <4>1, <4>2
    <3>. QED  BY <3>3, <3>4, Zenon
  <2>. QED  BY <2>1, <2>2
<1>11. UsedOnTape'
  BY <1>10, Zenon DEF UsedOnTape
<1>. QED  BY <1>0, <1>2, <1>8, <1>11 DEF Flags

(* Marking sets the flag of the interaction it names.                      *)
LEMMA MarkKeepsFlags ==
    ASSUME Flags, NEW p \in Protocols, NEW n, Mark(p, n), UNCHANGED <<tape, recording>>
    PROVE  Flags'
<1>0. TapesInStep /\ UsedOnTape /\ recording' \in BOOLEAN /\ tape' = tape
  BY DEF Flags
<1>1. /\ DOMAIN played' = Protocols /\ played'[p] = [played[p] EXCEPT ![n] = TRUE]
      /\ \A q \in Protocols : q # p => played'[q] = played[q]
  BY <1>0, Zenon DEF TapesInStep, Mark
<1>2. used' = used \cup {tape[p][n].id}
  BY Zenon DEF Mark
<1>3. InStep(tape[p], played[p], used, InteractionsOf(p))
  BY <1>0, Zenon DEF TapesInStep
<1>4. n \in 1..Len(tape[p])
  <2>1. played[p] \in Seq(BOOLEAN) /\ Len(played[p]) = Len(tape[p]) /\ n \in DOMAIN played[p]
    BY <1>3, Zenon DEF InStep, Mark
  <2>. QED  BY <2>1
<1>5. InStep(tape'[p], played'[p], used', InteractionsOf(p))
  <2>1. InStep(tape[p], [played[p] EXCEPT ![n] = TRUE], used \cup {tape[p][n].id},
               InteractionsOf(p))
    BY <1>3, <1>4, MarkInStep
  <2>. QED  BY <1>0, <1>1, <1>2, <2>1, Zenon
<1>6. ASSUME NEW q \in Protocols, q # p
      PROVE  InStep(tape'[q], played'[q], used', InteractionsOf(q))
  <2>1. ASSUME NEW k \in 1..Len(tape[q]) PROVE tape[q][k].id # tape[p][n].id
    <3>1. tape[q][k] \in InteractionsOf(q) /\ tape[p][n] \in InteractionsOf(p)
      BY <1>0, <1>4, OnTape
    <3>. QED  BY <1>6, <3>1, IdsOfOneProtocol
  <2>2. InStep(tape[q], played[q], used, InteractionsOf(q))
    BY <1>0, Zenon DEF TapesInStep
  <2>3. \A k \in 1..Len(tape[q]) : tape[q][k].id \in used <=> tape[q][k].id \in used'
    BY <1>2, <2>1, Zenon
  <2>4. InStep(tape[q], played[q], used', InteractionsOf(q))
    BY <2>2, <2>3, OtherInStep
  <2>. QED  BY <1>0, <1>1, <1>6, <2>4
<1>7. TapesInStep'
  BY <1>0, <1>1, <1>5, <1>6, Zenon DEF TapesInStep
<1>8. UsedOnTape'
  BY <1>0, <1>2, <1>4, ZenonT(30) DEF UsedOnTape
<1>. QED  BY <1>0, <1>7, <1>8 DEF Flags

(* A lookup marks what it found and nothing else.                          *)
LEMMA AnsweredKeepsFlags ==
    ASSUME Flags, NEW p \in Protocols, NEW request, NEW match_on, NEW n,
           Answered(p, request, match_on, n)
    PROVE  Flags'
<1>1. CASE n = 0
  BY <1>1, Zenon DEF Answered, Flags, TapesInStep, UsedOnTape
<1>2. CASE n # 0
  BY <1>2, MarkKeepsFlags DEF Answered
<1>. QED  BY <1>1, <1>2

-----------------------------------------------------------------------------
(* The inductive invariant holds initially and every operation keeps it.   *)

(* A new or a loaded cassette satisfies the invariant.                     *)
LEMMA InitIInv == Init => IInv
<1>. SUFFICES ASSUME Init PROVE IInv
  OBVIOUS
<1>1. PICK loaded \in {<<>>} \cup {<<i>> : i \in Http} :
        tape = [p \in Protocols |-> IF p = "http" THEN loaded ELSE <<>>]
  BY Zenon DEF Init
<1>2. used = {} /\ index = NoIndex /\ recording \in BOOLEAN
      /\ played = [p \in Protocols |-> [k \in DOMAIN tape[p] |-> FALSE]]
  BY DEF Init
<1>3. ASSUME NEW p \in Protocols PROVE tape[p] \in Tapes(InteractionsOf(p))
  <2>1. tape[p] = <<>> \/ (p = "http" /\ \E i \in Http : tape[p] = <<i>>)
    BY <1>1
  <2>2. CASE tape[p] = <<>>
    <3>1. <<>> \in [1..0 -> InteractionsOf(p)]
      OBVIOUS
    <3>. QED  BY <2>2, <3>1 DEF Tapes
  <2>3. CASE p = "http" /\ \E i \in Http : tape[p] = <<i>>
    <3>1. PICK i \in Http : tape[p] = <<i>>
      BY <2>3
    <3>2. <<i>> \in [1..1 -> InteractionsOf(p)]
      BY <2>3 DEF InteractionsOf
    <3>. QED  BY <3>1, <3>2 DEF Tapes
  <2>. QED  BY <2>1, <2>2, <2>3
<1>4. ASSUME NEW p \in Protocols
      PROVE  InStep(tape[p], played[p], used, InteractionsOf(p))
  <2>1. played[p] = [k \in DOMAIN tape[p] |-> FALSE]
    BY <1>2, Zenon
  <2>2. InStep(tape[p], [k \in DOMAIN tape[p] |-> FALSE], {}, InteractionsOf(p))
    BY <1>3, SetInStep
  <2>. QED  BY <1>2, <2>1, <2>2, Zenon
<1>5. DOMAIN tape = Protocols /\ DOMAIN played = Protocols
  BY <1>1, <1>2, Zenon
<1>6. UsedOnTape
  BY <1>2 DEF UsedOnTape
<1>. QED  BY <1>2, <1>4, <1>5, <1>6, Zenon DEF IInv, TapesInStep, CacheFresh

(* An operation that leaves the HTTP interactions and the index alone      *)
(* leaves the index right.                                                 *)
LEMMA CacheKept ==
    ASSUME CacheFresh, UNCHANGED index, tape'.http = tape.http
    PROVE  CacheFresh'
  BY Zenon DEF CacheFresh

(* Every operation of the container keeps the invariant.                   *)
LEMMA NextIInv == IInv /\ [Next]_vars => IInv'
<1>. SUFFICES ASSUME IInv, [Next]_vars PROVE IInv'
  OBVIOUS
<1>. USE DEF InteractionsOf
<1>0. Flags /\ CacheFresh /\ DOMAIN tape = Protocols
  BY DEF IInv, Flags, TapesInStep
<1>1. SUFFICES Flags' /\ CacheFresh'
  BY Zenon DEF IInv, Flags
<1>2. "http" \in Protocols /\ "grpc" \in Protocols /\ "ws" \in Protocols
      /\ "grpc" # "http" /\ "ws" # "http"
  BY DEF Protocols
<1>3. ASSUME NEW b \in BOOLEAN, set_recording(b) PROVE Flags' /\ CacheFresh'
  BY <1>0, <1>3, Zenon DEF set_recording, Flags, TapesInStep, UsedOnTape, CacheFresh
<1>4. ASSUME NEW s \in Tapes(Http), set_interactions(s) PROVE Flags' /\ CacheFresh'
  <2>1. SetTape("http", s) /\ index' = NoIndex
    BY <1>4 DEF set_interactions
  <2>2. s \in Tapes(InteractionsOf("http"))
    OBVIOUS
  <2>. QED  BY <1>0, <1>2, <2>1, <2>2, SetTapeKeepsFlags, Zenon DEF CacheFresh
<1>5. ASSUME NEW i \in Http, add_interaction(i) PROVE Flags' /\ CacheFresh'
  <2>1. InsertInto("http", Len(tape.http) + 1, i) /\ index' = NoIndex
    BY <1>5 DEF add_interaction
  <2>. QED  BY <1>0, <1>2, <2>1, InsertKeepsFlags DEF CacheFresh
<1>6. ASSUME NEW i \in Http, NEW n \in 1..MaxLen, insert_interaction(n, i)
      PROVE  Flags' /\ CacheFresh'
  <2>1. InsertInto("http", n, i) /\ index' = NoIndex
    BY <1>6 DEF insert_interaction
  <2>. QED  BY <1>0, <1>2, <2>1, InsertKeepsFlags DEF CacheFresh
<1>7. ASSUME NEW n \in 1..MaxLen, mark_played(n) PROVE Flags' /\ CacheFresh'
  <2>1. Mark("http", n) /\ UNCHANGED <<tape, recording>> /\ UNCHANGED index
    BY <1>7 DEF mark_played
  <2>. QED  BY <1>0, <1>2, <2>1, MarkKeepsFlags, CacheKept
<1>8. ASSUME NEW r \in Requests, NEW m \in MatchConfigs, take_match(r, m)
      PROVE  Flags' /\ CacheFresh'
  <2>1. PICK n : Answered("http", r, m, n)
    BY <1>8 DEF take_match
  <2>2. Flags'
    BY <1>0, <1>2, <2>1, AnsweredKeepsFlags
  <2>3. tape' = tape
    BY <2>1 DEF Answered
  <2>4. index' \in {index, [built |-> TRUE, keys |-> build_index(tape.http)]}
    BY <1>8, Zenon DEF take_match
  <2>. QED  BY <1>0, <2>2, <2>3, <2>4, Zenon DEF CacheFresh
<1>9. ASSUME NEW s \in Tapes(Grpc), set_grpc_interactions(s) PROVE Flags' /\ CacheFresh'
  <2>1. SetTape("grpc", s) /\ UNCHANGED index
    BY <1>9 DEF set_grpc_interactions
  <2>2. s \in Tapes(InteractionsOf("grpc"))
    OBVIOUS
  <2>3. tape'.http = tape.http
    BY <1>0, <1>2, <2>1, Zenon DEF SetTape
  <2>. QED  BY <1>0, <1>2, <2>1, <2>2, <2>3, SetTapeKeepsFlags, CacheKept, Zenon
<1>10. ASSUME NEW i \in Grpc, NEW n, InsertInto("grpc", n, i), UNCHANGED index
       PROVE  Flags' /\ CacheFresh'
  <2>1. tape'.http = tape.http
    BY <1>0, <1>2, <1>10, Zenon DEF InsertInto
  <2>2. i \in InteractionsOf("grpc")
    OBVIOUS
  <2>3. Flags'
    BY <1>0, <1>2, <1>10, <2>2, InsertKeepsFlags
  <2>. QED  BY <1>0, <1>10, <2>1, <2>3, CacheKept, Zenon
<1>11. ASSUME NEW n \in 1..MaxLen, mark_grpc_played(n) PROVE Flags' /\ CacheFresh'
  <2>1. Mark("grpc", n) /\ UNCHANGED <<tape, recording>> /\ UNCHANGED index
    BY <1>11 DEF mark_grpc_played
  <2>. QED  BY <1>0, <1>2, <2>1, MarkKeepsFlags, CacheKept
<1>12. ASSUME NEW p \in Protocols, NEW r, NEW n, Answered(p, r, <<>>, n), UNCHANGED index
       PROVE  Flags' /\ CacheFresh'
  <2>1. Flags'
    BY <1>0, <1>12, AnsweredKeepsFlags
  <2>2. tape' = tape
    BY <1>12 DEF Answered
  <2>. QED  BY <1>0, <1>12, <2>1, <2>2, CacheKept
<1>13. ASSUME NEW s \in Tapes(Ws), set_ws_interactions(s) PROVE Flags' /\ CacheFresh'
  <2>1. SetTape("ws", s) /\ UNCHANGED index
    BY <1>13 DEF set_ws_interactions
  <2>2. s \in Tapes(InteractionsOf("ws"))
    OBVIOUS
  <2>3. tape'.http = tape.http
    BY <1>0, <1>2, <2>1, Zenon DEF SetTape
  <2>. QED  BY <1>0, <1>2, <2>1, <2>2, <2>3, SetTapeKeepsFlags, CacheKept, Zenon
<1>14. ASSUME NEW i \in Ws, add_ws_interaction(i) PROVE Flags' /\ CacheFresh'
  <2>1. InsertInto("ws", Len(tape.ws) + 1, i) /\ UNCHANGED index
    BY <1>14 DEF add_ws_interaction
  <2>2. tape'.http = tape.http
    BY <1>0, <1>2, <2>1, Zenon DEF InsertInto
  <2>3. i \in InteractionsOf("ws")
    OBVIOUS
  <2>4. Flags'
    BY <1>0, <1>2, <2>1, <2>3, InsertKeepsFlags
  <2>. QED  BY <1>0, <2>1, <2>2, <2>4, CacheKept, Zenon
<1>15. ASSUME NEW n \in 1..MaxLen, mark_ws_played(n) PROVE Flags' /\ CacheFresh'
  <2>1. Mark("ws", n) /\ UNCHANGED <<tape, recording>> /\ UNCHANGED index
    BY <1>15 DEF mark_ws_played
  <2>. QED  BY <1>0, <1>2, <2>1, MarkKeepsFlags, CacheKept
<1>16. ASSUME NEW o \in Orders, save(o) PROVE Flags' /\ CacheFresh'
  BY <1>0, <1>16, Zenon DEF save, Flags, TapesInStep, UsedOnTape, CacheFresh
<1>17. CASE UNCHANGED vars
  BY <1>0, <1>17, Zenon DEF vars, Flags, TapesInStep, UsedOnTape, CacheFresh
<1>18. ASSUME NEW i \in Grpc, add_grpc_interaction(i) PROVE Flags' /\ CacheFresh'
  BY <1>10, <1>18 DEF add_grpc_interaction
<1>19. ASSUME NEW i \in Grpc, NEW n \in 1..MaxLen, insert_grpc_interaction(n, i)
       PROVE  Flags' /\ CacheFresh'
  BY <1>10, <1>19 DEF insert_grpc_interaction
<1>20. ASSUME NEW i \in Grpc, take_grpc_match(i.req.method) PROVE Flags' /\ CacheFresh'
  BY <1>2, <1>12, <1>20 DEF take_grpc_match
<1>21. ASSUME NEW i \in Grpc, take_grpc_request_match(i.req) PROVE Flags' /\ CacheFresh'
  BY <1>2, <1>12, <1>21 DEF take_grpc_request_match
<1>22. ASSUME NEW i \in Ws, take_ws_match(i.req) PROVE Flags' /\ CacheFresh'
  BY <1>2, <1>12, <1>22 DEF take_ws_match
<1>. HIDE DEF InteractionsOf
<1>. QED
  BY <1>3, <1>4, <1>5, <1>6, <1>7, <1>8, <1>9, <1>11, <1>13, <1>14, <1>15, <1>16, <1>17,
     <1>18, <1>19, <1>20, <1>21, <1>22, Zenon DEF Next

-----------------------------------------------------------------------------
(* The theorems.                                                           *)

(* Every played flag of every protocol belongs to the interaction at its   *)
(* position, whatever was appended, inserted, replaced, marked and taken   *)
(* (Cassette's three vectors and their flags).                             *)
THEOREM ContainerPlayedFollowsInteraction == Spec => []PlayedFollowsInteraction
<1>1. IInv => PlayedFollowsInteraction
  <2>. SUFFICES ASSUME IInv, NEW p \in Protocols
                PROVE  /\ DOMAIN played[p] = DOMAIN tape[p]
                       /\ \A k \in DOMAIN tape[p] : played[p][k] <=> tape[p][k].id \in used
    BY Zenon DEF PlayedFollowsInteraction
  <2>1. InStep(tape[p], played[p], used, InteractionsOf(p))
    BY Zenon DEF IInv, TapesInStep
  <2>2. /\ tape[p] \in Seq(InteractionsOf(p)) /\ played[p] \in Seq(BOOLEAN)
        /\ Len(played[p]) = Len(tape[p])
    BY <2>1, Zenon DEF InStep
  <2>3. DOMAIN tape[p] = 1..Len(tape[p]) /\ DOMAIN played[p] = 1..Len(tape[p])
    BY <2>2
  <2>. QED  BY <2>1, <2>3, Zenon DEF InStep
<1>. QED  BY <1>1, InitIInv, NextIInv, PTL DEF Spec

(* Only take_match answers an HTTP request, and only save writes a file.   *)
LEMMA ResultOfStep ==
    ASSUME [Next]_vars
    PROVE  \/ UNCHANGED vars
           \/ result'.what \in {"nothing", "grpc", "ws"}
           \/ /\ result'.what = "http"
              /\ \E r \in Requests, m \in MatchConfigs : take_match(r, m)
           \/ result'.what = "file" /\ \E o \in Orders : save(o)
<1>1. ASSUME NEW p, NEW s, SetTape(p, s) PROVE result'.what = "nothing"
  BY <1>1 DEF SetTape, Nothing
<1>2. ASSUME NEW p, NEW n, NEW i, InsertInto(p, n, i) PROVE result'.what = "nothing"
  BY <1>2 DEF InsertInto, Nothing
<1>3. ASSUME NEW p, NEW r, NEW m, NEW n, Answered(p, r, m, n) PROVE result'.what = p
  BY <1>3 DEF Answered, Found
<1>4. ASSUME NEW n, mark_played(n) \/ mark_grpc_played(n) \/ mark_ws_played(n)
      PROVE  result'.what = "nothing"
  BY <1>4 DEF mark_played, mark_grpc_played, mark_ws_played, Nothing
<1>5. ASSUME NEW b, set_recording(b) PROVE result'.what = "nothing"
  BY <1>5 DEF set_recording, Nothing
<1>6. ASSUME NEW o, save(o) PROVE result'.what = "file"
  BY <1>6 DEF save, Wrote
<1>7. ASSUME NEW r, NEW m, take_match(r, m) PROVE result'.what = "http"
  BY <1>3, <1>7 DEF take_match
<1>8. ASSUME NEW s, \/ set_interactions(s)
                   \/ set_grpc_interactions(s)
                   \/ set_ws_interactions(s)
      PROVE  result'.what = "nothing"
  BY <1>1, <1>8, Zenon DEF set_interactions, set_grpc_interactions, set_ws_interactions
<1>9. ASSUME NEW i, NEW n, \/ add_interaction(i) \/ insert_interaction(n, i)
                          \/ add_grpc_interaction(i) \/ insert_grpc_interaction(n, i)
                          \/ add_ws_interaction(i)
      PROVE  result'.what = "nothing"
  BY <1>2, <1>9, Zenon DEF add_interaction, insert_interaction, add_grpc_interaction,
     insert_grpc_interaction, add_ws_interaction
<1>10. ASSUME NEW r, \/ take_grpc_match(r) \/ take_grpc_request_match(r) \/ take_ws_match(r)
       PROVE  result'.what \in {"grpc", "ws"}
  BY <1>3, <1>10, Zenon DEF take_grpc_match, take_grpc_request_match, take_ws_match
<1>. QED  BY <1>4, <1>5, <1>6, <1>7, <1>8, <1>9, <1>10, Zenon DEF Next

(* take_match answers what a scan of all interactions answers, whatever    *)
(* happened since its index was built.                                     *)
THEOREM ContainerTakeIgnoresCache == Spec => TakeIgnoresCache
<1>. DEFINE Step == result'.what = "http" =>
              result'.found = pick(Matching(result'.request, tape.http, result'.match_on),
                                   played.http, ~ recording)
<1>1. ASSUME IInv, NEW r \in Requests, NEW m \in MatchConfigs, take_match(r, m)
      PROVE  Step
  <2>. DEFINE all == Matching(r, tape.http, m)
              n == find_match_index_in(r, tape.http, played.http, m, index'.keys, ~ recording)
  <2>1. result' = Found("http", r, m, n)
    BY <1>1 DEF take_match, Answered
  <2>2. n = pick(all, played.http, ~ recording)
    <3>1. CASE ~ uses_method_uri_index(m)
      BY <3>1 DEF find_match_index_in
    <3>2. CASE uses_method_uri_index(m)
      <4>1. index'.keys = build_index(tape.http)
        <5>1. CASE index.built
          <6>1. index' = index
            BY <1>1, <5>1, Zenon DEF take_match
          <6>. QED  BY <1>1, <5>1, <6>1 DEF IInv, CacheFresh, NoIndex
        <5>2. CASE ~ index.built
          BY <1>1, <3>2, <5>2 DEF take_match
        <5>. QED  BY <5>1, <5>2
      <4>2. ASSUME NEW k \in all PROVE k \in lookup(index'.keys, r)
        <5>1. k \in DOMAIN tape.http /\ matches_all(r, tape.http[k].req, m)
          BY <4>2 DEF Matching
        <5>2. match_method(r, tape.http[k].req) /\ match_uri(r, tape.http[k].req)
          BY <3>2, <5>1 DEF uses_method_uri_index, matches_all, matches
        <5>3. tape.http[k] \in Http
          <6>1. tape.http \in Seq(Http)
            BY <1>1 DEF IInv, TapesInStep, InStep, Protocols, InteractionsOf
          <6>. QED  BY <5>1, <6>1
        <5>4. r.method \in Methods /\ tape.http[k].req.method \in Methods
          BY <5>3, ContainerAssumption
        <5>5. index_key(r) = index_key(tape.http[k].req)
          BY <5>2, <5>4, FoldAssumption DEF index_key, match_method, match_uri
        <5>. QED  BY <4>1, <5>1, <5>5, Zenon DEF lookup, build_index
      <4>3. lookup(index'.keys, r) \cap all = all
        BY <4>2, Zenon
      <4>. QED  BY <3>2, <4>3 DEF find_match_index_in
    <3>. QED  BY <3>1, <3>2
  <2>. HIDE DEF n
  <2>. QED  BY <2>1, <2>2 DEF Found
<1>2. ASSUME IInv, [Next]_vars PROVE Step \/ UNCHANGED vars
  <2>1. \/ UNCHANGED vars
        \/ \E r \in Requests, m \in MatchConfigs : take_match(r, m)
        \/ result'.what \in {"nothing", "grpc", "ws", "file"}
    BY <1>2, ResultOfStep
  <2>. QED  BY <1>1, <1>2, <2>1
<1>3. Spec => []IInv
  BY InitIInv, NextIInv, PTL DEF Spec
<1>4. IInv /\ [Next]_vars => [Step]_vars
  BY <1>2
<1>. QED  BY <1>3, <1>4, PTL DEF Spec, TakeIgnoresCache

-----------------------------------------------------------------------------
(* The loops of a save.                                                    *)

(* Induction, as a fact about a set of numbers.                            *)
LEMMA Climb ==
    ASSUME NEW T, 0 \in T, \A n \in Nat : n \in T => n + 1 \in T
    PROVE  Nat \subseteq T
<1>. DEFINE Missed == Nat \ T
<1>1. SUFFICES ASSUME Missed # {} PROVE FALSE
  BY <1>1
<1>2. PICK least \in Missed : \A y \in Missed : ~ (<<y, least>> \in OpToRel(<, Nat))
  <2>1. Missed \subseteq Nat
    OBVIOUS
  <2>. HIDE DEF Missed
  <2>. QED  BY <1>1, <2>1, NatLessThanWellFounded, WFMin
<1>3. least \in Nat /\ least # 0
  OBVIOUS
<1>4. least - 1 \in T
  <2>1. least - 1 \in Nat /\ least - 1 < least
    BY <1>3
  <2>. QED  BY <1>2, <2>1 DEF OpToRel
<1>5. (least - 1) + 1 \in T
  BY <1>3, <1>4
<1>. QED  BY <1>3, <1>5

Unmarked == [refused |-> FALSE, written |-> {}]

(* f holds the marks after each of the first n turns of validate.          *)
Marks(o, c, f, n) ==
    f = [k \in 0..n |-> IF k = 0 THEN Unmarked ELSE Marked(f[k - 1], o[k], c)]

LEMMA MarksExist ==
    ASSUME NEW o, NEW c, NEW m \in Nat
    PROVE  \E f : Marks(o, c, f, m)
<1>. DEFINE T == {n \in Nat : \E f : Marks(o, c, f, n)}
<1>1. 0 \in T
  <2>1. Marks(o, c, [k \in 0..0 |-> Unmarked], 0)
    BY DEF Marks
  <2>. QED  BY <2>1
<1>2. ASSUME NEW n \in Nat, n \in T PROVE n + 1 \in T
  <2>1. PICK f : Marks(o, c, f, n)
    BY <1>2
  <2>. DEFINE g == [k \in 0..(n + 1) |-> IF k <= n THEN f[k] ELSE Marked(f[n], o[n + 1], c)]
  <2>2. \A k \in 0..n : f[k] = IF k = 0 THEN Unmarked ELSE Marked(f[k - 1], o[k], c)
    BY <2>1 DEF Marks
  <2>3. ASSUME NEW k \in 0..(n + 1)
        PROVE  g[k] = IF k = 0 THEN Unmarked ELSE Marked(g[k - 1], o[k], c)
    <3>1. CASE k = 0
      BY <2>2, <3>1
    <3>2. CASE k \in 1..n
      <4>1. k \in 0..n /\ k - 1 \in 0..n /\ k # 0
        BY <3>2
      <4>2. g[k] = f[k] /\ g[k - 1] = f[k - 1]
        BY <4>1
      <4>. QED  BY <2>2, <4>1, <4>2
    <3>3. CASE k = n + 1
      <4>1. k # 0 /\ k - 1 = n /\ ~ (k <= n) /\ n \in 0..(n + 1)
        BY <3>3
      <4>2. g[k] = Marked(f[n], o[n + 1], c) /\ g[n] = f[n]
        BY <4>1
      <4>. QED  BY <3>3, <4>1, <4>2
    <3>. QED  BY <3>1, <3>2, <3>3
  <2>4. g = [k \in 0..(n + 1) |-> g[k]]
    OBVIOUS
  <2>. HIDE DEF g
  <2>5. Marks(o, c, g, n + 1)
    BY <2>3, <2>4 DEF Marks
  <2>. QED  BY <2>5
<1>3. Nat \subseteq T
  <2>. HIDE DEF T
  <2>. QED  BY <1>1, <1>2, Climb
<1>. QED  BY <1>3

(* The first k indexes are in range and no two of them are the same.       *)
DistinctUpTo(o, c, k) ==
    /\ \A a \in 1..k : o[a] \in 1..c
    /\ \A a, b \in 1..k : o[a] = o[b] => a = b

(* validate accepts exactly the orders that write each interaction once.   *)
THEOREM ValidateIsEachOnce ==
    ASSUME NEW o \in Seq(Nat), NEW c \in Nat
    PROVE  validate(o, c) <=> EachOnce(o, c)
<1>1. Len(o) \in Nat /\ \A k \in 1..Len(o) : o[k] \in Nat
  OBVIOUS
<1>. DEFINE G(h) == h = [k \in 0..Len(o) |-> IF k = 0 THEN [refused |-> FALSE, written |-> {}]
                                             ELSE Marked(h[k - 1], o[k], c)]
            f == CHOOSE h : G(h)
<1>2. G(f)
  <2>1. \E h : Marks(o, c, h, Len(o))
    BY <1>1, MarksExist
  <2>2. \E h : G(h)
    BY <2>1 DEF Marks, Unmarked
  <2>. HIDE DEF G
  <2>. QED  BY <2>2
<1>3. validate(o, c) <=> (~ f[Len(o)].refused /\ Len(o) = c)
  BY DEF validate
<1>. HIDE DEF f
<1>4. /\ f[0] = [refused |-> FALSE, written |-> {}]
      /\ \A k \in 1..Len(o) : f[k] = Marked(f[k - 1], o[k], c)
  <2>1. \A k \in 0..Len(o) : f[k] = IF k = 0 THEN [refused |-> FALSE, written |-> {}]
                                    ELSE Marked(f[k - 1], o[k], c)
    BY <1>2
  <2>2. f[0] = [refused |-> FALSE, written |-> {}]
    BY <1>1, <2>1
  <2>3. ASSUME NEW k \in 1..Len(o) PROVE f[k] = Marked(f[k - 1], o[k], c)
    <3>1. k \in 0..Len(o) /\ k # 0
      BY <1>1
    <3>. QED  BY <2>1, <3>1
  <2>. QED  BY <2>2, <2>3
<1>. DEFINE Good(k) == /\ f[k] \in [refused : BOOLEAN, written : SUBSET Nat]
                       /\ f[k].refused <=> ~ DistinctUpTo(o, c, k)
                       /\ ~ f[k].refused => f[k].written = {o[a] : a \in 1..k}
            T == {k \in Nat : k <= Len(o) => Good(k)}
<1>5. 0 \in T
  <2>1. DistinctUpTo(o, c, 0) /\ {o[a] : a \in 1..0} = {}
    BY DEF DistinctUpTo
  <2>2. f[0].refused = FALSE /\ f[0].written = {}
          /\ f[0] \in [refused : BOOLEAN, written : SUBSET Nat]
    BY <1>4
  <2>3. Good(0)
    BY <2>1, <2>2
  <2>. QED  BY <2>3
<1>6. ASSUME NEW k \in Nat, k \in T PROVE k + 1 \in T
  <2>1. SUFFICES ASSUME k + 1 <= Len(o) PROVE Good(k + 1)
    OBVIOUS
  <2>2. k + 1 \in 1..Len(o) /\ (k + 1) - 1 = k /\ o[k + 1] \in Nat
    BY <1>1, <2>1
  <2>3. Good(k)
    BY <1>1, <1>6, <2>1
  <2>4. f[k + 1] = Marked(f[k], o[k + 1], c)
    BY <1>4, <2>2
  <2>5. DistinctUpTo(o, c, k + 1) <=>
          /\ DistinctUpTo(o, c, k)
          /\ o[k + 1] \in 1..c
          /\ o[k + 1] \notin {o[a] : a \in 1..k}
    <3>1. 1..(k + 1) = (1..k) \cup {k + 1} /\ k + 1 \notin 1..k
      OBVIOUS
    <3>. QED  BY <3>1 DEF DistinctUpTo
  <2>6. CASE f[k].refused \/ o[k + 1] \notin 1..c \/ o[k + 1] \in f[k].written
    <3>1. f[k + 1] = [f[k] EXCEPT !.refused = TRUE]
      BY <2>4, <2>6 DEF Marked
    <3>2. f[k + 1] \in [refused : BOOLEAN, written : SUBSET Nat] /\ f[k + 1].refused
      BY <2>3, <3>1
    <3>3. ~ DistinctUpTo(o, c, k + 1)
      BY <2>3, <2>5, <2>6
    <3>. QED  BY <3>2, <3>3
  <2>7. CASE ~ (f[k].refused \/ o[k + 1] \notin 1..c \/ o[k + 1] \in f[k].written)
    <3>1. f[k + 1] = [f[k] EXCEPT !.written = @ \cup {o[k + 1]}]
      BY <2>4, <2>7 DEF Marked
    <3>2. /\ f[k + 1] \in [refused : BOOLEAN, written : SUBSET Nat]
          /\ ~ f[k + 1].refused
          /\ f[k + 1].written = f[k].written \cup {o[k + 1]}
      BY <2>2, <2>3, <2>7, <3>1
    <3>3. DistinctUpTo(o, c, k + 1)
      BY <2>3, <2>5, <2>7
    <3>4. {o[a] : a \in 1..(k + 1)} = {o[a] : a \in 1..k} \cup {o[k + 1]}
      <4>1. 1..(k + 1) = (1..k) \cup {k + 1}
        OBVIOUS
      <4>. QED  BY <4>1
    <3>. QED  BY <2>3, <2>7, <3>2, <3>3, <3>4
  <2>. QED  BY <2>6, <2>7
<1>7. Nat \subseteq T
  <2>. HIDE DEF T
  <2>. QED  BY <1>5, <1>6, Climb
<1>8. f[Len(o)].refused <=> ~ DistinctUpTo(o, c, Len(o))
  BY <1>1, <1>7
<1>9. (DistinctUpTo(o, c, Len(o)) /\ Len(o) = c) <=> EachOnce(o, c)
  <2>1. o \in [1..Len(o) -> Nat] /\ DOMAIN o = 1..Len(o)
    OBVIOUS
  <2>2. ASSUME DistinctUpTo(o, c, Len(o)), Len(o) = c PROVE EachOnce(o, c)
    BY <2>1, <2>2 DEF DistinctUpTo, EachOnce
  <2>3. ASSUME EachOnce(o, c) PROVE DistinctUpTo(o, c, Len(o)) /\ Len(o) = c
    <3>1. DOMAIN o = 1..c
      BY <2>3 DEF EachOnce
    <3>2. Len(o) = c
      <4>1. 1..Len(o) = 1..c
        BY <2>1, <3>1
      <4>2. Len(o) <= c
        <5>1. Len(o) = 0 \/ Len(o) \in 1..c
          BY <1>1, <4>1
        <5>. QED  BY <1>1, <5>1
      <4>3. c <= Len(o)
        <5>1. c = 0 \/ c \in 1..Len(o)
          BY <1>1, <4>1
        <5>. QED  BY <1>1, <5>1
      <4>. QED  BY <1>1, <4>2, <4>3
    <3>. QED  BY <2>3, <3>2 DEF DistinctUpTo, EachOnce
  <2>. QED  BY <2>2, <2>3
<1>. QED  BY <1>3, <1>8, <1>9

(* f holds what to_raw has written after each of the first n indexes.      *)
Writes(s, o, f, n) ==
    f = [k \in 0..n |-> IF k = 0 THEN <<>>
                        ELSE IF o[k] \in DOMAIN s THEN Append(f[k - 1], s[o[k]])
                        ELSE f[k - 1]]

LEMMA WritesExist ==
    ASSUME NEW s, NEW o, NEW m \in Nat
    PROVE  \E f : Writes(s, o, f, m)
<1>. DEFINE More(x, k) == IF o[k] \in DOMAIN s THEN Append(x, s[o[k]]) ELSE x
            T == {n \in Nat : \E f : Writes(s, o, f, n)}
<1>1. 0 \in T
  <2>1. Writes(s, o, [k \in 0..0 |-> <<>>], 0)
    BY DEF Writes
  <2>. QED  BY <2>1
<1>2. ASSUME NEW n \in Nat, n \in T PROVE n + 1 \in T
  <2>1. PICK f : Writes(s, o, f, n)
    BY <1>2
  <2>2. \A k \in 0..n : f[k] = IF k = 0 THEN <<>> ELSE More(f[k - 1], k)
    BY <2>1 DEF Writes
  <2>. HIDE DEF More
  <2>. DEFINE g == [k \in 0..(n + 1) |-> IF k <= n THEN f[k] ELSE More(f[n], n + 1)]
  <2>3. ASSUME NEW k \in 0..(n + 1)
        PROVE  g[k] = IF k = 0 THEN <<>> ELSE More(g[k - 1], k)
    <3>1. CASE k = 0
      BY <2>2, <3>1
    <3>2. CASE k \in 1..n
      <4>1. k \in 0..n /\ k - 1 \in 0..n /\ k # 0
        BY <3>2
      <4>2. g[k] = f[k] /\ g[k - 1] = f[k - 1]
        BY <4>1
      <4>. QED  BY <2>2, <4>1, <4>2
    <3>3. CASE k = n + 1
      <4>1. k # 0 /\ k - 1 = n /\ ~ (k <= n) /\ n \in 0..(n + 1)
        BY <3>3
      <4>2. g[k] = More(f[n], n + 1) /\ g[n] = f[n]
        BY <4>1
      <4>. QED  BY <3>3, <4>1, <4>2
    <3>. QED  BY <3>1, <3>2, <3>3
  <2>4. g = [k \in 0..(n + 1) |-> g[k]]
    OBVIOUS
  <2>. HIDE DEF g
  <2>5. g = [k \in 0..(n + 1) |-> IF k = 0 THEN <<>> ELSE More(g[k - 1], k)]
    BY <2>3, <2>4
  <2>6. Writes(s, o, g, n + 1)
    BY <2>5 DEF Writes, More
  <2>. QED  BY <2>6
<1>3. Nat \subseteq T
  <2>. HIDE DEF T
  <2>. QED  BY <1>1, <1>2, Climb
<1>. QED  BY <1>3

(* An order that resolves is written index by index.                       *)
LEMMA ToRawIsArranged ==
    ASSUME NEW S, NEW s \in Seq(S), NEW n \in Nat, NEW o \in [1..n -> 1..Len(s)]
    PROVE  to_raw(s, o) = Arranged(s, o)
<1>1. Len(o) = n /\ DOMAIN o = 1..n /\ DOMAIN s = 1..Len(s)
  OBVIOUS
<1>. DEFINE G(h) == h = [k \in 0..Len(o) |->
                           IF k = 0 THEN <<>>
                           ELSE IF o[k] \in DOMAIN s THEN Append(h[k - 1], s[o[k]])
                           ELSE h[k - 1]]
            f == CHOOSE h : G(h)
<1>2. G(f)
  <2>1. \E h : Writes(s, o, h, Len(o))
    BY <1>1, WritesExist
  <2>2. \E h : G(h)
    BY <2>1 DEF Writes
  <2>. HIDE DEF G
  <2>. QED  BY <2>2
<1>3. to_raw(s, o) = f[Len(o)]
  BY DEF to_raw
<1>. HIDE DEF f
<1>4. f[0] = <<>> /\ \A k \in 1..n : f[k] = Append(f[k - 1], s[o[k]])
  <2>1. \A k \in 0..n : f[k] = IF k = 0 THEN <<>>
                               ELSE IF o[k] \in DOMAIN s THEN Append(f[k - 1], s[o[k]])
                               ELSE f[k - 1]
    BY <1>1, <1>2
  <2>2. f[0] = <<>>
    BY <2>1
  <2>3. ASSUME NEW k \in 1..n PROVE f[k] = Append(f[k - 1], s[o[k]])
    <3>1. k \in 0..n /\ k # 0 /\ o[k] \in DOMAIN s
      BY <1>1
    <3>. QED  BY <2>1, <3>1
  <2>. QED  BY <2>2, <2>3
<1>. DEFINE T == {k \in Nat : k <= n => f[k] = [j \in 1..k |-> s[o[j]]]}
<1>5. 0 \in T
  BY <1>4
<1>6. ASSUME NEW k \in Nat, k \in T PROVE k + 1 \in T
  <2>1. SUFFICES ASSUME k + 1 <= n PROVE f[k + 1] = [j \in 1..(k + 1) |-> s[o[j]]]
    OBVIOUS
  <2>2. k + 1 \in 1..n /\ (k + 1) - 1 = k
    BY <2>1
  <2>3. f[k + 1] = Append(f[k], s[o[k + 1]])
    BY <1>4, <2>2
  <2>4. f[k] = [j \in 1..k |-> s[o[j]]]
    BY <1>6, <2>1
  <2>5. \A j \in 1..(k + 1) : s[o[j]] \in S
    BY <1>1, <2>1
  <2>. DEFINE x == [j \in 1..k |-> s[o[j]]]
              e == s[o[k + 1]]
  <2>6. x \in Seq(S) /\ Len(x) = k /\ e \in S /\ \A j \in 1..k : x[j] = s[o[j]]
    BY <2>5
  <2>7. f[k + 1] = Append(x, e)
    BY <2>3, <2>4
  <2>8. e = s[o[k + 1]]
    OBVIOUS
  <2>. HIDE DEF x, e
  <2>9. Append(x, e) = [j \in 1..(k + 1) |-> IF j <= k THEN x[j] ELSE e]
    <3>1. /\ Append(x, e) \in Seq(S) /\ Len(Append(x, e)) = k + 1
          /\ \A j \in 1..k : Append(x, e)[j] = x[j]
          /\ Append(x, e)[k + 1] = e
      BY <2>6
    <3>2. Append(x, e) \in [1..(k + 1) -> S]
      <4>. DEFINE y == Append(x, e)
      <4>1. y \in Seq(S) /\ Len(y) = k + 1
        BY <3>1
      <4>. HIDE DEF y
      <4>2. y \in [1..Len(y) -> S]
        BY <4>1
      <4>3. y \in [1..(k + 1) -> S]
        BY <4>1, <4>2
      <4>. QED  BY <4>3 DEF y
    <3>3. \A j \in 1..(k + 1) : j <= k \/ j = k + 1
      OBVIOUS
    <3>4. ASSUME NEW j \in 1..(k + 1)
          PROVE  Append(x, e)[j] = IF j <= k THEN x[j] ELSE e
      <4>1. CASE j <= k
        BY <3>1, <4>1
      <4>2. CASE j = k + 1
        BY <3>1, <4>2
      <4>. QED  BY <3>3, <4>1, <4>2
    <3>. QED  BY <3>2, <3>4
  <2>10. ASSUME NEW j \in 1..(k + 1) PROVE (IF j <= k THEN x[j] ELSE e) = s[o[j]]
    BY <2>6, <2>8
  <2>. QED  BY <2>7, <2>9, <2>10
<1>7. Nat \subseteq T
  <2>. HIDE DEF T
  <2>. QED  BY <1>5, <1>6, Climb
<1>8. f[n] = [j \in 1..n |-> s[o[j]]]
  BY <1>7
<1>. QED  BY <1>1, <1>3, <1>8 DEF Arranged

(* A tape written in an order that has each index once is rearranged.      *)
LEMMA ArrangedHoldsAll ==
    ASSUME NEW S, NEW s \in Seq(S), NEW o, EachOnce(o, Len(s))
    PROVE  Len(Arranged(s, o)) = Len(s) /\ ToSet(Arranged(s, o)) = ToSet(s)
<1>. DEFINE w == Arranged(s, o)
<1>1. Len(s) \in Nat /\ DOMAIN s = 1..Len(s) /\ o \in [1..Len(s) -> 1..Len(s)]
  BY DEF EachOnce
<1>2. w \in [1..Len(s) -> S]
  BY <1>1 DEF Arranged
<1>3. Len(w) = Len(s) /\ DOMAIN w = 1..Len(s)
  BY <1>1, <1>2
<1>4. \A k \in 1..Len(s) : w[k] = s[o[k]]
  BY <1>1, Zenon DEF Arranged
<1>. HIDE DEF w
<1>5. ASSUME NEW x \in ToSet(s) PROVE x \in ToSet(w)
  <2>1. PICK i \in 1..Len(s) : s[i] = x
    BY <1>1, Zenon DEF ToSet
  <2>2. PICK a \in 1..Len(s) : o[a] = i
    <3>1. PICK n \in Nat : n = Len(s)
      BY <1>1
    <3>2. EachOnce(o, n) /\ i \in 1..n
      BY <3>1
    <3>3. \E a \in 1..n : o[a] = i
      <4>1. o \in [1..n -> 1..n] /\ \A c, d \in 1..n : o[c] = o[d] => c = d
        BY <3>2 DEF EachOnce
      <4>. QED  BY <3>2, <4>1, InjectionIsOnto
    <3>. QED  BY <3>1, <3>3
  <2>. QED  BY <1>3, <1>4, <2>1, <2>2, Zenon DEF ToSet
<1>6. ASSUME NEW x \in ToSet(w) PROVE x \in ToSet(s)
  <2>1. PICK k \in 1..Len(s) : w[k] = x
    BY <1>3, <1>6, Zenon DEF ToSet
  <2>2. o[k] \in 1..Len(s)
    BY <1>1
  <2>. QED  BY <1>1, <1>4, <2>1, <2>2, Zenon DEF ToSet
<1>7. Len(w) = Len(s) /\ ToSet(w) = ToSet(s)
  BY <1>3, <1>5, <1>6, Zenon
<1>. QED  BY <1>7 DEF w

(* A save writes every interaction once, whatever order the caller gave.   *)
THEOREM ContainerFileHoldsAll == Spec => FileHoldsAll
<1>. DEFINE Step == result'.what = "file" =>
              /\ Len(result'.interactions) = Len(tape.http)
              /\ ToSet(result'.interactions) = ToSet(tape.http)
<1>1. ASSUME IInv, NEW o \in Orders, save(o) PROVE Step
  <2>1. result'.interactions = to_raw(tape.http, o) /\ validate(o, Len(tape.http))
    BY <1>1 DEF save, Wrote
  <2>2. tape.http \in Seq(Http)
    BY <1>1 DEF IInv, TapesInStep, InStep, Protocols, InteractionsOf
  <2>4. o \in Seq(Nat)
    BY ContainerAssumption DEF Orders
  <2>5. Len(tape.http) \in Nat
    BY <2>2
  <2>6. EachOnce(o, Len(tape.http))
    BY <2>1, <2>4, <2>5, ValidateIsEachOnce
  <2>7. o \in [1..Len(tape.http) -> 1..Len(tape.http)]
    BY <2>6 DEF EachOnce
  <2>8. to_raw(tape.http, o) = Arranged(tape.http, o)
    BY <2>2, <2>5, <2>7, ToRawIsArranged
  <2>3. /\ Len(Arranged(tape.http, o)) = Len(tape.http)
        /\ ToSet(Arranged(tape.http, o)) = ToSet(tape.http)
    BY <2>2, <2>6, ArrangedHoldsAll
  <2>. QED  BY <2>1, <2>3, <2>8, Zenon
<1>2. ASSUME IInv, [Next]_vars PROVE Step \/ UNCHANGED vars
  <2>1. \/ UNCHANGED vars
        \/ \E o \in Orders : save(o)
        \/ result'.what \in {"nothing", "http", "grpc", "ws"}
    BY <1>2, ResultOfStep
  <2>. QED  BY <1>1, <1>2, <2>1
<1>3. Spec => []IInv
  BY InitIInv, NextIInv, PTL DEF Spec
<1>4. IInv /\ [Next]_vars => [Step]_vars
  BY <1>2
<1>. QED  BY <1>3, <1>4, PTL DEF Spec, FileHoldsAll
=============================================================================

--------------------------- MODULE RecorderProofs ----------------------------
(***************************************************************************)
(* The Recorder keeps its promises for any number of concurrent calls and  *)
(* finish calls, any requests and any cassette on disk.                    *)
(***************************************************************************)
EXTENDS Recorder, FiniteSetTheorems, WellFoundedInduction, TLAPS

-----------------------------------------------------------------------------
(* Facts about numbers and sequences.                                      *)

(* A non-empty set of naturals has a least element, and Min returns it.    *)
LEMMA MinIsLeast ==
    ASSUME NEW T, T \subseteq Nat, T # {}
    PROVE  /\ Min(T) \in T
           /\ \A y \in T : Min(T) <= y
<1>1. \E x \in T : \A y \in T : ~ (<<y, x>> \in OpToRel(<, Nat))
  BY NatLessThanWellFounded, WFMin
<1>2. \E x \in T : \A y \in T : x <= y
  <2>1. PICK x \in T : \A y \in T : ~ (<<y, x>> \in OpToRel(<, Nat))
    BY <1>1
  <2>2. ASSUME NEW y \in T PROVE x <= y
    <3>1. ~ (y < x)
      BY <2>1 DEF OpToRel
    <3>. QED  BY <3>1
  <2>. QED  BY <2>2
<1>. QED  BY <1>2 DEF Min

(* An injection of 1..n into itself reaches every number.                  *)
LEMMA InjectionIsOnto ==
    ASSUME NEW n \in Nat, NEW f \in [1..n -> 1..n],
           \A a, b \in 1..n : f[a] = f[b] => a = b, NEW i \in 1..n
    PROVE  \E a \in 1..n : f[a] = i
<1>1. f \in Injection(1..n, 1..n)
  BY DEF Injection, IsInjective
<1>2. IsFiniteSet(1..n)
  BY FS_Interval
<1>3. f \in Surjection(1..n, 1..n)
  BY <1>1, <1>2, FS_Injection
<1>. QED  BY <1>3 DEF Surjection

(* What InsertAt returns.                                                  *)
LEMMA InsertAtFacts ==
    ASSUME NEW S, NEW s \in Seq(S), NEW k \in 1..(Len(s) + 1), NEW e \in S
    PROVE  /\ InsertAt(s, k, e) \in Seq(S)
           /\ Len(InsertAt(s, k, e)) = Len(s) + 1
           /\ \A j \in 1..(Len(s) + 1) :
                InsertAt(s, k, e)[j] = IF j < k THEN s[j]
                                       ELSE IF j = k THEN e ELSE s[j - 1]
<1>. DEFINE a == SubSeq(s, 1, k - 1)
            b == SubSeq(s, k, Len(s))
<1>1. a \in Seq(S) /\ Len(a) = k - 1 /\ \A j \in 1..(k - 1) : a[j] = s[j]
  OBVIOUS
<1>2. b \in Seq(S) /\ Len(b) = Len(s) - k + 1
        /\ \A j \in 1..(Len(s) - k + 1) : b[j] = s[k + j - 1]
  OBVIOUS
<1>3. InsertAt(s, k, e) = (a \o <<e>>) \o b
  BY DEF InsertAt
<1>. HIDE DEF a, b
<1>4. (a \o <<e>>) \in Seq(S) /\ Len(a \o <<e>>) = k
        /\ \A j \in 1..k : (a \o <<e>>)[j] = IF j < k THEN a[j] ELSE e
  BY <1>1
<1>. DEFINE c == a \o <<e>>
<1>. HIDE DEF c
<1>5. c \in Seq(S) /\ Len(c) = k
        /\ \A j \in 1..k : c[j] = IF j < k THEN a[j] ELSE e
  BY <1>4 DEF c
<1>6. (c \o b) \in Seq(S) /\ Len(c \o b) = Len(s) + 1
        /\ \A j \in 1..(Len(s) + 1) : (c \o b)[j] = IF j <= k THEN c[j] ELSE b[j - k]
  <2>1. c \in Seq(S) /\ b \in Seq(S) /\ Len(c) = k /\ Len(b) = Len(s) - k + 1
    BY <1>2, <1>5
  <2>2. (c \o b) \in Seq(S) /\ Len(c \o b) = Len(c) + Len(b)
    BY <2>1
  <2>3. \A j \in 1..(Len(c) + Len(b)) :
           (c \o b)[j] = IF j <= Len(c) THEN c[j] ELSE b[j - Len(c)]
    BY <2>1
  <2>4. Len(c) + Len(b) = Len(s) + 1
    BY <2>1
  <2>. QED  BY <2>1, <2>2, <2>3, <2>4
<1>7. InsertAt(s, k, e) = c \o b
  BY <1>3 DEF c
<1>8. ASSUME NEW j \in 1..(Len(s) + 1)
      PROVE  (c \o b)[j] = IF j < k THEN s[j] ELSE IF j = k THEN e ELSE s[j - 1]
  <2>1. CASE j < k
    BY <1>1, <1>5, <1>6, <2>1
  <2>2. CASE j = k
    BY <1>5, <1>6, <2>2
  <2>3. CASE j > k
    <3>1. (j - k) \in 1..(Len(s) - k + 1) /\ k + (j - k) - 1 = j - 1
      BY <2>3
    <3>2. (c \o b)[j] = b[j - k]
      BY <1>6, <2>3
    <3>3. b[j - k] = s[k + (j - k) - 1]
      BY <1>2, <3>1
    <3>4. (c \o b)[j] = s[j - 1]
      BY <3>1, <3>2, <3>3
    <3>5. ~ (j < k) /\ j # k
      BY <2>3
    <3>. QED  BY <3>4, <3>5
  <2>4. j < k \/ j = k \/ j > k
    OBVIOUS
  <2>. QED  BY <2>1, <2>2, <2>3, <2>4, Zenon
<1>. DEFINE d == c \o b
<1>9. /\ d \in Seq(S) /\ Len(d) = Len(s) + 1
      /\ \A j \in 1..(Len(s) + 1) :
           d[j] = IF j < k THEN s[j] ELSE IF j = k THEN e ELSE s[j - 1]
  BY <1>6, <1>8
<1>10. InsertAt(s, k, e) = d
  BY <1>7
<1>. HIDE DEF d
<1>. QED  BY <1>9, <1>10

(* What is in a sequence is in its set.                                    *)
LEMMA SeqElement ==
    ASSUME NEW S, NEW s \in Seq(S), NEW i \in DOMAIN s
    PROVE  s[i] \in S
  OBVIOUS

(* Assigning to an element keeps a sequence a sequence of that length.     *)
LEMMA SeqExcept ==
    ASSUME NEW S, NEW s \in Seq(S), NEW i, NEW e \in S
    PROVE  [s EXCEPT ![i] = e] \in Seq(S) /\ Len([s EXCEPT ![i] = e]) = Len(s)
<1>. DEFINE t == [s EXCEPT ![i] = e]
<1>1. Len(s) \in Nat /\ DOMAIN s = 1..Len(s) /\ \A j \in 1..Len(s) : s[j] \in S
  OBVIOUS
<1>2. t \in [1..Len(s) -> S]
  BY <1>1
<1>. HIDE DEF t
<1>3. t \in Seq(S) /\ Len(t) = Len(s)
  BY <1>1, <1>2
<1>. QED  BY <1>3 DEF t

(* The same for the played flags.                                          *)
LEMMA SetFlag ==
    ASSUME NEW s \in Seq(BOOLEAN), NEW i
    PROVE  [s EXCEPT ![i] = TRUE] \in Seq(BOOLEAN) /\ Len([s EXCEPT ![i] = TRUE]) = Len(s)
<1>. DEFINE B == BOOLEAN
            yes == TRUE
<1>1. s \in Seq(B) /\ yes \in B
  OBVIOUS
<1>. HIDE DEF B, yes
<1>2. [s EXCEPT ![i] = yes] \in Seq(B) /\ Len([s EXCEPT ![i] = yes]) = Len(s)
  BY <1>1, SeqExcept
<1>. QED  BY <1>2 DEF B, yes

-----------------------------------------------------------------------------
(* partition_point exists in an increasing sequence of orders.             *)
LEMMA PartitionPointFacts ==
    ASSUME NEW s \in Seq(Nat), NEW o \in Nat,
           \A i, j \in DOMAIN s : i < j => s[i] < s[j]
    PROVE  /\ PartitionPoint(s, o) \in 0..Len(s)
           /\ \A i \in 1..PartitionPoint(s, o) : s[i] < o
           /\ \A i \in (PartitionPoint(s, o) + 1)..Len(s) : ~ (s[i] < o)
<1>. DEFINE T == {i \in 1..Len(s) : ~ (s[i] < o)}
<1>1. \E k \in 0..Len(s) : /\ \A i \in 1..k : s[i] < o
                           /\ \A i \in (k + 1)..Len(s) : ~ (s[i] < o)
  <2>1. CASE T = {}
    <3>1. \A i \in 1..Len(s) : s[i] < o
      BY <2>1
    <3>. QED  BY <3>1
  <2>2. CASE T # {}
    <3>1. T \subseteq Nat
      OBVIOUS
    <3>2. Min(T) \in T /\ \A y \in T : Min(T) <= y
      BY <2>2, <3>1, MinIsLeast
    <3>. DEFINE m == Min(T)
    <3>3. m \in 1..Len(s) /\ ~ (s[m] < o)
      BY <3>2
    <3>4. \A y \in T : m <= y
      BY <3>2
    <3>. HIDE DEF m
    <3>5. \A i \in 1..(m - 1) : s[i] < o
      BY <3>3, <3>4
    <3>6. \A i \in m..Len(s) : ~ (s[i] < o)
      <4>1. SUFFICES ASSUME NEW i \in m..Len(s) PROVE ~ (s[i] < o)
        OBVIOUS
      <4>2. i \in DOMAIN s /\ m \in DOMAIN s /\ s[i] \in Nat /\ s[m] \in Nat
        BY <3>3
      <4>3. i = m \/ s[m] < s[i]
        BY <3>3, <4>2
      <4>. QED  BY <3>3, <4>2, <4>3
    <3>7. (m - 1) \in 0..Len(s) /\ (m - 1) + 1 = m
      BY <3>3
    <3>. QED  BY <3>5, <3>6, <3>7
  <2>. QED  BY <2>1, <2>2
<1>. QED  BY <1>1 DEF PartitionPoint

(* Inserting a new order at its partition point keeps the orders           *)
(* increasing and adds that order only.                                    *)
LEMMA InsertOrder ==
    ASSUME NEW s \in Seq(Nat), NEW o \in Nat,
           \A i, j \in DOMAIN s : i < j => s[i] < s[j],
           \A i \in DOMAIN s : s[i] # o
    PROVE  LET k == PartitionPoint(s, o) + 1
               r == InsertAt(s, k, o)
           IN  /\ k \in 1..(Len(s) + 1)
               /\ \A i, j \in 1..(Len(s) + 1) : i < j => r[i] < r[j]
               /\ {r[i] : i \in 1..(Len(s) + 1)} = {s[i] : i \in DOMAIN s} \cup {o}
<1>. DEFINE pp == PartitionPoint(s, o)
            k == pp + 1
            r == InsertAt(s, k, o)
            n == Len(s)
<1>1. n \in Nat /\ DOMAIN s = 1..n /\ \A i \in 1..n : s[i] \in Nat
  OBVIOUS
<1>2. pp \in 0..n /\ (\A i \in 1..pp : s[i] < o) /\ (\A i \in (pp + 1)..n : ~ (s[i] < o))
  BY PartitionPointFacts
<1>. HIDE DEF pp, n
<1>3. /\ k \in 1..(n + 1)
      /\ \A i \in 1..n : i < k => s[i] < o
      /\ \A i \in 1..n : i >= k => s[i] > o
  BY <1>1, <1>2
<1>. HIDE DEF k
<1>4. \A j \in 1..(n + 1) : r[j] = IF j < k THEN s[j] ELSE IF j = k THEN o ELSE s[j - 1]
  <2>1. k \in 1..(Len(s) + 1)
    BY <1>3 DEF n
  <2>. DEFINE N == Nat
  <2>3. s \in Seq(N) /\ o \in N
    OBVIOUS
  <2>. HIDE DEF N, r
  <2>2. /\ InsertAt(s, k, o) \in Seq(N)
        /\ Len(InsertAt(s, k, o)) = Len(s) + 1
        /\ \A j \in 1..(Len(s) + 1) :
             InsertAt(s, k, o)[j] = IF j < k THEN s[j]
                                    ELSE IF j = k THEN o ELSE s[j - 1]
    BY <2>1, <2>3, InsertAtFacts
  <2>. QED  BY <2>2 DEF n, r
<1>. HIDE DEF r
<1>5. ASSUME NEW i \in 1..(n + 1), NEW j \in 1..(n + 1), i < j
      PROVE  r[i] < r[j]
  <2>1. CASE j < k
    <3>1. r[i] = s[i] /\ r[j] = s[j] /\ i \in 1..n /\ j \in 1..n
      BY <1>1, <1>3, <1>4, <1>5, <2>1
    <3>. QED  BY <1>1, <1>5, <3>1
  <2>2. CASE j = k
    BY <1>1, <1>3, <1>4, <1>5, <2>2
  <2>3. CASE j > k /\ i < k
    <3>1. r[i] = s[i] /\ r[j] = s[j - 1] /\ i \in 1..n /\ (j - 1) \in 1..n
      BY <1>1, <1>3, <1>4, <2>3
    <3>2. s[i] < o /\ s[j - 1] > o
      BY <1>3, <2>3, <3>1
    <3>. QED  BY <1>1, <3>1, <3>2
  <2>4. CASE j > k /\ i = k
    <3>1. r[i] = o /\ r[j] = s[j - 1] /\ (j - 1) \in 1..n
      BY <1>1, <1>3, <1>4, <2>4
    <3>. QED  BY <1>3, <2>4, <3>1
  <2>5. CASE j > k /\ i > k
    <3>1. r[i] = s[i - 1] /\ r[j] = s[j - 1] /\ (i - 1) \in 1..n /\ (j - 1) \in 1..n
      BY <1>1, <1>3, <1>4, <2>5
    <3>. QED  BY <1>1, <1>5, <3>1, SMTT(30)
  <2>6. j < k \/ j = k \/ (j > k /\ i < k) \/ (j > k /\ i = k) \/ (j > k /\ i > k)
    BY <1>3
  <2>. QED  BY <2>1, <2>2, <2>3, <2>4, <2>5, <2>6, Zenon
<1>6. {r[i] : i \in 1..(n + 1)} = {s[i] : i \in 1..n} \cup {o}
  <2>1. ASSUME NEW i \in 1..(n + 1)
        PROVE  r[i] \in {s[j] : j \in 1..n} \cup {o}
    <3>1. i = k \/ (i < k /\ i \in 1..n) \/ (i > k /\ (i - 1) \in 1..n)
      BY <1>1, <1>3
    <3>. QED  BY <1>3, <1>4, <3>1
  <2>2. ASSUME NEW j \in 1..n
        PROVE  \E i \in 1..(n + 1) : r[i] = s[j]
    <3>1. CASE j < k
      <4>1. j \in 1..(n + 1) /\ r[j] = s[j]
        BY <1>1, <1>4, <3>1
      <4>. QED  BY <4>1
    <3>2. CASE ~ (j < k)
      <4>1. (j + 1) \in 1..(n + 1) /\ ~ (j + 1 < k) /\ j + 1 # k /\ (j + 1) - 1 = j
        BY <1>1, <1>3, <3>2
      <4>2. r[j + 1] = s[j]
        BY <1>4, <4>1
      <4>. QED  BY <4>1, <4>2
    <3>. QED  BY <3>1, <3>2
  <2>3. \E i \in 1..(n + 1) : r[i] = o
    <3>1. r[k] = o
      BY <1>3, <1>4
    <3>. QED  BY <1>3, <3>1
  <2>. QED  BY <2>1, <2>2, <2>3
<1>. QED  BY <1>1, <1>3, <1>5, <1>6 DEF n, r, k, pp

-----------------------------------------------------------------------------
(* The inductive invariant                                                 *)

(* Orders are handed out once: those in the cassette, those pending and    *)
(* those of calls in flight were all reserved, two calls in flight have    *)
(* different ones, and a call in flight is not in the cassette yet.        *)
OrdersOwned ==
    /\ first <= next_order
    /\ pending \subseteq first..(next_order - 1)
    /\ \A p \in Proto : \A i \in DOMAIN orders[p] : orders[p][i] < next_order
    /\ \A t \in Tasks : pc[t] = "live" =>
         /\ order[t] \in first..(next_order - 1)
         /\ \A i \in DOMAIN orders[proto[t]] : orders[proto[t]][i] # order[t]
         /\ \A u \in Tasks : u # t /\ pc[u] = "live" => order[u] # order[t]

(* What a call did stays true of it: its order is in the cassette from the *)
(* insertion on, and a call that returned does nothing more.               *)
CallsSettled ==
    /\ \A t \in Tasks :
         pc[t] \in {"saving", "remember"} \/ outcome[t] = "recorded"
             => order[t] >= first /\ order[t] \in Recorded(proto[t])
    /\ \A t \in Tasks : t \in errors \/ outcome[t] = "recorded" => pc[t] = "done"

(* The file is behind the cassette only while somebody saves, after a save *)
(* failed, or before finish empties the file of an All session.            *)
SavedOrExplained ==
    \/ \A p \in Proto : Ids(file[p]) = Ids(tape[p])
    \/ MidSave
    \/ errors # {}
    \/ save_empty /\ ~ finalized

(* A verdict comes after the recorder is closed, and Ok from nothing left. *)
VerdictsSound ==
    \A f \in Finishers : /\ fin[f] # "idle" => finalized
                         /\ fin[f] = "ok" => pending = {}

IInv ==
    /\ TypeOK
    /\ TapeInIssueOrder
    /\ OrdersOwned
    /\ CallsSettled
    /\ NoOrderLost
    /\ ReturnedIsDurable
    /\ SavedOrExplained
    /\ VerdictsSound

-----------------------------------------------------------------------------
(* The initial states                                                      *)

(* What loading a list of requests gives.                                  *)
LEMMA LoadedFacts ==
    ASSUME NEW rs \in Seq(Requests)
    PROVE  /\ Loaded(rs) \in Seq(Interaction)
           /\ Len(Loaded(rs)) = Len(rs)
           /\ \A i \in 1..Len(rs) : Loaded(rs)[i].id < 0
           /\ \A i, j \in 1..Len(rs) : i # j => Loaded(rs)[i].id # Loaded(rs)[j].id
<1>1. \A i \in 1..Len(rs) : rs[i] \in Requests /\ i - 1 - Len(rs) \in Int
                            /\ i - 1 - Len(rs) < 0
  OBVIOUS
<1>2. DOMAIN rs = 1..Len(rs) /\ Len(rs) \in Nat
  OBVIOUS
<1>3. Loaded(rs) \in [1..Len(rs) -> Interaction]
  BY <1>1, <1>2 DEF Loaded, Interaction
<1>. QED  BY <1>1, <1>2, <1>3 DEF Loaded

(* The empty cassette is well typed.                                       *)
LEMMA NoInteractionsFacts ==
    /\ NoInteractions \in [Proto -> Seq(Interaction)]
    /\ \A p \in Proto : Len(NoInteractions[p]) = 0
  BY DEF NoInteractions

(* The interactions of earlier sessions, told apart by their ids.          *)
OldOnly(d) ==
    \A p \in Proto :
        /\ \A i \in 1..Len(d[p]) : d[p][i].id < 0
        /\ \A i, j \in 1..Len(d[p]) : i # j => d[p][i].id # d[p][j].id

(* What from_builder makes of the cassette and the orders.                 *)
LEMMA OpenFacts ==
    ASSUME NEW there \in BOOLEAN, NEW on_disk \in [Proto -> Seq(Interaction)],
           OldOnly(on_disk), NEW ws \in Nat, NEW m \in Modes,
           OpenWith(there, on_disk, ws, m)
    PROVE  /\ tape \in [Proto -> Seq(Interaction)]
           /\ file \in [Proto -> Seq(Interaction)]
           /\ played \in [Proto -> Seq(BOOLEAN)]
           /\ orders \in [Proto -> Seq(Nat)]
           /\ OldOnly(tape) /\ OldOnly(file)
           /\ next_order \in Nat /\ first = next_order
           /\ \A p \in Proto :
                /\ Len(tape[p]) \in Nat /\ Len(tape[p]) <= first
                /\ Len(played[p]) = Len(tape[p])
                /\ Len(orders[p]) = Len(tape[p])
                /\ DOMAIN orders[p] = 1..Len(tape[p])
                /\ \A i \in 1..Len(tape[p]) : orders[p][i] = i - 1
<1>1. /\ tape \in [Proto -> Seq(Interaction)]
      /\ file \in [Proto -> Seq(Interaction)]
  BY NoInteractionsFacts DEF OpenWith
<1>2. OldOnly(tape) /\ OldOnly(file)
  <2>1. OldOnly(NoInteractions)
    BY NoInteractionsFacts DEF OldOnly
  <2>. QED  BY <2>1 DEF OpenWith
<1>3. \A p \in Proto : Len(tape[p]) \in Nat /\ DOMAIN tape[p] = 1..Len(tape[p])
  <2>. DEFINE I == Interaction
  <2>1. tape \in [Proto -> Seq(I)]
    BY <1>1
  <2>. HIDE DEF I
  <2>. QED  BY <2>1
<1>4. /\ played = [p \in Proto |-> [i \in 1..Len(tape[p]) |-> FALSE]]
      /\ orders = [p \in Proto |-> [i \in 1..Len(tape[p]) |-> i - 1]]
  BY <1>3 DEF OpenWith
<1>5. \A p \in Proto :
         /\ played[p] \in Seq(BOOLEAN) /\ Len(played[p]) = Len(tape[p])
         /\ orders[p] \in Seq(Nat) /\ Len(orders[p]) = Len(tape[p])
         /\ DOMAIN orders[p] = 1..Len(tape[p])
         /\ \A i \in 1..Len(tape[p]) : orders[p][i] = i - 1
  BY <1>3, <1>4
<1>6. next_order \in Nat /\ first = next_order /\ \A p \in Proto : Len(tape[p]) <= first
  <2>. DEFINE w == IF there /\ ~ Replaces(m) THEN ws ELSE 0
              h == Len(tape["http"])
              g == Len(tape["grpc"])
  <2>1. next_order = h + g + w /\ first = next_order
    BY DEF OpenWith
  <2>2. w \in Nat /\ h \in Nat /\ g \in Nat
    BY <1>3 DEF Proto
  <2>3. \A p \in Proto : Len(tape[p]) = h \/ Len(tape[p]) = g
    BY DEF Proto
  <2>. HIDE DEF w, h, g
  <2>. QED  BY <2>1, <2>2, <2>3
<1>7. played \in [Proto -> Seq(BOOLEAN)] /\ orders \in [Proto -> Seq(Nat)]
  BY <1>4, <1>5
<1>. QED  BY <1>1, <1>2, <1>3, <1>5, <1>6, <1>7

(* from_builder leaves the recorder in a state of the invariant.           *)
LEMMA OpenIInv ==
    ASSUME NEW there \in BOOLEAN, NEW on_disk \in [Proto -> Seq(Interaction)],
           OldOnly(on_disk), NEW ws \in Nat, NEW m \in Modes,
           OpenWith(there, on_disk, ws, m), NoCalls
    PROVE  IInv
<1>1. /\ tape \in [Proto -> Seq(Interaction)]
      /\ file \in [Proto -> Seq(Interaction)]
      /\ played \in [Proto -> Seq(BOOLEAN)]
      /\ orders \in [Proto -> Seq(Nat)]
      /\ next_order \in Nat /\ first = next_order
  BY OpenFacts
<1>2. \A p \in Proto :
         /\ Len(tape[p]) \in Nat /\ Len(tape[p]) <= first
         /\ Len(played[p]) = Len(tape[p])
         /\ Len(orders[p]) = Len(tape[p])
         /\ DOMAIN orders[p] = 1..Len(tape[p])
         /\ \A i \in 1..Len(tape[p]) : orders[p][i] = i - 1
  BY OpenFacts
<1>3. OldOnly(tape)
  BY OpenFacts
<1>4. TypeOK
  <2>1. mode \in Modes /\ can_record \in BOOLEAN /\ save_empty \in BOOLEAN
          /\ exists \in BOOLEAN
    BY DEF OpenWith, CanRecord, SaveEmpty
  <2>2. req \in [Tasks -> Requests] /\ proto \in [Tasks -> Proto]
    BY RecorderAssumption DEF NoCalls, Requests, Proto
  <2>3. \A p \in Proto : Len(tape[p]) = Len(orders[p]) /\ Len(played[p]) = Len(orders[p])
    BY <1>2
  <2>4. pending \subseteq Nat /\ errors \subseteq Tasks \cup Finishers
          /\ finalized \in BOOLEAN
    BY DEF NoCalls
  <2>5. pc \in [Tasks -> {"idle", "live", "verify", "saving", "remember", "done"}]
    BY DEF NoCalls
  <2>6. order \in [Tasks -> Nat] /\ answer \in [Tasks -> Int]
    BY DEF NoCalls
  <2>7. outcome \in [Tasks -> {"none", "finalized", "replayed", "no_match",
                              "live_error", "dropped", "mismatch", "verified",
                              "rejected", "recorded", "save_error"}]
    BY DEF NoCalls
  <2>8. fin \in [Finishers -> {"idle", "saving", "remember", "report", "ok",
                              "incomplete", "recording_error"}]
    BY DEF NoCalls
  <2>9. next_order \in Nat /\ first \in Nat
    BY <1>1
  <2>. QED  BY <1>1, <2>1, <2>2, <2>3, <2>4, <2>5, <2>6, <2>7, <2>8, <2>9, Zenon
            DEF TypeOK
<1>5. ASSUME NEW p \in Proto, NEW i \in DOMAIN orders[p]
      PROVE  /\ i \in 1..Len(tape[p]) /\ orders[p][i] = i - 1
             /\ orders[p][i] < first /\ tape[p][i].id < 0
  <2>. DEFINE n == Len(tape[p])
  <2>1. n \in Nat /\ n <= first /\ first \in Nat
    BY <1>1, <1>2
  <2>2. i \in 1..n /\ orders[p][i] = i - 1
    BY <1>2
  <2>3. tape[p][i].id < 0
    BY <1>3, <2>2 DEF OldOnly
  <2>. HIDE DEF n
  <2>4. i - 1 < first
    BY <2>1, <2>2
  <2>. QED  BY <2>2, <2>3, <2>4 DEF n
<1>10. TapeInIssueOrder
  <2>1. \A p \in Proto : \A i \in DOMAIN orders[p] :
             IF orders[p][i] < first THEN tape[p][i].id < 0
                                     ELSE tape[p][i].id = orders[p][i]
    BY <1>5
  <2>2. ASSUME NEW p \in Proto, NEW i \in DOMAIN orders[p],
               NEW j \in DOMAIN orders[p], i < j
        PROVE  orders[p][i] < orders[p][j]
    <3>1. i \in 1..Len(tape[p]) /\ j \in 1..Len(tape[p])
            /\ orders[p][i] = i - 1 /\ orders[p][j] = j - 1
      BY <1>5
    <3>. QED  BY <2>2, <3>1
  <2>. QED  BY <2>1, <2>2 DEF TapeInIssueOrder
<1>6. OrdersOwned
  <2>1. \A p \in Proto : \A i \in DOMAIN orders[p] : orders[p][i] < next_order
    BY <1>1, <1>5
  <2>. QED  BY <1>1, <2>1 DEF OrdersOwned, NoCalls
<1>7. CallsSettled /\ ReturnedIsDurable /\ VerdictsSound
  BY DEF CallsSettled, ReturnedIsDurable, VerdictsSound, NoCalls
<1>8. NoOrderLost
  BY <1>1 DEF NoOrderLost
<1>9. SavedOrExplained
  <2>1. tape = file \/ save_empty
    BY DEF OpenWith, Replaces, SaveEmpty, NoInteractions
  <2>. QED  BY <2>1 DEF SavedOrExplained, NoCalls
<1>. QED  BY <1>4, <1>6, <1>7, <1>8, <1>9, <1>10 DEF IInv

(* A session starts from the interactions of earlier ones, or from none.   *)
LEMMA InitOpened ==
    ASSUME Init
    PROVE  \E there \in BOOLEAN, on_disk \in [Proto -> Seq(Interaction)],
              ws \in Nat, m \in Modes :
                OldOnly(on_disk) /\ OpenWith(there, on_disk, ws, m)
<1>1. PICK m \in Modes :
         \/ OpenWith(FALSE, NoInteractions, 0, m)
         \/ \E f \in InitialFiles :
              OpenWith(TRUE, [p \in Proto |-> Loaded(f[p])], f.ws, m)
  BY DEF Init
<1>2. CASE OpenWith(FALSE, NoInteractions, 0, m)
  <2>1. OldOnly(NoInteractions)
    BY NoInteractionsFacts DEF OldOnly
  <2>. QED  BY <1>2, <2>1, NoInteractionsFacts
<1>3. ASSUME NEW f \in InitialFiles,
             OpenWith(TRUE, [p \in Proto |-> Loaded(f[p])], f.ws, m)
      PROVE  \E on_disk \in [Proto -> Seq(Interaction)], ws \in Nat :
                OldOnly(on_disk) /\ OpenWith(TRUE, on_disk, ws, m)
  <2>. DEFINE d == [p \in Proto |-> Loaded(f[p])]
  <2>1. \A p \in Proto : f[p] \in Seq(Requests)
    BY RecorderAssumption DEF Proto
  <2>2. \A p \in Proto :
           /\ Loaded(f[p]) \in Seq(Interaction)
           /\ Len(Loaded(f[p])) = Len(f[p])
           /\ \A i \in 1..Len(f[p]) : Loaded(f[p])[i].id < 0
           /\ \A i, j \in 1..Len(f[p]) : i # j => Loaded(f[p])[i].id # Loaded(f[p])[j].id
    BY <2>1, LoadedFacts
  <2>3. d \in [Proto -> Seq(Interaction)] /\ OldOnly(d)
    BY <2>2 DEF OldOnly
  <2>4. f.ws \in Nat
    BY RecorderAssumption
  <2>5. OpenWith(TRUE, d, f.ws, m)
    BY <1>3
  <2>. HIDE DEF d
  <2>. QED  BY <2>3, <2>4, <2>5
<1>. QED  BY <1>1, <1>2, <1>3

(* Every session starts in a state of the invariant.                       *)
LEMMA InitIInv == Init => IInv
<1>1. SUFFICES ASSUME Init PROVE IInv
  OBVIOUS
<1>2. PICK there \in BOOLEAN, on_disk \in [Proto -> Seq(Interaction)],
           ws \in Nat, m \in Modes :
             OldOnly(on_disk) /\ OpenWith(there, on_disk, ws, m)
  BY <1>1, InitOpened
<1>3. NoCalls
  BY <1>1 DEF Init
<1>. QED  BY <1>2, <1>3, OpenIInv

-----------------------------------------------------------------------------
(* Steps that leave the cassette and the file alone                        *)

(* The cassette, its orders, the file and finish are as they were.         *)
Settled ==
    UNCHANGED <<session, tape, orders, next_order, save_empty, finalized,
                disk, fin>>

(* A call that returns without a recording keeps the invariant: it leaves  *)
(* its order pending, or gives it up and leaves an error.                  *)
LEMMA QuietTask ==
    ASSUME IInv, TypeOK', Settled, NEW t \in Tasks,
           pc[t] \in {"idle", "live", "verify"},
           pc'[t] \in {"done", "verify"},
           outcome'[t] # "recorded",
           order' = order,
           \A u \in Tasks : u # t => /\ pc'[u] = pc[u]
                                     /\ outcome'[u] = outcome[u]
                                     /\ proto'[u] = proto[u],
           \/ pending' = pending /\ errors' = errors
           \/ /\ pending' = pending \ {order[t]} /\ errors' = errors \cup {t}
              /\ pc'[t] = "done"
    PROVE  IInv'
<1>. USE DEF Settled, session, disk
<1>1. t \notin errors /\ outcome[t] # "recorded"
  BY DEF IInv, CallsSettled
<1>2. TapeInIssueOrder'
  BY DEF IInv, TapeInIssueOrder
<1>3. OrdersOwned'
  <2>1. first' <= next_order' /\ pending' \subseteq first'..(next_order' - 1)
    BY DEF IInv, OrdersOwned
  <2>2. \A p \in Proto : \A i \in DOMAIN orders'[p] : orders'[p][i] < next_order'
    BY DEF IInv, OrdersOwned
  <2>3. ASSUME NEW u \in Tasks, pc'[u] = "live"
        PROVE  /\ order[u] \in first..(next_order - 1)
               /\ \A i \in DOMAIN orders[proto'[u]] : orders[proto'[u]][i] # order[u]
               /\ \A v \in Tasks : v # u /\ pc'[v] = "live" => order[v] # order[u]
    <3>1. u # t /\ pc[u] = "live" /\ proto'[u] = proto[u]
      BY <2>3
    <3>2. \A v \in Tasks : pc'[v] = "live" => pc[v] = "live"
      OBVIOUS
    <3>. QED  BY <3>1, <3>2 DEF IInv, OrdersOwned
  <2>. QED  BY <2>1, <2>2, <2>3 DEF OrdersOwned
<1>4. CallsSettled'
  BY <1>1 DEF IInv, CallsSettled, Recorded
<1>5. NoOrderLost'
  <2>1. SUFFICES ASSUME NEW o \in first..(next_order - 1)
                 PROVE  \/ o \in pending'
                        \/ \E p \in Proto : o \in Recorded(p)
                        \/ \E u \in Tasks : u \in errors' /\ order[u] = o
    BY DEF NoOrderLost, Recorded
  <2>2. \/ o \in pending
        \/ \E p \in Proto : o \in Recorded(p)
        \/ \E u \in Tasks : u \in errors /\ order[u] = o
    BY DEF IInv, NoOrderLost
  <2>. QED  BY <2>2
<1>6. ReturnedIsDurable'
  BY DEF IInv, ReturnedIsDurable
<1>7. SavedOrExplained'
  <2>1. MidSave => MidSave'
    BY DEF MidSave
  <2>2. errors # {} => errors' # {}
    OBVIOUS
  <2>. QED  BY <2>1, <2>2 DEF IInv, SavedOrExplained
<1>8. VerdictsSound'
  BY DEF IInv, VerdictsSound
<1>. QED  BY <1>2, <1>3, <1>4, <1>5, <1>6, <1>7, <1>8 DEF IInv

(* A finish call that moves on keeps the invariant.                        *)
LEMMA QuietFinish ==
    ASSUME IInv, TypeOK', UNCHANGED <<session, cassette, next_order, pending,
                                      save_empty, disk, tasks>>,
           NEW f \in Finishers,
           \A g \in Finishers : g # f => fin'[g] = fin[g],
           errors' = errors \/ errors' = errors \cup {f},
           f \notin Tasks \/ errors' = errors,
           finalized', finalized => finalized',
           fin'[f] = "ok" => pending = {},
           \/ ~ finalized /\ save_empty /\ fin'[f] = "saving"
           \/ finalized /\ fin[f] \in {"saving", "remember"}
                /\ (fin'[f] \in {"saving", "remember"} \/ errors' # {})
           \/ fin[f] \notin {"saving", "remember"} /\ (finalized \/ ~ save_empty)
    PROVE  IInv'
<1>. USE DEF session, cassette, disk, tasks
<1>1. TapeInIssueOrder' /\ OrdersOwned'
  BY DEF IInv, TapeInIssueOrder, OrdersOwned
<1>2. CallsSettled'
  BY DEF IInv, CallsSettled, Recorded
<1>3. NoOrderLost'
  BY DEF IInv, NoOrderLost, Recorded
<1>4. ReturnedIsDurable'
  BY DEF IInv, ReturnedIsDurable
<1>5. SavedOrExplained'
  <2>1. errors # {} => errors' # {}
    OBVIOUS
  <2>2. (\A p \in Proto : Ids(file[p]) = Ids(tape[p]))
           => (\A p \in Proto : Ids(file'[p]) = Ids(tape'[p]))
    OBVIOUS
  <2>3. CASE \E u \in Tasks : pc[u] \in {"saving", "remember"}
    BY <2>3 DEF SavedOrExplained, MidSave
  <2>4. CASE \E g \in Finishers : fin[g] \in {"saving", "remember"}
    BY <2>1, <2>4 DEF SavedOrExplained, MidSave
  <2>5. CASE save_empty /\ ~ finalized
    BY <2>5 DEF SavedOrExplained, MidSave
  <2>. QED  BY <2>1, <2>2, <2>3, <2>4, <2>5 DEF IInv, SavedOrExplained, MidSave
<1>6. VerdictsSound'
  BY DEF IInv, VerdictsSound
<1>. QED  BY <1>1, <1>2, <1>3, <1>4, <1>5, <1>6 DEF IInv

-----------------------------------------------------------------------------
(* One lemma per operation                                                 *)

(* The answer to a request is a position of the tape.                      *)
LEMMA FoundInTape ==
    ASSUME TypeOK, NEW p \in Proto, NEW r \in RequestsOf(p), Found(p, r) # 0
    PROVE  Found(p, r) \in DOMAIN tape[p]
<1>. DEFINE C == Candidates(p, r)
            fresh == {i \in C : ~ (i \in DOMAIN played[p] /\ played[p][i])}
<1>1. C \subseteq DOMAIN tape[p]
  BY DEF Candidates, Matching
<1>2. DOMAIN tape[p] = 1..Len(tape[p])
  <2>. DEFINE I == Interaction
  <2>1. tape \in [Proto -> Seq(I)]
    BY DEF TypeOK
  <2>. HIDE DEF I
  <2>. QED  BY <2>1
<1>3. C \subseteq Nat /\ fresh \subseteq C
  BY <1>1, <1>2
<1>. HIDE DEF C
<1>4. (Found(p, r) = Min(fresh) /\ fresh # {}) \/ (Found(p, r) = Min(C) /\ C # {})
  BY DEF Found, pick, C
<1>. HIDE DEF fresh
<1>5. CASE Found(p, r) = Min(fresh) /\ fresh # {}
  BY <1>1, <1>3, <1>5, MinIsLeast
<1>6. CASE Found(p, r) = Min(C) /\ C # {}
  BY <1>1, <1>3, <1>6, MinIsLeast
<1>. QED  BY <1>4, <1>5, <1>6

(* The request of a new call is well typed.                                *)
LEMMA CallTypes ==
    ASSUME TypeOK, NEW t \in Tasks, NEW p \in Proto, NEW r \in RequestsOf(p),
           Call(t, p, r)
    PROVE  proto' \in [Tasks -> Proto] /\ req' \in [Tasks -> Requests]
<1>1. r \in Requests
  BY DEF RequestsOf, Requests
<1>2. proto \in [Tasks -> Proto] /\ req \in [Tasks -> Requests]
  BY DEF TypeOK
<1>. QED  BY <1>1, <1>2 DEF Call

(* Calls that return without reaching the tape.                            *)
LEMMA PrepareClosedStep ==
    ASSUME IInv, NEW t \in Tasks, NEW p \in Proto, NEW r \in RequestsOf(p),
           PrepareClosed(t, p, r) \/ PrepareNoMatch(t, p, r)
    PROVE  IInv'
<1>. USE DEF PrepareClosed, PrepareNoMatch, Call, Return
<1>1. TypeOK'
  <2>1. UNCHANGED <<session, cassette, next_order, pending, errors, save_empty,
                    finalized, disk, order, answer, fin>>
    OBVIOUS
  <2>2. pc' \in [Tasks -> {"idle", "live", "verify", "saving", "remember", "done"}]
    BY DEF IInv, TypeOK
  <2>4. proto' \in [Tasks -> Proto] /\ req' \in [Tasks -> Requests]
    <3>. HIDE DEF Call
    <3>. QED  BY CallTypes DEF IInv
  <2>3. outcome' \in [Tasks -> {"none", "finalized", "replayed", "no_match",
                              "live_error", "dropped", "mismatch", "verified",
                              "rejected", "recorded", "save_error"}]
    BY DEF IInv, TypeOK
  <2>. HIDE DEF PrepareClosed, PrepareNoMatch, Call, Return
  <2>. QED  BY <2>1, <2>2, <2>3, <2>4 DEF IInv, TypeOK, session, cassette, disk
<1>2. Settled
  BY DEF Settled, cassette
<1>3. pc[t] = "idle" /\ pc'[t] = "done" /\ outcome'[t] # "recorded"
  BY DEF IInv, TypeOK
<1>4. \A u \in Tasks : u # t => /\ pc'[u] = pc[u]
                                /\ outcome'[u] = outcome[u]
                                /\ proto'[u] = proto[u]
  BY DEF IInv, TypeOK
<1>5. order' = order /\ pending' = pending /\ errors' = errors
  OBVIOUS
<1>. QED  BY <1>1, <1>2, <1>3, <1>4, <1>5, QuietTask

(* A replayed or verified request.                                         *)
LEMMA PrepareReplayStep ==
    ASSUME IInv, NEW t \in Tasks, NEW p \in Proto, NEW r \in RequestsOf(p),
           PrepareReplay(t, p, r)
    PROVE  IInv'
<1>. USE DEF PrepareReplay, Call, Return
<1>. DEFINE i == Found(p, r)
<1>1. i \in DOMAIN tape[p]
  BY FoundInTape DEF IInv
<1>2. TypeOK'
  <2>1. played' \in [Proto -> Seq(BOOLEAN)] /\ \A q \in Proto : Len(played'[q]) = Len(played[q])
    <3>1. played \in [Proto -> Seq(BOOLEAN)] /\ played' = [played EXCEPT ![p][i] = TRUE]
      BY DEF IInv, TypeOK
    <3>. HIDE DEF i
    <3>2. [played[p] EXCEPT ![i] = TRUE] \in Seq(BOOLEAN)
          /\ Len([played[p] EXCEPT ![i] = TRUE]) = Len(played[p])
      <4>1. played[p] \in Seq(BOOLEAN)
        BY <3>1
      <4>. HIDE DEF PrepareReplay, Call, Return
      <4>. QED  BY <4>1, SetFlag
    <3>. HIDE DEF PrepareReplay, Call, Return
    <3>. QED  BY <3>1, <3>2
  <2>2. answer' \in [Tasks -> Int]
    <3>1. tape[p][i] \in Interaction
      <4>1. tape[p] \in Seq(Interaction)
        BY DEF IInv, TypeOK
      <4>. HIDE DEF i
      <4>. QED  BY <1>1, <4>1, SeqElement
    <3>2. tape[p][i].id \in Int
      BY <3>1 DEF Interaction
    <3>. QED  BY <3>2 DEF IInv, TypeOK
  <2>3. UNCHANGED <<session, tape, orders, next_order, pending, errors,
                    save_empty, finalized, disk, order, fin>>
    OBVIOUS
  <2>4. /\ pc' \in [Tasks -> {"idle", "live", "verify", "saving", "remember", "done"}]
    BY ZenonT(30) DEF IInv, TypeOK
  <2>6. proto' \in [Tasks -> Proto] /\ req' \in [Tasks -> Requests]
    <3>. HIDE DEF Call
    <3>. QED  BY CallTypes DEF IInv
  <2>5. outcome' \in [Tasks -> {"none", "finalized", "replayed", "no_match",
                              "live_error", "dropped", "mismatch", "verified",
                              "rejected", "recorded", "save_error"}]
    BY DEF IInv, TypeOK
  <2>. HIDE DEF PrepareReplay, Call, Return
  <2>. QED  BY <2>1, <2>2, <2>3, <2>4, <2>5, <2>6 DEF IInv, TypeOK, session, disk
<1>3. Settled
  BY DEF Settled
<1>4. pc[t] = "idle" /\ outcome[t] # "recorded"
  BY DEF IInv, CallsSettled
<1>5. pc'[t] \in {"done", "verify"} /\ outcome'[t] # "recorded"
  BY <1>4 DEF IInv, TypeOK
<1>6. \A u \in Tasks : u # t => /\ pc'[u] = pc[u]
                                /\ outcome'[u] = outcome[u]
                                /\ proto'[u] = proto[u]
  BY DEF IInv, TypeOK
<1>7. order' = order /\ pending' = pending /\ errors' = errors
  OBVIOUS
<1>. QED  BY <1>2, <1>3, <1>4, <1>5, <1>6, <1>7, QuietTask

(* Calls whose live response fails, is dropped, refused or compared.       *)
LEMMA LiveEndsStep ==
    ASSUME IInv, NEW t \in Tasks,
           \/ LiveFails(t) \/ Dropped(t) \/ Verified(t)
           \/ RecordClosed(t) \/ RecordRejected(t)
    PROVE  IInv'
<1>. USE DEF LiveFails, Dropped, Verified, RecordClosed, RecordRejected, Return
<1>1. PICK w \in {"live_error", "dropped", "mismatch", "verified", "finalized",
                  "rejected"} :
         /\ pc' = [pc EXCEPT ![t] = "done"]
         /\ outcome' = [outcome EXCEPT ![t] = w]
  OBVIOUS
<1>2. Settled /\ UNCHANGED <<played, proto, req, order, answer>>
  BY DEF Settled, cassette
<1>3. pc[t] \in {"live", "verify"}
  OBVIOUS
<1>4. \/ pending' = pending /\ errors' = errors
      \/ pending' = pending \ {order[t]} /\ errors' = errors \cup {t}
  OBVIOUS
<1>. HIDE DEF LiveFails, Dropped, Verified, RecordClosed, RecordRejected, Return
<1>5. TypeOK'
  BY <1>1, <1>2, <1>4 DEF IInv, TypeOK, Settled, session, disk
<1>6. pc'[t] = "done" /\ outcome'[t] # "recorded"
  BY <1>1 DEF IInv, TypeOK
<1>7. \A u \in Tasks : u # t => /\ pc'[u] = pc[u]
                                /\ outcome'[u] = outcome[u]
                                /\ proto'[u] = proto[u]
  BY <1>1, <1>2 DEF IInv, TypeOK
<1>. QED  BY <1>2, <1>3, <1>4, <1>5, <1>6, <1>7, QuietTask

(* A request that goes to the server under a new order.                    *)
LEMMA PrepareReserveStep ==
    ASSUME IInv, NEW t \in Tasks, NEW p \in Proto, NEW r \in RequestsOf(p),
           PrepareReserve(t, p, r)
    PROVE  IInv'
<1>1. /\ pc[t] = "idle" /\ ~ finalized
      /\ order' = [order EXCEPT ![t] = next_order]
      /\ next_order' = next_order + 1
      /\ pending' = pending \cup {next_order}
      /\ pc' = [pc EXCEPT ![t] = "live"]
      /\ proto' = [proto EXCEPT ![t] = p]
  BY DEF PrepareReserve, Call
<1>2. UNCHANGED <<mode, can_record, first, tape, played, orders, errors,
                  save_empty, finalized, exists, file, outcome, answer, fin>>
  BY DEF PrepareReserve, session, cassette, disk
<1>3. /\ next_order \in Nat /\ first \in Nat /\ pending \subseteq Nat
      /\ order \in [Tasks -> Nat] /\ proto \in [Tasks -> Proto]
      /\ pc \in [Tasks -> {"idle", "live", "verify", "saving", "remember", "done"}]
      /\ orders \in [Proto -> Seq(Nat)]
  BY DEF IInv, TypeOK
<1>4. TypeOK'
  <2>1. proto' \in [Tasks -> Proto] /\ req' \in [Tasks -> Requests]
    BY CallTypes DEF IInv, PrepareReserve
  <2>2. /\ order' \in [Tasks -> Nat]
        /\ pc' \in [Tasks -> {"idle", "live", "verify", "saving", "remember", "done"}]
    BY <1>1, <1>3
  <2>3. next_order' \in Nat /\ pending' \subseteq Nat
    BY <1>1, <1>3
  <2>. QED  BY <1>2, <2>1, <2>2, <2>3 DEF IInv, TypeOK
<1>5. /\ order'[t] = next_order /\ pc'[t] = "live"
      /\ \A u \in Tasks : u # t => /\ pc'[u] = pc[u]
                                   /\ order'[u] = order[u]
                                   /\ proto'[u] = proto[u]
  BY <1>1, <1>3
<1>6. t \notin errors /\ outcome[t] # "recorded"
  BY <1>1 DEF IInv, CallsSettled
<1>7. TapeInIssueOrder'
  BY <1>2 DEF IInv, TapeInIssueOrder
<1>8. OrdersOwned'
  <2>1. first <= next_order /\ pending \subseteq first..(next_order - 1)
    BY DEF IInv, OrdersOwned
  <2>2. first' <= next_order' /\ pending' \subseteq first'..(next_order' - 1)
    BY <1>1, <1>2, <1>3, <2>1
  <2>3. ASSUME NEW q \in Proto, NEW i \in DOMAIN orders[q]
        PROVE  orders[q][i] \in Nat /\ orders[q][i] < next_order
    BY <1>3 DEF IInv, OrdersOwned
  <2>4. \A q \in Proto : \A i \in DOMAIN orders'[q] : orders'[q][i] < next_order'
    BY <1>1, <1>2, <1>3, <2>3
  <2>5. ASSUME NEW u \in Tasks, pc'[u] = "live"
        PROVE  /\ order'[u] \in first..next_order
               /\ \A i \in DOMAIN orders[proto'[u]] : orders[proto'[u]][i] # order'[u]
               /\ \A v \in Tasks : v # u /\ pc'[v] = "live" => order'[v] # order'[u]
    <3>1. ASSUME NEW v \in Tasks, v # t, pc[v] = "live"
          PROVE  order[v] \in first..(next_order - 1)
      BY <3>1 DEF IInv, OrdersOwned
    <3>2. CASE u = t
      <4>1. order'[u] = next_order /\ proto'[u] \in Proto
        BY <1>5, <3>2, <1>4 DEF TypeOK
      <4>2. \A i \in DOMAIN orders[proto'[u]] : orders[proto'[u]][i] # order'[u]
        BY <1>3, <2>3, <4>1
      <4>3. \A v \in Tasks : v # u /\ pc'[v] = "live" => order'[v] # order'[u]
        BY <1>3, <1>5, <3>1, <3>2, <4>1
      <4>. QED  BY <1>3, <2>1, <4>1, <4>2, <4>3
    <3>3. CASE u # t
      <4>1. pc[u] = "live" /\ order'[u] = order[u] /\ proto'[u] = proto[u]
        BY <1>5, <2>5, <3>3
      <4>2. order[u] \in first..(next_order - 1)
        BY <3>1, <3>3, <4>1
      <4>3. \A v \in Tasks : v # u /\ pc'[v] = "live" => order'[v] # order'[u]
        <5>1. ASSUME NEW v \in Tasks, v # u, pc'[v] = "live"
              PROVE  order'[v] # order'[u]
          <6>1. CASE v = t
            BY <1>3, <1>5, <4>1, <4>2, <6>1
          <6>2. CASE v # t
            BY <1>5, <4>1, <5>1, <6>2 DEF IInv, OrdersOwned
          <6>. QED  BY <6>1, <6>2
        <5>. QED  BY <5>1
      <4>4. \A i \in DOMAIN orders[proto[u]] : orders[proto[u]][i] # order[u]
        BY <4>1 DEF IInv, OrdersOwned
      <4>. QED  BY <1>3, <4>1, <4>2, <4>3, <4>4
    <3>. QED  BY <3>2, <3>3
  <2>6. (next_order + 1) - 1 = next_order
    BY <1>3
  <2>. QED  BY <1>1, <1>2, <2>2, <2>4, <2>5, <2>6 DEF OrdersOwned
<1>9. CallsSettled'
  BY <1>2, <1>5, <1>6 DEF IInv, CallsSettled, Recorded
<1>10. NoOrderLost'
  <2>1. SUFFICES ASSUME NEW o \in first..next_order
                 PROVE  \/ o \in pending'
                        \/ \E q \in Proto : o \in Recorded(q)
                        \/ \E u \in Tasks : u \in errors /\ order'[u] = o
    <3>1. (next_order + 1) - 1 = next_order
      BY <1>3
    <3>. QED  BY <1>1, <1>2, <3>1 DEF NoOrderLost, Recorded
  <2>2. CASE o = next_order
    BY <1>1, <2>2
  <2>3. CASE o # next_order
    <3>1. o \in first..(next_order - 1)
      BY <1>3, <2>3
    <3>2. \/ o \in pending
          \/ \E q \in Proto : o \in Recorded(q)
          \/ \E u \in Tasks : u \in errors /\ order[u] = o
      BY <3>1 DEF IInv, NoOrderLost
    <3>. QED  BY <1>1, <1>5, <1>6, <3>2
  <2>. QED  BY <2>2, <2>3
<1>11. ReturnedIsDurable'
  BY <1>2, <1>5, <1>6 DEF IInv, ReturnedIsDurable
<1>12. SavedOrExplained'
  BY <1>1, <1>2, <1>5 DEF IInv, SavedOrExplained, MidSave
<1>13. VerdictsSound'
  BY <1>1, <1>2 DEF IInv, VerdictsSound
<1>. QED  BY <1>4, <1>7, <1>8, <1>9, <1>10, <1>11, <1>12, <1>13 DEF IInv

(* What record_http and record_grpc make of the cassette.                  *)
LEMMA InsertedTape ==
    ASSUME IInv, NEW t \in Tasks, RecordInsert(t)
    PROVE  LET p == proto[t]
               n == Len(orders[p])
               k == Position(t)
               i == [req |-> Scrub[req[t]], id |-> order[t]]
           IN  /\ p \in Proto /\ n \in Nat /\ k \in 1..(n + 1)
               /\ \A q \in Proto : q # p => /\ orders'[q] = orders[q]
                                            /\ tape'[q] = tape[q]
                                            /\ played'[q] = played[q]
               /\ orders'[p] \in Seq(Nat) /\ Len(orders'[p]) = n + 1
               /\ tape'[p] \in Seq(Interaction) /\ Len(tape'[p]) = n + 1
               /\ played'[p] \in Seq(BOOLEAN) /\ Len(played'[p]) = n + 1
               /\ \A a, b \in 1..(n + 1) : a < b => orders'[p][a] < orders'[p][b]
               /\ {orders'[p][a] : a \in 1..(n + 1)} = Recorded(p) \cup {order[t]}
               /\ \A j \in 1..(n + 1) :
                    orders'[p][j] = IF j < k THEN orders[p][j]
                                    ELSE IF j = k THEN order[t] ELSE orders[p][j - 1]
               /\ \A j \in 1..(n + 1) :
                    tape'[p][j] = IF j < k THEN tape[p][j]
                                  ELSE IF j = k THEN i ELSE tape[p][j - 1]
<1>. DEFINE p == proto[t]
            n == Len(orders[p])
            k == Position(t)
            i == [req |-> Scrub[req[t]], id |-> order[t]]
            s == orders[p]
            N == Nat
            I == Interaction
            B == BOOLEAN
<1>1. p \in Proto /\ order[t] \in Nat /\ pc[t] = "live"
  BY DEF IInv, TypeOK, RecordInsert
<1>2. /\ s \in Seq(N) /\ tape[p] \in Seq(I) /\ played[p] \in Seq(B)
      /\ Len(tape[p]) = n /\ Len(played[p]) = n
  BY <1>1 DEF IInv, TypeOK
<1>3. /\ orders' = [orders EXCEPT ![p] = InsertAt(s, k, order[t])]
      /\ tape' = [tape EXCEPT ![p] = InsertAt(tape[p], k, i)]
      /\ played' = [played EXCEPT ![p] = InsertAt(played[p], k, can_record)]
  BY DEF RecordInsert, InsertFlag
<1>4. i \in I /\ order[t] \in N /\ can_record \in B
  <2>1. Scrub[req[t]] \in Requests
    BY RecorderAssumption DEF IInv, TypeOK
  <2>. QED  BY <1>1, <2>1 DEF IInv, TypeOK, Interaction
<1>5. /\ DOMAIN orders = Proto /\ DOMAIN tape = Proto /\ DOMAIN played = Proto
  BY DEF IInv, TypeOK
<1>6. /\ k \in 1..(Len(s) + 1)
      /\ \A a, b \in 1..(Len(s) + 1) :
           a < b => InsertAt(s, k, order[t])[a] < InsertAt(s, k, order[t])[b]
      /\ {InsertAt(s, k, order[t])[a] : a \in 1..(Len(s) + 1)}
           = {s[a] : a \in DOMAIN s} \cup {order[t]}
  <2>1. \A a, b \in DOMAIN s : a < b => s[a] < s[b]
    BY <1>1 DEF IInv, TapeInIssueOrder
  <2>2. \A a \in DOMAIN s : s[a] # order[t]
    BY <1>1 DEF IInv, OrdersOwned
  <2>3. k = PartitionPoint(s, order[t]) + 1
    BY DEF Position
  <2>. DEFINE o == order[t]
              pp == PartitionPoint(s, o) + 1
  <2>4. /\ s \in Seq(Nat) /\ o \in Nat
        /\ \A a, b \in DOMAIN s : a < b => s[a] < s[b]
        /\ \A a \in DOMAIN s : s[a] # o
    BY <1>1, <1>2, <2>1, <2>2
  <2>. HIDE DEF s, k, p, o
  <2>5. pp \in 1..(Len(s) + 1)
    BY ONLY <2>4, InsertOrder
  <2>6. \A a, b \in 1..(Len(s) + 1) :
           a < b => InsertAt(s, pp, o)[a] < InsertAt(s, pp, o)[b]
    BY ONLY <2>4, InsertOrder
  <2>7. {InsertAt(s, pp, o)[a] : a \in 1..(Len(s) + 1)} = {s[a] : a \in DOMAIN s} \cup {o}
    BY ONLY <2>4, InsertOrder
  <2>8. k = pp
    BY <2>3 DEF o
  <2>. HIDE DEF pp
  <2>. QED  BY <2>5, <2>6, <2>7, <2>8 DEF o
<1>7. {s[a] : a \in DOMAIN s} = Recorded(p)
  BY DEF Recorded
<1>8. n \in Nat
  BY <1>2
<1>. HIDE DEF N, I, B, i, k
<1>9. /\ InsertAt(s, k, order[t]) \in Seq(N)
      /\ Len(InsertAt(s, k, order[t])) = Len(s) + 1
      /\ \A j \in 1..(Len(s) + 1) :
           InsertAt(s, k, order[t])[j] =
             IF j < k THEN s[j] ELSE IF j = k THEN order[t] ELSE s[j - 1]
  <2>. HIDE DEF s, p
  <2>. QED  BY <1>2, <1>4, <1>6, InsertAtFacts
<1>10. /\ InsertAt(tape[p], k, i) \in Seq(I)
       /\ Len(InsertAt(tape[p], k, i)) = Len(tape[p]) + 1
       /\ \A j \in 1..(Len(tape[p]) + 1) :
            InsertAt(tape[p], k, i)[j] =
              IF j < k THEN tape[p][j] ELSE IF j = k THEN i ELSE tape[p][j - 1]
  <2>. DEFINE tp == tape[p]
  <2>1. tp \in Seq(I) /\ k \in 1..(Len(tp) + 1) /\ i \in I
    BY <1>2, <1>4, <1>6
  <2>. HIDE DEF tp, p, s
  <2>2. /\ InsertAt(tp, k, i) \in Seq(I)
        /\ Len(InsertAt(tp, k, i)) = Len(tp) + 1
    BY ONLY <2>1, InsertAtFacts
  <2>3. ASSUME NEW j \in 1..(Len(tp) + 1)
        PROVE  InsertAt(tp, k, i)[j] =
                 IF j < k THEN tp[j] ELSE IF j = k THEN i ELSE tp[j - 1]
    BY ONLY <2>1, InsertAtFacts
  <2>. QED  BY <2>2, <2>3 DEF tp
<1>11. /\ InsertAt(played[p], k, can_record) \in Seq(B)
       /\ Len(InsertAt(played[p], k, can_record)) = Len(played[p]) + 1
  <2>. DEFINE pl == played[p]
              c == can_record
  <2>1. pl \in Seq(B) /\ k \in 1..(Len(pl) + 1) /\ c \in B
    BY <1>2, <1>4, <1>6
  <2>. HIDE DEF pl, c, p, s
  <2>2. InsertAt(pl, k, c) \in Seq(B) /\ Len(InsertAt(pl, k, c)) = Len(pl) + 1
    BY <2>1, InsertAtFacts
  <2>. QED  BY <2>2 DEF pl, c
<1>12. /\ orders'[p] = InsertAt(s, k, order[t])
       /\ tape'[p] = InsertAt(tape[p], k, i)
       /\ played'[p] = InsertAt(played[p], k, can_record)
       /\ \A q \in Proto : q # p => /\ orders'[q] = orders[q]
                                    /\ tape'[q] = tape[q]
                                    /\ played'[q] = played[q]
  BY <1>1, <1>3, <1>5
<1>13. Len(s) = n /\ Len(tape[p]) = n /\ Len(played[p]) = n
  BY <1>2
<1>14. /\ orders'[p] \in Seq(N) /\ Len(orders'[p]) = n + 1
       /\ tape'[p] \in Seq(I) /\ Len(tape'[p]) = n + 1
       /\ played'[p] \in Seq(B) /\ Len(played'[p]) = n + 1
  <2>. HIDE DEF s, p, n
  <2>. QED  BY <1>9, <1>10, <1>11, <1>12, <1>13
<1>15. /\ \A a, b \in 1..(n + 1) : a < b => orders'[p][a] < orders'[p][b]
       /\ {orders'[p][a] : a \in 1..(n + 1)} = Recorded(p) \cup {order[t]}
       /\ k \in 1..(n + 1)
  <2>. HIDE DEF s, p, n
  <2>. QED  BY <1>6, <1>7, <1>12, <1>13
<1>16. /\ \A j \in 1..(n + 1) :
            orders'[p][j] = IF j < k THEN s[j] ELSE IF j = k THEN order[t] ELSE s[j - 1]
       /\ \A j \in 1..(n + 1) :
            tape'[p][j] = IF j < k THEN tape[p][j] ELSE IF j = k THEN i ELSE tape[p][j - 1]
  <2>. HIDE DEF s, p, n
  <2>. QED  BY <1>9, <1>10, <1>12, <1>13
<1>. QED  BY <1>1, <1>8, <1>12, <1>14, <1>15, <1>16, Zenon DEF N, I, B, i, k

(* A response recorded up to the unlock.                                   *)
LEMMA RecordInsertStep ==
    ASSUME IInv, NEW t \in Tasks, RecordInsert(t)
    PROVE  IInv'
<1>. DEFINE p == proto[t]
            n == Len(orders[p])
            k == Position(t)
            o == order[t]
<1>1. /\ p \in Proto /\ n \in Nat /\ k \in 1..(n + 1)
      /\ \A q \in Proto : q # p => /\ orders'[q] = orders[q]
                                   /\ tape'[q] = tape[q]
                                   /\ played'[q] = played[q]
      /\ orders'[p] \in Seq(Nat) /\ Len(orders'[p]) = n + 1
      /\ tape'[p] \in Seq(Interaction) /\ Len(tape'[p]) = n + 1
      /\ played'[p] \in Seq(BOOLEAN) /\ Len(played'[p]) = n + 1
  BY InsertedTape, Zenon
<1>2. /\ \A a, b \in 1..(n + 1) : a < b => orders'[p][a] < orders'[p][b]
      /\ {orders'[p][a] : a \in 1..(n + 1)} = Recorded(p) \cup {o}
  BY InsertedTape, Zenon
<1>3. \A j \in 1..(n + 1) :
         orders'[p][j] = IF j < k THEN orders[p][j]
                         ELSE IF j = k THEN o ELSE orders[p][j - 1]
  BY InsertedTape, Zenon
<1>4. \A j \in 1..(n + 1) :
         tape'[p][j] = IF j < k THEN tape[p][j]
                       ELSE IF j = k THEN [req |-> Scrub[req[t]], id |-> o]
                       ELSE tape[p][j - 1]
  BY InsertedTape, Zenon
<1>. HIDE DEF k
<1>5. /\ pc[t] = "live" /\ ~ finalized
      /\ pending' = pending \ {o} /\ save_empty' = FALSE
      /\ pc' = [pc EXCEPT ![t] = "saving"]
  BY DEF RecordInsert
<1>6. UNCHANGED <<mode, can_record, first, next_order, errors, finalized,
                  exists, file, proto, req, order, outcome, answer, fin>>
  BY DEF RecordInsert, session, disk
<1>7. /\ next_order \in Nat /\ first \in Nat /\ pending \subseteq Nat
      /\ order \in [Tasks -> Nat] /\ proto \in [Tasks -> Proto] /\ o \in Nat
      /\ pc \in [Tasks -> {"idle", "live", "verify", "saving", "remember", "done"}]
  BY DEF IInv, TypeOK
<1>8. pc'[t] = "saving" /\ \A u \in Tasks : u # t => pc'[u] = pc[u]
  BY <1>5, <1>7
<1>9. t \notin errors /\ outcome[t] # "recorded"
  BY <1>5 DEF IInv, CallsSettled
<1>10. o \in first..(next_order - 1)
  BY <1>5 DEF IInv, OrdersOwned
<1>11. DOMAIN orders'[p] = 1..(n + 1) /\ DOMAIN orders[p] = 1..n
  <2>1. orders[p] \in Seq(Nat)
    BY <1>1 DEF IInv, TypeOK
  <2>. HIDE DEF p
  <2>. QED  BY <1>1, <2>1
<1>12. /\ DOMAIN orders' = Proto /\ DOMAIN tape' = Proto /\ DOMAIN played' = Proto
       /\ orders' \in [Proto -> Seq(Nat)]
       /\ tape' \in [Proto -> Seq(Interaction)]
       /\ played' \in [Proto -> Seq(BOOLEAN)]
  <2>1. /\ orders' = [orders EXCEPT ![p] = orders'[p]]
        /\ tape' = [tape EXCEPT ![p] = tape'[p]]
        /\ played' = [played EXCEPT ![p] = played'[p]]
        /\ orders \in [Proto -> Seq(Nat)]
        /\ tape \in [Proto -> Seq(Interaction)]
        /\ played \in [Proto -> Seq(BOOLEAN)]
    BY <1>1 DEF RecordInsert, IInv, TypeOK
  <2>. HIDE DEF p
  <2>. QED  BY <1>1, <2>1
<1>13. TypeOK'
  <2>1. \A q \in Proto : /\ Len(tape'[q]) = Len(orders'[q])
                         /\ Len(played'[q]) = Len(orders'[q])
    <3>1. \A q \in Proto : /\ Len(tape[q]) = Len(orders[q])
                           /\ Len(played[q]) = Len(orders[q])
      BY DEF IInv, TypeOK
    <3>. HIDE DEF p, n
    <3>. QED  BY <1>1, <3>1
  <2>2. pending' \subseteq Nat /\ save_empty' \in BOOLEAN
        /\ pc' \in [Tasks -> {"idle", "live", "verify", "saving", "remember", "done"}]
    BY <1>5, <1>7
  <2>. HIDE DEF p, n, o
  <2>. QED  BY <1>6, <1>12, <2>1, <2>2 DEF IInv, TypeOK
<1>14. \A q \in Proto : Recorded(q)' = IF q = p THEN Recorded(q) \cup {o} ELSE Recorded(q)
  <2>1. Recorded(p) \cup {o} = {orders'[p][a] : a \in DOMAIN orders'[p]}
    BY <1>2, <1>11
  <2>2. \A q \in Proto : Recorded(q)' = {orders'[q][a] : a \in DOMAIN orders'[q]}
    BY DEF Recorded
  <2>3. \A q \in Proto : q # p => Recorded(q)' = Recorded(q)
    BY <1>1, <2>2 DEF Recorded
  <2>. QED  BY <2>1, <2>2, <2>3
<1>15. TapeInIssueOrder'
  <2>1. ASSUME NEW q \in Proto
        PROVE  /\ \A i \in DOMAIN orders'[q] :
                    IF orders'[q][i] < first THEN tape'[q][i].id < 0
                                             ELSE tape'[q][i].id = orders'[q][i]
               /\ \A i, j \in DOMAIN orders'[q] : i < j => orders'[q][i] < orders'[q][j]
    <3>1. CASE q # p
      BY <1>1, <3>1 DEF IInv, TapeInIssueOrder
    <3>2. CASE q = p
      <4>1. ASSUME NEW i \in 1..(n + 1)
            PROVE  IF orders'[p][i] < first THEN tape'[p][i].id < 0
                                            ELSE tape'[p][i].id = orders'[p][i]
        <5>1. \A j \in 1..n :
                IF orders[p][j] < first THEN tape[p][j].id < 0
                                        ELSE tape[p][j].id = orders[p][j]
          BY <1>1, <1>11 DEF IInv, TapeInIssueOrder
        <5>. HIDE DEF p, n
        <5>2. CASE i < k
          <6>1. i \in 1..n
            BY <1>1, <5>2
          <6>2. orders'[p][i] = orders[p][i] /\ tape'[p][i] = tape[p][i]
            BY <1>3, <1>4, <5>2
          <6>. QED  BY <5>1, <6>1, <6>2
        <5>3. CASE i = k
          <6>1. orders'[p][i] = o
            BY <1>3, <1>1, <5>3
          <6>2. tape'[p][i].id = o
            BY <1>4, <1>1, <5>3
          <6>3. ~ (o < first)
            BY <1>7, <1>10
          <6>. QED  BY <6>1, <6>2, <6>3
        <5>4. CASE i > k
          <6>1. (i - 1) \in 1..n /\ ~ (i < k) /\ i # k
            BY <1>1, <5>4
          <6>2. orders'[p][i] = orders[p][i - 1] /\ tape'[p][i] = tape[p][i - 1]
            BY <1>3, <1>4, <6>1
          <6>. QED  BY <5>1, <6>1, <6>2
        <5>5. i < k \/ i = k \/ i > k
          BY <1>1
        <5>. QED  BY <5>2, <5>3, <5>4, <5>5, Zenon
      <4>. HIDE DEF p, n
      <4>. QED  BY <1>2, <1>11, <3>2, <4>1
    <3>. QED  BY <3>1, <3>2
  <2>. QED  BY <1>6, <2>1 DEF TapeInIssueOrder
<1>16. OrdersOwned'
  <2>1. first' <= next_order' /\ pending' \subseteq first'..(next_order' - 1)
    BY <1>5, <1>6 DEF IInv, OrdersOwned
  <2>2. \A q \in Proto : \A x \in Recorded(q) : x < next_order
    BY DEF IInv, OrdersOwned, Recorded
  <2>3. \A q \in Proto : \A x \in Recorded(q)' : x < next_order
    BY <1>7, <1>10, <1>14, <2>2
  <2>4. \A q \in Proto : \A i \in DOMAIN orders'[q] : orders'[q][i] < next_order'
    BY <1>6, <2>3 DEF Recorded
  <2>5. ASSUME NEW u \in Tasks, pc'[u] = "live"
        PROVE  /\ order[u] \in first..(next_order - 1)
               /\ \A i \in DOMAIN orders'[proto[u]] : orders'[proto[u]][i] # order[u]
               /\ \A v \in Tasks : v # u /\ pc'[v] = "live" => order[v] # order[u]
    <3>1. u # t /\ pc[u] = "live" /\ proto[u] \in Proto
      BY <1>7, <1>8, <2>5
    <3>2. order[u] # o /\ order[u] \in first..(next_order - 1)
          /\ order[u] \notin Recorded(proto[u])
      BY <1>5, <3>1 DEF IInv, OrdersOwned, Recorded
    <3>3. order[u] \notin Recorded(proto[u])'
      <4>1. Recorded(proto[u])' = Recorded(proto[u]) \cup {o}
            \/ Recorded(proto[u])' = Recorded(proto[u])
        BY <1>6, <1>14, <3>1 DEF Recorded
      <4>. QED  BY <3>2, <4>1
    <3>4. \A v \in Tasks : v # u /\ pc'[v] = "live" => order[v] # order[u]
      BY <1>8, <3>1 DEF IInv, OrdersOwned
    <3>. QED  BY <1>6, <3>2, <3>3, <3>4 DEF Recorded
  <2>. QED  BY <1>6, <2>1, <2>4, <2>5 DEF OrdersOwned
<1>17. CallsSettled'
  <2>1. ASSUME NEW u \in Tasks,
               pc'[u] \in {"saving", "remember"} \/ outcome[u] = "recorded"
        PROVE  order[u] >= first /\ order[u] \in Recorded(proto[u])'
    <3>1. CASE u = t
      BY <1>1, <1>6, <1>7, <1>10, <1>14, <3>1
    <3>2. CASE u # t
      <4>1. order[u] >= first /\ order[u] \in Recorded(proto[u]) /\ proto[u] \in Proto
        BY <1>7, <1>8, <2>1, <3>2 DEF IInv, CallsSettled
      <4>2. Recorded(proto[u])' = Recorded(proto[u]) \cup {o}
            \/ Recorded(proto[u])' = Recorded(proto[u])
        BY <1>6, <1>14, <4>1 DEF Recorded
      <4>. QED  BY <4>1, <4>2
    <3>. QED  BY <3>1, <3>2
  <2>2. \A u \in Tasks : u \in errors \/ outcome[u] = "recorded" => pc'[u] = "done"
    BY <1>8, <1>9 DEF IInv, CallsSettled
  <2>. QED  BY <1>6, <2>1, <2>2 DEF CallsSettled
<1>18. NoOrderLost'
  <2>1. SUFFICES ASSUME NEW x \in first..(next_order - 1)
                 PROVE  \/ x \in pending'
                        \/ \E q \in Proto : x \in Recorded(q)'
                        \/ \E u \in Tasks : u \in errors /\ order[u] = x
    BY <1>6 DEF NoOrderLost
  <2>2. \/ x \in pending
        \/ \E q \in Proto : x \in Recorded(q)
        \/ \E u \in Tasks : u \in errors /\ order[u] = x
    BY DEF IInv, NoOrderLost
  <2>. QED  BY <1>1, <1>5, <1>14, <2>2
<1>19. ReturnedIsDurable'
  BY <1>6 DEF IInv, ReturnedIsDurable
<1>20. SavedOrExplained'
  BY <1>8 DEF SavedOrExplained, MidSave
<1>21. VerdictsSound'
  BY <1>5, <1>6 DEF IInv, VerdictsSound
<1>. QED  BY <1>13, <1>15, <1>16, <1>17, <1>18, <1>19, <1>20, <1>21 DEF IInv

(* Saving writes every interaction of the cassette, and no other.          *)
LEMMA WrittenFile ==
    ASSUME TypeOK, WriteFile
    PROVE  /\ exists' = TRUE
           /\ file' \in [Proto -> Seq(Interaction)]
           /\ \A p \in Proto : Ids(file'[p]) = Ids(tape[p])
<1>. DEFINE h == tape["http"]
            n == Len(h)
            I == Interaction
<1>1. PICK o \in [1..n -> 1..n] :
         /\ EachOnce(o, n) /\ exists' = TRUE
         /\ file' = [tape EXCEPT !["http"] = Arranged(h, o)]
  BY DEF WriteFile, output_order, Serialized
<1>2. h \in Seq(I) /\ n \in Nat /\ DOMAIN h = 1..n /\ tape \in [Proto -> Seq(I)]
  <2>1. tape \in [Proto -> Seq(I)]
    BY DEF TypeOK
  <2>. HIDE DEF I
  <2>. QED  BY <2>1 DEF Proto
<1>. DEFINE a == Arranged(h, o)
<1>3. a = [k \in 1..n |-> h[o[k]]]
  BY <1>1 DEF Arranged
<1>4. \A i \in 1..n : \E k \in 1..n : o[k] = i
  BY <1>1, <1>2, InjectionIsOnto DEF EachOnce
<1>. HIDE DEF a, h, n, I
<1>5. a \in Seq(I) /\ DOMAIN a = 1..n /\ \A k \in 1..n : a[k] = h[o[k]] /\ o[k] \in 1..n
  <2>1. \A k \in 1..n : o[k] \in 1..n /\ h[o[k]] \in I
    BY <1>2
  <2>. QED  BY <1>2, <1>3, <2>1
<1>6. Ids(a) = Ids(h)
  <2>1. \A k \in DOMAIN a : \E i \in DOMAIN h : a[k] = h[i]
    BY <1>2, <1>5
  <2>2. \A i \in DOMAIN h : \E k \in DOMAIN a : a[k] = h[i]
    BY <1>2, <1>4, <1>5
  <2>. QED  BY <2>1, <2>2 DEF Ids
<1>7. file' = [tape EXCEPT !["http"] = a]
  BY <1>1 DEF a, h
<1>8. file' \in [Proto -> Seq(I)]
  BY <1>2, <1>5, <1>7
<1>9. \A p \in Proto : Ids(file'[p]) = Ids(tape[p])
  BY <1>2, <1>6, <1>7 DEF h
<1>. QED  BY <1>1, <1>8, <1>9 DEF I

(* An order recorded in this session is the id of an interaction.          *)
LEMMA RecordedOnTape ==
    ASSUME TypeOK, TapeInIssueOrder, NEW p \in Proto, NEW o \in Recorded(p),
           o >= first
    PROVE  o \in Ids(tape[p])
<1>1. PICK i \in DOMAIN orders[p] : orders[p][i] = o
  BY DEF Recorded
<1>2. o \in Nat /\ first \in Nat /\ i \in DOMAIN tape[p]
  <2>. DEFINE I == Interaction
  <2>1. /\ orders[p] \in Seq(Nat) /\ tape[p] \in Seq(I)
        /\ Len(tape[p]) = Len(orders[p]) /\ first \in Nat
    BY DEF TypeOK
  <2>. HIDE DEF I
  <2>. QED  BY <1>1, <2>1
<1>3. tape[p][i].id = o
  BY <1>1, <1>2 DEF TapeInIssueOrder
<1>. QED  BY <1>2, <1>3 DEF Ids

(* A save that succeeds, of a call or of finish, keeps the invariant.      *)
LEMMA SaveStep ==
    ASSUME IInv, TypeOK', WriteFile,
           UNCHANGED <<session, cassette, next_order, pending, errors,
                       save_empty, finalized, proto, req, order>>,
           \A u \in Tasks :
             \/ pc'[u] = pc[u] /\ outcome'[u] = outcome[u]
             \/ pc[u] = "saving" /\ pc'[u] = "done",
           \A g \in Finishers :
             fin'[g] = fin[g] \/ (fin[g] = "saving" /\ fin'[g] = "report")
    PROVE  IInv'
<1>1. UNCHANGED <<tape, orders, first, next_order, pending, errors,
                  save_empty, finalized, proto, order>>
  BY DEF session, cassette
<1>2. exists' = TRUE /\ \A p \in Proto : Ids(file'[p]) = Ids(tape[p])
  BY WrittenFile DEF IInv
<1>3. TapeInIssueOrder'
  BY <1>1 DEF IInv, TapeInIssueOrder
<1>4. OrdersOwned'
  <2>1. \A u \in Tasks : pc'[u] = "live" => pc[u] = "live"
    OBVIOUS
  <2>. QED  BY <1>1, <2>1 DEF IInv, OrdersOwned
<1>5. CallsSettled'
  <2>1. \A u \in Tasks :
           pc'[u] \in {"saving", "remember"} \/ outcome'[u] = "recorded"
             => pc[u] \in {"saving", "remember"} \/ outcome[u] = "recorded"
    OBVIOUS
  <2>2. \A p \in Proto : Recorded(p)' = Recorded(p)
    BY <1>1 DEF Recorded
  <2>3. \A u \in Tasks : proto[u] \in Proto
    BY DEF IInv, TypeOK
  <2>4. \A u \in Tasks :
           pc'[u] \in {"saving", "remember"} \/ outcome'[u] = "recorded"
             => order[u] >= first /\ order[u] \in Recorded(proto[u])
    BY <2>1 DEF IInv, CallsSettled
  <2>5. \A u \in Tasks : u \in errors \/ outcome'[u] = "recorded" => pc'[u] = "done"
    BY DEF IInv, CallsSettled
  <2>. QED  BY <1>1, <2>2, <2>3, <2>4, <2>5 DEF CallsSettled, Recorded
<1>6. NoOrderLost'
  BY <1>1 DEF IInv, NoOrderLost, Recorded
<1>7. ReturnedIsDurable'
  <2>1. SUFFICES ASSUME NEW u \in Tasks, outcome'[u] = "recorded"
                 PROVE  order[u] \in Ids(file'[proto[u]])
    BY <1>1, <1>2 DEF ReturnedIsDurable
  <2>2. proto[u] \in Proto /\ order[u] >= first /\ order[u] \in Recorded(proto[u])
    BY <2>1 DEF IInv, TypeOK, CallsSettled
  <2>3. order[u] \in Ids(tape[proto[u]])
    BY <2>2, RecordedOnTape DEF IInv
  <2>. QED  BY <1>2, <2>2, <2>3
<1>8. SavedOrExplained'
  BY <1>1, <1>2 DEF SavedOrExplained
<1>9. VerdictsSound'
  <2>1. \A g \in Finishers : /\ fin'[g] # "idle" => fin[g] # "idle"
                             /\ fin'[g] = "ok" => fin[g] = "ok"
    OBVIOUS
  <2>. QED  BY <1>1, <2>1 DEF IInv, VerdictsSound
<1>. QED  BY <1>3, <1>4, <1>5, <1>6, <1>7, <1>8, <1>9 DEF IInv

(* The steps of a call after its response is in the cassette.              *)
LEMMA PersistStep ==
    ASSUME IInv, NEW t \in Tasks, Persist(t)
    PROVE  IInv'
<1>1. CASE SaveSucceeds(t)
  <2>1. /\ pc[t] = "saving" /\ WriteFile
        /\ pc' = [pc EXCEPT ![t] = "done"]
        /\ outcome' = [outcome EXCEPT ![t] = "recorded"]
        /\ UNCHANGED <<session, cassette, next_order, pending, errors,
                       save_empty, finalized, proto, req, order, answer, fin>>
    BY <1>1 DEF SaveSucceeds, Return
  <2>2. TypeOK'
    <3>1. exists' = TRUE /\ file' \in [Proto -> Seq(Interaction)]
      BY <2>1, WrittenFile DEF IInv
    <3>. QED  BY <2>1, <3>1 DEF IInv, TypeOK, session, cassette
  <2>3. \A u \in Tasks :
           \/ pc'[u] = pc[u] /\ outcome'[u] = outcome[u]
           \/ pc[u] = "saving" /\ pc'[u] = "done"
    BY <2>1 DEF IInv, TypeOK
  <2>. QED  BY <2>1, <2>2, <2>3, SaveStep
<1>2. CASE SaveFails(t) \/ RememberError(t)
  <2>1. /\ UNCHANGED <<session, cassette, next_order, pending, save_empty,
                       finalized, disk, proto, req, order, answer, fin>>
        /\ \/ /\ pc[t] = "saving" /\ pc' = [pc EXCEPT ![t] = "remember"]
              /\ errors' = errors /\ outcome' = outcome
           \/ /\ pc[t] = "remember" /\ pc' = [pc EXCEPT ![t] = "done"]
              /\ errors' = errors \cup {t}
              /\ outcome' = [outcome EXCEPT ![t] = "save_error"]
    BY <1>2 DEF SaveFails, RememberError, Return
  <2>2. TypeOK'
    BY <2>1 DEF IInv, TypeOK, session, cassette, disk
  <2>3. /\ UNCHANGED <<tape, orders, first, next_order, pending, save_empty,
                       finalized, exists, file, proto, order, fin>>
    BY <2>1 DEF session, cassette, disk
  <2>4. \A u \in Tasks :
           \/ pc'[u] = pc[u] /\ outcome'[u] = outcome[u] /\ (u \in errors' => u \in errors)
           \/ pc[u] = "saving" /\ pc'[u] = "remember" /\ outcome'[u] = outcome[u]
                /\ (u \in errors' => u \in errors)
           \/ pc[u] = "remember" /\ pc'[u] = "done" /\ outcome'[u] # "recorded"
    BY <2>1 DEF IInv, TypeOK
  <2>5. \A p \in Proto : Recorded(p)' = Recorded(p)
    BY <2>3 DEF Recorded
  <2>6. TapeInIssueOrder'
    BY <2>3 DEF IInv, TapeInIssueOrder
  <2>7. OrdersOwned'
    <3>1. \A u \in Tasks : pc'[u] = "live" => pc[u] = "live"
      BY <2>4
    <3>. QED  BY <2>3, <3>1 DEF IInv, OrdersOwned
  <2>8. CallsSettled'
    <3>1. \A u \in Tasks : proto[u] \in Proto
      BY DEF IInv, TypeOK
    <3>2. \A u \in Tasks :
             pc'[u] \in {"saving", "remember"} \/ outcome'[u] = "recorded"
               => order[u] >= first /\ order[u] \in Recorded(proto[u])
      BY <2>4 DEF IInv, CallsSettled
    <3>3. \A u \in Tasks : u \in errors' \/ outcome'[u] = "recorded" => pc'[u] = "done"
      BY <2>4 DEF IInv, CallsSettled
    <3>. QED  BY <2>3, <2>5, <3>1, <3>2, <3>3 DEF CallsSettled, Recorded
  <2>9. NoOrderLost'
    <3>1. errors \subseteq errors'
      BY <2>1
    <3>. QED  BY <2>3, <3>1 DEF IInv, NoOrderLost, Recorded
  <2>10. ReturnedIsDurable'
    BY <2>3, <2>4 DEF IInv, ReturnedIsDurable
  <2>11. SavedOrExplained'
    <3>1. pc'[t] = "remember" \/ errors' # {}
      BY <2>1 DEF IInv, TypeOK
    <3>. QED  BY <3>1 DEF SavedOrExplained, MidSave
  <2>12. VerdictsSound'
    BY <2>3 DEF IInv, VerdictsSound
  <2>. QED  BY <2>2, <2>6, <2>7, <2>8, <2>9, <2>10, <2>11, <2>12 DEF IInv
<1>. QED  BY <1>1, <1>2 DEF Persist

(* The steps of finish.                                                    *)
LEMMA FinishStep ==
    ASSUME IInv, NEW f \in Finishers, FinishBegin(f) \/ Finish(f)
    PROVE  IInv'
<1>. DEFINE F == {"idle", "saving", "remember", "report", "ok", "incomplete",
                  "recording_error"}
<1>1. fin \in [Finishers -> F] /\ f \notin Tasks
  BY RecorderAssumption DEF IInv, TypeOK
<1>2. fin[f] # "idle" => finalized
  BY DEF IInv, VerdictsSound
<1>3. CASE FinishSaves(f)
  <2>1. /\ fin[f] = "saving" /\ WriteFile
        /\ fin' = [fin EXCEPT ![f] = "report"]
        /\ UNCHANGED <<session, cassette, next_order, pending, errors,
                       save_empty, finalized, pc, proto, req, order, outcome,
                       answer>>
    BY <1>3 DEF FinishSaves, tasks
  <2>2. TypeOK'
    <3>1. exists' = TRUE /\ file' \in [Proto -> Seq(Interaction)]
      BY <2>1, WrittenFile DEF IInv
    <3>. QED  BY <1>1, <2>1, <3>1 DEF IInv, TypeOK, session, cassette
  <2>3. \A g \in Finishers :
           fin'[g] = fin[g] \/ (fin[g] = "saving" /\ fin'[g] = "report")
    BY <1>1, <2>1
  <2>. QED  BY <2>1, <2>2, <2>3, SaveStep
<1>4. CASE \/ FinishBegin(f) \/ FinishSaveFails(f) \/ FinishRemembers(f)
           \/ FinishReport(f)
  <2>1. UNCHANGED <<session, cassette, next_order, pending, save_empty, disk, tasks>>
    BY <1>4 DEF FinishBegin, FinishSaveFails, FinishRemembers, FinishReport
  <2>2. PICK w \in F : fin' = [fin EXCEPT ![f] = w]
    BY <1>4 DEF FinishBegin, FinishSaveFails, FinishRemembers, FinishReport, Report
  <2>3. /\ finalized' = TRUE \/ (finalized' = finalized /\ fin[f] # "idle")
        /\ errors' = errors \/ errors' = errors \cup {f}
    BY <1>4 DEF FinishBegin, FinishSaveFails, FinishRemembers, FinishReport
  <2>4. finalized \in BOOLEAN /\ errors \subseteq Tasks \cup Finishers
    BY DEF IInv, TypeOK
  <2>5. finalized' = TRUE
    BY <1>2, <2>3, <2>4
  <2>6. TypeOK'
    <3>1. fin' \in [Finishers -> F] /\ errors' \subseteq Tasks \cup Finishers
      BY <1>1, <2>2, <2>3, <2>4
    <3>. QED  BY <2>1, <2>5, <3>1 DEF IInv, TypeOK, session, cassette, disk, tasks
  <2>7. fin'[f] = w /\ \A g \in Finishers : g # f => fin'[g] = fin[g]
    BY <1>1, <2>2
  <2>8. /\ fin'[f] = "ok" => pending = {}
        /\ \/ ~ finalized /\ save_empty /\ fin'[f] = "saving"
           \/ finalized /\ fin[f] \in {"saving", "remember"}
                /\ (fin'[f] \in {"saving", "remember"} \/ errors' # {})
           \/ fin[f] \notin {"saving", "remember"} /\ (finalized \/ ~ save_empty)
    BY <1>1, <1>2, <1>4
       DEF FinishBegin, FinishSaveFails, FinishRemembers, FinishReport, Report
  <2>. QED  BY <1>1, <2>1, <2>3, <2>5, <2>6, <2>7, <2>8, QuietFinish
<1>. QED  BY <1>3, <1>4 DEF Finish

(* No step leaves the invariant.                                           *)
LEMMA NextIInv == IInv /\ [Next]_vars => IInv'
<1>1. SUFFICES ASSUME IInv, [Next]_vars PROVE IInv'
  OBVIOUS
<1>2. CASE UNCHANGED vars
  <2>1. UNCHANGED <<mode, can_record, first, tape, played, orders, next_order,
                    pending, errors, save_empty, finalized, exists, file, pc,
                    proto, req, order, outcome, answer, fin>>
    BY <1>2 DEF vars, session, cassette, disk, tasks
  <2>2. TypeOK'
    BY <1>1, <2>1 DEF IInv, TypeOK
  <2>3. TapeInIssueOrder' /\ OrdersOwned' /\ VerdictsSound' /\ ReturnedIsDurable'
    BY <1>1, <2>1 DEF IInv, TapeInIssueOrder, OrdersOwned, VerdictsSound,
                      ReturnedIsDurable
  <2>4. CallsSettled' /\ NoOrderLost' /\ SavedOrExplained'
    BY <1>1, <2>1 DEF IInv, CallsSettled, NoOrderLost, SavedOrExplained,
                      Recorded, MidSave
  <2>. QED  BY <2>2, <2>3, <2>4 DEF IInv
<1>3. ASSUME NEW t \in Tasks, Prepare(t) PROVE IInv'
  <2>1. PICK p \in Proto : \E r \in RequestsOf(p) :
           \/ PrepareClosed(t, p, r)
           \/ PrepareReplay(t, p, r)
           \/ PrepareNoMatch(t, p, r)
           \/ PrepareReserve(t, p, r)
    BY <1>3 DEF Prepare
  <2>2. PICK r \in RequestsOf(p) :
           \/ PrepareClosed(t, p, r)
           \/ PrepareReplay(t, p, r)
           \/ PrepareNoMatch(t, p, r)
           \/ PrepareReserve(t, p, r)
    BY <2>1
  <2>. QED  BY <1>1, <2>2, PrepareClosedStep, PrepareReplayStep, PrepareReserveStep
<1>4. ASSUME NEW t \in Tasks, LiveEnds(t) PROVE IInv'
  BY <1>1, <1>4, LiveEndsStep, RecordInsertStep DEF LiveEnds
<1>5. ASSUME NEW t \in Tasks, Persist(t) PROVE IInv'
  BY <1>1, <1>5, PersistStep
<1>6. ASSUME NEW f \in Finishers, FinishBegin(f) \/ Finish(f) PROVE IInv'
  BY <1>1, <1>6, FinishStep
<1>. QED  BY <1>1, <1>2, <1>3, <1>4, <1>5, <1>6 DEF Next

-----------------------------------------------------------------------------
(* The theorems                                                            *)

(* Every state of every session satisfies the inductive invariant.         *)
THEOREM RecorderInvariant == Spec => []IInv
  BY InitIInv, NextIInv, PTL DEF Spec

(* Each interaction keeps its order and its played flag, so that           *)
(* insert_interaction never meets its "out of range" error.                *)
THEOREM RecorderTypeOK == Spec => []TypeOK
<1>1. IInv => TypeOK
  BY DEF IInv
<1>. QED  BY <1>1, RecorderInvariant, PTL

(* The cassette stays in issue order however the responses interleave.     *)
THEOREM IssueOrderKept == Spec => []TapeInIssueOrder
<1>1. IInv => TapeInIssueOrder
  BY DEF IInv
<1>. QED  BY <1>1, RecorderInvariant, PTL

(* No reserved order disappears from the books finish reads.               *)
THEOREM EveryOrderAccounted == Spec => []NoOrderLost
<1>1. IInv => NoOrderLost
  BY DEF IInv
<1>. QED  BY <1>1, RecorderInvariant, PTL

(* A response handed to the caller is on disk, and stays there.            *)
THEOREM ReturnedResponsesDurable == Spec => []ReturnedIsDurable
<1>1. IInv => ReturnedIsDurable
  BY DEF IInv
<1>. QED  BY <1>1, RecorderInvariant, PTL

-----------------------------------------------------------------------------
(* What no step does                                                       *)

(* Of the cassette and the file, a step inserts one interaction, or saves, *)
(* or leaves both alone.                                                   *)
LEMMA StepsOfTheTape ==
    ASSUME IInv, [Next]_vars
    PROVE  \/ \E t \in Tasks : RecordInsert(t)
           \/ WriteFile /\ UNCHANGED <<tape, pending, next_order>>
           \/ UNCHANGED <<tape, file>>
<1>1. CASE UNCHANGED vars
  BY <1>1 DEF vars, cassette, disk
<1>2. ASSUME NEW t \in Tasks, Prepare(t) PROVE UNCHANGED <<tape, file>>
  BY <1>2 DEF Prepare, PrepareClosed, PrepareReplay, PrepareNoMatch, PrepareReserve,
              cassette, disk
<1>3. ASSUME NEW t \in Tasks, LiveEnds(t), ~ RecordInsert(t)
      PROVE  UNCHANGED <<tape, file>>
  BY <1>3 DEF LiveEnds, LiveFails, Dropped, Verified, RecordClosed, RecordRejected,
              cassette, disk
<1>4. ASSUME NEW t \in Tasks, Persist(t)
      PROVE  (WriteFile /\ UNCHANGED <<tape, pending, next_order>>) \/ UNCHANGED <<tape, file>>
  BY <1>4 DEF Persist, SaveSucceeds, SaveFails, RememberError, cassette, disk
<1>5. ASSUME NEW f \in Finishers, FinishBegin(f) \/ Finish(f)
      PROVE  (WriteFile /\ UNCHANGED <<tape, pending, next_order>>) \/ UNCHANGED <<tape, file>>
  BY <1>5 DEF Finish, FinishBegin, FinishSaves, FinishSaveFails, FinishRemembers,
              FinishReport, cassette, disk
<1>. QED  BY <1>1, <1>2, <1>3, <1>4, <1>5, Zenon DEF Next

(* A closed recorder with nothing pending takes no more orders.            *)
LEMMA ClosedStep ==
    ASSUME IInv, [Next]_vars, finalized, pending = {}
    PROVE  tape' = tape /\ pending' = pending /\ next_order' = next_order
<1>1. CASE UNCHANGED vars
  BY <1>1 DEF vars, cassette
<1>2. ASSUME NEW t \in Tasks, Prepare(t)
      PROVE  tape' = tape /\ pending' = pending /\ next_order' = next_order
  BY <1>2 DEF Prepare, PrepareClosed, PrepareReplay, PrepareNoMatch, PrepareReserve,
              cassette
<1>3. ASSUME NEW t \in Tasks, LiveEnds(t)
      PROVE  tape' = tape /\ pending' = pending /\ next_order' = next_order
  BY <1>3 DEF LiveEnds, LiveFails, Dropped, Verified, RecordClosed, RecordRejected,
              RecordInsert, cassette
<1>4. ASSUME NEW t \in Tasks, Persist(t)
      PROVE  tape' = tape /\ pending' = pending /\ next_order' = next_order
  BY <1>4 DEF Persist, SaveSucceeds, SaveFails, RememberError, cassette
<1>5. ASSUME NEW f \in Finishers, FinishBegin(f) \/ Finish(f)
      PROVE  tape' = tape /\ pending' = pending /\ next_order' = next_order
  BY <1>5 DEF Finish, FinishBegin, FinishSaves, FinishSaveFails, FinishRemembers,
              FinishReport, cassette
<1>. QED  BY <1>1, <1>2, <1>3, <1>4, <1>5, Zenon DEF Next

(* Once finish returned Ok, no late response changes the cassette, the     *)
(* orders or what is pending.                                              *)
THEOREM OkVerdictIsFinal == Spec => OkIsFinal
<1>1. ASSUME IInv, [Next]_vars, NEW f \in Finishers, fin[f] = "ok"
      PROVE  tape' = tape /\ pending' = pending /\ next_order' = next_order
  <2>1. finalized /\ pending = {}
    BY <1>1 DEF IInv, VerdictsSound
  <2>. QED  BY <1>1, <2>1, ClosedStep
<1>2. IInv /\ [Next]_vars =>
        [(\E f \in Finishers : fin[f] = "ok")
            => tape' = tape /\ pending' = pending /\ next_order' = next_order]_vars
  BY <1>1
<1>. QED  BY <1>2, RecorderInvariant, PTL DEF Spec, OkIsFinal

(* Every recording of this session that is in the file is in the cassette  *)
(* the next save writes.                                                   *)
FileFromTape ==
    \A p \in Proto : \A o \in Ids(file[p]) : o >= 0 => o \in Ids(tape[p])

(* An insertion removes nothing from the cassette.                         *)
LEMMA InsertKeepsIds ==
    ASSUME IInv, NEW t \in Tasks, RecordInsert(t), NEW q \in Proto
    PROVE  Ids(tape[q]) \subseteq Ids(tape'[q])
<1>. DEFINE p == proto[t]
            n == Len(orders[p])
            k == Position(t)
<1>1. /\ p \in Proto /\ n \in Nat /\ k \in 1..(n + 1)
      /\ \A u \in Proto : u # p => tape'[u] = tape[u]
      /\ tape'[p] \in Seq(Interaction) /\ Len(tape'[p]) = n + 1
  BY InsertedTape, Zenon
<1>2. \A j \in 1..(n + 1) :
         tape'[p][j] = IF j < k THEN tape[p][j]
                       ELSE IF j = k THEN [req |-> Scrub[req[t]], id |-> order[t]]
                       ELSE tape[p][j - 1]
  BY InsertedTape, Zenon
<1>3. CASE q # p
  BY <1>1, <1>3
<1>4. CASE q = p
  <2>. DEFINE I == Interaction
  <2>1. /\ tape[p] \in Seq(I) /\ Len(tape[p]) = n
        /\ tape'[p] \in Seq(I) /\ Len(tape'[p]) = n + 1
    BY <1>1 DEF IInv, TypeOK
  <2>. HIDE DEF I, n, k, p
  <2>2. DOMAIN tape[p] = 1..n /\ DOMAIN tape'[p] = 1..(n + 1)
    BY <2>1
  <2>3. ASSUME NEW i \in 1..n
        PROVE  \E j \in 1..(n + 1) : tape'[p][j] = tape[p][i]
    <3>1. CASE i < k
      <4>1. i \in 1..(n + 1)
        BY <1>1
      <4>. QED  BY <1>2, <3>1, <4>1
    <3>2. CASE ~ (i < k)
      <4>1. (i + 1) \in 1..(n + 1) /\ ~ (i + 1 < k) /\ i + 1 # k /\ (i + 1) - 1 = i
        BY <1>1, <3>2
      <4>2. tape'[p][i + 1] = tape[p][i]
        BY <1>2, <4>1
      <4>. QED  BY <4>1, <4>2
    <3>. QED  BY <3>1, <3>2
  <2>. QED  BY <1>4, <2>2, <2>3 DEF Ids
<1>. QED  BY <1>3, <1>4

(* The cassette and the file start with nothing of this session.          *)
LEMMA InitOldOnly ==
    ASSUME Init
    PROVE  OldOnly(tape) /\ OldOnly(file)
<1>1. PICK there \in BOOLEAN, on_disk \in [Proto -> Seq(Interaction)],
           ws \in Nat, m \in Modes :
             OldOnly(on_disk) /\ OpenWith(there, on_disk, ws, m)
  BY InitOpened
<1>. QED  BY <1>1, OpenFacts

LEMMA InitFileFromTape == Init => FileFromTape
<1>1. SUFFICES ASSUME Init, NEW p \in Proto, NEW o \in Ids(file[p]) PROVE ~ (o >= 0)
  BY DEF FileFromTape
<1>2. file \in [Proto -> Seq(Interaction)]
  BY <1>1, InitIInv DEF IInv, TypeOK
<1>3. DOMAIN file[p] = 1..Len(file[p])
  <2>. DEFINE I == Interaction
  <2>1. file \in [Proto -> Seq(I)]
    BY <1>2
  <2>. HIDE DEF I
  <2>. QED  BY <2>1
<1>4. PICK i \in 1..Len(file[p]) : o = file[p][i].id
  BY <1>1, <1>3 DEF Ids
<1>5. file[p][i] \in Interaction
  BY <1>2, <1>3, SeqElement
<1>6. file[p][i].id < 0 /\ file[p][i].id \in Int
  BY <1>1, <1>5, InitOldOnly DEF OldOnly, Interaction
<1>. QED  BY <1>4, <1>6

(* A step keeps the recordings of the file, and the file behind the        *)
(* cassette.                                                               *)
LEMMA FileStep ==
    ASSUME IInv, FileFromTape, [Next]_vars
    PROVE  /\ FileFromTape'
           /\ \A p \in Proto : \A o \in Ids(file[p]) : o >= 0 => o \in Ids(file'[p])
<1>1. ASSUME NEW t \in Tasks, RecordInsert(t)
      PROVE  FileFromTape' /\ file' = file
  <2>1. file' = file
    BY <1>1 DEF RecordInsert, disk
  <2>2. \A p \in Proto : Ids(tape[p]) \subseteq Ids(tape'[p])
    BY <1>1, InsertKeepsIds
  <2>. QED  BY <2>1, <2>2 DEF FileFromTape, Ids
<1>2. CASE WriteFile /\ UNCHANGED <<tape, pending, next_order>>
  <2>1. \A p \in Proto : Ids(file'[p]) = Ids(tape[p])
    BY <1>2, WrittenFile DEF IInv
  <2>. QED  BY <1>2, <2>1 DEF FileFromTape, Ids
<1>3. CASE UNCHANGED <<tape, file>>
  BY <1>3 DEF FileFromTape, Ids
<1>. QED  BY <1>1, <1>2, <1>3, StepsOfTheTape

(* A save never removes a recording of this session from the file, in      *)
(* whatever order the calls save.                                          *)
THEOREM NoSaveLosesRecordings == Spec => SavesNeverLoseRecordings
<1>1. IInv /\ FileFromTape /\ [Next]_vars => FileFromTape'
  BY FileStep
<1>2. IInv /\ FileFromTape /\ [Next]_vars =>
        [\A p \in Proto : \A o \in Ids(file[p]) : o >= 0 => o \in Ids(file'[p])]_vars
  BY FileStep
<1>. QED  BY <1>1, <1>2, InitFileFromTape, RecorderInvariant, PTL
          DEF Spec, SavesNeverLoseRecordings


-----------------------------------------------------------------------------
(* What an Ok of finish accounts for                                       *)

(* What is in the cassette and not in the file belongs to a call that is   *)
(* at its save or failed at it.                                            *)
UnsavedKnown ==
    \A p \in Proto : \A o \in Ids(tape[p]) : o \in Ids(file[p]) \/ Unsaved(o)

(* After an Ok every reserved order is in the cassette.                    *)
OkComplete ==
    (\E f \in Finishers : fin[f] = "ok") =>
        \A o \in first..(next_order - 1) : \E p \in Proto : o \in Ids(tape[p])

(* The file a session opens is the cassette, or the cassette is empty.     *)
LEMMA InitUnsavedKnown == Init => UnsavedKnown
<1>1. SUFFICES ASSUME Init PROVE UnsavedKnown
  OBVIOUS
<1>2. PICK there \in BOOLEAN, on_disk \in [Proto -> Seq(Interaction)],
           ws \in Nat, m \in Modes :
             OldOnly(on_disk) /\ OpenWith(there, on_disk, ws, m)
  BY <1>1, InitOpened
<1>3. tape = NoInteractions \/ (tape = on_disk /\ file = on_disk)
  BY <1>2 DEF OpenWith, Replaces
<1>4. \A p \in Proto : Ids(NoInteractions[p]) = {}
  BY DEF NoInteractions, Ids
<1>. QED  BY <1>3, <1>4 DEF UnsavedKnown

LEMMA InitOkComplete == Init => OkComplete
  BY DEF Init, NoCalls, OkComplete

(* An insertion adds the order of its call alone.                          *)
LEMMA InsertAddsOrder ==
    ASSUME IInv, NEW t \in Tasks, RecordInsert(t), NEW q \in Proto
    PROVE  Ids(tape'[q]) \subseteq Ids(tape[q]) \cup {order[t]}
<1>. DEFINE p == proto[t]
            n == Len(orders[p])
            k == Position(t)
<1>1. /\ p \in Proto /\ n \in Nat /\ k \in 1..(n + 1)
      /\ \A u \in Proto : u # p => tape'[u] = tape[u]
      /\ tape'[p] \in Seq(Interaction) /\ Len(tape'[p]) = n + 1
  BY InsertedTape, Zenon
<1>2. \A j \in 1..(n + 1) :
         tape'[p][j] = IF j < k THEN tape[p][j]
                       ELSE IF j = k THEN [req |-> Scrub[req[t]], id |-> order[t]]
                       ELSE tape[p][j - 1]
  BY InsertedTape, Zenon
<1>3. CASE q # p
  BY <1>1, <1>3
<1>4. CASE q = p
  <2>. DEFINE I == Interaction
  <2>1. /\ tape[p] \in Seq(I) /\ Len(tape[p]) = n
        /\ tape'[p] \in Seq(I) /\ Len(tape'[p]) = n + 1
    BY <1>1 DEF IInv, TypeOK
  <2>. HIDE DEF I, n, k, p
  <2>2. DOMAIN tape[p] = 1..n /\ DOMAIN tape'[p] = 1..(n + 1)
    BY <2>1
  <2>3. ASSUME NEW j \in 1..(n + 1)
        PROVE  tape'[p][j].id = order[t] \/ \E i \in 1..n : tape'[p][j] = tape[p][i]
    <3>1. CASE j < k
      <4>1. j \in 1..n
        BY <1>1, <3>1
      <4>. QED  BY <1>2, <3>1, <4>1
    <3>2. CASE j = k
      <4>1. tape'[p][j] = [req |-> Scrub[req[t]], id |-> order[t]]
        BY <1>1, <1>2, <3>2
      <4>. QED  BY <4>1
    <3>3. CASE j > k
      <4>1. j - 1 \in 1..n /\ ~ (j < k) /\ j # k
        BY <1>1, <3>3
      <4>2. tape'[p][j] = tape[p][j - 1]
        BY <1>2, <4>1
      <4>. QED  BY <4>1, <4>2
    <3>. QED  BY <1>1, <3>1, <3>2, <3>3
  <2>. QED  BY <1>4, <2>2, <2>3 DEF Ids
<1>. QED  BY <1>3, <1>4

(* A call that has its save to do, or failed at it, is still there after a *)
(* step that saves nothing.                                                *)
LEMMA UnsavedStays ==
    ASSUME IInv, [Next]_vars, NEW o, Unsaved(o)
    PROVE  Unsaved(o)' \/ (WriteFile /\ UNCHANGED <<tape, pending, next_order>>)
<1>1. PICK u \in Tasks : order[u] = o /\ (pc[u] \in {"saving", "remember"} \/ u \in errors)
  BY DEF Unsaved
<1>2. pc[u] \in {"saving", "remember", "done"}
      /\ pc \in [Tasks -> {"idle", "live", "verify", "saving", "remember", "done"}]
      /\ order \in [Tasks -> Nat]
  BY <1>1 DEF IInv, CallsSettled, TypeOK
<1>3. SUFFICES ASSUME ~ (WriteFile /\ UNCHANGED <<tape, pending, next_order>>)
               PROVE  /\ order'[u] = order[u]
                      /\ errors \subseteq errors'
                      /\ pc[u] \in {"saving", "remember"}
                           => pc'[u] \in {"saving", "remember"} \/ u \in errors'
  BY <1>1 DEF Unsaved
<1>4. CASE UNCHANGED vars
  BY <1>4 DEF vars, tasks
<1>5. ASSUME NEW t \in Tasks, Prepare(t)
      PROVE  /\ order'[u] = order[u] /\ errors' = errors /\ pc'[u] = pc[u]
  <2>1. /\ pc[t] = "idle" /\ errors' = errors
        /\ order' = order \/ order' = [order EXCEPT ![t] = next_order]
        /\ \E w \in {"live", "verify", "done"} : pc' = [pc EXCEPT ![t] = w]
    BY <1>5 DEF Prepare, PrepareClosed, PrepareReplay, PrepareNoMatch, PrepareReserve,
                Call, Return
  <2>2. u # t
    BY <1>2, <2>1
  <2>. QED  BY <1>2, <2>1, <2>2
<1>6. ASSUME NEW t \in Tasks, LiveEnds(t)
      PROVE  /\ order'[u] = order[u] /\ errors \subseteq errors' /\ pc'[u] = pc[u]
  <2>1. /\ pc[t] \in {"live", "verify"} /\ order' = order
        /\ errors' = errors \/ errors' = errors \cup {t}
        /\ \E w \in {"saving", "done"} : pc' = [pc EXCEPT ![t] = w]
    BY <1>6 DEF LiveEnds, LiveFails, Dropped, Verified, RecordClosed, RecordRejected,
                RecordInsert, Return
  <2>2. u # t
    BY <1>2, <2>1
  <2>. QED  BY <1>2, <2>1, <2>2
<1>7. ASSUME NEW t \in Tasks, Persist(t)
      PROVE  /\ order'[u] = order[u] /\ errors \subseteq errors'
             /\ pc[u] \in {"saving", "remember"}
                  => pc'[u] \in {"saving", "remember"} \/ u \in errors'
  <2>1. ~ SaveSucceeds(t)
    BY <1>3 DEF SaveSucceeds, cassette
  <2>2. /\ order' = order
        /\ \/ errors' = errors /\ pc' = [pc EXCEPT ![t] = "remember"]
           \/ errors' = errors \cup {t} /\ pc' = [pc EXCEPT ![t] = "done"]
    BY <1>7, <2>1 DEF Persist, SaveFails, RememberError, Return
  <2>. QED  BY <1>2, <2>2
<1>8. ASSUME NEW f \in Finishers, FinishBegin(f) \/ Finish(f)
      PROVE  order' = order /\ errors \subseteq errors' /\ pc' = pc
  BY <1>8 DEF Finish, FinishBegin, FinishSaves, FinishSaveFails, FinishRemembers,
              FinishReport, tasks
<1>. QED  BY <1>4, <1>5, <1>6, <1>7, <1>8, Zenon DEF Next

LEMMA UnsavedKnownStep ==
    ASSUME IInv, UnsavedKnown, [Next]_vars
    PROVE  UnsavedKnown'
<1>1. ASSUME NEW t \in Tasks, RecordInsert(t) PROVE UnsavedKnown'
  <2>1. /\ file' = file /\ order' = order /\ errors' = errors
        /\ pc[t] = "live" /\ pc' = [pc EXCEPT ![t] = "saving"]
        /\ pc \in [Tasks -> {"idle", "live", "verify", "saving", "remember", "done"}]
    BY <1>1 DEF RecordInsert, disk, IInv, TypeOK
  <2>2. ASSUME NEW o, Unsaved(o) \/ o = order[t] PROVE Unsaved(o)'
    BY <2>1, <2>2 DEF Unsaved
  <2>3. \A p \in Proto : Ids(tape'[p]) \subseteq Ids(tape[p]) \cup {order[t]}
    BY <1>1, InsertAddsOrder
  <2>4. SUFFICES ASSUME NEW p \in Proto, NEW o \in Ids(tape'[p])
                 PROVE  o \in Ids(file'[p]) \/ Unsaved(o)'
    BY DEF UnsavedKnown, Ids
  <2>5. o \in Ids(file[p]) \/ Unsaved(o) \/ o = order[t]
    BY <2>3, <2>4 DEF UnsavedKnown
  <2>. QED  BY <2>1, <2>2, <2>5
<1>2. CASE WriteFile /\ UNCHANGED <<tape, pending, next_order>>
  <2>1. \A p \in Proto : Ids(file'[p]) = Ids(tape[p])
    BY <1>2, WrittenFile DEF IInv
  <2>. QED  BY <1>2, <2>1 DEF UnsavedKnown, Ids
<1>3. CASE /\ UNCHANGED <<tape, file>>
           /\ ~ (WriteFile /\ UNCHANGED <<tape, pending, next_order>>)
  <2>1. \A o : Unsaved(o) => Unsaved(o)'
    BY <1>3, UnsavedStays
  <2>2. SUFFICES ASSUME NEW p \in Proto, NEW o \in Ids(tape'[p])
                 PROVE  o \in Ids(file'[p]) \/ Unsaved(o)'
    BY DEF UnsavedKnown, Ids
  <2>3. o \in Ids(tape[p])
    BY <1>3, <2>2
  <2>. QED  BY <1>3, <2>1, <2>3 DEF UnsavedKnown
<1>. QED  BY <1>1, <1>2, <1>3, StepsOfTheTape

(* A step leaves what the session is, and gives a verdict in one way.      *)
LEMMA SessionKept ==
    ASSUME [Next]_vars PROVE UNCHANGED session
<1>1. CASE UNCHANGED vars
  BY <1>1 DEF vars
<1>2. ASSUME NEW t \in Tasks, Prepare(t) PROVE UNCHANGED session
  BY <1>2 DEF Prepare, PrepareClosed, PrepareReplay, PrepareNoMatch, PrepareReserve
<1>3. ASSUME NEW t \in Tasks, LiveEnds(t) PROVE UNCHANGED session
  BY <1>3 DEF LiveEnds, LiveFails, Dropped, Verified, RecordClosed, RecordRejected,
              RecordInsert
<1>4. ASSUME NEW t \in Tasks, Persist(t) PROVE UNCHANGED session
  BY <1>4 DEF Persist, SaveSucceeds, SaveFails, RememberError
<1>5. ASSUME NEW f \in Finishers, FinishBegin(f) \/ Finish(f) PROVE UNCHANGED session
  BY <1>5 DEF Finish, FinishBegin, FinishSaves, FinishSaveFails, FinishRemembers,
              FinishReport
<1>. QED  BY <1>1, <1>2, <1>3, <1>4, <1>5, Zenon DEF Next

LEMMA VerdictGiven ==
    ASSUME IInv, [Next]_vars, NEW f \in Finishers, fin[f] # "ok", fin'[f] = "ok"
    PROVE  FinishReport(f)
<1>1. fin \in [Finishers -> {"idle", "saving", "remember", "report", "ok",
                             "incomplete", "recording_error"}]
  BY DEF IInv, TypeOK
<1>2. CASE UNCHANGED vars
  BY <1>2 DEF vars
<1>3. ASSUME NEW t \in Tasks, Prepare(t) \/ LiveEnds(t) \/ Persist(t) PROVE fin' = fin
  BY <1>3 DEF Prepare, PrepareClosed, PrepareReplay, PrepareNoMatch, PrepareReserve,
              LiveEnds, LiveFails, Dropped, Verified, RecordClosed, RecordRejected,
              RecordInsert, Persist, SaveSucceeds, SaveFails, RememberError
<1>4. ASSUME NEW g \in Finishers, FinishBegin(g) \/ Finish(g)
      PROVE  FinishReport(f)
  <2>1. \/ FinishReport(g)
        \/ \E w \in {"saving", "remember", "report"} : fin' = [fin EXCEPT ![g] = w]
    BY <1>4 DEF Finish, FinishBegin, FinishSaves, FinishSaveFails, FinishRemembers
  <2>2. fin' = [fin EXCEPT ![g] = fin'[g]]
    BY <1>1, <2>1 DEF FinishReport
  <2>3. g = f
    BY <1>1, <2>2
  <2>. QED  BY <1>1, <2>1, <2>3
<1>. QED  BY <1>2, <1>3, <1>4, Zenon DEF Next

LEMMA OkCompleteStep ==
    ASSUME IInv, OkComplete, [Next]_vars
    PROVE  OkComplete'
<1>1. SUFFICES ASSUME NEW f \in Finishers, fin'[f] = "ok", NEW o \in first'..(next_order' - 1)
               PROVE  \E p \in Proto : o \in Ids(tape'[p])
  BY DEF OkComplete, Ids
<1>2. CASE fin[f] = "ok"
  <2>1. tape' = tape /\ next_order' = next_order
    <3>1. finalized /\ pending = {}
      BY <1>2 DEF IInv, VerdictsSound
    <3>. QED  BY <3>1, ClosedStep
  <2>2. first' = first
    BY SessionKept DEF session
  <2>. QED  BY <1>1, <1>2, <2>1, <2>2 DEF OkComplete
<1>3. CASE fin[f] # "ok"
  <2>1. FinishReport(f)
    BY <1>1, <1>3, VerdictGiven
  <2>2. /\ tape' = tape /\ first' = first /\ next_order' = next_order
        /\ pending = {} /\ errors = {}
    <3>1. fin' = [fin EXCEPT ![f] = Report(pending # {}, errors # {})]
          /\ tape' = tape /\ first' = first /\ next_order' = next_order
      BY <2>1 DEF FinishReport, session, cassette
    <3>2. Report(pending # {}, errors # {}) = "ok"
      BY <1>1, <3>1 DEF IInv, TypeOK
    <3>. QED  BY <3>1, <3>2 DEF Report
  <2>3. o \in first..(next_order - 1)
    BY <1>1, <2>2
  <2>4. PICK p \in Proto : o \in Recorded(p)
    BY <2>2, <2>3 DEF IInv, NoOrderLost
  <2>5. o >= first
    BY <2>3 DEF IInv, TypeOK
  <2>6. o \in Ids(tape[p])
    BY <2>4, <2>5, RecordedOnTape DEF IInv
  <2>. QED  BY <2>2, <2>6
<1>. QED  BY <1>2, <1>3

(* An Ok of finish accounts for every reserved order: it is in the         *)
(* cassette, and in the file unless its own call is at its save or failed  *)
(* at it; and the file is the cassette when no call is.                    *)
THEOREM OkMeansSaved == Spec => []FinishOkMeansSaved
<1>1. IInv /\ UnsavedKnown /\ OkComplete => FinishOkMeansSaved
  <2>1. SUFFICES ASSUME IInv, UnsavedKnown, OkComplete,
                        NEW f \in Finishers, fin[f] = "ok"
                 PROVE  /\ \A o \in first..(next_order - 1) :
                             \E p \in Proto : o \in Ids(tape[p])
                        /\ \A p \in Proto : \A o \in Ids(tape[p]) :
                             o \in Ids(file[p]) \/ Unsaved(o)
                        /\ ~ MidSave /\ errors = {} =>
                             \A p \in Proto : Ids(file[p]) = Ids(tape[p])
    BY DEF FinishOkMeansSaved
  <2>2. finalized
    BY <2>1 DEF IInv, VerdictsSound
  <2>3. ~ MidSave /\ errors = {} => \A p \in Proto : Ids(file[p]) = Ids(tape[p])
    BY <2>1, <2>2 DEF IInv, SavedOrExplained
  <2>. QED  BY <2>1, <2>3 DEF UnsavedKnown, OkComplete
<1>2. IInv /\ UnsavedKnown /\ OkComplete /\ [Next]_vars => UnsavedKnown' /\ OkComplete'
  BY UnsavedKnownStep, OkCompleteStep
<1>3. Init => UnsavedKnown /\ OkComplete
  BY InitUnsavedKnown, InitOkComplete
<1>. QED  BY <1>1, <1>2, <1>3, RecorderInvariant, PTL DEF Spec
-----------------------------------------------------------------------------
(* An interaction answers one request of a recording session               *)

(* An interaction that some request took.                                  *)
UsedUp(p, x) ==
    \E i \in DOMAIN tape[p] : tape[p][i].id = x /\ played[p][i] = TRUE

(* Ids tell the interactions apart.                                        *)
IdsDiffer ==
    \A p \in Proto : \A i, j \in DOMAIN tape[p] : i # j => tape[p][i].id # tape[p][j].id

(* While the session records, what it recorded itself is never fresh.      *)
RecordedPlayed ==
    can_record =>
        \A p \in Proto : \A i \in DOMAIN tape[p] :
            ~ (tape[p][i].id < 0) => played[p][i] = TRUE

(* A replayed request took an interaction of an earlier session.           *)
AnswersUsedUp ==
    \A t \in Tasks : outcome[t] = "replayed" =>
        /\ pc[t] = "done"
        /\ can_record => answer[t] < 0 /\ UsedUp(proto[t], answer[t])

ReplayInv == IdsDiffer /\ RecordedPlayed /\ AnswersUsedUp /\ RecordingReplaysOnce

LEMMA InitReplayInv == Init => ReplayInv
<1>1. SUFFICES ASSUME Init PROVE ReplayInv
  OBVIOUS
<1>2. TypeOK
  BY <1>1, InitIInv DEF IInv
<1>3. \A p \in Proto : DOMAIN tape[p] = 1..Len(tape[p])
  <2>. DEFINE I == Interaction
  <2>1. tape \in [Proto -> Seq(I)]
    BY <1>2 DEF TypeOK
  <2>. HIDE DEF I
  <2>. QED  BY <2>1
<1>4. OldOnly(tape)
  BY <1>1, InitOldOnly
<1>5. IdsDiffer
  BY <1>3, <1>4 DEF IdsDiffer, OldOnly
<1>6. RecordedPlayed
  BY <1>3, <1>4 DEF RecordedPlayed, OldOnly
<1>7. AnswersUsedUp /\ RecordingReplaysOnce
  BY <1>1 DEF Init, NoCalls, AnswersUsedUp, RecordingReplaysOnce
<1>. QED  BY <1>5, <1>6, <1>7 DEF ReplayInv

(* While the session records, the answer to a request is an interaction    *)
(* no request took.                                                        *)
LEMMA FoundIsFresh ==
    ASSUME TypeOK, can_record, NEW p \in Proto, NEW r \in RequestsOf(p),
           Found(p, r) # 0
    PROVE  played[p][Found(p, r)] = FALSE
<1>. DEFINE C == Candidates(p, r)
            fresh == {i \in C : ~ (i \in DOMAIN played[p] /\ played[p][i])}
<1>1. Found(p, r) \in DOMAIN tape[p]
  BY FoundInTape
<1>2. DOMAIN tape[p] = DOMAIN played[p] /\ DOMAIN tape[p] \subseteq Nat
  <2>. DEFINE I == Interaction
              B == BOOLEAN
  <2>1. tape \in [Proto -> Seq(I)] /\ played \in [Proto -> Seq(B)]
          /\ Len(tape[p]) = Len(played[p])
    BY DEF TypeOK
  <2>. HIDE DEF I, B
  <2>. QED  BY <2>1
<1>3. fresh \subseteq Nat
  BY <1>2 DEF Candidates, Matching
<1>4. Found(p, r) = Min(fresh) /\ fresh # {}
  BY DEF Found, pick
<1>. HIDE DEF fresh
<1>5. Found(p, r) \in fresh
  BY <1>3, <1>4, MinIsLeast
<1>. DEFINE f == Found(p, r)
<1>. HIDE DEF f
<1>6. ~ (f \in DOMAIN played[p] /\ played[p][f])
  BY <1>5 DEF fresh, f
<1>7. f \in DOMAIN played[p]
  BY <1>1, <1>2 DEF f
<1>8. played[p][f] \in BOOLEAN
  <2>1. played[p] \in Seq(BOOLEAN)
    BY DEF TypeOK
  <2>. QED  BY <1>7, <2>1, SeqElement
<1>. QED  BY <1>6, <1>7, <1>8 DEF f

(* A step that leaves the cassette alone and replays nothing.              *)
LEMMA NothingReplayed ==
    ASSUME ReplayInv, UNCHANGED <<tape, played, can_record>>,
           \A u \in Tasks :
             \/ outcome'[u] # "replayed"
             \/ /\ outcome'[u] = outcome[u] /\ answer'[u] = answer[u]
                /\ pc[u] = "done" => pc'[u] = "done" /\ proto'[u] = proto[u]
    PROVE  ReplayInv'
<1>1. IdsDiffer' /\ RecordedPlayed'
  BY DEF ReplayInv, IdsDiffer, RecordedPlayed
<1>2. ASSUME NEW u \in Tasks, outcome'[u] = "replayed"
      PROVE  /\ outcome[u] = "replayed" /\ pc[u] = "done" /\ answer'[u] = answer[u]
             /\ pc'[u] = "done" /\ proto'[u] = proto[u]
             /\ can_record => answer[u] < 0 /\ UsedUp(proto[u], answer[u])
  BY <1>2 DEF ReplayInv, AnswersUsedUp
<1>3. AnswersUsedUp'
  <2>1. ASSUME NEW u \in Tasks, outcome'[u] = "replayed", can_record
        PROVE  UsedUp(proto[u], answer[u])'
    <3>1. PICK i \in DOMAIN tape[proto[u]] :
             tape[proto[u]][i].id = answer[u] /\ played[proto[u]][i] = TRUE
      BY <1>2, <2>1 DEF UsedUp
    <3>2. proto'[u] = proto[u] /\ answer'[u] = answer[u]
      BY <1>2, <2>1
    <3>. QED  BY <3>1, <3>2 DEF UsedUp
  <2>. QED  BY <1>2, <2>1 DEF AnswersUsedUp
<1>4. RecordingReplaysOnce'
  BY <1>2 DEF ReplayInv, RecordingReplaysOnce
<1>. QED  BY <1>1, <1>3, <1>4 DEF ReplayInv

(* A replayed request takes an interaction nobody took.                    *)
LEMMA ReplayTakesFresh ==
    ASSUME IInv, ReplayInv, NEW t \in Tasks, NEW p \in Proto,
           NEW r \in RequestsOf(p), PrepareReplay(t, p, r)
    PROVE  ReplayInv'
<1>. DEFINE i == Found(p, r)
            x == tape[p][i].id
<1>1. /\ pc[t] = "idle" /\ Found(p, r) # 0
      /\ proto' = [proto EXCEPT ![t] = p]
      /\ played' = [played EXCEPT ![p][i] = TRUE]
      /\ answer' = [answer EXCEPT ![t] = x]
      /\ \/ pc' = [pc EXCEPT ![t] = "verify"] /\ outcome' = outcome
         \/ /\ pc' = [pc EXCEPT ![t] = "done"]
            /\ outcome' = [outcome EXCEPT ![t] = "replayed"]
      /\ tape' = tape /\ can_record' = can_record
  BY DEF PrepareReplay, Call, Return, session
<1>2. i \in DOMAIN tape[p] /\ (can_record => played[p][i] = FALSE)
  BY <1>1, FoundInTape, FoundIsFresh DEF IInv
<1>3. DOMAIN tape[p] = DOMAIN played[p] /\ DOMAIN played = Proto
  <2>. DEFINE I == Interaction
              B == BOOLEAN
  <2>1. tape \in [Proto -> Seq(I)] /\ played \in [Proto -> Seq(B)]
          /\ Len(tape[p]) = Len(played[p])
    BY DEF IInv, TypeOK
  <2>. HIDE DEF I, B
  <2>. QED  BY <2>1
<1>. HIDE DEF i
<1>4. /\ played'[p][i] = TRUE
      /\ \A q \in Proto : \A j : played[q][j] = TRUE /\ (q # p \/ j \in DOMAIN played[p])
                                   => played'[q][j] = TRUE
  BY <1>1, <1>2, <1>3
<1>5. ASSUME NEW q \in Proto, NEW y, UsedUp(q, y)
      PROVE  \E j \in DOMAIN tape'[q] : tape'[q][j].id = y /\ played'[q][j] = TRUE
  BY <1>1, <1>3, <1>4, <1>5 DEF UsedUp
<1>6. IdsDiffer'
  BY <1>1 DEF ReplayInv, IdsDiffer
<1>7. RecordedPlayed'
  BY <1>1, <1>3, <1>4 DEF ReplayInv, RecordedPlayed
<1>8. can_record => x < 0 /\ x \in Int /\ ~ UsedUp(p, x)
  <2>1. tape[p][i].id \in Int
    <3>1. tape[p] \in Seq(Interaction)
      BY DEF IInv, TypeOK
    <3>2. tape[p][i] \in Interaction
      BY <1>2, <3>1, SeqElement
    <3>. QED  BY <3>2 DEF Interaction
  <2>2. can_record => tape[p][i].id < 0
    BY <1>2 DEF ReplayInv, RecordedPlayed
  <2>3. can_record => ~ UsedUp(p, x)
    BY <1>2 DEF UsedUp, ReplayInv, IdsDiffer
  <2>. QED  BY <2>1, <2>2, <2>3
<1>9. \E j \in DOMAIN tape'[p] : tape'[p][j].id = x /\ played'[p][j] = TRUE
  BY <1>1, <1>2, <1>4
<1>. HIDE DEF x
<1>10. /\ DOMAIN pc = Tasks /\ DOMAIN outcome = Tasks /\ DOMAIN proto = Tasks
       /\ DOMAIN answer = Tasks /\ \A u \in Tasks : proto[u] \in Proto
  BY DEF IInv, TypeOK
<1>11. /\ outcome[t] # "replayed" /\ proto'[t] = p /\ answer'[t] = x
       /\ outcome'[t] = "replayed" => pc'[t] = "done"
  BY <1>1, <1>10 DEF ReplayInv, AnswersUsedUp
<1>12. \A u \in Tasks : u # t => /\ pc'[u] = pc[u] /\ outcome'[u] = outcome[u]
                                 /\ proto'[u] = proto[u] /\ answer'[u] = answer[u]
  BY <1>1, <1>10
<1>13. ASSUME NEW u \in Tasks, outcome'[u] = "replayed", u # t
       PROVE  /\ pc[u] = "done" /\ outcome[u] = "replayed"
              /\ can_record => answer[u] < 0 /\ UsedUp(proto[u], answer[u])
  BY <1>12, <1>13 DEF ReplayInv, AnswersUsedUp
<1>14. AnswersUsedUp'
  <2>1. SUFFICES ASSUME NEW u \in Tasks, outcome'[u] = "replayed"
                 PROVE  /\ pc'[u] = "done"
                        /\ can_record => answer'[u] < 0 /\ UsedUp(proto[u], answer[u])'
    BY <1>1 DEF AnswersUsedUp
  <2>2. CASE u = t
    <3>1. UsedUp(proto[t], answer[t])'
      BY <1>9, <1>11 DEF UsedUp
    <3>. QED  BY <1>8, <1>11, <2>1, <2>2, <3>1
  <2>3. CASE u # t
    <3>1. UsedUp(proto[u], answer[u]) => UsedUp(proto[u], answer[u])'
      <4>1. proto[u] \in Proto /\ proto'[u] = proto[u] /\ answer'[u] = answer[u]
        BY <1>10, <1>12, <2>3
      <4>2. UsedUp(proto[u], answer[u]) =>
              \E j \in DOMAIN tape'[proto[u]] :
                 tape'[proto[u]][j].id = answer[u] /\ played'[proto[u]][j] = TRUE
        BY <1>5, <4>1
      <4>3. (\E j \in DOMAIN tape'[proto[u]] :
                 tape'[proto[u]][j].id = answer[u] /\ played'[proto[u]][j] = TRUE)
              => UsedUp(proto[u], answer[u])'
        BY <4>1 DEF UsedUp
      <4>. QED  BY <4>2, <4>3
    <3>. QED  BY <1>12, <1>13, <2>1, <2>3, <3>1
  <2>. QED  BY <2>2, <2>3
<1>15. RecordingReplaysOnce'
  <2>1. SUFFICES ASSUME can_record, NEW u \in Tasks, outcome'[u] = "replayed"
                 PROVE  /\ answer'[u] < 0
                        /\ \A v \in Tasks :
                             (v # u /\ outcome'[v] = "replayed" /\ proto'[v] = proto'[u])
                               => answer'[v] # answer'[u]
    BY <1>1 DEF RecordingReplaysOnce
  <2>2. answer'[u] < 0
    BY <1>8, <1>11, <1>12, <1>13, <2>1
  <2>3. ASSUME NEW v \in Tasks, v # u, outcome'[v] = "replayed", proto'[v] = proto'[u]
        PROVE  answer'[v] # answer'[u]
    <3>1. CASE u = t
      <4>1. v # t /\ proto[v] = p /\ answer'[v] = answer[v]
        BY <1>11, <1>12, <2>3, <3>1
      <4>2. UsedUp(p, answer[v])
        BY <1>13, <2>1, <2>3, <4>1
      <4>. QED  BY <1>8, <1>11, <2>1, <3>1, <4>1, <4>2
    <3>2. CASE v = t
      <4>1. u # t /\ proto[u] = p /\ answer'[u] = answer[u]
        BY <1>11, <1>12, <2>3, <3>2
      <4>2. UsedUp(p, answer[u])
        BY <1>13, <2>1, <4>1
      <4>. QED  BY <1>8, <1>11, <2>1, <3>2, <4>1, <4>2
    <3>3. CASE u # t /\ v # t
      BY <1>12, <2>1, <2>3, <3>3 DEF ReplayInv, RecordingReplaysOnce
    <3>. QED  BY <3>1, <3>2, <3>3
  <2>. QED  BY <2>2, <2>3
<1>. QED  BY <1>6, <1>7, <1>14, <1>15 DEF ReplayInv

(* What record_http and record_grpc make of the played flags.              *)
LEMMA InsertedFlags ==
    ASSUME IInv, NEW t \in Tasks, RecordInsert(t)
    PROVE  \A j \in 1..(Len(orders[proto[t]]) + 1) :
             played'[proto[t]][j] =
               IF j < Position(t) THEN played[proto[t]][j]
               ELSE IF j = Position(t) THEN can_record ELSE played[proto[t]][j - 1]
<1>. DEFINE p == proto[t]
            k == Position(t)
            B == BOOLEAN
            c == can_record
            pl == played[p]
<1>1. p \in Proto /\ pl \in Seq(B) /\ Len(pl) = Len(orders[p]) /\ c \in B
  BY DEF IInv, TypeOK
<1>2. k \in 1..(Len(orders[p]) + 1)
  BY InsertedTape, Zenon
<1>3. played' = [played EXCEPT ![p] = InsertAt(pl, k, c)] /\ DOMAIN played = Proto
  BY DEF RecordInsert, InsertFlag, IInv, TypeOK
<1>. HIDE DEF k, B, c, pl, p
<1>4. \A j \in 1..(Len(pl) + 1) :
         InsertAt(pl, k, c)[j] = IF j < k THEN pl[j] ELSE IF j = k THEN c ELSE pl[j - 1]
  <2>1. k \in 1..(Len(pl) + 1)
    BY <1>1, <1>2
  <2>2. pl \in Seq(B) /\ c \in B
    BY <1>1
  <2>3. ASSUME NEW j \in 1..(Len(pl) + 1)
        PROVE  InsertAt(pl, k, c)[j] =
                 IF j < k THEN pl[j] ELSE IF j = k THEN c ELSE pl[j - 1]
    <3>1. PICK s \in Seq(B), e \in B : s = pl /\ e = c
      BY <2>2
    <3>2. PICK m \in 1..(Len(s) + 1) : m = k
      BY <2>1, <3>1
    <3>3. j \in 1..(Len(s) + 1)
      BY <3>1
    <3>4. InsertAt(s, m, e)[j] = IF j < m THEN s[j] ELSE IF j = m THEN e ELSE s[j - 1]
      BY ONLY <3>1, <3>2, <3>3, InsertAtFacts
    <3>. QED  BY ONLY <3>1, <3>2, <3>4
  <2>. QED  BY <2>3
<1>5. played'[p] = InsertAt(pl, k, c)
  BY <1>1, <1>3
<1>. QED  BY <1>1, <1>4, <1>5 DEF k, c, pl, p

(* A recorded response is played by the request that produced it.          *)
LEMMA InsertKeepsReplays ==
    ASSUME IInv, ReplayInv, NEW t \in Tasks, RecordInsert(t)
    PROVE  ReplayInv'
<1>. DEFINE p == proto[t]
            n == Len(orders[p])
            k == Position(t)
            o == order[t]
            new == [req |-> Scrub[req[t]], id |-> o]
<1>1. /\ p \in Proto /\ n \in Nat /\ k \in 1..(n + 1)
      /\ \A q \in Proto : q # p => tape'[q] = tape[q] /\ played'[q] = played[q]
      /\ tape'[p] \in Seq(Interaction) /\ Len(tape'[p]) = n + 1
  BY InsertedTape, Zenon
<1>2. \A j \in 1..(n + 1) :
         tape'[p][j] = IF j < k THEN tape[p][j] ELSE IF j = k THEN new ELSE tape[p][j - 1]
  BY InsertedTape, Zenon
<1>3. \A j \in 1..(n + 1) :
         played'[p][j] = IF j < k THEN played[p][j]
                         ELSE IF j = k THEN can_record ELSE played[p][j - 1]
  BY InsertedFlags
<1>4. /\ pc[t] = "live" /\ pc' = [pc EXCEPT ![t] = "saving"]
      /\ UNCHANGED <<can_record, proto, outcome, answer>>
  BY DEF RecordInsert, session
<1>5. /\ tape[p] \in Seq(Interaction) /\ Len(tape[p]) = n /\ o \in Nat
      /\ can_record \in BOOLEAN /\ orders[p] \in Seq(Nat) /\ DOMAIN pc = Tasks
      /\ \A u \in Tasks : proto[u] \in Proto
  BY <1>1 DEF IInv, TypeOK
<1>6. new.id = o
  OBVIOUS
<1>7. DOMAIN tape[p] = 1..n /\ DOMAIN tape'[p] = 1..(n + 1)
        /\ \A j \in 1..n : tape[p][j].id \in Int
  <2>. DEFINE I == Interaction
  <2>1. tape[p] \in Seq(I) /\ Len(tape[p]) = n /\ tape'[p] \in Seq(I) /\ Len(tape'[p]) = n + 1
    BY <1>1, <1>5
  <2>. HIDE DEF I, p, n
  <2>2. DOMAIN tape[p] = 1..n /\ DOMAIN tape'[p] = 1..(n + 1)
    BY <2>1
  <2>3. \A j \in 1..n : tape[p][j] \in I
    BY <2>1, <2>2
  <2>. QED  BY <2>2, <2>3 DEF I, Interaction
<1>8. \A j \in 1..n : tape[p][j].id # o
  <2>1. DOMAIN orders[p] = 1..n
    BY <1>5
  <2>2. \A j \in 1..n : tape[p][j].id < 0 \/ tape[p][j].id = orders[p][j]
    BY <1>1, <2>1 DEF IInv, TapeInIssueOrder
  <2>3. \A j \in 1..n : orders[p][j] # o
    BY <1>4, <2>1 DEF IInv, OrdersOwned
  <2>4. ASSUME NEW j \in 1..n PROVE tape[p][j].id # o
    <3>1. tape[p][j].id \in Int /\ o \in Nat
      BY <1>5, <1>7
    <3>2. tape[p][j].id < 0 \/ tape[p][j].id # o
      BY <2>2, <2>3
    <3>. HIDE DEF o
    <3>. QED  BY <3>1, <3>2
  <2>. QED  BY <2>4
<1>. HIDE DEF new, o, k, n
<1>9. ASSUME NEW j \in 1..(n + 1)
      PROVE  \/ j = k /\ tape'[p][j] = new /\ played'[p][j] = can_record
             \/ /\ j < k /\ j \in 1..n
                /\ tape'[p][j] = tape[p][j] /\ played'[p][j] = played[p][j]
             \/ /\ j > k /\ (j - 1) \in 1..n
                /\ tape'[p][j] = tape[p][j - 1] /\ played'[p][j] = played[p][j - 1]
  <2>1. j = k \/ (j < k /\ j \in 1..n) \/ (j > k /\ (j - 1) \in 1..n)
    BY <1>1
  <2>. QED  BY <1>1, <1>2, <1>3, <2>1
<1>10. ASSUME NEW i \in 1..n
       PROVE  \E j \in 1..(n + 1) : tape'[p][j] = tape[p][i] /\ played'[p][j] = played[p][i]
  <2>1. CASE i < k
    <3>1. i \in 1..(n + 1)
      BY <1>1
    <3>. QED  BY <1>2, <1>3, <2>1, <3>1
  <2>2. CASE ~ (i < k)
    <3>1. (i + 1) \in 1..(n + 1) /\ ~ (i + 1 < k) /\ i + 1 # k /\ (i + 1) - 1 = i
      BY <1>1, <2>2
    <3>2. tape'[p][i + 1] = tape[p][i] /\ played'[p][i + 1] = played[p][i]
      BY <1>2, <1>3, <3>1
    <3>. QED  BY <3>1, <3>2
  <2>. QED  BY <2>1, <2>2
<1>11. IdsDiffer'
  <2>1. SUFFICES ASSUME NEW q \in Proto, NEW i \in DOMAIN tape'[q],
                        NEW j \in DOMAIN tape'[q], i # j
                 PROVE  tape'[q][i].id # tape'[q][j].id
    BY DEF IdsDiffer
  <2>2. CASE q # p
    BY <1>1, <2>1, <2>2 DEF ReplayInv, IdsDiffer
  <2>3. CASE q = p
    <3>1. i \in 1..(n + 1) /\ j \in 1..(n + 1)
      BY <1>7, <2>1, <2>3
    <3>2. \A a, b \in 1..n : a # b => tape[p][a].id # tape[p][b].id
      BY <1>1, <1>7 DEF ReplayInv, IdsDiffer
    <3>3. CASE i = k
      <4>1. tape'[p][i] = new /\ (j < k \/ j > k)
        BY <1>1, <1>2, <2>1, <3>1, <3>3
      <4>2. \E b \in 1..n : tape'[p][j] = tape[p][b]
        BY <1>9, <2>1, <3>1, <3>3
      <4>. QED  BY <1>6, <1>8, <2>3, <4>1, <4>2
    <3>4. CASE j = k
      <4>1. tape'[p][j] = new
        BY <1>1, <1>2, <2>1, <3>1, <3>4
      <4>2. \E b \in 1..n : tape'[p][i] = tape[p][b]
        BY <1>9, <2>1, <3>1, <3>4
      <4>. QED  BY <1>6, <1>8, <2>3, <4>1, <4>2
    <3>5. CASE i # k /\ j # k
      <4>. DEFINE a == IF i < k THEN i ELSE i - 1
                  b == IF j < k THEN j ELSE j - 1
      <4>1. a \in 1..n /\ tape'[p][i] = tape[p][a]
        BY <1>1, <1>9, <3>1, <3>5
      <4>2. b \in 1..n /\ tape'[p][j] = tape[p][b]
        BY <1>1, <1>9, <3>1, <3>5
      <4>3. a # b
        BY <1>1, <2>1, <3>1, <3>5
      <4>. HIDE DEF a, b
      <4>. QED  BY <2>3, <3>2, <4>1, <4>2, <4>3
    <3>. QED  BY <3>3, <3>4, <3>5
  <2>. QED  BY <2>2, <2>3
<1>12. RecordedPlayed'
  <2>1. SUFFICES ASSUME can_record, NEW q \in Proto, NEW i \in DOMAIN tape'[q],
                        ~ (tape'[q][i].id < 0)
                 PROVE  played'[q][i] = TRUE
    BY <1>4 DEF RecordedPlayed
  <2>2. CASE q # p
    BY <1>1, <2>1, <2>2 DEF ReplayInv, RecordedPlayed
  <2>3. CASE q = p
    <3>1. i \in 1..(n + 1) /\ can_record = TRUE
      BY <1>5, <1>7, <2>1, <2>3
    <3>2. \A a \in 1..n : ~ (tape[p][a].id < 0) => played[p][a] = TRUE
      BY <1>1, <1>7, <2>1 DEF ReplayInv, RecordedPlayed
    <3>. QED  BY <1>9, <2>1, <2>3, <3>1, <3>2
  <2>. QED  BY <2>2, <2>3
<1>13. ASSUME NEW u \in Tasks, UsedUp(proto[u], answer[u])
       PROVE  UsedUp(proto[u], answer[u])'
  <2>1. PICK i \in DOMAIN tape[proto[u]] :
           tape[proto[u]][i].id = answer[u] /\ played[proto[u]][i] = TRUE
    BY <1>13 DEF UsedUp
  <2>2. \E j \in DOMAIN tape'[proto[u]] :
           tape'[proto[u]][j].id = answer[u] /\ played'[proto[u]][j] = TRUE
    <3>1. CASE proto[u] # p
      BY <1>1, <1>5, <2>1, <3>1
    <3>2. CASE proto[u] = p
      <4>1. i \in 1..n
        BY <1>7, <2>1, <3>2
      <4>2. PICK j \in 1..(n + 1) :
               tape'[p][j] = tape[p][i] /\ played'[p][j] = played[p][i]
        BY <1>10, <4>1
      <4>. QED  BY <1>7, <2>1, <3>2, <4>2
    <3>. QED  BY <3>1, <3>2
  <2>. QED  BY <1>4, <2>2 DEF UsedUp
<1>14. ASSUME NEW u \in Tasks, outcome[u] = "replayed"
       PROVE  pc'[u] = "done" /\ (can_record => answer[u] < 0 /\ UsedUp(proto[u], answer[u])')
  <2>1. pc[u] = "done" /\ (can_record => answer[u] < 0 /\ UsedUp(proto[u], answer[u]))
    BY <1>14 DEF ReplayInv, AnswersUsedUp
  <2>2. pc'[u] = "done"
    BY <1>4, <1>5, <2>1
  <2>. QED  BY <1>13, <2>1, <2>2
<1>15. AnswersUsedUp'
  BY <1>4, <1>14 DEF AnswersUsedUp
<1>16. RecordingReplaysOnce'
  BY <1>4 DEF ReplayInv, RecordingReplaysOnce
<1>. QED  BY <1>11, <1>12, <1>15, <1>16 DEF ReplayInv

LEMMA NextReplayInv == IInv /\ ReplayInv /\ [Next]_vars => ReplayInv'
<1>1. SUFFICES ASSUME IInv, ReplayInv, [Next]_vars PROVE ReplayInv'
  OBVIOUS
<1>. DEFINE Quiet(u) ==
              \/ outcome'[u] # "replayed"
              \/ /\ outcome'[u] = outcome[u] /\ answer'[u] = answer[u]
                 /\ pc[u] = "done" => pc'[u] = "done" /\ proto'[u] = proto[u]
<1>2. /\ DOMAIN pc = Tasks /\ DOMAIN outcome = Tasks /\ DOMAIN proto = Tasks
      /\ DOMAIN answer = Tasks
  BY <1>1 DEF IInv, TypeOK
<1>3. CASE UNCHANGED vars
  <2>1. UNCHANGED <<tape, played, can_record>> /\ UNCHANGED <<pc, proto, outcome, answer>>
    BY <1>3 DEF vars, session, cassette, tasks
  <2>. QED  BY <1>1, <2>1, NothingReplayed
<1>4. ASSUME NEW t \in Tasks, NEW p \in Proto, NEW r \in RequestsOf(p),
             \/ PrepareClosed(t, p, r) \/ PrepareNoMatch(t, p, r)
             \/ PrepareReserve(t, p, r)
      PROVE  ReplayInv'
  <2>1. UNCHANGED <<tape, played, can_record>> /\ answer' = answer
    BY <1>4 DEF PrepareClosed, PrepareNoMatch, PrepareReserve, session, cassette
  <2>2. /\ pc[t] = "idle" /\ proto' = [proto EXCEPT ![t] = p]
        /\ \/ /\ pc' = [pc EXCEPT ![t] = "done"]
              /\ \E w \in {"finalized", "no_match"} : outcome' = [outcome EXCEPT ![t] = w]
           \/ pc' = [pc EXCEPT ![t] = "live"] /\ outcome' = outcome
    BY <1>4 DEF PrepareClosed, PrepareNoMatch, PrepareReserve, Call, Return
  <2>3. \A u \in Tasks : Quiet(u)
    BY <1>2, <2>1, <2>2
  <2>. QED  BY <1>1, <2>1, <2>3, NothingReplayed
<1>5. ASSUME NEW t \in Tasks, LiveEnds(t) \/ Persist(t), ~ RecordInsert(t)
      PROVE  ReplayInv'
  <2>1. UNCHANGED <<tape, played, can_record>> /\ answer' = answer /\ proto' = proto
    BY <1>5 DEF LiveEnds, LiveFails, Dropped, Verified, RecordClosed, RecordRejected,
                Persist, SaveSucceeds, SaveFails, RememberError, session, cassette
  <2>2. /\ pc[t] # "done"
        /\ \/ /\ pc' = [pc EXCEPT ![t] = "done"]
              /\ \E w \in {"live_error", "dropped", "mismatch", "verified", "finalized",
                           "rejected", "recorded", "save_error"} :
                   outcome' = [outcome EXCEPT ![t] = w]
           \/ pc' = [pc EXCEPT ![t] = "remember"] /\ outcome' = outcome
    BY <1>5 DEF LiveEnds, LiveFails, Dropped, Verified, RecordClosed, RecordRejected,
                Persist, SaveSucceeds, SaveFails, RememberError, Return
  <2>3. \A u \in Tasks : Quiet(u)
    BY <1>2, <2>1, <2>2
  <2>. QED  BY <1>1, <2>1, <2>3, NothingReplayed
<1>6. ASSUME NEW f \in Finishers, FinishBegin(f) \/ Finish(f) PROVE ReplayInv'
  <2>1. UNCHANGED <<tape, played, can_record>> /\ UNCHANGED <<pc, proto, outcome, answer>>
    BY <1>6 DEF Finish, FinishBegin, FinishSaves, FinishSaveFails, FinishRemembers,
                FinishReport, session, cassette, tasks
  <2>. QED  BY <1>1, <2>1, NothingReplayed
<1>7. ASSUME NEW t \in Tasks, Prepare(t) PROVE ReplayInv'
  <2>1. PICK p \in Proto : \E r \in RequestsOf(p) :
           \/ PrepareClosed(t, p, r) \/ PrepareReplay(t, p, r)
           \/ PrepareNoMatch(t, p, r) \/ PrepareReserve(t, p, r)
    BY <1>7 DEF Prepare
  <2>2. PICK r \in RequestsOf(p) :
           \/ PrepareClosed(t, p, r) \/ PrepareReplay(t, p, r)
           \/ PrepareNoMatch(t, p, r) \/ PrepareReserve(t, p, r)
    BY <2>1
  <2>. QED  BY <1>1, <1>4, <2>2, ReplayTakesFresh
<1>8. ASSUME NEW t \in Tasks, RecordInsert(t) PROVE ReplayInv'
  BY <1>1, <1>8, InsertKeepsReplays
<1>. QED  BY <1>1, <1>3, <1>5, <1>6, <1>7, <1>8, Zenon DEF Next

(* While a session can record, an interaction answers at most one request, *)
(* and none the session recorded itself, however calls interleave.         *)
THEOREM OneReplayEach == Spec => []RecordingReplaysOnce
<1>1. ReplayInv => RecordingReplaysOnce
  BY DEF ReplayInv
<1>. QED  BY <1>1, InitReplayInv, NextReplayInv, RecorderInvariant, PTL DEF Spec
=============================================================================

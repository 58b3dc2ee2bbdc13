------------------------- MODULE GoTransportProofs --------------------------
(***************************************************************************)
(* What Transport.Close returns, what is on disk and in which order, for   *)
(* any number of calls, requests and cassette files.                       *)
(***************************************************************************)
EXTENDS GoTransport, FiniteSetTheorems, WellFoundedInduction, TLAPS

-----------------------------------------------------------------------------
(* Facts about numbers.                                                     *)

(* A non-empty set of naturals has a least element, and Min returns it.    *)
LEMMA MinIsLeast ==
    ASSUME NEW T, T \subseteq Nat, T # {}
    PROVE  /\ Min(T) \in T
           /\ \A y \in T : Min(T) <= y
<1>1. \E x \in T : \A y \in T : ~ (<<y, x>> \in OpToRel(<, Nat))
  BY NatLessThanWellFounded, WFMin
<1>2. \E x \in T : \A y \in T : x <= y
  <2>1. PICK x \in T : \A y \in T : ~ (<<y, x>> \in OpToRel(<, Nat))
    BY <1>1
  <2>2. ASSUME NEW y \in T PROVE x <= y
    <3>1. ~ (y < x)
      BY <2>1 DEF OpToRel
    <3>. QED  BY <3>1
  <2>. QED  BY <2>2
<1>. QED  BY <1>2 DEF Min

(* An injection of 1..n into itself reaches every number.                  *)
LEMMA InjectionIsOnto ==
    ASSUME NEW n \in Nat, NEW f \in [1..n -> 1..n],
           \A a, b \in 1..n : f[a] = f[b] => a = b, NEW i \in 1..n
    PROVE  \E a \in 1..n : f[a] = i
<1>1. f \in Injection(1..n, 1..n)
  BY DEF Injection, IsInjective
<1>2. IsFiniteSet(1..n)
  BY FS_Interval
<1>3. f \in Surjection(1..n, 1..n)
  BY <1>1, <1>2, FS_Injection
<1>. QED  BY <1>3 DEF Surjection

-----------------------------------------------------------------------------
(* The inductive invariant.                                                *)

Recordings == [req : Requests \cup {CHOOSE r \in Requests : TRUE}, id : Int]
Pcs == {"idle", "init_error", "closed", "open", "passed", "hook_error",
        "reserve", "no_match", "replayed", "live", "body", "unrecorded",
        "failed", "recorded"}
Reserved == {"live", "body", "unrecorded", "failed", "recorded"}

Types ==
    /\ mode \in Modes
    /\ tape \in [Kinds -> Seq(Recordings)] /\ file \in [Kinds -> Seq(Recordings)]
    /\ orders \in [Kinds -> Seq(Nat)]
    /\ nextOrder \in Nat /\ first \in Nat
    /\ pc \in [Calls -> Pcs] /\ kind \in [Calls -> Kinds]
    /\ req \in [Calls -> Requests \cup {CHOOSE r \in Requests : TRUE}]
    /\ order \in [Calls -> Nat] /\ DOMAIN expected = Calls
    /\ rd \in [Calls -> {"none", "reading", "eof", "finish", "complete", "end"}]
    /\ cl \in [Calls -> {"none", "reading", "closing", "finish", "give_up",
                         "complete", "end"}]
    /\ finish \in [Calls -> FinishErrs \cup {"no"}]
    /\ completed \in [Calls -> BOOLEAN]

(* Before load, and after a load that failed, nothing has happened.        *)
Unloaded ==
    init # "ok" =>
        /\ tape = Empty /\ orders = Empty /\ nextOrder = 0 /\ first = 0
        /\ ~ closed /\ ~ saveEmpty
        /\ \A c \in Calls : pc[c] \in {"idle", "init_error"}
        /\ \A k \in Kinds : \A i \in 1..Len(file[k]) : file[k][i].id < 0

(* What the stages of a call say of its order, its body and its verdict.   *)
CallsProper ==
    /\ first <= nextOrder
    /\ \A c \in Calls :
         /\ rd[c] # "none" \/ cl[c] # "none" => pc[c] = "body"
         /\ pc[c] \in Reserved => first <= order[c] /\ order[c] < nextOrder
         /\ pc[c] # "body" => ~ completed[c] /\ finish[c] = "no"
         /\ pc[c] \in {"live", "body"} /\ ~ completed[c] => order[c] \in pending
         /\ completed[c] => recordErr # {} \/ finish[c] = "nil"
    /\ \A c, d \in Calls :
         pc[c] \in Reserved /\ pc[d] \in Reserved /\ order[c] = order[d] => c = d

(* The orders of a protocol can be sorted: orderedRecordings is a sort.    *)
Before(o, i, j) == o[i] < o[j] \/ (o[i] = o[j] /\ i < j)
Sorts(f, o, n) ==
    f \in [1..n -> 1..n] /\ \A i, j \in 1..n : i < j => Before(o, f[i], f[j])

(* A recording of the session carries its order, which is its own; the     *)
(* loaded ones come before it, in the order of the file.                   *)
TapeProper ==
    \A k \in Kinds :
        /\ Len(orders[k]) = Len(tape[k])
        /\ \E f : Sorts(f, orders[k], Len(orders[k]))
        /\ \A i \in 1..Len(tape[k]) :
             /\ orders[k][i] < nextOrder
             /\ orders[k][i] >= first => tape[k][i].id = orders[k][i]
             /\ orders[k][i] < first => tape[k][i].id < 0 /\ mode # "all"
        /\ \A i, j \in 1..Len(tape[k]) :
             /\ orders[k][i] = orders[k][j] => i = j
             /\ orders[k][i] < orders[k][j] => tape[k][i].id < tape[k][j].id

(* A call that may still record has not recorded.                          *)
MayRecord(c) == pc[c] \in {"live", "body"} /\ finish[c] = "no"
Unrecorded ==
    \A c \in Calls, k \in Kinds :
        MayRecord(c) => \A i \in 1..Len(tape[k]) : orders[k][i] # order[c]

(* The file holds what memory holds, or nothing of this session yet.       *)
DiskProper ==
    /\ ~ exists => file = Empty
    /\ saveEmpty => tape = Empty
    /\ init = "ok" =>
         \/ \A k \in Kinds : Ids(tape[k]) = Ids(file[k])
         \/ /\ mode = "all" /\ tape = Empty
            /\ \A k \in Kinds : \A i \in 1..Len(file[k]) : file[k][i].id < 0
    /\ \A k \in Kinds : \A i, j \in 1..Len(file[k]) :
         i < j => file[k][i].id < file[k][j].id

(* Every order that was handed out is accounted for.                       *)
Accounted(o) ==
    o \in pending \/ InFile(o) \/ Excused(o) \/ \E e \in recordErr : e.order = o
Settled ==
    /\ \A c \in Calls : finish[c] = "nil" => InFile(order[c]) \/ expected[c] # 0
    /\ \A o \in Orders : Accounted(o)

(* With RecordModeAll older recordings are still on disk only while a save *)
(* is due, or failed and has been or will be reported.                     *)
NoneOlder == \A k \in Kinds : \A id \in Ids(file[k]) : id >= 0
OlderAccounted ==
    init = "ok" /\ mode = "all" /\ ~ closed =>
        \/ NoneOlder \/ saveEmpty \/ recordErr # {}
        \/ \E c \in Calls : finish[c] = "save" /\ order[c] \in pending

IInv ==
    /\ Types /\ Unloaded /\ CallsProper /\ TapeProper /\ Unrecorded
    /\ DiskProper /\ Settled /\ OlderAccounted /\ CloseTellsTheTruth

-----------------------------------------------------------------------------
(* orderedRecordings is a sort.                                            *)

(* One more order can be sorted in: before the first that is greater.      *)
LEMMA SortInserted ==
    ASSUME NEW n \in Nat, NEW o \in Seq(Nat), Len(o) = n, NEW f, Sorts(f, o, n), NEW v \in Nat
    PROVE  \E g : Sorts(g, Append(o, v), n + 1)
<1>. DEFINE T == {q \in 1..(n + 1) : \A i \in 1..n : q <= i => v < o[f[i]]}
<1>1. T \subseteq Nat /\ n + 1 \in T
  OBVIOUS
<1>2. PICK q \in T : \A y \in T : q <= y
  <2>1. Min(T) \in T /\ \A y \in T : Min(T) <= y
    BY <1>1, MinIsLeast
  <2>. QED  BY <2>1
<1>3. q \in 1..(n + 1) /\ \A i \in 1..n : q <= i => v < o[f[i]]
  OBVIOUS
<1>. HIDE DEF T
<1>4. \A i \in 1..n : f[i] \in 1..n /\ o[f[i]] \in Nat
  <2>1. \A i \in 1..n : f[i] \in 1..n
    BY DEF Sorts
  <2>. QED  BY <2>1
<1>5. \A i \in 1..n : i < q => o[f[i]] <= v
  <2>1. SUFFICES ASSUME NEW i \in 1..n, i < q PROVE o[f[i]] <= v
    OBVIOUS
  <2>2. q - 1 \in 1..n /\ q - 1 \notin T
    <3>1. q - 1 \in 1..n
      BY <1>3, <2>1
    <3>2. ~ (q <= q - 1)
      BY <1>3
    <3>. QED  BY <1>2, <3>1, <3>2
  <2>3. PICK j \in 1..n : q - 1 <= j /\ ~ (v < o[f[j]])
    BY <2>2 DEF T
  <2>4. j = q - 1
    BY <1>3, <2>3
  <2>5. o[f[j]] <= v
    BY <1>4, <2>3
  <2>6. CASE i = j
    BY <2>5, <2>6
  <2>7. CASE i < j
    <3>1. Before(o, f[i], f[j])
      BY <2>7 DEF Sorts
    <3>2. o[f[i]] <= o[f[j]]
      BY <1>4, <3>1 DEF Before
    <3>. QED  BY <1>4, <2>5, <3>2
  <2>. QED  BY <1>3, <2>1, <2>4, <2>6, <2>7
<1>. DEFINE a == Append(o, v)
            g == [i \in 1..(n + 1) |-> IF i < q THEN f[i] ELSE IF i = q THEN n + 1 ELSE f[i - 1]]
<1>6. a[n + 1] = v /\ \A i \in 1..n : a[i] = o[i]
  OBVIOUS
<1>7. g \in [1..(n + 1) -> 1..(n + 1)]
  <2>1. ASSUME NEW i \in 1..(n + 1)
        PROVE  (IF i < q THEN f[i] ELSE IF i = q THEN n + 1 ELSE f[i - 1]) \in 1..(n + 1)
    <3>1. i < q => i \in 1..n
      BY <1>3
    <3>2. ~ (i < q) /\ i # q => i - 1 \in 1..n
      BY <1>3
    <3>. QED  BY <1>4, <3>1, <3>2
  <2>. QED  BY <2>1
<1>. HIDE DEF a
<1>8. ASSUME NEW i \in 1..(n + 1), NEW j \in 1..(n + 1), i < j PROVE Before(a, g[i], g[j])
  <2>1. CASE j < q
    <3>1. i \in 1..n /\ j \in 1..n /\ g[i] = f[i] /\ g[j] = f[j]
      BY <1>3, <1>8, <2>1
    <3>2. Before(o, f[i], f[j])
      BY <1>8, <3>1 DEF Sorts
    <3>. QED  BY <1>4, <1>6, <3>1, <3>2 DEF Before
  <2>2. CASE j = q
    <3>1. i \in 1..n /\ g[i] = f[i] /\ g[j] = n + 1
      BY <1>3, <1>8, <2>2
    <3>2. a[f[i]] = o[f[i]] /\ o[f[i]] <= v /\ f[i] < n + 1 /\ o[f[i]] \in Nat
      BY <1>4, <1>5, <1>6, <1>8, <2>2, <3>1
    <3>3. a[g[i]] <= a[g[j]] /\ g[i] < g[j] /\ a[g[i]] \in Nat /\ a[g[j]] \in Nat
      BY <1>6, <3>1, <3>2
    <3>. QED  BY <3>3 DEF Before
  <2>3. CASE j > q /\ i = q
    <3>1. j - 1 \in 1..n /\ g[i] = n + 1 /\ g[j] = f[j - 1] /\ q <= j - 1
      BY <1>3, <1>8, <2>3
    <3>2. v < o[f[j - 1]]
      BY <1>3, <3>1
    <3>3. a[g[i]] < a[g[j]]
      BY <1>4, <1>6, <3>1, <3>2
    <3>. QED  BY <3>3 DEF Before
  <2>4. CASE j > q /\ i < q
    <3>1. i \in 1..n /\ j - 1 \in 1..n /\ g[i] = f[i] /\ g[j] = f[j - 1] /\ q <= j - 1
      BY <1>3, <2>4
    <3>2. o[f[i]] <= v /\ v < o[f[j - 1]]
      BY <1>3, <1>5, <2>4, <3>1
    <3>3. a[g[i]] < a[g[j]]
      <4>1. a[f[i]] = o[f[i]] /\ a[f[j - 1]] = o[f[j - 1]]
        BY <1>4, <1>6, <3>1
      <4>2. o[f[i]] < o[f[j - 1]]
        BY <1>4, <3>1, <3>2
      <4>. QED  BY <3>1, <4>1, <4>2
    <3>. QED  BY <3>3 DEF Before
  <2>5. CASE i > q
    <3>1. i - 1 \in 1..n /\ j - 1 \in 1..n /\ i - 1 < j - 1 /\ g[i] = f[i - 1] /\ g[j] = f[j - 1]
      BY <1>3, <1>8, <2>5
    <3>2. Before(o, f[i - 1], f[j - 1])
      BY <3>1 DEF Sorts
    <3>. QED  BY <1>4, <1>6, <3>1, <3>2 DEF Before
  <2>. QED  BY <1>3, <1>8, <2>1, <2>2, <2>3, <2>4, <2>5
<1>9. Sorts(g, a, n + 1)
  BY <1>7, <1>8 DEF Sorts
<1>. QED  BY <1>9 DEF a

(* w is s in the order f.                                                  *)
Arranges(f, s, w) ==
    /\ \A i \in 1..Len(s) : w[i] = s[f[i]]
    /\ \A i \in 1..Len(s) : \E j \in 1..Len(s) : f[j] = i

(* What orderedRecordings returns: the same recordings, by their orders.   *)
LEMMA OrderedFacts ==
    ASSUME NEW R, NEW s \in Seq(R), NEW o \in Seq(Nat), Len(o) = Len(s),
           \E f : Sorts(f, o, Len(o))
    PROVE  /\ orderedRecordings(s, o) \in Seq(R)
           /\ Len(orderedRecordings(s, o)) = Len(s)
           /\ \E f : Sorts(f, o, Len(s)) /\ Arranges(f, s, orderedRecordings(s, o))
<1>1. PICK n \in Nat : n = Len(s)
  OBVIOUS
<1>2. DOMAIN s = 1..n
  BY <1>1
<1>. DEFINE before(i, j) == o[i] < o[j] \/ (o[i] = o[j] /\ i < j)
            at == CHOOSE f \in [1..n -> 1..n] :
                    \A i, j \in 1..n : i < j => before(f[i], f[j])
            w == [i \in 1..n |-> s[at[i]]]
<1>3. orderedRecordings(s, o) = w
  BY <1>2 DEF orderedRecordings
<1>4. \E f \in [1..n -> 1..n] : \A i, j \in 1..n : i < j => before(f[i], f[j])
  <2>1. PICK f : Sorts(f, o, n)
    BY <1>1
  <2>. QED  BY <2>1 DEF Sorts, Before
<1>5. at \in [1..n -> 1..n] /\ \A i, j \in 1..n : i < j => before(at[i], at[j])
  BY <1>4
<1>. HIDE DEF at
<1>6. Sorts(at, o, n)
  BY <1>5 DEF Sorts, Before
<1>7. \A i \in 1..n : s[at[i]] \in R
  BY <1>1, <1>5, SMTT(30)
<1>8. w \in [1..n -> R] /\ \A i \in 1..n : w[i] = s[at[i]]
  BY <1>7
<1>. HIDE DEF w
<1>9. w \in Seq(R) /\ Len(w) = n
  BY <1>8
<1>10. \A a, b \in 1..n : at[a] = at[b] => a = b
  <2>1. SUFFICES ASSUME NEW a \in 1..n, NEW b \in 1..n, at[a] = at[b], a < b PROVE FALSE
    OBVIOUS
  <2>2. Before(o, at[a], at[b]) /\ at[a] \in 1..n
    BY <1>6, <2>1 DEF Sorts
  <2>3. o[at[a]] \in Nat
    BY <1>1, <2>2
  <2>. QED  BY <2>1, <2>2, <2>3 DEF Before
<1>11. \A i \in 1..n : \E j \in 1..n : at[j] = i
  BY <1>5, <1>10, InjectionIsOnto
<1>12. /\ w \in Seq(R) /\ Len(w) = Len(s)
       /\ \E f : Sorts(f, o, Len(s)) /\ Arranges(f, s, w)
  <2>1. /\ w \in Seq(R) /\ Len(w) = Len(s) /\ Sorts(at, o, Len(s))
        /\ \A i \in 1..Len(s) : w[i] = s[at[i]]
        /\ \A i \in 1..Len(s) : \E j \in 1..Len(s) : at[j] = i
    BY <1>1, <1>6, <1>8, <1>9, <1>11
  <2>. QED  BY <2>1, Zenon DEF Arranges
<1>. QED  BY <1>3, <1>12, Zenon

-----------------------------------------------------------------------------
(* What a recording that is saved does to the cassette and to the file.    *)

(* What is in a file, as positions.                                        *)
LEMMA IdsIs ==
    ASSUME NEW s \in Seq(Recordings), NEW id
    PROVE  id \in Ids(s) <=> \E i \in 1..Len(s) : s[i].id = id
<1>1. DOMAIN s = 1..Len(s)
  OBVIOUS
<1>. QED  BY <1>1, Zenon DEF Ids

LEMMA AppendFacts ==
    ASSUME NEW S, NEW s \in Seq(S), NEW e \in S
    PROVE  /\ Append(s, e) \in Seq(S) /\ Len(Append(s, e)) = Len(s) + 1 /\ Len(s) \in Nat
           /\ Append(s, e)[Len(s) + 1] = e
           /\ \A i \in 1..Len(s) : Append(s, e)[i] = s[i]
  OBVIOUS

(* The candidate cassette, before the save.                                *)
LEMMA CandidateFacts ==
    ASSUME IInv, NEW c \in Calls
    PROVE  /\ Candidate(c) \in [Kinds -> Seq(Recordings)]
           /\ CandidateOrders(c) \in [Kinds -> Seq(Nat)]
           /\ \A k \in Kinds : k # kind[c] =>
                Candidate(c)[k] = tape[k] /\ CandidateOrders(c)[k] = orders[k]
           /\ \E n \in Nat :
                /\ Len(tape[kind[c]]) = n
                /\ Len(Candidate(c)[kind[c]]) = n + 1
                /\ Candidate(c)[kind[c]][n + 1].id = order[c]
                /\ \A i \in 1..n : Candidate(c)[kind[c]][i] = tape[kind[c]][i]
                /\ CandidateOrders(c)[kind[c]] = Append(orders[kind[c]], order[c])
                /\ Len(CandidateOrders(c)[kind[c]]) = n + 1
                /\ CandidateOrders(c)[kind[c]][n + 1] = order[c]
                /\ \A i \in 1..n : CandidateOrders(c)[kind[c]][i] = orders[kind[c]][i]
<1>1. kind[c] \in Kinds /\ order[c] \in Nat
      /\ req[c] \in Requests \cup {CHOOSE r \in Requests : TRUE}
  BY DEF IInv, Types
<1>2. PICK e : e = [req |-> req[c], id |-> order[c]]
  OBVIOUS
<1>3. e \in Recordings /\ e.id = order[c]
  BY <1>1, <1>2 DEF Recordings
<1>4. PICK k \in Kinds : k = kind[c]
  BY <1>1
<1>5. PICK s \in Seq(Recordings) : s = tape[k]
  BY DEF IInv, Types
<1>6. PICK o \in Seq(Nat) : o = orders[k]
  BY DEF IInv, Types
<1>7. PICK v \in Nat : v = order[c]
  BY <1>1
<1>8. PICK n \in Nat : n = Len(s)
  BY <1>5
<1>9. Len(o) = n
  BY <1>4, <1>5, <1>6, <1>8 DEF IInv, TapeProper
<1>10. PICK s2 : s2 = Append(s, e)
  OBVIOUS
<1>11. PICK o2 : o2 = Append(o, v)
  OBVIOUS
<1>12. s2 \in Seq(Recordings) /\ Len(s2) = n + 1 /\ s2[n + 1] = e /\ \A i \in 1..n : s2[i] = s[i]
  BY <1>3, <1>8, <1>10, AppendFacts
<1>13. o2 \in Seq(Nat) /\ Len(o2) = n + 1 /\ o2[n + 1] = v /\ \A i \in 1..n : o2[i] = o[i]
  BY <1>9, <1>11, AppendFacts
<1>14. tape \in [Kinds -> Seq(Recordings)] /\ orders \in [Kinds -> Seq(Nat)]
  BY DEF IInv, Types
<1>15. Candidate(c) = [tape EXCEPT ![k] = s2] /\ CandidateOrders(c) = [orders EXCEPT ![k] = o2]
  BY <1>2, <1>4, <1>5, <1>6, <1>7, <1>10, <1>11 DEF Candidate, CandidateOrders
<1>16. /\ Candidate(c) \in [Kinds -> Seq(Recordings)]
       /\ CandidateOrders(c) \in [Kinds -> Seq(Nat)]
       /\ Candidate(c)[k] = s2 /\ CandidateOrders(c)[k] = o2
       /\ \A l \in Kinds : l # k =>
            Candidate(c)[l] = tape[l] /\ CandidateOrders(c)[l] = orders[l]
  BY <1>12, <1>13, <1>14, <1>15
<1>17. /\ Len(tape[k]) = n
       /\ Len(Candidate(c)[k]) = n + 1
       /\ Candidate(c)[k][n + 1].id = order[c]
       /\ \A i \in 1..n : Candidate(c)[k][i] = tape[k][i]
       /\ CandidateOrders(c)[k] = Append(orders[k], order[c])
       /\ Len(CandidateOrders(c)[k]) = n + 1
       /\ CandidateOrders(c)[k][n + 1] = order[c]
       /\ \A i \in 1..n : CandidateOrders(c)[k][i] = orders[k][i]
  BY <1>3, <1>5, <1>6, <1>7, <1>8, <1>11, <1>12, <1>13, <1>16
<1>. QED  BY <1>4, <1>16, <1>17, Zenon

(* What TapeProper says of the recordings t and orders o of one kind.      *)
Proper(t, o) ==
    /\ Len(o) = Len(t)
    /\ \E f : Sorts(f, o, Len(o))
    /\ \A i \in 1..Len(t) :
         /\ o[i] < nextOrder
         /\ o[i] >= first => t[i].id = o[i]
         /\ o[i] < first => t[i].id < 0 /\ mode # "all"
    /\ \A i, j \in 1..Len(t) :
         /\ o[i] = o[j] => i = j
         /\ o[i] < o[j] => t[i].id < t[j].id

(* The candidate is as proper as the cassette it is made from.             *)
LEMMA CandidateProper ==
    ASSUME IInv, NEW c \in Calls, MayRecord(c), NEW k \in Kinds, NEW t, NEW o,
           t = Candidate(c)[k], o = CandidateOrders(c)[k]
    PROVE  Proper(t, o)
<1>. USE DEF Proper
<1>1. CASE k # kind[c]
  <2>1. t = tape[k] /\ o = orders[k]
    BY <1>1, CandidateFacts
  <2>. QED  BY <2>1 DEF IInv, TapeProper
<1>2. CASE k = kind[c]
  <2>1. PICK n \in Nat :
          /\ Len(tape[k]) = n /\ Len(t) = n + 1 /\ t[n + 1].id = order[c]
          /\ \A i \in 1..n : t[i] = tape[k][i]
          /\ o = Append(orders[k], order[c]) /\ Len(o) = n + 1 /\ o[n + 1] = order[c]
          /\ \A i \in 1..n : o[i] = orders[k][i]
    BY <1>2, CandidateFacts
  <2>2. order[c] \in Nat /\ first <= order[c] /\ order[c] < nextOrder /\ first \in Nat
        /\ nextOrder \in Nat
    BY DEF IInv, Types, CallsProper, MayRecord, Reserved
  <2>3. \E f : Sorts(f, o, n + 1)
    <3>1. PICK o1 \in Seq(Nat) : o1 = orders[k]
      BY DEF IInv, Types
    <3>2. Len(o1) = n
      BY <2>1, <3>1 DEF IInv, TapeProper
    <3>3. PICK f : Sorts(f, o1, n)
      BY <3>1, <3>2 DEF IInv, TapeProper
    <3>4. PICK v \in Nat : v = order[c]
      BY <2>2
    <3>5. \E g : Sorts(g, Append(o1, v), n + 1)
      BY <3>2, <3>3, SortInserted
    <3>. QED  BY <2>1, <3>1, <3>4, <3>5, Zenon
  <2>4. \A i \in 1..n :
          /\ orders[k][i] \in Nat /\ orders[k][i] < nextOrder
          /\ orders[k][i] # order[c]
          /\ orders[k][i] >= first => t[i].id = orders[k][i]
          /\ orders[k][i] < first => t[i].id < 0 /\ mode # "all"
    <3>1. \A i \in 1..n : orders[k][i] \in Nat
      <4>1. orders[k] \in Seq(Nat) /\ Len(orders[k]) = n
        BY <2>1 DEF IInv, Types, TapeProper
      <4>. QED  BY <4>1
    <3>2. \A i \in 1..n : orders[k][i] # order[c]
      BY <2>1 DEF IInv, Unrecorded
    <3>. QED  BY <2>1, <3>1, <3>2 DEF IInv, TapeProper
  <2>5. \A i, j \in 1..n :
          /\ orders[k][i] = orders[k][j] => i = j
          /\ orders[k][i] < orders[k][j] => t[i].id < t[j].id
    BY <2>1, SMTT(30) DEF IInv, TapeProper
  <2>6. \A i \in 1..(n + 1) :
          /\ o[i] < nextOrder
          /\ o[i] >= first => t[i].id = o[i]
          /\ o[i] < first => t[i].id < 0 /\ mode # "all"
    BY <2>1, <2>2, <2>4
  <2>7. ASSUME NEW i \in 1..(n + 1), NEW j \in 1..(n + 1)
        PROVE  (o[i] = o[j] => i = j) /\ (o[i] < o[j] => t[i].id < t[j].id)
    <3>1. CASE i \in 1..n /\ j \in 1..n
      BY <2>1, <2>5, <3>1
    <3>2. CASE i = n + 1 /\ j = n + 1
      BY <2>1, <2>2, <3>2
    <3>3. CASE i = n + 1 /\ j \in 1..n
      <4>1. o[i] = order[c] /\ t[i].id = order[c] /\ o[j] = orders[k][j]
        BY <2>1, <3>3
      <4>2. /\ o[j] \in Nat /\ o[j] # order[c] /\ i # j
            /\ o[j] >= first => t[j].id = o[j]
        BY <2>4, <3>3, <4>1
      <4>. QED  BY <2>2, <4>1, <4>2
    <3>4. CASE i \in 1..n /\ j = n + 1
      <4>1. o[j] = order[c] /\ t[j].id = order[c] /\ o[i] = orders[k][i]
        BY <2>1, <3>4
      <4>2. /\ o[i] \in Nat /\ o[i] # order[c] /\ i # j
            /\ o[i] >= first => t[i].id = o[i]
            /\ o[i] < first => t[i].id < 0
        BY <2>4, <3>4, <4>1
      <4>3. CASE o[i] >= first
        BY <2>2, <4>1, <4>2, <4>3
      <4>4. CASE o[i] < first
        <5>1. t[i].id \in Int
          <6>1. PICK s \in Seq(Recordings) : s = tape[k]
            BY DEF IInv, Types
          <6>2. s[i] \in Recordings
            BY <2>1, <3>4, <6>1
          <6>. QED  BY <2>1, <3>4, <6>1, <6>2 DEF Recordings
        <5>. QED  BY <2>2, <4>1, <4>2, <4>4, <5>1
      <4>. QED  BY <2>2, <4>2, <4>3, <4>4
    <3>. QED  BY <3>1, <3>2, <3>3, <3>4
  <2>. QED  BY <2>1, <2>3, <2>6, <2>7
<1>. QED  BY <1>1, <1>2

(* A recording that was saved.                                             *)
Recorded(c) == MayRecord(c) /\ record(c, "nil")

LEMMA SavedFacts ==
    ASSUME IInv, NEW c \in Calls, Recorded(c)
    PROVE  /\ ~ closed /\ exists' = TRUE /\ saveEmpty' = FALSE
           /\ tape' = Candidate(c) /\ orders' = CandidateOrders(c)
           /\ file' \in [Kinds -> Seq(Recordings)]
           /\ \A k \in Kinds : Ids(file'[k]) = Ids(tape'[k])
           /\ \A k \in Kinds : \A i, j \in 1..Len(file'[k]) :
                i < j => file'[k][i].id < file'[k][j].id
           /\ order[c] \in Ids(tape'[kind[c]])
           /\ \A k \in Kinds : Ids(tape[k]) \subseteq Ids(tape'[k])
<1>1. /\ ~ closed /\ exists' = TRUE /\ saveEmpty' = FALSE
      /\ tape' = Candidate(c) /\ orders' = CandidateOrders(c)
      /\ file' = [k \in Kinds |-> orderedRecordings(tape'[k], orders'[k])]
  BY DEF Recorded, record, Save, Commit
<1>2. tape' \in [Kinds -> Seq(Recordings)] /\ orders' \in [Kinds -> Seq(Nat)]
  BY <1>1, CandidateFacts
<1>3. ASSUME NEW k \in Kinds
      PROVE  /\ file'[k] \in Seq(Recordings)
             /\ Ids(file'[k]) = Ids(tape'[k])
             /\ \A i, j \in 1..Len(file'[k]) : i < j => file'[k][i].id < file'[k][j].id
  <2>1. PICK t \in Seq(Recordings) : t = tape'[k]
    BY <1>2
  <2>2. PICK o \in Seq(Nat) : o = orders'[k]
    BY <1>2
  <2>3. PICK w : w = file'[k]
    OBVIOUS
  <2>4. w = orderedRecordings(t, o)
    BY <1>1, <2>1, <2>2, <2>3, Zenon
  <2>5. t = Candidate(c)[k] /\ o = CandidateOrders(c)[k] /\ MayRecord(c)
    BY <1>1, <2>1, <2>2 DEF Recorded
  <2>6. /\ Len(o) = Len(t) /\ \E f : Sorts(f, o, Len(o))
        /\ \A i, j \in 1..Len(t) :
             (o[i] = o[j] => i = j) /\ (o[i] < o[j] => t[i].id < t[j].id)
    <3>1. Proper(t, o)
      BY <2>5, CandidateProper
    <3>. QED  BY <3>1 DEF Proper
  <2>7. PICK n \in Nat : n = Len(t)
    OBVIOUS
  <2>8. w \in Seq(Recordings) /\ Len(w) = Len(t)
    BY <2>4, <2>6, OrderedFacts
  <2>9. PICK f : /\ Sorts(f, o, Len(t))
                 /\ \A i \in 1..Len(t) : w[i] = t[f[i]]
                 /\ \A i \in 1..Len(t) : \E j \in 1..Len(t) : f[j] = i
    <3>1. \E f : Sorts(f, o, Len(t)) /\ Arranges(f, t, orderedRecordings(t, o))
      BY <2>6, OrderedFacts
    <3>. QED  BY <2>4, <3>1, Zenon DEF Arranges
  <2>10. \A i \in 1..n : f[i] \in 1..n /\ w[i] = t[f[i]]
    BY <2>7, <2>9 DEF Sorts
  <2>11. \A i \in 1..n : \E j \in 1..n : f[j] = i
    BY <2>7, <2>9
  <2>12. \A id : id \in Ids(w) <=> id \in Ids(t)
    <3>1. \A id : id \in Ids(w) <=> \E i \in 1..n : w[i].id = id
      BY <2>7, <2>8, IdsIs
    <3>2. \A id : id \in Ids(t) <=> \E i \in 1..n : t[i].id = id
      BY <2>7, IdsIs
    <3>3. ASSUME NEW id, NEW i \in 1..n, w[i].id = id PROVE \E j \in 1..n : t[j].id = id
      BY <2>10, <3>3
    <3>4. ASSUME NEW id, NEW i \in 1..n, t[i].id = id PROVE \E j \in 1..n : w[j].id = id
      <4>1. PICK j \in 1..n : f[j] = i
        BY <2>11
      <4>2. w[j].id = id
        BY <2>10, <3>4, <4>1
      <4>. QED  BY <4>2
    <3>. QED  BY <3>1, <3>2, <3>3, <3>4, Zenon
  <2>13. ASSUME NEW i \in 1..n, NEW j \in 1..n, i < j PROVE w[i].id < w[j].id
    <3>1. Before(o, f[i], f[j]) /\ f[i] \in 1..n /\ f[j] \in 1..n
      BY <2>7, <2>9, <2>10, <2>13 DEF Sorts
    <3>2. o[f[i]] < o[f[j]]
      <4>1. o[f[i]] = o[f[j]] => f[i] = f[j]
        BY <2>6, <2>7, <3>1
      <4>. QED  BY <3>1, <4>1 DEF Before
    <3>3. t[f[i]].id < t[f[j]].id
      BY <2>6, <2>7, <3>1, <3>2
    <3>. QED  BY <2>10, <3>3
  <2>14. Ids(w) = Ids(t)
    BY <2>12
  <2>. QED  BY <2>1, <2>3, <2>7, <2>8, <2>13, <2>14
<1>4. file' \in [Kinds -> Seq(Recordings)]
  BY <1>1, <1>3
<1>5. order[c] \in Ids(tape'[kind[c]]) /\ \A k \in Kinds : Ids(tape[k]) \subseteq Ids(tape'[k])
  <2>1. kind[c] \in Kinds /\ tape \in [Kinds -> Seq(Recordings)]
    BY DEF IInv, Types
  <2>2. PICK n \in Nat :
          /\ Len(tape[kind[c]]) = n /\ Len(tape'[kind[c]]) = n + 1
          /\ tape'[kind[c]][n + 1].id = order[c]
          /\ \A i \in 1..n : tape'[kind[c]][i] = tape[kind[c]][i]
    BY <1>1, CandidateFacts
  <2>3. \A k \in Kinds : \A id :
          /\ id \in Ids(tape[k]) <=> \E i \in 1..Len(tape[k]) : tape[k][i].id = id
          /\ id \in Ids(tape'[k]) <=> \E i \in 1..Len(tape'[k]) : tape'[k][i].id = id
    <3>1. ASSUME NEW s \in Seq(Recordings), NEW id
          PROVE  id \in Ids(s) <=> \E i \in 1..Len(s) : s[i].id = id
      BY IdsIs
    <3>. QED  BY <1>2, <2>1, <3>1
  <2>4. order[c] \in Ids(tape'[kind[c]])
    <3>1. n + 1 \in 1..Len(tape'[kind[c]])
      BY <2>2
    <3>. QED  BY <2>1, <2>2, <2>3, <3>1
  <2>5. ASSUME NEW k \in Kinds, NEW id \in Ids(tape[k]) PROVE id \in Ids(tape'[k])
    <3>1. CASE k # kind[c]
      <4>1. tape'[k] = tape[k]
        BY <1>1, <3>1, CandidateFacts
      <4>. QED  BY <4>1
    <3>2. CASE k = kind[c]
      <4>1. PICK i \in 1..n : tape[k][i].id = id
        BY <2>2, <2>3, <2>5, <3>2
      <4>2. i \in 1..Len(tape'[k]) /\ tape'[k][i].id = id
        BY <2>2, <3>2, <4>1
      <4>. QED  BY <2>3, <4>2
    <3>. QED  BY <3>1, <3>2
  <2>. QED  BY <2>4, <2>5
<1>6. \A k \in Kinds : Ids(file'[k]) = Ids(tape'[k])
  BY <1>3
<1>7. \A k \in Kinds : \A i, j \in 1..Len(file'[k]) : i < j => file'[k][i].id < file'[k][j].id
  BY <1>3
<1>. QED  BY <1>1, <1>4, <1>5, <1>6, <1>7, Zenon

-----------------------------------------------------------------------------
(* The steps there are.                                                    *)

Live(c) == LiveFails(c) \/ GRPCFails(c) \/ \E err \in RecordErrs : RecordStream(c, err)

LEMMA StepCases ==
    ASSUME [Next]_vars
    PROVE  \/ UNCHANGED vars
           \/ Load \/ Close
           \/ \E c \in Calls, k \in Kinds, r \in Requests : Start(c, k, r)
           \/ \E c \in Calls : TakeMatch(c) \/ Reserve(c) \/ Live(c) \/ Respond(c)
           \/ \E c \in Calls : Read(c) \/ CloseBody(c) \/ CloseDecides(c)
           \/ \E c \in Calls, who \in {"rd", "cl"}, err \in FinishErrs : Finish(c, who, err)
           \/ \E c \in Calls, who \in {"rd", "cl"} : FinishAgain(c, who)
           \/ \E c \in Calls, who \in {"rd", "cl"} : Complete(c, who, "complete", finish[c])
           \/ \E c \in Calls, who \in {"rd", "cl"} : Complete(c, who, "give_up", "incomplete")
  BY Zenon DEF Next, Wrap, Live

(* A load that works.                                                      *)
LoadOk == LoadEmpty \/ LoadFile \/ LoadExpired

(* Steps that leave the cassette alone.                                    *)
Keeps ==
    /\ UNCHANGED <<tape, orders, mode, first>>
    /\ nextOrder' \in Nat /\ nextOrder' >= nextOrder
    /\ saveEmpty' => saveEmpty
    /\ init' = "ok" => init = "ok"
    /\ UNCHANGED <<disk, closed, closeErr>> \/ Close

LEMMA FinishCases ==
    ASSUME IInv, NEW c \in Calls, NEW who \in {"rd", "cl"}, NEW err, Finish(c, who, err)
    PROVE  /\ pc[c] = "body" /\ MayRecord(c)
           /\ UNCHANGED <<mode, lifecycle, first, nextOrder, pc, call, pending, recordErr, completed>>
           /\ \/ Recorded(c) /\ err = "nil"
              \/ /\ UNCHANGED <<cassette, disk>>
                 /\ \/ err = "nil" /\ expected[c] # 0 /\ UNCHANGED saveEmpty
                    \/ err = "save" /\ saveEmpty' = FALSE
                    \/ err \notin {"nil", "save"} /\ UNCHANGED saveEmpty
<1>1. pc[c] = "body"
  BY DEF Finish, At, IInv, CallsProper
<1>2. finish[c] = "no" /\ finalize(c, err)
  BY DEF Finish
<1>3. MayRecord(c)
  BY <1>1, <1>2 DEF MayRecord
<1>4. UNCHANGED <<mode, lifecycle, first, nextOrder, pc, call, pending, recordErr, completed>>
  BY DEF Finish, unchangedByBody, config
<1>5. CASE err = "decode" /\ UNCHANGED <<cassette, saveEmpty, disk>>
  BY <1>1, <1>3, <1>4, <1>5
<1>6. CASE expected[c] # 0 /\ verify(c, err)
  BY <1>1, <1>3, <1>4, <1>6 DEF verify
<1>7. CASE expected[c] = 0 /\ record(c, err)
  <2>1. CASE err = "nil"
    BY <1>1, <1>3, <1>4, <1>7, <2>1 DEF Recorded
  <2>2. CASE err # "nil"
    BY <1>1, <1>3, <1>4, <1>7, <2>2 DEF record
  <2>. QED  BY <2>1, <2>2
<1>. QED  BY <1>2, <1>5, <1>6, <1>7 DEF finalize

LEMMA StreamCases ==
    ASSUME IInv, NEW c \in Calls, NEW err, RecordStream(c, err)
    PROVE  /\ pc[c] = "live" /\ MayRecord(c)
           /\ UNCHANGED <<mode, lifecycle, first, nextOrder, call, body>>
           /\ finishRecording(c, err)
           /\ pc' = [pc EXCEPT ![c] = IF err = "nil" THEN "recorded" ELSE "failed"]
           /\ \/ Recorded(c) /\ err = "nil"
              \/ err # "nil" /\ UNCHANGED <<cassette, disk>> /\ (saveEmpty' => saveEmpty)
<1>1. pc[c] = "live" /\ MayRecord(c)
  BY DEF RecordStream, IInv, CallsProper, MayRecord
<1>2. /\ UNCHANGED <<mode, lifecycle, first, nextOrder, call, body>>
      /\ finishRecording(c, err) /\ record(c, err)
      /\ pc' = [pc EXCEPT ![c] = IF err = "nil" THEN "recorded" ELSE "failed"]
  BY DEF RecordStream, config, Goto
<1>3. CASE err = "nil"
  BY <1>1, <1>2, <1>3 DEF Recorded
<1>4. CASE err # "nil"
  BY <1>1, <1>2, <1>4 DEF record
<1>. QED  BY <1>3, <1>4

LEMMA CassetteCases ==
    ASSUME IInv, [Next]_vars
    PROVE  \/ LoadOk
           \/ \E c \in Calls : Recorded(c) /\ UNCHANGED <<mode, init, closed, first, nextOrder>>
           \/ Keeps
<1>. USE DEF config, cassette, lifecycle, disk
<1>0. nextOrder \in Nat /\ nextOrder >= nextOrder /\ nextOrder + 1 >= nextOrder
  BY DEF IInv, Types
<1>1. ASSUME UNCHANGED vars PROVE Keeps
  BY <1>0, <1>1 DEF vars, Keeps
<1>2. ASSUME Load PROVE LoadOk \/ Keeps
  BY <1>0, <1>2 DEF Load, LoadOk, LoadFails, Keeps
<1>3. ASSUME Close PROVE Keeps
  BY <1>0, <1>3 DEF Close, Keeps
<1>4. ASSUME NEW c \in Calls, NEW k \in Kinds, NEW r \in Requests, Start(c, k, r) PROVE Keeps
  BY <1>0, <1>4 DEF Start, Keeps
<1>5. ASSUME NEW c \in Calls, TakeMatch(c) PROVE Keeps
  BY <1>0, <1>5 DEF TakeMatch, Keeps
<1>6. ASSUME NEW c \in Calls, Reserve(c) PROVE Keeps
  BY <1>0, <1>6 DEF Reserve, Keeps
<1>7. ASSUME NEW c \in Calls, Live(c)
      PROVE  (Recorded(c) /\ UNCHANGED <<mode, init, closed, first, nextOrder>>) \/ Keeps
  <2>1. CASE LiveFails(c) \/ GRPCFails(c)
    BY <1>0, <2>1 DEF LiveFails, GRPCFails, Keeps
  <2>2. ASSUME NEW err \in RecordErrs, RecordStream(c, err)
        PROVE  (Recorded(c) /\ UNCHANGED <<mode, init, closed, first, nextOrder>>) \/ Keeps
    <3>1. mode' = mode /\ UNCHANGED lifecycle /\ first' = first /\ nextOrder' = nextOrder
      BY <2>2, StreamCases
    <3>2. Recorded(c) \/ UNCHANGED <<cassette, disk>>
      BY <2>2, StreamCases
    <3>3. Recorded(c) \/ (saveEmpty' => saveEmpty)
      BY <2>2, StreamCases
    <3>. QED  BY <1>0, <3>1, <3>2, <3>3 DEF Keeps
  <2>. QED  BY <1>7, <2>1, <2>2 DEF Live
<1>8. ASSUME NEW c \in Calls, Respond(c) PROVE Keeps
  BY <1>0, <1>8 DEF Respond, Keeps
<1>9. ASSUME NEW c \in Calls, Read(c) \/ CloseBody(c) \/ CloseDecides(c) PROVE Keeps
  BY <1>0, <1>9 DEF Read, ReadLast, ReadEOF, KeepBytes, CloseBody, CloseDecides, Keeps, unchangedByBody
<1>10. ASSUME NEW c \in Calls, NEW who \in {"rd", "cl"}, NEW err \in FinishErrs, Finish(c, who, err)
       PROVE  (Recorded(c) /\ UNCHANGED <<mode, init, closed, first, nextOrder>>) \/ Keeps
  <2>1. mode' = mode /\ UNCHANGED lifecycle /\ first' = first /\ nextOrder' = nextOrder
    BY <1>10, FinishCases
  <2>2. Recorded(c) \/ UNCHANGED <<cassette, disk>>
    BY <1>10, FinishCases
  <2>3. Recorded(c) \/ (saveEmpty' => saveEmpty)
    BY <1>10, FinishCases
  <2>. QED  BY <1>0, <2>1, <2>2, <2>3 DEF Keeps
<1>11. ASSUME NEW c \in Calls, NEW who \in {"rd", "cl"}, FinishAgain(c, who) PROVE Keeps
  BY <1>0, <1>11 DEF FinishAgain, Keeps, unchangedByBody
<1>12. ASSUME NEW c \in Calls, NEW who \in {"rd", "cl"}, NEW from, NEW err, Complete(c, who, from, err)
       PROVE  Keeps
  BY <1>0, <1>12 DEF Complete, Keeps, unchangedByBody
<1>. QED  BY <1>1, <1>2, <1>3, <1>4, <1>5, <1>6, <1>7, <1>8, <1>9, <1>10, <1>11, <1>12,
             StepCases, Zenon

-----------------------------------------------------------------------------
(* Loading.                                                                *)

LEMMA EmptyFacts ==
    /\ Empty \in [Kinds -> Seq(Recordings)] /\ Empty \in [Kinds -> Seq(Nat)]
    /\ \A k \in Kinds : Empty[k] = <<>> /\ Len(Empty[k]) = 0
  BY DEF Empty

(* What the cassette is made from.                                         *)
LEMMA UseFacts ==
    ASSUME IInv, NEW t \in [Kinds -> Seq(Recordings)], NEW there, Use(t, there)
    PROVE  /\ tape' = t /\ init' = "ok"
           /\ orders' \in [Kinds -> Seq(Nat)] /\ nextOrder' \in Nat /\ first' = nextOrder'
           /\ \A k \in Kinds : Len(orders'[k]) = Len(t[k])
           /\ \A k \in Kinds : \A i \in 1..Len(t[k]) : orders'[k][i] = i - 1 /\ i - 1 < first'
<1>1. /\ tape' = t /\ init' = "ok" /\ first' = nextOrder'
      /\ orders' = [k \in Kinds |-> [i \in DOMAIN t[k] |-> i - 1]]
      /\ nextOrder' = Len(t["http"]) + Len(t["grpc"]) + Len(t["ws"])
  BY DEF Use
<1>2. \A k \in Kinds : Len(t[k]) \in Nat /\ DOMAIN t[k] = 1..Len(t[k])
  OBVIOUS
<1>3. "http" \in Kinds /\ "grpc" \in Kinds /\ "ws" \in Kinds
      /\ \A k \in Kinds : k = "http" \/ k = "grpc" \/ k = "ws"
  BY DEF Kinds
<1>4. nextOrder' \in Nat /\ \A k \in Kinds : Len(t[k]) <= nextOrder'
  <2>1. Len(t["http"]) \in Nat /\ Len(t["grpc"]) \in Nat /\ Len(t["ws"]) \in Nat
    BY <1>2, <1>3
  <2>2. PICK x, y, z \in Nat : x = Len(t["http"]) /\ y = Len(t["grpc"]) /\ z = Len(t["ws"])
    BY <2>1
  <2>3. nextOrder' = x + y + z
    BY <1>1, <2>2
  <2>4. x <= nextOrder' /\ y <= nextOrder' /\ z <= nextOrder' /\ nextOrder' \in Nat
    BY <2>3
  <2>. QED  BY <1>3, <2>2, <2>4
<1>5. ASSUME NEW k \in Kinds
      PROVE  /\ orders'[k] \in Seq(Nat) /\ Len(orders'[k]) = Len(t[k])
             /\ \A i \in 1..Len(t[k]) : orders'[k][i] = i - 1
  <2>1. PICK n \in Nat : n = Len(t[k])
    BY <1>2
  <2>2. PICK o : o = orders'[k]
    OBVIOUS
  <2>3. o = [i \in 1..n |-> i - 1]
    BY <1>1, <1>2, <2>1, <2>2
  <2>4. o \in [1..n -> Nat] /\ \A i \in 1..n : o[i] = i - 1
    BY <2>3
  <2>5. o \in Seq(Nat) /\ Len(o) = n
    BY <2>4
  <2>. QED  BY <2>1, <2>2, <2>4, <2>5
<1>6. orders' \in [Kinds -> Seq(Nat)]
  BY <1>1, <1>5
<1>7. ASSUME NEW k \in Kinds, NEW i \in 1..Len(t[k]) PROVE i - 1 < first'
  <2>1. PICK n \in Nat : n = Len(t[k])
    BY <1>2
  <2>2. n <= nextOrder' /\ i \in 1..n
    BY <1>4, <2>1
  <2>3. PICK m \in Nat : m = nextOrder'
    BY <1>4
  <2>4. n <= m /\ m = first'
    BY <1>1, <2>2, <2>3
  <2>5. i - 1 < m
    BY <2>2, <2>4
  <2>. QED  BY <2>4, <2>5
<1>. QED  BY <1>1, <1>4, <1>5, <1>6, <1>7

Older(t) == \A k \in Kinds : \A i \in 1..Len(t[k]) : t[k][i].id < 0
Increasing(t) ==
    \A k \in Kinds : \A i, j \in 1..Len(t[k]) : i < j => t[k][i].id < t[k][j].id

LEMMA LoadFacts ==
    ASSUME IInv, LoadOk
    PROVE  /\ init = "no" /\ init' = "ok" /\ mode' = mode
           /\ tape' \in [Kinds -> Seq(Recordings)] /\ file' \in [Kinds -> Seq(Recordings)]
           /\ orders' \in [Kinds -> Seq(Nat)] /\ nextOrder' \in Nat /\ first' = nextOrder'
           /\ \A k \in Kinds : Len(orders'[k]) = Len(tape'[k])
           /\ \A k \in Kinds : \A i \in 1..Len(tape'[k]) : orders'[k][i] = i - 1 /\ i - 1 < first'
           /\ Older(tape') /\ Increasing(tape') /\ Increasing(file')
           /\ mode = "all" \/ saveEmpty' => tape' = Empty
           /\ ~ exists' => file' = Empty
           /\ tape' = file' \/ (mode = "all" /\ Older(file') /\ saveEmpty' = exists /\ exists' = exists)
           /\ UNCHANGED <<pc, call, body, pending, recordErr, closed, closeErr>>
<1>1. /\ file \in [Kinds -> Seq(Recordings)] /\ Increasing(file) /\ (~ exists => file = Empty)
  BY DEF IInv, Types, DiskProper, Increasing
<1>2. init = "no"
  BY DEF LoadOk, LoadEmpty, LoadFile, LoadExpired
<1>3. Older(file) /\ ~ saveEmpty
  BY <1>2 DEF IInv, Unloaded, Older
<1>4. Older(Empty) /\ Increasing(Empty) /\ Empty \in [Kinds -> Seq(Recordings)]
  BY EmptyFacts DEF Older, Increasing
<1>5. CASE LoadEmpty
  <2>1. Use(Empty, exists) /\ mode' = mode /\ saveEmpty' = (exists /\ mode = "all")
        /\ UNCHANGED <<pc, call, body, pending, recordErr, closed, closeErr>>
    BY <1>5 DEF LoadEmpty, ReplacesFile
  <2>2. \/ mode = "rewrite" /\ exists' = FALSE /\ file' = Empty
        \/ mode # "rewrite" /\ exists' = exists /\ file' = file /\ (~ exists \/ mode = "all")
    BY <1>5 DEF LoadEmpty, Replays, disk
  <2>3. /\ tape' = Empty /\ init' = "ok"
        /\ orders' \in [Kinds -> Seq(Nat)] /\ nextOrder' \in Nat /\ first' = nextOrder'
        /\ \A k \in Kinds : Len(orders'[k]) = Len(tape'[k])
        /\ \A k \in Kinds : \A i \in 1..Len(tape'[k]) : orders'[k][i] = i - 1 /\ i - 1 < first'
    BY <1>4, <2>1, UseFacts
  <2>4. file' \in [Kinds -> Seq(Recordings)] /\ Increasing(file') /\ (~ exists' => file' = Empty)
        /\ (tape' = file' \/ (mode = "all" /\ Older(file') /\ saveEmpty' = exists /\ exists' = exists))
    BY <1>1, <1>3, <1>4, <2>1, <2>2, <2>3
  <2>. QED  BY <1>2, <1>4, <2>1, <2>3, <2>4
<1>6. CASE LoadFile
  <2>1. Use(file, TRUE) /\ mode' = mode /\ mode # "all" /\ saveEmpty' = saveEmpty
        /\ exists' = exists /\ file' = file /\ exists
        /\ UNCHANGED <<pc, call, body, pending, recordErr, closed, closeErr>>
    BY <1>6 DEF LoadFile, Replays, disk
  <2>2. /\ tape' = file /\ init' = "ok"
        /\ orders' \in [Kinds -> Seq(Nat)] /\ nextOrder' \in Nat /\ first' = nextOrder'
        /\ \A k \in Kinds : Len(orders'[k]) = Len(tape'[k])
        /\ \A k \in Kinds : \A i \in 1..Len(tape'[k]) : orders'[k][i] = i - 1 /\ i - 1 < first'
    BY <1>1, <2>1, UseFacts
  <2>. QED  BY <1>1, <1>2, <1>3, <2>1, <2>2
<1>7. CASE LoadExpired
  <2>1. Use(Empty, FALSE) /\ mode' = mode /\ saveEmpty' = saveEmpty
        /\ exists' = FALSE /\ file' = Empty
        /\ UNCHANGED <<pc, call, body, pending, recordErr, closed, closeErr>>
    BY <1>7 DEF LoadExpired
  <2>2. /\ tape' = Empty /\ init' = "ok"
        /\ orders' \in [Kinds -> Seq(Nat)] /\ nextOrder' \in Nat /\ first' = nextOrder'
        /\ \A k \in Kinds : Len(orders'[k]) = Len(tape'[k])
        /\ \A k \in Kinds : \A i \in 1..Len(tape'[k]) : orders'[k][i] = i - 1 /\ i - 1 < first'
    BY <1>4, <2>1, UseFacts
  <2>. QED  BY <1>2, <1>4, <2>1, <2>2
<1>. QED  BY <1>5, <1>6, <1>7 DEF LoadOk

-----------------------------------------------------------------------------
(* Each conjunct is kept by each step.                                     *)

LEMMA TapeKept ==
    ASSUME IInv, [Next]_vars PROVE TapeProper'
<1>1. ASSUME LoadOk PROVE TapeProper'
  <2>1. /\ tape' \in [Kinds -> Seq(Recordings)] /\ first' = nextOrder' /\ first' \in Nat
        /\ \A k \in Kinds : Len(orders'[k]) = Len(tape'[k])
        /\ \A k \in Kinds : \A i \in 1..Len(tape'[k]) : orders'[k][i] = i - 1 /\ i - 1 < first'
        /\ Older(tape') /\ Increasing(tape') /\ mode' = mode
        /\ mode = "all" => tape' = Empty
    BY <1>1, LoadFacts
  <2>2. SUFFICES ASSUME NEW k \in Kinds
                 PROVE  /\ \E f : Sorts(f, orders'[k], Len(orders'[k]))
                        /\ \A i \in 1..Len(tape'[k]) :
                             /\ orders'[k][i] < nextOrder'
                             /\ ~ (orders'[k][i] >= first')
                             /\ tape'[k][i].id < 0 /\ mode' # "all"
                        /\ \A i, j \in 1..Len(tape'[k]) :
                             /\ orders'[k][i] = orders'[k][j] => i = j
                             /\ orders'[k][i] < orders'[k][j] => tape'[k][i].id < tape'[k][j].id
    BY <2>1 DEF TapeProper
  <2>3. PICK n \in Nat : n = Len(tape'[k])
    BY <2>1
  <2>4. PICK o : o = orders'[k] /\ Len(o) = n /\ \A i \in 1..n : o[i] = i - 1 /\ i - 1 < first'
    BY <2>1, <2>3
  <2>5. Sorts([i \in 1..n |-> i], o, n)
    BY <2>4 DEF Sorts, Before
  <2>6. \A i \in 1..n : tape'[k][i].id < 0 /\ mode' # "all"
    <3>1. \A i \in 1..n : tape'[k][i].id < 0
      BY <2>1, <2>3 DEF Older
    <3>2. mode = "all" => n = 0
      BY <2>1, <2>3, EmptyFacts
    <3>. QED  BY <2>1, <3>1, <3>2
  <2>7. \A i, j \in 1..n : (o[i] = o[j] => i = j) /\ (o[i] < o[j] => i < j)
    BY <2>4
  <2>8. \A i, j \in 1..n : i < j => tape'[k][i].id < tape'[k][j].id
    BY <2>1, <2>3 DEF Increasing
  <2>9. \E f : Sorts(f, o, Len(o))
    BY <2>4, <2>5
  <2>10. \A i \in 1..n : o[i] < nextOrder' /\ ~ (o[i] >= first')
    BY <2>1, <2>4
  <2>11. \A i, j \in 1..n : (o[i] = o[j] => i = j) /\ (o[i] < o[j] => tape'[k][i].id < tape'[k][j].id)
    BY <2>7, <2>8
  <2>. QED  BY <2>3, <2>4, <2>6, <2>9, <2>10, <2>11
<1>2. ASSUME NEW c \in Calls, Recorded(c), UNCHANGED <<mode, init, closed, first, nextOrder>> PROVE TapeProper'
  <2>1. tape' = Candidate(c) /\ orders' = CandidateOrders(c) /\ MayRecord(c)
    BY <1>2, SavedFacts DEF Recorded
  <2>2. SUFFICES ASSUME NEW k \in Kinds, NEW t, NEW o, t = tape'[k], o = orders'[k]
        PROVE  Proper(t, o)
    <3>1. mode' = mode /\ first' = first /\ nextOrder' = nextOrder
      BY <1>2
    <3>. QED  BY <3>1 DEF TapeProper, Proper
  <2>3. t = Candidate(c)[k] /\ o = CandidateOrders(c)[k]
    BY <2>1, <2>2
  <2>4. MayRecord(c)
    BY <2>1
  <2>. QED  BY <2>3, <2>4, CandidateProper
<1>3. ASSUME Keeps PROVE TapeProper'
  <2>1. tape' = tape /\ orders' = orders /\ mode' = mode /\ first' = first
        /\ nextOrder \in Nat /\ nextOrder' \in Nat /\ nextOrder <= nextOrder'
    BY <1>3 DEF Keeps, IInv, Types
  <2>2. ASSUME NEW k \in Kinds, NEW i \in 1..Len(tape[k]) PROVE orders[k][i] < nextOrder'
    <3>1. orders[k] \in Seq(Nat) /\ Len(orders[k]) = Len(tape[k]) /\ orders[k][i] < nextOrder
      BY DEF IInv, Types, TapeProper
    <3>2. orders[k][i] \in Nat
      BY <3>1
    <3>. QED  BY <2>1, <3>1, <3>2
  <2>. QED  BY <2>1, <2>2 DEF IInv, TapeProper
<1>. QED  BY <1>1, <1>2, <1>3, CassetteCases

CallTypes ==
    /\ pc \in [Calls -> Pcs] /\ kind \in [Calls -> Kinds]
    /\ req \in [Calls -> Requests \cup {CHOOSE r \in Requests : TRUE}]
    /\ order \in [Calls -> Nat] /\ DOMAIN expected = Calls
    /\ rd \in [Calls -> {"none", "reading", "eof", "finish", "complete", "end"}]
    /\ cl \in [Calls -> {"none", "reading", "closing", "finish", "give_up",
                         "complete", "end"}]
    /\ finish \in [Calls -> FinishErrs \cup {"no"}]
    /\ completed \in [Calls -> BOOLEAN]

LEMMA CallTypesKept ==
    ASSUME IInv, [Next]_vars PROVE CallTypes'
<1>0. CallTypes /\ nextOrder \in Nat
  BY DEF IInv, Types, CallTypes
<1>. USE <1>0 DEF CallTypes, call, body, Goto
<1>1. CASE UNCHANGED vars
  BY <1>1 DEF vars
<1>2. CASE Load
  BY <1>2 DEF Load, LoadEmpty, LoadFile, LoadExpired, LoadFails
<1>3. CASE Close
  BY <1>3 DEF Close
<1>4. ASSUME NEW c \in Calls, NEW k \in Kinds, NEW r \in Requests, Start(c, k, r) PROVE CallTypes'
  BY <1>4 DEF Start, Pcs
<1>5. ASSUME NEW c \in Calls, TakeMatch(c) PROVE CallTypes'
  <2>1. UNCHANGED <<kind, req, order, body>>
    BY <1>5 DEF TakeMatch
  <2>2. DOMAIN expected' = Calls
    BY <1>5 DEF TakeMatch
  <2>3. pc' \in [Calls -> Pcs]
    BY <1>5 DEF TakeMatch, Pcs
  <2>. QED  BY <2>1, <2>2, <2>3
<1>6. ASSUME NEW c \in Calls, Reserve(c) PROVE CallTypes'
  BY <1>6 DEF Reserve, Pcs
<1>7. ASSUME NEW c \in Calls, Live(c) PROVE CallTypes'
  BY <1>7 DEF Live, LiveFails, GRPCFails, RecordStream, Pcs
<1>8. ASSUME NEW c \in Calls, Respond(c) PROVE CallTypes'
  BY <1>8 DEF Respond, Pcs
<1>9. ASSUME NEW c \in Calls, Read(c) \/ CloseBody(c) \/ CloseDecides(c) PROVE CallTypes'
  BY <1>9 DEF Read, ReadLast, ReadEOF, KeepBytes, CloseBody, CloseDecides, unchangedByBody
<1>10. ASSUME NEW c \in Calls, NEW who \in {"rd", "cl"}, NEW err \in FinishErrs, Finish(c, who, err)
       PROVE  CallTypes'
  BY <1>10 DEF Finish, At, unchangedByBody
<1>11. ASSUME NEW c \in Calls, NEW who \in {"rd", "cl"}, FinishAgain(c, who) PROVE CallTypes'
  BY <1>11 DEF FinishAgain, At, unchangedByBody
<1>12. ASSUME NEW c \in Calls, NEW who \in {"rd", "cl"}, NEW from, NEW err, Complete(c, who, from, err)
       PROVE  CallTypes'
  BY <1>12 DEF Complete, At, unchangedByBody
<1>. QED  BY <1>1, <1>2, <1>3, <1>4, <1>5, <1>6, <1>7, <1>8, <1>9, <1>10, <1>11, <1>12,
             StepCases, Zenon

LEMMA TypesKept ==
    ASSUME IInv, [Next]_vars PROVE Types'
<1>1. CallTypes'
  BY CallTypesKept
<1>2. /\ mode' \in Modes
      /\ tape' \in [Kinds -> Seq(Recordings)] /\ file' \in [Kinds -> Seq(Recordings)]
      /\ orders' \in [Kinds -> Seq(Nat)]
      /\ nextOrder' \in Nat /\ first' \in Nat
  <2>0. /\ mode \in Modes
        /\ tape \in [Kinds -> Seq(Recordings)] /\ file \in [Kinds -> Seq(Recordings)]
        /\ orders \in [Kinds -> Seq(Nat)]
        /\ nextOrder \in Nat /\ first \in Nat
    BY DEF IInv, Types
  <2>1. CASE LoadOk
    BY <2>0, <2>1, LoadFacts
  <2>2. ASSUME NEW c \in Calls, Recorded(c), UNCHANGED <<mode, init, closed, first, nextOrder>>
        PROVE  <1>2!1 /\ <1>2!2 /\ <1>2!3 /\ <1>2!4
    <3>1. tape' = Candidate(c) /\ orders' = CandidateOrders(c) /\ file' \in [Kinds -> Seq(Recordings)]
      BY <2>2, SavedFacts
    <3>2. tape' \in [Kinds -> Seq(Recordings)] /\ orders' \in [Kinds -> Seq(Nat)]
      BY <3>1, CandidateFacts
    <3>. QED  BY <2>0, <2>2, <3>1, <3>2
  <2>3. CASE Keeps
    <3>1. tape' = tape /\ orders' = orders /\ mode' = mode /\ first' = first /\ nextOrder' \in Nat
      BY <2>3 DEF Keeps
    <3>2. file' = file \/ file' = tape
      BY <2>3 DEF Keeps, Close, disk
    <3>. QED  BY <2>0, <3>1, <3>2
  <2>. QED  BY <2>1, <2>2, <2>3, CassetteCases
<1>. QED  BY <1>1, <1>2 DEF Types, CallTypes

LEMMA UnloadedKept ==
    ASSUME IInv, [Next]_vars PROVE Unloaded'
<1>. USE DEF config, lifecycle, cassette, disk, call, body, unchangedByBody
<1>1. CASE init = "ok" \/ init' = "ok"
  <2>1. CASE init' = "ok"
    BY <2>1 DEF Unloaded
  <2>2. CASE init = "ok"
    <3>1. init' = init
      <4>1. ASSUME UNCHANGED vars PROVE init' = init
        BY <4>1 DEF vars
      <4>2. ~ Load
        BY <2>2 DEF Load, LoadEmpty, LoadFile, LoadExpired, LoadFails
      <4>3. ASSUME Close PROVE init' = init
        BY <4>3 DEF Close
      <4>4. ASSUME NEW c \in Calls, NEW k \in Kinds, NEW r \in Requests, Start(c, k, r)
            PROVE  init' = init
        BY <4>4 DEF Start
      <4>5. ASSUME NEW c \in Calls, TakeMatch(c) \/ Reserve(c) \/ Live(c) \/ Respond(c)
            PROVE  init' = init
        BY <4>5 DEF TakeMatch, Reserve, Live, LiveFails, GRPCFails, RecordStream, Respond
      <4>6. ASSUME NEW c \in Calls, Read(c) \/ CloseBody(c) \/ CloseDecides(c) PROVE init' = init
        BY <4>6 DEF Read, ReadLast, ReadEOF, KeepBytes, CloseBody, CloseDecides
      <4>7. ASSUME NEW c \in Calls, NEW who, NEW err, Finish(c, who, err) PROVE init' = init
        BY <4>7 DEF Finish
      <4>8. ASSUME NEW c \in Calls, NEW who, FinishAgain(c, who) PROVE init' = init
        BY <4>8 DEF FinishAgain
      <4>9. ASSUME NEW c \in Calls, NEW who, NEW from, NEW err, Complete(c, who, from, err)
            PROVE  init' = init
        BY <4>9 DEF Complete
      <4>. QED  BY <4>1, <4>2, <4>3, <4>4, <4>5, <4>6, <4>7, <4>8, <4>9, StepCases, Zenon
    <3>. QED  BY <2>2, <3>1 DEF Unloaded
  <2>. QED  BY <1>1, <2>1, <2>2
<1>2. CASE init # "ok" /\ init' # "ok"
  <2>0. /\ tape = Empty /\ orders = Empty /\ nextOrder = 0 /\ first = 0
        /\ ~ closed /\ ~ saveEmpty
        /\ \A c \in Calls : pc[c] \in {"idle", "init_error"} /\ rd[c] = "none" /\ cl[c] = "none"
        /\ \A k \in Kinds : \A i \in 1..Len(file[k]) : file[k][i].id < 0
        /\ pc \in [Calls -> Pcs]
    BY <1>2 DEF IInv, Unloaded, CallsProper, Types
  <2>1. ASSUME UNCHANGED vars PROVE Unloaded'
    BY <2>0, <2>1 DEF vars, Unloaded
  <2>2. ASSUME Load PROVE Unloaded'
    <3>1. LoadFails
      BY <1>2, <2>2, LoadFacts DEF Load, LoadOk
    <3>. QED  BY <2>0, <3>1 DEF LoadFails, Unloaded
  <2>3. ~ Close
    BY <1>2 DEF Close
  <2>4. ASSUME NEW c \in Calls, NEW k \in Kinds, NEW r \in Requests, Start(c, k, r)
        PROVE  Unloaded'
    <3>1. pc' = [pc EXCEPT ![c] = "init_error"]
      BY <1>2, <2>4 DEF Start, Goto
    <3>2. UNCHANGED <<tape, orders, nextOrder, first, closed, saveEmpty, file>>
      BY <2>4 DEF Start
    <3>. QED  BY <2>0, <3>1, <3>2 DEF Unloaded
  <2>5. ASSUME NEW c \in Calls PROVE ~ (TakeMatch(c) \/ Reserve(c) \/ Live(c) \/ Respond(c))
    BY <2>0 DEF TakeMatch, Reserve, Live, LiveFails, GRPCFails, RecordStream, Respond
  <2>6. ASSUME NEW c \in Calls PROVE ~ (Read(c) \/ CloseBody(c) \/ CloseDecides(c))
    BY <2>0 DEF Read, ReadLast, ReadEOF, KeepBytes, CloseBody, CloseDecides
  <2>7. ASSUME NEW c \in Calls, NEW who, NEW err PROVE ~ Finish(c, who, err)
    BY <2>0 DEF Finish, At
  <2>8. ASSUME NEW c \in Calls, NEW who PROVE ~ FinishAgain(c, who)
    BY <2>0 DEF FinishAgain, At
  <2>9. ASSUME NEW c \in Calls, NEW who, NEW err
        PROVE  ~ Complete(c, who, "complete", err) /\ ~ Complete(c, who, "give_up", err)
    BY <2>0 DEF Complete, At
  <2>. QED  BY <2>1, <2>2, <2>3, <2>4, <2>5, <2>6, <2>7, <2>8, <2>9, StepCases, Zenon
<1>. QED  BY <1>1, <1>2

LEMMA CallsKept ==
    ASSUME IInv, [Next]_vars PROVE CallsProper'
<1>. USE DEF config, lifecycle, cassette, disk, call, body, unchangedByBody
<1>0. /\ CallsProper
      /\ pc \in [Calls -> Pcs] /\ order \in [Calls -> Nat] /\ nextOrder \in Nat /\ first \in Nat
      /\ rd \in [Calls -> {"none", "reading", "eof", "finish", "complete", "end"}]
      /\ cl \in [Calls -> {"none", "reading", "closing", "finish", "give_up",
                           "complete", "end"}]
      /\ finish \in [Calls -> FinishErrs \cup {"no"}]
      /\ completed \in [Calls -> BOOLEAN]
  BY DEF IInv, Types
<1>1. ASSUME UNCHANGED vars PROVE CallsProper'
  BY <1>0, <1>1 DEF vars, CallsProper
<1>2. ASSUME Load PROVE CallsProper'
  <2>1. CASE LoadFails
    BY <1>0, <2>1 DEF LoadFails, CallsProper
  <2>2. CASE LoadOk
    <3>1. init = "no" /\ UNCHANGED <<pc, call, body, pending, recordErr>>
          /\ nextOrder' \in Nat /\ first' = nextOrder'
      BY <2>2, LoadFacts
    <3>2. \A c \in Calls : pc[c] \in {"idle", "init_error"}
      BY <3>1 DEF IInv, Unloaded
    <3>. QED  BY <1>0, <3>1, <3>2 DEF CallsProper, Reserved
  <2>. QED  BY <1>2, <2>1, <2>2 DEF Load, LoadOk
<1>3. ASSUME Close PROVE CallsProper'
  BY <1>0, <1>3 DEF Close, CallsProper
<1>4. ASSUME NEW c \in Calls, NEW k \in Kinds, NEW r \in Requests, Start(c, k, r)
      PROVE  CallsProper'
  <2>1. /\ pc[c] = "idle"
        /\ UNCHANGED <<order, first, nextOrder, pending, recordErr, rd, cl, finish, completed>>
    BY <1>4 DEF Start
  <2>2. PICK to \in {"init_error", "closed", "open", "passed", "hook_error"} :
          pc' = [pc EXCEPT ![c] = to]
    BY <1>4 DEF Start, Goto
  <2>. QED  BY <1>0, <2>1, <2>2 DEF CallsProper, Reserved
<1>5. ASSUME NEW c \in Calls, TakeMatch(c) PROVE CallsProper'
  <2>1. /\ pc[c] = "open"
        /\ UNCHANGED <<order, first, nextOrder, pending, recordErr, rd, cl, finish, completed>>
    BY <1>5 DEF TakeMatch
  <2>2. PICK to \in {"closed", "reserve", "no_match", "replayed"} :
          pc' = [pc EXCEPT ![c] = to]
    BY <1>5 DEF TakeMatch, Goto
  <2>. QED  BY <1>0, <2>1, <2>2 DEF CallsProper, Reserved
<1>6. ASSUME NEW c \in Calls, Reserve(c) PROVE CallsProper'
  <2>1. /\ pc[c] \in {"open", "reserve"}
        /\ UNCHANGED <<first, recordErr, rd, cl, finish, completed>>
    BY <1>6 DEF Reserve
  <2>2. CASE closed
    <3>1. pc' = [pc EXCEPT ![c] = "closed"] /\ UNCHANGED <<order, nextOrder, pending>>
      BY <1>6, <2>2 DEF Reserve, Goto
    <3>. QED  BY <1>0, <2>1, <3>1 DEF CallsProper, Reserved
  <2>3. CASE ~ closed
    <3>1. /\ pc' = [pc EXCEPT ![c] = "live"] /\ order' = [order EXCEPT ![c] = nextOrder]
          /\ nextOrder' = nextOrder + 1 /\ pending' = pending \cup {nextOrder}
      BY <1>6, <2>3 DEF Reserve, Goto
    <3>. QED  BY <1>0, <2>1, <3>1 DEF CallsProper, Reserved
  <2>. QED  BY <2>2, <2>3
<1>7. ASSUME NEW c \in Calls, Live(c) PROVE CallsProper'
  <2>1. /\ pc[c] = "live"
        /\ UNCHANGED <<order, first, nextOrder, rd, cl, finish, completed>>
    BY <1>7 DEF Live, LiveFails, GRPCFails, RecordStream
  <2>2. PICK to \in {"unrecorded", "failed", "recorded"} : pc' = [pc EXCEPT ![c] = to]
    BY <1>7 DEF Live, LiveFails, GRPCFails, RecordStream, Goto
  <2>3. pending' = pending \ {order[c]} /\ recordErr \subseteq recordErr'
    BY <1>7 DEF Live, LiveFails, GRPCFails, RecordStream, finishRecording
  <2>. QED  BY <1>0, <2>1, <2>2, <2>3 DEF CallsProper, Reserved
<1>8. ASSUME NEW c \in Calls, Respond(c) PROVE CallsProper'
  <2>1. /\ pc[c] = "live" /\ pc' = [pc EXCEPT ![c] = "body"]
        /\ UNCHANGED <<order, first, nextOrder, pending, recordErr, finish, completed>>
        /\ \A d \in Calls : d # c => rd'[d] = rd[d] /\ cl'[d] = cl[d]
    BY <1>0, <1>8 DEF Respond, Goto
  <2>. QED  BY <1>0, <2>1 DEF CallsProper, Reserved
<1>9. ASSUME NEW c \in Calls, Read(c) \/ CloseBody(c) \/ CloseDecides(c) PROVE CallsProper'
  <2>1. /\ rd[c] # "none" \/ cl[c] # "none"
        /\ UNCHANGED <<pc, order, first, nextOrder, pending, recordErr, finish, completed>>
        /\ \A d \in Calls : d # c => rd'[d] = rd[d] /\ cl'[d] = cl[d]
    BY <1>0, <1>9 DEF Read, ReadLast, ReadEOF, KeepBytes, CloseBody, CloseDecides
  <2>. QED  BY <1>0, <2>1 DEF CallsProper
<1>10. ASSUME NEW c \in Calls, NEW who \in {"rd", "cl"}, NEW err \in FinishErrs, Finish(c, who, err)
       PROVE  CallsProper'
  <2>1. /\ pc[c] = "body" /\ finish[c] = "no" /\ finish' = [finish EXCEPT ![c] = err]
        /\ UNCHANGED <<pc, order, first, nextOrder, pending, recordErr, completed>>
    BY <1>10, FinishCases DEF Finish
  <2>2. \A d \in Calls : d # c => rd'[d] = rd[d] /\ cl'[d] = cl[d]
    BY <1>0, <1>10 DEF Finish, At
  <2>. QED  BY <1>0, <2>1, <2>2 DEF CallsProper
<1>11. ASSUME NEW c \in Calls, NEW who \in {"rd", "cl"}, FinishAgain(c, who) PROVE CallsProper'
  <2>1. /\ rd[c] # "none" \/ cl[c] # "none"
        /\ UNCHANGED <<pc, order, first, nextOrder, pending, recordErr, finish, completed>>
        /\ \A d \in Calls : d # c => rd'[d] = rd[d] /\ cl'[d] = cl[d]
    BY <1>0, <1>11 DEF FinishAgain, At
  <2>. QED  BY <1>0, <2>1 DEF CallsProper
<1>12. ASSUME NEW c \in Calls, NEW who \in {"rd", "cl"}, NEW from, NEW err, Complete(c, who, from, err),
              from # "none", err # "nil" \/ finish[c] = "nil"
       PROVE  CallsProper'
  <2>1. /\ rd[c] # "none" \/ cl[c] # "none"
        /\ UNCHANGED <<pc, order, first, nextOrder, finish>>
        /\ \A d \in Calls : d # c => rd'[d] = rd[d] /\ cl'[d] = cl[d]
        /\ completed' = [completed EXCEPT ![c] = TRUE]
    BY <1>0, <1>12 DEF Complete, At
  <2>2. pc[c] = "body"
    BY <1>0, <2>1 DEF CallsProper
  <2>3. CASE completed[c]
    <3>1. UNCHANGED <<pending, recordErr>>
      BY <1>12, <2>3 DEF Complete
    <3>. QED  BY <1>0, <2>1, <2>2, <2>3, <3>1 DEF CallsProper
  <2>4. CASE ~ completed[c]
    <3>1. /\ pending' = pending \ {order[c]} /\ recordErr \subseteq recordErr'
          /\ err # "nil" => recordErr' # {}
      BY <1>12, <2>4 DEF Complete, finishRecording
    <3>2. err # "nil" \/ finish[c] = "nil"
      BY <1>12
    <3>. QED  BY <1>0, <2>1, <2>2, <3>1, <3>2 DEF CallsProper, Reserved
  <2>. QED  BY <2>3, <2>4
<1>13. ASSUME NEW c \in Calls, NEW who \in {"rd", "cl"}, Complete(c, who, "complete", finish[c])
       PROVE  CallsProper'
  <2>1. "complete" # "none" /\ (finish[c] # "nil" \/ finish[c] = "nil")
    OBVIOUS
  <2>. QED  BY <1>12, <1>13, <2>1, Zenon
<1>14. ASSUME NEW c \in Calls, NEW who \in {"rd", "cl"}, Complete(c, who, "give_up", "incomplete")
       PROVE  CallsProper'
  <2>1. "give_up" # "none" /\ ("incomplete" # "nil" \/ finish[c] = "nil")
    OBVIOUS
  <2>. QED  BY <1>12, <1>14, <2>1, Zenon
<1>. QED  BY <1>1, <1>2, <1>3, <1>4, <1>5, <1>6, <1>7, <1>8, <1>9, <1>10, <1>11, <1>13, <1>14,
             StepCases, Zenon

(* Who may still record: a call that just reserved its order, or one that  *)
(* could before, and does not record in this step.                         *)
Reserves(d) == order'[d] = nextOrder /\ UNCHANGED <<tape, orders>>
StillMay(d) ==
    /\ MayRecord(d) /\ order'[d] = order[d]
    /\ UNCHANGED <<tape, orders>> \/ \E c \in Calls : c # d /\ Recorded(c)

LEMMA MayRecordCases ==
    ASSUME IInv, [Next]_vars, NEW d \in Calls, MayRecord(d)'
    PROVE  Reserves(d) \/ StillMay(d)
<1>. USE DEF config, lifecycle, cassette, disk, call, body, unchangedByBody
<1>0. /\ CallsProper
      /\ pc \in [Calls -> Pcs] /\ order \in [Calls -> Nat]
      /\ finish \in [Calls -> FinishErrs \cup {"no"}]
      /\ pc'[d] \in {"live", "body"} /\ finish'[d] = "no"
  BY DEF IInv, Types, MayRecord
<1>1. ASSUME UNCHANGED <<pc, order, finish, tape, orders>> PROVE StillMay(d)
  BY <1>0, <1>1 DEF StillMay, MayRecord
<1>2. ASSUME Load PROVE StillMay(d)
  <2>1. CASE LoadFails
    BY <1>1, <2>1 DEF LoadFails
  <2>2. CASE LoadOk
    <3>1. init = "no" /\ pc' = pc
      BY <2>2, LoadFacts
    <3>2. pc[d] \in {"idle", "init_error"}
      BY <3>1 DEF IInv, Unloaded
    <3>. QED  BY <1>0, <3>1, <3>2
  <2>. QED  BY <1>2, <2>1, <2>2 DEF Load, LoadOk
<1>3. ASSUME NEW c \in Calls, NEW to, pc' = [pc EXCEPT ![c] = to], to \notin {"live", "body"} \/ MayRecord(c),
             UNCHANGED <<order, finish, tape, orders>>
      PROVE  StillMay(d)
  BY <1>0, <1>3 DEF StillMay, MayRecord
<1>4. ASSUME NEW c \in Calls, NEW k \in Kinds, NEW r \in Requests, Start(c, k, r) PROVE StillMay(d)
  <2>1. PICK to : pc' = [pc EXCEPT ![c] = to] /\ to \notin {"live", "body"}
    BY <1>4 DEF Start, Goto
  <2>2. UNCHANGED <<order, finish, tape, orders>>
    BY <1>4 DEF Start
  <2>. QED  BY <1>3, <2>1, <2>2
<1>5. ASSUME NEW c \in Calls, TakeMatch(c) PROVE StillMay(d)
  <2>1. PICK to : pc' = [pc EXCEPT ![c] = to] /\ to \notin {"live", "body"}
    BY <1>5 DEF TakeMatch, Goto
  <2>2. UNCHANGED <<order, finish, tape, orders>>
    BY <1>5 DEF TakeMatch
  <2>. QED  BY <1>3, <2>1, <2>2
<1>6. ASSUME NEW c \in Calls, Reserve(c) PROVE Reserves(d) \/ StillMay(d)
  <2>1. CASE closed
    <3>1. pc' = [pc EXCEPT ![c] = "closed"] /\ UNCHANGED <<order, finish, tape, orders>>
      BY <1>6, <2>1 DEF Reserve, Goto
    <3>. QED  BY <1>3, <3>1
  <2>2. CASE ~ closed
    <3>1. /\ pc' = [pc EXCEPT ![c] = "live"] /\ order' = [order EXCEPT ![c] = nextOrder]
          /\ UNCHANGED <<finish, tape, orders>>
      BY <1>6, <2>2 DEF Reserve, Goto
    <3>2. CASE d = c
      BY <1>0, <3>1, <3>2 DEF Reserves
    <3>3. CASE d # c
      BY <1>0, <3>1, <3>3 DEF StillMay, MayRecord
    <3>. QED  BY <3>2, <3>3
  <2>. QED  BY <2>1, <2>2
<1>7. ASSUME NEW c \in Calls, Live(c) PROVE StillMay(d)
  <2>1. CASE LiveFails(c) \/ GRPCFails(c)
    <3>1. PICK to : pc' = [pc EXCEPT ![c] = to] /\ to \notin {"live", "body"}
      BY <2>1 DEF LiveFails, GRPCFails, Goto
    <3>2. UNCHANGED <<order, finish, tape, orders>>
      BY <2>1 DEF LiveFails, GRPCFails
    <3>. QED  BY <1>3, <3>1, <3>2
  <2>2. ASSUME NEW err \in RecordErrs, RecordStream(c, err) PROVE StillMay(d)
    <3>1. /\ UNCHANGED <<order, finish>>
          /\ pc' = [pc EXCEPT ![c] = IF err = "nil" THEN "recorded" ELSE "failed"]
      BY <2>2, StreamCases
    <3>2. Recorded(c) \/ UNCHANGED <<tape, orders>>
      BY <2>2, StreamCases
    <3>3. d # c /\ MayRecord(d) /\ order'[d] = order[d]
      BY <1>0, <3>1 DEF MayRecord
    <3>. QED  BY <3>2, <3>3 DEF StillMay
  <2>. QED  BY <1>7, <2>1, <2>2 DEF Live
<1>8. ASSUME NEW c \in Calls, Respond(c) PROVE StillMay(d)
  <2>1. /\ pc[c] = "live" /\ pc' = [pc EXCEPT ![c] = "body"]
        /\ UNCHANGED <<order, finish, tape, orders>>
    BY <1>8 DEF Respond, Goto
  <2>2. MayRecord(c)
    BY <1>0, <2>1 DEF CallsProper, MayRecord
  <2>. QED  BY <1>3, <2>1, <2>2
<1>9. ASSUME NEW c \in Calls, Read(c) \/ CloseBody(c) \/ CloseDecides(c) PROVE StillMay(d)
  BY <1>1, <1>9 DEF Read, ReadLast, ReadEOF, KeepBytes, CloseBody, CloseDecides
<1>10. ASSUME NEW c \in Calls, NEW who \in {"rd", "cl"}, NEW err \in FinishErrs, Finish(c, who, err)
       PROVE  StillMay(d)
  <2>1. finish' = [finish EXCEPT ![c] = err] /\ UNCHANGED <<pc, order>>
    BY <1>10 DEF Finish
  <2>2. d # c
    BY <1>0, <2>1 DEF FinishErrs, RecordErrs
  <2>3. Recorded(c) \/ UNCHANGED <<tape, orders>>
    BY <1>10, FinishCases
  <2>. QED  BY <1>0, <2>1, <2>2, <2>3 DEF StillMay, MayRecord
<1>11. ASSUME NEW c \in Calls, NEW who \in {"rd", "cl"}, FinishAgain(c, who) PROVE StillMay(d)
  BY <1>1, <1>11 DEF FinishAgain
<1>12. ASSUME NEW c \in Calls, NEW who \in {"rd", "cl"}, NEW from, NEW err, Complete(c, who, from, err)
       PROVE  StillMay(d)
  BY <1>1, <1>12 DEF Complete
<1>13. ASSUME UNCHANGED vars PROVE StillMay(d)
  BY <1>1, <1>13 DEF vars
<1>14. ASSUME Close PROVE StillMay(d)
  BY <1>1, <1>14 DEF Close
<1>. QED  BY <1>2, <1>4, <1>5, <1>6, <1>7, <1>8, <1>9, <1>10, <1>11, <1>12, <1>13, <1>14,
             StepCases, Zenon

LEMMA UnrecordedKept ==
    ASSUME IInv, [Next]_vars PROVE Unrecorded'
<1>0. /\ tape \in [Kinds -> Seq(Recordings)] /\ orders \in [Kinds -> Seq(Nat)]
      /\ order \in [Calls -> Nat] /\ nextOrder \in Nat
  BY DEF IInv, Types
<1>1. SUFFICES ASSUME NEW d \in Calls, NEW k \in Kinds, MayRecord(d)', NEW i \in 1..Len(tape'[k])
               PROVE  orders'[k][i] # order'[d]
  BY DEF Unrecorded
<1>2. CASE Reserves(d)
  <2>1. order'[d] = nextOrder /\ i \in 1..Len(tape[k]) /\ orders'[k] = orders[k]
    BY <1>2 DEF Reserves
  <2>2. orders[k][i] < nextOrder /\ orders[k][i] \in Nat
    <3>1. Len(orders[k]) = Len(tape[k]) /\ orders[k] \in Seq(Nat) /\ orders[k][i] < nextOrder
      BY <1>0, <2>1 DEF IInv, TapeProper
    <3>. QED  BY <2>1, <3>1
  <2>. QED  BY <1>0, <2>1, <2>2
<1>3. CASE StillMay(d)
  <2>1. MayRecord(d) /\ order'[d] = order[d]
    BY <1>3 DEF StillMay
  <2>2. \A j \in 1..Len(tape[k]) : orders[k][j] # order[d]
    BY <2>1 DEF IInv, Unrecorded
  <2>3. CASE UNCHANGED <<tape, orders>>
    BY <2>1, <2>2, <2>3
  <2>4. ASSUME NEW c \in Calls, c # d, Recorded(c) PROVE orders'[k][i] # order[d]
    <3>1. tape' = Candidate(c) /\ orders' = CandidateOrders(c) /\ MayRecord(c)
      BY <2>4, SavedFacts DEF Recorded
    <3>2. order[c] # order[d]
      BY <2>1, <2>4, <3>1 DEF IInv, CallsProper, MayRecord, Reserved
    <3>3. CASE k # kind[c]
      <4>1. tape'[k] = tape[k] /\ orders'[k] = orders[k]
        BY <3>1, <3>3, CandidateFacts
      <4>. QED  BY <2>2, <4>1
    <3>4. CASE k = kind[c]
      <4>1. PICK n \in Nat :
              /\ Len(tape[k]) = n /\ Len(tape'[k]) = n + 1
              /\ orders'[k][n + 1] = order[c]
              /\ \A j \in 1..n : orders'[k][j] = orders[k][j]
        BY <3>1, <3>4, CandidateFacts
      <4>2. i \in 1..n \/ i = n + 1
        BY <4>1
      <4>. QED  BY <2>2, <3>2, <4>1, <4>2
    <3>. QED  BY <3>3, <3>4
  <2>. QED  BY <1>3, <2>1, <2>3, <2>4 DEF StillMay
<1>. QED  BY <1>1, <1>2, <1>3, MayRecordCases

(* What DiskProper says of a loaded cassette.                              *)
SameIds(t, f) == \A k \in Kinds : Ids(t[k]) = Ids(f[k])

LEMMA DiskKept ==
    ASSUME IInv, [Next]_vars PROVE DiskProper'
<1>0. /\ ~ exists => file = Empty
      /\ saveEmpty => tape = Empty
      /\ init = "ok" => SameIds(tape, file) \/ (mode = "all" /\ tape = Empty /\ Older(file))
      /\ Increasing(file)
  BY DEF IInv, DiskProper, SameIds, Older, Increasing
<1>1. SUFFICES
      /\ ~ exists' => file' = Empty
      /\ saveEmpty' => tape' = Empty
      /\ init' = "ok" => SameIds(tape', file') \/ (mode' = "all" /\ tape' = Empty /\ Older(file'))
      /\ Increasing(file')
  BY DEF DiskProper, SameIds, Older, Increasing
<1>2. CASE LoadOk
  <2>1. /\ mode' = mode
        /\ Increasing(file')
        /\ mode = "all" \/ saveEmpty' => tape' = Empty
        /\ ~ exists' => file' = Empty
        /\ tape' = file' \/ (mode = "all" /\ Older(file'))
    BY <1>2, LoadFacts
  <2>2. tape' = file' => SameIds(tape', file')
    BY DEF SameIds
  <2>. QED  BY <2>1, <2>2
<1>3. ASSUME NEW c \in Calls, Recorded(c) PROVE <1>1!1
  <2>1. /\ exists' = TRUE /\ saveEmpty' = FALSE /\ SameIds(tape', file') /\ Increasing(file')
    BY <1>3, SavedFacts DEF SameIds, Increasing
  <2>. QED  BY <2>1
<1>4. CASE Keeps
  <2>1. tape' = tape /\ mode' = mode /\ (saveEmpty' => saveEmpty) /\ (init' = "ok" => init = "ok")
    BY <1>4 DEF Keeps
  <2>2. CASE exists' = exists /\ file' = file
    BY <1>0, <2>1, <2>2
  <2>3. CASE saveEmpty /\ exists' = TRUE /\ file' = tape
    <3>1. tape' = Empty /\ file' = Empty
      BY <1>0, <2>1, <2>3
    <3>2. SameIds(tape', file') /\ Increasing(file')
      BY <3>1, EmptyFacts DEF SameIds, Increasing
    <3>. QED  BY <2>1, <2>3, <3>1, <3>2
  <2>. QED  BY <1>4, <2>2, <2>3 DEF Keeps, Close, disk
<1>. QED  BY <1>2, <1>3, <1>4, CassetteCases

(* What is in the file stays in it.                                        *)
LEMMA FileKeeps ==
    ASSUME IInv, [Next]_vars, NEW o \in Nat, InFile(o) PROVE InFile(o)'
<1>0. /\ file \in [Kinds -> Seq(Recordings)] /\ tape \in [Kinds -> Seq(Recordings)]
  BY DEF IInv, Types
<1>1. PICK k \in Kinds : o \in Ids(file[k])
  BY DEF InFile
<1>2. ~ Older(file)
  <2>1. PICK i \in 1..Len(file[k]) : file[k][i].id = o
    BY <1>0, <1>1, IdsIs
  <2>. QED  BY <2>1 DEF Older
<1>3. init = "ok"
  BY <1>2 DEF IInv, Unloaded, Older
<1>4. o \in Ids(tape[k])
  BY <1>1, <1>2, <1>3 DEF IInv, DiskProper, Older
<1>5. CASE LoadOk
  BY <1>3, <1>5, LoadFacts
<1>6. ASSUME NEW c \in Calls, Recorded(c) PROVE o \in Ids(file'[k])
  BY <1>4, <1>6, SavedFacts
<1>7. CASE Keeps
  <2>1. file' = file \/ file' = tape
    BY <1>7 DEF Keeps, Close, disk
  <2>. QED  BY <1>1, <1>4, <2>1 DEF InFile
<1>. QED  BY <1>5, <1>6, <1>7, CassetteCases DEF InFile

-----------------------------------------------------------------------------
(* Orders, verdicts and what Close returns.                                *)

(* A call that has its order keeps it, and a verdict is final.             *)
LEMMA CallStable ==
    ASSUME IInv, [Next]_vars, NEW d \in Calls, pc[d] \in Reserved
    PROVE  /\ order'[d] = order[d] /\ expected'[d] = expected[d]
           /\ pc[d] = "unrecorded" => pc'[d] = "unrecorded"
           /\ finish[d] # "no" => finish'[d] = finish[d]
<1>. DEFINE P == /\ order'[d] = order[d] /\ expected'[d] = expected[d]
                 /\ pc[d] = "unrecorded" => pc'[d] = "unrecorded"
                 /\ finish[d] # "no" => finish'[d] = finish[d]
<1>. USE DEF config, lifecycle, cassette, disk, call, body, unchangedByBody
<1>0. /\ pc \in [Calls -> Pcs] /\ order \in [Calls -> Nat] /\ DOMAIN expected = Calls
      /\ finish \in [Calls -> FinishErrs \cup {"no"}]
  BY DEF IInv, Types
<1>1. ASSUME UNCHANGED <<pc, order, expected, finish>> PROVE P
  BY <1>1
<1>2. ASSUME UNCHANGED vars PROVE P
  BY <1>1, <1>2 DEF vars
<1>3. ASSUME Load PROVE P
  BY <1>1, <1>3 DEF Load, LoadEmpty, LoadFile, LoadExpired, LoadFails
<1>4. ASSUME Close PROVE P
  BY <1>1, <1>4 DEF Close
<1>5. ASSUME NEW c \in Calls, NEW to, pc' = [pc EXCEPT ![c] = to], pc[c] # "unrecorded",
             UNCHANGED <<order, expected, finish>>
      PROVE  P
  BY <1>0, <1>5
<1>6. ASSUME NEW c \in Calls, NEW k \in Kinds, NEW r \in Requests, Start(c, k, r) PROVE P
  <2>1. pc[c] = "idle" /\ UNCHANGED <<order, expected, finish>>
    BY <1>6 DEF Start
  <2>2. PICK to : pc' = [pc EXCEPT ![c] = to]
    BY <1>6 DEF Start, Goto
  <2>. QED  BY <1>5, <2>1, <2>2
<1>7. ASSUME NEW c \in Calls, TakeMatch(c) PROVE P
  <2>1. pc[c] = "open" /\ UNCHANGED <<order, finish>>
    BY <1>7 DEF TakeMatch
  <2>2. d # c
    BY <2>1 DEF Reserved
  <2>3. pc'[d] = pc[d]
    BY <1>0, <1>7, <2>2 DEF TakeMatch, Goto
  <2>4. expected'[d] = expected[d]
    BY <1>0, <1>7, <2>2 DEF TakeMatch
  <2>. QED  BY <2>1, <2>3, <2>4
<1>8. ASSUME NEW c \in Calls, Reserve(c) PROVE P
  <2>1. pc[c] \in {"open", "reserve"} /\ UNCHANGED <<expected, finish>>
    BY <1>8 DEF Reserve
  <2>2. d # c
    BY <2>1 DEF Reserved
  <2>3. pc'[d] = pc[d] /\ order'[d] = order[d]
    BY <1>0, <1>8, <2>2 DEF Reserve, Goto
  <2>. QED  BY <2>1, <2>3
<1>9. ASSUME NEW c \in Calls, Live(c) \/ Respond(c) PROVE P
  <2>1. pc[c] = "live" /\ UNCHANGED <<order, expected, finish>>
    BY <1>9 DEF Live, LiveFails, GRPCFails, RecordStream, Respond
  <2>2. PICK to : pc' = [pc EXCEPT ![c] = to]
    BY <1>9 DEF Live, LiveFails, GRPCFails, RecordStream, Respond, Goto
  <2>. QED  BY <1>5, <2>1, <2>2
<1>10. ASSUME NEW c \in Calls, Read(c) \/ CloseBody(c) \/ CloseDecides(c) PROVE P
  BY <1>1, <1>10 DEF Read, ReadLast, ReadEOF, KeepBytes, CloseBody, CloseDecides
<1>11. ASSUME NEW c \in Calls, NEW who \in {"rd", "cl"}, NEW err \in FinishErrs, Finish(c, who, err)
       PROVE  P
  <2>1. finish[c] = "no" /\ finish' = [finish EXCEPT ![c] = err] /\ UNCHANGED <<pc, order, expected>>
    BY <1>11 DEF Finish
  <2>. QED  BY <1>0, <2>1
<1>12. ASSUME NEW c \in Calls, NEW who \in {"rd", "cl"}, FinishAgain(c, who) PROVE P
  BY <1>1, <1>12 DEF FinishAgain
<1>13. ASSUME NEW c \in Calls, NEW who \in {"rd", "cl"}, NEW from, NEW err, Complete(c, who, from, err)
       PROVE  P
  BY <1>1, <1>13 DEF Complete
<1>. HIDE DEF P
<1>14. P
  BY <1>2, <1>3, <1>4, <1>6, <1>7, <1>8, <1>9, <1>10, <1>11, <1>12, <1>13, StepCases, Zenon
<1>. QED  BY <1>14 DEF P

(* An excuse is one for good.                                              *)
LEMMA ExcuseKept ==
    ASSUME IInv, [Next]_vars, NEW o, Excused(o) PROVE Excused(o)'
<1>1. PICK c \in Calls : /\ order[c] = o
                         /\ pc[c] = "unrecorded" \/ (expected[c] # 0 /\ finish[c] = "nil")
  BY DEF Excused
<1>2. pc[c] \in Reserved
  <2>1. finish[c] = "nil" => pc[c] = "body"
    BY DEF IInv, CallsProper
  <2>. QED  BY <1>1, <2>1 DEF Reserved
<1>3. /\ order'[c] = order[c] /\ expected'[c] = expected[c]
      /\ pc[c] = "unrecorded" => pc'[c] = "unrecorded"
      /\ finish[c] # "no" => finish'[c] = finish[c]
  BY <1>2, CallStable
<1>. QED  BY <1>1, <1>3 DEF Excused

(* How a pending entry goes.                                               *)
Ends(c) ==
    /\ pc[c] \in {"live", "body"}
    /\ pending' = pending \ {order[c]} /\ recordErr \subseteq recordErr'
    /\ \/ \E e \in recordErr' : e.order = order[c]
       \/ pc[c] = "live" /\ pc'[c] = "unrecorded"
       \/ Recorded(c)
       \/ finish[c] = "nil"

LEMMA PendingCases ==
    ASSUME IInv, [Next]_vars
    PROVE  \/ pending \subseteq pending' /\ recordErr' = recordErr
           \/ \E c \in Calls : Ends(c)
<1>. DEFINE S == pending \subseteq pending' /\ recordErr' = recordErr
<1>. USE DEF config, lifecycle, cassette, disk, call, body, unchangedByBody
<1>0. /\ pc \in [Calls -> Pcs] /\ CallsProper
  BY DEF IInv, Types
<1>1. ASSUME UNCHANGED vars PROVE S
  BY <1>1 DEF vars
<1>2. ASSUME Load PROVE S
  BY <1>2 DEF Load, LoadEmpty, LoadFile, LoadExpired, LoadFails
<1>3. ASSUME Close PROVE S
  BY <1>3 DEF Close
<1>4. ASSUME NEW c \in Calls, NEW k \in Kinds, NEW r \in Requests, Start(c, k, r) PROVE S
  BY <1>4 DEF Start
<1>5. ASSUME NEW c \in Calls, TakeMatch(c) \/ Reserve(c) \/ Respond(c) PROVE S
  BY <1>5 DEF TakeMatch, Reserve, Respond
<1>6. ASSUME NEW c \in Calls, NEW err, finishRecording(c, err), err # "nil"
      PROVE  /\ pending' = pending \ {order[c]} /\ recordErr \subseteq recordErr'
             /\ \E e \in recordErr' : e.order = order[c]
  <2>1. PICK e : e = [order |-> order[c], what |-> err]
    OBVIOUS
  <2>2. e \in recordErr' /\ e.order = order[c]
    BY <1>6, <2>1 DEF finishRecording
  <2>. QED  BY <1>6, <2>2 DEF finishRecording
<1>7. ASSUME NEW c \in Calls, Live(c) PROVE Ends(c)
  <2>1. CASE LiveFails(c)
    BY <1>0, <2>1 DEF LiveFails, finishRecording, Goto, Ends
  <2>2. CASE GRPCFails(c)
    <3>1. pc[c] = "live" /\ finishRecording(c, "encode") /\ "encode" # "nil"
      BY <2>2 DEF GRPCFails
    <3>. QED  BY <1>6, <3>1 DEF Ends
  <2>3. ASSUME NEW err \in RecordErrs, RecordStream(c, err) PROVE Ends(c)
    <3>1. pc[c] = "live" /\ finishRecording(c, err) /\ (err = "nil" => Recorded(c))
      BY <2>3, StreamCases
    <3>2. CASE err = "nil"
      BY <3>1, <3>2 DEF Ends, finishRecording
    <3>3. CASE err # "nil"
      BY <1>6, <3>1, <3>3 DEF Ends
    <3>. QED  BY <3>2, <3>3
  <2>. QED  BY <1>7, <2>1, <2>2, <2>3 DEF Live
<1>8. ASSUME NEW c \in Calls, Read(c) \/ CloseBody(c) \/ CloseDecides(c) PROVE S
  BY <1>8 DEF Read, ReadLast, ReadEOF, KeepBytes, CloseBody, CloseDecides
<1>9. ASSUME NEW c \in Calls, NEW who \in {"rd", "cl"}, NEW err \in FinishErrs, Finish(c, who, err)
      PROVE  S
  BY <1>9 DEF Finish
<1>10. ASSUME NEW c \in Calls, NEW who \in {"rd", "cl"}, FinishAgain(c, who) PROVE S
  BY <1>10 DEF FinishAgain
<1>11. ASSUME NEW c \in Calls, NEW who \in {"rd", "cl"}, NEW from, NEW err, Complete(c, who, from, err),
              from # "none", err # "nil" \/ finish[c] = "nil"
       PROVE  S \/ Ends(c)
  <2>1. pc[c] = "body"
    BY <1>0, <1>11 DEF Complete, At, CallsProper
  <2>2. CASE completed[c]
    BY <1>11, <2>2 DEF Complete
  <2>3. CASE ~ completed[c]
    <3>1. finishRecording(c, err)
      BY <1>11, <2>3 DEF Complete
    <3>2. CASE err # "nil"
      BY <1>6, <2>1, <3>1, <3>2 DEF Ends
    <3>3. CASE err = "nil"
      BY <1>11, <2>1, <3>1, <3>3 DEF Ends, finishRecording
    <3>. QED  BY <3>2, <3>3
  <2>. QED  BY <2>2, <2>3
<1>12. ASSUME NEW c \in Calls, NEW who \in {"rd", "cl"}, Complete(c, who, "complete", finish[c])
       PROVE  S \/ Ends(c)
  <2>1. "complete" # "none" /\ (finish[c] # "nil" \/ finish[c] = "nil")
    OBVIOUS
  <2>. QED  BY <1>11, <1>12, <2>1, Zenon
<1>13. ASSUME NEW c \in Calls, NEW who \in {"rd", "cl"}, Complete(c, who, "give_up", "incomplete")
       PROVE  S \/ Ends(c)
  <2>1. "give_up" # "none" /\ ("incomplete" # "nil" \/ finish[c] = "nil")
    OBVIOUS
  <2>. QED  BY <1>11, <1>13, <2>1, Zenon
<1>. HIDE DEF S
<1>14. S \/ \E c \in Calls : Ends(c)
  BY <1>1, <1>2, <1>3, <1>4, <1>5, <1>7, <1>8, <1>9, <1>10, <1>12, <1>13, StepCases, Zenon
<1>. QED  BY <1>14 DEF S

(* How an order is handed out.                                             *)
LEMMA OrdersCases ==
    ASSUME IInv, [Next]_vars
    PROVE  \/ LoadOk
           \/ /\ first' = first
              /\ \/ nextOrder' = nextOrder
                 \/ nextOrder' = nextOrder + 1 /\ nextOrder \in pending' /\ ~ closed
<1>. DEFINE S == first' = first /\ nextOrder' = nextOrder
            R == /\ first' = first /\ nextOrder' = nextOrder + 1
                 /\ nextOrder \in pending' /\ ~ closed
<1>. USE DEF config, lifecycle, cassette, disk, call, body, unchangedByBody
<1>1. ASSUME UNCHANGED vars PROVE S
  BY <1>1 DEF vars
<1>2. ASSUME Load PROVE LoadOk \/ S
  BY <1>2 DEF Load, LoadOk, LoadFails
<1>3. ASSUME Close PROVE S
  BY <1>3 DEF Close
<1>4. ASSUME NEW c \in Calls, NEW k \in Kinds, NEW r \in Requests, Start(c, k, r) PROVE S
  BY <1>4 DEF Start
<1>5. ASSUME NEW c \in Calls, TakeMatch(c) \/ Live(c) \/ Respond(c) PROVE S
  BY <1>5 DEF TakeMatch, Live, LiveFails, GRPCFails, RecordStream, Respond
<1>6. ASSUME NEW c \in Calls, Reserve(c) PROVE S \/ R
  BY <1>6 DEF Reserve
<1>7. ASSUME NEW c \in Calls, Read(c) \/ CloseBody(c) \/ CloseDecides(c) PROVE S
  BY <1>7 DEF Read, ReadLast, ReadEOF, KeepBytes, CloseBody, CloseDecides
<1>8. ASSUME NEW c \in Calls, NEW who \in {"rd", "cl"}, NEW err \in FinishErrs, Finish(c, who, err)
      PROVE  S
  BY <1>8 DEF Finish
<1>9. ASSUME NEW c \in Calls, NEW who \in {"rd", "cl"}, FinishAgain(c, who) PROVE S
  BY <1>9 DEF FinishAgain
<1>10. ASSUME NEW c \in Calls, NEW who \in {"rd", "cl"}, NEW from, NEW err, Complete(c, who, from, err)
       PROVE  S
  BY <1>10 DEF Complete
<1>. HIDE DEF S, R
<1>11. LoadOk \/ S \/ R
  BY <1>1, <1>2, <1>3, <1>4, <1>5, <1>6, <1>7, <1>8, <1>9, <1>10, StepCases, Zenon
<1>. QED  BY <1>11 DEF S, R

(* What was just saved is in the file.                                     *)
LEMMA SavedInFile ==
    ASSUME IInv, NEW c \in Calls, Recorded(c), NEW o, o = order[c] PROVE InFile(o)'
<1>1. kind[c] \in Kinds
  BY DEF IInv, Types
<1>2. o \in Ids(file'[kind[c]])
  BY <1>1, SavedFacts
<1>. QED  BY <1>1, <1>2 DEF InFile

(* A verdict of nil: the exchange is in the file, or agreed with the one   *)
(* that was expected.                                                      *)
LEMMA NilCases ==
    ASSUME IInv, [Next]_vars, NEW d \in Calls, finish'[d] = "nil"
    PROVE  finish[d] = "nil" \/ \E who \in {"rd", "cl"} : Finish(d, who, "nil")
<1>. USE DEF config, lifecycle, cassette, disk, call, body, unchangedByBody
<1>0. finish \in [Calls -> FinishErrs \cup {"no"}]
  BY DEF IInv, Types
<1>1. ASSUME finish' = finish PROVE finish[d] = "nil"
  BY <1>1
<1>2. ASSUME NEW c \in Calls, NEW who \in {"rd", "cl"}, NEW err \in FinishErrs, Finish(c, who, err)
      PROVE  finish[d] = "nil" \/ \E w \in {"rd", "cl"} : Finish(d, w, "nil")
  <2>1. finish' = [finish EXCEPT ![c] = err]
    BY <1>2 DEF Finish
  <2>2. CASE d # c
    BY <1>0, <2>1, <2>2
  <2>3. CASE d = c
    <3>1. err = "nil"
      BY <1>0, <2>1, <2>3
    <3>. QED  BY <1>2, <2>3, <3>1, Zenon
  <2>. QED  BY <2>2, <2>3
<1>3. ASSUME UNCHANGED vars \/ Load \/ Close PROVE finish[d] = "nil"
  BY <1>1, <1>3 DEF vars, Load, LoadEmpty, LoadFile, LoadExpired, LoadFails, Close
<1>4. ASSUME NEW c \in Calls, NEW k \in Kinds, NEW r \in Requests, Start(c, k, r)
      PROVE  finish[d] = "nil"
  BY <1>1, <1>4 DEF Start
<1>5. ASSUME NEW c \in Calls, TakeMatch(c) \/ Reserve(c) \/ Live(c) \/ Respond(c)
      PROVE  finish[d] = "nil"
  BY <1>1, <1>5 DEF TakeMatch, Reserve, Live, LiveFails, GRPCFails, RecordStream, Respond
<1>6. ASSUME NEW c \in Calls, Read(c) \/ CloseBody(c) \/ CloseDecides(c) PROVE finish[d] = "nil"
  BY <1>1, <1>6 DEF Read, ReadLast, ReadEOF, KeepBytes, CloseBody, CloseDecides
<1>7. ASSUME NEW c \in Calls, NEW who \in {"rd", "cl"}, FinishAgain(c, who) PROVE finish[d] = "nil"
  BY <1>1, <1>7 DEF FinishAgain
<1>8. ASSUME NEW c \in Calls, NEW who \in {"rd", "cl"}, NEW from, NEW err, Complete(c, who, from, err)
      PROVE  finish[d] = "nil"
  BY <1>1, <1>8 DEF Complete
<1>. QED  BY <1>2, <1>3, <1>4, <1>5, <1>6, <1>7, <1>8, StepCases, Zenon

LEMMA SettledKept ==
    ASSUME IInv, [Next]_vars PROVE Settled'
<1>0. /\ order \in [Calls -> Nat] /\ nextOrder \in Nat /\ first \in Nat /\ first <= nextOrder
  BY DEF IInv, Types, CallsProper
<1>1. ASSUME NEW d \in Calls, finish'[d] = "nil", NEW o, o = order'[d]
      PROVE  InFile(o)' \/ expected'[d] # 0
  <2>1. CASE finish[d] = "nil"
    <3>1. pc[d] \in Reserved
      BY <2>1 DEF IInv, CallsProper, Reserved
    <3>2. order'[d] = order[d] /\ expected'[d] = expected[d]
      BY <3>1, CallStable
    <3>3. o \in Nat /\ o = order[d]
      BY <1>0, <1>1, <3>2
    <3>4. InFile(o) \/ expected[d] # 0
      BY <2>1, <3>3 DEF IInv, Settled
    <3>. QED  BY <3>2, <3>3, <3>4, FileKeeps
  <2>2. ASSUME NEW who \in {"rd", "cl"}, Finish(d, who, "nil")
        PROVE  InFile(o)' \/ expected'[d] # 0
    <3>1. order' = order /\ expected' = expected
      BY <2>2, FinishCases DEF call
    <3>2. Recorded(d) \/ expected[d] # 0
      BY <2>2, FinishCases
    <3>. QED  BY <1>1, <3>1, <3>2, SavedInFile
  <2>. QED  BY <1>1, <2>1, <2>2, NilCases
<1>2. ASSUME NEW o \in Nat, Accounted(o) PROVE Accounted(o)'
  <2>1. recordErr \subseteq recordErr'
    BY PendingCases DEF Ends
  <2>2. CASE InFile(o) \/ Excused(o) \/ \E e \in recordErr : e.order = o
    BY <2>1, <2>2, FileKeeps, ExcuseKept DEF Accounted
  <2>3. CASE o \in pending /\ o \notin pending'
    <3>1. PICK c \in Calls : Ends(c)
      BY <2>3, PendingCases
    <3>2. o = order[c]
      BY <2>3, <3>1 DEF Ends
    <3>3. CASE \E e \in recordErr' : e.order = order[c]
      BY <3>2, <3>3 DEF Accounted
    <3>4. CASE pc[c] = "live" /\ pc'[c] = "unrecorded"
      <4>1. order'[c] = order[c]
        BY <3>4, CallStable DEF Reserved
      <4>2. Excused(o)'
        BY <3>2, <3>4, <4>1 DEF Excused
      <4>. QED  BY <4>2 DEF Accounted
    <3>5. CASE Recorded(c)
      BY <3>2, <3>5, SavedInFile DEF Accounted
    <3>6. CASE finish[c] = "nil"
      <4>1. InFile(o) \/ expected[c] # 0
        BY <3>2, <3>6 DEF IInv, Settled
      <4>2. expected[c] # 0 => Excused(o)
        BY <3>2, <3>6 DEF Excused
      <4>. QED  BY <4>1, <4>2, FileKeeps, ExcuseKept DEF Accounted
    <3>. QED  BY <3>1, <3>3, <3>4, <3>5, <3>6 DEF Ends
  <2>. QED  BY <1>2, <2>2, <2>3 DEF Accounted
<1>3. ASSUME NEW o \in first'..(nextOrder' - 1) PROVE Accounted(o)'
  <2>1. CASE LoadOk
    <3>1. PICK n \in Nat : n = nextOrder' /\ n = first'
      BY <2>1, LoadFacts
    <3>2. o \in n..(n - 1)
      BY <1>3, <3>1
    <3>. QED  BY <3>2
  <2>2. CASE first' = first /\ nextOrder' = nextOrder
    BY <1>0, <1>2, <2>2 DEF IInv, Settled, Orders
  <2>3. CASE first' = first /\ nextOrder' = nextOrder + 1 /\ nextOrder \in pending'
    <3>1. o \in Nat /\ (o \in Orders \/ o = nextOrder)
      BY <1>0, <2>3 DEF Orders
    <3>2. CASE o = nextOrder
      BY <2>3, <3>2 DEF Accounted
    <3>3. CASE o \in Orders
      BY <1>2, <3>1, <3>3 DEF IInv, Settled
    <3>. QED  BY <3>1, <3>2, <3>3
  <2>. QED  BY <2>1, <2>2, <2>3, OrdersCases
<1>4. ASSUME NEW o, o \in first'..(nextOrder' - 1) PROVE Accounted(o)'
  BY <1>3, <1>4
<1>. QED  BY <1>1, <1>4 DEF Settled, Orders, InFile

(* With RecordModeAll a cassette that is loaded empty holds nothing older. *)
LEMMA SavedNoneOlder ==
    ASSUME IInv, [Next]_vars, NEW c \in Calls, Recorded(c), mode' = "all"
    PROVE  NoneOlder'
<1>1. TapeProper' /\ Types'
  BY TapeKept, TypesKept
<1>2. SUFFICES ASSUME NEW k \in Kinds, NEW id \in Ids(file'[k]) PROVE id >= 0
  BY DEF NoneOlder
<1>3. id \in Ids(tape'[k])
  BY <1>2, SavedFacts
<1>4. PICK t \in Seq(Recordings) : t = tape'[k]
  BY <1>1 DEF Types
<1>5. PICK o \in Seq(Nat) : o = orders'[k]
  BY <1>1 DEF Types
<1>6. PICK i \in 1..Len(t) : t[i].id = id
  BY <1>3, <1>4, IdsIs
<1>7. Len(o) = Len(t) /\ (o[i] >= first' => id = o[i]) /\ ~ (o[i] < first') /\ first' \in Nat
  BY <1>1, <1>4, <1>5, <1>6 DEF TapeProper, Types
<1>8. o[i] \in Nat
  BY <1>6, <1>7
<1>. QED  BY <1>7, <1>8

(* A save that failed is reported: in recordErr, or by the call to come.   *)
FailureDue == recordErr # {} \/ \E c \in Calls : finish[c] = "save" /\ order[c] \in pending

LEMMA FailureKept ==
    ASSUME IInv, [Next]_vars, FailureDue PROVE FailureDue'
<1>1. recordErr \subseteq recordErr'
  BY PendingCases DEF Ends
<1>2. CASE recordErr # {}
  BY <1>1, <1>2 DEF FailureDue
<1>3. ASSUME NEW c \in Calls, finish[c] = "save", order[c] \in pending PROVE FailureDue'
  <2>1. pc[c] = "body" /\ pc[c] \in Reserved
    BY <1>3 DEF IInv, CallsProper, Reserved
  <2>2. order'[c] = order[c] /\ finish'[c] = "save"
    BY <1>3, <2>1, CallStable
  <2>3. CASE order[c] \in pending'
    BY <2>2, <2>3 DEF FailureDue
  <2>4. CASE order[c] \notin pending'
    <3>1. PICK d \in Calls : Ends(d)
      BY <1>3, <2>4, PendingCases
    <3>2. order[d] = order[c] /\ pc[d] \in Reserved
      BY <1>3, <2>4, <3>1 DEF Ends, Reserved
    <3>3. d = c
      BY <2>1, <3>2 DEF IInv, CallsProper
    <3>4. ~ Recorded(c)
      BY <1>3 DEF Recorded, MayRecord
    <3>5. recordErr' # {}
      BY <1>3, <2>1, <3>1, <3>3, <3>4 DEF Ends
    <3>. QED  BY <3>5 DEF FailureDue
  <2>. QED  BY <2>3, <2>4
<1>. QED  BY <1>2, <1>3 DEF FailureDue

(* saveEmpty is given up only by a recording, by Close, or by a save that  *)
(* failed.                                                                 *)
LEMMA SaveEmptyCases ==
    ASSUME IInv, [Next]_vars, saveEmpty, ~ saveEmpty'
    PROVE  closed' \/ FailureDue' \/ \E c \in Calls : Recorded(c)
<1>. USE DEF config, lifecycle, cassette, disk, call, body, unchangedByBody
<1>0. /\ CallsProper /\ finish \in [Calls -> FinishErrs \cup {"no"}]
      /\ init = "ok"
  BY DEF IInv, Types, Unloaded
<1>. DEFINE G == closed' \/ FailureDue' \/ \E c \in Calls : Recorded(c)
<1>1. ASSUME saveEmpty' = saveEmpty PROVE FALSE
  BY <1>1
<1>2. ASSUME UNCHANGED vars PROVE FALSE
  BY <1>1, <1>2 DEF vars
<1>3. ASSUME Load PROVE FALSE
  BY <1>0, <1>3 DEF Load, LoadEmpty, LoadFile, LoadExpired, LoadFails
<1>4. ASSUME Close PROVE closed'
  BY <1>4 DEF Close
<1>5. ASSUME NEW c \in Calls, NEW k \in Kinds, NEW r \in Requests, Start(c, k, r) PROVE FALSE
  BY <1>1, <1>5 DEF Start
<1>6. ASSUME NEW c \in Calls, TakeMatch(c) \/ Reserve(c) \/ Respond(c) PROVE FALSE
  BY <1>1, <1>6 DEF TakeMatch, Reserve, Respond
<1>7. ASSUME NEW c \in Calls, Live(c) PROVE G
  <2>1. CASE LiveFails(c) \/ GRPCFails(c)
    BY <1>1, <2>1 DEF LiveFails, GRPCFails
  <2>2. ASSUME NEW err \in RecordErrs, RecordStream(c, err) PROVE G
    <3>1. CASE err = "nil"
      BY <2>2, <3>1, StreamCases
    <3>2. CASE err # "nil"
      <4>1. finishRecording(c, err)
        BY <2>2, StreamCases
      <4>2. recordErr' # {}
        BY <3>2, <4>1 DEF finishRecording
      <4>. QED  BY <4>2 DEF FailureDue
    <3>. QED  BY <3>1, <3>2
  <2>. QED  BY <1>7, <2>1, <2>2 DEF Live
<1>8. ASSUME NEW c \in Calls, Read(c) \/ CloseBody(c) \/ CloseDecides(c) PROVE FALSE
  BY <1>1, <1>8 DEF Read, ReadLast, ReadEOF, KeepBytes, CloseBody, CloseDecides
<1>9. ASSUME NEW c \in Calls, NEW who \in {"rd", "cl"}, NEW err \in FinishErrs, Finish(c, who, err)
      PROVE  G
  <2>1. /\ pc[c] = "body" /\ UNCHANGED <<order, pending, recordErr>>
        /\ finish[c] = "no" /\ finish' = [finish EXCEPT ![c] = err]
    BY <1>9, FinishCases DEF Finish
  <2>2. Recorded(c) \/ err = "save" \/ saveEmpty' = saveEmpty
    BY <1>9, FinishCases
  <2>3. CASE err = "save"
    <3>1. finish'[c] = "save"
      BY <1>0, <2>1, <2>3
    <3>2. order[c] \in pending \/ recordErr # {}
      BY <1>0, <2>1 DEF CallsProper
    <3>. QED  BY <2>1, <3>1, <3>2 DEF FailureDue
  <2>. QED  BY <1>1, <2>2, <2>3
<1>10. ASSUME NEW c \in Calls, NEW who \in {"rd", "cl"}, FinishAgain(c, who) PROVE FALSE
  BY <1>1, <1>10 DEF FinishAgain
<1>11. ASSUME NEW c \in Calls, NEW who \in {"rd", "cl"}, NEW from, NEW err, Complete(c, who, from, err)
       PROVE  FALSE
  BY <1>1, <1>11 DEF Complete
<1>12. ASSUME Close PROVE G
  BY <1>4, <1>12
<1>. HIDE DEF G
<1>13. G
  BY <1>2, <1>3, <1>5, <1>6, <1>7, <1>8, <1>9, <1>10, <1>11, <1>12, StepCases, Zenon
<1>. QED  BY <1>13 DEF G

LEMMA OlderKept ==
    ASSUME IInv, [Next]_vars PROVE OlderAccounted'
<1>1. SUFFICES ASSUME init' = "ok", mode' = "all", ~ closed'
               PROVE  NoneOlder' \/ saveEmpty' \/ FailureDue'
  BY DEF OlderAccounted, FailureDue
<1>2. CASE LoadOk
  <2>1. /\ mode' = mode /\ (mode = "all" => tape' = Empty) /\ (~ exists' => file' = Empty)
        /\ tape' = file' \/ (saveEmpty' = exists /\ exists' = exists)
    BY <1>2, LoadFacts
  <2>2. file' = Empty => NoneOlder'
    BY EmptyFacts DEF NoneOlder, Ids
  <2>. QED  BY <1>1, <2>1, <2>2
<1>3. ASSUME NEW c \in Calls, Recorded(c) PROVE NoneOlder'
  BY <1>1, <1>3, SavedNoneOlder
<1>4. CASE Keeps /\ \A c \in Calls : ~ Recorded(c)
  <2>1. mode' = mode /\ init = "ok" /\ (UNCHANGED <<disk, closed>> \/ Close)
    BY <1>1, <1>4 DEF Keeps
  <2>2. file' = file /\ ~ closed
    BY <1>1, <2>1 DEF disk, Close
  <2>3. NoneOlder \/ saveEmpty \/ FailureDue
    BY <1>1, <2>1, <2>2 DEF IInv, OlderAccounted, FailureDue
  <2>4. NoneOlder => NoneOlder'
    BY <2>2 DEF NoneOlder
  <2>. QED  BY <1>1, <1>4, <2>3, <2>4, FailureKept, SaveEmptyCases
<1>. QED  BY <1>2, <1>3, <1>4, CassetteCases

(* After Close the cassette, the file and what Close returned stay.        *)
LEMMA ClosedStep ==
    ASSUME IInv, [Next]_vars, closed
    PROVE  UNCHANGED <<disk, cassette, nextOrder, closeErr, closed, mode, first>>
<1>. DEFINE G == UNCHANGED <<disk, cassette, nextOrder, closeErr, closed, mode, first>>
<1>. USE DEF config, lifecycle, call, body, unchangedByBody
<1>0. init = "ok"
  BY DEF IInv, Unloaded
<1>1. ASSUME UNCHANGED vars PROVE G
  BY <1>1 DEF vars
<1>2. ~ Load /\ ~ Close
  BY <1>0 DEF Load, LoadEmpty, LoadFile, LoadExpired, LoadFails, Close
<1>3. ASSUME NEW c \in Calls, NEW k \in Kinds, NEW r \in Requests, Start(c, k, r) PROVE G
  BY <1>3 DEF Start
<1>4. ASSUME NEW c \in Calls, TakeMatch(c) PROVE G
  BY <1>4 DEF TakeMatch, cassette
<1>5. ASSUME NEW c \in Calls, Reserve(c) \/ LiveFails(c) \/ GRPCFails(c) \/ Respond(c) PROVE G
  BY <1>5 DEF Reserve, LiveFails, GRPCFails, Respond
<1>6. ASSUME NEW c \in Calls, NEW err, record(c, err) PROVE UNCHANGED <<disk, cassette>>
  BY <1>6 DEF record
<1>7. ASSUME NEW c \in Calls, Live(c) PROVE G
  <2>1. ASSUME NEW err \in RecordErrs, RecordStream(c, err) PROVE G
    <3>1. record(c, err) /\ UNCHANGED <<config, lifecycle, nextOrder>>
      BY <2>1 DEF RecordStream
    <3>2. UNCHANGED <<disk, cassette>>
      BY <1>6, <3>1
    <3>. QED  BY <3>1, <3>2
  <2>. QED  BY <1>5, <1>7, <2>1 DEF Live
<1>8. ASSUME NEW c \in Calls, Read(c) \/ CloseBody(c) \/ CloseDecides(c) PROVE G
  BY <1>8 DEF Read, ReadLast, ReadEOF, KeepBytes, CloseBody, CloseDecides
<1>9. ASSUME NEW c \in Calls, NEW who \in {"rd", "cl"}, NEW err \in FinishErrs, Finish(c, who, err)
      PROVE  G
  <2>1. finalize(c, err) /\ UNCHANGED <<config, lifecycle, nextOrder>>
    BY <1>9 DEF Finish
  <2>2. UNCHANGED <<disk, cassette>>
    BY <1>6, <2>1 DEF finalize, verify
  <2>. QED  BY <2>1, <2>2
<1>10. ASSUME NEW c \in Calls, NEW who \in {"rd", "cl"}, FinishAgain(c, who) PROVE G
  BY <1>10 DEF FinishAgain
<1>11. ASSUME NEW c \in Calls, NEW who \in {"rd", "cl"}, NEW from, NEW err, Complete(c, who, from, err)
       PROVE  G
  BY <1>11 DEF Complete
<1>. HIDE DEF G
<1>12. G
  BY <1>1, <1>2, <1>3, <1>4, <1>5, <1>7, <1>8, <1>9, <1>10, <1>11, StepCases, Zenon
<1>. QED  BY <1>12 DEF G

LEMMA TruthKept ==
    ASSUME IInv, [Next]_vars PROVE CloseTellsTheTruth'
<1>0. first \in Nat /\ nextOrder \in Nat /\ file \in [Kinds -> Seq(Recordings)]
  BY DEF IInv, Types
<1>1. SUFFICES ASSUME closed', closeErr' = {}
               PROVE  /\ \A o : o \in first'..(nextOrder' - 1) => InFile(o)' \/ Excused(o)'
                      /\ mode' = "all" => NoneOlder'
  BY DEF CloseTellsTheTruth, NoneOlder, Orders
<1>2. ASSUME first' = first, nextOrder' = nextOrder,
             \A o \in Orders : InFile(o) \/ Excused(o)
      PROVE  \A o : o \in first'..(nextOrder' - 1) => InFile(o)' \/ Excused(o)'
  <2>1. SUFFICES ASSUME NEW o, o \in Orders PROVE InFile(o)' \/ Excused(o)'
    BY <1>2 DEF Orders
  <2>2. o \in Nat
    BY <1>0, <2>1 DEF Orders
  <2>. QED  BY <1>2, <2>1, <2>2, FileKeeps, ExcuseKept
<1>3. CASE closed
  <2>1. UNCHANGED <<disk, nextOrder, closeErr, mode, first>>
    BY <1>3, ClosedStep
  <2>2. /\ \A o \in Orders : InFile(o) \/ Excused(o)
        /\ mode = "all" => NoneOlder
    BY <1>1, <1>3, <2>1 DEF IInv, CloseTellsTheTruth, NoneOlder
  <2>3. NoneOlder => NoneOlder'
    BY <2>1 DEF NoneOlder, disk
  <2>. QED  BY <1>2, <2>1, <2>2, <2>3
<1>4. CASE ~ closed
  <2>1. Close
    <3>1. CASE LoadOk
      BY <1>1, <1>4, <3>1, LoadFacts
    <3>2. ASSUME NEW c \in Calls, Recorded(c), UNCHANGED <<mode, init, closed, first, nextOrder>>
          PROVE  FALSE
      BY <1>1, <1>4, <3>2
    <3>3. CASE Keeps
      BY <1>1, <1>4, <3>3 DEF Keeps
    <3>. QED  BY <3>1, <3>2, <3>3, CassetteCases
  <2>2. UNCHANGED <<mode, first, nextOrder, tape, recordErr, pending>> /\ init = "ok"
    BY <2>1 DEF Close, config, cassette
  <2>3. recordErr = {} /\ Incomplete = {}
    BY <1>1, <2>1 DEF Close
  <2>4. pending = {}
    <3>1. ASSUME NEW o \in pending PROVE FALSE
      <4>1. [order |-> o, what |-> "incomplete"] \in Incomplete
        BY DEF Incomplete
      <4>. QED  BY <2>3, <4>1
    <3>. QED  BY <3>1
  <2>5. \A o \in Orders : InFile(o) \/ Excused(o)
    BY <2>3, <2>4 DEF IInv, Settled, Accounted
  <2>6. (saveEmpty /\ file' = tape) \/ (~ saveEmpty /\ file' = file)
    <3>1. EmptySaveFailed # {}
      BY DEF EmptySaveFailed
    <3>. QED  BY <1>1, <2>1, <3>1 DEF Close, disk
  <2>7. ASSUME mode = "all" PROVE NoneOlder'
    <3>1. NoneOlder \/ saveEmpty
      BY <1>4, <2>2, <2>3, <2>4, <2>7 DEF IInv, OlderAccounted
    <3>2. CASE ~ saveEmpty
      BY <2>6, <3>1, <3>2 DEF NoneOlder
    <3>3. CASE saveEmpty
      <4>1. file' = Empty
        BY <2>6, <3>3 DEF IInv, DiskProper
      <4>. QED  BY <4>1, EmptyFacts DEF NoneOlder, Ids
    <3>. QED  BY <3>2, <3>3
  <2>. QED  BY <1>2, <2>2, <2>5, <2>7
<1>. QED  BY <1>3, <1>4

-----------------------------------------------------------------------------
(* The invariant holds throughout.                                         *)

(* The recordings of a file carry the orders -n..-1.                       *)
LEMMA LoadedFacts ==
    ASSUME NEW s \in Seq(Requests)
    PROVE  /\ Loaded(s) \in Seq(Recordings) /\ Len(Loaded(s)) = Len(s)
           /\ \A i \in 1..Len(s) : Loaded(s)[i].id = i - 1 - Len(s)
<1>1. PICK n \in Nat : n = Len(s)
  OBVIOUS
<1>2. DOMAIN s = 1..n
  BY <1>1
<1>3. PICK w : w = Loaded(s)
  OBVIOUS
<1>4. w = [i \in 1..n |-> [req |-> s[i], id |-> i - 1 - n]]
  BY <1>1, <1>2, <1>3 DEF Loaded
<1>5. \A i \in 1..n : w[i] \in Recordings /\ w[i].id = i - 1 - n
  <2>1. \A i \in 1..n : s[i] \in Requests
    BY <1>1
  <2>. QED  BY <1>4, <2>1 DEF Recordings
<1>6. w \in [1..n -> Recordings]
  BY <1>4, <1>5
<1>7. w \in Seq(Recordings) /\ Len(w) = n
  BY <1>6
<1>. QED  BY <1>1, <1>3, <1>5, <1>7

LEMMA InitIInv ==
    ASSUME Init PROVE IInv
<1>1. file \in [Kinds -> Seq(Recordings)] /\ Older(file) /\ Increasing(file)
      /\ (~ exists => file = Empty)
  <2>1. CASE exists = FALSE /\ file = Empty
    BY <2>1, EmptyFacts DEF Older, Increasing
  <2>2. ASSUME exists = TRUE, NEW f \in InitialFiles, file = [k \in Kinds |-> Loaded(f[k])]
        PROVE  <1>1!1
    <3>1. \A k \in Kinds : f[k] \in Seq(Requests) /\ file[k] = Loaded(f[k])
      BY <2>2, GoAssumption
    <3>2. ASSUME NEW k \in Kinds
          PROVE  /\ file[k] \in Seq(Recordings)
                 /\ \A i \in 1..Len(file[k]) : file[k][i].id < 0
                 /\ \A i, j \in 1..Len(file[k]) : i < j => file[k][i].id < file[k][j].id
      <4>1. PICK s \in Seq(Requests) : file[k] = Loaded(s)
        BY <3>1
      <4>2. PICK n \in Nat : n = Len(s)
        OBVIOUS
      <4>3. file[k] \in Seq(Recordings) /\ Len(file[k]) = n
            /\ \A i \in 1..n : file[k][i].id = i - 1 - n
        BY <4>1, <4>2, LoadedFacts
      <4>. QED  BY <4>3
    <3>3. DOMAIN file = Kinds /\ file = [k \in Kinds |-> file[k]]
      BY <2>2
    <3>4. file \in [Kinds -> Seq(Recordings)]
      BY <3>2, <3>3
    <3>. QED  BY <2>2, <3>2, <3>4 DEF Older, Increasing
  <2>. QED  BY <2>1, <2>2 DEF Init
<1>2. tape = Empty /\ orders = Empty /\ nextOrder = 0 /\ first = 0 /\ init = "no"
      /\ saveEmpty = FALSE /\ closed = FALSE
  BY DEF Init
<1>3. /\ \A c \in Calls : /\ pc[c] = "idle" /\ rd[c] = "none" /\ cl[c] = "none"
                          /\ finish[c] = "no" /\ completed[c] = FALSE
      /\ CallTypes
  BY DEF Init, CallTypes, Pcs, Kinds
<1>4. Types
  BY <1>1, <1>2, <1>3, EmptyFacts DEF Types, CallTypes, Init
<1>5. Unloaded
  BY <1>1, <1>2, <1>3 DEF Unloaded, Older
<1>6. CallsProper
  BY <1>2, <1>3 DEF CallsProper, Reserved
<1>7. TapeProper
  <2>1. \A k \in Kinds : tape[k] = <<>> /\ orders[k] = <<>>
    BY <1>2, EmptyFacts
  <2>2. Sorts(<<>>, <<>>, 0)
    BY DEF Sorts
  <2>3. Len(<<>>) = 0 /\ 1..0 = {}
    OBVIOUS
  <2>4. \E f : Sorts(f, <<>>, Len(<<>>))
    BY <2>2, <2>3
  <2>. QED  BY <2>1, <2>3, <2>4 DEF TapeProper
<1>8. Unrecorded
  BY <1>3 DEF Unrecorded, MayRecord
<1>9. DiskProper
  BY <1>1, <1>2 DEF DiskProper, Increasing
<1>10. Settled
  BY <1>2, <1>3 DEF Settled, Orders
<1>11. OlderAccounted /\ CloseTellsTheTruth
  BY <1>2 DEF OlderAccounted, CloseTellsTheTruth
<1>. QED  BY <1>4, <1>5, <1>6, <1>7, <1>8, <1>9, <1>10, <1>11 DEF IInv

LEMMA NextIInv ==
    ASSUME IInv, [Next]_vars PROVE IInv'
  BY TypesKept, UnloadedKept, CallsKept, TapeKept, UnrecordedKept, DiskKept, SettledKept,
     OlderKept, TruthKept DEF IInv

LEMMA SpecIInv == Spec => []IInv
<1>1. Init => IInv
  BY InitIInv
<1>2. IInv /\ [Next]_vars => IInv'
  BY NextIInv
<1>. QED  BY <1>1, <1>2, PTL DEF Spec

(* Close that returned nil told the truth: every exchange that was started *)
(* is in the file or its caller knows why not, and with RecordModeAll      *)
(* nothing older is, whatever still runs and whatever fails.               *)
THEOREM CloseIsTrue == Spec => []CloseTellsTheTruth
<1>1. IInv => CloseTellsTheTruth
  BY DEF IInv
<1>. QED  BY <1>1, SpecIInv, PTL

(* The cassette in memory and the file hold the same recordings.           *)
THEOREM MemoryMatchesDisk == Spec => []MemoryIsDisk
<1>1. ASSUME IInv PROVE MemoryIsDisk
  <2>0. /\ tape \in [Kinds -> Seq(Recordings)] /\ file \in [Kinds -> Seq(Recordings)]
        /\ first \in Nat /\ nextOrder \in Nat
    BY <1>1 DEF IInv, Types
  <2>1. CASE init # "ok"
    <3>1. first = 0 /\ nextOrder = 0
      BY <1>1, <2>1 DEF IInv, Unloaded
    <3>2. Orders = {}
      BY <3>1 DEF Orders
    <3>. QED  BY <2>1, <3>2 DEF MemoryIsDisk
  <2>2. CASE init = "ok" /\ \A k \in Kinds : Ids(tape[k]) = Ids(file[k])
    BY <2>2 DEF MemoryIsDisk
  <2>3. CASE init = "ok" /\ mode = "all" /\ tape = Empty /\ Older(file)
    <3>1. ASSUME NEW k \in Kinds, NEW o \in Orders PROVE o \notin Ids(tape[k]) /\ o \notin Ids(file[k])
      <4>1. o \in Nat
        BY <2>0 DEF Orders
      <4>2. o \notin Ids(tape[k])
        BY <2>3, EmptyFacts DEF Ids
      <4>3. ASSUME o \in Ids(file[k]) PROVE FALSE
        <5>1. PICK i \in 1..Len(file[k]) : file[k][i].id = o
          BY <2>0, <4>3, IdsIs
        <5>. QED  BY <2>3, <4>1, <5>1 DEF Older
      <4>. QED  BY <4>2, <4>3
    <3>. QED  BY <2>3, <3>1 DEF MemoryIsDisk, Replays
  <2>. QED  BY <1>1, <2>1, <2>2, <2>3 DEF IInv, DiskProper, Older
<1>. QED  BY <1>1, SpecIInv, PTL

(* The file lists every protocol in the order the exchanges were started.  *)
THEOREM FileIsInIssueOrder == Spec => []FileInIssueOrder
<1>1. ASSUME IInv PROVE FileInIssueOrder
  <2>1. \A k \in Kinds : DOMAIN file[k] = 1..Len(file[k])
    BY <1>1 DEF IInv, Types
  <2>. QED  BY <1>1, <2>1 DEF IInv, DiskProper, FileInIssueOrder
<1>. QED  BY <1>1, SpecIInv, PTL

(* After Close a late body, stream or connection changes neither the file  *)
(* nor the cassette.                                                       *)
THEOREM ClosedStaysClosed == Spec => ClosedIsFinal
<1>1. IInv /\ [Next]_vars => [closed => UNCHANGED <<disk, cassette, nextOrder, closeErr>>]_vars
  BY ClosedStep
<1>. QED  BY <1>1, SpecIInv, PTL DEF Spec, ClosedIsFinal
=============================================================================

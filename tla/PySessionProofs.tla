--------------------------- MODULE PySessionProofs ---------------------------
(***************************************************************************)
(* A use_cassette block keeps its recordings, their orders and its played  *)
(* flags together, for any number of threads, any requests, normalizer and *)
(* match configuration, and any cassette on disk.                          *)
(***************************************************************************)
EXTENDS PySession, FiniteSetTheorems, WellFoundedInduction, TLAPS

-----------------------------------------------------------------------------
(* Facts about numbers and sequences.                                      *)

(* A non-empty set of naturals has a least element, and Min returns it.    *)
LEMMA MinIsLeast ==
    ASSUME NEW T, T \subseteq Nat, T # {}
    PROVE  /\ Min(T) \in T
           /\ \A y \in T : Min(T) <= y
<1>1. \E x \in T : \A y \in T : ~ (<<y, x>> \in OpToRel(<, Nat))
  BY NatLessThanWellFounded, WFMin
<1>2. \E x \in T : \A y \in T : x <= y
  <2>1. PICK x \in T : \A y \in T : ~ (<<y, x>> \in OpToRel(<, Nat))
    BY <1>1
  <2>2. ASSUME NEW y \in T PROVE x <= y
    <3>1. ~ (y < x)
      BY <2>1 DEF OpToRel
    <3>. QED  BY <3>1
  <2>. QED  BY <2>2
<1>. QED  BY <1>2 DEF Min

(* An injection of 1..n into itself reaches every number.                  *)
LEMMA InjectionIsOnto ==
    ASSUME NEW n \in Nat, NEW f \in [1..n -> 1..n],
           \A a, b \in 1..n : f[a] = f[b] => a = b, NEW i \in 1..n
    PROVE  \E a \in 1..n : f[a] = i
<1>1. f \in Injection(1..n, 1..n)
  BY DEF Injection, IsInjective
<1>2. IsFiniteSet(1..n)
  BY FS_Interval
<1>3. f \in Surjection(1..n, 1..n)
  BY <1>1, <1>2, FS_Injection
<1>. QED  BY <1>3 DEF Surjection

(* What is in a sequence is in its set.                                    *)
LEMMA SeqElement ==
    ASSUME NEW S, NEW s \in Seq(S), NEW i \in DOMAIN s
    PROVE  s[i] \in S
  OBVIOUS

(* Assigning to an element keeps a sequence a sequence of that length.     *)
LEMMA SeqExcept ==
    ASSUME NEW S, NEW s \in Seq(S), NEW i, NEW e \in S
    PROVE  [s EXCEPT ![i] = e] \in Seq(S) /\ Len([s EXCEPT ![i] = e]) = Len(s)
<1>. DEFINE t == [s EXCEPT ![i] = e]
<1>1. Len(s) \in Nat /\ DOMAIN s = 1..Len(s) /\ \A j \in 1..Len(s) : s[j] \in S
  OBVIOUS
<1>2. t \in [1..Len(s) -> S]
  BY <1>1
<1>. HIDE DEF t
<1>3. t \in Seq(S) /\ Len(t) = Len(s)
  BY <1>1, <1>2
<1>. QED  BY <1>3 DEF t

(* The same for the played flags.                                          *)
LEMMA SetFlag ==
    ASSUME NEW s \in Seq(BOOLEAN), NEW i
    PROVE  [s EXCEPT ![i] = TRUE] \in Seq(BOOLEAN) /\ Len([s EXCEPT ![i] = TRUE]) = Len(s)
<1>. DEFINE B == BOOLEAN
            yes == TRUE
<1>1. s \in Seq(B) /\ yes \in B
  OBVIOUS
<1>. HIDE DEF B, yes
<1>2. [s EXCEPT ![i] = yes] \in Seq(B) /\ Len([s EXCEPT ![i] = yes]) = Len(s)
  BY <1>1, SeqExcept
<1>. QED  BY <1>2 DEF B, yes

(* Sequences that agree everywhere are equal.                              *)
LEMMA SeqExtensional ==
    ASSUME NEW S, NEW s \in Seq(S), NEW t \in Seq(S), Len(s) = Len(t),
           \A i \in 1..Len(s) : s[i] = t[i]
    PROVE  s = t
  OBVIOUS

-----------------------------------------------------------------------------
(* The inductive invariant                                                 *)

Stages == {"idle", "match", "mark", "reserve", "live", "record", "order",
           "mirror", "dirty", "done"}
Outcomes == {"none", "passthrough", "replayed", "no_match", "borrowed",
             "live_error", "skipped", "verified", "mismatch", "recorded"}
Phases == {"start", "load_error", "active", "saving", "ordered", "writing",
           "written", "closed", "order_error", "io_error"}

Types ==
    /\ mode \in Modes /\ normalizes \in BOOLEAN /\ joined \in BOOLEAN
    /\ phase \in Phases
    /\ replay_only \in BOOLEAN /\ dirty \in BOOLEAN
    /\ inner \in Seq(Interaction) /\ mirror \in Seq(Interaction)
    /\ file \in Seq(Interaction)
    /\ played \in Seq(BOOLEAN) /\ Len(played) = Len(inner)
    /\ mirror_played \in Seq(BOOLEAN) /\ Len(mirror_played) = Len(mirror)
    /\ orders \in Seq(Nat) /\ next_order \in Nat
    /\ lock \in Threads \cup {NoThread}
    /\ pc \in [Threads -> Stages]
    /\ DOMAIN req = Threads /\ \A t \in Threads : pc[t] # "idle" => req[t] \in Requests
    /\ order \in [Threads -> Nat]
    /\ expected \in [Threads -> Nat]
    /\ outcome \in [Threads -> Outcomes]
    /\ answer \in [Threads -> Int]

(* Threads send their requests while the block is active; a block that     *)
(* waits for them exits when they are done.                                *)
Quiescent ==
    /\ phase \in {"start", "load_error"} => \A t \in Threads : pc[t] = "idle"
    /\ joined /\ phase # "active" => \A t \in Threads : pc[t] \in {"idle", "done"}

(* record holds the lock from its first append to its last.                *)
LockHeld == \A t \in Threads : lock = t <=> pc[t] \in {"order", "mirror"}

(* What a thread has appended so far while it holds the lock.              *)
InHand ==
    /\ ~ normalizes => mirror = <<>>
    /\ \A t \in Threads :
         /\ pc[t] = "order" => Len(inner) = Len(orders) + 1
         /\ pc[t] = "mirror" => Len(inner) = Len(orders)
         /\ pc[t] \in {"order", "mirror"} =>
              /\ Len(inner) > 0 /\ inner[Len(inner)] = Recording(t)
              /\ normalizes => /\ Len(inner) = Len(mirror) + 1
                               /\ (played[Len(inner)] = TRUE) <=> can_record

(* Orders are claimed once: the ids of the cassette differ, and a request  *)
(* under way has an order nobody else has.                                 *)
IdsOwned ==
    /\ \A i \in DOMAIN inner : inner[i].id < next_order
    /\ \A i, j \in DOMAIN inner : i # j => inner[i].id # inner[j].id
    /\ \A t \in Threads : pc[t] \in {"live", "record"} =>
         /\ order[t] < next_order
         /\ order[t] \notin Ids(inner)
         /\ \A u \in Threads : u # t /\ pc[u] \in {"live", "record"} => order[u] # order[t]

(* The file of earlier sessions, until load has read it.                   *)
OldFile ==
    phase = "start" =>
        /\ \A i \in DOMAIN file : file[i].id < 0
        /\ \A i, j \in DOMAIN file : i # j => file[i].id # file[j].id

(* A thread that took an interaction.                                      *)
Took(t) == pc[t] = "mark" \/ outcome[t] = "replayed"

(* The flags the matcher reads.                                            *)
Taken(i) == IF normalizes THEN mirror_played[i] = TRUE ELSE played[i] = TRUE

TakenOnce ==
    /\ \A t \in Threads : outcome[t] = "replayed" => pc[t] = "done"
    /\ \A t \in Threads : Took(t) =>
         /\ expected[t] \in DOMAIN inner
         /\ normalizes => expected[t] \in DOMAIN mirror
         /\ outcome[t] = "replayed" => answer[t] = inner[expected[t]].id
         /\ pc[t] = "mark" => normalizes /\ mirror_played[expected[t]] = TRUE
         /\ can_record => inner[expected[t]].id < 0 /\ Taken(expected[t])
    /\ can_record =>
         \A t, u \in Threads : t # u /\ Took(t) /\ Took(u) => expected[t] # expected[u]
    /\ can_record =>
         \A i \in DOMAIN inner : inner[i].id >= 0 =>
             /\ played[i] = TRUE
             /\ i \in DOMAIN mirror => mirror_played[i] = TRUE

(* A flag of the mirror is a flag of the cassette, or about to be.         *)
Synced ==
    joined /\ normalizes =>
        \A i \in DOMAIN mirror :
            \/ played[i] = mirror_played[i]
            \/ \E t \in Threads : pc[t] = "mark" /\ expected[t] = i

(* What was recorded is in the cassette, and makes the exit save it.       *)
RecordedKept ==
    /\ \A t \in Threads :
         pc[t] \in {"order", "mirror", "dirty"} \/ outcome[t] = "recorded"
             => order[t] \in Ids(inner)
    /\ \A t \in Threads : outcome[t] = "recorded" =>
         pc[t] = "done" /\ (phase # "closed" => dirty)
    /\ phase \in {"start", "active"} => due = {}
    /\ due \subseteq Ids(inner)
    /\ due # {} /\ phase # "closed" => dirty
    /\ EachOnce(save_order, Len(save_order))
    /\ phase = "writing" => Len(save_order) = Len(inner)
    /\ phase \in {"written", "closed"} => due \subseteq Ids(file)

(* Bodies with equal JSON values are written alike.                        *)
UniformSpelling ==
    \A q, r \in Requests :
        (q.body.kind = r.body.kind /\ q.body.core = r.body.core)
            => q.body.spelling = r.body.spelling

(* The save of a block that waited for its threads.                        *)
SaveSorted ==
    joined =>
        /\ phase \in {"ordered", "writing"} =>
             output_order(save_order, IF normalizes THEN mirror ELSE inner, MatchOn, orders)
        /\ UniformSpelling => InSentOrder

IInv ==
    /\ Types
    /\ Quiescent
    /\ LockHeld
    /\ OrdersPaired
    /\ InHand
    /\ IdsOwned
    /\ OldFile
    /\ TakenOnce
    /\ Synced
    /\ RecordedKept
    /\ SaveSorted

(* What can_record is read from does not change after load.                *)
LEMMA CanRecordKept ==
    ASSUME mode' = mode, replay_only' = replay_only
    PROVE  can_record' <=> can_record
  BY DEF can_record

(* A sequence of interactions.                                             *)
LEMMA InteractionSeq ==
    ASSUME NEW s \in Seq(Interaction)
    PROVE  /\ DOMAIN s = 1..Len(s) /\ Len(s) \in Nat
           /\ \A i \in DOMAIN s : s[i] \in Interaction /\ s[i].id \in Int
<1>. DEFINE I == Interaction
<1>1. \A x \in I : x.id \in Int
  BY DEF Interaction
<1>2. s \in Seq(I)
  OBVIOUS
<1>. HIDE DEF I
<1>3. DOMAIN s = 1..Len(s) /\ Len(s) \in Nat /\ \A i \in DOMAIN s : s[i] \in I
  BY <1>2
<1>. QED  BY <1>1, <1>3 DEF I

(* The sequences and their domains.                                        *)
LEMMA Domains ==
    ASSUME Types
    PROVE  /\ DOMAIN inner = 1..Len(inner) /\ Len(inner) \in Nat
           /\ DOMAIN mirror = 1..Len(mirror) /\ Len(mirror) \in Nat
           /\ DOMAIN file = 1..Len(file) /\ Len(file) \in Nat
           /\ DOMAIN played = 1..Len(inner) /\ DOMAIN mirror_played = 1..Len(mirror)
           /\ DOMAIN orders = 1..Len(orders) /\ Len(orders) \in Nat
           /\ \A i \in DOMAIN inner : /\ inner[i] \in Interaction
                                      /\ inner[i].id \in Int /\ inner[i].req \in Requests
           /\ \A i \in DOMAIN file : /\ file[i] \in Interaction
                                     /\ file[i].id \in Int /\ file[i].req \in Requests
           /\ \A i \in DOMAIN played : played[i] \in BOOLEAN
           /\ \A i \in DOMAIN mirror_played : mirror_played[i] \in BOOLEAN
           /\ \A i \in DOMAIN orders : orders[i] \in Nat
<1>. DEFINE I == Interaction
            B == BOOLEAN
<1>1. /\ inner \in Seq(I) /\ mirror \in Seq(I) /\ file \in Seq(I)
      /\ played \in Seq(B) /\ Len(played) = Len(inner)
      /\ mirror_played \in Seq(B) /\ Len(mirror_played) = Len(mirror)
      /\ orders \in Seq(Nat)
  BY DEF Types
<1>2. \A x \in I : x.id \in Int /\ x.req \in Requests
  BY DEF Interaction
<1>. HIDE DEF I, B
<1>3. /\ DOMAIN inner = 1..Len(inner) /\ Len(inner) \in Nat
      /\ DOMAIN mirror = 1..Len(mirror) /\ Len(mirror) \in Nat
      /\ DOMAIN file = 1..Len(file) /\ Len(file) \in Nat
      /\ DOMAIN played = 1..Len(inner) /\ DOMAIN mirror_played = 1..Len(mirror)
      /\ DOMAIN orders = 1..Len(orders) /\ Len(orders) \in Nat
  BY <1>1
<1>4. /\ \A i \in DOMAIN inner : inner[i] \in I
      /\ \A i \in DOMAIN file : file[i] \in I
      /\ \A i \in DOMAIN played : played[i] \in B
      /\ \A i \in DOMAIN mirror_played : mirror_played[i] \in B
      /\ \A i \in DOMAIN orders : orders[i] \in Nat
  BY <1>1
<1>. QED  BY <1>2, <1>3, <1>4 DEF I, B

-----------------------------------------------------------------------------
(* The initial states                                                      *)

LEMMA InitIInv == Init => IInv
<1>1. SUFFICES ASSUME Init PROVE IInv
  OBVIOUS
<1>2. /\ file \in Seq(Interaction)
      /\ \A i \in DOMAIN file : file[i].id < 0
      /\ \A i, j \in DOMAIN file : i # j => file[i].id # file[j].id
  <2>1. CASE file = <<>>
    BY <2>1
  <2>2. ASSUME NEW f \in InitialFiles,
               file = [i \in DOMAIN f |-> [req |-> f[i], id |-> i - 1 - Len(f)]]
        PROVE  /\ file \in Seq(Interaction)
               /\ \A i \in DOMAIN file : file[i].id < 0
               /\ \A i, j \in DOMAIN file : i # j => file[i].id # file[j].id
    <3>1. f \in Seq(Requests)
      BY PySessionAssumption
    <3>2. DOMAIN f = 1..Len(f) /\ Len(f) \in Nat /\ \A i \in 1..Len(f) : f[i] \in Requests
      BY <3>1
    <3>3. \A i \in 1..Len(f) : file[i] = [req |-> f[i], id |-> i - 1 - Len(f)]
      BY <2>2, <3>2
    <3>4. \A i \in 1..Len(f) : file[i] \in Interaction /\ file[i].id = i - 1 - Len(f)
      <4>1. SUFFICES ASSUME NEW i \in 1..Len(f)
                     PROVE  file[i] \in Interaction /\ file[i].id = i - 1 - Len(f)
        OBVIOUS
      <4>2. PICK r \in Requests : r = f[i]
        BY <3>2
      <4>5. i - 1 - Len(f) \in Int
        BY <3>2
      <4>3. PICK n \in Int : n = i - 1 - Len(f)
        BY <4>5, Zenon
      <4>4. file[i] = [req |-> r, id |-> n]
        BY <3>3, <4>2, <4>3
      <4>. QED  BY <4>3, <4>4 DEF Interaction
    <3>5. DOMAIN file = 1..Len(f)
      BY <2>2, <3>2
    <3>6. file \in [1..Len(f) -> Interaction]
      BY <2>2, <3>2, <3>4
    <3>7. file \in Seq(Interaction)
      BY <3>2, <3>6
    <3>. QED  BY <3>2, <3>4, <3>5, <3>7
  <2>. QED  BY <1>1, <2>1, <2>2 DEF Init
<1>3. Types
  <2>1. /\ inner = <<>> /\ mirror = <<>> /\ played = <<>> /\ mirror_played = <<>>
        /\ orders = <<>> /\ next_order = 0 /\ lock = NoThread
    BY <1>1 DEF Init
  <2>2. /\ inner \in Seq(Interaction) /\ mirror \in Seq(Interaction)
        /\ played \in Seq(BOOLEAN) /\ mirror_played \in Seq(BOOLEAN)
        /\ orders \in Seq(Nat) /\ next_order \in Nat
        /\ Len(played) = Len(inner) /\ Len(mirror_played) = Len(mirror)
    BY <2>1
  <2>3. pc \in [Threads -> Stages] /\ outcome \in [Threads -> Outcomes]
    BY <1>1 DEF Init, Stages, Outcomes
  <2>4. /\ order \in [Threads -> Nat] /\ expected \in [Threads -> Nat]
        /\ answer \in [Threads -> Int] /\ DOMAIN req = Threads
        /\ \A t \in Threads : pc[t] = "idle"
    BY <1>1 DEF Init
  <2>5. mode \in Modes /\ normalizes \in BOOLEAN /\ joined \in BOOLEAN /\ phase \in Phases
          /\ replay_only \in BOOLEAN /\ dirty \in BOOLEAN
    BY <1>1 DEF Init, Phases
  <2>. QED  BY <1>2, <2>1, <2>2, <2>3, <2>4, <2>5 DEF Types
<1>4. Quiescent /\ LockHeld /\ InHand
  BY <1>1, PySessionAssumption DEF Init, Quiescent, LockHeld, InHand
<1>5. OrdersPaired /\ IdsOwned
  BY <1>1 DEF Init, OrdersPaired, IdsOwned
<1>6. OldFile
  BY <1>2 DEF OldFile
<1>7. TakenOnce /\ Synced
  BY <1>1 DEF Init, TakenOnce, Took, Synced
<1>8. RecordedKept
  <2>1. EachOnce(save_order, Len(save_order))
    BY <1>1 DEF Init, EachOnce
  <2>. QED  BY <1>1, <2>1 DEF Init, RecordedKept
<1>9. SaveSorted
  <2>1. \A i \in DOMAIN file : ~ (file[i].id >= 0)
    <3>1. \A i \in DOMAIN file : file[i] \in Interaction
      BY <1>2, SeqElement
    <3>. QED  BY <1>2, <3>1 DEF Interaction
  <2>. QED  BY <1>1, <2>1 DEF Init, SaveSorted, InSentOrder
<1>. QED  BY <1>3, <1>4, <1>5, <1>6, <1>7, <1>8, <1>9 DEF IInv

-----------------------------------------------------------------------------
(* Cassette.load                                                           *)

(* The interactions of earlier sessions.                                   *)
OldTape(s) ==
    /\ \A i \in DOMAIN s : s[i].id < 0
    /\ \A i, j \in DOMAIN s : i # j => s[i].id # s[j].id

(* A normalized copy keeps its id.                                         *)
LEMMA NormalizedCopy ==
    ASSUME NEW x \in Interaction
    PROVE  normalized_copy(x) \in Interaction /\ normalized_copy(x).id = x.id
  BY PySessionAssumption DEF normalized_copy, Interaction

(* What load puts into the cassette object.                                *)
LEMMA HoldFacts ==
    ASSUME NEW s \in Seq(Interaction), Hold(s)
    PROVE  /\ inner' = s
           /\ played' \in Seq(BOOLEAN) /\ Len(played') = Len(s)
           /\ mirror' \in Seq(Interaction) /\ mirror_played' \in Seq(BOOLEAN)
           /\ Len(mirror_played') = Len(mirror')
           /\ normalizes => /\ Len(mirror') = Len(s)
                            /\ \A i \in 1..Len(s) : mirror'[i] = normalized_copy(s[i])
                            /\ mirror_played' = played'
           /\ ~ normalizes => mirror' = <<>> /\ mirror_played' = <<>>
           /\ orders' \in Seq(Nat) /\ Len(orders') = Len(s)
           /\ next_order' = Len(s) /\ next_order' \in Nat
<1>. DEFINE I == Interaction
            B == BOOLEAN
<1>1. Len(s) \in Nat /\ DOMAIN s = 1..Len(s) /\ \A i \in 1..Len(s) : s[i] \in I
  <2>. HIDE DEF I
  <2>1. s \in Seq(I)
    BY DEF I
  <2>. QED  BY <2>1
<1>2. NotPlayed(s) \in Seq(B) /\ Len(NotPlayed(s)) = Len(s)
  <2>1. NotPlayed(s) \in [1..Len(s) -> B]
    BY <1>1 DEF NotPlayed
  <2>. HIDE DEF B
  <2>. QED  BY <1>1, <2>1
<1>3. ASSUME normalizes
      PROVE  /\ mirror' \in Seq(I) /\ Len(mirror') = Len(s)
             /\ \A i \in 1..Len(s) : mirror'[i] = normalized_copy(s[i])
             /\ mirror_played' = NotPlayed(s)
  <2>1. mirror' = [i \in 1..Len(s) |-> normalized_copy(s[i])] /\ mirror_played' = NotPlayed(s)
    BY <1>1, <1>3 DEF Hold
  <2>2. \A i \in 1..Len(s) : normalized_copy(s[i]) \in I
    BY <1>1, NormalizedCopy
  <2>. HIDE DEF I
  <2>. QED  BY <1>1, <2>1, <2>2
<1>4. ASSUME ~ normalizes
      PROVE  mirror' = <<>> /\ mirror_played' = <<>>
  BY <1>4 DEF Hold
<1>5. orders' \in Seq(Nat) /\ Len(orders') = Len(s)
  <2>1. orders' = [i \in 1..Len(s) |-> i - 1]
    BY <1>1 DEF Hold
  <2>. QED  BY <1>1, <2>1
<1>6. inner' = s /\ played' = NotPlayed(s) /\ next_order' = Len(s)
  BY DEF Hold
<1>7. CASE normalizes
  BY <1>1, <1>2, <1>3, <1>5, <1>6, <1>7
<1>8. CASE ~ normalizes
  <2>1. mirror' \in Seq(Interaction) /\ mirror_played' \in Seq(BOOLEAN)
          /\ Len(mirror_played') = Len(mirror')
    BY <1>4, <1>8
  <2>. QED  BY <1>1, <1>2, <1>4, <1>5, <1>6, <1>8, <2>1
<1>. QED  BY <1>7, <1>8

(* A block that becomes active with the interactions s.                    *)
LEMMA BecomesActive ==
    ASSUME IInv, NEW s \in Seq(Interaction), OldTape(s), Hold(s),
           phase = "start", phase' = "active",
           UNCHANGED <<options, save_order, due, lock, calls>>,
           replay_only' \in BOOLEAN, dirty' \in BOOLEAN,
           file' = file \/ file' = <<>>
    PROVE  IInv'
<1>1. /\ inner' = s
      /\ played' \in Seq(BOOLEAN) /\ Len(played') = Len(s)
      /\ mirror' \in Seq(Interaction) /\ mirror_played' \in Seq(BOOLEAN)
      /\ Len(mirror_played') = Len(mirror')
      /\ orders' \in Seq(Nat) /\ Len(orders') = Len(s)
      /\ next_order' = Len(s) /\ next_order' \in Nat
  BY HoldFacts
<1>2. normalizes => /\ Len(mirror') = Len(s)
                    /\ \A i \in 1..Len(s) : mirror'[i] = normalized_copy(s[i])
                    /\ mirror_played' = played'
  BY HoldFacts
<1>3. ~ normalizes => mirror' = <<>> /\ mirror_played' = <<>>
  BY HoldFacts
<1>4. UNCHANGED <<mode, normalizes, joined, save_order, due, lock, pc, req, order,
                  expected, outcome, answer>>
  BY DEF options, calls
<1>5. file' \in Seq(Interaction)
  <2>1. CASE file' = file
    BY <2>1 DEF IInv, Types
  <2>2. CASE file' = <<>>
    BY <2>2
  <2>. QED  BY <2>1, <2>2
<1>6. Types'
  BY <1>1, <1>4, <1>5 DEF IInv, Types, Phases
<1>7. \A t \in Threads : pc'[t] = "idle" /\ outcome'[t] # "replayed" /\ outcome'[t] # "recorded"
  BY <1>4 DEF IInv, Quiescent, TakenOnce, RecordedKept
<1>8. Quiescent'
  BY <1>7 DEF Quiescent
<1>9. LockHeld' /\ lock' = lock
  BY <1>4 DEF IInv, LockHeld
<1>10. /\ DOMAIN inner' = 1..Len(s) /\ DOMAIN orders' = 1..Len(s) /\ Len(s) \in Nat
       /\ DOMAIN mirror' = 1..Len(mirror')
       /\ \A i \in 1..Len(s) : s[i].id \in Int /\ s[i].id < 0
       /\ \A i, j \in 1..Len(s) : i # j => s[i].id # s[j].id
  <2>1. /\ DOMAIN inner' = 1..Len(inner') /\ DOMAIN orders' = 1..Len(orders')
        /\ DOMAIN mirror' = 1..Len(mirror')
        /\ \A i \in DOMAIN inner' : inner'[i].id \in Int
        /\ Len(inner') \in Nat
    <3>1. inner' \in Seq(Interaction) /\ mirror' \in Seq(Interaction) /\ orders' \in Seq(Nat)
      BY <1>1
    <3>. QED  BY <3>1, InteractionSeq
  <2>. QED  BY <1>1, <2>1 DEF OldTape
<1>11. OrdersPaired'
  <2>1. \A i \in 1..Len(s) : ~ (s[i].id >= 0)
    BY <1>10
  <2>2. \A i \in DOMAIN mirror' : i \in DOMAIN inner' /\ mirror'[i] = normalized_copy(inner'[i])
    BY <1>1, <1>2, <1>3, <1>10
  <2>3. \A i \in DOMAIN mirror' : normalized_copy(inner[i])' = normalized_copy(inner'[i])
    BY DEF normalized_copy
  <2>. QED  BY <1>1, <1>2, <1>4, <1>10, <2>1, <2>2 DEF OrdersPaired, normalized_copy
<1>12. InHand'
  BY <1>3, <1>4, <1>7 DEF InHand
<1>13. IdsOwned'
  <2>1. \A i \in 1..Len(s) : s[i].id < Len(s)
    BY <1>10
  <2>. QED  BY <1>1, <1>7, <1>10, <2>1 DEF IdsOwned
<1>14. OldFile'
  BY DEF OldFile
<1>15. TakenOnce'
  <2>1. \A i \in 1..Len(s) : ~ (s[i].id >= 0)
    BY <1>10
  <2>. QED  BY <1>1, <1>7, <1>10, <2>1 DEF TakenOnce, Took
<1>16. Synced'
  BY <1>2, <1>4 DEF Synced
<1>17. RecordedKept'
  BY <1>4, <1>7 DEF IInv, RecordedKept
<1>18. SaveSorted'
  <2>1. \A i \in DOMAIN file' : ~ (file'[i].id >= 0)
    <3>1. \A i \in DOMAIN file : file[i].id < 0 /\ file[i].id \in Int
      BY Domains DEF IInv, OldFile
    <3>. QED  BY <3>1
  <2>. QED  BY <2>1 DEF SaveSorted, InSentOrder
<1>. QED  BY <1>6, <1>8, <1>9, <1>11, <1>12, <1>13, <1>14, <1>15, <1>16, <1>17, <1>18 DEF IInv

LEMMA LoadStep ==
    ASSUME IInv, Load
    PROVE  IInv'
<1>. DEFINE none == <<>>
<1>1. none \in Seq(Interaction) /\ OldTape(none)
  BY DEF OldTape
<1>2. CASE LoadEmpty
  <2>1. /\ Hold(none) /\ phase = "start" /\ phase' = "active"
        /\ UNCHANGED <<options, save_order, due, lock, calls>>
        /\ replay_only' \in BOOLEAN
        /\ file' = file \/ file' = <<>>
    BY <1>2 DEF LoadEmpty
  <2>2. dirty' \in BOOLEAN
    <3>1. dirty' = Discarding
      BY <1>2 DEF LoadEmpty
    <3>2. Discarding \in BOOLEAN
      BY DEF Discarding
    <3>. QED  BY <3>1, <3>2, Zenon
  <2>. HIDE DEF none
  <2>. QED  BY <1>1, <2>1, <2>2, BecomesActive
<1>3. CASE LoadFile
  <2>1. /\ Hold(file) /\ phase = "start" /\ phase' = "active"
        /\ UNCHANGED <<options, save_order, due, lock, calls>>
        /\ replay_only' \in BOOLEAN /\ dirty' = dirty /\ file' = file
    BY <1>3 DEF LoadFile, disk
  <2>2. file \in Seq(Interaction) /\ OldTape(file) /\ dirty \in BOOLEAN
    BY <2>1 DEF IInv, Types, OldFile, OldTape
  <2>. QED  BY <2>1, <2>2, BecomesActive
<1>4. CASE LoadExpired
  <2>1. /\ Hold(none) /\ phase = "start" /\ phase' = "active"
        /\ UNCHANGED <<options, save_order, due, lock, calls>>
        /\ replay_only' \in BOOLEAN /\ dirty' \in BOOLEAN /\ file' = file
    BY <1>4 DEF LoadExpired, disk
  <2>. HIDE DEF none
  <2>. QED  BY <1>1, <2>1, BecomesActive
<1>5. CASE LoadFails
  <2>1. /\ phase = "start" /\ phase' = "load_error"
        /\ UNCHANGED <<mode, normalizes, joined, save_order, due, replay_only, dirty,
                       inner, played, mirror, mirror_played, orders, next_order, lock,
                       file, pc, req, order, expected, outcome, answer>>
    BY <1>5 DEF LoadFails, options, state, tapes, numbers, disk, calls
  <2>2. Types'
    BY <2>1 DEF IInv, Types, Phases
  <2>3. Quiescent' /\ LockHeld' /\ InHand' /\ IdsOwned' /\ OldFile'
    BY <2>1 DEF IInv, Quiescent, LockHeld, InHand, IdsOwned, OldFile, Ids, Recording,
                can_record
  <2>4. OrdersPaired' /\ Synced'
    BY <2>1 DEF IInv, OrdersPaired, normalized_copy, Synced
  <2>5. TakenOnce'
    BY <2>1 DEF IInv, TakenOnce, Took, Taken, can_record
  <2>6. RecordedKept'
    BY <2>1 DEF IInv, RecordedKept, Ids
  <2>7. SaveSorted'
    BY <2>1 DEF IInv, SaveSorted, InSentOrder, Seen
  <2>. QED  BY <2>2, <2>3, <2>4, <2>5, <2>6, <2>7 DEF IInv
<1>. QED  BY <1>2, <1>3, <1>4, <1>5 DEF Load

-----------------------------------------------------------------------------
(* Steps of a request that leave the cassette alone                        *)

LEMMA QuietThread ==
    ASSUME IInv, Types', NEW t \in Threads,
           UNCHANGED <<mode, normalizes, joined, phase, save_order, due, replay_only,
                       inner, played, mirror, mirror_played, orders, lock, file,
                       expected, answer>>,
           \A u \in Threads : u # t => /\ pc'[u] = pc[u] /\ outcome'[u] = outcome[u]
                                       /\ order'[u] = order[u] /\ req'[u] = req[u],
           phase \notin {"start", "load_error"}, phase = "active" \/ ~ joined,
           pc[t] \notin {"order", "mirror", "done"},
           pc'[t] \notin {"order", "mirror", "mark", "dirty"},
           pc[t] = "mark" => ~ joined,
           outcome'[t] # "replayed",
           outcome'[t] = "recorded" => /\ pc[t] = "dirty" /\ pc'[t] = "done"
                                       /\ dirty' = TRUE /\ order'[t] = order[t],
           dirty' = dirty \/ dirty' = TRUE,
           \/ /\ next_order' = next_order /\ order'[t] = order[t]
              /\ pc'[t] \in {"live", "record"} => pc[t] = "live"
           \/ next_order' = next_order + 1 /\ order'[t] = next_order
    PROVE  IInv'
<1>1. outcome[t] # "replayed" /\ outcome[t] # "recorded"
  BY DEF IInv, TakenOnce, RecordedKept
<1>2. can_record' <=> can_record
  BY DEF can_record
<1>3. Quiescent'
  BY DEF Quiescent
<1>4. LockHeld'
  <2>1. \A u \in Threads : (pc'[u] \in {"order", "mirror"}) <=> (pc[u] \in {"order", "mirror"})
    OBVIOUS
  <2>. QED  BY <2>1 DEF IInv, LockHeld
<1>5. OrdersPaired' /\ OldFile' /\ SaveSorted'
  <2>1. OrdersPaired'
    BY DEF IInv, OrdersPaired, normalized_copy
  <2>2. OldFile'
    BY DEF IInv, OldFile
  <2>3. SaveSorted'
    BY DEF IInv, SaveSorted, InSentOrder, Seen
  <2>. QED  BY <2>1, <2>2, <2>3
<1>6. InHand'
  <2>1. SUFFICES ASSUME NEW u \in Threads, pc'[u] \in {"order", "mirror"}
                 PROVE  /\ pc'[u] = "order" => Len(inner) = Len(orders) + 1
                        /\ pc'[u] = "mirror" => Len(inner) = Len(orders)
                        /\ Len(inner) > 0 /\ inner[Len(inner)] = Recording(u)'
                        /\ normalizes => /\ Len(inner) = Len(mirror) + 1
                                         /\ (played[Len(inner)] = TRUE) <=> can_record
    BY <1>2 DEF IInv, InHand
  <2>2. u # t /\ pc[u] = pc'[u]
    BY <2>1
  <2>3. Recording(u)' = Recording(u)
    BY <2>2 DEF Recording
  <2>. QED  BY <2>1, <2>2, <2>3 DEF IInv, InHand
<1>7. IdsOwned'
  <2>1. next_order \in Nat /\ \A i \in DOMAIN inner : inner[i].id \in Int /\ inner[i].id < next_order
    BY Domains DEF IInv, IdsOwned, Types
  <2>2. next_order' \in Nat /\ next_order' >= next_order
    BY <2>1
  <2>3. \A i \in DOMAIN inner : inner[i].id < next_order'
    BY <2>1, <2>2
  <2>4. next_order \notin Ids(inner)
    BY <2>1 DEF Ids
  <2>5. \A u \in Threads : pc[u] \in {"live", "record"} =>
           order[u] \in Nat /\ order[u] < next_order /\ order[u] \notin Ids(inner)
    BY DEF IInv, IdsOwned, Types
  <2>6. ASSUME NEW u \in Threads, pc'[u] \in {"live", "record"}
        PROVE  /\ order'[u] < next_order' /\ order'[u] \notin Ids(inner)
               /\ \A v \in Threads : v # u /\ pc'[v] \in {"live", "record"}
                                        => order'[v] # order'[u]
    <3>1. CASE /\ next_order' = next_order /\ order'[t] = order[t]
               /\ pc'[t] \in {"live", "record"} => pc[t] = "live"
      <4>1. \A v \in Threads : pc'[v] \in {"live", "record"} =>
               pc[v] \in {"live", "record"} /\ order'[v] = order[v]
        BY <3>1
      <4>. QED  BY <2>6, <3>1, <4>1 DEF IInv, IdsOwned
    <3>2. CASE next_order' = next_order + 1 /\ order'[t] = next_order
      <4>1. \A v \in Threads : v # t /\ pc'[v] \in {"live", "record"} =>
               pc[v] \in {"live", "record"} /\ order'[v] = order[v] /\ order[v] < next_order
                 /\ order[v] \in Nat /\ order[v] \notin Ids(inner)
        BY <2>5
      <4>2. CASE u = t
        <5>1. order'[u] < next_order' /\ order'[u] \notin Ids(inner)
          BY <2>1, <2>4, <3>2, <4>2
        <5>2. \A v \in Threads : v # u /\ pc'[v] \in {"live", "record"}
                                        => order'[v] # order'[u]
          BY <2>1, <3>2, <4>1, <4>2
        <5>. QED  BY <5>1, <5>2
      <4>3. CASE u # t
        <5>1. order'[u] < next_order' /\ order'[u] \notin Ids(inner) /\ order'[t] # order'[u]
          BY <2>1, <2>6, <3>2, <4>1, <4>3
        <5>2. \A v \in Threads : v # u /\ v # t /\ pc'[v] \in {"live", "record"}
                                        => order'[v] # order'[u]
          BY <2>6, <4>1, <4>3 DEF IInv, IdsOwned
        <5>. QED  BY <5>1, <5>2
      <4>. QED  BY <4>2, <4>3
    <3>. QED  BY <3>1, <3>2
  <2>7. Ids(inner)' = Ids(inner)
    BY DEF Ids
  <2>8. \A i, j \in DOMAIN inner : i # j => inner[i].id # inner[j].id
    BY DEF IInv, IdsOwned
  <2>. QED  BY <2>3, <2>6, <2>7, <2>8 DEF IdsOwned
<1>8. TakenOnce'
  <2>1. \A u \in Threads : Took(u)' => u # t /\ Took(u)
    BY DEF Took
  <2>2. \A u \in Threads : outcome'[u] = "replayed" => u # t /\ outcome[u] = "replayed"
    OBVIOUS
  <2>3. \A i : Taken(i)' <=> Taken(i)
    BY DEF Taken
  <2>4. \A u \in Threads : outcome'[u] = "replayed" => pc'[u] = "done"
    BY <2>2 DEF IInv, TakenOnce
  <2>5. ASSUME NEW u \in Threads, Took(u)'
        PROVE  /\ expected[u] \in DOMAIN inner
               /\ normalizes => expected[u] \in DOMAIN mirror
               /\ outcome'[u] = "replayed" => answer[u] = inner[expected[u]].id
               /\ pc'[u] = "mark" => normalizes /\ mirror_played[expected[u]] = TRUE
               /\ can_record => inner[expected[u]].id < 0 /\ Taken(expected[u])
    <3>1. Took(u) /\ pc'[u] = pc[u] /\ outcome'[u] = outcome[u]
      BY <2>1, <2>5
    <3>. QED  BY <3>1 DEF IInv, TakenOnce
  <2>6. can_record => \A u, v \in Threads :
           u # v /\ Took(u)' /\ Took(v)' => expected[u] # expected[v]
    BY <2>1 DEF IInv, TakenOnce
  <2>7. can_record => \A i \in DOMAIN inner : inner[i].id >= 0 =>
             /\ played[i] = TRUE
             /\ i \in DOMAIN mirror => mirror_played[i] = TRUE
    BY DEF IInv, TakenOnce
  <2>. QED  BY <1>2, <2>4, <2>5, <2>6, <2>7 DEF TakenOnce, Taken
<1>9. Synced'
  <2>1. joined => \A u \in Threads : pc[u] = "mark" => pc'[u] = "mark"
    OBVIOUS
  <2>. QED  BY <2>1 DEF IInv, Synced
<1>10. RecordedKept'
  <2>1. Ids(inner)' = Ids(inner) /\ Ids(file)' = Ids(file)
    BY DEF Ids
  <2>2. ASSUME NEW u \in Threads,
               pc'[u] \in {"order", "mirror", "dirty"} \/ outcome'[u] = "recorded"
        PROVE  order'[u] \in Ids(inner)
    <3>1. /\ pc[u] \in {"order", "mirror", "dirty"} \/ outcome[u] = "recorded"
          /\ order'[u] = order[u]
      BY <2>2
    <3>. QED  BY <3>1 DEF IInv, RecordedKept
  <2>3. ASSUME NEW u \in Threads, outcome'[u] = "recorded"
        PROVE  pc'[u] = "done" /\ (phase # "closed" => dirty')
    BY <2>3 DEF IInv, RecordedKept
  <2>4. due # {} /\ phase # "closed" => dirty'
    BY DEF IInv, RecordedKept
  <2>. QED  BY <2>1, <2>2, <2>3, <2>4 DEF IInv, RecordedKept
<1>. QED  BY <1>3, <1>4, <1>5, <1>6, <1>7, <1>8, <1>9, <1>10 DEF IInv

(* A thread that is under way runs in a block that has not been left, or   *)
(* does not wait for it.                                                   *)
LEMMA UnderWay ==
    ASSUME IInv, NEW t \in Threads, pc[t] \notin {"idle", "done"}
    PROVE  phase \notin {"start", "load_error"} /\ (phase = "active" \/ ~ joined)
  BY DEF IInv, Quiescent

LEMMA QuietStep ==
    ASSUME IInv, NEW t \in Threads,
           \/ \E r \in Requests : Start(t, r)
           \/ Passthrough(t) \/ NoMatch(t) \/ AlreadyBorrowed(t) \/ LiveEnds(t)
           \/ Responded(t) \/ reserve_record_order(t) \/ SetDirty(t)
    PROVE  IInv'
<1>1. UNCHANGED <<mode, normalizes, joined, phase, save_order, due, replay_only, inner,
                  played, mirror, mirror_played, orders, lock, file, expected, answer>>
  BY DEF Start, Passthrough, NoMatch, AlreadyBorrowed, LiveEnds, Responded,
         reserve_record_order, SetDirty, options, block, state, tapes, numbers, disk
<1>2. \/ /\ pc[t] = "idle" /\ pc' = [pc EXCEPT ![t] = "match"] /\ outcome' = outcome
         /\ phase = "active" /\ UNCHANGED <<order, next_order, dirty>>
         /\ \E r \in Requests : req' = [req EXCEPT ![t] = r]
      \/ /\ pc[t] \in {"match", "mark", "record", "live"}
         /\ pc[t] = "mark" => phase = "writing"
         /\ pc' = [pc EXCEPT ![t] = "done"]
         /\ \E w \in {"passthrough", "no_match", "borrowed", "live_error", "skipped",
                      "verified", "mismatch"} : outcome' = [outcome EXCEPT ![t] = w]
         /\ UNCHANGED <<order, next_order, dirty, req>>
      \/ /\ pc[t] = "match" /\ pc' = [pc EXCEPT ![t] = "reserve"] /\ outcome' = outcome
         /\ UNCHANGED <<order, next_order, dirty, req>>
      \/ /\ pc[t] = "live" /\ pc' = [pc EXCEPT ![t] = "record"] /\ outcome' = outcome
         /\ UNCHANGED <<order, next_order, dirty, req>>
      \/ /\ pc[t] = "reserve" /\ pc' = [pc EXCEPT ![t] = "live"] /\ outcome' = outcome
         /\ order' = [order EXCEPT ![t] = next_order] /\ next_order' = next_order + 1
         /\ UNCHANGED <<dirty, req>>
      \/ /\ pc[t] = "dirty" /\ pc' = [pc EXCEPT ![t] = "done"] /\ dirty' = TRUE
         /\ outcome' = [outcome EXCEPT ![t] = "recorded"]
         /\ UNCHANGED <<order, next_order, req>>
  <2>1. CASE \E r \in Requests : Start(t, r)
    BY <2>1 DEF Start, state, numbers
  <2>2. CASE Passthrough(t)
    BY <2>2 DEF Passthrough, Return, state, numbers
  <2>3. CASE NoMatch(t)
    BY <2>3 DEF NoMatch, Return, state, numbers
  <2>4. CASE AlreadyBorrowed(t)
    BY <2>4 DEF AlreadyBorrowed, Borrowed, Return, state, numbers
  <2>5. CASE LiveEnds(t)
    BY <2>5 DEF LiveEnds, Return, state, numbers
  <2>6. CASE Responded(t)
    BY <2>6 DEF Responded, state, numbers
  <2>7. CASE reserve_record_order(t)
    BY <2>7 DEF reserve_record_order, state
  <2>8. CASE SetDirty(t)
    BY <2>8 DEF SetDirty, Return, numbers
  <2>. QED  BY <2>1, <2>2, <2>3, <2>4, <2>5, <2>6, <2>7, <2>8
<1>3. /\ pc \in [Threads -> Stages] /\ outcome \in [Threads -> Outcomes]
      /\ order \in [Threads -> Nat] /\ DOMAIN req = Threads /\ next_order \in Nat
      /\ dirty \in BOOLEAN
      /\ \A u \in Threads : pc[u] # "idle" => req[u] \in Requests
  BY DEF IInv, Types
<1>4. pc[t] # "done" /\ (pc[t] # "idle" => pc[t] \notin {"idle", "done"})
  BY <1>2
<1>5. phase \notin {"start", "load_error"} /\ (phase = "active" \/ ~ joined)
  BY <1>2, <1>4, UnderWay
<1>6. outcome[t] # "replayed" /\ outcome[t] # "recorded"
  BY <1>4 DEF IInv, TakenOnce, RecordedKept
<1>7. \A u \in Threads : u # t => /\ pc'[u] = pc[u] /\ outcome'[u] = outcome[u]
                                  /\ order'[u] = order[u] /\ req'[u] = req[u]
  BY <1>2, <1>3
<1>8. /\ pc[t] \notin {"order", "mirror", "done"}
      /\ pc'[t] \notin {"order", "mirror", "mark", "dirty"}
      /\ pc[t] = "mark" => ~ joined
  BY <1>2, <1>3, <1>5
<1>9. /\ outcome'[t] # "replayed"
      /\ outcome'[t] = "recorded" => /\ pc[t] = "dirty" /\ pc'[t] = "done"
                                     /\ dirty' = TRUE /\ order'[t] = order[t]
  BY <1>2, <1>3, <1>6
<1>10. dirty' = dirty \/ dirty' = TRUE
  BY <1>2
<1>11. \/ /\ next_order' = next_order /\ order'[t] = order[t]
          /\ pc'[t] \in {"live", "record"} => pc[t] = "live"
       \/ next_order' = next_order + 1 /\ order'[t] = next_order
  BY <1>2, <1>3
<1>12. Types'
  <2>1. pc' \in [Threads -> Stages]
    BY <1>2, <1>3 DEF Stages
  <2>2. outcome' \in [Threads -> Outcomes]
    BY <1>2, <1>3 DEF Outcomes
  <2>3. order' \in [Threads -> Nat] /\ next_order' \in Nat
    BY <1>2, <1>3
  <2>4. dirty' \in BOOLEAN
    BY <1>3, <1>10
  <2>5. DOMAIN req' = Threads
    BY <1>2, <1>3
  <2>6. \A u \in Threads : pc'[u] # "idle" => req'[u] \in Requests
    BY <1>2, <1>3
  <2>. QED  BY <1>1, <2>1, <2>2, <2>3, <2>4, <2>5, <2>6 DEF IInv, Types
<1>. QED  BY <1>1, <1>5, <1>7, <1>8, <1>9, <1>10, <1>11, <1>12, QuietThread

-----------------------------------------------------------------------------
(* Taking a match                                                          *)

(* What pick returns is a candidate, and unplayed unless played ones are   *)
(* allowed.                                                                *)
LEMMA Picked ==
    ASSUME NEW n \in Nat, NEW C \in SUBSET (1..n), NEW flags, DOMAIN flags = 1..n,
           \A i \in 1..n : flags[i] \in BOOLEAN,
           NEW allow, pick(C, flags, allow) # 0
    PROVE  /\ pick(C, flags, allow) \in C
           /\ ~ allow => flags[pick(C, flags, allow)] = FALSE
<1>. DEFINE fresh == {i \in C : ~ (i \in DOMAIN flags /\ flags[i])}
            p == pick(C, flags, allow)
<1>1. fresh \subseteq C /\ C \subseteq Nat
  OBVIOUS
<1>2. (p = Min(fresh) /\ fresh # {}) \/ (allow /\ p = Min(C) /\ C # {})
  BY DEF pick
<1>3. \A i \in fresh : flags[i] = FALSE
  OBVIOUS
<1>. HIDE DEF fresh, p
<1>4. CASE p = Min(fresh) /\ fresh # {}
  <2>1. p \in fresh
    BY <1>1, <1>4, MinIsLeast
  <2>. QED  BY <1>1, <1>3, <2>1 DEF p
<1>5. CASE allow /\ p = Min(C) /\ C # {}
  <2>1. p \in C
    BY <1>1, <1>5, MinIsLeast
  <2>. QED  BY <1>5, <2>1 DEF p
<1>. QED  BY <1>2, <1>4, <1>5

(* The match is an interaction of the cassette, and nobody took it when    *)
(* the session records.                                                    *)
LEMMA FoundFacts ==
    ASSUME IInv, NEW t \in Threads, Found(t) # 0
    PROVE  /\ Found(t) \in DOMAIN inner
           /\ normalizes => Found(t) \in DOMAIN mirror
           /\ can_record => ~ Taken(Found(t))
<1>. DEFINE f == Found(t)
<1>1. /\ DOMAIN inner = 1..Len(inner) /\ Len(inner) \in Nat
      /\ DOMAIN mirror = 1..Len(mirror) /\ Len(mirror) \in Nat
      /\ DOMAIN played = 1..Len(inner) /\ DOMAIN mirror_played = 1..Len(mirror)
      /\ \A i \in DOMAIN played : played[i] \in BOOLEAN
      /\ \A i \in DOMAIN mirror_played : mirror_played[i] \in BOOLEAN
  BY Domains DEF IInv
<1>2. CASE normalizes
  <2>. DEFINE C == Matching(Normalize[req[t]], mirror, MatchOn)
  <2>1. f = pick(C, mirror_played, ~ can_record)
    BY <1>2 DEF Found
  <2>2. C \in SUBSET (1..Len(mirror))
    BY <1>1 DEF Matching
  <2>. HIDE DEF C, f
  <2>3. pick(C, mirror_played, ~ can_record) # 0
    BY <2>1 DEF f
  <2>4. f \in C /\ (can_record => mirror_played[f] = FALSE)
    BY <1>1, <2>1, <2>2, <2>3, Picked
  <2>5. f \in DOMAIN mirror /\ f \in DOMAIN inner
    BY <1>1, <2>2, <2>4 DEF IInv, OrdersPaired
  <2>. QED  BY <1>2, <2>4, <2>5 DEF f, Taken
<1>3. CASE ~ normalizes
  <2>. DEFINE C == Matching(req[t], inner, MatchOn)
  <2>1. f = pick(C, played, ~ can_record)
    BY <1>3 DEF Found
  <2>2. C \in SUBSET (1..Len(inner))
    BY <1>1 DEF Matching
  <2>. HIDE DEF C, f
  <2>3. pick(C, played, ~ can_record) # 0
    BY <2>1 DEF f
  <2>4. f \in C /\ (can_record => played[f] = FALSE)
    BY <1>1, <2>1, <2>2, <2>3, Picked
  <2>5. f \in DOMAIN inner
    BY <1>1, <2>2, <2>4
  <2>. QED  BY <1>3, <2>4, <2>5 DEF f, Taken
<1>. QED  BY <1>2, <1>3

(* A thread takes the interaction i.                                       *)
LEMMA Takes ==
    ASSUME IInv, Types', NEW t \in Threads, NEW i,
           UNCHANGED <<mode, normalizes, joined, phase, save_order, due, replay_only,
                       dirty, inner, mirror, orders, next_order, lock, file, req, order>>,
           i \in DOMAIN inner, normalizes => i \in DOMAIN mirror, can_record => ~ Taken(i),
           pc[t] = "match", expected' = [expected EXCEPT ![t] = i],
           \A u \in Threads : u # t => /\ pc'[u] = pc[u] /\ outcome'[u] = outcome[u]
                                       /\ answer'[u] = answer[u],
           \/ /\ normalizes /\ played' = played
              /\ mirror_played' = [mirror_played EXCEPT ![i] = TRUE]
              /\ pc'[t] = "mark" /\ outcome'[t] = outcome[t]
           \/ /\ ~ normalizes /\ mirror_played' = mirror_played
              /\ played' = [played EXCEPT ![i] = TRUE]
              /\ \/ pc'[t] = "reserve" /\ outcome'[t] = outcome[t]
                 \/ pc'[t] = "done" /\ outcome'[t] = "replayed" /\ answer'[t] = inner[i].id
    PROVE  IInv'
<1>1. outcome[t] # "replayed" /\ outcome[t] # "recorded" /\ ~ Took(t)
  BY DEF IInv, TakenOnce, RecordedKept, Took
<1>2. can_record' <=> can_record
  BY DEF can_record
<1>3. phase \notin {"start", "load_error"} /\ (phase = "active" \/ ~ joined)
  BY UnderWay
<1>4. Quiescent'
  BY <1>3 DEF Quiescent
<1>5. LockHeld'
  <2>1. \A u \in Threads : (pc'[u] \in {"order", "mirror"}) <=> (pc[u] \in {"order", "mirror"})
    OBVIOUS
  <2>. QED  BY <2>1 DEF IInv, LockHeld
<1>6. OrdersPaired' /\ OldFile' /\ SaveSorted'
  <2>1. OrdersPaired'
    BY DEF IInv, OrdersPaired, normalized_copy
  <2>2. OldFile'
    BY DEF IInv, OldFile
  <2>3. SaveSorted'
    BY DEF IInv, SaveSorted, InSentOrder, Seen
  <2>. QED  BY <2>1, <2>2, <2>3
<1>7. InHand'
  <2>1. \A u \in Threads : pc'[u] \in {"order", "mirror"} => pc[u] = pc'[u]
    OBVIOUS
  <2>2. normalizes => played' = played
    OBVIOUS
  <2>. QED  BY <1>2, <2>1, <2>2 DEF IInv, InHand, Recording
<1>8. IdsOwned'
  <2>1. \A u \in Threads : pc'[u] \in {"live", "record"} => pc[u] = pc'[u]
    OBVIOUS
  <2>. QED  BY <2>1 DEF IInv, IdsOwned, Ids
<1>9. /\ DOMAIN played = DOMAIN inner /\ DOMAIN mirror_played = DOMAIN mirror
      /\ DOMAIN expected = Threads
  BY Domains DEF IInv, Types
<1>10. /\ \A j \in DOMAIN inner : played[j] = TRUE => played'[j] = TRUE
       /\ \A j \in DOMAIN mirror : mirror_played[j] = TRUE => mirror_played'[j] = TRUE
       /\ IF normalizes THEN mirror_played'[i] = TRUE ELSE played'[i] = TRUE
  BY <1>9
<1>11. expected'[t] = i /\ \A u \in Threads : u # t => expected'[u] = expected[u]
  BY <1>9
<1>12. can_record => inner[i].id < 0
  <2>1. inner[i].id \in Int
    BY Domains DEF IInv
  <2>2. can_record => ~ (inner[i].id >= 0)
    BY DEF IInv, TakenOnce, Taken
  <2>. QED  BY <2>1, <2>2
<1>13. \A u \in Threads : u # t => (Took(u)' <=> Took(u))
  BY DEF Took
<1>14. ASSUME NEW u \in Threads, u # t, Took(u)
       PROVE  /\ expected[u] \in DOMAIN inner
              /\ normalizes => expected[u] \in DOMAIN mirror
              /\ outcome[u] = "replayed" => answer[u] = inner[expected[u]].id
              /\ pc[u] = "mark" => normalizes /\ mirror_played[expected[u]] = TRUE
              /\ can_record => inner[expected[u]].id < 0 /\ Taken(expected[u])
  BY <1>14 DEF IInv, TakenOnce
<1>15. TakenOnce'
  <2>1. \A u \in Threads : outcome'[u] = "replayed" => pc'[u] = "done"
    BY <1>1 DEF IInv, TakenOnce
  <2>2. ASSUME NEW u \in Threads, Took(u)'
        PROVE  /\ expected'[u] \in DOMAIN inner
               /\ normalizes => expected'[u] \in DOMAIN mirror
               /\ outcome'[u] = "replayed" => answer'[u] = inner[expected'[u]].id
               /\ pc'[u] = "mark" => normalizes /\ mirror_played'[expected'[u]] = TRUE
               /\ can_record => /\ inner[expected'[u]].id < 0
                                /\ IF normalizes THEN mirror_played'[expected'[u]] = TRUE
                                   ELSE played'[expected'[u]] = TRUE
    <3>1. CASE u = t
      BY <1>1, <1>10, <1>11, <1>12, <3>1
    <3>2. CASE u # t
      <4>1. Took(u) /\ expected'[u] = expected[u]
        BY <1>11, <1>13, <2>2, <3>2
      <4>. QED  BY <1>10, <1>14, <3>2, <4>1 DEF Taken
    <3>. QED  BY <3>1, <3>2
  <2>3. ASSUME can_record, NEW u \in Threads, NEW v \in Threads, u # v, Took(u)', Took(v)'
        PROVE  expected'[u] # expected'[v]
    <3>1. CASE u = t
      <4>1. Took(v) /\ expected'[v] = expected[v] /\ Taken(expected[v])
        BY <1>11, <1>13, <1>14, <2>3, <3>1
      <4>. QED  BY <1>11, <2>3, <3>1, <4>1
    <3>2. CASE v = t
      <4>1. Took(u) /\ expected'[u] = expected[u] /\ Taken(expected[u])
        BY <1>11, <1>13, <1>14, <2>3, <3>2
      <4>. QED  BY <1>11, <2>3, <3>2, <4>1
    <3>3. CASE u # t /\ v # t
      <4>1. Took(u) /\ expected'[u] = expected[u] /\ Took(v) /\ expected'[v] = expected[v]
        BY <1>11, <1>13, <2>3, <3>3
      <4>. QED  BY <2>3, <4>1 DEF IInv, TakenOnce
    <3>. QED  BY <3>1, <3>2, <3>3
  <2>4. can_record => \A j \in DOMAIN inner : inner[j].id >= 0 =>
             /\ played'[j] = TRUE
             /\ j \in DOMAIN mirror => mirror_played'[j] = TRUE
    BY <1>10 DEF IInv, TakenOnce
  <2>. QED  BY <1>2, <2>1, <2>2, <2>3, <2>4 DEF TakenOnce, Taken
<1>16. Synced'
  <2>1. ASSUME joined, normalizes, NEW j \in DOMAIN mirror
        PROVE  \/ played'[j] = mirror_played'[j]
               \/ \E u \in Threads : pc'[u] = "mark" /\ expected'[u] = j
    <3>1. pc'[t] = "mark" /\ played' = played
            /\ mirror_played' = [mirror_played EXCEPT ![i] = TRUE]
      BY <2>1
    <3>2. CASE j = i
      BY <1>11, <3>1, <3>2
    <3>3. CASE j # i
      <4>1. mirror_played'[j] = mirror_played[j]
        BY <1>9, <3>1, <3>3
      <4>2. CASE played[j] = mirror_played[j]
        BY <3>1, <4>1, <4>2
      <4>3. ASSUME NEW u \in Threads, pc[u] = "mark", expected[u] = j
            PROVE  pc'[u] = "mark" /\ expected'[u] = j
        BY <1>11, <4>3
      <4>. QED  BY <2>1, <4>2, <4>3 DEF IInv, Synced
    <3>. QED  BY <3>2, <3>3
  <2>. QED  BY <2>1 DEF Synced
<1>17. RecordedKept'
  <2>1. \A u \in Threads : /\ pc'[u] \in {"order", "mirror", "dirty"} => pc[u] = pc'[u]
                           /\ outcome'[u] = "recorded" => outcome[u] = "recorded" /\ pc'[u] = pc[u]
    BY <1>1
  <2>. QED  BY <2>1 DEF IInv, RecordedKept, Ids
<1>. QED  BY <1>4, <1>5, <1>6, <1>7, <1>8, <1>15, <1>16, <1>17 DEF IInv

LEMMA MatchStep ==
    ASSUME IInv, NEW t \in Threads, MatchInner(t) \/ MatchMirror(t)
    PROVE  IInv'
<1>. DEFINE i == Found(t)
<1>1. /\ i \in DOMAIN inner
      /\ normalizes => i \in DOMAIN mirror
      /\ can_record => ~ Taken(i)
  BY FoundFacts DEF MatchInner, MatchMirror
<1>2. /\ UNCHANGED <<mode, normalizes, joined, phase, save_order, due, replay_only, dirty,
                     inner, mirror, orders, next_order, lock, file, req, order>>
      /\ pc[t] = "match" /\ expected' = [expected EXCEPT ![t] = i]
  BY DEF MatchInner, MatchMirror, options, block, state, numbers, disk
<1>3. \/ /\ normalizes /\ played' = played
         /\ mirror_played' = [mirror_played EXCEPT ![i] = TRUE]
         /\ pc' = [pc EXCEPT ![t] = "mark"] /\ outcome' = outcome /\ answer' = answer
      \/ /\ ~ normalizes /\ mirror_played' = mirror_played
         /\ played' = [played EXCEPT ![i] = TRUE]
         /\ answer' = [answer EXCEPT ![t] = inner[i].id]
         /\ \/ pc' = [pc EXCEPT ![t] = "reserve"] /\ outcome' = outcome
            \/ /\ pc' = [pc EXCEPT ![t] = "done"]
               /\ outcome' = [outcome EXCEPT ![t] = "replayed"]
  <2>1. CASE MatchInner(t)
    BY <2>1 DEF MatchInner, Matched, Return
  <2>2. CASE MatchMirror(t)
    BY <2>2 DEF MatchMirror
  <2>. QED  BY <2>1, <2>2
<1>4. inner[i].id \in Int /\ i \in Nat
  BY <1>1, Domains DEF IInv
<1>. HIDE DEF i
<1>5. /\ pc \in [Threads -> Stages] /\ outcome \in [Threads -> Outcomes]
      /\ answer \in [Threads -> Int] /\ expected \in [Threads -> Nat]
      /\ played \in Seq(BOOLEAN) /\ Len(played) = Len(inner)
      /\ mirror_played \in Seq(BOOLEAN) /\ Len(mirror_played) = Len(mirror)
  BY DEF IInv, Types
<1>6. Types'
  <2>1. pc' \in [Threads -> Stages]
    BY <1>3, <1>5 DEF Stages
  <2>2. outcome' \in [Threads -> Outcomes]
    BY <1>3, <1>5 DEF Outcomes
  <2>3. answer' \in [Threads -> Int] /\ expected' \in [Threads -> Nat]
    BY <1>2, <1>3, <1>4, <1>5
  <2>4. played' \in Seq(BOOLEAN) /\ Len(played') = Len(inner)
    <3>1. CASE played' = played
      BY <1>5, <3>1
    <3>2. CASE played' = [played EXCEPT ![i] = TRUE]
      BY <1>5, <3>2, SetFlag
    <3>. QED  BY <1>3, <3>1, <3>2
  <2>5. mirror_played' \in Seq(BOOLEAN) /\ Len(mirror_played') = Len(mirror)
    <3>1. CASE mirror_played' = mirror_played
      BY <1>5, <3>1
    <3>2. CASE mirror_played' = [mirror_played EXCEPT ![i] = TRUE]
      BY <1>5, <3>2, SetFlag
    <3>. QED  BY <1>3, <3>1, <3>2
  <2>6. \A u \in Threads : pc'[u] # "idle" => req[u] \in Requests
    BY <1>2, <1>3, <1>5 DEF IInv, Types
  <2>. QED  BY <1>2, <2>1, <2>2, <2>3, <2>4, <2>5, <2>6 DEF IInv, Types
<1>7. \A u \in Threads : u # t => /\ pc'[u] = pc[u] /\ outcome'[u] = outcome[u]
                                  /\ answer'[u] = answer[u]
  BY <1>3, <1>5
<1>8. \/ /\ normalizes /\ played' = played
         /\ mirror_played' = [mirror_played EXCEPT ![i] = TRUE]
         /\ pc'[t] = "mark" /\ outcome'[t] = outcome[t]
      \/ /\ ~ normalizes /\ mirror_played' = mirror_played
         /\ played' = [played EXCEPT ![i] = TRUE]
         /\ \/ pc'[t] = "reserve" /\ outcome'[t] = outcome[t]
            \/ pc'[t] = "done" /\ outcome'[t] = "replayed" /\ answer'[t] = inner[i].id
  BY <1>3, <1>5
<1>. QED  BY <1>1, <1>2, <1>6, <1>7, <1>8, Takes

(* mark_played on the cassette, after the mirror.                          *)
LEMMA MarkStep ==
    ASSUME IInv, NEW t \in Threads, MarkPlayed(t)
    PROVE  IInv'
<1>. DEFINE i == expected[t]
<1>1. /\ UNCHANGED <<mode, normalizes, joined, phase, save_order, due, replay_only, dirty,
                     inner, mirror, mirror_played, orders, next_order, lock, file, req,
                     order, expected>>
      /\ pc[t] = "mark" /\ played' = [played EXCEPT ![i] = TRUE]
      /\ answer' = [answer EXCEPT ![t] = inner[i].id]
      /\ \/ pc' = [pc EXCEPT ![t] = "reserve"] /\ outcome' = outcome
         \/ /\ pc' = [pc EXCEPT ![t] = "done"]
            /\ outcome' = [outcome EXCEPT ![t] = "replayed"]
  BY DEF MarkPlayed, Matched, Return, options, block, state, numbers, disk
<1>2. /\ normalizes /\ i \in DOMAIN inner /\ i \in DOMAIN mirror
      /\ mirror_played[i] = TRUE
  BY <1>1 DEF IInv, TakenOnce, Took
<1>3. /\ DOMAIN inner = 1..Len(inner) /\ Len(inner) \in Nat
      /\ DOMAIN mirror = 1..Len(mirror) /\ Len(mirror) \in Nat
      /\ DOMAIN played = DOMAIN inner /\ inner[i].id \in Int
  BY <1>2, Domains DEF IInv
<1>4. /\ pc \in [Threads -> Stages] /\ outcome \in [Threads -> Outcomes]
      /\ answer \in [Threads -> Int]
      /\ played \in Seq(BOOLEAN) /\ Len(played) = Len(inner)
  BY DEF IInv, Types
<1>. HIDE DEF i
<1>5. Types'
  <2>1. pc' \in [Threads -> Stages]
    BY <1>1, <1>4 DEF Stages
  <2>2. outcome' \in [Threads -> Outcomes]
    BY <1>1, <1>4 DEF Outcomes
  <2>3. answer' \in [Threads -> Int]
    BY <1>1, <1>3, <1>4
  <2>4. played' \in Seq(BOOLEAN) /\ Len(played') = Len(inner)
    BY <1>1, <1>4, SetFlag
  <2>5. \A u \in Threads : pc'[u] # "idle" => req[u] \in Requests
    BY <1>1, <1>4 DEF IInv, Types
  <2>. QED  BY <1>1, <2>1, <2>2, <2>3, <2>4, <2>5 DEF IInv, Types
<1>6. outcome[t] # "replayed" /\ outcome[t] # "recorded" /\ Took(t)
  BY <1>1 DEF IInv, TakenOnce, RecordedKept, Took
<1>7. can_record' <=> can_record
  BY <1>1 DEF can_record
<1>8. phase \notin {"start", "load_error"} /\ (phase = "active" \/ ~ joined)
  BY <1>1, UnderWay
<1>9. /\ \A u \in Threads : u # t => /\ pc'[u] = pc[u] /\ outcome'[u] = outcome[u]
                                     /\ answer'[u] = answer[u]
      /\ pc'[t] \in {"reserve", "done"} /\ answer'[t] = inner[i].id
      /\ outcome'[t] = "replayed" => pc'[t] = "done"
      /\ outcome'[t] # "recorded"
  BY <1>1, <1>4, <1>6
<1>10. /\ played'[i] = TRUE /\ \A j \in DOMAIN inner : j # i => played'[j] = played[j]
  BY <1>1, <1>2, <1>3
<1>11. Quiescent'
  BY <1>1, <1>8 DEF Quiescent
<1>12. LockHeld'
  <2>1. \A u \in Threads : (pc'[u] \in {"order", "mirror"}) <=> (pc[u] \in {"order", "mirror"})
    BY <1>1, <1>9
  <2>. QED  BY <1>1, <2>1 DEF IInv, LockHeld
<1>13. OrdersPaired' /\ OldFile' /\ SaveSorted'
  <2>1. OrdersPaired'
    BY <1>1 DEF IInv, OrdersPaired, normalized_copy
  <2>2. OldFile'
    BY <1>1 DEF IInv, OldFile
  <2>3. SaveSorted'
    BY <1>1 DEF IInv, SaveSorted, InSentOrder, Seen
  <2>. QED  BY <2>1, <2>2, <2>3
<1>14. InHand'
  <2>1. SUFFICES ASSUME NEW u \in Threads, pc'[u] \in {"order", "mirror"}
                 PROVE  /\ pc'[u] = "order" => Len(inner) = Len(orders) + 1
                        /\ pc'[u] = "mirror" => Len(inner) = Len(orders)
                        /\ Len(inner) > 0 /\ inner[Len(inner)] = Recording(u)
                        /\ Len(inner) = Len(mirror) + 1
                        /\ (played'[Len(inner)] = TRUE) <=> can_record
    BY <1>1, <1>2, <1>7 DEF IInv, InHand, Recording
  <2>2. u # t /\ pc[u] = pc'[u]
    BY <1>1, <1>9, <2>1
  <2>3. /\ pc[u] = "order" => Len(inner) = Len(orders) + 1
        /\ pc[u] = "mirror" => Len(inner) = Len(orders)
        /\ Len(inner) > 0 /\ inner[Len(inner)] = Recording(u)
        /\ Len(inner) = Len(mirror) + 1
        /\ (played[Len(inner)] = TRUE) <=> can_record
    BY <1>2, <2>1, <2>2 DEF IInv, InHand
  <2>4. Len(inner) # i /\ Len(inner) \in DOMAIN inner
    BY <1>2, <1>3, <2>3
  <2>. QED  BY <1>10, <2>2, <2>3, <2>4
<1>15. IdsOwned'
  <2>1. \A u \in Threads : pc'[u] \in {"live", "record"} => pc[u] = pc'[u]
    BY <1>9
  <2>. QED  BY <1>1, <2>1 DEF IInv, IdsOwned, Ids
<1>16. TakenOnce'
  <2>1. \A u \in Threads : outcome'[u] = "replayed" => pc'[u] = "done"
    BY <1>9 DEF IInv, TakenOnce
  <2>2. \A u \in Threads : Took(u)' => Took(u)
    BY <1>6, <1>9 DEF Took
  <2>3. ASSUME NEW u \in Threads, Took(u)'
        PROVE  /\ expected[u] \in DOMAIN inner
               /\ normalizes => expected[u] \in DOMAIN mirror
               /\ outcome'[u] = "replayed" => answer'[u] = inner[expected[u]].id
               /\ pc'[u] = "mark" => normalizes /\ mirror_played[expected[u]] = TRUE
               /\ can_record => /\ inner[expected[u]].id < 0
                                /\ mirror_played[expected[u]] = TRUE
    <3>1. /\ expected[u] \in DOMAIN inner
          /\ normalizes => expected[u] \in DOMAIN mirror
          /\ outcome[u] = "replayed" => answer[u] = inner[expected[u]].id
          /\ pc[u] = "mark" => normalizes /\ mirror_played[expected[u]] = TRUE
          /\ can_record => inner[expected[u]].id < 0 /\ mirror_played[expected[u]] = TRUE
      BY <1>2, <2>2, <2>3 DEF IInv, TakenOnce, Taken
    <3>2. CASE u = t
      BY <1>2, <1>9, <3>1, <3>2 DEF i
    <3>3. CASE u # t
      BY <1>9, <3>1, <3>3
    <3>. QED  BY <3>2, <3>3
  <2>4. can_record => \A u, v \in Threads :
           u # v /\ Took(u)' /\ Took(v)' => expected[u] # expected[v]
    BY <2>2 DEF IInv, TakenOnce
  <2>5. can_record => \A j \in DOMAIN inner : inner[j].id >= 0 =>
             /\ played'[j] = TRUE
             /\ j \in DOMAIN mirror => mirror_played[j] = TRUE
    BY <1>10 DEF IInv, TakenOnce
  <2>. QED  BY <1>1, <1>2, <1>7, <2>1, <2>3, <2>4, <2>5 DEF TakenOnce, Taken
<1>17. Synced'
  <2>1. ASSUME joined, NEW j \in DOMAIN mirror
        PROVE  \/ played'[j] = mirror_played[j]
               \/ \E u \in Threads : pc'[u] = "mark" /\ expected[u] = j
    <3>1. CASE j = i
      BY <1>2, <1>10, <3>1
    <3>2. CASE j # i
      <4>1. j \in DOMAIN inner
        BY DEF IInv, OrdersPaired
      <4>2. \A u \in Threads : pc[u] = "mark" /\ expected[u] = j => pc'[u] = "mark"
        BY <1>9, <3>2 DEF i
      <4>. QED  BY <1>2, <1>10, <2>1, <3>2, <4>1, <4>2 DEF IInv, Synced
    <3>. QED  BY <3>1, <3>2
  <2>. QED  BY <1>1, <2>1 DEF Synced
<1>18. RecordedKept'
  <2>1. \A u \in Threads : /\ pc'[u] \in {"order", "mirror", "dirty"} => pc[u] = pc'[u]
                           /\ outcome'[u] = "recorded" => outcome[u] = "recorded" /\ pc'[u] = pc[u]
    BY <1>9
  <2>. QED  BY <1>1, <2>1 DEF IInv, RecordedKept, Ids
<1>. QED  BY <1>5, <1>11, <1>12, <1>13, <1>14, <1>15, <1>16, <1>17, <1>18 DEF IInv

-----------------------------------------------------------------------------
(* Cassette.record                                                         *)

LEMMA Appended ==
    ASSUME NEW S, NEW s \in Seq(S), NEW e \in S
    PROVE  /\ Append(s, e) \in Seq(S) /\ Len(Append(s, e)) = Len(s) + 1
           /\ DOMAIN Append(s, e) = 1..(Len(s) + 1)
           /\ \A i \in 1..Len(s) : Append(s, e)[i] = s[i]
           /\ Append(s, e)[Len(s) + 1] = e
  OBVIOUS

(* The same for the played flags.                                          *)
LEMMA AppendedFlag ==
    ASSUME NEW s \in Seq(BOOLEAN), NEW b \in BOOLEAN
    PROVE  /\ Append(s, b) \in Seq(BOOLEAN) /\ Len(Append(s, b)) = Len(s) + 1
           /\ \A i \in 1..Len(s) : Append(s, b)[i] = s[i]
           /\ Append(s, b)[Len(s) + 1] = b
<1>. DEFINE B == BOOLEAN
<1>1. s \in Seq(B) /\ b \in B
  OBVIOUS
<1>. HIDE DEF B
<1>2. /\ Append(s, b) \in Seq(B) /\ Len(Append(s, b)) = Len(s) + 1
      /\ \A i \in 1..Len(s) : Append(s, b)[i] = s[i]
      /\ Append(s, b)[Len(s) + 1] = b
  BY <1>1, Appended
<1>. QED  BY <1>2 DEF B

(* A recording is an interaction.                                          *)
LEMMA RecordingFacts ==
    ASSUME IInv, NEW t \in Threads, pc[t] # "idle"
    PROVE  /\ Recording(t) \in Interaction /\ Recording(t).id = order[t]
           /\ order[t] \in Nat
<1>1. req[t] \in Requests /\ order[t] \in Nat
  BY DEF IInv, Types
<1>2. PICK r \in Requests : r = req[t]
  BY <1>1
<1>3. PICK o \in Nat : o = order[t]
  BY <1>1
<1>4. o \in Int
  OBVIOUS
<1>5. Recording(t) = [req |-> r, id |-> o]
  BY <1>2, <1>3 DEF Recording
<1>. QED  BY <1>3, <1>4, <1>5 DEF Interaction

LEMMA CanRecordBoolean == can_record \in BOOLEAN
  BY DEF can_record

(* add_interaction, which takes the record lock.                           *)
LEMMA AddInteractionStep ==
    ASSUME IInv, NEW t \in Threads, AddInteraction(t)
    PROVE  IInv'
<1>. DEFINE x == Recording(t)
            n == Len(inner)
            c == can_record
<1>1. /\ pc[t] = "record" /\ lock = NoThread /\ phase # "writing"
      /\ inner' = Append(inner, x) /\ played' = Append(played, c)
      /\ lock' = t /\ pc' = [pc EXCEPT ![t] = "order"]
      /\ UNCHANGED <<mode, normalizes, joined, phase, save_order, due, replay_only, dirty,
                     mirror, mirror_played, orders, next_order, file, req, order,
                     expected, outcome, answer>>
  BY DEF AddInteraction, Borrowed, options, block, state, numbers, disk
<1>2. x \in Interaction /\ x.id = order[t] /\ order[t] \in Nat
  BY <1>1, RecordingFacts
<1>3. c \in BOOLEAN /\ (can_record' <=> can_record)
  BY <1>1, CanRecordBoolean DEF can_record
<1>4. /\ DOMAIN inner = 1..n /\ n \in Nat
      /\ DOMAIN mirror = 1..Len(mirror) /\ Len(mirror) \in Nat
      /\ DOMAIN orders = 1..Len(orders) /\ Len(orders) \in Nat
      /\ \A i \in DOMAIN inner : inner[i].id \in Int
  BY Domains DEF IInv
<1>5. /\ inner \in Seq(Interaction) /\ played \in Seq(BOOLEAN) /\ Len(played) = n
      /\ pc \in [Threads -> Stages] /\ next_order \in Nat
  BY DEF IInv, Types
<1>. HIDE DEF x, c
<1>6. /\ inner' \in Seq(Interaction) /\ Len(inner') = n + 1 /\ DOMAIN inner' = 1..(n + 1)
      /\ \A i \in 1..n : inner'[i] = inner[i]
      /\ inner'[n + 1] = x
  <2>. DEFINE I == Interaction
  <2>1. inner \in Seq(I) /\ x \in I
    BY <1>2, <1>5
  <2>. HIDE DEF I, n
  <2>2. /\ inner' \in Seq(I) /\ Len(inner') = Len(inner) + 1
        /\ DOMAIN inner' = 1..(Len(inner) + 1)
        /\ \A i \in 1..Len(inner) : inner'[i] = inner[i]
        /\ inner'[Len(inner) + 1] = x
    BY <1>1, <2>1, Appended
  <2>. QED  BY <2>2 DEF I, n
<1>7. /\ played' \in Seq(BOOLEAN) /\ Len(played') = n + 1
      /\ \A i \in 1..n : played'[i] = played[i]
      /\ played'[n + 1] = c
  BY <1>1, <1>3, <1>5, AppendedFlag
<1>8. \A u \in Threads : u # t => pc'[u] = pc[u]
  BY <1>1, <1>5
<1>9. pc'[t] = "order"
  BY <1>1, <1>5
<1>10. phase \notin {"start", "load_error"} /\ (phase = "active" \/ ~ joined)
  BY <1>1, UnderWay
<1>11. \A u \in Threads : pc[u] \notin {"order", "mirror"}
  BY <1>1, PySessionAssumption DEF IInv, LockHeld
<1>. HIDE DEF n
<1>12. Types'
  <2>1. pc' \in [Threads -> Stages]
    BY <1>1, <1>5 DEF Stages
  <2>2. \A u \in Threads : pc'[u] # "idle" => req[u] \in Requests
    BY <1>1, <1>8 DEF IInv, Types
  <2>3. lock' \in Threads \cup {NoThread}
    BY <1>1
  <2>. QED  BY <1>1, <1>6, <1>7, <2>1, <2>2, <2>3 DEF IInv, Types
<1>13. Quiescent'
  BY <1>1, <1>10 DEF Quiescent
<1>14. LockHeld'
  BY <1>1, <1>8, <1>9, <1>11 DEF LockHeld
<1>15. Len(orders) = n /\ (normalizes => Len(mirror) = n)
  BY <1>1 DEF IInv, OrdersPaired, n
<1>16. OrdersPaired'
  <2>1. \A i \in DOMAIN orders : i \in DOMAIN inner' /\ (inner'[i].id >= 0 => orders[i] = inner'[i].id)
    <3>1. \A i \in DOMAIN orders : i \in 1..n /\ (inner[i].id >= 0 => orders[i] = inner[i].id)
      BY <1>4 DEF IInv, OrdersPaired
    <3>. QED  BY <1>4, <1>6, <3>1
  <2>2. \A i \in DOMAIN mirror : i \in DOMAIN inner' /\ mirror[i] = normalized_copy(inner'[i])
    <3>1. \A i \in DOMAIN mirror : i \in 1..n /\ mirror[i] = normalized_copy(inner[i])
      BY <1>4 DEF IInv, OrdersPaired
    <3>. QED  BY <1>4, <1>6, <3>1
  <2>3. lock' # NoThread
    BY <1>1, PySessionAssumption
  <2>. QED  BY <1>1, <2>1, <2>2, <2>3 DEF OrdersPaired, normalized_copy
<1>17. InHand'
  <2>1. \A u \in Threads : pc'[u] \in {"order", "mirror"} => u = t
    BY <1>8, <1>11
  <2>2. Recording(t)' = x
    BY <1>1 DEF Recording, x
  <2>3. /\ Len(inner') = Len(orders) + 1 /\ Len(inner') > 0
        /\ inner'[Len(inner')] = x
        /\ normalizes => Len(inner') = Len(mirror) + 1
        /\ (played'[Len(inner')] = TRUE) <=> can_record
    BY <1>3, <1>4, <1>6, <1>7, <1>15 DEF c
  <2>4. ~ normalizes => mirror = <<>>
    BY DEF IInv, InHand
  <2>. QED  BY <1>1, <1>3, <1>9, <2>1, <2>2, <2>3, <2>4 DEF InHand
<1>18. /\ order[t] < next_order /\ order[t] \notin Ids(inner)
       /\ \A u \in Threads : u # t /\ pc[u] \in {"live", "record"} => order[u] # order[t]
  BY <1>1 DEF IInv, IdsOwned
<1>19. Ids(inner') = Ids(inner) \cup {order[t]}
  <2>1. \A i \in 1..(n + 1) : i \in 1..n \/ i = n + 1
    BY <1>4
  <2>2. \A i \in 1..n : i \in 1..(n + 1)
    BY <1>4
  <2>3. n + 1 \in 1..(n + 1)
    BY <1>4
  <2>4. \A y \in Ids(inner') : y \in Ids(inner) \cup {order[t]}
    BY <1>2, <1>4, <1>6, <2>1 DEF Ids
  <2>5. \A y \in Ids(inner) : y \in Ids(inner')
    BY <1>4, <1>6, <2>2 DEF Ids
  <2>6. order[t] \in Ids(inner')
    BY <1>2, <1>6, <2>3 DEF Ids
  <2>. QED  BY <2>4, <2>5, <2>6
<1>20. IdsOwned'
  <2>1. \A i \in 1..(n + 1) : inner'[i].id < next_order
    BY <1>2, <1>4, <1>6, <1>18 DEF IInv, IdsOwned
  <2>2. ASSUME NEW i \in 1..(n + 1), NEW j \in 1..(n + 1), i # j
        PROVE  inner'[i].id # inner'[j].id
    <3>1. \A k \in 1..n : inner[k].id \in Ids(inner)
      BY <1>4 DEF Ids
    <3>2. CASE i \in 1..n /\ j \in 1..n
      BY <1>4, <1>6, <2>2, <3>2 DEF IInv, IdsOwned
    <3>3. CASE i = n + 1 /\ j \in 1..n
      BY <1>2, <1>6, <1>18, <3>1, <3>3
    <3>4. CASE j = n + 1 /\ i \in 1..n
      BY <1>2, <1>6, <1>18, <3>1, <3>4
    <3>5. \A k \in 1..(n + 1) : k \in 1..n \/ k = n + 1
      BY <1>4
    <3>. QED  BY <2>2, <3>2, <3>3, <3>4, <3>5
  <2>3. ASSUME NEW u \in Threads, pc'[u] \in {"live", "record"}
        PROVE  /\ order[u] < next_order /\ order[u] \notin Ids(inner')
               /\ \A v \in Threads : v # u /\ pc'[v] \in {"live", "record"}
                                        => order[v] # order[u]
    <3>1. \A v \in Threads : pc'[v] \in {"live", "record"} => v # t /\ pc[v] \in {"live", "record"}
      BY <1>8, <1>9
    <3>2. u # t /\ pc[u] \in {"live", "record"}
      BY <2>3, <3>1
    <3>3. order[u] < next_order /\ order[u] \notin Ids(inner)
      BY <3>2 DEF IInv, IdsOwned
    <3>4. order[u] \notin Ids(inner')
      BY <1>18, <1>19, <3>2, <3>3
    <3>. QED  BY <3>1, <3>2, <3>3, <3>4 DEF IInv, IdsOwned
  <2>4. Ids(inner)' = Ids(inner')
    BY DEF Ids
  <2>. QED  BY <1>1, <1>6, <2>1, <2>2, <2>3, <2>4 DEF IdsOwned
<1>21. OldFile'
  BY <1>1, <1>10 DEF OldFile
<1>22. TakenOnce'
  <2>1. \A u \in Threads : Took(u)' => Took(u)
    BY <1>1, <1>8, <1>9 DEF Took
  <2>2. \A u \in Threads : outcome[u] = "replayed" => pc'[u] = "done"
    <3>1. \A u \in Threads : outcome[u] = "replayed" => pc[u] = "done"
      BY DEF IInv, TakenOnce
    <3>. QED  BY <1>1, <1>8, <3>1
  <2>3. ASSUME NEW u \in Threads, Took(u)'
        PROVE  /\ expected[u] \in DOMAIN inner'
               /\ normalizes => expected[u] \in DOMAIN mirror
               /\ outcome[u] = "replayed" => answer[u] = inner'[expected[u]].id
               /\ pc'[u] = "mark" => normalizes /\ mirror_played[expected[u]] = TRUE
               /\ can_record => /\ inner'[expected[u]].id < 0
                                /\ IF normalizes THEN mirror_played[expected[u]] = TRUE
                                   ELSE played'[expected[u]] = TRUE
    <3>1. /\ expected[u] \in 1..n
          /\ normalizes => expected[u] \in DOMAIN mirror
          /\ outcome[u] = "replayed" => answer[u] = inner[expected[u]].id
          /\ pc[u] = "mark" => normalizes /\ mirror_played[expected[u]] = TRUE
          /\ can_record => inner[expected[u]].id < 0 /\ Taken(expected[u])
      BY <1>4, <2>1, <2>3 DEF IInv, TakenOnce
    <3>2. inner'[expected[u]] = inner[expected[u]] /\ played'[expected[u]] = played[expected[u]]
            /\ expected[u] \in DOMAIN inner'
      BY <1>4, <1>6, <1>7, <3>1
    <3>3. pc'[u] = "mark" => pc[u] = "mark"
      BY <1>8, <1>9
    <3>. QED  BY <3>1, <3>2, <3>3 DEF Taken
  <2>4. can_record => \A u, v \in Threads :
           u # v /\ Took(u)' /\ Took(v)' => expected[u] # expected[v]
    BY <2>1 DEF IInv, TakenOnce
  <2>5. ASSUME can_record, NEW j \in DOMAIN inner', inner'[j].id >= 0
        PROVE  /\ played'[j] = TRUE
               /\ j \in DOMAIN mirror => mirror_played[j] = TRUE
    <3>1. CASE j \in 1..n
      BY <1>4, <1>6, <1>7, <2>5, <3>1 DEF IInv, TakenOnce
    <3>2. CASE j = n + 1
      <4>1. played'[j] = TRUE
        BY <1>3, <1>7, <2>5, <3>2 DEF c
      <4>2. j \notin DOMAIN mirror
        <5>1. \A i \in DOMAIN mirror : i \in 1..n
          BY <1>4 DEF IInv, OrdersPaired
        <5>. QED  BY <1>4, <3>2, <5>1
      <4>. QED  BY <4>1, <4>2
    <3>3. j \in 1..n \/ j = n + 1
      BY <1>4, <1>6, <2>5
    <3>. QED  BY <3>1, <3>2, <3>3
  <2>. QED  BY <1>1, <1>3, <2>2, <2>3, <2>4, <2>5 DEF TakenOnce, Taken
<1>23. Synced'
  <2>1. \A i \in DOMAIN mirror : i \in 1..n
    BY <1>4 DEF IInv, OrdersPaired
  <2>2. \A u \in Threads : pc[u] = "mark" => pc'[u] = "mark"
    BY <1>1, <1>8
  <2>. QED  BY <1>1, <1>7, <2>1, <2>2 DEF IInv, Synced
<1>24. RecordedKept'
  <2>1. ASSUME NEW u \in Threads,
               pc'[u] \in {"order", "mirror", "dirty"} \/ outcome[u] = "recorded"
        PROVE  order[u] \in Ids(inner')
    <3>1. CASE u = t
      BY <1>19, <3>1
    <3>2. CASE u # t
      BY <1>8, <1>19, <2>1, <3>2 DEF IInv, RecordedKept
    <3>. QED  BY <3>1, <3>2
  <2>2. \A u \in Threads : outcome[u] = "recorded" => pc'[u] = "done" /\ (phase # "closed" => dirty)
    <3>1. \A u \in Threads : outcome[u] = "recorded" => pc[u] = "done" /\ (phase # "closed" => dirty)
      BY DEF IInv, RecordedKept
    <3>. QED  BY <1>1, <1>8, <3>1
  <2>3. due \subseteq Ids(inner')
    BY <1>19 DEF IInv, RecordedKept
  <2>4. Ids(inner)' = Ids(inner') /\ Ids(file)' = Ids(file)
    BY <1>1 DEF Ids
  <2>. QED  BY <1>1, <2>1, <2>2, <2>3, <2>4 DEF IInv, RecordedKept
<1>25. SaveSorted'
  <2>1. joined /\ UniformSpelling => InSentOrder
    BY DEF IInv, SaveSorted
  <2>. QED  BY <1>1, <1>10, <2>1 DEF SaveSorted, InSentOrder, Seen
<1>. QED  BY <1>12, <1>13, <1>14, <1>16, <1>17, <1>20, <1>21, <1>22, <1>23, <1>24, <1>25 DEF IInv

(* _record_orders.append, under the lock.                                  *)
LEMMA AppendOrderStep ==
    ASSUME IInv, NEW t \in Threads, AppendOrder(t)
    PROVE  IInv'
<1>. DEFINE n == Len(orders)
            o == order[t]
<1>1. /\ pc[t] = "order" /\ orders' = Append(orders, o)
      /\ pc' = [pc EXCEPT ![t] = "mirror"]
      /\ UNCHANGED <<mode, normalizes, joined, phase, save_order, due, replay_only, dirty,
                     inner, played, mirror, mirror_played, next_order, lock, file, req,
                     order, expected, outcome, answer>>
  BY DEF AppendOrder, options, block, state, tapes, disk
<1>2. /\ orders \in Seq(Nat) /\ o \in Nat /\ pc \in [Threads -> Stages]
  BY DEF IInv, Types
<1>3. Recording(t).id = o
  BY <1>1, RecordingFacts
<1>4. /\ DOMAIN inner = 1..Len(inner) /\ DOMAIN orders = 1..n /\ n \in Nat
  BY Domains DEF IInv
<1>5. /\ Len(inner) = n + 1 /\ Len(inner) > 0 /\ inner[Len(inner)] = Recording(t)
      /\ normalizes => /\ Len(inner) = Len(mirror) + 1
                       /\ (played[Len(inner)] = TRUE) <=> can_record
  BY <1>1 DEF IInv, InHand
<1>6. /\ orders' \in Seq(Nat) /\ Len(orders') = n + 1 /\ DOMAIN orders' = 1..(n + 1)
      /\ \A i \in 1..n : orders'[i] = orders[i]
      /\ orders'[n + 1] = o
  <2>. HIDE DEF n, o
  <2>. QED  BY <1>1, <1>2, Appended DEF n
<1>7. pc'[t] = "mirror" /\ \A u \in Threads : u # t => pc'[u] = pc[u]
  BY <1>1, <1>2
<1>8. phase \notin {"start", "load_error"} /\ (phase = "active" \/ ~ joined)
  BY <1>1, UnderWay
<1>9. lock = t /\ lock # NoThread /\ \A u \in Threads : u # t => pc[u] \notin {"order", "mirror"}
  BY <1>1, PySessionAssumption DEF IInv, LockHeld
<1>10. can_record' <=> can_record
  BY <1>1 DEF can_record
<1>11. Types'
  <2>1. pc' \in [Threads -> Stages]
    BY <1>1, <1>2 DEF Stages
  <2>2. \A u \in Threads : pc'[u] # "idle" => req[u] \in Requests
    BY <1>1, <1>7 DEF IInv, Types
  <2>. QED  BY <1>1, <1>6, <2>1, <2>2 DEF IInv, Types
<1>12. Quiescent' /\ OldFile'
  BY <1>1, <1>8 DEF Quiescent, OldFile
<1>13. LockHeld'
  BY <1>1, <1>7, <1>9 DEF LockHeld
<1>14. OrdersPaired'
  <2>1. ASSUME NEW i \in 1..(n + 1)
        PROVE  i \in DOMAIN inner /\ (inner[i].id >= 0 => orders'[i] = inner[i].id)
    <3>1. CASE i \in 1..n
      BY <1>4, <1>6, <3>1 DEF IInv, OrdersPaired
    <3>2. CASE i = n + 1
      BY <1>3, <1>4, <1>5, <1>6, <3>2
    <3>3. i \in 1..n \/ i = n + 1
      BY <1>4
    <3>. QED  BY <3>1, <3>2, <3>3
  <2>2. \A i \in DOMAIN mirror : i \in DOMAIN inner /\ mirror[i] = normalized_copy(inner[i])
    BY DEF IInv, OrdersPaired
  <2>. QED  BY <1>1, <1>6, <1>9, <2>1, <2>2 DEF OrdersPaired, normalized_copy
<1>15. InHand'
  <2>1. \A u \in Threads : pc'[u] \in {"order", "mirror"} => u = t
    BY <1>7, <1>9
  <2>2. Recording(t)' = Recording(t)
    BY <1>1 DEF Recording
  <2>3. ~ normalizes => mirror = <<>>
    BY DEF IInv, InHand
  <2>. QED  BY <1>1, <1>5, <1>6, <1>7, <1>10, <2>1, <2>2, <2>3 DEF InHand
<1>16. IdsOwned'
  <2>1. \A u \in Threads : pc'[u] \in {"live", "record"} => pc[u] = pc'[u]
    BY <1>7
  <2>. QED  BY <1>1, <2>1 DEF IInv, IdsOwned, Ids
<1>17. TakenOnce'
  <2>1. \A u \in Threads : /\ pc'[u] = "mark" <=> pc[u] = "mark"
                           /\ pc[u] = "done" => pc'[u] = "done"
    BY <1>1, <1>7
  <2>2. \A u \in Threads : Took(u)' <=> Took(u)
    BY <1>1, <2>1 DEF Took
  <2>. QED  BY <1>1, <1>10, <2>1, <2>2 DEF IInv, TakenOnce, Taken
<1>18. Synced'
  <2>1. \A u \in Threads : pc[u] = "mark" => pc'[u] = "mark"
    BY <1>1, <1>7
  <2>. QED  BY <1>1, <2>1 DEF IInv, Synced
<1>19. RecordedKept'
  <2>1. \A u \in Threads : /\ pc'[u] \in {"order", "mirror", "dirty"}
                                => pc[u] \in {"order", "mirror", "dirty"}
                           /\ pc[u] = "done" => pc'[u] = "done"
    BY <1>1, <1>7
  <2>. QED  BY <1>1, <2>1 DEF IInv, RecordedKept, Ids
<1>20. SaveSorted'
  <2>1. joined /\ UniformSpelling => InSentOrder
    BY DEF IInv, SaveSorted
  <2>. QED  BY <1>1, <1>8, <2>1 DEF SaveSorted, InSentOrder, Seen
<1>. QED  BY <1>11, <1>12, <1>13, <1>14, <1>15, <1>16, <1>17, <1>18, <1>19, <1>20 DEF IInv

(* The mirror's copy, and the release of the lock.                         *)
LEMMA AddToMirrorStep ==
    ASSUME IInv, NEW t \in Threads, AddToMirror(t)
    PROVE  IInv'
<1>. DEFINE x == normalized_copy(Recording(t))
            m == Len(mirror)
            c == can_record
<1>1. /\ pc[t] = "mirror" /\ lock' = NoThread /\ pc' = [pc EXCEPT ![t] = "dirty"]
      /\ UNCHANGED <<mode, normalizes, joined, phase, save_order, due, replay_only, dirty,
                     inner, played, orders, next_order, file, req, order, expected,
                     outcome, answer>>
  BY DEF AddToMirror, options, block, state, numbers, disk
<1>2. /\ normalizes => mirror' = Append(mirror, x) /\ mirror_played' = Append(mirror_played, c)
      /\ ~ normalizes => mirror' = mirror /\ mirror_played' = mirror_played
  BY DEF AddToMirror
<1>3. /\ mirror \in Seq(Interaction) /\ mirror_played \in Seq(BOOLEAN)
      /\ Len(mirror_played) = m /\ pc \in [Threads -> Stages]
  BY DEF IInv, Types
<1>4. Recording(t) \in Interaction /\ Recording(t).id = order[t] /\ order[t] \in Nat
  BY <1>1, RecordingFacts
<1>5. x \in Interaction /\ c \in BOOLEAN /\ (can_record' <=> can_record)
  BY <1>1, <1>4, NormalizedCopy, CanRecordBoolean DEF can_record
<1>6. /\ DOMAIN inner = 1..Len(inner) /\ Len(inner) \in Nat
      /\ DOMAIN mirror = 1..m /\ m \in Nat
      /\ DOMAIN played = 1..Len(inner) /\ \A i \in DOMAIN played : played[i] \in BOOLEAN
  BY Domains DEF IInv
<1>7. /\ Len(inner) = Len(orders) /\ Len(inner) > 0 /\ inner[Len(inner)] = Recording(t)
      /\ normalizes => /\ Len(inner) = m + 1
                       /\ (played[Len(inner)] = TRUE) <=> can_record
      /\ ~ normalizes => mirror = <<>>
  BY <1>1 DEF IInv, InHand
<1>. HIDE DEF x, c
<1>8. normalizes =>
        /\ mirror' \in Seq(Interaction) /\ Len(mirror') = m + 1 /\ DOMAIN mirror' = 1..(m + 1)
        /\ \A i \in 1..m : mirror'[i] = mirror[i]
        /\ mirror'[m + 1] = x
  <2>. DEFINE I == Interaction
  <2>1. mirror \in Seq(I) /\ x \in I
    BY <1>3, <1>5
  <2>. HIDE DEF I, m
  <2>2. LET a == Append(mirror, x)
        IN  /\ a \in Seq(I) /\ Len(a) = Len(mirror) + 1
            /\ DOMAIN a = 1..(Len(mirror) + 1)
            /\ \A i \in 1..Len(mirror) : a[i] = mirror[i]
            /\ a[Len(mirror) + 1] = x
    BY <2>1, Appended
  <2>. QED  BY <1>2, <2>2 DEF I, m
<1>9. normalizes =>
        /\ mirror_played' \in Seq(BOOLEAN) /\ Len(mirror_played') = m + 1
        /\ \A i \in 1..m : mirror_played'[i] = mirror_played[i]
        /\ mirror_played'[m + 1] = c
  <2>1. LET a == Append(mirror_played, c)
        IN  /\ a \in Seq(BOOLEAN) /\ Len(a) = Len(mirror_played) + 1
            /\ \A i \in 1..Len(mirror_played) : a[i] = mirror_played[i]
            /\ a[Len(mirror_played) + 1] = c
    BY <1>3, <1>5, AppendedFlag
  <2>. QED  BY <1>2, <1>3, <2>1
<1>. HIDE DEF m
<1>10. pc'[t] = "dirty" /\ \A u \in Threads : u # t => pc'[u] = pc[u]
  BY <1>1, <1>3
<1>11. phase \notin {"start", "load_error"} /\ (phase = "active" \/ ~ joined)
  BY <1>1, UnderWay
<1>12. lock = t /\ \A u \in Threads : u # t => pc[u] \notin {"order", "mirror"}
  BY <1>1, PySessionAssumption DEF IInv, LockHeld
<1>13. \A u \in Threads : pc'[u] \notin {"order", "mirror"}
  BY <1>10, <1>12
<1>14. DOMAIN mirror \subseteq DOMAIN mirror'
         /\ \A i \in DOMAIN mirror : mirror_played'[i] = mirror_played[i]
  BY <1>2, <1>6, <1>8, <1>9
<1>15. Types'
  <2>1. pc' \in [Threads -> Stages]
    BY <1>1, <1>3 DEF Stages
  <2>2. \A u \in Threads : pc'[u] # "idle" => req[u] \in Requests
    BY <1>1, <1>10 DEF IInv, Types
  <2>3. /\ mirror' \in Seq(Interaction) /\ mirror_played' \in Seq(BOOLEAN)
        /\ Len(mirror_played') = Len(mirror')
    <3>1. CASE normalizes
      BY <1>8, <1>9, <3>1
    <3>2. CASE ~ normalizes
      BY <1>2, <1>3, <3>2 DEF m
    <3>. QED  BY <3>1, <3>2
  <2>. QED  BY <1>1, <2>1, <2>2, <2>3 DEF IInv, Types
<1>16. Quiescent' /\ OldFile'
  BY <1>1, <1>11 DEF Quiescent, OldFile
<1>17. LockHeld'
  BY <1>1, <1>13, PySessionAssumption DEF LockHeld
<1>18. OrdersPaired'
  <2>1. \A i \in DOMAIN orders : i \in DOMAIN inner /\ (inner[i].id >= 0 => orders[i] = inner[i].id)
    BY DEF IInv, OrdersPaired
  <2>2. ASSUME NEW i \in DOMAIN mirror'
        PROVE  i \in DOMAIN inner /\ mirror'[i] = normalized_copy(inner[i])
    <3>1. CASE i \in DOMAIN mirror
      <4>1. mirror'[i] = mirror[i]
        BY <1>2, <1>6, <1>8, <3>1
      <4>. QED  BY <3>1, <4>1 DEF IInv, OrdersPaired
    <3>2. CASE normalizes /\ i = m + 1
      BY <1>6, <1>7, <1>8, <3>2 DEF x
    <3>3. i \in DOMAIN mirror \/ (normalizes /\ i = m + 1)
      BY <1>2, <1>6, <1>8, <2>2
    <3>. QED  BY <3>1, <3>2, <3>3
  <2>3. normalizes => Len(mirror') = Len(inner)
    BY <1>7, <1>8
  <2>. QED  BY <1>1, <1>7, <2>1, <2>2, <2>3 DEF OrdersPaired, normalized_copy
<1>19. InHand'
  BY <1>1, <1>2, <1>7, <1>13 DEF InHand
<1>20. IdsOwned'
  <2>1. \A u \in Threads : pc'[u] \in {"live", "record"} => pc[u] = pc'[u]
    BY <1>10
  <2>. QED  BY <1>1, <2>1 DEF IInv, IdsOwned, Ids
<1>21. \A u \in Threads : /\ pc'[u] = "mark" <=> pc[u] = "mark"
                          /\ pc[u] = "done" => pc'[u] = "done"
  BY <1>1, <1>10
<1>22. TakenOnce'
  <2>1. \A u \in Threads : Took(u)' <=> Took(u)
    BY <1>1, <1>21 DEF Took
  <2>2. \A u \in Threads : outcome[u] = "replayed" => pc'[u] = "done"
    BY <1>21 DEF IInv, TakenOnce
  <2>3. ASSUME NEW u \in Threads, Took(u)
        PROVE  /\ expected[u] \in DOMAIN inner
               /\ normalizes => expected[u] \in DOMAIN mirror'
               /\ outcome[u] = "replayed" => answer[u] = inner[expected[u]].id
               /\ pc'[u] = "mark" => normalizes /\ mirror_played'[expected[u]] = TRUE
               /\ can_record => /\ inner[expected[u]].id < 0
                                /\ IF normalizes THEN mirror_played'[expected[u]] = TRUE
                                   ELSE played[expected[u]] = TRUE
    <3>1. /\ expected[u] \in DOMAIN inner
          /\ normalizes => expected[u] \in DOMAIN mirror
          /\ outcome[u] = "replayed" => answer[u] = inner[expected[u]].id
          /\ pc[u] = "mark" => normalizes /\ mirror_played[expected[u]] = TRUE
          /\ can_record => inner[expected[u]].id < 0 /\ Taken(expected[u])
      BY <2>3 DEF IInv, TakenOnce
    <3>. QED  BY <1>14, <1>21, <3>1 DEF Taken
  <2>4. can_record => \A u, v \in Threads :
           u # v /\ Took(u) /\ Took(v) => expected[u] # expected[v]
    BY DEF IInv, TakenOnce
  <2>5. ASSUME can_record, NEW j \in DOMAIN inner, inner[j].id >= 0
        PROVE  /\ played[j] = TRUE
               /\ j \in DOMAIN mirror' => mirror_played'[j] = TRUE
    <3>1. played[j] = TRUE /\ (j \in DOMAIN mirror => mirror_played[j] = TRUE)
      BY <2>5 DEF IInv, TakenOnce
    <3>2. j \in DOMAIN mirror' => j \in DOMAIN mirror \/ (normalizes /\ j = m + 1)
      BY <1>2, <1>6, <1>8
    <3>3. normalizes /\ j = m + 1 => mirror_played'[j] = TRUE
      BY <1>5, <1>9, <2>5 DEF c
    <3>. QED  BY <1>14, <3>1, <3>2, <3>3
  <2>. QED  BY <1>1, <1>5, <2>1, <2>2, <2>3, <2>4, <2>5 DEF TakenOnce, Taken
<1>23. Synced'
  <2>1. ASSUME joined, normalizes, NEW j \in DOMAIN mirror'
        PROVE  \/ played[j] = mirror_played'[j]
               \/ \E u \in Threads : pc'[u] = "mark" /\ expected[u] = j
    <3>1. CASE j \in DOMAIN mirror
      BY <1>14, <1>21, <2>1, <3>1 DEF IInv, Synced
    <3>2. CASE j = m + 1
      <4>1. mirror_played'[j] = c /\ j = Len(inner) /\ j \in DOMAIN played
        BY <1>6, <1>7, <1>9, <2>1, <3>2
      <4>2. (played[j] = TRUE) <=> c
        BY <1>7, <2>1, <4>1 DEF c
      <4>3. played[j] \in BOOLEAN
        BY <1>6, <4>1
      <4>4. played[j] = c
        BY <1>5, <4>2, <4>3
      <4>. QED  BY <4>1, <4>4
    <3>3. j \in DOMAIN mirror \/ j = m + 1
      BY <1>6, <1>8, <2>1
    <3>. QED  BY <3>1, <3>2, <3>3
  <2>. QED  BY <1>1, <2>1 DEF Synced
<1>24. RecordedKept'
  <2>1. \A u \in Threads : pc'[u] \in {"order", "mirror", "dirty"}
                                => pc[u] \in {"order", "mirror", "dirty"}
    BY <1>1, <1>10
  <2>. QED  BY <1>1, <1>21, <2>1 DEF IInv, RecordedKept, Ids
<1>25. SaveSorted'
  <2>1. joined /\ UniformSpelling => InSentOrder
    BY DEF IInv, SaveSorted
  <2>. QED  BY <1>1, <1>11, <2>1 DEF SaveSorted, InSentOrder, Seen
<1>. QED  BY <1>15, <1>16, <1>17, <1>18, <1>19, <1>20, <1>22, <1>23, <1>24, <1>25 DEF IInv

-----------------------------------------------------------------------------
(* The end of the block                                                    *)

(* Steps of the block leave the threads and the cassette alone.            *)
LEMMA BlockStep ==
    ASSUME IInv,
           UNCHANGED <<mode, normalizes, joined, replay_only, inner, played, mirror,
                       mirror_played, orders, next_order, lock, pc, req, order,
                       expected, outcome, answer>>,
           phase' \in Phases \ {"start", "load_error", "active"},
           joined => \A t \in Threads : pc[t] \in {"idle", "done"},
           dirty' \in BOOLEAN, file' \in Seq(Interaction),
           RecordedKept', SaveSorted'
    PROVE  IInv'
<1>1. Types'
  BY DEF IInv, Types
<1>2. Quiescent' /\ LockHeld'
  BY DEF IInv, Quiescent, LockHeld
<1>3. can_record' <=> can_record
  BY CanRecordKept
<1>4. OrdersPaired'
  BY DEF IInv, OrdersPaired, normalized_copy
<1>5. InHand'
  BY <1>3 DEF IInv, InHand, Recording
<1>6. IdsOwned' /\ OldFile'
  BY DEF IInv, IdsOwned, OldFile, Ids
<1>7. TakenOnce' /\ Synced'
  BY <1>3 DEF IInv, TakenOnce, Took, Taken, Synced
<1>. QED  BY <1>1, <1>2, <1>4, <1>5, <1>6, <1>7 DEF IInv

LEMMA ExitStep ==
    ASSUME IInv, Exit
    PROVE  IInv'
<1>1. /\ phase = "active" /\ phase' = "saving" /\ due' = RecordedOrders
      /\ joined => \A t \in Threads : pc[t] \in {"idle", "done"}
      /\ UNCHANGED <<mode, normalizes, joined, save_order, replay_only, dirty, inner,
                     played, mirror, mirror_played, orders, next_order, lock, file, pc,
                     req, order, expected, outcome, answer>>
  BY DEF Exit, options, state, tapes, numbers, disk, calls
<1>2. dirty' \in BOOLEAN /\ file' \in Seq(Interaction)
  BY <1>1 DEF IInv, Types
<1>3. RecordedKept'
  <2>1. /\ \A t \in Threads : outcome[t] = "recorded" =>
             order[t] \in Ids(inner) /\ pc[t] = "done" /\ dirty
        /\ \A t \in Threads : pc[t] \in {"order", "mirror", "dirty"} => order[t] \in Ids(inner)
    BY <1>1 DEF IInv, RecordedKept
  <2>2. RecordedOrders \subseteq Ids(inner) /\ (RecordedOrders # {} => dirty)
    BY <2>1 DEF RecordedOrders
  <2>3. Ids(inner)' = Ids(inner)
    BY <1>1 DEF Ids
  <2>4. EachOnce(save_order, Len(save_order))
    BY DEF IInv, RecordedKept
  <2>5. EachOnce(save_order', Len(save_order'))
    BY <1>1, <2>4
  <2>6. due' \subseteq Ids(inner') /\ (due' # {} => dirty')
    BY <1>1, <2>2
  <2>7. \A t \in Threads :
           /\ pc'[t] \in {"order", "mirror", "dirty"} \/ outcome'[t] = "recorded"
                => order'[t] \in Ids(inner')
           /\ outcome'[t] = "recorded" => pc'[t] = "done" /\ dirty'
    BY <1>1, <2>1
  <2>. QED  BY <1>1, <2>5, <2>6, <2>7 DEF RecordedKept, Ids
<1>4. SaveSorted'
  <2>1. joined /\ UniformSpelling => InSentOrder
    BY DEF IInv, SaveSorted
  <2>. QED  BY <1>1, <2>1 DEF SaveSorted, InSentOrder, Seen
<1>5. phase' \in Phases \ {"start", "load_error", "active"}
  BY <1>1 DEF Phases
<1>. QED  BY <1>1, <1>2, <1>3, <1>4, <1>5, BlockStep

-----------------------------------------------------------------------------
(* Cassette.save                                                           *)

(* The steps of the save that do not write the file.                       *)
LEMMA SaveQuiet ==
    ASSUME IInv,
           UNCHANGED <<mode, normalizes, joined, due, replay_only, inner, played, mirror,
                       mirror_played, orders, next_order, lock, file, pc, req, order,
                       expected, outcome, answer>>,
           phase \in {"saving", "ordered", "writing", "written"},
           phase' \in {"ordered", "writing", "closed", "order_error", "io_error"},
           dirty' \in BOOLEAN, phase' = "closed" \/ dirty' = dirty,
           EachOnce(save_order', Len(save_order')),
           phase' = "writing" => Len(save_order') = Len(inner),
           phase' = "closed" => due \subseteq Ids(file),
           joined /\ phase' \in {"ordered", "writing"} =>
               output_order(save_order', IF normalizes THEN mirror ELSE inner, MatchOn, orders)
    PROVE  IInv'
<1>1. joined => \A t \in Threads : pc[t] \in {"idle", "done"}
  BY DEF IInv, Quiescent
<1>2. file' \in Seq(Interaction)
  BY DEF IInv, Types
<1>3. RecordedKept'
  <2>1. Ids(inner)' = Ids(inner) /\ Ids(file)' = Ids(file)
    BY DEF Ids
  <2>2. /\ \A t \in Threads :
             pc[t] \in {"order", "mirror", "dirty"} \/ outcome[t] = "recorded"
                 => order[t] \in Ids(inner)
        /\ \A t \in Threads : outcome[t] = "recorded" => pc[t] = "done" /\ dirty
        /\ due \subseteq Ids(inner)
        /\ due # {} => dirty
    BY DEF IInv, RecordedKept
  <2>. QED  BY <2>1, <2>2 DEF RecordedKept
<1>4. SaveSorted'
  <2>1. joined /\ UniformSpelling => InSentOrder
    BY DEF IInv, SaveSorted
  <2>2. InSentOrder => InSentOrder'
    BY DEF InSentOrder, Seen
  <2>3. joined /\ phase' \in {"ordered", "writing"} =>
          output_order(save_order', IF normalizes' THEN mirror' ELSE inner', MatchOn, orders')
    OBVIOUS
  <2>. QED  BY <2>1, <2>2, <2>3 DEF SaveSorted
<1>5. phase' \in Phases \ {"start", "load_error", "active"}
  BY DEF Phases
<1>. QED  BY <1>1, <1>2, <1>3, <1>4, <1>5, BlockStep

(* Every component of a sort key is a natural number.                      *)
LEMMA KeyFieldIsNatural ==
    ASSUME NEW r \in Requests, NEW m \in KNOWN_MATCHERS, NEW c \in 1..3
    PROVE  sort_key_field(m, r)[c] \in Nat
<1>1. /\ UpperFold[r.method] \in Nat /\ r.uri \in Nat
      /\ r.body.core \in Nat /\ r.body.noise \in Nat /\ r.body.spelling \in Nat
  BY PySessionAssumption, FoldAssumption DEF BodyType
<1>2. c = 1 \/ c = 2 \/ c = 3
  OBVIOUS
<1>. QED
  BY <1>1, <1>2 DEF sort_key_field, KNOWN_MATCHERS, canonical_body,
                    canonical_body_without_ignored

(* Of two requests one of which the matcher accepts for the other, neither *)
(* has the lesser key.                                                     *)
LEMMA AlikeHaveOneKey ==
    ASSUME UniformSpelling, NEW p \in Requests, NEW q \in Requests,
           matches_all(p, q, MatchOn)
    PROVE  ~ KeyLess(sort_key(p, MatchOn), sort_key(q, MatchOn))
<1>1. \A f \in DOMAIN MatchOn : MatchOn[f] \in KNOWN_MATCHERS
  <2>. DEFINE K == KNOWN_MATCHERS
  <2>1. MatchOn \in Seq(K)
    BY PySessionAssumption
  <2>. HIDE DEF K
  <2>2. \A f \in DOMAIN MatchOn : MatchOn[f] \in K
    BY <2>1
  <2>. QED  BY <2>2 DEF K
<1>2. ASSUME NEW m \in KNOWN_MATCHERS, matches(m, p, q)
      PROVE  sort_key_field(m, p) = sort_key_field(m, q)
  <2>1. CASE m = "method"
    <3>1. AsciiFold[p.method] = AsciiFold[q.method]
      BY <1>2, <2>1 DEF matches, match_method
    <3>2. UpperFold[p.method] = UpperFold[q.method]
      BY <3>1, FoldAssumption, PySessionAssumption
    <3>. QED  BY <2>1, <3>2 DEF sort_key_field
  <2>2. CASE m = "uri"
    BY <1>2, <2>2 DEF matches, match_uri, sort_key_field
  <2>3. CASE m = "headers"
    BY <2>3 DEF sort_key_field
  <2>4. CASE m = "body"
    <3>1. p.body.kind = q.body.kind /\ p.body.core = q.body.core
            /\ p.body.noise = q.body.noise
      BY <1>2, <2>4 DEF matches, match_body
    <3>2. p.body.spelling = q.body.spelling
      BY <3>1 DEF UniformSpelling
    <3>. QED  BY <2>4, <3>1, <3>2 DEF sort_key_field, canonical_body
  <2>5. CASE m = "json_body"
    <3>1. p.body.kind = q.body.kind /\ p.body.core = q.body.core
      BY <1>2, <2>5 DEF matches, match_json_body, match_body
    <3>2. p.body.spelling = q.body.spelling
      BY <3>1 DEF UniformSpelling
    <3>. QED  BY <2>5, <3>1, <3>2 DEF sort_key_field, canonical_body_without_ignored
  <2>. QED  BY <2>1, <2>2, <2>3, <2>4, <2>5 DEF KNOWN_MATCHERS
<1>3. \A f \in DOMAIN MatchOn : sort_key_field(MatchOn[f], p) = sort_key_field(MatchOn[f], q)
  BY <1>1, <1>2 DEF matches_all
<1>4. SUFFICES ASSUME NEW f \in DOMAIN MatchOn, NEW c \in 1..3,
                      sort_key_field(MatchOn[f], p)[c] < sort_key_field(MatchOn[f], q)[c]
               PROVE  FALSE
  BY DEF KeyLess, sort_key
<1>5. sort_key_field(MatchOn[f], p)[c] \in Nat
  BY <1>1, KeyFieldIsNatural
<1>. QED  BY <1>3, <1>4, <1>5

(* The file a save writes: the cassette under the order computed before.   *)
LEMMA FileWritten ==
    ASSUME IInv, SaveWritten
    PROVE  /\ file' \in Seq(Interaction) /\ DOMAIN file' = 1..Len(inner)
           /\ EachOnce(save_order, Len(inner))
           /\ \A k \in 1..Len(inner) : /\ save_order[k] \in 1..Len(inner)
                                       /\ file'[k] = inner[save_order[k]]
           /\ Ids(file') = Ids(inner)
<1>. DEFINE n == Len(inner)
            o == save_order
            I == Interaction
            a == Arranged(inner, o)
<1>1. EachOnce(o, n) /\ file' = a
  BY DEF IInv, RecordedKept, SaveWritten
<1>2. o \in [1..n -> 1..n] /\ \A b, c \in 1..n : o[b] = o[c] => b = c
  BY <1>1 DEF EachOnce
<1>3. inner \in Seq(I) /\ n \in Nat /\ DOMAIN inner = 1..n
  <2>1. inner \in Seq(I)
    BY DEF IInv, Types
  <2>. HIDE DEF I
  <2>. QED  BY <2>1
<1>4. a = [k \in 1..n |-> inner[o[k]]]
  BY <1>2 DEF Arranged
<1>. HIDE DEF a, n, I, o
<1>5. \A i \in 1..n : \E k \in 1..n : o[k] = i
  BY <1>2, <1>3, InjectionIsOnto
<1>6. a \in Seq(I) /\ DOMAIN a = 1..n /\ \A k \in 1..n : a[k] = inner[o[k]] /\ o[k] \in 1..n
  <2>1. \A k \in 1..n : o[k] \in 1..n /\ inner[o[k]] \in I
    BY <1>2, <1>3
  <2>. QED  BY <1>3, <1>4, <2>1
<1>7. Ids(a) = Ids(inner)
  <2>1. \A k \in DOMAIN a : \E i \in DOMAIN inner : a[k] = inner[i]
    BY <1>3, <1>6
  <2>2. ASSUME NEW i \in DOMAIN inner
        PROVE  \E k \in DOMAIN a : a[k] = inner[i]
    <3>1. PICK k \in 1..n : o[k] = i
      BY <1>3, <1>5
    <3>2. k \in DOMAIN a /\ a[k] = inner[i]
      BY <1>6, <3>1
    <3>. QED  BY <3>2
  <2>. QED  BY <2>1, <2>2 DEF Ids
<1>. QED  BY <1>1, <1>6, <1>7 DEF I, n, o

(* A block that waited for its threads has no request between its appends. *)
LEMMA AllAppended ==
    ASSUME IInv, \A t \in Threads : pc[t] \in {"idle", "done"}
    PROVE  /\ lock = NoThread /\ Len(orders) = Len(inner)
           /\ normalizes => Len(mirror) = Len(inner)
<1>1. lock = NoThread
  BY DEF IInv, Types, LockHeld
<1>. QED  BY <1>1 DEF IInv, OrdersPaired

(* The matcher's tape, as it sees the requests of the cassette.            *)
LEMMA MatchedTape ==
    ASSUME IInv, \A t \in Threads : pc[t] \in {"idle", "done"},
           NEW x \in 1..Len(inner)
    PROVE  LET matched == IF normalizes THEN mirror ELSE inner
           IN  /\ Len(matched) = Len(inner)
               /\ matched[x].req = Seen(inner[x].req)
               /\ Seen(inner[x].req) \in Requests
<1>1. /\ inner[x] \in Interaction /\ inner[x].req \in Requests
      /\ DOMAIN mirror = 1..Len(mirror)
  BY Domains DEF IInv
<1>2. normalizes => Len(mirror) = Len(inner)
  BY AllAppended
<1>3. normalizes => mirror[x] = normalized_copy(inner[x])
  BY <1>1, <1>2 DEF IInv, OrdersPaired
<1>4. normalized_copy(inner[x]).req = Normalize[inner[x].req]
  BY <1>1 DEF normalized_copy, Interaction
<1>5. Normalize[inner[x].req] \in Requests
  BY <1>1, PySessionAssumption
<1>. QED  BY <1>1, <1>2, <1>3, <1>4, <1>5 DEF Seen

(* It lists the recordings the matcher cannot tell apart as they were sent.*)
LEMMA WrittenInSentOrder ==
    ASSUME IInv, SaveWritten, joined, UniformSpelling
    PROVE  InSentOrder'
<1>. DEFINE n == Len(inner)
            M == IF normalizes THEN mirror ELSE inner
<1>1. phase = "writing" /\ UNCHANGED normalizes
  BY DEF SaveWritten, options
<1>2. \A t \in Threads : pc[t] \in {"idle", "done"}
  BY <1>1 DEF IInv, Quiescent
<1>3. output_order(save_order, M, MatchOn, orders)
  BY <1>1 DEF IInv, SaveSorted
<1>4. SUFFICES ASSUME NEW i \in 1..n, NEW j \in 1..n, i < j,
                      file'[i].id >= 0, file'[j].id >= 0,
                      matches_all(Seen(file'[i].req), Seen(file'[j].req), MatchOn)
               PROVE  file'[i].id < file'[j].id
  BY <1>1, FileWritten DEF InSentOrder, Seen
<1>5. PICK x \in 1..n : x = save_order[i] /\ file'[i] = inner[x]
  BY FileWritten
<1>6. PICK y \in 1..n : y = save_order[j] /\ file'[j] = inner[y]
  BY FileWritten
<1>7. n \in Nat /\ DOMAIN inner = 1..n /\ DOMAIN orders = 1..Len(orders)
        /\ inner[x].id \in Int /\ inner[y].id \in Int
  BY Domains DEF IInv
<1>8. x # y
  BY <1>4, <1>5, <1>6, <1>7, FileWritten DEF EachOnce
<1>9. Len(M) = n /\ M[x].req = Seen(inner[x].req) /\ Seen(inner[x].req) \in Requests
  BY <1>2, MatchedTape
<1>10. M[y].req = Seen(inner[y].req) /\ Seen(inner[y].req) \in Requests
  BY <1>2, MatchedTape
<1>11. WrittenBefore(x, y, M, MatchOn, orders)
  <2>. HIDE DEF M, n
  <2>. QED  BY <1>3, <1>4, <1>5, <1>6, <1>9 DEF output_order
<1>12. ~ KeyLess(sort_key(M[x].req, MatchOn), sort_key(M[y].req, MatchOn))
  BY <1>4, <1>5, <1>6, <1>9, <1>10, AlikeHaveOneKey
<1>13. TieLess(x, y, orders, n)
  <2>. HIDE DEF M, n
  <2>. QED  BY <1>9, <1>11, <1>12 DEF WrittenBefore
<1>14. Len(orders) = n
  BY <1>2, AllAppended
<1>15. orders[x] = inner[x].id /\ orders[y] = inner[y].id
  BY <1>4, <1>5, <1>6, <1>7, <1>14 DEF IInv, OrdersPaired
<1>16. inner[x].id # inner[y].id
  BY <1>7, <1>8 DEF IInv, IdsOwned
<1>. QED  BY <1>5, <1>6, <1>7, <1>13, <1>14, <1>15, <1>16 DEF TieLess

(* An order of n indexes, each once, has the length n.                     *)
LEMMA OrderLength ==
    ASSUME NEW n \in Nat, NEW o, EachOnce(o, n)
    PROVE  Len(o) = n /\ EachOnce(o, Len(o))
<1>1. o \in [1..n -> 1..n]
  BY DEF EachOnce
<1>2. Len(o) = n
  BY <1>1
<1>. QED  BY <1>2

LEMMA SaveStep ==
    ASSUME IInv, Save
    PROVE  IInv'
<1>1. dirty \in BOOLEAN /\ due \subseteq Ids(inner)
      /\ EachOnce(save_order, Len(save_order))
  BY DEF IInv, Types, RecordedKept
<1>2. CASE SaveSkipped
  <2>1. /\ phase = "saving" /\ phase' = "closed" /\ ~ NeedsSave
        /\ UNCHANGED <<mode, normalizes, joined, save_order, due, replay_only, dirty,
                       inner, played, mirror, mirror_played, orders, next_order, lock,
                       file, pc, req, order, expected, outcome, answer>>
    BY <1>2 DEF SaveSkipped, options, state, tapes, numbers, disk, calls
  <2>2. due = {}
    <3>1. due # {} => dirty
      BY <2>1 DEF IInv, RecordedKept
    <3>2. due # {} => Len(inner) > 0
      <4>1. DOMAIN inner = 1..Len(inner) /\ Len(inner) \in Nat
        BY Domains DEF IInv
      <4>2. due # {} => \E i \in DOMAIN inner : TRUE
        BY <1>1 DEF Ids
      <4>. QED  BY <4>1, <4>2
    <3>. QED  BY <2>1, <3>1, <3>2 DEF NeedsSave
  <2>. QED  BY <1>1, <2>1, <2>2, SaveQuiet
<1>3. CASE SaveOrdered
  <2>1. /\ phase = "saving" /\ phase' = "ordered"
        /\ output_order(save_order', IF normalizes THEN mirror ELSE inner, MatchOn, orders)
        /\ UNCHANGED <<mode, normalizes, joined, due, replay_only, dirty, inner, played,
                       mirror, mirror_played, orders, next_order, lock, file, pc, req,
                       order, expected, outcome, answer>>
    BY <1>3 DEF SaveOrdered, options, state, tapes, numbers, disk, calls
  <2>2. EachOnce(save_order', Len(save_order'))
    <3>1. EachOnce(save_order', Len(mirror)) \/ EachOnce(save_order', Len(inner))
      BY <2>1 DEF output_order
    <3>2. Len(mirror) \in Nat /\ Len(inner) \in Nat
      BY Domains DEF IInv
    <3>. QED  BY <3>1, <3>2, OrderLength
  <2>. QED  BY <1>1, <2>1, <2>2, SaveQuiet
<1>4. CASE SaveBegins
  <2>1. /\ phase = "ordered" /\ phase' = "writing" /\ Len(save_order) = Len(inner)
        /\ UNCHANGED <<mode, normalizes, joined, save_order, due, replay_only, dirty,
                       inner, played, mirror, mirror_played, orders, next_order, lock,
                       file, pc, req, order, expected, outcome, answer>>
    BY <1>4 DEF SaveBegins, validate, options, state, tapes, numbers, disk, calls
  <2>2. joined =>
          output_order(save_order', IF normalizes THEN mirror ELSE inner, MatchOn, orders)
    BY <2>1 DEF IInv, SaveSorted
  <2>. QED  BY <1>1, <2>1, <2>2, SaveQuiet
<1>5. CASE SaveRejected \/ SaveFails
  <2>1. /\ phase \in {"ordered", "writing"} /\ phase' \in {"order_error", "io_error"}
        /\ UNCHANGED <<mode, normalizes, joined, save_order, due, replay_only, dirty,
                       inner, played, mirror, mirror_played, orders, next_order, lock,
                       file, pc, req, order, expected, outcome, answer>>
    BY <1>5 DEF SaveRejected, SaveFails, options, state, tapes, numbers, disk, calls
  <2>. QED  BY <1>1, <2>1, SaveQuiet
<1>6. CASE SaveCleans
  <2>1. /\ phase = "written" /\ phase' = "closed" /\ dirty' = FALSE
        /\ UNCHANGED <<mode, normalizes, joined, save_order, due, replay_only, inner,
                       played, mirror, mirror_played, orders, next_order, lock,
                       file, pc, req, order, expected, outcome, answer>>
    BY <1>6 DEF SaveCleans, options, tapes, numbers, disk, calls
  <2>2. due \subseteq Ids(file)
    BY <2>1 DEF IInv, RecordedKept
  <2>. QED  BY <1>1, <2>1, <2>2, SaveQuiet
<1>7. CASE SaveWritten
  <2>1. /\ phase = "writing" /\ phase' = "written"
        /\ UNCHANGED <<mode, normalizes, joined, save_order, due, replay_only, dirty,
                       inner, played, mirror, mirror_played, orders, next_order, lock,
                       pc, req, order, expected, outcome, answer>>
    BY <1>7 DEF SaveWritten, options, state, tapes, numbers, calls
  <2>2. file' \in Seq(Interaction) /\ Ids(file') = Ids(inner)
    BY <1>7, FileWritten
  <2>3. RecordedKept'
    <3>1. Ids(inner)' = Ids(inner) /\ Ids(file)' = Ids(file')
      BY <2>1 DEF Ids
    <3>. QED  BY <2>1, <2>2, <3>1 DEF IInv, RecordedKept
  <2>4. SaveSorted'
    <3>1. joined /\ UniformSpelling => InSentOrder'
      BY <1>7, WrittenInSentOrder
    <3>. QED  BY <2>1, <3>1 DEF SaveSorted
  <2>5. joined => \A t \in Threads : pc[t] \in {"idle", "done"}
    BY <2>1 DEF IInv, Quiescent
  <2>6. phase' \in Phases \ {"start", "load_error", "active"} /\ dirty' \in BOOLEAN
    BY <1>1, <2>1 DEF Phases
  <2>. QED  BY <2>1, <2>2, <2>3, <2>4, <2>5, <2>6, BlockStep
<1>. QED  BY <1>2, <1>3, <1>4, <1>5, <1>6, <1>7 DEF Save

-----------------------------------------------------------------------------
(* Every step                                                              *)

LEMMA Unchanged ==
    ASSUME IInv, UNCHANGED vars
    PROVE  IInv'
<1>1. UNCHANGED <<mode, normalizes, joined, phase, save_order, due, replay_only, dirty,
                  inner, played, mirror, mirror_played, orders, next_order, lock, file,
                  pc, req, order, expected, outcome, answer>>
  BY DEF vars, options, block, state, tapes, numbers, disk, calls
<1>2. can_record' <=> can_record
  BY <1>1, CanRecordKept
<1>3. Types' /\ Quiescent' /\ LockHeld'
  BY <1>1 DEF IInv, Types, Quiescent, LockHeld
<1>4. OrdersPaired' /\ InHand'
  BY <1>1, <1>2 DEF IInv, OrdersPaired, InHand, normalized_copy, Recording
<1>5. IdsOwned' /\ OldFile' /\ RecordedKept'
  BY <1>1 DEF IInv, IdsOwned, OldFile, RecordedKept, Ids
<1>6. TakenOnce' /\ Synced'
  BY <1>1, <1>2 DEF IInv, TakenOnce, Took, Taken, Synced
<1>7. SaveSorted'
  BY <1>1 DEF IInv, SaveSorted, InSentOrder, Seen
<1>. QED  BY <1>3, <1>4, <1>5, <1>6, <1>7 DEF IInv

LEMMA NextIInv == IInv /\ [Next]_vars => IInv'
<1>1. SUFFICES ASSUME IInv, [Next]_vars PROVE IInv'
  OBVIOUS
<1>2. CASE Load
  BY <1>1, <1>2, LoadStep
<1>3. CASE Exit
  BY <1>1, <1>3, ExitStep
<1>4. CASE Save
  BY <1>1, <1>4, SaveStep
<1>5. ASSUME NEW t \in Threads,
             \/ \E r \in Requests : Start(t, r)
             \/ Passthrough(t) \/ LiveEnds(t) \/ Responded(t)
             \/ Proceed(t)
      PROVE  IInv'
  <2>1. CASE MatchInner(t) \/ MatchMirror(t)
    BY <1>1, <2>1, MatchStep
  <2>2. CASE MarkPlayed(t)
    BY <1>1, <2>2, MarkStep
  <2>3. CASE AddInteraction(t)
    BY <1>1, <2>3, AddInteractionStep
  <2>4. CASE AppendOrder(t)
    BY <1>1, <2>4, AppendOrderStep
  <2>5. CASE AddToMirror(t)
    BY <1>1, <2>5, AddToMirrorStep
  <2>6. CASE \/ \E r \in Requests : Start(t, r)
             \/ Passthrough(t) \/ NoMatch(t) \/ AlreadyBorrowed(t) \/ LiveEnds(t)
             \/ Responded(t) \/ reserve_record_order(t) \/ SetDirty(t)
    BY <1>1, <2>6, QuietStep
  <2>. QED  BY <1>5, <2>1, <2>2, <2>3, <2>4, <2>5, <2>6 DEF Proceed
<1>6. CASE UNCHANGED vars
  BY <1>1, <1>6, Unchanged
<1>. QED  BY <1>1, <1>2, <1>3, <1>4, <1>5, <1>6 DEF Next

(* The invariant holds throughout.                                         *)
LEMMA Invariance == Spec => []IInv
  BY InitIInv, NextIInv, PTL DEF Spec

(* The interaction a request matched is one of the cassette; none is       *)
(* matched before load.                                                    *)
ExpectedOnTape ==
    \A t \in Threads :
        expected[t] \in 0..Len(inner) /\ (phase = "start" => expected[t] = 0)

LEMMA ExpectedKept ==
    ASSUME IInv, IInv', ExpectedOnTape, [Next]_vars
    PROVE  ExpectedOnTape'
<1>1. expected \in [Threads -> Nat] /\ Len(inner) \in Nat /\ Len(inner') \in Nat
  <2>. DEFINE I == Interaction
  <2>1. inner \in Seq(I) /\ inner' \in Seq(I) /\ expected \in [Threads -> Nat]
    BY DEF IInv, Types
  <2>. HIDE DEF I
  <2>. QED  BY <2>1
<1>2. CASE Load
  <2>1. phase = "start" /\ phase' # "start" /\ UNCHANGED expected
    BY <1>2 DEF Load, LoadEmpty, LoadFile, LoadExpired, LoadFails, calls
  <2>. QED  BY <1>1, <2>1 DEF ExpectedOnTape
<1>3. ASSUME UNCHANGED <<inner, expected>>, phase' = "start" => phase = "start"
      PROVE  ExpectedOnTape'
  BY <1>3 DEF ExpectedOnTape
<1>4. CASE Exit
  <2>1. UNCHANGED <<inner, expected>> /\ phase' # "start"
    BY <1>4 DEF Exit, tapes, calls
  <2>. QED  BY <1>3, <2>1
<1>5. CASE Save
  <2>1. UNCHANGED <<inner, expected>> /\ phase' # "start"
    BY <1>5 DEF Save, SaveSkipped, SaveOrdered, SaveBegins, SaveRejected, SaveWritten,
                SaveFails, SaveCleans, tapes, calls
  <2>. QED  BY <1>3, <2>1
<1>6. ASSUME NEW t \in Threads, AddInteraction(t)
      PROVE  ExpectedOnTape'
  <2>1. UNCHANGED <<expected, phase>> /\ inner' = Append(inner, Recording(t)) /\ pc[t] = "record"
    BY <1>6 DEF AddInteraction, block
  <2>2. Len(inner') = Len(inner) + 1
    <3>. DEFINE I == Interaction
    <3>1. inner \in Seq(I) /\ Recording(t) \in I
      BY <2>1, RecordingFacts DEF IInv, Types
    <3>. HIDE DEF I
    <3>. QED  BY <2>1, <3>1, Appended
  <2>. QED  BY <1>1, <2>1, <2>2 DEF ExpectedOnTape
<1>7. ASSUME NEW t \in Threads, MatchInner(t) \/ MatchMirror(t)
      PROVE  ExpectedOnTape'
  <2>1. /\ expected' = [expected EXCEPT ![t] = Found(t)] /\ Found(t) # 0
        /\ UNCHANGED <<inner, phase>> /\ pc[t] = "match"
    BY <1>7 DEF MatchInner, MatchMirror, block
  <2>2. Found(t) \in 0..Len(inner) /\ phase # "start"
    <3>1. Found(t) \in DOMAIN inner /\ DOMAIN inner = 1..Len(inner)
      BY <2>1, FoundFacts, Domains DEF IInv
    <3>. QED  BY <1>1, <2>1, <3>1, UnderWay
  <2>. QED  BY <1>1, <2>1, <2>2 DEF ExpectedOnTape
<1>8. ASSUME NEW t \in Threads,
             \/ \E r \in Requests : Start(t, r)
             \/ Passthrough(t) \/ LiveEnds(t) \/ Responded(t) \/ MarkPlayed(t)
             \/ NoMatch(t) \/ AlreadyBorrowed(t) \/ reserve_record_order(t)
             \/ AppendOrder(t) \/ AddToMirror(t) \/ SetDirty(t)
      PROVE  ExpectedOnTape'
  <2>1. UNCHANGED <<inner, expected, phase>>
    BY <1>8 DEF Start, Passthrough, LiveEnds, Responded, MarkPlayed, NoMatch,
                AlreadyBorrowed, reserve_record_order, AppendOrder, AddToMirror, SetDirty,
                block, tapes
  <2>. QED  BY <1>3, <2>1
<1>9. CASE UNCHANGED vars
  BY <1>3, <1>9 DEF vars, block, tapes, calls
<1>. QED  BY <1>2, <1>4, <1>5, <1>6, <1>7, <1>8, <1>9 DEF Next, Proceed

-----------------------------------------------------------------------------
(* The properties                                                          *)

(* _inner, the mirror and their flags stay sequences of one length, the    *)
(* record lock is held exactly from add_interaction to the mirror, and a   *)
(* match is a position of the cassette.                                    *)
THEOREM TypesHold == Spec => []TypeOK
<1>1. Init => ExpectedOnTape
  BY DEF Init, ExpectedOnTape
<1>2. IInv /\ IInv' /\ ExpectedOnTape /\ [Next]_vars => ExpectedOnTape'
  BY ExpectedKept
<1>3. IInv /\ ExpectedOnTape => TypeOK
  BY DEF IInv, Types, LockHeld, ExpectedOnTape, TypeOK
<1>. QED  BY <1>1, <1>2, <1>3, Invariance, PTL DEF Spec

(* "One lock over all three": whatever the threads do, each recording      *)
(* keeps the order its request claimed, and the mirror is the normalized   *)
(* copy of the cassette at every position both have.                       *)
THEOREM OrdersStayPaired == Spec => []OrdersPaired
<1>1. IInv => OrdersPaired
  BY DEF IInv
<1>. QED  BY <1>1, Invariance, PTL

(* take_match and the flags record appends: while the session records no   *)
(* interaction of the file answers two requests, and none of this session  *)
(* answers any, through the cassette or through the mirror.                *)
THEOREM RecordingsReplayOnce == Spec => []RecordingReplaysOnce
<1>1. IInv => RecordingReplaysOnce
  <2>1. SUFFICES ASSUME IInv, can_record, NEW t \in Threads, outcome[t] = "replayed"
                 PROVE  /\ answer[t] < 0
                        /\ \A u \in Threads \ {t} :
                             outcome[u] = "replayed" => answer[u] # answer[t]
    BY DEF RecordingReplaysOnce
  <2>2. \A u \in Threads : outcome[u] = "replayed" =>
           /\ expected[u] \in DOMAIN inner /\ answer[u] = inner[expected[u]].id
           /\ inner[expected[u]].id < 0
    BY <2>1 DEF IInv, TakenOnce, Took
  <2>3. \A u \in Threads : u # t /\ outcome[u] = "replayed" => expected[u] # expected[t]
    BY <2>1 DEF IInv, TakenOnce, Took
  <2>. QED  BY <2>1, <2>2, <2>3 DEF IInv, IdsOwned
<1>. QED  BY <1>1, Invariance, PTL

(* mark_played after a match through the mirror: in a block that waits for *)
(* its threads the two sets of played flags agree whenever none of them is *)
(* under way.                                                              *)
THEOREM FlagsStayInSync == Spec => []PlayedInSync
<1>1. IInv => PlayedInSync
  <2>. DEFINE B == BOOLEAN
  <2>1. SUFFICES ASSUME IInv, joined, normalizes,
                        \A t \in Threads : pc[t] \in {"idle", "done"}
                 PROVE  played = mirror_played
    BY DEF PlayedInSync
  <2>2. /\ played \in Seq(B) /\ Len(played) = Len(inner)
        /\ mirror_played \in Seq(B) /\ Len(mirror_played) = Len(mirror)
        /\ DOMAIN mirror = 1..Len(mirror)
    BY <2>1, Domains DEF IInv, Types
  <2>3. Len(mirror) = Len(inner)
    BY <2>1, AllAppended
  <2>4. \A i \in DOMAIN mirror : played[i] = mirror_played[i]
    BY <2>1 DEF IInv, Synced
  <2>. HIDE DEF B
  <2>. QED  BY <2>2, <2>3, <2>4, SeqExtensional
<1>. QED  BY <1>1, Invariance, PTL

(* Cassette.save at the end of the block: what was recorded when the block *)
(* began to exit is in the file when it is left without an error.          *)
THEOREM DueIsSaved == Spec => []DueSaved
<1>1. IInv => DueSaved
  BY DEF IInv, RecordedKept, DueSaved
<1>. QED  BY <1>1, Invariance, PTL

(* output_order with the orders claimed before the requests went out: the  *)
(* file of a block that waited for its threads lists the recordings the    *)
(* matcher cannot tell apart as they were sent, provided equal JSON values *)
(* are written alike.                                                      *)
THEOREM FileIsInIssueOrder ==
    ASSUME UniformSpelling
    PROVE  Spec => []FileInIssueOrder
<1>1. IInv => FileInIssueOrder
  BY DEF IInv, SaveSorted, FileInIssueOrder, SentOrderKept
<1>. QED  BY <1>1, Invariance, PTL
==============================================================================

---------------------------- MODULE PatchesProofs ----------------------------
(***************************************************************************)
(* Patches are counted exactly, blocks are covered while they run, and a   *)
(* request gets the cassette of its own context, for any number of blocks, *)
(* contexts, libraries and interceptor lists.                              *)
(***************************************************************************)
EXTENDS Patches, FiniteSetTheorems, TLAPS

-----------------------------------------------------------------------------
(* Facts about numbers and sequences.                                      *)

(* Sequences that agree everywhere are equal.                              *)
LEMMA SeqExtensional ==
    ASSUME NEW S, NEW s \in Seq(S), NEW t \in Seq(S), Len(s) = Len(t),
           \A i \in 1..Len(s) : s[i] = t[i]
    PROVE  s = t
  OBVIOUS

(* What RemoveAt returns.                                                  *)
LEMMA RemoveAtFacts ==
    ASSUME NEW S, NEW s \in Seq(S), NEW k \in 1..Len(s)
    PROVE  /\ RemoveAt(s, k) \in Seq(S) /\ Len(RemoveAt(s, k)) = Len(s) - 1
           /\ \A j \in 1..(Len(s) - 1) :
                RemoveAt(s, k)[j] = IF j < k THEN s[j] ELSE s[j + 1]
<1>. DEFINE a == SubSeq(s, 1, k - 1)
            b == SubSeq(s, k + 1, Len(s))
<1>1. a \in Seq(S) /\ Len(a) = k - 1 /\ \A j \in 1..(k - 1) : a[j] = s[j]
  OBVIOUS
<1>2. b \in Seq(S) /\ Len(b) = Len(s) - k /\ \A j \in 1..(Len(s) - k) : b[j] = s[k + j]
  OBVIOUS
<1>3. RemoveAt(s, k) = a \o b
  BY DEF RemoveAt
<1>. HIDE DEF a, b
<1>4. (a \o b) \in Seq(S) /\ Len(a \o b) = Len(a) + Len(b)
  <2>1. a \in Seq(S) /\ b \in Seq(S)
    BY <1>1, <1>2
  <2>. QED  BY <2>1
<1>5. \A j \in 1..(Len(a) + Len(b)) : (a \o b)[j] = IF j <= Len(a) THEN a[j] ELSE b[j - Len(a)]
  <2>1. a \in Seq(S) /\ b \in Seq(S)
    BY <1>1, <1>2
  <2>. QED  BY <2>1
<1>6. ASSUME NEW j \in 1..(Len(s) - 1)
      PROVE  (a \o b)[j] = IF j < k THEN s[j] ELSE s[j + 1]
  <2>1. CASE j < k
    BY <1>1, <1>2, <1>5, <2>1
  <2>2. CASE ~ (j < k)
    <3>1. (j - Len(a)) \in 1..(Len(s) - k) /\ k + (j - Len(a)) = j + 1 /\ ~ (j <= Len(a))
      BY <1>1, <2>2
    <3>2. (a \o b)[j] = b[j - Len(a)]
      BY <1>1, <1>2, <1>5, <3>1
    <3>. QED  BY <1>2, <2>2, <3>1, <3>2
  <2>. QED  BY <2>1, <2>2
<1>7. Len(a) + Len(b) = Len(s) - 1
  BY <1>1, <1>2
<1>. DEFINE t == a \o b
<1>8. t \in Seq(S) /\ Len(t) = Len(s) - 1
      /\ \A j \in 1..(Len(s) - 1) : t[j] = IF j < k THEN s[j] ELSE s[j + 1]
  BY <1>4, <1>6, <1>7
<1>9. RemoveAt(s, k) = t
  BY <1>3
<1>. HIDE DEF t
<1>. QED  BY <1>8, <1>9

(* What Front returns.                                                     *)
LEMMA FrontFacts ==
    ASSUME NEW S, NEW s \in Seq(S), s # <<>>
    PROVE  /\ Front(s) \in Seq(S) /\ Len(Front(s)) = Len(s) - 1 /\ Len(s) \in Nat \ {0}
           /\ \A i \in 1..(Len(s) - 1) : Front(s)[i] = s[i]
<1>1. Len(s) \in Nat \ {0}
  OBVIOUS
<1>2. PICK k \in 1..Len(s) : k = Len(s)
  BY <1>1
<1>. DEFINE t == SubSeq(s, 1, k - 1)
<1>3. t \in Seq(S) /\ Len(t) = k - 1 /\ \A i \in 1..(k - 1) : t[i] = s[i]
  OBVIOUS
<1>4. Front(s) = t
  BY <1>2 DEF Front
<1>. HIDE DEF t
<1>. QED  BY <1>1, <1>2, <1>3, <1>4

-----------------------------------------------------------------------------
(* The inductive invariant.                                                *)

Types ==
    /\ stage \in [Blocks -> Stages]
    /\ wants \in [Blocks -> Seq(Classes)] /\ held \in [Blocks -> Seq(Classes)]
    /\ token \in [Blocks -> Blocks \cup {None}]
    /\ installed \in [Classes -> Nat]
    /\ fallback \in Seq(Blocks)
    /\ lock \in Blocks \cup {None}
    /\ current \in [Contexts -> Blocks \cup {None}]
    /\ base \in [Contexts -> Blocks \cup {None}]
    /\ nest \in [Contexts -> Seq(Blocks)]
    /\ born \subseteq Contexts

(* The module lock is held by the block that is at work on `installed`.    *)
Locking == {"acquiring", "rollback", "releasing"}
LockHeld == \A b \in Blocks : lock = b <=> stage[b] \in Locking

(* What a block holds while it acquires, and from then until it releases.  *)
HeldByStage ==
    \A b \in Blocks :
        /\ stage[b] \in {"idle", "acquire", "save", "done", "failed"} => held[b] = <<>>
        /\ stage[b] = "acquiring" =>
             /\ Len(held[b]) <= Len(wants[b])
             /\ \A i \in 1..Len(held[b]) : held[b][i] = wants[b][i]
        /\ stage[b] \in {"set", "push", "active", "reset", "release"} => held[b] = wants[b]

Counts == \A c \in Classes : IsFiniteSet(Holds(c)) /\ installed[c] = Cardinality(Holds(c))

(* The fallback list names each active block once.                         *)
FallbackIsActive ==
    /\ \A i, j \in 1..Len(fallback) : fallback[i] = fallback[j] => i = j
    /\ \A i \in 1..Len(fallback) : stage[fallback[i]] = "active"
    /\ \A b \in Blocks : stage[b] = "active" => \E i \in 1..Len(fallback) : fallback[i] = b

(* A block is in one nest at most, once, all but the innermost of a nest   *)
(* are in their bodies, and only contexts that exist have a nest.          *)
NestsProper ==
    /\ \A x \in Contexts : \A i \in 1..Len(nest[x]) :
         /\ stage[nest[x][i]] \notin Over
         /\ i # Len(nest[x]) => stage[nest[x][i]] = "active"
    /\ \A x, y \in Contexts : \A i \in 1..Len(nest[x]), j \in 1..Len(nest[y]) :
         nest[x][i] = nest[y][j] => x = y /\ i = j
    /\ \A x \in Contexts : nest[x] # <<>> => x \in born

(* What is current below the i-th block of a nest, in a context that       *)
(* inherited `outer`.                                                      *)
Below(inner, outer, i) == IF i = 1 THEN outer ELSE inner[i - 1]

(* The current cassette is the innermost block's from its set to its       *)
(* reset, and the one below it before and after; the tokens lead back.     *)
Shown == {"push", "active", "reset"}
CurrentRight ==
    \A x \in Contexts :
        /\ nest[x] = <<>> => current[x] = base[x]
        /\ nest[x] # <<>> =>
             current[x] = IF stage[nest[x][Len(nest[x])]] \in Shown
                          THEN nest[x][Len(nest[x])] ELSE Below(nest[x], base[x], Len(nest[x]))
        /\ \A i \in 1..Len(nest[x]) :
             stage[nest[x][i]] \in Shown => token[nest[x][i]] = Below(nest[x], base[x], i)

IInv ==
    /\ Types
    /\ LockHeld
    /\ HeldByStage
    /\ Counts
    /\ FallbackIsActive
    /\ NestsProper
    /\ CurrentRight

-----------------------------------------------------------------------------
(* The actions, and what they leave alone.                                 *)

(* Every block step.                                                       *)
BlockStep(b) ==
    \/ AcquireBegin(b) \/ AcquireOne(b) \/ AcquireEnd(b) \/ InstallFails(b)
    \/ push_fallback_cassette(b) \/ pop_fallback_cassette(b)
    \/ ReleaseBegin(b) \/ ReleaseOne(b) \/ ReleaseEnd(b) \/ SaveAndLeave(b)
ContextStep(x, b) ==
    Enter(x, b) \/ EnterFails(x, b) \/ SetCurrent(x, b) \/ ResetCurrent(x, b)

(* The steps there are, one by one.                                        *)
LEMMA StepCases ==
    ASSUME [Next]_vars
    PROVE  \/ UNCHANGED vars
           \/ \E b \in Blocks : BlockStep(b)
           \/ \E b \in Blocks, x \in Contexts : ContextStep(x, b)
           \/ \E x \in Contexts : StartThread(x)
           \/ \E x, y \in Contexts : CopyContext(x, y)
           \/ \E x \in Contexts, c \in Classes : Request(x, c)
  BY Zenon DEF Next, Opening, Closing, BlockStep, ContextStep

(* Leaving keeps nests nests.                                              *)
LEMMA LeftTypes ==
    ASSUME Types, NEW b \in Blocks PROVE Left(b) \in [Contexts -> Seq(Blocks)]
<1>1. ASSUME NEW x \in Contexts, InnermostOf(x, b) PROVE Front(nest[x]) \in Seq(Blocks)
  <2>1. nest[x] \in Seq(Blocks) /\ nest[x] # <<>>
    BY <1>1 DEF Types, InnermostOf
  <2>. QED  BY <2>1, FrontFacts
<1>2. \A x \in Contexts : nest[x] \in Seq(Blocks)
  BY DEF Types
<1>. QED  BY <1>1, <1>2, Zenon DEF Left

(* An active block is in the fallback list once, and that entry is         *)
(* deleted.                                                                *)
LEMMA PopDeletes ==
    ASSUME Types, FallbackIsActive, NEW b \in Blocks, pop_fallback_cassette(b)
    PROVE  \E k \in 1..Len(fallback) :
               fallback[k] = b /\ fallback' = RemoveAt(fallback, k)
<1>. DEFINE at == {i \in DOMAIN fallback : fallback[i] = b}
<1>1. stage[b] = "active" /\ fallback' = IF at = {} THEN fallback ELSE RemoveAt(fallback, Max(at))
  BY DEF pop_fallback_cassette, Go
<1>2. PICK k \in 1..Len(fallback) : fallback[k] = b
  BY <1>1 DEF FallbackIsActive
<1>3. at = {k} /\ k \in Nat
  <2>1. DOMAIN fallback = 1..Len(fallback) /\ Len(fallback) \in Nat
    BY DEF Types
  <2>2. \A i \in DOMAIN fallback : fallback[i] = b <=> i = k
    BY <1>2, <2>1 DEF FallbackIsActive
  <2>. QED  BY <2>1, <2>2
<1>4. Max({k}) = k
  BY <1>3 DEF Max
<1>5. at # {} /\ Max(at) = k
  BY <1>3, <1>4
<1>6. fallback' = RemoveAt(fallback, Max(at))
  BY <1>1, <1>5, Zenon
<1>. HIDE DEF at
<1>. QED  BY <1>2, <1>5, <1>6

-----------------------------------------------------------------------------
(* Each conjunct is kept by each step.                                     *)

LEMMA TypesKept ==
    ASSUME IInv, [Next]_vars PROVE Types'
<1>. USE PatchesAssumption
<1>. USE DEF IInv
<1>1. CASE UNCHANGED vars
  BY <1>1 DEF Types, vars
<1>2. ASSUME NEW b \in Blocks, AcquireBegin(b) PROVE Types'
  BY <1>2 DEF Types, AcquireBegin, Go, Stages
<1>3. ASSUME NEW b \in Blocks, AcquireOne(b) PROVE Types'
  <2>. DEFINE cls == wants[b][Len(held[b]) + 1]
  <2>1. wants[b] \in Seq(Classes) /\ held[b] \in Seq(Classes) /\ Len(held[b]) + 1 \in 1..Len(wants[b])
    BY <1>3 DEF Types, AcquireOne
  <2>2. cls \in Classes
    BY <2>1
  <2>3. held' = [held EXCEPT ![b] = Append(held[b], cls)] /\ installed' = [installed EXCEPT ![cls] = @ + 1]
    BY <1>3 DEF AcquireOne
  <2>. HIDE DEF cls
  <2>4. Append(held[b], cls) \in Seq(Classes)
    BY <2>1, <2>2
  <2>5. held' \in [Blocks -> Seq(Classes)] /\ installed' \in [Classes -> Nat]
    BY <2>2, <2>3, <2>4 DEF Types
  <2>. QED  BY <1>3, <2>5 DEF Types, AcquireOne
<1>4. ASSUME NEW b \in Blocks, AcquireEnd(b) PROVE Types'
  BY <1>4 DEF Types, AcquireEnd, Go, Stages
<1>5. ASSUME NEW b \in Blocks, InstallFails(b) PROVE Types'
  BY <1>5 DEF Types, InstallFails, Go, Stages
<1>6. ASSUME NEW b \in Blocks, push_fallback_cassette(b) PROVE Types'
  BY <1>6 DEF Types, push_fallback_cassette, Go, Stages
<1>7. ASSUME NEW b \in Blocks, pop_fallback_cassette(b) PROVE Types'
  <2>1. PICK k \in 1..Len(fallback) : fallback' = RemoveAt(fallback, k)
    BY <1>7, PopDeletes
  <2>2. fallback' \in Seq(Blocks)
    BY <2>1, RemoveAtFacts DEF Types
  <2>. QED  BY <1>7, <2>2 DEF Types, pop_fallback_cassette, Go, Stages
<1>8. ASSUME NEW b \in Blocks, ReleaseBegin(b) PROVE Types'
  BY <1>8 DEF Types, ReleaseBegin, Go, Stages
<1>9. ASSUME NEW b \in Blocks, ReleaseOne(b) PROVE Types'
  <2>1. held[b] \in Seq(Classes) /\ held[b] # <<>>
    BY <1>9 DEF Types, ReleaseOne
  <2>2. Head(held[b]) \in Classes /\ Tail(held[b]) \in Seq(Classes)
    BY <2>1
  <2>3. installed' \in [Classes -> Nat] /\ held' \in [Blocks -> Seq(Classes)]
    BY <1>9, <2>2 DEF Types, ReleaseOne, Counted
  <2>. QED  BY <1>9, <2>3 DEF Types, ReleaseOne
<1>10. ASSUME NEW b \in Blocks, ReleaseEnd(b) PROVE Types'
  <2>1. nest' \in [Contexts -> Seq(Blocks)]
    BY <1>10, LeftTypes DEF Types, ReleaseEnd
  <2>. QED  BY <1>10, <2>1 DEF Types, ReleaseEnd, Stages
<1>11. ASSUME NEW b \in Blocks, SaveAndLeave(b) PROVE Types'
  <2>1. nest' \in [Contexts -> Seq(Blocks)]
    BY <1>11, LeftTypes DEF SaveAndLeave
  <2>. QED  BY <1>11, <2>1 DEF Types, SaveAndLeave, Go, Stages
<1>12. ASSUME NEW b \in Blocks, NEW x \in Contexts, Enter(x, b) PROVE Types'
  BY <1>12 DEF Types, Enter, Go, Stages
<1>13. ASSUME NEW b \in Blocks, NEW x \in Contexts, EnterFails(x, b) PROVE Types'
  BY <1>13 DEF Types, EnterFails, Go, Stages
<1>14. ASSUME NEW b \in Blocks, NEW x \in Contexts, SetCurrent(x, b) PROVE Types'
  BY <1>14 DEF Types, SetCurrent, Go, Stages
<1>15. ASSUME NEW b \in Blocks, NEW x \in Contexts, ResetCurrent(x, b) PROVE Types'
  BY <1>15 DEF Types, ResetCurrent, Go, Stages
<1>16. ASSUME NEW x \in Contexts, StartThread(x) PROVE Types'
  BY <1>16 DEF Types, StartThread
<1>17. ASSUME NEW x \in Contexts, NEW y \in Contexts, CopyContext(x, y) PROVE Types'
  BY <1>17 DEF Types, CopyContext
<1>18. ASSUME NEW x \in Contexts, NEW c \in Classes, Request(x, c) PROVE Types'
  BY <1>18 DEF Types, Request
<1>. QED
  BY <1>1, <1>2, <1>3, <1>4, <1>5, <1>6, <1>7, <1>8, <1>9, <1>10, <1>11, <1>12, <1>13,
     <1>14, <1>15, <1>16, <1>17, <1>18, StepCases, Zenon DEF BlockStep, ContextStep

(* Steps that only one conjunct could notice.                              *)
LEMMA LockKept ==
    ASSUME IInv, [Next]_vars PROVE LockHeld'
<1>. USE PatchesAssumption
<1>. USE DEF IInv, Types, LockHeld, Locking
<1>1. CASE UNCHANGED vars
  BY <1>1 DEF vars
<1>2. ASSUME NEW b \in Blocks, BlockStep(b) PROVE LockHeld'
  <2>1. CASE AcquireBegin(b)
    BY <2>1 DEF AcquireBegin, Go
  <2>2. CASE AcquireOne(b)
    BY <2>2 DEF AcquireOne
  <2>3. CASE AcquireEnd(b)
    BY <2>3 DEF AcquireEnd, Go
  <2>4. CASE InstallFails(b)
    BY <2>4 DEF InstallFails, Go
  <2>5. CASE push_fallback_cassette(b)
    BY <2>5 DEF push_fallback_cassette, Go
  <2>6. CASE pop_fallback_cassette(b)
    BY <2>6 DEF pop_fallback_cassette, Go
  <2>7. CASE ReleaseBegin(b)
    BY <2>7 DEF ReleaseBegin, Go
  <2>8. CASE ReleaseOne(b)
    BY <2>8 DEF ReleaseOne
  <2>9. CASE ReleaseEnd(b)
    BY <2>9 DEF ReleaseEnd
  <2>10. CASE SaveAndLeave(b)
    BY <2>10 DEF SaveAndLeave, Go
  <2>. QED
    BY <1>2, <2>1, <2>2, <2>3, <2>4, <2>5, <2>6, <2>7, <2>8, <2>9, <2>10, Zenon DEF BlockStep
<1>3. ASSUME NEW b \in Blocks, NEW x \in Contexts, ContextStep(x, b) PROVE LockHeld'
  <2>1. PICK from \in Stages \ Locking, to \in Stages \ Locking : Go(b, from, to)
    BY <1>3 DEF ContextStep, Enter, EnterFails, SetCurrent, ResetCurrent, Stages, Go
  <2>2. lock' = lock
    BY <1>3 DEF ContextStep, Enter, EnterFails, SetCurrent, ResetCurrent
  <2>. QED  BY <2>1, <2>2 DEF Go
<1>4. ASSUME NEW x \in Contexts,
             StartThread(x) \/ (\E y \in Contexts : CopyContext(x, y))
               \/ (\E c \in Classes : Request(x, c))
      PROVE  LockHeld'
  <2>1. stage' = stage /\ lock' = lock
    BY <1>4 DEF StartThread, CopyContext, Request
  <2>. QED  BY <2>1
<1>. QED  BY <1>1, <1>2, <1>3, <1>4, StepCases, Zenon

LEMMA HeldKept ==
    ASSUME IInv, [Next]_vars PROVE HeldByStage'
<1>. USE DEF IInv, Types, HeldByStage
<1>1. CASE UNCHANGED vars
  BY <1>1 DEF vars
<1>2. ASSUME NEW b \in Blocks, BlockStep(b) PROVE HeldByStage'
  <2>1. CASE AcquireBegin(b)
    BY <2>1 DEF AcquireBegin, Go
  <2>2. CASE AcquireOne(b)
    <3>. DEFINE cls == wants[b][Len(held[b]) + 1]
    <3>1. /\ wants[b] \in Seq(Classes) /\ held[b] \in Seq(Classes)
          /\ Len(held[b]) + 1 \in 1..Len(wants[b]) /\ stage[b] = "acquiring"
          /\ held' = [held EXCEPT ![b] = Append(held[b], cls)]
          /\ stage' = stage /\ wants' = wants
      BY <2>2 DEF AcquireOne
    <3>2. Append(held[b], cls) = held'[b] /\ Len(held'[b]) = Len(held[b]) + 1
      BY <3>1
    <3>3. \A i \in 1..Len(held'[b]) : held'[b][i] = wants[b][i]
      BY <3>1, <3>2
    <3>4. \A d \in Blocks : d # b => held'[d] = held[d]
      BY <3>1
    <3>. HIDE DEF cls
    <3>. QED  BY <3>1, <3>2, <3>3, <3>4
  <2>3. CASE AcquireEnd(b)
    <3>1. held[b] \in Seq(Classes) /\ wants[b] \in Seq(Classes) /\ Len(held[b]) = Len(wants[b])
      BY <2>3 DEF AcquireEnd
    <3>2. \A i \in 1..Len(held[b]) : held[b][i] = wants[b][i]
      BY <2>3 DEF AcquireEnd, Go
    <3>3. held[b] = wants[b]
      BY <3>1, <3>2, SeqExtensional
    <3>. QED  BY <2>3, <3>3 DEF AcquireEnd, Go
  <2>4. CASE InstallFails(b)
    BY <2>4 DEF InstallFails, Go
  <2>5. CASE push_fallback_cassette(b)
    BY <2>5 DEF push_fallback_cassette, Go
  <2>6. CASE pop_fallback_cassette(b)
    BY <2>6 DEF pop_fallback_cassette, Go
  <2>7. CASE ReleaseBegin(b)
    BY <2>7 DEF ReleaseBegin, Go
  <2>8. CASE ReleaseOne(b)
    BY <2>8 DEF ReleaseOne
  <2>9. CASE ReleaseEnd(b)
    BY <2>9 DEF ReleaseEnd
  <2>10. CASE SaveAndLeave(b)
    BY <2>10, SMTT(30) DEF SaveAndLeave, Go
  <2>. QED
    BY <1>2, <2>1, <2>2, <2>3, <2>4, <2>5, <2>6, <2>7, <2>8, <2>9, <2>10, Zenon DEF BlockStep
<1>3. ASSUME NEW b \in Blocks, NEW x \in Contexts, ContextStep(x, b) PROVE HeldByStage'
  <2>1. CASE Enter(x, b)
    BY <2>1 DEF Enter, Go
  <2>2. CASE EnterFails(x, b)
    BY <2>2 DEF EnterFails, Go
  <2>3. CASE SetCurrent(x, b)
    BY <2>3 DEF SetCurrent, Go
  <2>4. CASE ResetCurrent(x, b)
    BY <2>4 DEF ResetCurrent, Go
  <2>. QED  BY <1>3, <2>1, <2>2, <2>3, <2>4 DEF ContextStep
<1>4. ASSUME NEW x \in Contexts,
             StartThread(x) \/ (\E y \in Contexts : CopyContext(x, y))
               \/ (\E c \in Classes : Request(x, c))
      PROVE  HeldByStage'
  <2>1. stage' = stage /\ held' = held /\ wants' = wants
    BY <1>4 DEF StartThread, CopyContext, Request
  <2>. QED  BY <2>1
<1>. QED  BY <1>1, <1>2, <1>3, <1>4, StepCases, Zenon

-----------------------------------------------------------------------------
(* Counting: who holds a class, with the positions, as a set of pairs.     *)

HoldsIn(h, c) == {p \in Blocks \X Nat : p[2] \in 1..Len(h[p[1]]) /\ h[p[1]][p[2]] = c}

LEMMA HoldsIsHoldsIn ==
    ASSUME NEW h \in [Blocks -> Seq(Classes)], NEW c
    PROVE  UNION {{b} \X {i \in DOMAIN h[b] : h[b][i] = c} : b \in Blocks} = HoldsIn(h, c)
<1>. DEFINE Pairs == UNION {{b} \X {i \in DOMAIN h[b] : h[b][i] = c} : b \in Blocks}
<1>1. \A b \in Blocks : DOMAIN h[b] = 1..Len(h[b]) /\ Len(h[b]) \in Nat
  OBVIOUS
<1>2. \A p : p \in Pairs <=> \E b \in Blocks : p \in {b} \X {i \in DOMAIN h[b] : h[b][i] = c}
  BY Zenon
<1>. HIDE DEF Pairs
<1>3. ASSUME NEW p PROVE p \in Pairs <=> p \in HoldsIn(h, c)
  <2>1. ASSUME p \in Pairs PROVE p \in HoldsIn(h, c)
    <3>1. PICK b \in Blocks : p \in {b} \X {i \in DOMAIN h[b] : h[b][i] = c}
      BY <1>2, <2>1
    <3>2. PICK i \in DOMAIN h[b] : p = <<b, i>> /\ h[b][i] = c
      BY <3>1
    <3>3. i \in 1..Len(h[b]) /\ i \in Nat
      BY <1>1, <3>2
    <3>. QED  BY <3>2, <3>3 DEF HoldsIn
  <2>2. ASSUME p \in HoldsIn(h, c) PROVE p \in Pairs
    <3>1. PICK b \in Blocks, i \in Nat : p = <<b, i>> /\ i \in 1..Len(h[b]) /\ h[b][i] = c
      BY <2>2 DEF HoldsIn
    <3>2. i \in DOMAIN h[b]
      BY <1>1, <3>1
    <3>3. p \in {b} \X {j \in DOMAIN h[b] : h[b][j] = c}
      BY <3>1, <3>2
    <3>. QED  BY <1>2, <3>3
  <2>. QED  BY <2>1, <2>2
<1>. QED  BY <1>3 DEF Pairs

Appended(g, h, b, cls) == g = [h EXCEPT ![b] = Append(h[b], cls)]
NextPair(h, b) == <<b, Len(h[b]) + 1>>

(* Acquiring one more class adds one pair to that class alone.             *)
LEMMA HoldsAppend ==
    ASSUME NEW h \in [Blocks -> Seq(Classes)], NEW b \in Blocks, NEW cls \in Classes, NEW c,
           NEW g, Appended(g, h, b, cls)
    PROVE  /\ \A p : p \in HoldsIn(g, c) <=> p \in HoldsIn(h, c) \/ (c = cls /\ p = NextPair(h, b))
           /\ NextPair(h, b) \notin HoldsIn(h, c)
<1>1. PICK s \in Seq(Classes) : s = h[b]
  OBVIOUS
<1>2. PICK n \in Nat : n = Len(s)
  OBVIOUS
<1>3. PICK t \in Seq(Classes) : t = Append(s, cls)
  <2>1. Append(s, cls) \in Seq(Classes)
    OBVIOUS
  <2>. QED  BY <2>1, Zenon
<1>4. Len(t) = n + 1 /\ t[n + 1] = cls /\ \A i \in 1..n : t[i] = s[i]
  BY <1>2, <1>3
<1>5. g[b] = t /\ \A d \in Blocks : d # b => g[d] = h[d]
  BY <1>1, <1>3 DEF Appended
<1>6. ASSUME NEW d \in Blocks, NEW i \in Nat
      PROVE  (i \in 1..Len(g[d]) /\ g[d][i] = c)
                <=> ((i \in 1..Len(h[d]) /\ h[d][i] = c) \/ (d = b /\ i = n + 1 /\ c = cls))
  <2>1. CASE d # b
    BY <1>5, <2>1
  <2>2. CASE d = b
    <3>1. g[d] = t /\ h[d] = s
      BY <1>1, <1>5, <2>2
    <3>. QED  BY <1>2, <1>4, <2>2, <3>1
  <2>. QED  BY <2>1, <2>2
<1>7. \A d \in Blocks, i \in Nat :
        /\ <<d, i>> \in HoldsIn(g, c) <=> (i \in 1..Len(g[d]) /\ g[d][i] = c)
        /\ <<d, i>> \in HoldsIn(h, c) <=> (i \in 1..Len(h[d]) /\ h[d][i] = c)
  BY DEF HoldsIn
<1>8. \A d \in Blocks, i \in Nat :
        <<d, i>> \in HoldsIn(g, c)
          <=> (<<d, i>> \in HoldsIn(h, c) \/ (<<d, i>> = <<b, n + 1>> /\ c = cls))
  BY <1>6, <1>7
<1>9. HoldsIn(g, c) \subseteq Blocks \X Nat /\ HoldsIn(h, c) \subseteq Blocks \X Nat
      /\ <<b, n + 1>> \in Blocks \X Nat
  BY DEF HoldsIn
<1>. DEFINE G == HoldsIn(g, c)
            H == HoldsIn(h, c)
            new == <<b, n + 1>>
            All == Blocks \X Nat
<1>. HIDE DEF G, H
<1>90. \A p \in All : p \in G <=> (p \in H \/ (p = new /\ c = cls))
  <2>1. ASSUME NEW p \in All PROVE p \in G <=> (p \in H \/ (p = new /\ c = cls))
    <3>1. PICK d \in Blocks, i \in Nat : p = <<d, i>>
      OBVIOUS
    <3>2. <<d, i>> \in G <=> (<<d, i>> \in H \/ (<<d, i>> = <<b, n + 1>> /\ c = cls))
      BY <1>8 DEF G, H
    <3>. QED  BY <3>1, <3>2
  <2>. QED  BY <2>1
<1>91. G \subseteq All /\ H \subseteq All /\ new \in All
  BY <1>9 DEF G, H
<1>. HIDE DEF new, All
<1>92. c = cls => G = H \cup {new}
  BY <1>90, <1>91
<1>93. c # cls => G = H
  BY <1>90, <1>91
<1>10. ASSUME c = cls PROVE HoldsIn(g, c) = HoldsIn(h, c) \cup {<<b, n + 1>>}
  BY <1>10, <1>92, Zenon DEF G, H, new
<1>11. ASSUME c # cls PROVE HoldsIn(g, c) = HoldsIn(h, c)
  BY <1>11, <1>93, Zenon DEF G, H
<1>12. <<b, n + 1>> \notin HoldsIn(h, c)
  BY <1>1, <1>2, <1>7
<1>. QED  BY <1>1, <1>2, <1>10, <1>11, <1>12 DEF NextPair

(* Releasing the first class held takes one pair from that class alone.    *)
LEMMA HoldsTail ==
    ASSUME NEW h \in [Blocks -> Seq(Classes)], NEW b \in Blocks, h[b] # <<>>, NEW c,
           NEW g, g = [h EXCEPT ![b] = Tail(h[b])]
    PROVE  /\ ExistsBijection(HoldsIn(h, c) \ {<<b, 1>>}, HoldsIn(g, c))
           /\ <<b, 1>> \in HoldsIn(h, c) <=> c = Head(h[b])
<1>1. PICK s \in Seq(Classes) : s = h[b]
  OBVIOUS
<1>2. PICK n \in Nat : n + 1 = Len(s)
  <2>1. s # <<>>
    BY <1>1
  <2>2. Len(s) \in Nat /\ Len(s) # 0
    BY <2>1
  <2>3. Len(s) - 1 \in Nat /\ (Len(s) - 1) + 1 = Len(s)
    BY <2>2
  <2>. QED  BY <2>3
<1>3. PICK t \in Seq(Classes) : t = Tail(s)
  <2>1. s # <<>>
    BY <1>1
  <2>2. Tail(s) \in Seq(Classes)
    BY <2>1
  <2>. QED  BY <2>2, Zenon
<1>4. Len(t) = n /\ \A i \in 1..n : t[i] = s[i + 1]
  BY <1>1, <1>2, <1>3
<1>5. g[b] = t /\ \A d \in Blocks : d # b => g[d] = h[d]
  BY <1>1, <1>3
<1>7. \A d \in Blocks, i \in Nat :
        /\ <<d, i>> \in HoldsIn(g, c) <=> (i \in 1..Len(g[d]) /\ g[d][i] = c)
        /\ <<d, i>> \in HoldsIn(h, c) <=> (i \in 1..Len(h[d]) /\ h[d][i] = c)
  BY DEF HoldsIn
<1>8. \A i \in Nat : <<b, i>> \in HoldsIn(g, c) <=> (i # 0 /\ <<b, i + 1>> \in HoldsIn(h, c))
  <2>1. ASSUME NEW i \in Nat
        PROVE  (i \in 1..n /\ t[i] = c) <=> (i # 0 /\ i + 1 \in 1..(n + 1) /\ s[i + 1] = c)
    BY <1>4
  <2>2. ASSUME NEW i \in Nat
        PROVE  <<b, i>> \in HoldsIn(g, c) <=> (i \in 1..n /\ t[i] = c)
    BY <1>4, <1>5, <1>7
  <2>3. ASSUME NEW i \in Nat
        PROVE  <<b, i + 1>> \in HoldsIn(h, c) <=> (i + 1 \in 1..(n + 1) /\ s[i + 1] = c)
    BY <1>1, <1>2, <1>7
  <2>. QED  BY <2>1, <2>2, <2>3
<1>9. \A d \in Blocks, i \in Nat :
        d # b => (<<d, i>> \in HoldsIn(g, c) <=> <<d, i>> \in HoldsIn(h, c))
  BY <1>5, <1>7
<1>10. <<b, 0>> \notin HoldsIn(h, c)
  BY <1>7
<1>. DEFINE D == HoldsIn(h, c) \ {<<b, 1>>}
            E == HoldsIn(g, c)
            f == [p \in D |-> IF p[1] = b THEN <<b, p[2] - 1>> ELSE p]
<1>11. D \subseteq Blocks \X Nat /\ E \subseteq Blocks \X Nat
  BY DEF HoldsIn
<1>12. \A d \in Blocks, i \in Nat :
         <<d, i>> \in D <=> (IF d = b THEN i > 1 /\ <<b, i - 1>> \in E ELSE <<d, i>> \in E)
  <2>1. ASSUME NEW i \in Nat
        PROVE  <<b, i>> \in D <=> (i > 1 /\ <<b, i - 1>> \in E)
    <3>1. CASE i = 0 \/ i = 1
      <4>1. <<b, 0>> \notin D /\ <<b, 1>> \notin D /\ ~ (i > 1)
        BY <1>10, <3>1
      <4>. HIDE DEF D
      <4>. QED  BY <3>1, <4>1
    <3>2. CASE i > 1
      <4>1. i - 1 \in Nat /\ i - 1 # 0 /\ (i - 1) + 1 = i
        BY <3>2
      <4>2. <<b, i - 1>> \in E <=> <<b, i>> \in HoldsIn(h, c)
        BY <1>8, <4>1
      <4>. QED  BY <3>2, <4>2
    <3>. QED  BY <3>1, <3>2
  <2>2. ASSUME NEW d \in Blocks, NEW i \in Nat, d # b PROVE <<d, i>> \in D <=> <<d, i>> \in E
    BY <1>9, <2>2
  <2>. QED  BY <2>1, <2>2
<1>. HIDE DEF D, E
<1>13. \A d \in Blocks, i \in Nat :
         <<d, i>> \in D => f[<<d, i>>] = IF d = b THEN <<b, i - 1>> ELSE <<d, i>>
  OBVIOUS
<1>14. f \in [D -> E]
  <2>1. ASSUME NEW p \in D PROVE (IF p[1] = b THEN <<b, p[2] - 1>> ELSE p) \in E
    <3>1. PICK d \in Blocks, i \in Nat : p = <<d, i>>
      BY <1>11
    <3>. QED  BY <1>12, <3>1
  <2>. QED  BY <2>1
<1>. DEFINE F == f
<1>15. F \in [D -> E] /\ \A d \in Blocks, i \in Nat :
         <<d, i>> \in D => F[<<d, i>>] = IF d = b THEN <<b, i - 1>> ELSE <<d, i>>
  BY <1>13, <1>14
<1>. HIDE DEF F
<1>16. ASSUME NEW p \in D, NEW q \in D, F[p] = F[q] PROVE p = q
  <2>1. PICK d \in Blocks, i \in Nat : p = <<d, i>>
    BY <1>11
  <2>2. PICK e \in Blocks, j \in Nat : q = <<e, j>>
    BY <1>11
  <2>3. F[p] = (IF d = b THEN <<b, i - 1>> ELSE <<d, i>>)
    BY <1>15, <2>1
  <2>4. F[q] = (IF e = b THEN <<b, j - 1>> ELSE <<e, j>>)
    BY <1>15, <2>2
  <2>5. F[p][1] = d /\ F[p][2] = (IF d = b THEN i - 1 ELSE i)
    BY <2>3
  <2>6. F[q][1] = e /\ F[q][2] = (IF e = b THEN j - 1 ELSE j)
    BY <2>4
  <2>7. d = e
    BY <1>16, <2>5, <2>6, Zenon
  <2>8. (IF d = b THEN i - 1 ELSE i) = (IF d = b THEN j - 1 ELSE j)
    BY <1>16, <2>5, <2>6, <2>7, Zenon
  <2>9. i = j
    BY <2>8
  <2>. QED  BY <2>1, <2>2, <2>7, <2>9
<1>17. ASSUME NEW q \in E PROVE \E p \in D : F[p] = q
  <2>1. PICK e \in Blocks, j \in Nat : q = <<e, j>>
    BY <1>11
  <2>2. CASE e # b
    BY <1>12, <1>15, <2>1, <2>2
  <2>3. CASE e = b
    <3>1. j # 0
      BY <1>8, <2>1, <2>3 DEF E
    <3>2. j + 1 \in Nat /\ j + 1 > 1 /\ (j + 1) - 1 = j
      BY <3>1
    <3>3. <<b, j + 1>> \in D
      BY <1>12, <2>1, <2>3, <3>2
    <3>4. F[<<b, j + 1>>] = <<b, j>>
      BY <1>15, <3>2, <3>3
    <3>. QED  BY <2>1, <2>3, <3>3, <3>4
  <2>. QED  BY <2>2, <2>3
<1>18. F \in Bijection(D, E)
  BY <1>15, <1>16, <1>17 DEF Bijection, Injection, Surjection, IsInjective
<1>19. ExistsBijection(D, E)
  BY <1>18 DEF ExistsBijection
<1>20. <<b, 1>> \in HoldsIn(h, c) <=> c = Head(s)
  BY <1>1, <1>2, <1>7
<1>. QED  BY <1>1, <1>19, <1>20 DEF D, E

LEMMA CountsKept ==
    ASSUME IInv, [Next]_vars PROVE Counts'
<1>1. /\ held \in [Blocks -> Seq(Classes)] /\ held' \in [Blocks -> Seq(Classes)]
      /\ installed \in [Classes -> Nat]
  BY TypesKept DEF IInv, Types
<1>2. \A c : Holds(c) = HoldsIn(held, c) /\ Holds(c)' = HoldsIn(held', c)
  <2>1. ASSUME NEW c PROVE Holds(c) = HoldsIn(held, c)
    BY <1>1, HoldsIsHoldsIn DEF Holds
  <2>2. ASSUME NEW c PROVE Holds(c)' = HoldsIn(held', c)
    BY <1>1, HoldsIsHoldsIn DEF Holds
  <2>. QED  BY <2>1, <2>2
<1>3. \A c \in Classes :
        IsFiniteSet(HoldsIn(held, c)) /\ installed[c] = Cardinality(HoldsIn(held, c))
  BY <1>2 DEF IInv, Counts
<1>4. SUFFICES ASSUME NEW c \in Classes
               PROVE  /\ IsFiniteSet(HoldsIn(held', c))
                      /\ installed'[c] = Cardinality(HoldsIn(held', c))
  BY <1>2 DEF Counts
<1>5. CASE UNCHANGED <<held, installed>>
  BY <1>3, <1>5
<1>6. ASSUME NEW b \in Blocks, AcquireOne(b)
      PROVE  /\ IsFiniteSet(HoldsIn(held', c))
             /\ installed'[c] = Cardinality(HoldsIn(held', c))
  <2>. DEFINE cls == wants[b][Len(held[b]) + 1]
              pair == NextPair(held, b)
              H == HoldsIn(held, c)
              G == HoldsIn(held', c)
  <2>1. wants[b] \in Seq(Classes) /\ held[b] \in Seq(Classes) /\ Len(held[b]) + 1 \in 1..Len(wants[b])
    BY <1>6 DEF AcquireOne, IInv, Types
  <2>2. cls \in Classes
    BY <2>1
  <2>3. held' = [held EXCEPT ![b] = Append(held[b], cls)] /\ installed' = [installed EXCEPT ![cls] = @ + 1]
    BY <1>6 DEF AcquireOne
  <2>. HIDE DEF cls
  <2>4. (c = cls => G = H \cup {pair}) /\ (c # cls => G = H) /\ pair \notin H
    <3>1. Appended(held', held, b, cls)
      BY <2>3 DEF Appended
    <3>2. held \in [Blocks -> Seq(Classes)]
      BY <1>1
    <3>3. (\A p : p \in G <=> p \in H \/ (c = cls /\ p = pair)) /\ pair \notin H
      BY <2>2, <3>1, <3>2, HoldsAppend
    <3>. HIDE DEF G, H, pair
    <3>4. (c = cls => G = H \cup {pair}) /\ (c # cls => G = H)
      BY <3>3
    <3>. QED  BY <3>3, <3>4
  <2>5. IsFiniteSet(H) /\ installed[c] = Cardinality(H) /\ installed[c] \in Nat
    BY <1>1, <1>3
  <2>. HIDE DEF H, G, pair
  <2>6. IsFiniteSet(H \cup {pair}) /\ Cardinality(H \cup {pair}) = Cardinality(H) + 1
    BY <2>4, <2>5, FS_AddElement
  <2>7. installed'[c] = IF c = cls THEN installed[c] + 1 ELSE installed[c]
    BY <1>1, <2>2, <2>3
  <2>8. IsFiniteSet(G) /\ installed'[c] = Cardinality(G)
    BY <2>4, <2>5, <2>6, <2>7
  <2>. QED  BY <2>8 DEF G
<1>7. ASSUME NEW b \in Blocks, ReleaseOne(b)
      PROVE  /\ IsFiniteSet(HoldsIn(held', c))
             /\ installed'[c] = Cardinality(HoldsIn(held', c))
  <2>. DEFINE cls == Head(held[b])
              pair == <<b, 1>>
              H == HoldsIn(held, c)
              G == HoldsIn(held', c)
  <2>1. held[b] \in Seq(Classes) /\ held[b] # <<>>
    BY <1>1, <1>7 DEF ReleaseOne
  <2>2. cls \in Classes
    BY <2>1
  <2>3. /\ held' = [held EXCEPT ![b] = Tail(held[b])]
        /\ installed' = [installed EXCEPT ![cls] = IF @ <= 1 THEN 0 ELSE @ - 1]
    BY <1>7 DEF ReleaseOne, Counted
  <2>4. ExistsBijection(H \ {pair}, G) /\ (pair \in H <=> c = cls)
    BY <1>1, <2>1, <2>3, HoldsTail
  <2>. HIDE DEF cls
  <2>5. IsFiniteSet(H) /\ installed[c] = Cardinality(H) /\ installed[c] \in Nat
    BY <1>1, <1>3
  <2>. HIDE DEF H, G, pair
  <2>6. /\ IsFiniteSet(H \ {pair})
        /\ Cardinality(H \ {pair}) = IF c = cls THEN Cardinality(H) - 1 ELSE Cardinality(H)
    BY <2>4, <2>5, FS_RemoveElement
  <2>7. IsFiniteSet(G) /\ Cardinality(G) = Cardinality(H \ {pair})
    BY <2>4, <2>6, FS_Bijection
  <2>8. c = cls => installed[c] # 0
    BY <2>4, <2>5, FS_EmptySet
  <2>9. installed'[c] = IF c = cls THEN installed[c] - 1 ELSE installed[c]
    <3>1. CASE c = cls
      BY <1>1, <2>2, <2>3, <2>5, <2>8, <3>1
    <3>2. CASE c # cls
      BY <1>1, <2>2, <2>3, <3>2
    <3>. QED  BY <3>1, <3>2
  <2>10. IsFiniteSet(G) /\ installed'[c] = Cardinality(G)
    BY <2>5, <2>6, <2>7, <2>9
  <2>. QED  BY <2>10 DEF G
<1>8. \/ UNCHANGED <<held, installed>>
      \/ \E b \in Blocks : AcquireOne(b) \/ ReleaseOne(b)
  <2>1. ASSUME UNCHANGED vars PROVE UNCHANGED <<held, installed>>
    BY <2>1 DEF vars
  <2>2. ASSUME NEW b \in Blocks, BlockStep(b)
        PROVE  UNCHANGED <<held, installed>> \/ AcquireOne(b) \/ ReleaseOne(b)
    BY <2>2 DEF BlockStep, AcquireBegin, AcquireEnd, InstallFails, push_fallback_cassette,
                pop_fallback_cassette, ReleaseBegin, ReleaseEnd, SaveAndLeave
  <2>3. ASSUME NEW b \in Blocks, NEW x \in Contexts, ContextStep(x, b)
        PROVE  UNCHANGED <<held, installed>>
    BY <2>3 DEF ContextStep, Enter, EnterFails, SetCurrent, ResetCurrent
  <2>4. ASSUME NEW x \in Contexts,
               StartThread(x) \/ (\E y \in Contexts : CopyContext(x, y))
                 \/ (\E d \in Classes : Request(x, d))
        PROVE  UNCHANGED <<held, installed>>
    BY <2>4 DEF StartThread, CopyContext, Request
  <2>. QED  BY <2>1, <2>2, <2>3, <2>4, StepCases, Zenon
<1>. QED  BY <1>5, <1>6, <1>7, <1>8, Zenon

-----------------------------------------------------------------------------
(* The fallback list.                                                      *)

LEMMA FallbackKept ==
    ASSUME IInv, [Next]_vars PROVE FallbackIsActive'
<1>1. /\ stage \in [Blocks -> Stages] /\ fallback \in Seq(Blocks)
      /\ \A i \in 1..Len(fallback) : fallback[i] \in Blocks
  BY DEF IInv, Types
<1>2. ASSUME fallback' = fallback,
             \A b \in Blocks : stage'[b] = "active" <=> stage[b] = "active"
      PROVE  FallbackIsActive'
  BY <1>1, <1>2 DEF IInv, FallbackIsActive
<1>3. ASSUME NEW b \in Blocks, push_fallback_cassette(b) PROVE FallbackIsActive'
  <2>1. PICK n \in Nat : n = Len(fallback)
    BY <1>1
  <2>2. stage[b] = "push" /\ fallback' = Append(fallback, b)
        /\ \A d \in Blocks : stage'[d] = IF d = b THEN "active" ELSE stage[d]
    BY <1>1, <1>3 DEF push_fallback_cassette, Go
  <2>3. Len(fallback') = n + 1 /\ fallback'[n + 1] = b /\ \A i \in 1..n : fallback'[i] = fallback[i]
    BY <1>1, <2>1, <2>2
  <2>4. \A i \in 1..n : fallback[i] # b /\ fallback[i] \in Blocks /\ stage[fallback[i]] = "active"
    BY <1>1, <2>1, <2>2 DEF IInv, FallbackIsActive
  <2>5. \A i, j \in 1..(n + 1) : fallback'[i] = fallback'[j] => i = j
    <3>1. \A i, j \in 1..n : fallback[i] = fallback[j] => i = j
      BY <2>1 DEF IInv, FallbackIsActive
    <3>. QED  BY <2>3, <2>4, <3>1
  <2>6. \A i \in 1..(n + 1) : stage'[fallback'[i]] = "active"
    BY <2>2, <2>3, <2>4
  <2>7. ASSUME NEW d \in Blocks, stage'[d] = "active"
        PROVE  \E i \in 1..(n + 1) : fallback'[i] = d
    <3>1. CASE d = b
      BY <2>3, <3>1
    <3>2. CASE d # b
      <4>1. PICK i \in 1..n : fallback[i] = d
        BY <2>1, <2>2, <2>7, <3>2 DEF IInv, FallbackIsActive
      <4>. QED  BY <2>3, <4>1
    <3>. QED  BY <3>1, <3>2
  <2>. QED  BY <2>3, <2>5, <2>6, <2>7 DEF FallbackIsActive
<1>4. ASSUME NEW b \in Blocks, pop_fallback_cassette(b) PROVE FallbackIsActive'
  <2>1. PICK k \in 1..Len(fallback) : fallback[k] = b /\ fallback' = RemoveAt(fallback, k)
    BY <1>4, PopDeletes DEF IInv
  <2>2. PICK n \in Nat : n = Len(fallback)
    BY <1>1
  <2>3. Len(fallback') = n - 1
        /\ \A j \in 1..(n - 1) : fallback'[j] = IF j < k THEN fallback[j] ELSE fallback[j + 1]
    BY <1>1, <2>1, <2>2, RemoveAtFacts
  <2>4. \A d \in Blocks : stage'[d] = IF d = b THEN "reset" ELSE stage[d]
    BY <1>1, <1>4 DEF pop_fallback_cassette, Go
  <2>5. /\ \A i, j \in 1..n : fallback[i] = fallback[j] => i = j
        /\ \A i \in 1..n : fallback[i] \in Blocks /\ stage[fallback[i]] = "active"
        /\ k \in 1..n
    BY <1>1, <2>1, <2>2 DEF IInv, FallbackIsActive
  <2>6. \A i, j \in 1..(n - 1) : fallback'[i] = fallback'[j] => i = j
    BY <2>3, <2>5
  <2>7. \A i \in 1..(n - 1) : stage'[fallback'[i]] = "active"
    <3>1. \A i \in 1..(n - 1) : fallback'[i] # b /\ fallback'[i] \in Blocks
                                /\ stage[fallback'[i]] = "active"
      BY <2>1, <2>3, <2>5
    <3>. QED  BY <2>4, <3>1
  <2>8. ASSUME NEW d \in Blocks, stage'[d] = "active"
        PROVE  \E i \in 1..(n - 1) : fallback'[i] = d
    <3>1. PICK i \in 1..n : fallback[i] = d /\ d # b
      BY <2>2, <2>4, <2>8 DEF IInv, FallbackIsActive
    <3>2. CASE i < k
      <4>1. i \in 1..(n - 1) /\ fallback'[i] = fallback[i]
        BY <2>3, <2>5, <3>2
      <4>. QED  BY <3>1, <4>1
    <3>3. CASE i > k
      <4>1. i - 1 \in 1..(n - 1) /\ ~ (i - 1 < k) /\ (i - 1) + 1 = i
        BY <2>5, <3>3
      <4>2. fallback'[i - 1] = fallback[i]
        BY <2>3, <4>1
      <4>. QED  BY <3>1, <4>1, <4>2
    <3>4. i # k
      BY <2>1, <3>1
    <3>. QED  BY <2>5, <3>2, <3>3, <3>4
  <2>. QED  BY <2>3, <2>6, <2>7, <2>8 DEF FallbackIsActive
<1>5. \/ fallback' = fallback /\ \A b \in Blocks : stage'[b] = "active" <=> stage[b] = "active"
      \/ \E b \in Blocks : push_fallback_cassette(b) \/ pop_fallback_cassette(b)
  <2>1. ASSUME UNCHANGED vars PROVE fallback' = fallback /\ stage' = stage
    BY <2>1 DEF vars
  <2>2. ASSUME NEW b \in Blocks, BlockStep(b)
        PROVE  \/ fallback' = fallback /\ \A d \in Blocks : stage'[d] = "active" <=> stage[d] = "active"
               \/ push_fallback_cassette(b) \/ pop_fallback_cassette(b)
    BY <1>1, <2>2 DEF BlockStep, AcquireBegin, AcquireOne, AcquireEnd, InstallFails, ReleaseBegin,
                ReleaseOne, ReleaseEnd, SaveAndLeave, Go
  <2>3. ASSUME NEW b \in Blocks, NEW x \in Contexts, ContextStep(x, b)
        PROVE  fallback' = fallback /\ \A d \in Blocks : stage'[d] = "active" <=> stage[d] = "active"
    BY <1>1, <2>3 DEF ContextStep, Enter, EnterFails, SetCurrent, ResetCurrent, Go
  <2>4. ASSUME NEW x \in Contexts,
               StartThread(x) \/ (\E y \in Contexts : CopyContext(x, y))
                 \/ (\E d \in Classes : Request(x, d))
        PROVE  fallback' = fallback /\ stage' = stage
    BY <2>4 DEF StartThread, CopyContext, Request
  <2>. QED  BY <2>1, <2>2, <2>3, <2>4, StepCases, Zenon
<1>. QED  BY <1>2, <1>3, <1>4, <1>5, Zenon

-----------------------------------------------------------------------------
(* Nests.                                                                  *)

LEMMA InnermostIs ==
    ASSUME Types, NEW x \in Contexts, NEW b
    PROVE  InnermostOf(x, b) <=> Len(nest[x]) # 0 /\ nest[x][Len(nest[x])] = b
<1>1. nest[x] \in Seq(Blocks)
  BY DEF Types
<1>2. nest[x] # <<>> <=> Len(nest[x]) # 0
  BY <1>1
<1>. QED  BY <1>2, Zenon DEF InnermostOf, Last

(* What is left of the nests when b is over.                               *)
LEMMA LeftIs ==
    ASSUME Types, NEW x \in Contexts, NEW b
    PROVE  /\ InnermostOf(x, b) =>
                /\ Len(nest[x]) \in Nat \ {0} /\ nest[x][Len(nest[x])] = b
                /\ Len(Left(b)[x]) = Len(nest[x]) - 1
                /\ \A i \in 1..(Len(nest[x]) - 1) : Left(b)[x][i] = nest[x][i]
           /\ ~ InnermostOf(x, b) => Left(b)[x] = nest[x]
<1>1. PICK s \in Seq(Blocks) : s = nest[x]
  BY DEF Types
<1>2. Left(b)[x] = IF InnermostOf(x, b) THEN Front(s) ELSE s
  BY <1>1, Zenon DEF Left
<1>3. CASE InnermostOf(x, b)
  <2>1. s # <<>> /\ Left(b)[x] = Front(s)
    BY <1>1, <1>2, <1>3, Zenon DEF InnermostOf
  <2>2. /\ Len(s) \in Nat \ {0} /\ Len(Front(s)) = Len(s) - 1
        /\ \A i \in 1..(Len(s) - 1) : Front(s)[i] = s[i]
    BY <2>1, FrontFacts
  <2>3. s[Len(s)] = b
    BY <1>1, <1>3, InnermostIs
  <2>. QED  BY <1>1, <1>3, <2>1, <2>2, <2>3, Zenon
<1>4. CASE ~ InnermostOf(x, b)
  BY <1>1, <1>2, <1>4, Zenon
<1>. QED  BY <1>3, <1>4, Zenon

(* The end of a block: a failed installation, or the save.                 *)
Leaves(b) ==
    /\ stage[b] \in {"rollback", "save"}
    /\ \E to \in Over : stage' = [stage EXCEPT ![b] = to]
    /\ nest' = Left(b)
    /\ UNCHANGED <<token, current, born, base>>

(* A step of a block that enters or leaves nothing.                        *)
Moves(b) ==
    /\ stage[b] # "active"
    /\ \E to \in Stages :
         /\ to \in Over => stage[b] \in Over
         /\ stage' = [stage EXCEPT ![b] = to]
    /\ nest' = nest /\ born' = born

LEMMA NestCases ==
    ASSUME Types, [Next]_vars
    PROVE  \/ stage' = stage /\ nest' = nest /\ born \subseteq born'
           \/ \E b \in Blocks : Moves(b) \/ Leaves(b) \/ pop_fallback_cassette(b)
           \/ \E b \in Blocks, x \in Contexts : Enter(x, b)
<1>1. ASSUME UNCHANGED vars PROVE stage' = stage /\ nest' = nest /\ born \subseteq born'
  BY <1>1 DEF vars
<1>2. ASSUME NEW b \in Blocks, BlockStep(b)
      PROVE  \/ stage' = stage /\ nest' = nest /\ born \subseteq born'
             \/ Moves(b) \/ Leaves(b) \/ pop_fallback_cassette(b)
  <2>1. CASE AcquireBegin(b) \/ AcquireEnd(b) \/ InstallFails(b) \/ push_fallback_cassette(b)
               \/ ReleaseBegin(b)
    <3>1. Moves(b)
      BY <2>1 DEF AcquireBegin, AcquireEnd, InstallFails, push_fallback_cassette, ReleaseBegin,
                  Go, Moves, Stages, Over
    <3>. QED  BY <3>1
  <2>2. CASE AcquireOne(b) \/ ReleaseOne(b)
    BY <2>2 DEF AcquireOne, ReleaseOne
  <2>3. CASE ReleaseEnd(b)
    BY <2>3 DEF ReleaseEnd, Moves, Leaves, Stages, Over
  <2>4. CASE SaveAndLeave(b)
    BY <2>4 DEF SaveAndLeave, Go, Leaves, Over
  <2>. QED  BY <1>2, <2>1, <2>2, <2>3, <2>4, Zenon DEF BlockStep
<1>3. ASSUME NEW b \in Blocks, NEW x \in Contexts, ContextStep(x, b)
      PROVE  Moves(b) \/ Enter(x, b)
  BY <1>3 DEF ContextStep, EnterFails, SetCurrent, ResetCurrent, Go, Moves, Stages, Over
<1>4. ASSUME NEW x \in Contexts,
             StartThread(x) \/ (\E y \in Contexts : CopyContext(x, y))
               \/ (\E d \in Classes : Request(x, d))
      PROVE  stage' = stage /\ nest' = nest /\ born \subseteq born'
  BY <1>4 DEF StartThread, CopyContext, Request
<1>. QED  BY <1>1, <1>2, <1>3, <1>4, StepCases, Zenon

LEMMA NestsKept ==
    ASSUME IInv, [Next]_vars PROVE NestsProper'
<1>. USE DEF IInv
<1>1. /\ stage \in [Blocks -> Stages]
      /\ \A x \in Contexts : nest[x] \in Seq(Blocks) /\ Len(nest[x]) \in Nat
      /\ \A x \in Contexts : \A i \in 1..Len(nest[x]) : nest[x][i] \in Blocks
  BY DEF Types
<1>2. ASSUME stage' = stage, nest' = nest, born \subseteq born' PROVE NestsProper'
  BY <1>2 DEF NestsProper
<1>3. ASSUME NEW b \in Blocks, Moves(b) PROVE NestsProper'
  <2>1. PICK to \in Stages : /\ to \in Over => stage[b] \in Over
                             /\ stage' = [stage EXCEPT ![b] = to]
    BY <1>3 DEF Moves
  <2>2. \A d \in Blocks : stage'[d] = IF d = b THEN to ELSE stage[d]
    BY <1>1, <2>1
  <2>3. nest' = nest /\ born' = born /\ stage[b] # "active"
    BY <1>3 DEF Moves
  <2>4. ASSUME NEW x \in Contexts, NEW i \in 1..Len(nest[x])
        PROVE  stage'[nest[x][i]] \notin Over /\ (i # Len(nest[x]) => stage'[nest[x][i]] = "active")
    <3>1. nest[x][i] \in Blocks /\ stage[nest[x][i]] \notin Over
          /\ (i # Len(nest[x]) => stage[nest[x][i]] = "active")
      BY <1>1 DEF NestsProper
    <3>. QED  BY <2>1, <2>2, <2>3, <3>1
  <2>. QED  BY <2>3, <2>4 DEF NestsProper
<1>4. ASSUME NEW b \in Blocks, pop_fallback_cassette(b) PROVE NestsProper'
  <2>1. PICK y \in born : InnermostOf(y, b)
    BY <1>4 DEF pop_fallback_cassette
  <2>2. y \in Contexts /\ Len(nest[y]) \in 1..Len(nest[y]) /\ nest[y][Len(nest[y])] = b
    BY <1>1, <2>1, InnermostIs DEF Types
  <2>3. \A d \in Blocks : stage'[d] = IF d = b THEN "reset" ELSE stage[d]
    BY <1>1, <1>4 DEF pop_fallback_cassette, Go
  <2>4. nest' = nest /\ born' = born
    BY <1>4 DEF pop_fallback_cassette
  <2>5. ASSUME NEW x \in Contexts, NEW i \in 1..Len(nest[x])
        PROVE  stage'[nest[x][i]] \notin Over /\ (i # Len(nest[x]) => stage'[nest[x][i]] = "active")
    <3>1. nest[x][i] \in Blocks /\ stage[nest[x][i]] \notin Over
          /\ (i # Len(nest[x]) => stage[nest[x][i]] = "active")
      BY <1>1 DEF NestsProper
    <3>2. nest[x][i] = b => x = y /\ i = Len(nest[y])
      BY <2>2 DEF NestsProper
    <3>. QED  BY <2>3, <3>1, <3>2 DEF Over
  <2>. QED  BY <2>4, <2>5 DEF NestsProper
<1>5. ASSUME NEW b \in Blocks, NEW x \in Contexts, Enter(x, b) PROVE NestsProper'
  <2>1. PICK n \in Nat : n = Len(nest[x])
    BY <1>1
  <2>2. PICK t : t = Append(nest[x], b)
    OBVIOUS
  <2>3. Len(t) = n + 1 /\ t[n + 1] = b /\ \A i \in 1..n : t[i] = nest[x][i]
    BY <1>1, <2>1, <2>2
  <2>4. nest'[x] = t /\ \A y \in Contexts : y # x => nest'[y] = nest[y]
    BY <1>5, <2>2 DEF Enter, Types
  <2>5. stage[b] = "idle" /\ born' = born /\ x \in born
        /\ \A d \in Blocks : stage'[d] = IF d = b THEN "acquire" ELSE stage[d]
    BY <1>1, <1>5 DEF Enter, Go
  <2>6. \A y \in Contexts : \A i \in 1..Len(nest[y]) :
          nest[y][i] # b /\ nest[y][i] \in Blocks /\ stage[nest[y][i]] \notin Over
    BY <1>1, <2>5 DEF NestsProper, Over
  <2>7. \A i \in 1..n : stage[nest[x][i]] = "active"
    <3>1. DOMAIN nest[x] = 1..n
      BY <1>1, <2>1
    <3>. QED  BY <1>5, <3>1 DEF Enter, InBody
  <2>8. ASSUME NEW y \in Contexts, NEW i \in 1..Len(nest'[y])
        PROVE  /\ stage'[nest'[y][i]] \notin Over
               /\ i # Len(nest'[y]) => stage'[nest'[y][i]] = "active"
    <3>1. CASE y = x
      <4>1. CASE i = n + 1
        BY <2>3, <2>4, <2>5, <3>1, <4>1 DEF Over
      <4>2. CASE i \in 1..n
        <5>1. nest'[y][i] = nest[x][i]
          BY <2>3, <2>4, <3>1, <4>2
        <5>. QED  BY <2>1, <2>5, <2>6, <2>7, <4>2, <5>1 DEF Over
      <4>. QED  BY <2>3, <2>4, <3>1, <4>1, <4>2
    <3>2. CASE y # x
      <4>1. nest'[y] = nest[y]
        BY <2>4, <3>2
      <4>2. nest[y][i] # b /\ nest[y][i] \in Blocks
        BY <2>6, <4>1
      <4>3. stage[nest[y][i]] \notin Over /\ (i # Len(nest[y]) => stage[nest[y][i]] = "active")
        BY <4>1 DEF NestsProper
      <4>. QED  BY <2>5, <4>1, <4>2, <4>3
    <3>. QED  BY <3>1, <3>2
  <2>9. ASSUME NEW y \in Contexts, NEW z \in Contexts,
               NEW i \in 1..Len(nest'[y]), NEW j \in 1..Len(nest'[z]), nest'[y][i] = nest'[z][j]
        PROVE  y = z /\ i = j
    <3>1. \A w \in Contexts : \A k \in 1..Len(nest'[w]) :
            \/ w = x /\ k = n + 1 /\ nest'[w][k] = b
            \/ k \in 1..Len(nest[w]) /\ nest'[w][k] = nest[w][k]
      BY <2>1, <2>3, <2>4, SMTT(30)
    <3>2. CASE i \in 1..Len(nest[y]) /\ nest'[y][i] = nest[y][i]
               /\ j \in 1..Len(nest[z]) /\ nest'[z][j] = nest[z][j]
      <4>1. nest[y][i] = nest[z][j]
        BY <2>9, <3>2, Zenon
      <4>2. nest[y][i] = nest[z][j] => y = z /\ i = j
        <5>1. \A v, w \in Contexts : \A k \in 1..Len(nest[v]), m \in 1..Len(nest[w]) :
                nest[v][k] = nest[w][m] => v = w /\ k = m
          BY DEF NestsProper
        <5>. QED  BY <3>2, <5>1
      <4>. QED  BY <4>1, <4>2
    <3>3. CASE y = x /\ i = n + 1 /\ nest'[y][i] = b
      BY <2>6, <2>9, <3>1, <3>3
    <3>4. CASE z = x /\ j = n + 1 /\ nest'[z][j] = b
      BY <2>6, <2>9, <3>1, <3>4
    <3>. QED  BY <3>1, <3>2, <3>3, <3>4
  <2>10. \A y \in Contexts : nest'[y] # <<>> => y \in born'
    BY <2>4, <2>5 DEF NestsProper
  <2>. QED  BY <2>8, <2>9, <2>10 DEF NestsProper
<1>6. ASSUME NEW b \in Blocks, Leaves(b) PROVE NestsProper'
  <2>1. PICK to : stage' = [stage EXCEPT ![b] = to]
    BY <1>6 DEF Leaves
  <2>2. /\ \A d \in Blocks : d # b => stage'[d] = stage[d]
        /\ stage[b] # "active" /\ nest' = Left(b) /\ born' = born
    BY <1>1, <1>6, <2>1 DEF Leaves
  <2>3. ASSUME NEW x \in Contexts, NEW i \in 1..Len(nest'[x])
        PROVE  /\ i \in 1..Len(nest[x]) /\ nest'[x][i] = nest[x][i] /\ nest[x][i] # b
               /\ i # Len(nest'[x]) => i # Len(nest[x])
               /\ InnermostOf(x, b) => i # Len(nest[x])
    <3>1. CASE InnermostOf(x, b)
      <4>1. /\ Len(nest[x]) \in Nat \ {0} /\ nest[x][Len(nest[x])] = b
            /\ Len(nest'[x]) = Len(nest[x]) - 1
            /\ \A k \in 1..(Len(nest[x]) - 1) : nest'[x][k] = nest[x][k]
        BY <2>2, <3>1, LeftIs
      <4>2. i \in 1..Len(nest[x]) /\ i # Len(nest[x]) /\ nest'[x][i] = nest[x][i]
        BY <4>1
      <4>3. nest[x][i] # b
        BY <4>1, <4>2 DEF NestsProper
      <4>. QED  BY <4>2, <4>3
    <3>2. CASE ~ InnermostOf(x, b)
      <4>1. nest'[x] = nest[x]
        BY <2>2, <3>2, LeftIs
      <4>2. Len(nest[x]) # 0 /\ nest[x][Len(nest[x])] # b
        BY <1>1, <3>2, <4>1, InnermostIs
      <4>3. nest[x][i] # b
        BY <2>2, <4>1, <4>2 DEF NestsProper
      <4>. QED  BY <3>2, <4>1, <4>3
    <3>. QED  BY <3>1, <3>2
  <2>4. ASSUME NEW x \in Contexts, NEW i \in 1..Len(nest'[x])
        PROVE  /\ stage'[nest'[x][i]] \notin Over
               /\ i # Len(nest'[x]) => stage'[nest'[x][i]] = "active"
    <3>1. i \in 1..Len(nest[x]) /\ nest'[x][i] = nest[x][i] /\ nest[x][i] # b
          /\ (i # Len(nest'[x]) => i # Len(nest[x]))
      BY <2>3
    <3>2. stage[nest[x][i]] \notin Over /\ (i # Len(nest[x]) => stage[nest[x][i]] = "active")
          /\ nest[x][i] \in Blocks
      BY <1>1, <3>1 DEF NestsProper
    <3>. QED  BY <2>2, <3>1, <3>2
  <2>5. ASSUME NEW x \in Contexts, NEW y \in Contexts,
               NEW i \in 1..Len(nest'[x]), NEW j \in 1..Len(nest'[y]), nest'[x][i] = nest'[y][j]
        PROVE  x = y /\ i = j
    BY <2>3, <2>5 DEF NestsProper
  <2>6. ASSUME NEW x \in Contexts, nest'[x] # <<>> PROVE x \in born'
    BY <2>2, <2>6, LeftIs DEF NestsProper, InnermostOf
  <2>. QED  BY <2>4, <2>5, <2>6 DEF NestsProper
<1>. QED  BY <1>2, <1>3, <1>4, <1>5, <1>6, NestCases, Zenon

-----------------------------------------------------------------------------
(* The current cassette.                                                   *)

LEMMA CurrentKept ==
    ASSUME IInv, [Next]_vars PROVE CurrentRight'
<1>. USE DEF IInv
<1>1. /\ stage \in [Blocks -> Stages]
      /\ \A x \in Contexts : nest[x] \in Seq(Blocks) /\ Len(nest[x]) \in Nat
      /\ \A x \in Contexts : nest[x] # <<>> <=> Len(nest[x]) # 0
      /\ \A x \in Contexts : \A i \in 1..Len(nest[x]) : nest[x][i] \in Blocks
      /\ token \in [Blocks -> Blocks \cup {None}]
      /\ current \in [Contexts -> Blocks \cup {None}]
      /\ base \in [Contexts -> Blocks \cup {None}]
      /\ nest' \in [Contexts -> Seq(Blocks)]
  BY TypesKept DEF Types
<1>2. ASSUME UNCHANGED <<nest, current, base, token>>,
             \A b \in Blocks : stage'[b] \in Shown <=> stage[b] \in Shown
      PROVE  CurrentRight'
  <2>1. \A x \in Contexts : \A i \in 1..Len(nest[x]) :
          stage'[nest[x][i]] \in Shown <=> stage[nest[x][i]] \in Shown
    BY <1>1, <1>2
  <2>2. \A x \in Contexts : nest[x] # <<>> => Len(nest[x]) \in 1..Len(nest[x])
    BY <1>1
  <2>. QED  BY <1>2, <2>1, <2>2 DEF CurrentRight, Below
<1>3. ASSUME NEW b \in Blocks, NEW x \in Contexts, Enter(x, b) PROVE CurrentRight'
  <2>1. PICK n \in Nat : n = Len(nest[x])
    BY <1>1
  <2>2. PICK t : t = Append(nest[x], b)
    OBVIOUS
  <2>3. Len(t) = n + 1 /\ t[n + 1] = b /\ (\A i \in 1..n : t[i] = nest[x][i]) /\ t # <<>>
    <3>1. Len(t) = n + 1 /\ t[n + 1] = b /\ \A i \in 1..n : t[i] = nest[x][i]
      BY <1>1, <2>1, <2>2
    <3>2. t # <<>>
      BY <3>1
    <3>. QED  BY <3>1, <3>2
  <2>4. nest'[x] = t /\ \A y \in Contexts : y # x => nest'[y] = nest[y]
    BY <1>3, <2>2 DEF Enter, Types
  <2>5. stage[b] = "idle" /\ UNCHANGED <<current, base, token>>
        /\ \A d \in Blocks : stage'[d] = IF d = b THEN "acquire" ELSE stage[d]
    BY <1>1, <1>3 DEF Enter, Go
  <2>6. \A y \in Contexts : \A i \in 1..Len(nest[y]) :
          nest[y][i] # b /\ nest[y][i] \in Blocks /\ stage'[nest[y][i]] = stage[nest[y][i]]
    BY <1>1, <2>5 DEF NestsProper, Over
  <2>7. current[x] = IF n = 0 THEN base[x] ELSE nest[x][n]
    <3>1. CASE n = 0
      BY <1>1, <2>1, <3>1 DEF CurrentRight
    <3>2. CASE n # 0
      <4>1. DOMAIN nest[x] = 1..n /\ n \in 1..n
        BY <1>1, <2>1, <3>2
      <4>2. stage[nest[x][n]] = "active"
        BY <1>3, <4>1 DEF Enter, InBody
      <4>. QED  BY <1>1, <2>1, <3>2, <4>2 DEF CurrentRight, Shown
    <3>. QED  BY <3>1, <3>2
  <2>8. \A i \in 1..n : stage[nest[x][i]] \in Shown => token[nest[x][i]] = Below(nest[x], base[x], i)
    BY <2>1 DEF CurrentRight
  <2>9. ASSUME NEW y \in Contexts
        PROVE  /\ nest'[y] = <<>> => current'[y] = base'[y]
               /\ nest'[y] # <<>> =>
                    current'[y] = IF stage'[nest'[y][Len(nest'[y])]] \in Shown
                                  THEN nest'[y][Len(nest'[y])] ELSE Below(nest'[y], base'[y], Len(nest'[y]))
               /\ \A i \in 1..Len(nest'[y]) :
                    stage'[nest'[y][i]] \in Shown => token'[nest'[y][i]] = Below(nest'[y], base'[y], i)
    <3>1. CASE y = x
      <4>1. stage'[nest'[x][n + 1]] \notin Shown
        BY <2>3, <2>4, <2>5 DEF Shown
      <4>2. Below(nest'[x], base'[x], n + 1) = IF n = 0 THEN base[x] ELSE nest[x][n]
        BY <2>3, <2>4, <2>5 DEF Below
      <4>3. \A i \in 1..n : Below(nest'[x], base'[x], i) = Below(nest[x], base[x], i)
        BY <2>3, <2>4, <2>5 DEF Below
      <4>4. ASSUME NEW i \in 1..(n + 1), stage'[nest'[x][i]] \in Shown
            PROVE  token'[nest'[x][i]] = Below(nest'[x], base'[x], i)
        <5>1. i \in 1..n
          BY <4>1, <4>4
        <5>2. nest'[x][i] = nest[x][i]
          BY <2>3, <2>4, <5>1
        <5>3. stage[nest[x][i]] \in Shown
          BY <2>1, <2>6, <4>4, <5>1, <5>2
        <5>. QED  BY <2>5, <2>8, <4>3, <5>1, <5>2, <5>3
      <4>5. Len(nest'[x]) = n + 1 /\ nest'[x] # <<>> /\ current'[x] = current[x]
        BY <2>3, <2>4, <2>5
      <4>6. current'[x] = Below(nest'[x], base'[x], n + 1)
        BY <2>7, <4>2, <4>5
      <4>. QED  BY <3>1, <4>1, <4>4, <4>5, <4>6, Zenon
    <3>2. CASE y # x
      <4>1. nest'[y] = nest[y] /\ UNCHANGED <<current, base, token>>
        BY <2>4, <2>5, <3>2
      <4>2. \A i \in 1..Len(nest[y]) : stage'[nest[y][i]] = stage[nest[y][i]]
        BY <2>6
      <4>3. nest[y] # <<>> => Len(nest[y]) \in 1..Len(nest[y])
        BY <1>1
      <4>4. /\ nest[y] = <<>> => current[y] = base[y]
            /\ nest[y] # <<>> =>
                 current[y] = IF stage[nest[y][Len(nest[y])]] \in Shown
                              THEN nest[y][Len(nest[y])] ELSE Below(nest[y], base[y], Len(nest[y]))
            /\ \A i \in 1..Len(nest[y]) :
                 stage[nest[y][i]] \in Shown => token[nest[y][i]] = Below(nest[y], base[y], i)
        BY DEF CurrentRight
      <4>5. \A i : Below(nest'[y], base'[y], i) = Below(nest[y], base[y], i)
        BY <4>1 DEF Below
      <4>. QED  BY <4>1, <4>2, <4>3, <4>4, <4>5
    <3>. QED  BY <3>1, <3>2
  <2>. QED  BY <2>9, Zenon DEF CurrentRight
<1>4. ASSUME NEW b \in Blocks, NEW x \in Contexts, InnermostOf(x, b),
             UNCHANGED <<nest, base>>,
             \A d \in Blocks : d # b => stage'[d] = stage[d] /\ token'[d] = token[d],
             \A y \in Contexts : y # x => current'[y] = current[y],
             \/ /\ stage[b] = "set" /\ stage'[b] \in Shown
                /\ current'[x] = b /\ token'[b] = current[x]
             \/ /\ stage[b] \in Shown /\ stage'[b] \notin Shown
                /\ current'[x] = token[b]
      PROVE  CurrentRight'
  <2>1. PICK n \in Nat : n = Len(nest[x])
    BY <1>1
  <2>2. n \in 1..n /\ nest[x] # <<>> /\ nest[x][n] = b
    BY <1>1, <1>4, <2>1, InnermostIs
  <2>3. \A y \in Contexts : \A i \in 1..Len(nest[y]) : nest[y][i] = b => y = x /\ i = n
    BY <2>1, <2>2 DEF NestsProper
  <2>4. \A y \in Contexts : \A i \in 1..Len(nest[y]) : Below(nest'[y], base'[y], i) = Below(nest[y], base[y], i)
    BY <1>4 DEF Below
  <2>5. /\ current[x] = IF stage[b] \in Shown THEN b ELSE Below(nest[x], base[x], n)
        /\ stage[b] \in Shown => token[b] = Below(nest[x], base[x], n)
    BY <2>1, <2>2 DEF CurrentRight
  <2>6. /\ current'[x] = IF stage'[b] \in Shown THEN b ELSE Below(nest[x], base[x], n)
        /\ stage'[b] \in Shown => token'[b] = Below(nest[x], base[x], n)
    BY <1>4, <2>5 DEF Shown
  <2>7. ASSUME NEW y \in Contexts
        PROVE  /\ nest[y] = <<>> => current'[y] = base[y]
               /\ nest[y] # <<>> =>
                    current'[y] = IF stage'[nest[y][Len(nest[y])]] \in Shown
                                  THEN nest[y][Len(nest[y])] ELSE Below(nest[y], base[y], Len(nest[y]))
    <3>1. CASE y = x
      BY <2>1, <2>2, <2>6, <3>1
    <3>2. CASE y # x
      <4>1. nest[y] # <<>> => stage'[nest[y][Len(nest[y])]] = stage[nest[y][Len(nest[y])]]
        <5>1. nest[y] # <<>> => Len(nest[y]) \in 1..Len(nest[y])
          BY <1>1
        <5>. QED  BY <1>1, <1>4, <2>3, <3>2, <5>1
      <4>2. current'[y] = current[y]
        BY <1>4, <3>2
      <4>. QED  BY <4>1, <4>2 DEF CurrentRight
    <3>. QED  BY <3>1, <3>2
  <2>8. ASSUME NEW y \in Contexts, NEW i \in 1..Len(nest[y]), stage'[nest[y][i]] \in Shown
        PROVE  token'[nest[y][i]] = Below(nest[y], base[y], i)
    <3>1. CASE nest[y][i] = b
      BY <2>3, <2>6, <2>8, <3>1
    <3>2. CASE nest[y][i] # b
      <4>1. stage'[nest[y][i]] = stage[nest[y][i]] /\ token'[nest[y][i]] = token[nest[y][i]]
        BY <1>1, <1>4, <3>2
      <4>. QED  BY <2>8, <4>1 DEF CurrentRight
    <3>. QED  BY <3>1, <3>2
  <2>9. \A y \in Contexts : nest[y] # <<>> => Len(nest[y]) \in 1..Len(nest[y])
    BY <1>1
  <2>10. nest' = nest /\ base' = base
    BY <1>4
  <2>. QED  BY <2>4, <2>7, <2>8, <2>9, <2>10 DEF CurrentRight
<1>5. ASSUME NEW x \in Contexts, NEW y \in Contexts, CopyContext(x, y) PROVE CurrentRight'
  <2>1. nest[y] = <<>>
    BY <1>5 DEF CopyContext, NestsProper
  <2>2. /\ UNCHANGED <<nest, stage, token>>
        /\ \A z \in Contexts : z # y => current'[z] = current[z] /\ base'[z] = base[z]
        /\ current'[y] = base'[y]
    BY <1>1, <1>5 DEF CopyContext
  <2>3. ASSUME NEW z \in Contexts, NEW i, i \in 1..Len(nest[z]) PROVE Below(nest'[z], base'[z], i) = Below(nest[z], base[z], i) /\ z # y
    BY <1>1, <2>1, <2>2, <2>3 DEF Below
  <2>4. \A z \in Contexts : nest[z] # <<>> => Len(nest[z]) \in 1..Len(nest[z])
    BY <1>1
  <2>5. ASSUME NEW z \in Contexts
        PROVE  /\ nest[z] = <<>> => current'[z] = base'[z]
               /\ nest[z] # <<>> =>
                    current'[z] = IF stage[nest[z][Len(nest[z])]] \in Shown
                                  THEN nest[z][Len(nest[z])] ELSE Below(nest'[z], base'[z], Len(nest[z]))
    <3>1. CASE z = y
      BY <2>1, <2>2, <3>1
    <3>2. CASE z # y
      BY <2>2, <2>3, <2>4, <3>2 DEF CurrentRight
    <3>. QED  BY <3>1, <3>2
  <2>6. ASSUME NEW z \in Contexts, NEW i \in 1..Len(nest[z]), stage[nest[z][i]] \in Shown
        PROVE  token[nest[z][i]] = Below(nest'[z], base'[z], i)
    BY <2>3, <2>6 DEF CurrentRight
  <2>7. nest' = nest /\ stage' = stage /\ token' = token
    BY <2>2
  <2>. QED  BY <2>5, <2>6, <2>7, Zenon DEF CurrentRight
<1>6. ASSUME NEW b \in Blocks, Leaves(b) PROVE CurrentRight'
  <2>1. PICK to \in Over : stage' = [stage EXCEPT ![b] = to]
    BY <1>6 DEF Leaves
  <2>2. /\ \A d \in Blocks : d # b => stage'[d] = stage[d]
        /\ stage[b] \notin Shown /\ stage[b] # "active" /\ nest' = Left(b)
        /\ token' = token /\ current' = current /\ base' = base
    BY <1>1, <1>6, <2>1 DEF Leaves, Shown
  <2>3. \A x \in Contexts : nest'[x] # <<>> <=> Len(nest'[x]) # 0
    BY <1>1
  <2>4. ASSUME NEW x \in Contexts
        PROVE  /\ nest'[x] = <<>> => current[x] = base[x]
               /\ nest'[x] # <<>> =>
                    current[x] = IF stage'[nest'[x][Len(nest'[x])]] \in Shown
                                 THEN nest'[x][Len(nest'[x])] ELSE Below(nest'[x], base'[x], Len(nest'[x]))
               /\ \A i \in 1..Len(nest'[x]) :
                    stage'[nest'[x][i]] \in Shown => token[nest'[x][i]] = Below(nest'[x], base'[x], i)
    <3>1. CASE InnermostOf(x, b)
      <4>1. PICK n \in Nat : n + 1 = Len(nest[x])
        BY <2>2, <3>1, LeftIs
      <4>2. /\ nest[x][n + 1] = b /\ Len(nest'[x]) = n
            /\ \A i \in 1..n : nest'[x][i] = nest[x][i]
        <5>1. /\ nest[x][Len(nest[x])] = b /\ Len(nest'[x]) = Len(nest[x]) - 1
              /\ \A i \in 1..(Len(nest[x]) - 1) : nest'[x][i] = nest[x][i]
          BY <2>2, <3>1, LeftIs
        <5>. QED  BY <4>1, <5>1
      <4>3. \A i \in 1..n : stage[nest[x][i]] = "active" /\ nest[x][i] # b /\ nest[x][i] \in Blocks
        <5>1. \A i \in 1..n : i \in 1..Len(nest[x]) /\ i # Len(nest[x])
          BY <4>1
        <5>. QED  BY <1>1, <2>2, <5>1 DEF NestsProper
      <4>4. current[x] = Below(nest[x], base[x], n + 1)
        <5>1. nest[x] # <<>>
          BY <1>1, <4>1
        <5>. QED  BY <2>2, <4>1, <4>2, <5>1 DEF CurrentRight
      <4>5. current[x] = IF n = 0 THEN base[x] ELSE nest[x][n]
        BY <4>4 DEF Below
      <4>6. n # 0 => stage'[nest'[x][n]] \in Shown /\ nest'[x][n] = nest[x][n]
        <5>1. n # 0 => n \in 1..n
          OBVIOUS
        <5>. QED  BY <2>2, <4>2, <4>3, <5>1 DEF Shown
      <4>7. nest'[x] # <<>> <=> n # 0
        BY <2>3, <4>2
      <4>8. \A i \in 1..n : token[nest'[x][i]] = Below(nest'[x], base'[x], i)
        <5>1. \A i \in 1..n : token[nest[x][i]] = Below(nest[x], base[x], i)
          BY <4>1, <4>3 DEF CurrentRight, Shown
        <5>2. \A i \in 1..n : Below(nest'[x], base'[x], i) = Below(nest[x], base[x], i)
          BY <2>2, <4>2 DEF Below
        <5>. QED  BY <4>2, <5>1, <5>2
      <4>. QED  BY <4>2, <4>5, <4>6, <4>7, <4>8
    <3>2. CASE ~ InnermostOf(x, b)
      <4>1. nest'[x] = nest[x] /\ \A i : Below(nest'[x], base'[x], i) = Below(nest[x], base[x], i)
        BY <2>2, <3>2, LeftIs DEF Below
      <4>2. ASSUME NEW i \in 1..Len(nest[x]) PROVE stage'[nest[x][i]] = stage[nest[x][i]]
        <5>1. Len(nest[x]) # 0 /\ nest[x][Len(nest[x])] # b
          BY <1>1, <3>2, InnermostIs
        <5>2. nest[x][i] # b /\ nest[x][i] \in Blocks
          BY <1>1, <2>2, <5>1 DEF NestsProper
        <5>. QED  BY <2>2, <5>2
      <4>3. nest[x] # <<>> => Len(nest[x]) \in 1..Len(nest[x])
        BY <1>1
      <4>4. /\ nest[x] = <<>> => current[x] = base[x]
            /\ nest[x] # <<>> =>
                 current[x] = IF stage[nest[x][Len(nest[x])]] \in Shown
                              THEN nest[x][Len(nest[x])] ELSE Below(nest[x], base[x], Len(nest[x]))
            /\ \A i \in 1..Len(nest[x]) :
                 stage[nest[x][i]] \in Shown => token[nest[x][i]] = Below(nest[x], base[x], i)
        BY DEF CurrentRight
      <4>. QED  BY <4>1, <4>2, <4>3, <4>4
    <3>. QED  BY <3>1, <3>2
  <2>. QED  BY <2>2, <2>4, ZenonT(30) DEF CurrentRight
<1>7. ASSUME NEW b \in Blocks, NEW x \in Contexts, SetCurrent(x, b) PROVE CurrentRight'
  <2>1. /\ InnermostOf(x, b) /\ stage[b] = "set" /\ stage'[b] \in Shown
        /\ nest' = nest /\ base' = base
        /\ \A d \in Blocks : d # b => stage'[d] = stage[d] /\ token'[d] = token[d]
        /\ \A y \in Contexts : y # x => current'[y] = current[y]
        /\ current'[x] = b /\ token'[b] = current[x]
    BY <1>1, <1>7 DEF SetCurrent, Go, Shown
  <2>. QED  BY <1>4, <2>1
<1>8. ASSUME NEW b \in Blocks, NEW x \in Contexts, ResetCurrent(x, b) PROVE CurrentRight'
  <2>1. /\ InnermostOf(x, b) /\ stage[b] \in Shown /\ stage'[b] \notin Shown
        /\ nest' = nest /\ base' = base
        /\ \A d \in Blocks : d # b => stage'[d] = stage[d] /\ token'[d] = token[d]
        /\ \A y \in Contexts : y # x => current'[y] = current[y]
        /\ current'[x] = token[b]
    BY <1>1, <1>8 DEF ResetCurrent, Go, Shown
  <2>. QED  BY <1>4, <2>1
<1>. DEFINE Quiet == /\ UNCHANGED <<nest, current, base, token>>
                     /\ \A b \in Blocks : stage'[b] \in Shown <=> stage[b] \in Shown
<1>9. ASSUME UNCHANGED vars PROVE Quiet
  BY <1>9 DEF vars
<1>10. ASSUME NEW b \in Blocks, BlockStep(b) PROVE Quiet \/ Leaves(b)
  <2>1. CASE AcquireBegin(b) \/ AcquireEnd(b) \/ InstallFails(b) \/ push_fallback_cassette(b)
               \/ pop_fallback_cassette(b) \/ ReleaseBegin(b)
    BY <1>1, <2>1 DEF AcquireBegin, AcquireEnd, InstallFails, push_fallback_cassette,
                pop_fallback_cassette, ReleaseBegin, Go, Shown
  <2>2. CASE AcquireOne(b) \/ ReleaseOne(b)
    BY <2>2 DEF AcquireOne, ReleaseOne
  <2>3. CASE ReleaseEnd(b)
    BY <1>1, <2>3 DEF ReleaseEnd, Leaves, Over, Shown
  <2>4. CASE SaveAndLeave(b)
    BY <2>4 DEF SaveAndLeave, Go, Leaves, Over
  <2>. QED  BY <1>10, <2>1, <2>2, <2>3, <2>4, Zenon DEF BlockStep
<1>11. ASSUME NEW b \in Blocks, NEW x \in Contexts, EnterFails(x, b) PROVE Quiet
  BY <1>1, <1>11 DEF EnterFails, Go, Shown
<1>12. ASSUME NEW x \in Contexts, StartThread(x) \/ (\E d \in Classes : Request(x, d)) PROVE Quiet
  BY <1>12 DEF StartThread, Request
<1>13. Quiet => CurrentRight'
  BY <1>2
<1>. HIDE DEF Quiet
<1>. QED  BY <1>3, <1>5, <1>6, <1>7, <1>8, <1>9, <1>10, <1>11, <1>12, <1>13, StepCases, Zenon
          DEF ContextStep

-----------------------------------------------------------------------------
(* The theorems.                                                           *)

LEMMA InitIInv ==
    ASSUME Init PROVE IInv
<1>. USE PatchesAssumption
<1>1. Types
  BY DEF Init, Types, Stages
<1>2. LockHeld
  BY DEF Init, LockHeld, Locking
<1>3. HeldByStage
  BY DEF Init, HeldByStage
<1>4. Counts
  <2>1. \A c : HoldsIn(held, c) = {}
    BY DEF Init, HoldsIn
  <2>2. ASSUME NEW c PROVE Holds(c) = {}
    <3>1. held \in [Blocks -> Seq(Classes)]
      BY <1>1 DEF Types
    <3>2. Holds(c) = HoldsIn(held, c)
      BY <3>1, HoldsIsHoldsIn DEF Holds
    <3>. QED  BY <2>1, <3>2
  <2>3. \A c \in Classes : installed[c] = 0
    BY DEF Init
  <2>. QED  BY <2>2, <2>3, FS_EmptySet DEF Counts
<1>5. FallbackIsActive
  BY DEF Init, FallbackIsActive
<1>6. NestsProper
  BY DEF Init, NestsProper
<1>7. CurrentRight
  BY DEF Init, CurrentRight
<1>. QED  BY <1>1, <1>2, <1>3, <1>4, <1>5, <1>6, <1>7 DEF IInv

LEMMA SpecIInv == Spec => []IInv
<1>1. Init => IInv
  BY InitIInv
<1>2. IInv /\ [Next]_vars => IInv'
  <2>. SUFFICES ASSUME IInv, [Next]_vars PROVE IInv'
    OBVIOUS
  <2>. QED  BY TypesKept, LockKept, HeldKept, CountsKept, FallbackKept, NestsKept, CurrentKept
            DEF IInv
<1>. QED  BY <1>1, <1>2, PTL DEF Spec

(***************************************************************************)
(* The reference counts of _acquire and _release_locked are exact.         *)
(***************************************************************************)
THEOREM CountsAreExact == Spec => []CountsExact
<1>1. IInv => CountsExact
  BY DEF IInv, Counts, CountsExact
<1>. QED  BY <1>1, SpecIInv, PTL

(***************************************************************************)
(* The module lock is held by the block at work on the counts, and every   *)
(* piece of shared state keeps its type.                                   *)
(***************************************************************************)
THEOREM TypesHold == Spec => []TypeOK
<1>1. IInv => TypeOK
  BY DEF IInv, Types, LockHeld, Locking, TypeOK
<1>. QED  BY <1>1, SpecIInv, PTL

(***************************************************************************)
(* The libraries of a running body are patched and its cassette is in the  *)
(* fallback list once; nothing is left behind when every block is over.    *)
(***************************************************************************)
THEOREM BodiesAreCovered == Spec => []CoveredWhileNeeded
<1>1. ASSUME IInv PROVE CoveredWhileNeeded
  <2>. USE DEF IInv
  <2>1. held \in [Blocks -> Seq(Classes)]
    BY <1>1 DEF Types
  <2>2. ASSUME NEW c PROVE Holds(c) = HoldsIn(held, c)
    BY <2>1, HoldsIsHoldsIn DEF Holds
  <2>3. ASSUME NEW b \in Blocks, stage[b] = "active", NEW i \in DOMAIN wants[b]
        PROVE  installed[wants[b][i]] > 0
    <3>1. held[b] = wants[b] /\ wants[b] \in Seq(Classes)
      BY <1>1, <2>3 DEF HeldByStage, Types
    <3>2. PICK c \in Classes : c = wants[b][i]
      BY <3>1
    <3>3. i \in Nat /\ i \in 1..Len(held[b]) /\ held[b][i] = c
      BY <3>1, <3>2
    <3>4. <<b, i>> \in HoldsIn(held, c)
      BY <3>3 DEF HoldsIn
    <3>5. Holds(c) # {}
      BY <2>2, <3>4
    <3>6. IsFiniteSet(Holds(c)) /\ installed[c] = Cardinality(Holds(c)) /\ installed[c] \in Nat
      BY <1>1 DEF Counts, Types
    <3>7. installed[c] # 0
      BY <3>5, <3>6, FS_EmptySet
    <3>. QED  BY <3>2, <3>6, <3>7
  <2>4. ASSUME NEW b \in Blocks, stage[b] = "active"
        PROVE  Cardinality({i \in DOMAIN fallback : fallback[i] = b}) = 1
    <3>1. DOMAIN fallback = 1..Len(fallback)
      BY <1>1 DEF Types
    <3>2. PICK k \in 1..Len(fallback) : fallback[k] = b
      BY <1>1, <2>4 DEF FallbackIsActive
    <3>3. \A i \in 1..Len(fallback) : fallback[i] = b <=> i = k
      BY <1>1, <3>2 DEF FallbackIsActive
    <3>4. {i \in DOMAIN fallback : fallback[i] = b} = {k}
      BY <3>1, <3>3
    <3>. QED  BY <3>4, FS_Singleton
  <2>5. ASSUME \A b \in Blocks : stage[b] \in Over
        PROVE  (\A c \in Classes : installed[c] = 0) /\ fallback = <<>> /\ lock = None
    <3>1. \A b \in Blocks : held[b] = <<>>
      BY <1>1, <2>5 DEF HeldByStage, Over
    <3>2. ASSUME NEW c \in Classes PROVE installed[c] = 0
      <4>1. HoldsIn(held, c) = {}
        BY <3>1 DEF HoldsIn
      <4>2. installed[c] = Cardinality({})
        BY <1>1, <2>2, <4>1 DEF Counts
      <4>. QED  BY <4>2, FS_EmptySet
    <3>3. fallback = <<>>
      <4>1. fallback \in Seq(Blocks) /\ \A i \in 1..Len(fallback) : fallback[i] \in Blocks
        BY <1>1 DEF Types
      <4>2. \A i \in 1..Len(fallback) : FALSE
        BY <1>1, <2>5, <4>1 DEF FallbackIsActive, Over
      <4>3. Len(fallback) = 0
        BY <4>1, <4>2
      <4>. QED  BY <4>1, <4>3
    <3>4. lock = None
      BY <1>1, <2>5 DEF Types, LockHeld, Locking, Over
    <3>. QED  BY <3>2, <3>3, <3>4
  <2>. QED  BY <2>3, <2>4, <2>5 DEF CoveredWhileNeeded
<1>. QED  BY <1>1, SpecIInv, PTL

(***************************************************************************)
(* In a body, current_cassette is the innermost block's or the inherited   *)
(* one.                                                                    *)
(***************************************************************************)
THEOREM CurrentIsInnermost == Spec => []InnermostIsCurrent
<1>1. ASSUME IInv, NEW x \in born, InBody(x)
      PROVE  current[x] = IF nest[x] = <<>> THEN base[x] ELSE Last(nest[x])
  <2>1. x \in Contexts /\ nest[x] \in Seq(Blocks)
    BY <1>1 DEF IInv, Types
  <2>2. CASE nest[x] = <<>>
    BY <1>1, <2>1, <2>2 DEF IInv, CurrentRight
  <2>3. CASE nest[x] # <<>>
    <3>1. Len(nest[x]) \in DOMAIN nest[x]
      BY <2>1, <2>3
    <3>2. stage[nest[x][Len(nest[x])]] \in Shown
      BY <1>1, <3>1 DEF InBody, Shown
    <3>3. current[x] = nest[x][Len(nest[x])]
      BY <1>1, <2>1, <2>3, <3>2 DEF IInv, CurrentRight
    <3>. QED  BY <2>3, <3>3, Zenon DEF Last
  <2>. QED  BY <2>2, <2>3
<1>2. IInv => InnermostIsCurrent
  BY <1>1 DEF InnermostIsCurrent
<1>. QED  BY <1>2, SpecIInv, PTL

(***************************************************************************)
(* get_current_cassette serves an empty context from the fallback list     *)
(* only while exactly one block is active.                                 *)
(***************************************************************************)
THEOREM EmptyContextsNeverGuess == Spec => NeverGuesses
<1>. DEFINE Step == \A x \in Contexts :
                      (last' # last /\ last'.by = x /\ current[x] = None /\ last'.got # None)
                        => {b \in Blocks : stage[b] = "active"} = {last'.got}
<1>1. ASSUME IInv, Next PROVE Step
  <2>1. \/ last' = last
        \/ \E x \in Contexts, c \in Classes : Request(x, c)
    <3>1. ASSUME NEW b \in Blocks, BlockStep(b) PROVE last' = last
      BY <3>1 DEF BlockStep, AcquireBegin, AcquireOne, AcquireEnd, InstallFails,
                  push_fallback_cassette, pop_fallback_cassette, ReleaseBegin, ReleaseOne,
                  ReleaseEnd, SaveAndLeave
    <3>2. ASSUME NEW b \in Blocks, NEW x \in Contexts, ContextStep(x, b) PROVE last' = last
      BY <3>2 DEF ContextStep, Enter, EnterFails, SetCurrent, ResetCurrent
    <3>3. ASSUME NEW x \in Contexts, StartThread(x) \/ (\E y \in Contexts : CopyContext(x, y))
          PROVE  last' = last
      BY <3>3 DEF StartThread, CopyContext
    <3>4. UNCHANGED vars => last' = last
      BY DEF vars
    <3>. QED  BY <1>1, <3>1, <3>2, <3>3, <3>4, StepCases, Zenon
  <2>2. ASSUME NEW x \in Contexts, NEW c \in Classes, Request(x, c),
               NEW y \in Contexts, last'.by = y, current[y] = None, last'.got # None
        PROVE  {b \in Blocks : stage[b] = "active"} = {last'.got}
    <3>1. y = x
      BY <2>2 DEF Request
    <3>2. last'.got = FallbackCassette
      BY <2>2, <3>1 DEF Request
    <3>3. Len(fallback) = 1 /\ last'.got = fallback[1]
      BY <2>2, <3>2 DEF FallbackCassette
    <3>4. \A i \in 1..Len(fallback) : fallback[i] \in Blocks
      BY <1>1 DEF IInv, Types
    <3>5. fallback[1] \in Blocks /\ stage[fallback[1]] = "active"
          /\ \A b \in Blocks : stage[b] = "active" => b = fallback[1]
      BY <1>1, <3>3, <3>4 DEF IInv, FallbackIsActive
    <3>. QED  BY <3>3, <3>5
  <2>. QED  BY <2>1, <2>2
<1>2. IInv /\ [Next]_vars => [Step]_vars
  BY <1>1
<1>. QED  BY <1>2, SpecIInv, PTL DEF Spec, NeverGuesses
=============================================================================

------------------------------- MODULE Patches -------------------------------
(***************************************************************************)
(* How use_cassette blocks (src/cassetter/config.py) and the pytest fixture *)
(* (pytest_plugin/fixtures.py) share the process: the reference-counted     *)
(* patches of the HTTP libraries, the context variable that names the       *)
(* current cassette, and the list threads with an empty context fall back   *)
(* to (_state.py).                                                          *)
(*                                                                          *)
(* A context is a task or a thread; the blocks it enters nest.  `lock` is   *)
(* the module lock, held over every loop on `installed`.                    *)
(***************************************************************************)
EXTENDS Naturals, Sequences, FiniteSets, SequencesExt

CONSTANTS
    Blocks,        \* activations, each with a cassette of its own
    Contexts,
    Root,          \* the context the others may be copied from
    Classes,       \* interceptor classes
    Lists,         \* the interceptor lists a block may ask for
    None

ASSUME PatchesAssumption ==
    /\ None \notin Blocks /\ Root \in Contexts
    /\ Lists \subseteq Seq(Classes)

VARIABLES
    stage,         \* where each block is
    wants,         \* its interceptor_classes
    held,          \* the classes it acquired and has not released
    token,         \* what its ContextVar.reset restores
    installed,     \* reference count of each class; patched while positive
    fallback,      \* _fallback_cassettes
    lock,          \* the block that holds the module lock
    current,       \* current_cassette in each context
    nest, born,    \* the blocks a context is in, and the contexts that exist
    base,          \* the cassette a context inherited when it was copied
    last           \* the last request: its context and the cassette it got

vars == <<stage, wants, held, token, installed, fallback, lock, current, nest,
          born, base, last>>

Go(b, from, to) == stage[b] = from /\ stage' = [stage EXCEPT ![b] = to]
InnermostOf(x, b) == nest[x] # <<>> /\ Last(nest[x]) = b
InBody(x) == \A i \in DOMAIN nest[x] : stage[nest[x][i]] = "active"

-----------------------------------------------------------------------------
(* Entering                                                                *)

(* Cassette.load and resolve_interceptors, which both may raise.           *)
Enter(x, b) ==
    /\ x \in born /\ InBody(x)
    /\ Go(b, "idle", "acquire")
    /\ nest' = [nest EXCEPT ![x] = Append(@, b)]
    /\ UNCHANGED <<wants, held, token, installed, fallback, lock, current,
                   born, base, last>>

EnterFails(x, b) ==
    /\ x \in born /\ InBody(x)
    /\ Go(b, "idle", "failed")
    /\ UNCHANGED <<wants, held, token, installed, fallback, lock, current,
                   nest, born, base, last>>

AcquireBegin(b) ==
    /\ Go(b, "acquire", "acquiring")
    /\ lock = None
    /\ lock' = b
    /\ UNCHANGED <<wants, held, token, installed, fallback, current, nest,
                   born, base, last>>

(* One turn of the loop: count, or install and count one.                  *)
AcquireOne(b) ==
    /\ stage[b] = "acquiring"
    /\ Len(held[b]) < Len(wants[b])
    /\ LET cls == wants[b][Len(held[b]) + 1]
       IN  /\ installed' = [installed EXCEPT ![cls] = @ + 1]
           /\ held' = [held EXCEPT ![b] = Append(@, cls)]
    /\ UNCHANGED <<stage, wants, token, fallback, lock, current, nest, born,
                   base, last>>

AcquireEnd(b) ==
    /\ Len(held[b]) = Len(wants[b])
    /\ Go(b, "acquiring", "set")
    /\ lock' = None
    /\ UNCHANGED <<wants, held, token, installed, fallback, current, nest,
                   born, base, last>>

(* install raised: roll back what was acquired.                            *)
InstallFails(b) ==
    /\ Go(b, "acquiring", "rollback")
    /\ Len(held[b]) < Len(wants[b])
    /\ installed[wants[b][Len(held[b]) + 1]] = 0
    /\ UNCHANGED <<wants, held, token, installed, fallback, lock, current,
                   nest, born, base, last>>

SetCurrent(x, b) ==
    /\ InnermostOf(x, b)
    /\ Go(b, "set", "push")
    /\ token' = [token EXCEPT ![b] = current[x]]
    /\ current' = [current EXCEPT ![x] = b]
    /\ UNCHANGED <<wants, held, installed, fallback, lock, nest, born, base,
                   last>>

push_fallback_cassette(b) ==
    /\ Go(b, "push", "active")
    /\ lock = None
    /\ fallback' = Append(fallback, b)
    /\ UNCHANGED <<wants, held, token, installed, lock, current, nest, born,
                   base, last>>

-----------------------------------------------------------------------------
(* Leaving: the finally clause, after the body or check_observed returned  *)
(* or raised                                                               *)

PopLast(b) ==
    /\ Go(b, "active", "reset")
    /\ \E x \in born : InnermostOf(x, b)
    /\ lock = None
    /\ fallback' = SubSeq(fallback, 1, Len(fallback) - 1)
    /\ UNCHANGED <<wants, held, token, installed, lock, current, nest, born,
                   base, last>>

(* The last entry that is this cassette is deleted.                        *)
pop_fallback_cassette(b) ==
    /\ Go(b, "active", "reset")
    /\ \E x \in born : InnermostOf(x, b)
    /\ lock = None
    /\ fallback' = LET at == {i \in DOMAIN fallback : fallback[i] = b}
                   IN  IF at = {} THEN fallback ELSE RemoveAt(fallback, Max(at))
    /\ UNCHANGED <<wants, held, token, installed, lock, current, nest, born,
                   base, last>>

ResetToNone(x, b) ==
    /\ InnermostOf(x, b)
    /\ Go(b, "reset", "release")
    /\ current' = [current EXCEPT ![x] = None]
    /\ UNCHANGED <<wants, held, token, installed, fallback, lock, nest, born,
                   base, last>>

ResetCurrent(x, b) ==
    /\ InnermostOf(x, b)
    /\ Go(b, "reset", "release")
    /\ current' = [current EXCEPT ![x] = token[b]]
    /\ UNCHANGED <<wants, held, token, installed, fallback, lock, nest, born,
                   base, last>>

ReleaseBegin(b) ==
    /\ Go(b, "release", "releasing")
    /\ lock = None
    /\ lock' = b
    /\ UNCHANGED <<wants, held, token, installed, fallback, current, nest,
                   born, base, last>>

(* The nests of the contexts when a block is over.                         *)
Left(b) == [x \in Contexts |-> IF InnermostOf(x, b) THEN Front(nest[x]) ELSE nest[x]]

(* _release_locked, one class at a time: the last holder uninstalls.       *)
Uninstall(cls) == [installed EXCEPT ![cls] = 0]

Counted(cls) == [installed EXCEPT ![cls] = IF @ <= 1 THEN 0 ELSE @ - 1]

ReleaseOne(b) ==
    /\ stage[b] \in {"releasing", "rollback"}
    /\ held[b] # <<>>
    /\ installed' = Counted(Head(held[b]))
    /\ held' = [held EXCEPT ![b] = Tail(@)]
    /\ UNCHANGED <<stage, wants, token, fallback, lock, current, nest, born,
                   base, last>>

KeepModuleLock(b) ==
    /\ stage[b] \in {"releasing", "rollback"}
    /\ held[b] = <<>>
    /\ stage' = [stage EXCEPT ![b] = IF @ = "rollback" THEN "failed" ELSE "save"]
    /\ nest' = IF stage[b] = "rollback" THEN Left(b) ELSE nest
    /\ UNCHANGED <<wants, held, token, installed, fallback, lock, current,
                   born, base, last>>

ReleaseEnd(b) ==
    /\ stage[b] \in {"releasing", "rollback"}
    /\ held[b] = <<>>
    /\ lock' = None
    /\ stage' = [stage EXCEPT ![b] = IF @ = "rollback" THEN "failed" ELSE "save"]
    /\ nest' = IF stage[b] = "rollback" THEN Left(b) ELSE nest
    /\ UNCHANGED <<wants, held, token, installed, fallback, current, born,
                   base, last>>

(* Cassette.save returns or raises; either way the block is over.          *)
SaveAndLeave(b) ==
    /\ \E to \in {"done", "failed"} : Go(b, "save", to)
    /\ nest' = Left(b)
    /\ UNCHANGED <<wants, held, token, installed, fallback, lock, current,
                   born, base, last>>

-----------------------------------------------------------------------------
(* Contexts and requests                                                   *)

(* create_task or copy_context().run: the new context starts with the      *)
(* current cassette of the old one.                                        *)
CopyContext(x, y) ==
    /\ x \in born /\ InBody(x) /\ y \notin born
    /\ born' = born \cup {y}
    /\ current' = [current EXCEPT ![y] = current[x]]
    /\ base' = [base EXCEPT ![y] = current[x]]
    /\ UNCHANGED <<stage, wants, held, token, installed, fallback, lock, nest,
                   last>>

(* A thread whose context is empty.                                        *)
StartThread(y) ==
    /\ y \notin born
    /\ born' = born \cup {y}
    /\ UNCHANGED <<stage, wants, held, token, installed, fallback, lock,
                   current, nest, base, last>>

GuessNewest == IF fallback = <<>> THEN None ELSE Last(fallback)

FallbackCassette == IF Len(fallback) = 1 THEN fallback[1] ELSE None

(* get_current_cassette, for a request through a patched library.          *)
Request(x, cls) ==
    /\ x \in born /\ InBody(x)
    /\ installed[cls] > 0
    /\ IF current[x] # None
       THEN last' = [by |-> x, got |-> current[x]]
       ELSE lock = None /\ last' = [by |-> x, got |-> FallbackCassette]
    /\ UNCHANGED <<stage, wants, held, token, installed, fallback, lock,
                   current, nest, born, base>>

-----------------------------------------------------------------------------

Init ==
    /\ stage = [b \in Blocks |-> "idle"]
    /\ wants \in [Blocks -> Lists]
    /\ held = [b \in Blocks |-> <<>>]
    /\ token = [b \in Blocks |-> None]
    /\ installed = [c \in Classes |-> 0]
    /\ fallback = <<>>
    /\ lock = None
    /\ current = [x \in Contexts |-> None]
    /\ nest = [x \in Contexts |-> <<>>]
    /\ born = {Root}
    /\ base = [x \in Contexts |-> None]
    /\ last = [by |-> Root, got |-> None]

(* What a block does between its start and its body, and after its body.   *)
Opening(b) ==
    \/ AcquireBegin(b) \/ AcquireOne(b) \/ AcquireEnd(b)
    \/ push_fallback_cassette(b)
    \/ \E x \in Contexts : SetCurrent(x, b)

Closing(b) ==
    \/ ReleaseBegin(b) \/ ReleaseOne(b) \/ ReleaseEnd(b) \/ SaveAndLeave(b)
    \/ \E x \in Contexts : ResetCurrent(x, b)

Next ==
    \/ \E b \in Blocks :
         \/ Opening(b) \/ Closing(b)
         \/ InstallFails(b) \/ pop_fallback_cassette(b)
         \/ \E x \in Contexts : Enter(x, b) \/ EnterFails(x, b)
    \/ \E x \in Contexts :
         \/ StartThread(x)
         \/ \E y \in Contexts : CopyContext(x, y)
         \/ \E c \in Classes : Request(x, c)

Spec == Init /\ [][Next]_vars

(* A block that runs keeps running; bodies may last for ever.  Everybody   *)
(* holds the module lock for a bounded loop only, so that a block which    *)
(* keeps trying gets it.                                                   *)
FairSpec == Spec /\ \A b \in Blocks : SF_vars(Opening(b)) /\ SF_vars(Closing(b))

-----------------------------------------------------------------------------
(* Properties                                                              *)

Stages == {"idle", "acquire", "acquiring", "rollback", "set", "push", "active",
           "reset", "release", "releasing", "save", "done", "failed"}

TypeOK ==
    /\ stage \in [Blocks -> Stages]
    /\ \A b \in Blocks : held[b] \in Seq(Classes)
    /\ installed \in [Classes -> Nat]
    /\ lock \in Blocks \cup {None}
    /\ \A b \in Blocks :
         lock = b <=> stage[b] \in {"acquiring", "rollback", "releasing"}
    /\ current \in [Contexts -> Blocks \cup {None}]

Holds(c) == UNION {{b} \X {i \in DOMAIN held[b] : held[b][i] = c} : b \in Blocks}

(***************************************************************************)
(* The reference count of a class is the number of times that running      *)
(* blocks hold it, whatever order they enter, fail and leave in.           *)
(***************************************************************************)
CountsExact == \A c \in Classes : installed[c] = Cardinality(Holds(c))

(***************************************************************************)
(* While the body of a block runs, every library it asked for is patched   *)
(* and it is in the fallback list exactly once.  Once every block is over, *)
(* by whatever error path, no library is patched, no cassette is left to   *)
(* fall back to and the module lock is free.                               *)
(***************************************************************************)
Over == {"idle", "done", "failed"}
CoveredWhileNeeded ==
    /\ \A b \in Blocks : stage[b] = "active" =>
         /\ \A i \in DOMAIN wants[b] : installed[wants[b][i]] > 0
         /\ Cardinality({i \in DOMAIN fallback : fallback[i] = b}) = 1
    /\ (\A b \in Blocks : stage[b] \in Over) =>
         /\ \A c \in Classes : installed[c] = 0
         /\ fallback = <<>>
         /\ lock = None

(***************************************************************************)
(* In the body of a block, and after it, the current cassette of a context *)
(* is that of the innermost block the context is in, or the one it         *)
(* inherited; what other contexts do never changes it.                     *)
(***************************************************************************)
InnermostIsCurrent ==
    \A x \in born : InBody(x) =>
        current[x] = IF nest[x] = <<>> THEN base[x] ELSE Last(nest[x])

(***************************************************************************)
(* A request from an empty context is served by a cassette only if no      *)
(* other block is active: "Guessing would let one task's worker thread     *)
(* replay from - or record into - a cassette another task entered."        *)
(***************************************************************************)
NeverGuesses ==
    [][\A x \in Contexts :
         (last' # last /\ last'.by = x /\ current[x] = None /\ last'.got # None)
           => {b \in Blocks : stage[b] = "active"} = {last'.got}]_vars

(***************************************************************************)
(* A block that starts reaches its body or fails, and one that leaves its  *)
(* body gets through: no block waits for the module lock for ever.         *)
(***************************************************************************)
BlocksGetThrough ==
    \A b \in Blocks :
        /\ stage[b] = "acquire" ~> stage[b] \in {"active", "failed"}
        /\ stage[b] = "reset" ~> stage[b] \in Over
=============================================================================

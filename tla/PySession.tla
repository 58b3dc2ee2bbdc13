------------------------------ MODULE PySession ------------------------------
(***************************************************************************)
(* One use_cassette block of the Python package (src/cassetter/cassette.py,*)
(* config.py): the Cassette object, the threads or tasks whose requests    *)
(* the interceptors send through it, and the save when the block exits.    *)
(*                                                                         *)
(* A step is what runs between two points where the interpreter may switch *)
(* threads: one call into the Rust cassette, or one statement that touches *)
(* shared state.  Rust methods hold the GIL, except save, which releases   *)
(* it while it borrows the cassette; a method that mutates the cassette    *)
(* then raises RuntimeError ("Already borrowed").  Requests are meant as   *)
(* scrub_interaction leaves them, which match and record both apply first. *)
(***************************************************************************)
EXTENDS Matching, SequencesExt

CONSTANTS
    Threads,       \* one intercepted request each
    NoThread,
    Requests,
    Normalize,     \* uri_normalizer, on requests
    MatchOn,       \* MatchConfig.match_on
    InitialFiles   \* sequences of requests that may be on disk

Modes == {"None", "Once", "NewEpisodes", "All", "Rewrite", "Verify"}
Interaction == [req : Requests, id : Int]

ASSUME PySessionAssumption ==
    /\ NoThread \notin Threads
    /\ MatchOn \in Seq(KNOWN_MATCHERS) /\ MatchOn # <<>>
    /\ Normalize \in [Requests -> Requests]
    /\ InitialFiles \subseteq Seq(Requests)
    /\ \A r \in Requests : /\ r.method \in Methods
                           /\ r.uri \in Nat
                           /\ r.body \in BodyType

VARIABLES
    mode, expiry, normalizes,   \* the options of the block
    joined,                     \* its body waits for the threads it started
    phase,                      \* where the block is
    replay_only, dirty,         \* _once_replay_only, _dirty
    inner, played,              \* _inner: interactions, played_indices
    mirror, mirror_played,      \* _match_inner
    orders, next_order,         \* _record_orders, _next_record_order
    lock,                       \* the holder of _record_lock
    save_order,                 \* what output_order returned to save
    exists, file,               \* the cassette file
    pc, req, order, expected,   \* of each thread; expected is the index matched
    outcome, answer,
    due                         \* orders recorded when the block began to exit

options == <<mode, expiry, normalizes, joined>>
block == <<phase, save_order, due>>
state == <<replay_only, dirty>>
tapes == <<inner, played, mirror, mirror_played>>
numbers == <<orders, next_order>>
disk == <<exists, file>>
calls == <<pc, req, order, expected, outcome, answer>>
vars == <<options, block, state, tapes, numbers, lock, disk, calls>>

-----------------------------------------------------------------------------
(* Cassette.load                                                           *)

Discarding == mode \in {"All", "Rewrite"}

can_record ==
    \/ mode \in {"All", "NewEpisodes", "Rewrite"}
    \/ mode = "Once" /\ ~ replay_only

normalized_copy(i) == [i EXCEPT !.req = Normalize[@]]

NotPlayed(tape) == [i \in DOMAIN tape |-> FALSE]

(* What load leaves in the cassette object; _rebuild_match_inner included. *)
Hold(tape) ==
    /\ inner' = tape
    /\ played' = NotPlayed(tape)
    /\ mirror' = IF normalizes
                 THEN [i \in DOMAIN tape |-> normalized_copy(tape[i])] ELSE <<>>
    /\ mirror_played' = IF normalizes THEN NotPlayed(tape) ELSE <<>>
    /\ orders' = [i \in DOMAIN tape |-> i - 1]
    /\ next_order' = Len(tape)

(* `rewrite` removes the file; it and `all` start empty, like a missing    *)
(* file does.                                                              *)
LoadEmpty ==
    /\ phase = "start"
    /\ Discarding \/ ~ exists
    /\ exists' = (exists /\ mode # "Rewrite")
    /\ file' = IF mode = "Rewrite" THEN <<>> ELSE file
    /\ Hold(<<>>)
    /\ replay_only' = FALSE
    /\ dirty' = Discarding
    /\ phase' = "active"
    /\ UNCHANGED <<options, save_order, due, lock, calls>>

Expired == expiry # "fresh" /\ file # <<>>

LoadFile ==
    /\ phase = "start"
    /\ ~ Discarding /\ exists
    /\ ~ (Expired /\ expiry \in {"fail", "rerecord"})
    /\ Hold(file)
    /\ replay_only' = TRUE
    /\ phase' = "active"
    /\ UNCHANGED <<options, save_order, due, dirty, lock, disk, calls>>

(* _check_expiry with on_expiry "rerecord".                                *)
LoadExpired ==
    /\ phase = "start"
    /\ ~ Discarding /\ exists
    /\ Expired /\ expiry = "rerecord"
    /\ Hold(<<>>)
    /\ replay_only' = FALSE
    /\ dirty' = TRUE
    /\ phase' = "active"
    /\ UNCHANGED <<options, save_order, due, lock, disk, calls>>

(* The file does not parse, or it expired and on_expiry is "fail".         *)
LoadFails ==
    /\ phase = "start"
    /\ ~ Discarding /\ exists
    /\ phase' = "load_error"
    /\ UNCHANGED <<options, save_order, due, state, tapes, numbers,
                   lock, disk, calls>>

Load == LoadEmpty \/ LoadFile \/ LoadExpired \/ LoadFails

-----------------------------------------------------------------------------
(* An intercepted request                                                  *)

Borrowed == phase = "writing"

Return(t, what) ==
    /\ pc' = [pc EXCEPT ![t] = "done"]
    /\ outcome' = [outcome EXCEPT ![t] = what]

(* get_current_cassette returned this cassette.                            *)
Start(t, r) ==
    /\ pc[t] = "idle"
    /\ phase = "active"
    /\ req' = [req EXCEPT ![t] = r]
    /\ pc' = [pc EXCEPT ![t] = "match"]
    /\ UNCHANGED <<options, block, state, tapes, numbers, lock, disk, order,
                   expected, outcome, answer>>

(* should_bypass, or before_record_request raised SkipRecording.           *)
Passthrough(t) ==
    /\ pc[t] = "match"
    /\ Return(t, "passthrough")
    /\ UNCHANGED <<options, block, state, tapes, numbers, lock, disk, req,
                   order, expected, answer>>

Found(t) ==
    IF normalizes
    THEN pick(Matching(Normalize[req[t]], mirror, MatchOn), mirror_played, ~ can_record)
    ELSE pick(Matching(req[t], inner, MatchOn), played, ~ can_record)

(* What an interceptor does once match returned the interaction at i.      *)
Matched(t, i) ==
    /\ answer' = [answer EXCEPT ![t] = inner[i].id]
    /\ IF mode = "Verify"
       THEN pc' = [pc EXCEPT ![t] = "reserve"] /\ UNCHANGED outcome
       ELSE Return(t, "replayed")

(* take_match on the cassette itself.                                      *)
MatchInner(t) ==
    /\ pc[t] = "match"
    /\ ~ normalizes /\ ~ Borrowed
    /\ Found(t) # 0
    /\ expected' = [expected EXCEPT ![t] = Found(t)]
    /\ played' = [played EXCEPT ![Found(t)] = TRUE]
    /\ Matched(t, Found(t))
    /\ UNCHANGED <<options, block, state, inner, mirror, mirror_played, numbers,
                   lock, disk, req, order>>

(* _take_normalized_match: take_match on the mirror ...                    *)
MatchMirror(t) ==
    /\ pc[t] = "match"
    /\ normalizes
    /\ Found(t) # 0
    /\ expected' = [expected EXCEPT ![t] = Found(t)]
    /\ mirror_played' = [mirror_played EXCEPT ![Found(t)] = TRUE]
    /\ pc' = [pc EXCEPT ![t] = "mark"]
    /\ UNCHANGED <<options, block, state, inner, played, mirror, numbers, lock,
                   disk, req, order, outcome, answer>>

(* ... and mark_played on the cassette.  A defect leaves it out.           *)
MarkForgotten(t) ==
    /\ pc[t] = "mark"
    /\ ~ Borrowed
    /\ Matched(t, expected[t])
    /\ UNCHANGED <<options, block, state, tapes, numbers, lock, disk, req,
                   order, expected>>

MarkPlayed(t) ==
    /\ pc[t] = "mark"
    /\ ~ Borrowed
    /\ played' = [played EXCEPT ![expected[t]] = TRUE]
    /\ Matched(t, expected[t])
    /\ UNCHANGED <<options, block, state, inner, mirror, mirror_played, numbers,
                   lock, disk, req, order, expected>>

(* NoMatchError: the request goes live if the session records.             *)
NoMatch(t) ==
    /\ pc[t] = "match"
    /\ normalizes \/ ~ Borrowed
    /\ Found(t) = 0
    /\ IF can_record
       THEN pc' = [pc EXCEPT ![t] = "reserve"] /\ UNCHANGED outcome
       ELSE Return(t, "no_match")
    /\ UNCHANGED <<options, block, state, tapes, numbers, lock, disk, req,
                   order, expected, answer>>

(* take_match, mark_played or add_interaction while save has the cassette. *)
AlreadyBorrowed(t) ==
    /\ Borrowed
    /\ \/ pc[t] = "match" /\ ~ normalizes
       \/ pc[t] = "mark"
       \/ pc[t] = "record" /\ lock = NoThread
    /\ Return(t, "borrowed")
    /\ UNCHANGED <<options, block, state, tapes, numbers, lock, disk, req,
                   order, expected, answer>>

reserve_record_order(t) ==
    /\ pc[t] = "reserve"
    /\ lock = NoThread
    /\ order' = [order EXCEPT ![t] = next_order]
    /\ next_order' = next_order + 1
    /\ pc' = [pc EXCEPT ![t] = "live"]
    /\ UNCHANGED <<options, block, state, tapes, orders, lock, disk, req,
                   expected, outcome, answer>>

(* The live request fails, its response is skipped by the hook, or it is   *)
(* compared with the recording in verify mode.                             *)
LiveEnds(t) ==
    /\ pc[t] = "live"
    /\ \E what \in {"live_error", "skipped"} \cup
                   IF expected[t] # 0 THEN {"verified", "mismatch"} ELSE {} :
          Return(t, what)
    /\ UNCHANGED <<options, block, state, tapes, numbers, lock, disk, req,
                   order, expected, answer>>

Responded(t) ==
    /\ pc[t] = "live"
    /\ expected[t] = 0
    /\ pc' = [pc EXCEPT ![t] = "record"]
    /\ UNCHANGED <<options, block, state, tapes, numbers, lock, disk, req,
                   order, expected, outcome, answer>>

-----------------------------------------------------------------------------
(* Cassette.record: the three appends under _record_lock, then _dirty      *)

Recording(t) == [req |-> req[t], id |-> order[t]]

AddUnplayed(t) ==
    /\ pc[t] = "record"
    /\ lock = NoThread
    /\ ~ Borrowed
    /\ inner' = Append(inner, Recording(t))
    /\ played' = Append(played, FALSE)
    /\ lock' = t
    /\ pc' = [pc EXCEPT ![t] = "order"]
    /\ UNCHANGED <<options, block, state, mirror, mirror_played, numbers, disk,
                   req, order, expected, outcome, answer>>

AddInteraction(t) ==
    /\ pc[t] = "record"
    /\ lock = NoThread
    /\ ~ Borrowed
    /\ inner' = Append(inner, Recording(t))
    /\ played' = Append(played, can_record)
    /\ lock' = t
    /\ pc' = [pc EXCEPT ![t] = "order"]
    /\ UNCHANGED <<options, block, state, mirror, mirror_played, numbers, disk,
                   req, order, expected, outcome, answer>>

KeepOrders(t) ==
    /\ pc[t] = "order"
    /\ pc' = [pc EXCEPT ![t] = "mirror"]
    /\ UNCHANGED <<options, block, state, tapes, numbers, lock, disk, req,
                   order, expected, outcome, answer>>

AppendOrder(t) ==
    /\ pc[t] = "order"
    /\ orders' = Append(orders, order[t])
    /\ pc' = [pc EXCEPT ![t] = "mirror"]
    /\ UNCHANGED <<options, block, state, tapes, next_order, lock, disk, req,
                   order, expected, outcome, answer>>

(* The mirror, and the release of the lock.                                *)
KeepMirror(t) ==
    /\ pc[t] = "mirror"
    /\ lock' = NoThread
    /\ pc' = [pc EXCEPT ![t] = "dirty"]
    /\ UNCHANGED <<options, block, state, tapes, numbers, disk, req, order,
                   expected, outcome, answer>>

KeepLock(t) ==
    /\ pc[t] = "mirror"
    /\ pc' = [pc EXCEPT ![t] = "dirty"]
    /\ UNCHANGED <<options, block, state, tapes, numbers, lock, disk, req,
                   order, expected, outcome, answer>>

AddToMirror(t) ==
    /\ pc[t] = "mirror"
    /\ mirror' = IF normalizes THEN Append(mirror, normalized_copy(Recording(t)))
                               ELSE mirror
    /\ mirror_played' = IF normalizes THEN Append(mirror_played, can_record)
                                      ELSE mirror_played
    /\ lock' = NoThread
    /\ pc' = [pc EXCEPT ![t] = "dirty"]
    /\ UNCHANGED <<options, block, state, inner, played, numbers, disk, req,
                   order, expected, outcome, answer>>

StayClean(t) ==
    /\ pc[t] = "dirty"
    /\ Return(t, "recorded")
    /\ UNCHANGED <<options, block, state, tapes, numbers, lock, disk, req,
                   order, expected, answer>>

SetDirty(t) ==
    /\ pc[t] = "dirty"
    /\ dirty' = TRUE
    /\ Return(t, "recorded")
    /\ UNCHANGED <<options, block, replay_only, tapes, numbers, lock, disk, req,
                   order, expected, answer>>

-----------------------------------------------------------------------------
(* The end of the block, and Cassette.save                                 *)

RecordedOrders == {order[t] : t \in {u \in Threads : outcome[u] = "recorded"}}

(* The finally clause up to the save: from here on no request gets this    *)
(* cassette, but those that have it go on.                                 *)
Exit ==
    /\ phase = "active"
    /\ joined => \A t \in Threads : pc[t] \in {"idle", "done"}
    /\ due' = RecordedOrders
    /\ phase' = "saving"
    /\ UNCHANGED <<options, save_order, state, tapes, numbers, lock, disk, calls>>

NeedsSave == dirty /\ (Len(inner) > 0 \/ exists)

SaveSkipped ==
    /\ phase = "saving"
    /\ ~ NeedsSave
    /\ phase' = "closed"
    /\ UNCHANGED <<options, save_order, due, state, tapes, numbers,
                   lock, disk, calls>>

(* output_order, on the cassette the matcher compares.                     *)
SaveOrdered ==
    LET matched == IF normalizes THEN mirror ELSE inner
    IN
    /\ phase = "saving"
    /\ NeedsSave
    /\ \E o \in [1..Len(matched) -> 1..Len(matched)] :
         /\ output_order(o, matched, MatchOn, orders)
         /\ save_order' = o
    /\ phase' = "ordered"
    /\ UNCHANGED <<options, due, state, tapes, numbers, lock, disk, calls>>

(* _inner.save borrows the cassette and releases the GIL.                  *)
SaveBegins ==
    /\ phase = "ordered"
    /\ validate(save_order, Len(inner))
    /\ phase' = "writing"
    /\ UNCHANGED <<options, save_order, due, state, tapes, numbers,
                   lock, disk, calls>>

(* The order does not fit the cassette any more: ValueError.               *)
SaveRejected ==
    /\ phase = "ordered"
    /\ ~ validate(save_order, Len(inner))
    /\ phase' = "order_error"
    /\ UNCHANGED <<options, save_order, due, state, tapes, numbers,
                   lock, disk, calls>>

SaveWritten ==
    /\ phase = "writing"
    /\ file' = Arranged(inner, save_order)
    /\ exists' = TRUE
    /\ phase' = "written"
    /\ UNCHANGED <<options, save_order, due, state, tapes, numbers,
                   lock, calls>>

SaveFails ==
    /\ phase = "writing"
    /\ phase' = "io_error"
    /\ UNCHANGED <<options, save_order, due, state, tapes, numbers,
                   lock, disk, calls>>

SaveCleans ==
    /\ phase = "written"
    /\ dirty' = FALSE
    /\ phase' = "closed"
    /\ UNCHANGED <<options, save_order, due, replay_only, tapes,
                   numbers, lock, disk, calls>>

Save ==
    \/ SaveSkipped \/ SaveOrdered \/ SaveBegins \/ SaveRejected
    \/ SaveWritten \/ SaveFails \/ SaveCleans

-----------------------------------------------------------------------------

Init ==
    /\ mode \in Modes
    /\ expiry \in {"fresh", "warn", "fail", "rerecord"}
    /\ normalizes \in BOOLEAN
    /\ joined \in BOOLEAN
    /\ phase = "start"
    /\ replay_only = FALSE /\ dirty = FALSE
    /\ inner = <<>> /\ played = <<>> /\ mirror = <<>> /\ mirror_played = <<>>
    /\ orders = <<>> /\ next_order = 0
    /\ lock = NoThread
    /\ save_order = <<>>
    /\ \/ exists = FALSE /\ file = <<>>
       \/ exists = TRUE /\ \E f \in InitialFiles :
            file = [i \in DOMAIN f |-> [req |-> f[i], id |-> i - 1 - Len(f)]]
    /\ pc = [t \in Threads |-> "idle"]
    /\ req = [t \in Threads |-> CHOOSE r \in Requests : TRUE]
    /\ order = [t \in Threads |-> 0]
    /\ expected = [t \in Threads |-> 0]
    /\ outcome = [t \in Threads |-> "none"]
    /\ answer = [t \in Threads |-> 0]
    /\ due = {}

(* The steps of a request that wait for nothing but the record lock.       *)
Proceed(t) ==
    \/ MatchInner(t) \/ MatchMirror(t) \/ MarkPlayed(t) \/ NoMatch(t)
    \/ AlreadyBorrowed(t) \/ reserve_record_order(t)
    \/ AddInteraction(t) \/ AppendOrder(t) \/ AddToMirror(t) \/ SetDirty(t)

Next ==
    \/ Load \/ Exit \/ Save
    \/ \E t \in Threads :
         \/ \E r \in Requests : Start(t, r)
         \/ Passthrough(t) \/ LiveEnds(t) \/ Responded(t)
         \/ Proceed(t)

Spec == Init /\ [][Next]_vars

(* Running threads run on; servers may never answer.  The record lock is   *)
(* free again infinitely often while others only hold it for a few steps,  *)
(* and threading.Lock lets a waiter that keeps trying in.                  *)
FairSpec ==
    /\ Spec
    /\ WF_vars(Save)
    /\ \A t \in Threads : SF_vars(Proceed(t))

-----------------------------------------------------------------------------
(* Properties                                                              *)

Ids(s) == {s[i].id : i \in DOMAIN s}
Unplayed == {i \in DOMAIN played : ~ played[i]}

TypeOK ==
    /\ mode \in Modes
    /\ inner \in Seq(Interaction) /\ mirror \in Seq(Interaction)
    /\ file \in Seq(Interaction)
    /\ Len(played) = Len(inner) /\ Len(mirror_played) = Len(mirror)
    /\ lock \in Threads \cup {NoThread}
    /\ \A t \in Threads : lock = t <=> pc[t] \in {"order", "mirror"}
    /\ \A t \in Threads : expected[t] \in 0..Len(inner)

(***************************************************************************)
(* Each recording keeps the order its own request claimed, and the mirror  *)
(* is the normalized copy of the cassette position by position: record's   *)
(* "one lock over all three".                                              *)
(***************************************************************************)
OrdersPaired ==
    /\ \A i \in DOMAIN orders :
         i \in DOMAIN inner /\ (inner[i].id >= 0 => orders[i] = inner[i].id)
    /\ \A i \in DOMAIN mirror :
         i \in DOMAIN inner /\ mirror[i] = normalized_copy(inner[i])
    /\ lock = NoThread =>
         /\ Len(orders) = Len(inner)
         /\ normalizes => Len(mirror) = Len(inner)

(***************************************************************************)
(* While the session records, no interaction answers two requests, not     *)
(* even through the mirror, and no request gets a response of this session *)
(* back.                                                                   *)
(***************************************************************************)
RecordingReplaysOnce ==
    can_record =>
        \A t \in Threads : outcome[t] = "replayed" =>
            /\ answer[t] < 0
            /\ \A u \in Threads \ {t} :
                 outcome[u] = "replayed" => answer[u] # answer[t]

(***************************************************************************)
(* What the played flags of the cassette say (orphan reports, all_played)  *)
(* agrees with what the mirror replayed, once no request is in between.    *)
(***************************************************************************)
PlayedInSync ==
    (joined /\ normalizes /\ \A t \in Threads : pc[t] \in {"idle", "done"})
        => played = mirror_played

(***************************************************************************)
(* Every response recorded before the block began to exit is in the file   *)
(* when the block is left, unless saving raised an error.                  *)
(***************************************************************************)
DueSaved == phase = "closed" => due \subseteq Ids(file)

(* A request as the matcher gets it.                                       *)
Seen(r) == IF normalizes THEN Normalize[r] ELSE r

(* The recordings of the file the matcher cannot tell apart are in the     *)
(* order their requests were sent.                                         *)
InSentOrder ==
    \A i, j \in DOMAIN file :
        (/\ i < j /\ file[i].id >= 0 /\ file[j].id >= 0
         /\ matches_all(Seen(file[i].req), Seen(file[j].req), MatchOn))
            => file[i].id < file[j].id

(***************************************************************************)
(* docs/tutorial/concurrency.md: recordings the matcher cannot tell apart  *)
(* "keep the order their requests were *sent* in rather than the order the *)
(* responses came back".                                                   *)
(***************************************************************************)
SentOrderKept == phase = "closed" => InSentOrder

(***************************************************************************)
(* In a block that waited for its threads they do keep the order they were *)
(* sent in, whichever response came back first.                            *)
(***************************************************************************)
FileInIssueOrder == joined => SentOrderKept

(***************************************************************************)
(* docs/tutorial/record-modes.md on verify: "The cassette is never         *)
(* written."                                                               *)
(***************************************************************************)
VerifyNeverWrites == [][mode = "Verify" => UNCHANGED <<exists, file>>]_vars

(***************************************************************************)
(* Nobody waits for the record lock for ever, and an exit comes to an end, *)
(* whichever of its steps fails.                                           *)
(***************************************************************************)
SessionEnds ==
    /\ \A t \in Threads : pc[t] \in {"record", "reserve"} ~> pc[t] \in {"live", "done"}
    /\ phase = "saving" ~> phase \in {"closed", "order_error", "io_error"}
=============================================================================

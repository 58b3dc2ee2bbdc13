------------------------------- MODULE Recorder -------------------------------
(***************************************************************************)
(* One session of the Rust SDK's Recorder (crates/cassetter/src): the      *)
(* cassette shared by the reqwest client and the tonic service behind one  *)
(* mutex, the calls in flight, and Recorder::finish.                       *)
(*                                                                         *)
(* Every action is one critical section of the mutex, so that the calls    *)
(* interleave exactly where the code unlocks: between reserving an order   *)
(* and inserting the response, between inserting and saving, and between a *)
(* failed save and remembering its error.  A process may stop in any       *)
(* state; what a crash leaves behind is the `file` of that state.          *)
(***************************************************************************)
EXTENDS Matching, RecordMode, SequencesExt

CONSTANTS
    Tasks,         \* calls to Client::execute / GrpcService::call, one request each
    Finishers,     \* calls to Recorder::finish
    HttpRequests,  \* requests sent through reqwest
    GrpcRequests,  \* method and serialized body of unary RPCs
    Scrub,         \* request -> what scrub_interaction leaves of it
    MatchOn,       \* RecorderBuilder::match_on
    InitialFiles   \* the cassettes that may be on disk: [http, grpc, ws]

Proto == {"http", "grpc"}
Requests == HttpRequests \cup GrpcRequests
RequestsOf(p) == IF p = "http" THEN HttpRequests ELSE GrpcRequests

(* An interaction; `id` stands for the response.  A response recorded in   *)
(* this session is known by its order, those that were on disk before by   *)
(* negative numbers.                                                       *)
Interaction == [req : Requests, id : Int]

ASSUME RecorderAssumption ==
    /\ Tasks \cap Finishers = {}
    /\ HttpRequests # {}
    /\ MatchOn \in Seq(KNOWN_MATCHERS) /\ MatchOn # <<>>
    /\ Scrub \in [Requests -> Requests]
    /\ \A f \in InitialFiles : /\ f.http \in Seq(Requests)
                               /\ f.grpc \in Seq(Requests)
                               /\ f.ws \in Nat

VARIABLES
    mode, can_record,        \* State::mode, State::can_record
    tape,                    \* Cassette::interactions, grpc_interactions
    played,                  \* Cassette::played_indices, grpc_played
    orders,                  \* State::http_order, grpc_order
    next_order,              \* State::next_order
    pending,                 \* the keys of State::pending
    errors,                  \* the callers that pushed to State::errors
    save_empty, finalized,   \* State::save_empty, State::finalized
    exists, file,            \* the cassette file
    pc, proto, req, order,   \* of each task: where it is, its request, its order
    outcome,                 \* what its call returned
    answer,                  \* the id of the interaction it got, if any
    fin,                     \* where each finish call is, or what it returned
    first                    \* the value of next_order at the start

session == <<mode, can_record, first>>
cassette == <<tape, played, orders>>
disk == <<exists, file>>
tasks == <<pc, proto, req, order, outcome, answer>>
vars == <<session, cassette, next_order, pending, errors, save_empty,
          finalized, disk, tasks, fin>>

-----------------------------------------------------------------------------
(* recorder_state.rs                                                       *)

SaveEmpty(there, m) == there /\ m = "All"

Loaded(requests) ==
    [i \in DOMAIN requests |->
        [req |-> requests[i], id |-> i - 1 - Len(requests)]]

NoInteractions == [p \in Proto |-> <<>>]

(* State::from_builder: `there` says whether the cassette file exists and  *)
(* `on_disk` is what it holds.                                             *)
OpenWith(there, on_disk, ws, m) ==
    /\ mode = m
    /\ can_record = CanRecord(m, there)
    /\ tape = IF there /\ ~ Replaces(m) THEN on_disk ELSE NoInteractions
    /\ played = [p \in Proto |-> [i \in DOMAIN tape[p] |-> FALSE]]
    /\ orders = [p \in Proto |-> [i \in DOMAIN tape[p] |-> i - 1]]
    /\ next_order = Len(tape["http"]) + Len(tape["grpc"])
                      + IF there /\ ~ Replaces(m) THEN ws ELSE 0
    /\ first = next_order
    /\ save_empty = SaveEmpty(there, m)
    /\ exists = (there /\ m # "Rewrite")
    /\ file = IF there /\ m # "Rewrite" THEN on_disk ELSE NoInteractions

(* Nothing was asked of the recorder yet.                                  *)
NoCalls ==
    /\ pending = {}
    /\ errors = {}
    /\ finalized = FALSE
    /\ pc = [t \in Tasks |-> "idle"]
    /\ proto = [t \in Tasks |-> "http"]
    /\ req = [t \in Tasks |-> CHOOSE r \in HttpRequests : TRUE]
    /\ order = [t \in Tasks |-> 0]
    /\ outcome = [t \in Tasks |-> "none"]
    /\ answer = [t \in Tasks |-> 0]
    /\ fin = [f \in Finishers |-> "idle"]

Init ==
    /\ \E m \in Modes :
         \/ OpenWith(FALSE, NoInteractions, 0, m)
         \/ \E f \in InitialFiles :
              OpenWith(TRUE, [p \in Proto |-> Loaded(f[p])], f.ws, m)
    /\ NoCalls

-----------------------------------------------------------------------------
(* prepare_http and prepare_grpc                                           *)

(* The probe is scrubbed as the recordings were.                           *)
Candidates(p, r) ==
    IF p = "http"
    THEN Matching(Scrub[r], tape[p], MatchOn)
    ELSE {i \in DOMAIN tape[p] : tape[p][i].req = Scrub[r]}

Found(p, r) ==
    IF Replays(mode) THEN pick(Candidates(p, r), played[p], ~ can_record) ELSE 0

Call(t, p, r) ==
    /\ pc[t] = "idle"
    /\ proto' = [proto EXCEPT ![t] = p]
    /\ req' = [req EXCEPT ![t] = r]

Return(t, what) ==
    /\ pc' = [pc EXCEPT ![t] = "done"]
    /\ outcome' = [outcome EXCEPT ![t] = what]

(* ensure_open fails.                                                      *)
PrepareClosed(t, p, r) ==
    /\ Call(t, p, r)
    /\ finalized
    /\ Return(t, "finalized")
    /\ UNCHANGED <<session, cassette, next_order, pending, errors, save_empty,
                   finalized, disk, order, answer, fin>>

(* Some interaction answers the request: it is used up, and returned, or   *)
(* in Verify mode kept to be compared with the live response (HTTP only).  *)
PrepareReplay(t, p, r) ==
    /\ Call(t, p, r)
    /\ ~ finalized
    /\ Found(p, r) # 0
    /\ LET i == Found(p, r)
       IN  /\ played' = [played EXCEPT ![p][i] = TRUE]
           /\ answer' = [answer EXCEPT ![t] = tape[p][i].id]
    /\ IF mode = "Verify" /\ p = "http"
       THEN pc' = [pc EXCEPT ![t] = "verify"] /\ UNCHANGED outcome
       ELSE Return(t, "replayed")
    /\ UNCHANGED <<session, tape, orders, next_order, pending, errors,
                   save_empty, finalized, disk, order, fin>>

(* reserve fails: nothing matches and the session may not record.          *)
PrepareNoMatch(t, p, r) ==
    /\ Call(t, p, r)
    /\ ~ finalized
    /\ Found(p, r) = 0
    /\ ~ can_record
    /\ Return(t, "no_match")
    /\ UNCHANGED <<session, cassette, next_order, pending, errors, save_empty,
                   finalized, disk, order, answer, fin>>

(* reserve: the call goes to the server under the next order.              *)
PrepareReserve(t, p, r) ==
    /\ Call(t, p, r)
    /\ ~ finalized
    /\ Found(p, r) = 0
    /\ can_record
    /\ order' = [order EXCEPT ![t] = next_order]
    /\ next_order' = next_order + 1
    /\ pending' = pending \cup {next_order}
    /\ pc' = [pc EXCEPT ![t] = "live"]
    /\ UNCHANGED <<session, cassette, errors, save_empty, finalized, disk,
                   outcome, answer, fin>>

-----------------------------------------------------------------------------
(* The live call ends                                                      *)

LiveFailsQuietly(t) ==
    /\ pc[t] = "live"
    /\ pending' = pending \ {order[t]}
    /\ Return(t, "live_error")
    /\ UNCHANGED <<session, cassette, next_order, errors, save_empty,
                   finalized, disk, proto, req, order, answer, fin>>

(* fail_recording: the server or the body failed.                          *)
LiveFails(t) ==
    /\ pc[t] = "live"
    /\ pending' = pending \ {order[t]}
    /\ errors' = errors \cup {t}
    /\ Return(t, "live_error")
    /\ UNCHANGED <<session, cassette, next_order, save_empty, finalized, disk,
                   proto, req, order, answer, fin>>

(* The caller drops the future at an await.                                *)
Dropped(t) ==
    /\ pc[t] \in {"live", "verify"}
    /\ Return(t, "dropped")
    /\ UNCHANGED <<session, cassette, next_order, pending, errors, save_empty,
                   finalized, disk, proto, req, order, answer, fin>>

(* The live response of a verified request: it fails, differs from the     *)
(* recording, or agrees with it (verify_http).                             *)
Verified(t) ==
    /\ pc[t] = "verify"
    /\ \E what \in {"live_error", "mismatch", "verified"} : Return(t, what)
    /\ UNCHANGED <<session, cassette, next_order, pending, errors, save_empty,
                   finalized, disk, proto, req, order, answer, fin>>

(* record_http, record_grpc: ensure_open fails and the order stays pending.*)
RecordClosed(t) ==
    /\ pc[t] = "live"
    /\ finalized
    /\ Return(t, "finalized")
    /\ UNCHANGED <<session, cassette, next_order, pending, errors, save_empty,
                   finalized, disk, proto, req, order, answer, fin>>

(* record_http: the response body cannot be encoded.                       *)
RecordRejected(t) ==
    /\ pc[t] = "live"
    /\ ~ finalized
    /\ proto[t] = "http"
    /\ pending' = pending \ {order[t]}
    /\ errors' = errors \cup {t}
    /\ Return(t, "rejected")
    /\ UNCHANGED <<session, cassette, next_order, save_empty, finalized, disk,
                   proto, req, order, answer, fin>>

(* partition_point: how many orders come before o.                         *)
PartitionPoint(s, o) ==
    CHOOSE k \in 0..Len(s) : /\ \A i \in 1..k : s[i] < o
                             /\ \A i \in (k + 1)..Len(s) : ~ (s[i] < o)

(* Where the response goes: before every interaction issued later.  A      *)
(* defect would put it where it arrived.                                   *)
AtTheEnd(t) == Len(orders[proto[t]]) + 1

Position(t) == PartitionPoint(orders[proto[t]], order[t]) + 1

(* insert_interaction: an interaction recorded in this session is played   *)
(* by the request that produced it.  A defect: it is left to be replayed.  *)
InsertUnplayed(flags, k) == InsertAt(flags, k, FALSE)

InsertFlag(flags, k) == InsertAt(flags, k, can_record)

(* record_http, record_grpc up to the unlock.                              *)
RecordInsert(t) ==
    LET p == proto[t]
        k == Position(t)
    IN
    /\ pc[t] = "live"
    /\ ~ finalized
    /\ orders' = [orders EXCEPT ![p] = InsertAt(@, k, order[t])]
    /\ tape' = [tape EXCEPT ![p] =
                  InsertAt(@, k, [req |-> Scrub[req[t]], id |-> order[t]])]
    /\ played' = [played EXCEPT ![p] = InsertFlag(@, k)]
    /\ pending' = pending \ {order[t]}
    /\ save_empty' = FALSE
    /\ pc' = [pc EXCEPT ![t] = "saving"]
    /\ UNCHANGED <<session, next_order, errors, finalized, disk, proto, req,
                   order, outcome, answer, fin>>

-----------------------------------------------------------------------------
(* What is written for the order o of the HTTP interactions; gRPC          *)
(* interactions stay as they are.  A defect: one protocol per file.        *)
SerializedOneProtocol(o) ==
    IF tape["http"] = <<>> THEN tape
    ELSE [NoInteractions EXCEPT !["http"] = Arranged(tape["http"], o)]

Serialized(o) == [tape EXCEPT !["http"] = Arranged(@, o)]

(* Recorder::save: renamed into place in one step.                         *)
WriteFile ==
    \E o \in [1..Len(tape["http"]) -> 1..Len(tape["http"])] :
        /\ output_order(o, tape["http"], MatchOn, orders["http"])
        /\ exists' = TRUE
        /\ file' = Serialized(o)

SaveSucceeds(t) ==
    /\ pc[t] = "saving"
    /\ WriteFile
    /\ Return(t, "recorded")
    /\ UNCHANGED <<session, cassette, next_order, pending, errors, save_empty,
                   finalized, proto, req, order, answer, fin>>

SaveErrorIgnored(t) ==
    /\ pc[t] = "saving"
    /\ Return(t, "recorded")
    /\ UNCHANGED <<session, cassette, next_order, pending, errors, save_empty,
                   finalized, disk, proto, req, order, answer, fin>>

SaveFails(t) ==
    /\ pc[t] = "saving"
    /\ pc' = [pc EXCEPT ![t] = "remember"]
    /\ UNCHANGED <<session, cassette, next_order, pending, errors, save_empty,
                   finalized, disk, proto, req, order, outcome, answer, fin>>

(* recording_error, remember_error.                                        *)
ForgetError(t) ==
    /\ pc[t] = "remember"
    /\ Return(t, "save_error")
    /\ UNCHANGED <<session, cassette, next_order, pending, errors, save_empty,
                   finalized, disk, proto, req, order, answer, fin>>

RememberError(t) ==
    /\ pc[t] = "remember"
    /\ errors' = errors \cup {t}
    /\ Return(t, "save_error")
    /\ UNCHANGED <<session, cassette, next_order, pending, save_empty,
                   finalized, disk, proto, req, order, answer, fin>>

-----------------------------------------------------------------------------
(* Recorder::finish                                                        *)

FinishBegin(f) ==
    /\ fin[f] = "idle"
    /\ finalized' = TRUE
    /\ fin' = [fin EXCEPT ![f] =
                 IF ~ finalized /\ save_empty THEN "saving" ELSE "report"]
    /\ UNCHANGED <<session, cassette, next_order, pending, errors, save_empty,
                   disk, tasks>>

FinishSaves(f) ==
    /\ fin[f] = "saving"
    /\ WriteFile
    /\ fin' = [fin EXCEPT ![f] = "report"]
    /\ UNCHANGED <<session, cassette, next_order, pending, errors, save_empty,
                   finalized, tasks>>

FinishSaveFails(f) ==
    /\ fin[f] = "saving"
    /\ fin' = [fin EXCEPT ![f] = "remember"]
    /\ UNCHANGED <<session, cassette, next_order, pending, errors, save_empty,
                   finalized, disk, tasks>>

FinishRetries(f) ==
    /\ fin[f] = "remember"
    /\ fin' = [fin EXCEPT ![f] = "saving"]
    /\ UNCHANGED <<session, cassette, next_order, pending, errors, save_empty,
                   finalized, disk, tasks>>

FinishRemembers(f) ==
    /\ fin[f] = "remember"
    /\ errors' = errors \cup {f}
    /\ fin' = [fin EXCEPT ![f] = "report"]
    /\ UNCHANGED <<session, cassette, next_order, pending, save_empty,
                   finalized, disk, tasks>>

ReportErrorsOnly(some_pending, some_errors) ==
    IF some_errors THEN "recording_error" ELSE "ok"

Report(some_pending, some_errors) ==
    IF some_errors THEN "recording_error"
    ELSE IF some_pending THEN "incomplete"
    ELSE "ok"

FinishReport(f) ==
    /\ fin[f] = "report"
    /\ fin' = [fin EXCEPT ![f] = Report(pending # {}, errors # {})]
    /\ UNCHANGED <<session, cassette, next_order, pending, errors, save_empty,
                   finalized, disk, tasks>>

-----------------------------------------------------------------------------

Prepare(t) ==
    \E p \in Proto : \E r \in RequestsOf(p) :
        \/ PrepareClosed(t, p, r)
        \/ PrepareReplay(t, p, r)
        \/ PrepareNoMatch(t, p, r)
        \/ PrepareReserve(t, p, r)

LiveEnds(t) ==
    \/ LiveFails(t)
    \/ Dropped(t)
    \/ Verified(t)
    \/ RecordClosed(t)
    \/ RecordRejected(t)
    \/ RecordInsert(t)

(* The steps a task takes by itself, without a server or a caller.         *)
Persist(t) == SaveSucceeds(t) \/ SaveFails(t) \/ RememberError(t)

Finish(f) ==
    \/ FinishSaves(f)
    \/ FinishSaveFails(f)
    \/ FinishRemembers(f)
    \/ FinishReport(f)

Next ==
    \/ \E t \in Tasks : Prepare(t) \/ LiveEnds(t) \/ Persist(t)
    \/ \E f \in Finishers : FinishBegin(f) \/ Finish(f)

(* A thread that holds no lock and waits for nothing goes on: both a task  *)
(* past its response and a finish call that began run to their end.  No    *)
(* fairness is assumed of servers, callers or dropped futures.             *)
Fairness ==
    /\ \A t \in Tasks : WF_vars(Persist(t))
    /\ \A f \in Finishers : WF_vars(Finish(f))

Spec == Init /\ [][Next]_vars

FairSpec == Spec /\ Fairness

-----------------------------------------------------------------------------
(* Properties                                                              *)

Ids(s) == {s[i].id : i \in DOMAIN s}
Recorded(p) == {orders[p][i] : i \in DOMAIN orders[p]}

(* Somebody is between changing the cassette and having it on disk.        *)
MidSave ==
    \/ \E t \in Tasks : pc[t] \in {"saving", "remember"}
    \/ \E f \in Finishers : fin[f] \in {"saving", "remember"}

(* The call of this order has its own save to do, or failed at it.         *)
Unsaved(o) ==
    \E t \in Tasks : order[t] = o /\ (pc[t] \in {"saving", "remember"} \/ t \in errors)

(***************************************************************************)
(* Types, and that each interaction has its order and its played flag:     *)
(* insert_interaction then never meets its "out of range" error, which     *)
(* would leave http_order and the cassette out of step.                    *)
(***************************************************************************)
TypeOK ==
    /\ mode \in Modes
    /\ can_record \in BOOLEAN
    /\ tape \in [Proto -> Seq(Interaction)]
    /\ played \in [Proto -> Seq(BOOLEAN)]
    /\ orders \in [Proto -> Seq(Nat)]
    /\ \A p \in Proto : /\ Len(tape[p]) = Len(orders[p])
                        /\ Len(played[p]) = Len(orders[p])
    /\ next_order \in Nat /\ first \in Nat
    /\ pending \subseteq Nat
    /\ errors \subseteq Tasks \cup Finishers
    /\ save_empty \in BOOLEAN /\ finalized \in BOOLEAN /\ exists \in BOOLEAN
    /\ file \in [Proto -> Seq(Interaction)]
    /\ pc \in [Tasks -> {"idle", "live", "verify", "saving", "remember", "done"}]
    /\ proto \in [Tasks -> Proto]
    /\ req \in [Tasks -> Requests]
    /\ order \in [Tasks -> Nat]
    /\ answer \in [Tasks -> Int]
    /\ outcome \in [Tasks -> {"none", "finalized", "replayed", "no_match",
                              "live_error", "dropped", "mismatch", "verified",
                              "rejected", "recorded", "save_error"}]
    /\ fin \in [Finishers -> {"idle", "saving", "remember", "report", "ok",
                              "incomplete", "recording_error"}]

(***************************************************************************)
(* The cassette holds its interactions in the order their requests were    *)
(* issued, whichever response came first: orders[i] is the order of the    *)
(* interaction i, and the orders increase.                                 *)
(***************************************************************************)
TapeInIssueOrder ==
    \A p \in Proto :
        /\ \A i \in DOMAIN orders[p] :
             IF orders[p][i] < first THEN tape[p][i].id < 0
                                     ELSE tape[p][i].id = orders[p][i]
        /\ \A i, j \in DOMAIN orders[p] : i < j => orders[p][i] < orders[p][j]

(***************************************************************************)
(* No reserved order disappears: it is pending, so that finish reports an  *)
(* incomplete recording, or it is in the cassette, or its failure is among *)
(* the errors finish reports.                                              *)
(***************************************************************************)
NoOrderLost ==
    \A o \in first..(next_order - 1) :
        \/ o \in pending
        \/ \E p \in Proto : o \in Recorded(p)
        \/ \E t \in Tasks : t \in errors /\ order[t] = o

(***************************************************************************)
(* A call that returned its live response has its recording in the file,   *)
(* for good, whatever other calls and finish do and wherever a crash comes.*)
(***************************************************************************)
ReturnedIsDurable ==
    \A t \in Tasks :
        outcome[t] = "recorded" => exists /\ order[t] \in Ids(file[proto[t]])

(***************************************************************************)
(* An Ok of finish accounts for every order that was reserved: it is in    *)
(* the cassette, and in the file too, unless the call that recorded it is  *)
(* still at its own save, or its save failed and the error is remembered   *)
(* for the next finish.  When neither is so, the file holds the cassette   *)
(* and nothing else.                                                       *)
(*                                                                         *)
(* (An insertion and its save are two critical sections, so an Ok may fall *)
(* between them and the save may still fail: the file is then behind by    *)
(* the interaction of that one call, and the call returns the error.)      *)
(***************************************************************************)
FinishOkMeansSaved ==
    (\E f \in Finishers : fin[f] = "ok") =>
        /\ \A o \in first..(next_order - 1) : \E p \in Proto : o \in Ids(tape[p])
        /\ \A p \in Proto : \A o \in Ids(tape[p]) : o \in Ids(file[p]) \/ Unsaved(o)
        /\ ~ MidSave /\ errors = {} => \A p \in Proto : Ids(file[p]) = Ids(tape[p])

(***************************************************************************)
(* While a session can record, an interaction answers at most one request, *)
(* and never one the session recorded itself: "a repeated request then     *)
(* reaches the server instead of getting an earlier response back".        *)
(***************************************************************************)
RecordingReplaysOnce ==
    can_record =>
        \A t \in Tasks : outcome[t] = "replayed" =>
            /\ answer[t] < 0
            /\ \A u \in Tasks :
                 (u # t /\ outcome[u] = "replayed" /\ proto[u] = proto[t])
                     => answer[u] # answer[t]

(***************************************************************************)
(* A save never removes a recording of this session that an earlier save   *)
(* of another call put on disk.                                            *)
(***************************************************************************)
SavesNeverLoseRecordings ==
    [][\A p \in Proto : \A o \in Ids(file[p]) :
          o >= 0 => o \in Ids(file'[p])]_vars

(***************************************************************************)
(* Once finish returned Ok the cassette and the list of what is incomplete *)
(* are settled: no late response changes what was reported.                *)
(***************************************************************************)
OkIsFinal ==
    [][(\E f \in Finishers : fin[f] = "ok")
          => tape' = tape /\ pending' = pending /\ next_order' = next_order]_vars

(***************************************************************************)
(* A finish call comes to a verdict, though its save of an empty cassette  *)
(* may fail and other finish calls run.                                    *)
(***************************************************************************)
FinishEnds ==
    \A f \in Finishers :
        fin[f] # "idle" ~> fin[f] \in {"ok", "incomplete", "recording_error"}
=============================================================================

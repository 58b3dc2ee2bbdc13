---------------------------- MODULE GoTransport ----------------------------
(***************************************************************************)
(* One Transport of the Go package (go/transport*.go, lifecycle.go,        *)
(* stream.go, and the gRPC and WebSocket files): the cassette, the orders  *)
(* and the pending recordings behind t.mu, the HTTP, gRPC and WebSocket    *)
(* calls that share them, the response body an HTTP caller reads and       *)
(* closes from two goroutines, and Transport.Close.                        *)
(*                                                                         *)
(* Every action is one critical section of t.mu.  A sync.Once runs in one  *)
(* step: whoever comes second waits for the first and then skips it.       *)
(***************************************************************************)
EXTENDS Integers, Sequences, FiniteSets, SequencesExt

CONSTANTS
    Calls,         \* RoundTrip, gRPC calls and streams, DialWebSocket
    Requests,      \* classes of requests the matchers do not tell apart
    InitialFiles   \* what may be on disk: a sequence of requests per protocol

Kinds == {"http", "grpc", "ws"}
Modes == {"none", "once", "new_episodes", "all", "rewrite", "verify"}

ASSUME GoAssumption == InitialFiles \subseteq [Kinds -> Seq(Requests)]

VARIABLES
    mode, expiry,            \* transportConfig: mode, expiryAction
    init,                    \* the sync.Once of Initialize and its error
    canRecord,
    tape,                    \* the interactions of the cassette, as appended
    played, orders,          \* played, orders and their grpc, webSocket twins
    nextOrder, first,        \* first: its value after load
    pending,                 \* the keys of the three pending maps
    recordErr,               \* the errors joined so far, each with its order
    saveEmpty, closed, closeErr,
    exists, file,            \* the cassette file
    pc, kind, req, order,    \* of each call
    expected,                \* verify: the recording it is compared with, or 0
    answer,                  \* the recording it replayed, or 0
    rd, cl,                  \* the goroutines that read and close its body
    known,                   \* the response has a Content-Length
    buffered,                \* the body is in recordingBody.content
    finish,                  \* finishOnce and finishErr
    completed                \* completeOnce

config == <<mode, expiry, canRecord, first>>
cassette == <<tape, played, orders>>
disk == <<exists, file>>
lifecycle == <<init, closed, closeErr>>
body == <<rd, cl, known, buffered, finish, completed>>
call == <<kind, req, order, expected, answer>>
vars == <<config, lifecycle, cassette, nextOrder, pending, recordErr, saveEmpty,
          disk, pc, call, body>>

Replays == mode \notin {"all", "rewrite"}
Ids(s) == {s[i].id : i \in DOMAIN s}
Empty == [k \in Kinds |-> <<>>]

-----------------------------------------------------------------------------
(* load: the first call, Initialize or Close runs it                       *)

Loaded(requests) ==
    [i \in DOMAIN requests |-> [req |-> requests[i], id |-> i - 1 - Len(requests)]]

Use(t, there) ==
    /\ tape' = t
    /\ played' = [k \in Kinds |-> [i \in DOMAIN t[k] |-> FALSE]]
    /\ orders' = [k \in Kinds |-> [i \in DOMAIN t[k] |-> i - 1]]
    /\ nextOrder' = Len(t["http"]) + Len(t["grpc"]) + Len(t["ws"])
    /\ first' = nextOrder'
    /\ canRecord' = \/ mode \in {"new_episodes", "all", "rewrite"}
                    \/ mode = "once" /\ ~ there
    /\ init' = "ok"

(* Close has to save an empty cassette over a file that was there.         *)
ReplacesFile == exists /\ mode = "all"

(* RecordModeAll and RecordModeRewrite, or no file: an empty cassette.     *)
LoadEmpty ==
    /\ init = "no"
    /\ ~ exists \/ ~ Replays
    /\ Use(Empty, exists)
    /\ IF mode = "rewrite"
       THEN exists' = FALSE /\ file' = Empty
       ELSE UNCHANGED disk
    /\ saveEmpty' = ReplacesFile
    /\ UNCHANGED <<mode, expiry, closed, closeErr, pending, recordErr, pc,
                   call, body>>

(* The file is fresh enough, or expired and kept with a warning.           *)
LoadFile ==
    /\ init = "no"
    /\ exists /\ Replays
    /\ Use(file, TRUE)
    /\ UNCHANGED <<mode, expiry, closed, closeErr, pending, recordErr,
                   saveEmpty, disk, pc, call, body>>

(* checkExpiry with ExpiryRerecord: the file is removed in every mode.  A  *)
(* cassette without interactions has no timestamp and never expires.       *)
LoadExpired ==
    /\ init = "no"
    /\ exists /\ Replays /\ expiry = "rerecord" /\ file # Empty
    /\ Use(Empty, FALSE)
    /\ exists' = FALSE /\ file' = Empty
    /\ UNCHANGED <<mode, expiry, closed, closeErr, pending, recordErr,
                   saveEmpty, pc, call, body>>

(* A configuration, parse, stat or remove error, or ExpiryFail.            *)
LoadFails ==
    /\ init = "no"
    /\ init' = "failed"
    /\ UNCHANGED <<config, cassette, nextOrder, closed, closeErr, pending,
                   recordErr, saveEmpty, disk, pc, call, body>>

-----------------------------------------------------------------------------
(* The first half of a call, up to reserving an order                      *)

Goto(c, to) == pc' = [pc EXCEPT ![c] = to]

(* Initialize and checkOpen succeed or fail; an HTTP or WebSocket call may *)
(* bypass the cassette, and the hook of an HTTP call may fail.             *)
Start(c, k, r) ==
    /\ pc[c] = "idle"
    /\ init # "no"
    /\ kind' = [kind EXCEPT ![c] = k]
    /\ req' = [req EXCEPT ![c] = r]
    /\ \/ init = "failed" /\ Goto(c, "init_error")
       \/ init = "ok" /\ closed /\ Goto(c, "closed")
       \/ init = "ok" /\ ~ closed /\ Goto(c, "open")
       \/ init = "ok" /\ ~ closed /\ k # "grpc" /\ Goto(c, "passed")
       \/ init = "ok" /\ ~ closed /\ k = "http" /\ Goto(c, "hook_error")
    /\ UNCHANGED <<config, lifecycle, cassette, nextOrder, pending, recordErr,
                   saveEmpty, disk, order, expected, answer, body>>

Candidates(c) == {i \in DOMAIN tape[kind[c]] : tape[kind[c]][i].req = req[c]}
Unplayed(c) == {i \in Candidates(c) : ~ played[kind[c]][i]}
Least(S) == CHOOSE i \in S : \A j \in S : i <= j

(* What takeMatch, takeGRPCMatch and takeWebSocketMatch find: while        *)
(* recording, a recording that was played is not found again.              *)
Match(c) ==
    IF Unplayed(c) # {} THEN Least(Unplayed(c))
    ELSE IF Candidates(c) # {} /\ ~ canRecord THEN Least(Candidates(c))
    ELSE 0

TakeMatch(c) ==
    LET k == kind[c]
        i == Match(c)
    IN
    /\ pc[c] = "open"
    /\ Replays
    /\ IF closed THEN Goto(c, "closed") /\ UNCHANGED <<played, expected, answer>>
       ELSE IF i = 0
       THEN /\ Goto(c, IF canRecord THEN "reserve" ELSE "no_match")
            /\ UNCHANGED <<played, expected, answer>>
       ELSE /\ played' = [played EXCEPT ![k][i] = TRUE]
            /\ IF mode = "verify" /\ k = "http"
               THEN /\ Goto(c, "reserve")
                    /\ expected' = [expected EXCEPT ![c] = tape[k][i].id]
                    /\ UNCHANGED answer
               ELSE /\ Goto(c, "replayed")
                    /\ answer' = [answer EXCEPT ![c] = tape[k][i].id]
                    /\ UNCHANGED expected
    /\ UNCHANGED <<config, lifecycle, tape, orders, nextOrder, pending,
                   recordErr, saveEmpty, disk, kind, req, order, body>>

(* reserveRecording and its twins: Close may have come since.              *)
Reserve(c) ==
    /\ pc[c] = IF Replays THEN "reserve" ELSE "open"
    /\ IF closed
       THEN Goto(c, "closed") /\ UNCHANGED <<order, nextOrder, pending>>
       ELSE /\ Goto(c, "live")
            /\ order' = [order EXCEPT ![c] = nextOrder]
            /\ nextOrder' = nextOrder + 1
            /\ pending' = pending \cup {nextOrder}
    /\ UNCHANGED <<config, lifecycle, cassette, recordErr, saveEmpty, disk,
                   kind, req, expected, answer, body>>

-----------------------------------------------------------------------------
(* The cassette file                                                       *)

(* orderedRecordings: a stable sort by order.  A defect: as appended.      *)
AsAppended(s, o) == s

orderedRecordings(s, o) ==
    LET before(i, j) == o[i] < o[j] \/ (o[i] = o[j] /\ i < j)
        at == CHOOSE f \in [DOMAIN s -> DOMAIN s] :
                /\ \A i, j \in DOMAIN s : i < j => before(f[i], f[j])
    IN  [i \in DOMAIN s |-> s[at[i]]]

(* The candidate cassette with the response of a call appended.            *)
Candidate(c) ==
    [tape EXCEPT ![kind[c]] = Append(@, [req |-> req[c], id |-> order[c]])]
CandidateOrders(c) == [orders EXCEPT ![kind[c]] = Append(@, order[c])]

Save(t, o) ==
    /\ exists' = TRUE
    /\ file' = [k \in Kinds |-> orderedRecordings(t[k], o[k])]

Commit(c) ==
    /\ saveEmpty' = FALSE
    /\ tape' = Candidate(c)
    /\ orders' = CandidateOrders(c)
    /\ played' = [played EXCEPT ![kind[c]] = Append(@, TRUE)]

(* Defects: a failed save commits, or Close is not looked at.              *)
recordAnyway(c, err) ==
    /\ ~ closed
    /\ err = "nil"
    /\ Commit(c)
    /\ Save(Candidate(c), CandidateOrders(c)) \/ UNCHANGED disk

recordLate(c, err) ==
    /\ err = "nil"
    /\ Commit(c)
    /\ Save(Candidate(c), CandidateOrders(c))

(* The critical section of record, recordGRPC and recordWebSocket; err is  *)
(* what it returns.  A failed save commits nothing.                        *)
record(c, err) ==
    \/ /\ closed
       /\ err = "closed"
       /\ UNCHANGED <<cassette, saveEmpty, disk>>
    \/ /\ ~ closed
       /\ err = "save"
       /\ saveEmpty' = FALSE
       /\ UNCHANGED <<cassette, disk>>
    \/ /\ ~ closed
       /\ err = "nil"
       /\ Save(Candidate(c), CandidateOrders(c))
       /\ Commit(c)

(* finishRecording and its twins.                                          *)
finishRecording(c, err) ==
    /\ pending' = pending \ {order[c]}
    /\ recordErr' = IF err = "nil" THEN recordErr
                    ELSE recordErr \cup {[order |-> order[c], what |-> err]}

-----------------------------------------------------------------------------
(* The live call ends                                                      *)

(* The server, the dial or the stream fails, or a response hook fails or   *)
(* skips the recording: the caller knows, Close has nothing to report.  A  *)
(* unary gRPC call that fails is recorded like any other.                  *)
LiveFails(c) ==
    /\ pc[c] = "live"
    /\ finishRecording(c, "nil")
    /\ Goto(c, "unrecorded")
    /\ UNCHANGED <<config, lifecycle, cassette, nextOrder, saveEmpty, disk,
                   call, body>>

(* A gRPC message cannot be encoded (buildUnaryGRPCInteraction,            *)
(* failRecording).                                                         *)
GRPCFails(c) ==
    /\ pc[c] = "live"
    /\ kind[c] = "grpc"
    /\ finishRecording(c, "encode")
    /\ Goto(c, "failed")
    /\ UNCHANGED <<config, lifecycle, cassette, nextOrder, saveEmpty, disk,
                   call, body>>

(* A unary call returned, a stream or a connection reached its end: the    *)
(* recording and the end of its pending entry are one critical section.    *)
RecordStream(c, err) ==
    /\ pc[c] = "live"
    /\ kind[c] # "http"
    /\ record(c, err)
    /\ finishRecording(c, err)
    /\ Goto(c, IF err = "nil" THEN "recorded" ELSE "failed")
    /\ UNCHANGED <<config, lifecycle, nextOrder, call, body>>

(* An HTTP response without a body is finalized by RoundTrip itself, and   *)
(* one with a body is handed to the caller with a recordingBody around it. *)
Respond(c) ==
    /\ pc[c] = "live"
    /\ kind[c] = "http"
    /\ Goto(c, "body")
    /\ \/ /\ rd' = [rd EXCEPT ![c] = "finish"]
          /\ UNCHANGED <<cl, known>>
       \/ /\ rd' = [rd EXCEPT ![c] = "reading"]
          /\ cl' = [cl EXCEPT ![c] = "reading"]
          /\ \E l \in BOOLEAN : known' = [known EXCEPT ![c] = l]
    /\ UNCHANGED <<config, lifecycle, cassette, nextOrder, pending, recordErr,
                   saveEmpty, disk, call, buffered, finish, completed>>

-----------------------------------------------------------------------------
(* recordingBody: one goroutine reads, another may close.  A base          *)
(* transport's body need not refuse to be read after it was closed.        *)

unchangedByBody == <<config, lifecycle, nextOrder, pc, call>>

(* Read got the last bytes, without io.EOF yet.                            *)
ReadLast(c) ==
    /\ rd[c] = "reading"
    /\ buffered' = [buffered EXCEPT ![c] = TRUE]
    /\ UNCHANGED <<unchangedByBody, cassette, pending, recordErr, saveEmpty,
                   disk, rd, cl, known, finish, completed>>

(* source.Read returned io.EOF, perhaps with bytes; then they are kept.    *)
ReadEOF(c) ==
    /\ rd[c] = "reading"
    /\ rd' = [rd EXCEPT ![c] = "eof"]
    /\ UNCHANGED <<unchangedByBody, cassette, pending, recordErr, saveEmpty,
                   disk, cl, known, buffered, finish, completed>>

KeepBytes(c) ==
    /\ rd[c] = "eof"
    /\ rd' = [rd EXCEPT ![c] = "finish"]
    /\ buffered' = [buffered EXCEPT ![c] = TRUE]
    /\ UNCHANGED <<unchangedByBody, cassette, pending, recordErr, saveEmpty,
                   disk, cl, known, finish, completed>>

(* Close: the source is closed, then hasCompleteBody decides.              *)
CloseBody(c) ==
    /\ cl[c] = "reading"
    /\ cl' = [cl EXCEPT ![c] = "closing"]
    /\ UNCHANGED <<unchangedByBody, cassette, pending, recordErr, saveEmpty,
                   disk, rd, known, buffered, finish, completed>>

hasCompleteBody(c) == known[c] /\ buffered[c]

CloseDecides(c) ==
    /\ cl[c] = "closing"
    /\ cl' = [cl EXCEPT ![c] = IF hasCompleteBody(c) THEN "finish" ELSE "give_up"]
    /\ UNCHANGED <<unchangedByBody, cassette, pending, recordErr, saveEmpty,
                   disk, rd, known, buffered, finish, completed>>

At(c, who, from, to) ==
    \/ who = "rd" /\ rd[c] = from /\ rd' = [rd EXCEPT ![c] = to] /\ UNCHANGED cl
    \/ who = "cl" /\ cl[c] = from /\ cl' = [cl EXCEPT ![c] = to] /\ UNCHANGED rd

(* The response differs from the recording, or agrees with it.             *)
verify(c, err) ==
    /\ err \in {"mismatch", "nil"}
    /\ UNCHANGED <<cassette, saveEmpty, disk>>

(* finalize: a body that cannot be decoded, a comparison, or a recording.  *)
finalize(c, err) ==
    \/ err = "decode" /\ UNCHANGED <<cassette, saveEmpty, disk>>
    \/ expected[c] # 0 /\ verify(c, err)
    \/ expected[c] = 0 /\ record(c, err)

(* finish: finishOnce runs finalize.                                       *)
Finish(c, who, err) ==
    /\ At(c, who, "finish", "complete")
    /\ finish[c] = "no"
    /\ finalize(c, err)
    /\ finish' = [finish EXCEPT ![c] = err]
    /\ UNCHANGED <<unchangedByBody, pending, recordErr, known, buffered,
                   completed>>

FinishAgain(c, who) ==
    /\ At(c, who, "finish", "complete")
    /\ finish[c] # "no"
    /\ UNCHANGED <<unchangedByBody, cassette, pending, recordErr, saveEmpty,
                   disk, known, buffered, finish, completed>>

(* complete: completeOnce passes the first verdict to finishRecording.     *)
Complete(c, who, from, err) ==
    /\ At(c, who, from, "end")
    /\ IF completed[c] THEN UNCHANGED <<pending, recordErr>>
       ELSE finishRecording(c, err)
    /\ completed' = [completed EXCEPT ![c] = TRUE]
    /\ UNCHANGED <<unchangedByBody, cassette, saveEmpty, disk, known, buffered,
                   finish>>

-----------------------------------------------------------------------------
(* Transport.Close                                                         *)

NoneIncomplete == {}
Incomplete == {[order |-> o, what |-> "incomplete"] : o \in pending}
EmptySaveFailed == {[order |-> -1, what |-> "save"]}

Close ==
    /\ init = "ok"
    /\ ~ closed
    /\ closed' = TRUE
    /\ \/ /\ saveEmpty
          /\ exists' = TRUE /\ file' = tape
          /\ closeErr' = recordErr \cup Incomplete
       \/ /\ saveEmpty
          /\ closeErr' = recordErr \cup Incomplete \cup EmptySaveFailed
          /\ UNCHANGED disk
       \/ /\ ~ saveEmpty
          /\ closeErr' = recordErr \cup Incomplete
          /\ UNCHANGED disk
    /\ saveEmpty' = FALSE
    /\ UNCHANGED <<config, init, cassette, nextOrder, pending, recordErr, pc,
                   call, body>>

-----------------------------------------------------------------------------

Init ==
    /\ mode \in Modes
    /\ expiry \in {"keep", "rerecord"}
    /\ init = "no"
    /\ canRecord = FALSE
    /\ tape = Empty
    /\ played = Empty /\ orders = Empty
    /\ nextOrder = 0 /\ first = 0
    /\ pending = {} /\ recordErr = {}
    /\ saveEmpty = FALSE /\ closed = FALSE /\ closeErr = {}
    /\ \/ exists = FALSE /\ file = Empty
       \/ /\ exists = TRUE
          /\ \E f \in InitialFiles : file = [k \in Kinds |-> Loaded(f[k])]
    /\ pc = [c \in Calls |-> "idle"]
    /\ kind = [c \in Calls |-> "http"]
    /\ req = [c \in Calls |-> CHOOSE r \in Requests : TRUE]
    /\ order = [c \in Calls |-> 0]
    /\ expected = [c \in Calls |-> 0]
    /\ answer = [c \in Calls |-> 0]
    /\ rd = [c \in Calls |-> "none"]
    /\ cl = [c \in Calls |-> "none"]
    /\ known = [c \in Calls |-> FALSE]
    /\ buffered = [c \in Calls |-> FALSE]
    /\ finish = [c \in Calls |-> "no"]
    /\ completed = [c \in Calls |-> FALSE]

Load == LoadEmpty \/ LoadFile \/ LoadExpired \/ LoadFails

RecordErrs == {"nil", "closed", "save"}
FinishErrs == RecordErrs \cup {"decode", "mismatch"}

Read(c) == ReadLast(c) \/ ReadEOF(c) \/ KeepBytes(c)

Wrap(c, who) ==
    \/ \E err \in FinishErrs : Finish(c, who, err)
    \/ FinishAgain(c, who)
    \/ Complete(c, who, "complete", finish[c])
    \/ Complete(c, who, "give_up", "incomplete")

Next ==
    \/ Load
    \/ Close
    \/ \E c \in Calls :
         \/ \E k \in Kinds, r \in Requests : Start(c, k, r)
         \/ TakeMatch(c) \/ Reserve(c)
         \/ LiveFails(c) \/ GRPCFails(c) \/ Respond(c)
         \/ \E err \in RecordErrs : RecordStream(c, err)
         \/ Read(c) \/ CloseBody(c) \/ CloseDecides(c)
         \/ \E who \in {"rd", "cl"} : Wrap(c, who)

Spec == Init /\ [][Next]_vars

-----------------------------------------------------------------------------
(* Properties                                                              *)

Orders == first..(nextOrder - 1)
InFile(o) == \E k \in Kinds : o \in Ids(file[k])

(* Nothing was to be recorded: the caller got the error or the skipped     *)
(* response, or the response agreed with the recording it verified.        *)
Excused(o) ==
    \E c \in Calls : /\ order[c] = o
                     /\ \/ pc[c] = "unrecorded"
                        \/ expected[c] # 0 /\ finish[c] = "nil"

TypeOK ==
    /\ mode \in Modes /\ init \in {"no", "ok", "failed"}
    /\ \A k \in Kinds : /\ Len(orders[k]) = Len(tape[k])
                         /\ Len(played[k]) = Len(tape[k])
    /\ orders \in [Kinds -> Seq(Nat)] /\ played \in [Kinds -> Seq(BOOLEAN)]
    /\ nextOrder \in Nat /\ first \in Nat /\ pending \subseteq Nat
    /\ {canRecord, saveEmpty, closed, exists} \subseteq BOOLEAN
    /\ order \in [Calls -> Nat] /\ expected \in [Calls -> Int]
    /\ finish \in [Calls -> FinishErrs \cup {"no"}]
    /\ rd \in [Calls -> {"none", "reading", "eof", "finish", "complete", "end"}]
    /\ cl \in [Calls -> {"none", "reading", "closing", "finish", "give_up",
                         "complete", "end"}]

(***************************************************************************)
(* Close that returns nil tells the truth, whatever still runs when it     *)
(* comes and whatever fails later: every exchange that reserved an order   *)
(* is in the file, or its caller knows why it is not; and if the mode was  *)
(* RecordModeAll, nothing older is, even when nothing was recorded.        *)
(***************************************************************************)
CloseTellsTheTruth ==
    closed /\ closeErr = {} =>
        /\ \A o \in Orders : InFile(o) \/ Excused(o)
        /\ mode = "all" => \A k \in Kinds : \A id \in Ids(file[k]) : id >= 0

(***************************************************************************)
(* The recordings of this session that are in memory are the ones in the   *)
(* file, of all three protocols: a failed save commits nothing, and the    *)
(* save of one protocol drops nothing of the others.                       *)
(***************************************************************************)
MemoryIsDisk ==
    /\ \A k \in Kinds : \A o \in Orders : o \in Ids(tape[k]) <=> o \in Ids(file[k])
    /\ (init = "ok" /\ Replays) =>
         \A k \in Kinds : Ids(tape[k]) = Ids(file[k])

(***************************************************************************)
(* The file lists each protocol in the order the exchanges were started,   *)
(* after the ones that were there, whichever response came first.          *)
(***************************************************************************)
FileInIssueOrder ==
    \A k \in Kinds : \A i, j \in DOMAIN file[k] :
        i < j => file[k][i].id < file[k][j].id

(***************************************************************************)
(* After Close a late body, stream or connection changes neither the file  *)
(* nor what the cassette holds.                                            *)
(***************************************************************************)
ClosedIsFinal ==
    [][closed => UNCHANGED <<disk, cassette, nextOrder, closeErr>>]_vars
=============================================================================

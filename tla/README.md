# Cassetter in TLA+

Cassetter records HTTP, gRPC and WebSocket exchanges into cassette files and
replays them.  This directory models its Rust core and SDK, its Python session
and its Go transport, model-checks them with TLC and proves the central results
with TLAPS.  Source paths are relative to `src/`.

## 1. The system

| Component | State | Operations | Meets the others through |
|---|---|---|---|
| Rust core, matching and order (`crates/cassetter-core/src/matching`, `cassette/index.rs`, `cassette/ordering.rs`) | none | matchers, `pick`, index, `sort_key`, `output_order` | called by every match and every save of the Rust, Python and Node packages |
| Rust core, cassette (`cassette/mod.rs`) | interactions and played flags of three protocols, a cached index | add, insert, set, mark, take, save | owned by a recorder, a Python or a Node object |
| Rust core, bodies (`body/`), scrubbing (`security/`), formats (`cassette/format.rs`, `format_toml.rs`, `interop.rs`) | none | decompress and classify a body; remove secrets; write, read, import VCR's YAML | between the wire and the cassette, and between the cassette and the file |
| Files (`Cassette::save`, `go/cassette.go`) | directory, temporary files, modes | write, chmod, rename, read | several processes, and several packages, share a file |
| Rust SDK (`crates/cassetter/src`) | the cassette, orders, pending calls, errors, `finalized` behind one mutex | prepare, record, verify, fail, `finish` | tasks of reqwest and tonic |
| Node binding (`crates/cassetter-node`) | a cassette object | load, add scrubbed interactions, save | values cross as plain JSON |
| Python session (`src/cassetter/cassette.py`, `config.py`) | the Rust cassette, a normalized mirror, record orders, `_dirty`, `_record_lock` | load, match, reserve, record, save | threads and tasks through the interceptors; the PyO3 borrow |
| Python process state (`_state.py`, `pytest_plugin/fixtures.py`) | reference counts of patches, context variable, fallback list, module lock | enter, leave, look up the current cassette | all blocks of the process |
| Go transport (`go/transport*.go`, `lifecycle.go`, `stream.go`) | cassette, orders, pending maps, errors, `closed` behind `t.mu`; per body three `sync.Once` | RoundTrip, body Read and Close, gRPC, WebSocket, Close | goroutines |
| The TypeScript package, the Go operators, observed requests, CLIs | see `PROJECT.json` | | |

What is hard in it:

* Responses complete out of order while files promise the order requests were
  issued in; saving is a separate step from recording; closing races with calls
  in flight; a recording session must not replay what it has just recorded.
* The file is sorted by a key that is not the matcher, and looked up through an
  index that is neither; the index is cached while interactions are inserted,
  and each of them has a flag in another vector.
* A message is decompressed, parsed, scrubbed, written, read back and encoded
  again before a client sees it, and the request it answers must still be found
  by then.  What is scrubbed sits anywhere: JSON in a text in an event stream.
* The Python save runs without the lock of the record path and without the GIL;
  patches are shared by blocks that leave in any order; saves crash.

`PROJECT.json` lists these as hazards, each at its line, with the properties
that would notice.

What makes each part correct:

* sorting a file never changes what it replays, and a cached index never shows;
* a returned response is on disk; a nil of `Close` is true and stays true; after
  an `Ok` of `finish` every reserved order is and stays in the cassette, and may
  be missing in the file only while its own call still saves or after that save
  failed and its error was recorded; no reserved order is forgotten;
* a recording answers one request while the session can record;
* a recorded request is found again; its replay reads as the response did,
  without the secrets; a save keeps what the file held;
* what is appended in several places stays paired; what was recorded before a
  block began to exit is saved;
* patches are counted exactly and undone, and a request gets the cassette of its
  own context;
* a cassette file is replaced atomically; a private one is published with a wider
  mode only by a Rust save that ignored an error.

## 2. The modules

| Module | Models | Extends |
|---|---|---|
| `Matching` | the pure operators of the Rust core: matchers, `pick`, index, sort key, `output_order` | |
| `ReplayOrder` | record in any arrival order, save sorted, load, replay; beside it the same session over the unsorted cassette | `Matching` |
| `Container` | every operation of `Cassette` on its three tapes, their flags and the cached index, in any order | `Matching` |
| `RecordMode` | the six record modes | |
| `Recorder` | one session of the Rust SDK: one action per critical section of its mutex, and the saves between them | `Matching`, `RecordMode` |
| `Bodies` | wire bytes, texts and JSON documents; `decompress`, `process_body` | |
| `Scrub` | headers, query, fragment, JSON, text, event streams, close frames | `Bodies` |
| `Format` | cassettes to and from YAML (VCR's shapes included) and TOML | `Scrub` |
| `Interop` | the plain-JSON form of the bindings | `Format` |
| `CompareResponses` | what verify mode compares | `Interop` |
| `Transport` | what reqwest and tonic messages become and what a replay hands back | `CompareResponses` |
| `Exchange` | sessions of the Rust SDK and of the Node binding, one after the other over one file, with complete messages | `Transport`, `RecordMode` |
| `YamlScan` | the line scanner that cuts binary scalars out of a YAML text before it is parsed | |
| `PySession` | one `use_cassette` block: load, two-step matches through the mirror, the four appends of `record`, exit and save | `Matching` |
| `Patches` | `_state.py` and the block that uses it, contexts of tasks and threads | |
| `FileSave` | the system calls of both save implementations and of a load | |
| `AtomicCassette` | the abstract file: replaced in one step, or not | |
| `GoTransport` | one Go transport with its three protocols, response bodies and `Close` | |
| `*Proofs` | the theorems and their lemmas (`FileProofs`: of `FileSave` and of `YamlScan`) | their module, `TLAPS` |
| `MC*` | the small instances | their module |

How state and actions correspond to the code is in `PROJECT.json` under `map`;
variables have the names of the fields they stand for.  Some conventions:

* A recording of `Recorder`, `PySession` and `GoTransport` is `[req, id]`.  `id`
  stands for the response: the order its call reserved, or a negative number if
  it was in the file before.  Hence "in issue order" is `id` increasing, and
  "from this session" is `id >= 0`.
* Requests of `Matching` are records of classes: a header or method name is a
  class under case folding; a body is what lies outside the ignored JSON paths
  (`core`), inside (`noise`) and how the text spells it (`spelling`).
  `GoTransport` and `Patches` need no more than identity.
* `Exchange` works on whole messages instead.  A JSON document is a function
  from a prefix-closed set of paths to nodes, a text a sequence of lines whose
  payload is a document or key=value pairs, and bytes are a text or a document
  under an encoding that may be damaged or too large.  Its constants say of what
  shape these are (`CallsAssumption`, `FilesAssumption`, `NodeAssumption`,
  `StatusAssumption`): what the types of the code guarantee.
* `output_order` is a relation: any order that the stable sort may return.  The
  models leave open what the code leaves open.
* An operator above a mapped one with nearly its body (`AtTheEnd`, `recordLate`,
  `FlagAtEnd` ...) is the defect its mutant uses; nothing else refers to it.

The grain of atomicity is that of the code.  `Recorder` and `GoTransport`
interleave where a mutex is released, so the Rust recorder's insert, save and
error are three steps, and the Go transport's HTTP record and finishRecording
two, while its gRPC and WebSocket record is one.  `PySession` interleaves
between statements that touch shared state and between calls into Rust, with
the GIL given up inside `save`; it models the build with a GIL.  `FileSave`
interleaves between system calls, and savers crash between any two; the page
cache survives, so power loss is outside the model (the Go save syncs the
temporary file before the rename, `go/cassette.go:82`, the Rust save does not;
neither syncs the directory).  Every system call may fail: where the code
returns the error, the save ends (`Fails`), and where the Rust save ignores it,
the save goes on without the mode (`StatIgnored`, `ChmodIgnored`; `ignored`
remembers who did).  `given` is the mode a rewriting session read before it
removed the file, none if that reading failed.  A `Container` is behind a mutex
or a borrow, so its operations are single steps; `validate` and `to_raw` are
the loops of the code, over any order a caller may pass.  `Exchange` makes one
call at a time: how calls interleave is the subject of `Recorder`, what is in
them that of `Exchange`, and the two share the modes and the places where an
order is reserved, settled or given up.  `YamlScan` takes one step per turn of
the scanner's outer loop.

External behaviour is modelled from its use in the code: servers answer, fail
or never answer; saves fail at will; a future is dropped at an await; a thread
starts with an empty or a copied context; serde_json prints a value in one way.

## 3. The runs

| Run | Instance | Shows |
|---|---|---|
| `replay_order` | 4 requests (two spellings of a method, headers one contained in the other, JSON equal outside ignored paths), 4 matcher lists, cassettes up to 3 | `SortingKeepsReplay`: the sorted file answers every request sequence as the unsorted cassette; `FileIndependentOfArrival`: the file does not depend on arrival order |
| `container` | 3 HTTP, 2 gRPC and 1 WebSocket interaction, tapes up to 3, two matcher lists of which one uses the index, saves with any order, indexes repeated, missing or past the end | `PlayedFollowsInteraction`, `TakeIgnoresCache`, `FileHoldsAll` (what `validate` lets through, `to_raw` writes completely) |
| `recorder` | 2 calls, 2 finishes, all modes, 4 initial files, HTTP and gRPC | `TapeInIssueOrder`, `NoOrderLost`, `ReturnedIsDurable`, `FinishOkMeansSaved`, `RecordingReplaysOnce`, `SavesNeverLoseRecordings`, `OkIsFinal`, `FinishEnds` |
| `exchange` | compressed, damaged, textual, JSON, binary, empty and event-stream messages, unary RPCs with their status in trailers, headers or only in HTTP, files of cassetter and of VCR, YAML and TOML, sessions in all modes and of Node in between | `RecordedIsReplayed`, `ReplayReadsAsTheLiveResponse`, `GrpcReplayTellsTheSame`, `VerifyAcceptsItsOwnRecording`, `SecretsStayOut`, `ReservationSettled`, `SavesKeepTheRest` |
| `yaml_scan` | every document of two nodes with up to three content lines, blank lines, text that is no base64 and text that looks like a binary scalar | `OnlyBinaryScalarsExtracted` |
| `py_session` | 2 requests, all modes and expiry actions, with and without normalizer, blocks that wait for their threads and blocks that do not | `OrdersPaired`, `RecordingReplaysOnce`, `PlayedInSync`, `DueSaved`, `FileInIssueOrder`, `SessionEnds` |
| `py_verify_writes` | the same | violation: verify writes an expired cassette |
| `py_sent_order` | the same | violation: a request that outlives its block makes the save lose the sent order |
| `patches` | 2 blocks, 3 contexts, 2 libraries, one list that names a library twice | `CountsExact`, `CoveredWhileNeeded`, `InnermostIsCurrent`, `NeverGuesses`, `BlocksGetThrough` |
| `file_save` | one Rust and two Go savers, a reader, 2 chunks, a leftover temporary file or none | `LoadsAreWhole`, `TempsRemoved`, `ModeKept` (a wider mode is the work of an ignored error), `SaveIsAtomic` (refinement of `AtomicCassette`) |
| `file_save_shared` | two Rust savers | violation: a half-written file is published |
| `go_transport` | 2 calls of any protocol, 4 initial files, all modes, `ExpiryRerecord` or not | `CloseTellsTheTruth`, `MemoryIsDisk`, `FileInIssueOrder`, `ClosedIsFinal` |

The `TypeOK` of a module documents its state.  The runs check the properties
that could be wrong for reasons other than the model's; the types of `Recorder`,
`Patches` and `PySession` are theorems, those of the other modules with proofs
a part of their inductive invariants.

**Bounds.**  Two concurrent calls are enough for every race between a pair of
critical sections, for an inversion of issue and arrival order and for two
requests that compete for one recording; a third party is there where one is
needed (a second finish, a third context, a third saver, the goroutine that
closes a body).  `MaxLen = 3` in `ReplayOrder` gives two equal requests with a
different one between them, and in `Container` an insertion between two
interactions of which one was played and one is indexed.  `MaxInteractions = 2`
in `Exchange` lets a session find a recording of an earlier one and add to it;
its properties are about single messages, so the width of the instance is in
the kinds of message, not in their number.  Two nodes in `YamlScan` are a scalar
and what follows or precedes it.  `Chunks = 2` separates empty, half and whole
files.  The theorems remove the bounds for every safety property of the runs.

**Deadlock** is checked in `replay_order`, `exchange` and `container`, whose
systems can always go on.  It is off elsewhere because sessions and scans end:
"everything is over" is a legitimate final state, and that nobody waits for
ever is stated as the liveness properties.

**Fairness.**  `Recorder`: weak fairness of a task that has its response and of
a finish call that began, which wait for no server and hold no lock.
`PySession`: weak fairness of the exiting block and strong fairness of the steps
of a request that may wait for `_record_lock`, held for three statements only;
none of servers.  `Patches`: strong fairness of entering and leaving, since the
module lock is held over a bounded loop only; none of bodies, which may run for
ever.  The other modules claim safety only.

## 4. The proofs

Every safety property of the runs below is a theorem of its module's
specification, for all values of the constants: any number of threads, tasks,
calls, blocks, savers and finish calls, any requests, files and matcher lists.
Each proof has the same outline: an inductive invariant `IInv` (first checked by
TLC on the instance of the run), the initial states, one lemma per action or
group of like actions, and the theorems at the end of the module.  What follows
is why each invariant is what it is.

A proof module begins with the facts about numbers and sequences it needs: the
least element of a set of naturals, an injection of `1..n` into itself is onto,
what `InsertAt`, `RemoveAt`, `Front` and `EXCEPT` do to a sequence.

`ReplayOrderProofs`.  `SortingNeverChangesReplay` holds under `UniformSpelling`
(equal JSON values print alike; section 5 says which do not): two requests that
match a common probe have one sort key, so the sort leaves them in issue order,
and the least unplayed match is then the same interaction in both cassettes.
The invariant adds `SamePlayed` (the same interactions are used up on both
sides), without which the next answer could differ.
`FileNeverDependsOnArrival` needs no such hypothesis: the sort key followed by
the request's number is a strict order of the interactions (`Sorting`; numbers
differ, `DistinctOrders`), and there is only one way to write a tape in a strict
order (`OneSorting`, by the least position where two ways differ).

`ContainerProofs`: `ContainerPlayedFollowsInteraction`,
`ContainerTakeIgnoresCache`, `ContainerFileHoldsAll`.  They assume that ids tell
interactions apart (`ContainerAssumption`; an id is the identity of an object,
not of its request) and that names equal up to ASCII case are equal in upper
case (`FoldAssumption`).  The invariant has `TapesInStep` (a flag is set exactly
when its interaction was used), `UsedOnTape` (what was used is still on a tape;
without it an interaction inserted anew could count as played) and `CacheFresh`
(there is no index, or it is the index of the present interactions).  The rest
of `ContainerTakeIgnoresCache` is that the index of a tape holds everything that
matches by method and URI.  `ContainerFileHoldsAll` is about two loops.  That of
`validate` marks the indexes it meets and refuses one that is marked or out of
range; after k turns without a refusal the first k indexes are distinct and in
range and the marked ones are these (`ValidateIsEachOnce`).  That of `to_raw`
skips what does not resolve; after k turns it has written one interaction per
index, in their order (`ToRawIsArranged`).  Both are recursive functions, and
what they compute is proved by induction over a set of numbers (`Climb`).

`RecorderProofs`: `RecorderTypeOK`, `IssueOrderKept`, `EveryOrderAccounted`,
`ReturnedResponsesDurable`, `OkMeansSaved`, `OkVerdictIsFinal`,
`NoSaveLosesRecordings`, `OneReplayEach`.  Beside the properties themselves the
invariant has `OrdersOwned` (an order belongs to one task), `CallsSettled` (a
task's program counter agrees with pending and recorded orders),
`SavedOrExplained` (what the cassette has and the file lacks is some task's
unfinished save or reported error) and `VerdictsSound` (an Ok was given when
nothing was pending, and nothing can become pending after it: `OkIsFinal`).
`OkMeansSaved` does not suppose that no call is saving.  An `Ok` may be given
between the insertion and the save of a call: every order is in the cassette
then (`OkComplete`), and what the file lacks belongs to a call that still saves
or whose save failed (`UnsavedKnown`).  Only the equality of file and cassette
needs that there is no such call.
`NoSaveLosesRecordings` adds that what the file has of this session is on the
tape, which only grows; `OneReplayEach` that what was recorded or answered in a
recording session is flagged as played.

`FileProofs`, on saving: `LoadsGetWholeSaves`, `WidenedOnlyByIgnoring` and the
refinement `SavingIsAtomic` under `OneRust` (at most one saver uses the fixed temporary
name; `file_save_shared` shows why), and `NoTempsLeft` without it.  The
invariant says that a saver at work owns the inode behind its temporary name and
has written exactly its first chunks to it (`Working`, `Filled`, `SharedOwned`),
that a published inode is whole and no longer written (`SavedWhole`, `OldKept`,
`PathPublished`) and that readers hold published inodes (`ReadersBehind`).  For
the mode: what is at the path is private, a Go temporary file is so from its
creation, a Rust one from the chmod before its rename, and a saver that looked
at the mode saw private or no file (`Private`), until a Rust save that ignored
an error of looking or of chmod has renamed (`Widened`).  Go saves return these
errors, so without Rust savers permissions are preserved
(`GoPreservesPermissions`); with one they need not be (section 5).

`FileProofs`, on reading: `OnlyBinaryScalarsExtractedHolds`, for documents of any
length with one key to a line, scalars of any length and any indentation.  The invariant (`ScanInv`)
says that between two turns of the loop the scan is at the end of some node or
among the blank lines that its scalar ends with (`Reached`): what it has written
so far, with those lines, is the rewriting of the nodes up to there, and the
bytes it holds are those of the scalars extracted among them (`Collected`).  Each
turn is one node or one such line, because the indentation alone ends a block
where the node ends (`BlockFound`): nothing nested in a scalar is written less
deep than its content, and blank lines do not count.  What is read on the way is
what the scalar says (`PayloadFound`).  A text that is borrowed unread has no
binary scalar in it (`NothingTagged`).  The texts are folds, of which the lemmas
about joined texts prove by induction on a set of numbers (`Climb`) what the
invariant needs.

`PatchesProofs`: `CountsAreExact`, `BodiesAreCovered`, `CurrentIsInnermost`,
`EmptyContextsNeverGuess` and the types.  `Counts` says that the count of a
class is the number of places at which it stands in what blocks hold, and
`HeldByStage` what a block holds at each stage: while it acquires, the part of
its list up to where it is.  Both are kept because the lock belongs to the one
block that works on the counts (`LockHeld`).  `FallbackIsActive` (the fallback
list names each active block once) gives the never-guessing; `NestsProper` and
`CurrentRight` (the tokens of a context lead back through its nest) give the
innermost block, though blocks of other contexts leave in any order.

`GoTransportProofs`: `CloseIsTrue`, `MemoryMatchesDisk`, `FileIsInIssueOrder`,
`ClosedStaysClosed`.  `Settled` says that every order handed out is pending, in
the file, excused to its caller or among the recorded errors, and `DiskProper`
that file and memory agree, except that a `RecordModeAll` session that has saved
nothing finds the older recordings there (`OlderAccounted`: then a save is due
or its failure is reported).  `TapeProper` ties orders to recordings and has an
arrangement that sorts them as a part of the invariant, since that one exists
for a longer tape follows from the shorter one and not from the code;
`Unrecorded` says that a call that may still record has not.

`PySessionProofs`: `OrdersStayPaired`, `RecordingsReplayOnce`,
`FlagsStayInSync`, `DueIsSaved`, `FileIsInIssueOrder` and the types.  `InHand`
says what the holder of the lock has appended so far, so that the lengths agree
again when it lets go; `IdsOwned` that ids differ and a request under way has an
order of its own; `TakenOnce` that in a recording block what a request took is
flagged where the matcher looks and is taken by nobody else; `Synced` that a
flag of the mirror is a flag of the cassette, or a `mark_played` is still to
come; `RecordedKept` that what was recorded is in the cassette and keeps the
block dirty until the save; `SaveSorted` that the order a waiting block
computed is still the order of its tape.  `FileIsInIssueOrder` is under
`UniformSpelling`, as above, and says of the whole class of requests the matcher
accepts for each other that they are written as sent; it does not hold in a
block that is left early, which is what `py_sent_order` shows.
`PySessionAssumption` asks that requests have a method, a URI and a body of the
kinds `Matching` knows, that the normalizer maps requests to requests, and that
the matcher list is one `MatchConfig` accepts.

`ExchangeProofs`: `RecordedIsReplayedHolds`,
`ReplayReadsAsTheLiveResponseHolds`, `GrpcReplayTellsTheSameHolds`,
`VerifyAcceptsItsOwnRecordingHolds`, `SecretsStayOutHolds`,
`ReservationSettledHolds` and `SavesKeepTheRestHolds`, for messages of any size
and depth, any security configuration, matcher list and comparison, and any
number of recordings and sessions.

* The ground is the round trip of a file (`SaveLoads`): a cassette of `Proper`
  interactions, saved in either format and in any order, loads as the same
  interactions; and everything that gets into a cassette is `Proper`, from a
  session (`StoredHttpIsProper`, `StoredGrpcParts`), a Node program
  (`NodeHttpIsProper` and its like) or an older file in any of VCR's shapes
  (`LoadedIsProper`).  `Proper` excludes two things: a status that is no u16,
  and JSON null as the body of an RPC or a frame (section 5).
* The invariant relates cassette and file to the ghosts `held` and `kept`, the
  live exchanges that were recorded.  `Holds` says that a tape has what scrubbing
  makes of each of them, and nothing else but what is foreign: found in a file
  that was there before, or added by a Node program.  `Fresh` says that what a
  session has not played yet was in its file; `Covers` that a session which
  does not replace the file has read all of it, without which its save would
  lose the rest; `CallFits` that the recording a verify call compares with was
  recorded for such a request.
* A request is looked up as it would be stored (`ProbeIsStored`), so a key
  that was equal when it was sent is equal in the file: `RecordedIsReplayed`.
* What a client reads of a replay comes from `BodyReadAgain`: bytes are read,
  scrubbed, stored and encoded, and reading them again gives what scrubbing gave.
  A scrubbed text must not turn into JSON on the way (`ScrubbedText`).
* `DocClean`, `PairsClean`, `TextClean` and their like say what scrubbing leaves,
  at any depth, without induction: a path of a document survives only if no
  proper prefix of it ends in a sensitive key.

Two of the theorems have a hypothesis about the configuration, which TLC
evaluates on the instance of the run.  `KeepsContentType`: the user does not
filter Content-Type, without which a client cannot tell JSON from text in a
replay.  `SecretsAreSentWhereLookedFor`: secrets are sent under names and keys
the configuration lists, at the places where the code looks for them: at any
depth of a document that is parsed, but only right after the key where the
regular expressions work, in a data line of an event stream but not in another,
in a binary message nowhere.  It does not say that scrubbing removes them.

Only model-checked is liveness (`FinishEnds`, `SessionEnds`,
`BlocksGetThrough`): the prover has no ENABLED and no fairness.

## 5. Findings

Shown by a run:

1. `cassette/mod.rs:363`: two saves of one cassette share a temporary file
   (`file_save_shared`).
2. `cassette.py:386`: verify with `on_expiry="rerecord"` empties an expired
   cassette, although "the cassette is never written" (`py_verify_writes`).  The
   Go package removes the file in the same situation (`go/expiry.go:54`).
3. `cassette.py:424`: the save at the exit of a block can meet a request
   between two appends and then loses the sent order (`py_sent_order`).

Met while modelling, and the reason for an assumption or for the way a property
is stated:

* `cassette/ordering.rs:122`: 0.0 and -0.0 match each other and have different
  sort keys, so a cassette that holds both may replay in another order once it
  is sorted.  Hence `UniformSpelling`.
* `cassette/mod.rs:382`: an error of `set_permissions` is dropped (`let _ =`), as
  is one of `fs::metadata` (`.ok()`, line 378), and the temporary file is renamed
  all the same: a private cassette may be published at the umask by a save that
  returns Ok.  The comment at line 368 says "Preserve the original file's
  permissions across the rename".  Hence `ModeKept` names the one way in which a
  mode is widened.  The stronger `PermissionsPreserved` holds of Go saves; of one
  Rust save TLC refutes it (`tlc -config MCFileSaveMode.cfg MCFileSave`: the
  chmod fails unnoticed, the rename publishes).
* `_state.py:31`: a thread without a context gets the only active cassette,
  which `docs/tutorial/concurrency.md` denies and `docs/migration.md` describes.
  `NeverGuesses` therefore says that it is never chosen among several.
* `go/transport.go:185`: a Close between save and finishRecording reports a
  saved exchange as incomplete.  The error is on the safe side:
  `CloseTellsTheTruth` claims only that a nil is true.
* A JSON `null` as the body of a gRPC or WebSocket message is written to YAML as
  an envelope with null content, and the optional content of
  `cassette/format.rs:74` reads back as missing: no body.  The instances of
  `Exchange` record no such message.
* The line scanner (`cassette/format.rs:165`) takes the indentation of the line
  for that of the key, so `- body: !!binary |` as the first key of a sequence
  item is outside what it handles; recorded items begin with `request:`.  The
  documents of `YamlScan` have one key to a line.

## 6. Not modelled

Under modelled parts: regular expressions (a pattern is the set of names it
matches), `recorded_at` and the version, YAML escapes, header values from binary
scalars, the text of a unified diff, the user's hook before a comparison, chains
of several content encodings, matching through the Node binding.

Whole parts: observed requests; messages and frames inside the streams of Go and
Python; interceptors other than httpx; the Go operators for matching, scrubbing
and formats, which have their own code; the TypeScript package; pytest reports
and command lines; power loss; the free-threaded Python build.  The reasons are
in `PROJECT.json` under `components`.

## 7. Plan

In this order:

1. `GoStreams`: frames and messages of `go/websocket_*.go` and
   `go/grpc_stream_*.go`: finalize against blocked readers and writers, the race
   for the terminal close status, finish-once of replayed streams, prefix
   properties of what is recorded; then the Python `_grpc.py` and
   `_websockets.py` in the same shape.
2. `TsSession`: `ts/src/cassette.ts`, `context.ts` and the interceptors between
   awaits.
3. `Session`: `PySession` within a block of `Patches`, for failures between
   load and install; observed requests with their timeout.
4. An abstract `Tape` (requests issued, answered, durable), implemented by
   `Recorder` and by `GoTransport`.
5. Proofs: the refinements of item 4.

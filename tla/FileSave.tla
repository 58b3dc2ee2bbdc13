------------------------------ MODULE FileSave -------------------------------
(***************************************************************************)
(* How a cassette reaches the disk: Cassette::save of the Rust core        *)
(* (crates/cassetter-core/src/cassette/mod.rs), which the Python package   *)
(* and the Rust recorder share, and Cassette.Save of the Go package        *)
(* (go/cassette.go).  Both write a temporary file and rename it; the Rust  *)
(* one has a fixed name, the Go one a name nobody else has.                *)
(*                                                                         *)
(* One action per system call, of savers of one cassette (threads,         *)
(* processes) that may crash between any two; the page cache survives.     *)
(***************************************************************************)
EXTENDS Naturals, Sequences

CONSTANTS
    Savers, RustSavers,  \* the others use the Go package
    Readers,             \* loads of the cassette meanwhile
    Path,                \* the name of the cassette
    Shared,              \* the temporary name of Cassette::save
    Old,                 \* what is there before
    Left,                \* a temporary file of an earlier crash
    Hole, None,
    Chunks               \* write calls one cassette takes

ASSUME FileSaveAssumption ==
    /\ RustSavers \subseteq Savers
    /\ {Path, Shared, Old, Left, Hole, None} \cap Savers = {}
    /\ Path # Shared /\ Old \notin {None, Left, Hole} /\ Left # None /\ Hole # None
    /\ None \notin {"private", "umask"}
    /\ Chunks \in Nat \ {0}

Names == Savers \cup {Path, Shared}
Inodes == Savers \cup {Old, Left}
Modes == {"private", "umask"}
Rust(s) == s \in RustSavers
Temp(s) == IF Rust(s) THEN Shared ELSE s

VARIABLES
    dir,           \* the inode behind each name
    data,          \* per inode: who wrote each chunk
    perm,          \* per inode: its file mode
    pc, fd,        \* of each saver; fd is the inode it has open
    written,       \* chunks it wrote
    seen,          \* the mode its stat of the cassette returned
    ignored,       \* the savers that went on although the mode was not read or set
    original,      \* the mode of the cassette there before, None without one
    removed,       \* a caller in a rewriting mode removed it
    given,         \* the mode that caller passes, None for none
    rfd, got       \* per reader: the inode it has open and what it read

files == <<dir, data, perm>>
savers == <<pc, fd, written, seen, ignored>>
readers == <<rfd, got>>
before == <<original, removed, given>>
vars == <<files, savers, before, readers>>

Go(s, from, to) == pc[s] = from /\ pc' = [pc EXCEPT ![s] = to]
Ended == {"saved", "failed", "crashed"}

Put(chunks, k, s) ==
    [i \in 1..(IF k > Len(chunks) THEN k ELSE Len(chunks)) |->
        IF i = k THEN s ELSE IF i \in DOMAIN chunks THEN chunks[i] ELSE Hole]

-----------------------------------------------------------------------------
(* Opening the temporary file                                              *)

OpenInPlace(s) ==
    /\ Go(s, "start", "write")
    /\ Rust(s)
    /\ dir[Path] # None
    /\ fd' = [fd EXCEPT ![s] = dir[Path]]
    /\ data' = [data EXCEPT ![dir[Path]] = <<>>]
    /\ UNCHANGED <<dir, perm, written, seen, ignored, before, readers>>

(* fs::write creates the file with the umask, or truncates the one there.  *)
Open(s) ==
    LET inode == IF dir[Shared] = None THEN s ELSE dir[Shared]
    IN
    /\ Go(s, "start", "write")
    /\ Rust(s)
    /\ fd' = [fd EXCEPT ![s] = inode]
    /\ dir' = [dir EXCEPT ![Shared] = inode]
    /\ data' = [data EXCEPT ![inode] = <<>>]
    /\ perm' = IF inode = s THEN [perm EXCEPT ![s] = "umask"] ELSE perm
    /\ UNCHANGED <<written, seen, ignored, before, readers>>

(* os.CreateTemp: a new name, mode 0600.                                   *)
CreateTemp(s) ==
    /\ Go(s, "start", "stat")
    /\ ~ Rust(s)
    /\ fd' = [fd EXCEPT ![s] = s]
    /\ dir' = [dir EXCEPT ![s] = s]
    /\ perm' = [perm EXCEPT ![s] = "private"]
    /\ UNCHANGED <<data, written, seen, ignored, before, readers>>

-----------------------------------------------------------------------------
(* Contents and mode                                                       *)

Write(s) ==
    /\ pc[s] = "write"
    /\ written[s] < Chunks
    /\ data' = [data EXCEPT ![fd[s]] = Put(@, written[s] + 1, s)]
    /\ written' = [written EXCEPT ![s] = @ + 1]
    /\ UNCHANGED <<dir, perm, pc, fd, seen, ignored, before, readers>>

(* The last write returned; the Go package syncs and closes the file.      *)
WriteEnds(s) ==
    /\ written[s] = Chunks
    /\ Go(s, "write", IF Rust(s) THEN "stat" ELSE "rename")
    /\ UNCHANGED <<files, fd, written, seen, ignored, before, readers>>

(* The mode the caller kept, or else that of the cassette to be replaced.  *)
Stat(s) ==
    /\ Go(s, "stat", "chmod")
    /\ seen' = [seen EXCEPT ![s] =
                  IF Rust(s) /\ given # None THEN given
                  ELSE IF dir[Path] # None THEN perm[dir[Path]] ELSE None]
    /\ UNCHANGED <<files, fd, written, ignored, before, readers>>

(* fs::metadata fails: `.ok()` takes that for a cassette that is not there.*)
StatIgnored(s) ==
    /\ Go(s, "stat", "chmod")
    /\ Rust(s) /\ given = None
    /\ ignored' = ignored \cup {s}
    /\ UNCHANGED <<files, fd, written, seen, before, readers>>

(* By name in Rust; by descriptor in Go, where an error ends the save.     *)
ChmodTarget(s) == IF Rust(s) THEN dir[Shared] ELSE fd[s]

AfterChmod(s) == IF Rust(s) THEN "rename" ELSE "write"

NoChmod(s) ==
    /\ Go(s, "chmod", AfterChmod(s))
    /\ UNCHANGED <<files, fd, written, seen, ignored, before, readers>>

Chmod(s) ==
    /\ Go(s, "chmod", AfterChmod(s))
    /\ seen[s] # None => ChmodTarget(s) # None
    /\ perm' = IF seen[s] # None THEN [perm EXCEPT ![ChmodTarget(s)] = seen[s]] ELSE perm
    /\ UNCHANGED <<dir, data, fd, written, seen, ignored, before, readers>>

(* set_permissions fails, and its error is dropped (`let _ =`).            *)
ChmodIgnored(s) ==
    /\ Go(s, "chmod", AfterChmod(s))
    /\ Rust(s) /\ seen[s] # None
    /\ ignored' = ignored \cup {s}
    /\ UNCHANGED <<files, fd, written, seen, before, readers>>

-----------------------------------------------------------------------------
(* The rename, errors and crashes                                          *)

RenameEarly(s) ==
    /\ pc[s] \in {"write", "rename"}
    /\ pc' = [pc EXCEPT ![s] = "saved"]
    /\ dir[Temp(s)] # None
    /\ dir' = [dir EXCEPT ![Path] = dir[Temp(s)], ![Temp(s)] = None]
    /\ UNCHANGED <<data, perm, fd, written, seen, ignored, before, readers>>

Rename(s) ==
    /\ Go(s, "rename", "saved")
    /\ dir[Temp(s)] # None
    /\ dir' = [dir EXCEPT ![Path] = dir[Temp(s)], ![Temp(s)] = None]
    /\ UNCHANGED <<data, perm, fd, written, seen, ignored, before, readers>>

FailsUnclean(s) ==
    /\ pc[s] \notin Ended
    /\ pc' = [pc EXCEPT ![s] = "failed"]
    /\ UNCHANGED <<files, fd, written, seen, ignored, before, readers>>

(* A call fails, or the cassette does not serialize.  Go's deferred Remove *)
(* takes the temporary file away, Rust leaves it.                          *)
Fails(s) ==
    /\ pc[s] \notin Ended
    /\ pc' = [pc EXCEPT ![s] = "failed"]
    /\ dir' = IF Rust(s) THEN dir ELSE [dir EXCEPT ![s] = None]
    /\ UNCHANGED <<data, perm, fd, written, seen, ignored, before, readers>>

Crash(s) ==
    /\ pc[s] \notin Ended
    /\ pc' = [pc EXCEPT ![s] = "crashed"]
    /\ UNCHANGED <<files, fd, written, seen, ignored, before, readers>>

-----------------------------------------------------------------------------
(* Cassette::load and Load, chunk by chunk                                 *)

ReadOpen(r) ==
    /\ rfd[r] = None /\ got[r] = <<>>
    /\ dir[Path] # None
    /\ rfd' = [rfd EXCEPT ![r] = dir[Path]]
    /\ UNCHANGED <<files, savers, before, got>>

Read(r) ==
    /\ rfd[r] # None
    /\ Len(got[r]) < Len(data[rfd[r]])
    /\ got' = [got EXCEPT ![r] = Append(@, data[rfd[r]][Len(@) + 1])]
    /\ UNCHANGED <<files, savers, before, rfd>>

AtEnd(r) == rfd[r] # None /\ Len(got[r]) >= Len(data[rfd[r]])

-----------------------------------------------------------------------------

Whole(s) == [i \in 1..Chunks |-> s]

(* Either the cassette is there, or a caller in a rewriting mode removed   *)
(* it.  Either way the caller may have kept its mode: the Rust recorder    *)
(* reads it in every mode and takes a failure for no mode.                 *)
Init ==
    /\ original \in Modes \cup {None}
    /\ removed \in BOOLEAN /\ (removed => original # None)
    /\ given \in {original, None}
    /\ ignored = IF removed /\ given = None THEN RustSavers ELSE {}
    /\ \E left \in {Left, None} :
         dir = [n \in Names |->
                  IF n = Path /\ original # None /\ ~ removed THEN Old
                  ELSE IF n = Shared THEN left ELSE None]
    /\ data = [i \in Inodes |-> IF i = Old THEN Whole(Old)
                                ELSE IF i = Left THEN <<Hole>> ELSE <<>>]
    /\ \E m \in Modes : perm = [i \in Inodes |-> IF i = Old /\ original # None
                                              THEN original ELSE m]
    /\ pc = [s \in Savers |-> "start"]
    /\ fd = [s \in Savers |-> None]
    /\ written = [s \in Savers |-> 0]
    /\ seen = [s \in Savers |-> None]
    /\ rfd = [r \in Readers |-> None]
    /\ got = [r \in Readers |-> <<>>]

Step(s) ==
    \/ Open(s) \/ CreateTemp(s) \/ Write(s) \/ WriteEnds(s)
    \/ Stat(s) \/ StatIgnored(s) \/ Chmod(s) \/ ChmodIgnored(s) \/ Rename(s)
    \/ Fails(s) \/ Crash(s)

Next ==
    \/ \E s \in Savers : Step(s)
    \/ \E r \in Readers : ReadOpen(r) \/ Read(r)

Spec == Init /\ [][Next]_vars

-----------------------------------------------------------------------------
(* Properties                                                              *)

Chunk == Savers \cup {Old, Hole}

TypeOK ==
    /\ dir \in [Names -> Inodes \cup {None}]
    /\ data \in [Inodes -> Seq(Chunk)]
    /\ perm \in [Inodes -> Modes]
    /\ pc \in [Savers -> {"start", "write", "stat", "chmod", "rename"} \cup Ended]
    /\ fd \in [Savers -> Inodes \cup {None}]
    /\ written \in [Savers -> 0..Chunks]
    /\ seen \in [Savers -> Modes \cup {None}]
    /\ ignored \subseteq RustSavers
    /\ original \in Modes \cup {None} /\ given \in {original, None}
    /\ removed \in BOOLEAN
    /\ rfd \in [Readers -> Inodes \cup {None}]
    /\ got \in [Readers -> Seq(Chunk)]

(***************************************************************************)
(* "Write via a temp file + rename so a crash mid-write never leaves a     *)
(* truncated cassette" (cassette/mod.rs).                                  *)
(***************************************************************************)
NeverTruncated ==
    dir[Path] # None => \E w \in Savers \cup {Old} : data[dir[Path]] = Whole(w)

(***************************************************************************)
(* A load that runs while the cassette is saved gets what one save wrote,  *)
(* all of it.                                                              *)
(***************************************************************************)
LoadsAreWhole ==
    \A r \in Readers : AtEnd(r) =>
        \E w \in Savers \cup {Old} : got[r] = Whole(w)

(***************************************************************************)
(* A cassette that was private is published with the process umask by no   *)
(* save that read and set the mode: not between two system calls, not by a *)
(* Go save, and not by one that follows a save that only failed or crashed *)
(* ("setting it after the rename would publish the file at the umask       *)
(* first").  What is left is a Rust save that ignored an error and renamed.*)
(***************************************************************************)
ModeKept ==
    (original = "private" /\ dir[Path] # None /\ perm[dir[Path]] # "private") =>
        \E s \in ignored : pc[s] = "saved"

(***************************************************************************)
(* "Preserve the original file's permissions across the rename: the temp   *)
(* file is created with the process umask, which would drop a restrictive  *)
(* mode" (cassette/mod.rs): a private cassette stays private.              *)
(***************************************************************************)
PermissionsPreserved ==
    (original = "private" /\ dir[Path] # None) => perm[dir[Path]] = "private"

(***************************************************************************)
(* The Go package leaves no temporary file behind unless it crashes.       *)
(***************************************************************************)
TempsRemoved ==
    \A s \in Savers \ RustSavers : pc[s] \in {"saved", "failed"} => dir[s] = None

(***************************************************************************)
(* Saving implements AtomicCassette: every system call is the one step     *)
(* that replaces the cassette by a complete save, an abort, or no change.  *)
(***************************************************************************)
content ==
    IF dir[Path] = None THEN None
    ELSE IF \E w \in Savers \cup {Old} : data[dir[Path]] = Whole(w)
         THEN CHOOSE w \in Savers \cup {Old} : data[dir[Path]] = Whole(w)
         ELSE Hole

status == [s \in Savers |-> IF pc[s] \in Ended THEN pc[s] ELSE "saving"]

Atomic == INSTANCE AtomicCassette WITH content <- content, status <- status

SaveIsAtomic == Atomic!AtomicSpec
=============================================================================

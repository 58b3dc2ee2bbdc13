----------------------------- MODULE FileProofs -----------------------------
(***************************************************************************)
(* The cassette file.  Saving it is atomic for any number of savers,       *)
(* chunks and readers as long as no two savers share a temporary name,     *)
(* which the Go package always and the Rust core guarantees for one saver  *)
(* of a cassette at a time.  The scanner that reads its text cuts out the  *)
(* binary scalars of any document and nothing else.                        *)
(***************************************************************************)
EXTENDS FileSave, YamlScan, FiniteSetTheorems, WellFoundedInduction, TLAPS

(* At most one saver uses the fixed temporary name.                        *)
OneRust == \A s, t \in RustSavers : s = t

Active(s) == pc[s] \in {"write", "stat", "chmod", "rename"}
OwnInode(s) == fd[s] = s \/ (Rust(s) /\ fd[s] = Left)

(* A saver that has not started left no trace.                             *)
Unstarted ==
    \A s \in Savers : pc[s] = "start" =>
        written[s] = 0 /\ data[s] = <<>> /\ \A n \in Names : dir[n] # s

(* A working saver has its temporary file for itself, with what it wrote.  *)
Working ==
    \A s \in Savers : Active(s) =>
        /\ OwnInode(s) /\ dir[Temp(s)] = fd[s]
        /\ data[fd[s]] = [i \in 1..written[s] |-> s]

Filled ==
    \A s \in Savers :
        (pc[s] = "rename" \/ (Rust(s) /\ pc[s] \in {"stat", "chmod"}))
            => written[s] = Chunks

SavedWhole ==
    \A s \in Savers : pc[s] = "saved" => OwnInode(s) /\ data[fd[s]] = Whole(s)

Published(i) == i = Old \/ \E s \in Savers : pc[s] = "saved" /\ i = fd[s]

PathPublished == dir[Path] # None => Published(dir[Path])
SharedOwned == dir[Shared] \in {None, Left} \cup RustSavers
OldKept == data[Old] = Whole(Old)

ReadersBehind ==
    \A r \in Readers :
        IF rfd[r] = None THEN got[r] = <<>>
        ELSE /\ Published(rfd[r])
             /\ Len(got[r]) <= Chunks
             /\ \A i \in 1..Len(got[r]) : got[r][i] = data[rfd[r]][i]

IInv ==
    /\ TypeOK
    /\ Unstarted /\ Working /\ Filled /\ SavedWhole
    /\ PathPublished /\ SharedOwned /\ OldKept /\ ReadersBehind

-----------------------------------------------------------------------------
(* Chunks and names                                                        *)

LEMMA RunIsSeq ==
    ASSUME NEW w \in Chunk, NEW n \in Nat
    PROVE  /\ [i \in 1..n |-> w] \in Seq(Chunk)
           /\ Len([i \in 1..n |-> w]) = n
  OBVIOUS

LEMMA WholeIsSeq ==
    ASSUME NEW w \in Chunk
    PROVE  Whole(w) \in Seq(Chunk) /\ Len(Whole(w)) = Chunks
  BY RunIsSeq, FileSaveAssumption DEF Whole

(* The next chunk of a saver extends what it wrote so far.                 *)
LEMMA PutExtends ==
    ASSUME NEW s \in Savers, NEW n \in Nat
    PROVE  Put([i \in 1..n |-> s], n + 1, s) = [i \in 1..(n + 1) |-> s]
<1>. DEFINE run == [i \in 1..n |-> s]
<1>1. Len(run) = n
  BY RunIsSeq DEF Chunk
<1>2. Put(run, n + 1, s) = [i \in 1..(n + 1) |->
                             IF i = n + 1 THEN s
                             ELSE IF i \in DOMAIN run THEN run[i] ELSE Hole]
  BY <1>1 DEF Put
<1>3. \A i \in 1..(n + 1) : i # n + 1 => i \in DOMAIN run /\ run[i] = s
  OBVIOUS
<1>. HIDE DEF run
<1>4. [i \in 1..(n + 1) |-> IF i = n + 1 THEN s
                            ELSE IF i \in DOMAIN run THEN run[i] ELSE Hole]
        = [i \in 1..(n + 1) |-> s]
  BY <1>3
<1>. QED  BY <1>2, <1>4 DEF run

(* Two complete saves are equal only if one saver wrote both.              *)
LEMMA WholeIsOnes ==
    ASSUME NEW v, NEW w, Whole(v) = Whole(w)
    PROVE  v = w
<1>1. 1 \in 1..Chunks
  BY FileSaveAssumption
<1>2. Whole(v)[1] = v /\ Whole(w)[1] = w
  BY <1>1 DEF Whole
<1>. QED  BY <1>2

(* The temporary names of two savers differ, and none is the cassette.     *)
LEMMA TempsDiffer ==
    ASSUME OneRust, NEW s \in Savers, NEW t \in Savers, s # t
    PROVE  /\ Temp(s) # Temp(t)
           /\ Temp(s) \in Names /\ Temp(s) # Path
  BY FileSaveAssumption DEF OneRust, Temp, Rust, Names

LEMMA TempIsName ==
    ASSUME NEW s \in Savers
    PROVE  Temp(s) \in Names /\ Temp(s) # Path
  BY FileSaveAssumption DEF Temp, Rust, Names

(* And so do their inodes.                                                 *)
LEMMA InodesDiffer ==
    ASSUME OneRust, NEW s \in Savers, NEW t \in Savers, s # t,
           OwnInode(s), OwnInode(t)
    PROVE  fd[s] # fd[t]
  BY FileSaveAssumption DEF OneRust, OwnInode, Rust

LEMMA OwnIsNotOld ==
    ASSUME NEW s \in Savers, OwnInode(s)
    PROVE  fd[s] # Old /\ fd[s] \in Inodes
  BY FileSaveAssumption DEF OwnInode, Inodes

(* The inode a starting saver opens is nobody's.                           *)
LEMMA OpensFresh ==
    ASSUME OneRust, IInv, NEW s \in Savers, pc[s] = "start", Rust(s)
    PROVE  dir[Shared] # None => dir[Shared] = Left
  BY FileSaveAssumption DEF OneRust, IInv, Unstarted, SharedOwned, Rust, Names

-----------------------------------------------------------------------------
(* Types                                                                   *)

LEMMA PutType ==
    ASSUME NEW q \in Seq(Chunk), NEW k \in Nat \ {0}, NEW s \in Savers
    PROVE  Put(q, k, s) \in Seq(Chunk)
<1>. DEFINE m == IF k > Len(q) THEN k ELSE Len(q)
<1>1. m \in Nat
  OBVIOUS
<1>2. \A i \in 1..m : (IF i = k THEN s ELSE IF i \in DOMAIN q THEN q[i] ELSE Hole) \in Chunk
  BY DEF Chunk
<1>. HIDE DEF m
<1>3. [i \in 1..m |-> IF i = k THEN s ELSE IF i \in DOMAIN q THEN q[i] ELSE Hole]
        \in Seq(Chunk)
  BY <1>1, <1>2
<1>. QED  BY <1>3 DEF Put, m

LEMMA InitTypeOK ==
    ASSUME Init
    PROVE  TypeOK
<1>1. Whole(Old) \in Seq(Chunk) /\ <<Hole>> \in Seq(Chunk) /\ <<>> \in Seq(Chunk)
  BY WholeIsSeq DEF Chunk
<1>2. data \in [Inodes -> Seq(Chunk)]
  BY <1>1 DEF Init
<1>3. dir \in [Names -> Inodes \cup {None}]
  BY DEF Init, Inodes
<1>4. perm \in [Inodes -> Modes]
  BY FileSaveAssumption DEF Init, Modes
<1>5. written \in [Savers -> 0..Chunks] /\ pc \in [Savers -> {"start"}]
  BY FileSaveAssumption DEF Init
<1>6. /\ fd \in [Savers -> {None}] /\ seen \in [Savers -> {None}]
      /\ rfd \in [Readers -> {None}]
      /\ original \in Modes \cup {None} /\ removed \in BOOLEAN
      /\ given \in {original, None} /\ ignored \subseteq RustSavers
  BY DEF Init
<1>7. got \in [Readers -> Seq(Chunk)]
  BY <1>1 DEF Init
<1>. QED  BY <1>2, <1>3, <1>4, <1>5, <1>6, <1>7 DEF TypeOK

LEMMA StepTypeOK ==
    ASSUME IInv, NEW s \in Savers, Step(s)
    PROVE  TypeOK'
<1>. USE DEF IInv
<1>0. TypeOK /\ Working /\ Temp(s) \in Names /\ Shared \in Names /\ Path \in Names
      /\ s \in Names
  BY TempIsName DEF Names
<1>. HIDE DEF IInv
<1>1. CASE Open(s)
  <2>. DEFINE inode == IF dir[Shared] = None THEN s ELSE dir[Shared]
  <2>1. inode \in Inodes
    BY <1>0 DEF TypeOK, Inodes
  <2>2. <<>> \in Seq(Chunk)
    OBVIOUS
  <2>3. /\ pc' = [pc EXCEPT ![s] = "write"]
        /\ fd' = [fd EXCEPT ![s] = inode]
        /\ dir' = [dir EXCEPT ![Shared] = inode]
        /\ data' = [data EXCEPT ![inode] = <<>>]
        /\ perm' = IF inode = s THEN [perm EXCEPT ![s] = "umask"] ELSE perm
        /\ UNCHANGED <<written, seen, ignored, before, readers>>
    BY <1>1 DEF Open, Go
  <2>. HIDE DEF inode
  <2>4. data' \in [Inodes -> Seq(Chunk)]
    BY <1>0, <2>1, <2>2, <2>3 DEF TypeOK
  <2>5. perm' \in [Inodes -> Modes]
    BY <1>0, <2>3 DEF TypeOK, Modes
  <2>6. /\ dir' \in [Names -> Inodes \cup {None}]
        /\ fd' \in [Savers -> Inodes \cup {None}]
    BY <1>0, <2>1, <2>3 DEF TypeOK
  <2>7. pc' \in [Savers -> {"start", "write", "stat", "chmod", "rename"} \cup Ended]
    BY <1>0, <2>3 DEF TypeOK
  <2>. QED  BY <1>0, <2>3, <2>4, <2>5, <2>6, <2>7 DEF TypeOK, before, readers
<1>2. CASE CreateTemp(s)
  BY <1>0, <1>2 DEF CreateTemp, Go, TypeOK, before, readers, Modes, Inodes
<1>3. CASE Write(s)
  <2>0. pc[s] = "write" /\ OwnInode(s)
    BY <1>0, <1>3 DEF Write, Working, Active
  <2>1. written[s] < Chunks /\ written[s] \in Nat /\ fd[s] \in Inodes
    BY <1>0, <1>3, <2>0, OwnIsNotOld, FileSaveAssumption DEF Write, TypeOK
  <2>2. Put(data[fd[s]], written[s] + 1, s) \in Seq(Chunk)
    BY <1>0, <2>1, PutType DEF TypeOK
  <2>3. data' \in [Inodes -> Seq(Chunk)]
    BY <1>0, <1>3, <2>1, <2>2 DEF Write, TypeOK
  <2>4. written' \in [Savers -> 0..Chunks]
    BY <1>0, <1>3, <2>1, FileSaveAssumption DEF Write, TypeOK
  <2>. QED  BY <1>0, <1>3, <2>3, <2>4 DEF Write, TypeOK, before, readers
<1>4. CASE WriteEnds(s)
  BY <1>0, <1>4 DEF WriteEnds, Go, TypeOK, before, readers, files
<1>5. CASE Stat(s) \/ StatIgnored(s)
  <2>1. (IF Rust(s) /\ given # None THEN given
         ELSE IF dir[Path] # None THEN perm[dir[Path]] ELSE None) \in Modes \cup {None}
    BY <1>0 DEF TypeOK
  <2>2. seen' \in [Savers -> Modes \cup {None}]
    BY <1>0, <1>5, <2>1 DEF Stat, StatIgnored, TypeOK
  <2>3. ignored' \subseteq RustSavers
    BY <1>0, <1>5 DEF Stat, StatIgnored, TypeOK, Rust
  <2>. QED  BY <1>0, <1>5, <2>2, <2>3 DEF Stat, StatIgnored, Go, TypeOK, before, readers, files
<1>6. CASE Chmod(s) \/ ChmodIgnored(s)
  <2>1. perm' \in [Inodes -> Modes]
    BY <1>0, <1>6 DEF Chmod, ChmodIgnored, files, TypeOK
  <2>2. pc' \in [Savers -> {"start", "write", "stat", "chmod", "rename"} \cup Ended]
    BY <1>0, <1>6 DEF Chmod, ChmodIgnored, Go, TypeOK, AfterChmod
  <2>3. ignored' \subseteq RustSavers
    BY <1>0, <1>6 DEF Chmod, ChmodIgnored, TypeOK, Rust
  <2>. QED  BY <1>0, <1>6, <2>1, <2>2, <2>3 DEF Chmod, ChmodIgnored, files, TypeOK, before, readers
<1>7. CASE Rename(s)
  BY <1>0, <1>7 DEF Rename, Go, TypeOK, before, readers, Ended
<1>8. CASE Fails(s)
  BY <1>0, <1>8 DEF Fails, TypeOK, before, readers, Ended
<1>9. CASE Crash(s)
  BY <1>0, <1>9 DEF Crash, TypeOK, before, readers, files, Ended
<1>. QED  BY <1>1, <1>2, <1>3, <1>4, <1>5, <1>6, <1>7, <1>8, <1>9 DEF Step

-----------------------------------------------------------------------------
(* The invariant, action by action                                         *)

Quiet == UNCHANGED <<dir, data, fd, written, rfd, got>>
Rest ==
    /\ Unstarted /\ Working /\ Filled /\ SavedWhole
    /\ PathPublished /\ SharedOwned /\ OldKept /\ ReadersBehind

(* Steps that move nothing but a program counter keep everything, if they  *)
(* neither start nor publish a save.                                       *)
LEMMA QuietStep ==
    ASSUME IInv, NEW s \in Savers, NEW to, Quiet,
           pc' = [pc EXCEPT ![s] = to],
           to \notin {"start", "saved"}, pc[s] # "saved",
           to \in {"write", "stat", "chmod", "rename"} => Active(s),
           (to = "rename" \/ (Rust(s) /\ to \in {"stat", "chmod"}))
             => written[s] = Chunks
    PROVE  Rest'
<1>. USE DEF Quiet, IInv
<1>0. pc \in [Savers -> {"start", "write", "stat", "chmod", "rename"} \cup Ended]
  BY DEF TypeOK
<1>1. /\ \A t \in Savers : pc'[t] = "start" <=> pc[t] = "start" /\ t # s
      /\ \A t \in Savers : pc'[t] = "saved" <=> pc[t] = "saved"
      /\ \A t \in Savers : Active(t)' => Active(t)
      /\ \A t \in Savers : OwnInode(t)' <=> OwnInode(t)
  BY <1>0 DEF Active, OwnInode
<1>2. Unstarted'
  BY <1>1 DEF Unstarted
<1>3. Working'
  BY <1>1 DEF Working
<1>4. Filled'
  BY <1>0 DEF Filled
<1>5. SavedWhole'
  BY <1>1 DEF SavedWhole
<1>6. \A i : Published(i)' <=> Published(i)
  BY <1>1 DEF Published
<1>7. PathPublished' /\ SharedOwned' /\ OldKept'
  BY <1>6 DEF PathPublished, SharedOwned, OldKept
<1>8. ReadersBehind'
  BY <1>6 DEF ReadersBehind
<1>. QED  BY <1>2, <1>3, <1>4, <1>5, <1>7, <1>8 DEF Rest

(* A step that leaves published files alone keeps the readers' invariant.  *)
LEMMA ReadersKept ==
    ASSUME ReadersBehind, UNCHANGED readers,
           \A i : Published(i) => Published(i)' /\ data'[i] = data[i]
    PROVE  ReadersBehind'
  BY DEF ReadersBehind, readers

(* A working saver's inode is not published, nor another saver's.          *)
LEMMA WorkingIsPrivate ==
    ASSUME OneRust, IInv, NEW s \in Savers, OwnInode(s), pc[s] # "saved"
    PROVE  /\ ~ Published(fd[s])
           /\ \A t \in Savers \ {s} : (Active(t) \/ pc[t] = "saved") => fd[t] # fd[s]
<1>1. \A t \in Savers : (Active(t) \/ pc[t] = "saved") => OwnInode(t)
  BY DEF IInv, Working, SavedWhole
<1>2. \A t \in Savers \ {s} : (Active(t) \/ pc[t] = "saved") => fd[t] # fd[s]
  BY <1>1, InodesDiffer
<1>. QED  BY <1>2, OwnIsNotOld DEF Published

LEMMA WriteStep ==
    ASSUME OneRust, IInv, NEW s \in Savers, Write(s)
    PROVE  Rest'
<1>. DEFINE me == fd[s]
<1>1. /\ pc[s] = "write" /\ OwnInode(s) /\ me \in Inodes /\ me # Old
      /\ dir[Temp(s)] = me /\ data[me] = [i \in 1..written[s] |-> s]
      /\ written[s] \in Nat
      /\ written[s] < Chunks
  <2>1. pc[s] = "write" /\ OwnInode(s) /\ dir[Temp(s)] = me
        /\ data[me] = [i \in 1..written[s] |-> s]
    BY DEF Write, IInv, Working, Active
  <2>2. written[s] \in Nat /\ written[s] < Chunks
    BY FileSaveAssumption DEF Write, IInv, TypeOK
  <2>. QED  BY <2>1, <2>2, OwnIsNotOld
<1>2. /\ ~ Published(me)
      /\ \A t \in Savers \ {s} : (Active(t) \/ pc[t] = "saved") => fd[t] # me
  BY <1>1, WorkingIsPrivate
<1>3. /\ data \in [Inodes -> Seq(Chunk)] /\ written \in [Savers -> 0..Chunks]
      /\ data' = [data EXCEPT ![me] = Put(@, written[s] + 1, s)]
      /\ written' = [written EXCEPT ![s] = @ + 1]
      /\ UNCHANGED <<dir, perm, pc, fd, seen, before, readers>>
  BY DEF Write, IInv, TypeOK
<1>4. data'[me] = [i \in 1..written'[s] |-> s]
  BY <1>1, <1>3, PutExtends
<1>5. \A i : i # me => data'[i] = data[i]
  BY <1>3
<1>6. \A t \in Savers \ {s} : written'[t] = written[t]
  BY <1>3
<1>7. \A t \in Savers : /\ Active(t)' <=> Active(t)
                        /\ OwnInode(t)' <=> OwnInode(t)
  BY <1>3 DEF Active, OwnInode
<1>8. \A i : Published(i)' <=> Published(i)
  BY <1>3 DEF Published
<1>9. Unstarted'
  <2>1. \A t \in Savers : pc[t] = "start" => t # me
    BY <1>1, TempIsName DEF IInv, Unstarted
  <2>. QED  BY <1>1, <1>3, <1>5, <1>6, <2>1 DEF IInv, Unstarted
<1>10. Working'
  <2>. SUFFICES ASSUME NEW t \in Savers, Active(t)
                PROVE  /\ OwnInode(t) /\ dir[Temp(t)] = fd[t]
                       /\ data'[fd[t]] = [i \in 1..written'[t] |-> t]
    BY <1>3, <1>7 DEF Working
  <2>1. OwnInode(t) /\ dir[Temp(t)] = fd[t] /\ data[fd[t]] = [i \in 1..written[t] |-> t]
    BY DEF IInv, Working
  <2>2. CASE t = s
    BY <2>1, <2>2, <1>4
  <2>3. CASE t # s
    BY <2>1, <2>3, <1>2, <1>5, <1>6
  <2>. QED  BY <2>2, <2>3
<1>11. Filled'
  BY <1>1, <1>3, <1>6 DEF IInv, Filled
<1>12. SavedWhole'
  BY <1>1, <1>2, <1>3, <1>5, <1>7 DEF IInv, SavedWhole
<1>13. PathPublished' /\ SharedOwned' /\ OldKept'
  BY <1>1, <1>3, <1>5, <1>8 DEF IInv, PathPublished, SharedOwned, OldKept
<1>14. ReadersBehind'
  BY <1>2, <1>3, <1>5, <1>8, ReadersKept DEF IInv
<1>. QED  BY <1>9, <1>10, <1>11, <1>12, <1>13, <1>14 DEF Rest

(* Opening the temporary file, in either package.                          *)
LEMMA OpeningStep ==
    ASSUME OneRust, IInv, NEW s \in Savers, NEW inode,
           NEW to \in {"write", "stat"}, Rust(s) => to = "write",
           pc[s] = "start", inode = s \/ (Rust(s) /\ inode = Left),
           pc' = [pc EXCEPT ![s] = to],
           fd' = [fd EXCEPT ![s] = inode],
           dir' = [dir EXCEPT ![Temp(s)] = inode],
           data' = [data EXCEPT ![inode] = <<>>],
           UNCHANGED <<written, readers>>
    PROVE  Rest'
<1>1. /\ pc \in [Savers -> {"start", "write", "stat", "chmod", "rename"} \cup Ended]
      /\ fd \in [Savers -> Inodes \cup {None}]
      /\ dir \in [Names -> Inodes \cup {None}]
      /\ data \in [Inodes -> Seq(Chunk)]
      /\ Temp(s) \in Names /\ Temp(s) # Path
  BY TempIsName DEF IInv, TypeOK
<1>2. inode \in Inodes /\ inode # Old /\ inode # None
  BY FileSaveAssumption DEF Inodes
<1>3. /\ pc'[s] = to /\ fd'[s] = inode /\ dir'[Temp(s)] = inode
      /\ data'[inode] = <<>> /\ written[s] = 0
  BY <1>1, <1>2 DEF IInv, Unstarted
<1>4. /\ \A t \in Savers \ {s} : pc'[t] = pc[t] /\ fd'[t] = fd[t]
      /\ \A n \in Names \ {Temp(s)} : dir'[n] = dir[n]
      /\ \A i : i # inode => data'[i] = data[i]
  BY <1>1
<1>5. \A t \in Savers \ {s} : (Active(t) \/ pc[t] = "saved") => OwnInode(t) /\ fd[t] # inode
  <2>. SUFFICES ASSUME NEW t \in Savers \ {s}, Active(t) \/ pc[t] = "saved"
                PROVE  OwnInode(t) /\ fd[t] # inode
    OBVIOUS
  <2>1. OwnInode(t)
    BY DEF IInv, Working, SavedWhole
  <2>. QED  BY <2>1, FileSaveAssumption DEF OneRust, OwnInode, Rust
<1>6. /\ \A t \in Savers \ {s} : Active(t)' <=> Active(t)
      /\ \A t \in Savers \ {s} : OwnInode(t)' <=> OwnInode(t)
      /\ OwnInode(s)'
  BY <1>3, <1>4 DEF Active, OwnInode, Rust
<1>7. ~ Published(inode) /\ \A i : Published(i)' <=> Published(i)
  BY <1>2, <1>3, <1>4, <1>5 DEF Published
<1>8. Unstarted'
  <2>. SUFFICES ASSUME NEW t \in Savers, pc'[t] = "start"
                PROVE  written[t] = 0 /\ data'[t] = <<>> /\ \A n \in Names : dir'[n] # t
    BY DEF Unstarted, readers
  <2>1. t # s /\ pc[t] = "start"
    BY <1>3, <1>4
  <2>2. t # inode
    BY <2>1, FileSaveAssumption
  <2>3. written[t] = 0 /\ data[t] = <<>> /\ \A n \in Names : dir[n] # t
    BY <2>1 DEF IInv, Unstarted
  <2>. QED  BY <1>3, <1>4, <2>2, <2>3
<1>9. Working'
  <2>. SUFFICES ASSUME NEW t \in Savers, Active(t)'
                PROVE  /\ OwnInode(t)' /\ dir'[Temp(t)] = fd'[t]
                       /\ data'[fd'[t]] = [i \in 1..written[t] |-> t]
    BY DEF Working
  <2>1. CASE t = s
    <3>1. <<>> = [i \in 1..0 |-> s]
      OBVIOUS
    <3>. QED  BY <1>3, <1>6, <2>1, <3>1
  <2>2. CASE t # s
    <3>1. /\ OwnInode(t) /\ dir[Temp(t)] = fd[t] /\ fd[t] # inode
          /\ data[fd[t]] = [i \in 1..written[t] |-> t]
      BY <1>5, <1>6, <2>2 DEF IInv, Working
    <3>2. Temp(t) # Temp(s) /\ Temp(t) \in Names
      BY <2>2, TempsDiffer
    <3>. QED  BY <1>4, <1>6, <2>2, <3>1, <3>2
  <2>. QED  BY <2>1, <2>2
<1>10. Filled'
  BY <1>3, <1>4 DEF IInv, Filled, Rust
<1>11. SavedWhole'
  <2>. SUFFICES ASSUME NEW t \in Savers, pc'[t] = "saved"
                PROVE  OwnInode(t)' /\ data'[fd'[t]] = Whole(t)
    BY DEF SavedWhole, Whole
  <2>1. t # s /\ pc[t] = "saved"
    BY <1>3, <1>4
  <2>. QED  BY <1>4, <1>5, <1>6, <2>1 DEF IInv, SavedWhole
<1>12. PathPublished'
  <2>1. Path \in Names \ {Temp(s)}
    BY <1>1 DEF Names
  <2>. QED  BY <1>4, <1>7, <2>1 DEF IInv, PathPublished
<1>13. SharedOwned'
  <2>1. Shared \in Names
    BY DEF Names
  <2>2. CASE Rust(s)
    BY <1>3, <2>2 DEF SharedOwned, Rust, Temp
  <2>3. CASE ~ Rust(s)
    <3>1. Temp(s) # Shared
      BY <2>3, FileSaveAssumption DEF Temp
    <3>. QED  BY <1>4, <2>1, <3>1 DEF IInv, SharedOwned
  <2>. QED  BY <2>2, <2>3
<1>14. OldKept'
  BY <1>2, <1>4 DEF IInv, OldKept, Whole
<1>15. ReadersBehind'
  <2>1. UNCHANGED readers
    OBVIOUS
  <2>. QED  BY <1>4, <1>7, <2>1, ReadersKept DEF IInv
<1>. QED  BY <1>8, <1>9, <1>10, <1>11, <1>12, <1>13, <1>14, <1>15 DEF Rest

LEMMA RenameStep ==
    ASSUME OneRust, IInv, NEW s \in Savers, Rename(s)
    PROVE  Rest'
<1>1. /\ pc \in [Savers -> {"start", "write", "stat", "chmod", "rename"} \cup Ended]
      /\ dir \in [Names -> Inodes \cup {None}]
      /\ Temp(s) \in Names /\ Temp(s) # Path /\ Path \in Names /\ Shared \in Names
  BY TempIsName DEF IInv, TypeOK, Names
<1>2. /\ OwnInode(s) /\ dir[Temp(s)] = fd[s] /\ data[fd[s]] = Whole(s)
  BY DEF Rename, Go, IInv, Working, Active, Filled, Whole
<1>3. /\ pc'[s] = "saved" /\ dir'[Path] = fd[s] /\ dir'[Temp(s)] = None
      /\ \A n \in Names \ {Path, Temp(s)} : dir'[n] = dir[n]
      /\ \A t \in Savers \ {s} : pc'[t] = pc[t]
      /\ UNCHANGED <<data, fd, written, readers>>
  BY <1>1, <1>2 DEF Rename, Go
<1>4. /\ \A t \in Savers : Active(t)' <=> (Active(t) /\ t # s)
      /\ \A t \in Savers : OwnInode(t)' <=> OwnInode(t)
  BY <1>3 DEF Active, OwnInode
<1>5. /\ \A i : Published(i) => Published(i)'
      /\ Published(fd[s])'
  BY <1>3 DEF Published
<1>6. Unstarted'
  <2>. SUFFICES ASSUME NEW t \in Savers, pc'[t] = "start"
                PROVE  written[t] = 0 /\ data[t] = <<>> /\ \A n \in Names : dir'[n] # t
    BY <1>3 DEF Unstarted
  <2>1. t # s /\ pc[t] = "start"
    BY <1>3
  <2>2. fd[s] # t /\ None # t
    BY <1>2, <2>1, FileSaveAssumption DEF OwnInode
  <2>. QED  BY <1>3, <2>1, <2>2 DEF IInv, Unstarted
<1>7. Working'
  <2>. SUFFICES ASSUME NEW t \in Savers, Active(t), t # s
                PROVE  dir'[Temp(t)] = fd[t]
    BY <1>3, <1>4 DEF IInv, Working
  <2>1. Temp(t) # Temp(s) /\ Temp(t) \in Names /\ Temp(t) # Path
    BY TempsDiffer
  <2>. QED  BY <1>3, <2>1 DEF IInv, Working
<1>8. Filled'
  BY <1>3 DEF IInv, Filled
<1>9. SavedWhole'
  BY <1>2, <1>3, <1>4 DEF IInv, SavedWhole
<1>10. PathPublished'
  BY <1>3, <1>5 DEF PathPublished
<1>11. SharedOwned'
  <2>1. CASE Temp(s) = Shared
    BY <1>3, <2>1 DEF SharedOwned
  <2>2. CASE Temp(s) # Shared
    BY <1>1, <1>3, <2>2, FileSaveAssumption DEF IInv, SharedOwned
  <2>. QED  BY <2>1, <2>2
<1>12. OldKept'
  BY <1>3 DEF IInv, OldKept
<1>13. ReadersBehind'
  BY <1>3, <1>5, ReadersKept DEF IInv
<1>. QED  BY <1>6, <1>7, <1>8, <1>9, <1>10, <1>11, <1>12, <1>13 DEF Rest

LEMMA FailsStep ==
    ASSUME OneRust, IInv, NEW s \in Savers, Fails(s)
    PROVE  Rest'
<1>1. /\ pc \in [Savers -> {"start", "write", "stat", "chmod", "rename"} \cup Ended]
      /\ dir \in [Names -> Inodes \cup {None}]
      /\ Path \in Names /\ Shared \in Names /\ s \in Names
      /\ s # Path /\ s # Shared
  BY FileSaveAssumption DEF IInv, TypeOK, Names
<1>2. /\ pc'[s] = "failed" /\ pc[s] # "saved"
      /\ \A t \in Savers \ {s} : pc'[t] = pc[t]
      /\ UNCHANGED <<data, fd, written, readers>>
  BY <1>1 DEF Fails, Ended
<1>3. /\ \A n \in Names : n # s => dir'[n] = dir[n]
      /\ \A n \in Names : dir'[n] \in {dir[n], None}
      /\ Rust(s) => dir' = dir
  BY <1>1 DEF Fails
<1>4. /\ \A t \in Savers : Active(t)' <=> (Active(t) /\ t # s)
      /\ \A t \in Savers : OwnInode(t)' <=> OwnInode(t)
      /\ \A i : Published(i)' <=> Published(i)
  <2>1. \A t \in Savers : Active(t)' <=> (Active(t) /\ t # s)
    BY <1>2 DEF Active
  <2>2. \A t \in Savers : OwnInode(t)' <=> OwnInode(t)
    BY <1>2 DEF OwnInode
  <2>3. \A i : Published(i)' <=> Published(i)
    BY <1>2 DEF Published
  <2>. QED  BY <2>1, <2>2, <2>3
<1>5. Unstarted'
  <2>. SUFFICES ASSUME NEW t \in Savers, pc'[t] = "start"
                PROVE  written[t] = 0 /\ data[t] = <<>> /\ \A n \in Names : dir'[n] # t
    BY <1>2 DEF Unstarted
  <2>1. t # s /\ pc[t] = "start" /\ None # t
    BY <1>2, FileSaveAssumption
  <2>. QED  BY <1>3, <2>1 DEF IInv, Unstarted
<1>6. Working'
  <2>. SUFFICES ASSUME NEW t \in Savers, Active(t), t # s
                PROVE  dir'[Temp(t)] = fd[t]
    BY <1>2, <1>4 DEF IInv, Working
  <2>1. Temp(t) # s /\ Temp(t) \in Names
    BY <1>1, TempIsName DEF Temp
  <2>. QED  BY <1>3, <2>1 DEF IInv, Working
<1>7. Filled'
  BY <1>2 DEF IInv, Filled
<1>8. SavedWhole'
  BY <1>2, <1>4 DEF IInv, SavedWhole
<1>9. PathPublished' /\ SharedOwned' /\ OldKept'
  BY <1>1, <1>2, <1>3, <1>4 DEF IInv, PathPublished, SharedOwned, OldKept
<1>10. ReadersBehind'
  BY <1>2, <1>4, ReadersKept DEF IInv
<1>. QED  BY <1>5, <1>6, <1>7, <1>8, <1>9, <1>10 DEF Rest

LEMMA SaverStep ==
    ASSUME OneRust, IInv, NEW s \in Savers, Step(s)
    PROVE  Rest'
<1>1. CASE Open(s)
  <2>. DEFINE inode == IF dir[Shared] = None THEN s ELSE dir[Shared]
  <2>1. pc[s] = "start" /\ Rust(s) /\ Temp(s) = Shared
    BY <1>1 DEF Open, Go, Temp
  <2>2. inode = s \/ (Rust(s) /\ inode = Left)
    BY <2>1, OpensFresh
  <2>3. /\ pc' = [pc EXCEPT ![s] = "write"]
        /\ fd' = [fd EXCEPT ![s] = inode]
        /\ dir' = [dir EXCEPT ![Temp(s)] = inode]
        /\ data' = [data EXCEPT ![inode] = <<>>]
        /\ UNCHANGED <<written, readers>>
    BY <1>1, <2>1 DEF Open, Go
  <2>. HIDE DEF inode
  <2>. QED  BY <2>1, <2>2, <2>3, OpeningStep
<1>2. CASE CreateTemp(s)
  <2>1. pc[s] = "start" /\ ~ Rust(s) /\ Temp(s) = s /\ data[s] = <<>>
    BY <1>2 DEF CreateTemp, Go, Temp, IInv, Unstarted
  <2>2. data' = [data EXCEPT ![s] = <<>>]
    BY <1>2, <2>1 DEF CreateTemp, IInv, TypeOK, Inodes
  <2>3. /\ pc' = [pc EXCEPT ![s] = "stat"]
        /\ fd' = [fd EXCEPT ![s] = s]
        /\ dir' = [dir EXCEPT ![Temp(s)] = s]
        /\ UNCHANGED <<written, readers>>
    BY <1>2, <2>1 DEF CreateTemp, Go
  <2>. DEFINE inode == s
              to == "stat"
  <2>4. /\ pc' = [pc EXCEPT ![s] = to] /\ fd' = [fd EXCEPT ![s] = inode]
        /\ dir' = [dir EXCEPT ![Temp(s)] = inode]
        /\ data' = [data EXCEPT ![inode] = <<>>]
        /\ inode = s /\ to \in {"write", "stat"}
    BY <2>2, <2>3
  <2>. HIDE DEF inode, to
  <2>. QED  BY <2>1, <2>3, <2>4, OpeningStep
<1>3. CASE Write(s)
  BY <1>3, WriteStep
<1>4. CASE WriteEnds(s)
  <2>. DEFINE to == IF Rust(s) THEN "stat" ELSE "rename"
  <2>1. /\ pc' = [pc EXCEPT ![s] = to] /\ pc[s] = "write" /\ Quiet
        /\ written[s] = Chunks
    BY <1>4 DEF WriteEnds, Go, Quiet, files, readers
  <2>2. to \notin {"start", "saved"} /\ pc[s] # "saved" /\ Active(s)
    BY <2>1 DEF Active
  <2>. HIDE DEF to
  <2>. QED  BY <2>1, <2>2, QuietStep
<1>5. CASE Stat(s) \/ StatIgnored(s)
  <2>1. /\ pc' = [pc EXCEPT ![s] = "chmod"] /\ pc[s] = "stat" /\ Quiet
    BY <1>5 DEF Stat, StatIgnored, Go, Quiet, files, readers
  <2>2. Active(s) /\ (Rust(s) => written[s] = Chunks)
    BY <2>1 DEF Active, IInv, Filled
  <2>. DEFINE to == "chmod"
  <2>3. pc' = [pc EXCEPT ![s] = to] /\ to \notin {"start", "saved", "rename"}
    BY <2>1
  <2>. HIDE DEF to
  <2>. QED  BY <2>1, <2>2, <2>3, QuietStep
<1>6. CASE Chmod(s) \/ ChmodIgnored(s)
  <2>. DEFINE to == AfterChmod(s)
  <2>1. /\ pc' = [pc EXCEPT ![s] = to] /\ pc[s] = "chmod" /\ Quiet
    BY <1>6 DEF Chmod, ChmodIgnored, Go, Quiet, files, readers
  <2>2. to \notin {"start", "saved", "stat", "chmod"} /\ pc[s] # "saved" /\ Active(s)
    BY <2>1 DEF Active, AfterChmod
  <2>3. to = "rename" => written[s] = Chunks
    BY <2>1 DEF IInv, Filled, AfterChmod
  <2>. HIDE DEF to
  <2>. QED  BY <2>1, <2>2, <2>3, QuietStep
<1>7. CASE Rename(s)
  BY <1>7, RenameStep
<1>8. CASE Fails(s)
  BY <1>8, FailsStep
<1>9. CASE Crash(s)
  <2>1. /\ pc' = [pc EXCEPT ![s] = "crashed"] /\ pc[s] # "saved" /\ Quiet
    BY <1>9 DEF Crash, Quiet, files, readers, Ended
  <2>. DEFINE to == "crashed"
  <2>2. /\ pc' = [pc EXCEPT ![s] = to]
        /\ to \notin {"start", "saved", "write", "stat", "chmod", "rename"}
    BY <2>1
  <2>. HIDE DEF to
  <2>. QED  BY <2>1, <2>2, QuietStep
<1>. QED  BY <1>1, <1>2, <1>3, <1>4, <1>5, <1>6, <1>7, <1>8, <1>9 DEF Step

(* What is published is complete.                                          *)
LEMMA PublishedWhole ==
    ASSUME IInv, NEW i, Published(i)
    PROVE  \E w \in Savers \cup {Old} : data[i] = Whole(w)
  BY DEF IInv, Published, SavedWhole, OldKept

LEMMA ReaderStep ==
    ASSUME IInv, NEW r \in Readers, ReadOpen(r) \/ Read(r)
    PROVE  IInv'
<1>1. UNCHANGED <<dir, data, perm, pc, fd, written, seen, ignored, original, removed, given>>
  BY DEF ReadOpen, Read, files, savers, before
<1>2. /\ \A s \in Savers : Active(s)' <=> Active(s)
      /\ \A s \in Savers : OwnInode(s)' <=> OwnInode(s)
      /\ \A i : Published(i)' <=> Published(i)
  BY <1>1 DEF Active, OwnInode, Published
<1>3. /\ Unstarted' /\ Working' /\ Filled' /\ SavedWhole'
      /\ PathPublished' /\ SharedOwned' /\ OldKept'
  <2>1. Unstarted' /\ Filled' /\ SharedOwned' /\ OldKept'
    BY <1>1 DEF IInv, Unstarted, Filled, SharedOwned, OldKept
  <2>2. Working' /\ SavedWhole' /\ PathPublished'
    BY <1>1, <1>2 DEF IInv, Working, SavedWhole, PathPublished
  <2>. QED  BY <2>1, <2>2
<1>4. CASE ReadOpen(r)
  <2>1. /\ rfd \in [Readers -> Inodes \cup {None}] /\ got \in [Readers -> Seq(Chunk)]
        /\ dir[Path] \in Inodes \cup {None}
    BY DEF IInv, TypeOK, Names
  <2>2. /\ dir[Path] # None /\ Published(dir[Path]) /\ got[r] = <<>>
        /\ rfd' = [rfd EXCEPT ![r] = dir[Path]] /\ got' = got
    BY <1>4 DEF ReadOpen, IInv, PathPublished
  <2>3. TypeOK'
    BY <1>1, <2>1, <2>2 DEF IInv, TypeOK
  <2>4. Len(got[r]) = 0
    BY <2>2
  <2>5. ReadersBehind'
    <3>. SUFFICES ASSUME NEW q \in Readers
                  PROVE  IF rfd'[q] = None THEN got[q] = <<>>
                         ELSE /\ Published(rfd'[q])
                              /\ Len(got[q]) <= Chunks
                              /\ \A i \in 1..Len(got[q]) : got[q][i] = data[rfd'[q]][i]
      BY <1>1, <1>2, <2>2 DEF ReadersBehind
    <3>1. CASE q = r
      BY <2>1, <2>2, <2>4, <3>1, FileSaveAssumption
    <3>2. CASE q # r
      BY <2>1, <2>2, <3>2 DEF IInv, ReadersBehind
    <3>. QED  BY <3>1, <3>2
  <2>. QED  BY <1>3, <2>3, <2>5 DEF IInv
<1>5. CASE Read(r)
  <2>. DEFINE i == rfd[r]
              n == Len(got[r])
              c == data[i][n + 1]
  <2>1. /\ rfd \in [Readers -> Inodes \cup {None}] /\ got \in [Readers -> Seq(Chunk)]
        /\ data \in [Inodes -> Seq(Chunk)]
    BY DEF IInv, TypeOK
  <2>2. /\ i # None /\ i \in Inodes /\ n < Len(data[i])
        /\ got' = [got EXCEPT ![r] = Append(got[r], c)] /\ rfd' = rfd
    BY <1>5, <2>1 DEF Read
  <2>3. /\ Published(i) /\ n <= Chunks /\ n \in Nat
        /\ \A k \in 1..n : got[r][k] = data[i][k]
    BY <2>1, <2>2 DEF IInv, ReadersBehind
  <2>4. Len(data[i]) = Chunks
    BY <2>3, PublishedWhole, WholeIsSeq DEF Chunk
  <2>5. c \in Chunk
    BY <2>1, <2>2, <2>3
  <2>. HIDE DEF c
  <2>6. /\ Append(got[r], c) \in Seq(Chunk)
        /\ Len(Append(got[r], c)) = n + 1
        /\ \A k \in 1..(n + 1) : Append(got[r], c)[k] = IF k = n + 1 THEN c ELSE got[r][k]
    BY <2>1, <2>5
  <2>7. TypeOK'
    <3>1. got' \in [Readers -> Seq(Chunk)]
      BY <2>1, <2>2, <2>6
    <3>. QED  BY <1>1, <2>2, <3>1 DEF IInv, TypeOK
  <2>8. ReadersBehind'
    <3>. SUFFICES ASSUME NEW q \in Readers
                  PROVE  IF rfd[q] = None THEN got'[q] = <<>>
                         ELSE /\ Published(rfd[q])
                              /\ Len(got'[q]) <= Chunks
                              /\ \A k \in 1..Len(got'[q]) : got'[q][k] = data[rfd[q]][k]
      BY <1>1, <1>2, <2>2 DEF ReadersBehind
    <3>1. CASE q = r
      <4>1. got'[r] = Append(got[r], c)
        BY <2>1, <2>2
      <4>2. Len(got'[r]) <= Chunks
        BY <2>2, <2>3, <2>4, <2>6, <4>1, FileSaveAssumption
      <4>3. \A k \in 1..(n + 1) : got'[r][k] = data[i][k]
        BY <2>3, <2>6, <4>1 DEF c
      <4>. QED  BY <2>2, <2>3, <2>6, <3>1, <4>1, <4>2, <4>3
    <3>2. CASE q # r
      BY <2>1, <2>2, <3>2 DEF IInv, ReadersBehind
    <3>. QED  BY <3>1, <3>2
  <2>. QED  BY <1>3, <2>7, <2>8 DEF IInv
<1>. QED  BY <1>4, <1>5

LEMMA InitInvariant ==
    ASSUME Init
    PROVE  IInv
<1>1. TypeOK
  BY InitTypeOK
<1>2. Unstarted /\ Working /\ Filled /\ SavedWhole
  <2>1. \A s \in Savers : pc[s] = "start" /\ written[s] = 0
    BY DEF Init
  <2>2. \A s \in Savers : data[s] = <<>> /\ s \in Inodes
    BY FileSaveAssumption DEF Init, Inodes
  <2>3. \A n \in Names : dir[n] \in {Old, Left, None}
    BY DEF Init
  <2>4. \A s \in Savers : s \notin {Old, Left, None}
    BY FileSaveAssumption
  <2>. QED  BY <2>1, <2>2, <2>3, <2>4 DEF Unstarted, Working, Filled, SavedWhole, Active
<1>3. PathPublished
  <2>1. dir[Path] \in {Old, None}
    BY FileSaveAssumption DEF Init, Names
  <2>. QED  BY <2>1 DEF PathPublished, Published
<1>4. SharedOwned
  BY FileSaveAssumption DEF Init, SharedOwned, Names
<1>5. OldKept
  BY DEF Init, OldKept, Inodes
<1>6. ReadersBehind
  BY DEF Init, ReadersBehind
<1>. QED  BY <1>1, <1>2, <1>3, <1>4, <1>5, <1>6 DEF IInv

LEMMA InvariantUnchanged ==
    ASSUME IInv, UNCHANGED vars
    PROVE  IInv'
<1>1. UNCHANGED <<dir, data, perm, pc, fd, written, seen, ignored, original, removed, given, rfd, got>>
  BY DEF vars, files, savers, before, readers
<1>2. /\ \A s \in Savers : Active(s)' <=> Active(s)
      /\ \A s \in Savers : OwnInode(s)' <=> OwnInode(s)
      /\ \A i : Published(i)' <=> Published(i)
  BY <1>1 DEF Active, OwnInode, Published
<1>3. TypeOK'
  BY <1>1 DEF IInv, TypeOK
<1>4. Unstarted' /\ Filled' /\ SharedOwned' /\ OldKept'
  BY <1>1 DEF IInv, Unstarted, Filled, SharedOwned, OldKept
<1>5. Working' /\ SavedWhole' /\ PathPublished' /\ ReadersBehind'
  BY <1>1, <1>2 DEF IInv, Working, SavedWhole, PathPublished, ReadersBehind
<1>. QED  BY <1>3, <1>4, <1>5 DEF IInv

LEMMA InvariantKept ==
    ASSUME OneRust, IInv, [Next]_vars
    PROVE  IInv'
<1>1. CASE \E s \in Savers : Step(s)
  BY <1>1, StepTypeOK, SaverStep DEF IInv, Rest
<1>2. CASE \E r \in Readers : ReadOpen(r) \/ Read(r)
  BY <1>2, ReaderStep
<1>3. CASE UNCHANGED vars
  BY <1>3, InvariantUnchanged
<1>. QED  BY <1>1, <1>2, <1>3 DEF Next

-----------------------------------------------------------------------------
(* The theorems                                                            *)

(***************************************************************************)
(* The inductive invariant of Cassette::save and Cassette.Save.            *)
(***************************************************************************)
THEOREM FileSaveInvariant == ASSUME OneRust PROVE Spec => []IInv
<1>1. Init => IInv
  BY InitInvariant
<1>2. IInv /\ [Next]_vars => IInv'
  BY InvariantKept
<1>. QED  BY <1>1, <1>2, PTL DEF Spec

(***************************************************************************)
(* A load always gets one complete save, however many savers replace the   *)
(* cassette meanwhile and wherever they crash.                             *)
(***************************************************************************)
THEOREM LoadsGetWholeSaves == ASSUME OneRust PROVE Spec => []LoadsAreWhole
<1>1. ASSUME IInv
      PROVE  LoadsAreWhole
  <2>. SUFFICES ASSUME NEW r \in Readers, AtEnd(r)
                PROVE  \E w \in Savers \cup {Old} : got[r] = Whole(w)
    BY DEF LoadsAreWhole
  <2>1. /\ rfd[r] # None /\ Published(rfd[r])
        /\ Len(got[r]) >= Len(data[rfd[r]]) /\ Len(got[r]) <= Chunks
        /\ \A i \in 1..Len(got[r]) : got[r][i] = data[rfd[r]][i]
        /\ got[r] \in Seq(Chunk)
    BY <1>1 DEF AtEnd, IInv, ReadersBehind, TypeOK
  <2>2. PICK w \in Savers \cup {Old} : data[rfd[r]] = Whole(w)
    BY <1>1, <2>1, PublishedWhole
  <2>3. Len(got[r]) = Chunks
    <3>1. Len(data[rfd[r]]) = Chunks /\ Chunks \in Nat /\ Len(got[r]) \in Nat
      BY <2>1, <2>2, WholeIsSeq, FileSaveAssumption DEF Chunk
    <3>. QED  BY <2>1, <3>1
  <2>4. \A i \in 1..Chunks : got[r][i] = w
    BY <2>1, <2>2, <2>3 DEF Whole
  <2>5. got[r] = [i \in 1..Chunks |-> got[r][i]]
    BY <2>1, <2>3
  <2>6. got[r] = Whole(w)
    BY <2>4, <2>5 DEF Whole
  <2>. QED  BY <2>6
<1>. QED  BY <1>1, FileSaveInvariant, PTL

(* The mapped content is whose complete save the cassette is.              *)
LEMMA ContentIs ==
    ASSUME NEW w \in Savers \cup {Old}, dir[Path] # None, data[dir[Path]] = Whole(w)
    PROVE  content = w
<1>1. \A v \in Savers \cup {Old} : data[dir[Path]] = Whole(v) => v = w
  BY WholeIsOnes
<1>. QED  BY <1>1 DEF content

LEMMA ContentBecomes ==
    ASSUME NEW w \in Savers \cup {Old}, dir'[Path] # None, data'[dir'[Path]] = Whole(w)
    PROVE  content' = w
<1>1. \A v \in Savers \cup {Old} : data'[dir'[Path]] = Whole(v) => v = w
  BY WholeIsOnes
<1>2. content' = IF dir'[Path] = None THEN None
                 ELSE IF \E v \in Savers \cup {Old} : data'[dir'[Path]] = Whole(v)
                      THEN CHOOSE v \in Savers \cup {Old} : data'[dir'[Path]] = Whole(v)
                      ELSE Hole
  BY DEF content, Whole
<1>. QED  BY <1>1, <1>2

LEMMA ContentKept ==
    ASSUME dir'[Path] = dir[Path],
           dir[Path] # None => data'[dir[Path]] = data[dir[Path]]
    PROVE  content' = content
  BY DEF content, Whole

(* A saver's own inode, or the one it opens, is not the cassette.          *)
LEMMA OpenKeepsContent ==
    ASSUME OneRust, IInv, NEW s \in Savers, Open(s) \/ CreateTemp(s) \/ Write(s)
    PROVE  content' = content
<1>1. /\ dir \in [Names -> Inodes \cup {None}] /\ data \in [Inodes -> Seq(Chunk)]
      /\ Path \in Names
  BY DEF IInv, TypeOK, Names
<1>2. dir[Path] # None => Published(dir[Path])
  BY DEF IInv, PathPublished
<1>3. CASE Write(s)
  <2>1. OwnInode(s) /\ pc[s] # "saved"
    BY <1>3 DEF Write, IInv, Working, Active
  <2>2. ~ Published(fd[s])
    BY <2>1, WorkingIsPrivate
  <2>3. dir' = dir /\ (dir[Path] # None => data'[dir[Path]] = data[dir[Path]])
    BY <1>1, <1>2, <1>3, <2>2 DEF Write
  <2>. QED  BY <2>3, ContentKept
<1>4. CASE Open(s)
  <2>. DEFINE inode == IF dir[Shared] = None THEN s ELSE dir[Shared]
  <2>1. pc[s] = "start" /\ Rust(s)
    BY <1>4 DEF Open, Go
  <2>2. inode = s \/ inode = Left
    BY <2>1, OpensFresh
  <2>3. \A t \in Savers : pc[t] = "saved" => OwnInode(t) /\ fd[t] # inode
    BY <2>1, <2>2, FileSaveAssumption DEF IInv, SavedWhole, OneRust, OwnInode, Rust
  <2>4. ~ Published(inode)
    BY <2>2, <2>3, FileSaveAssumption DEF Published
  <2>5. /\ dir' = [dir EXCEPT ![Shared] = inode]
        /\ data' = [data EXCEPT ![inode] = <<>>]
    BY <1>4 DEF Open
  <2>. HIDE DEF inode
  <2>6. dir'[Path] = dir[Path] /\ (dir[Path] # None => data'[dir[Path]] = data[dir[Path]])
    BY <1>1, <1>2, <2>4, <2>5, FileSaveAssumption
  <2>. QED  BY <2>6, ContentKept
<1>5. CASE CreateTemp(s)
  <2>1. s # Path /\ dir' = [dir EXCEPT ![s] = s] /\ data' = data
    BY <1>5, FileSaveAssumption DEF CreateTemp
  <2>2. dir'[Path] = dir[Path]
    BY <1>1, <2>1
  <2>. QED  BY <2>1, <2>2, ContentKept
<1>. QED  BY <1>3, <1>4, <1>5

LEMMA RenameCommits ==
    ASSUME IInv, NEW s \in Savers, Rename(s)
    PROVE  content' = s
<1>1. OwnInode(s) /\ dir[Temp(s)] = fd[s] /\ data[fd[s]] = Whole(s)
  BY DEF Rename, Go, IInv, Working, Active, Filled, Whole
<1>2. /\ dir \in [Names -> Inodes \cup {None}]
      /\ Path \in Names /\ Temp(s) \in Names /\ Temp(s) # Path
  BY TempIsName DEF IInv, TypeOK, Names
<1>3. dir'[Path] = fd[s] /\ dir'[Path] # None /\ data' = data
  BY <1>1, <1>2 DEF Rename
<1>. QED  BY <1>1, <1>3, ContentBecomes

LEMMA StatusMoves ==
    ASSUME TypeOK, NEW s \in Savers, NEW to, pc[s] \notin Ended,
           pc' = [pc EXCEPT ![s] = to]
    PROVE  /\ status[s] = "saving"
           /\ to \notin Ended => status' = status
           /\ to \in Ended => status' = [status EXCEPT ![s] = to]
<1>1. /\ \A t \in Savers \ {s} : pc'[t] = pc[t]
      /\ pc'[s] = to
  BY DEF TypeOK
<1>2. status[s] = "saving"
  BY DEF status
<1>3. \A t \in Savers \ {s} : status'[t] = status[t]
  BY <1>1 DEF status
<1>4. status'[s] = IF to \in Ended THEN to ELSE "saving"
  BY <1>1 DEF status, Ended
<1>5. /\ status = [t \in Savers |-> status[t]]
      /\ status' = [t \in Savers |-> status'[t]]
  BY DEF status
<1>. HIDE DEF status
<1>6. to \notin Ended => status' = status
  BY <1>2, <1>3, <1>4, <1>5
<1>7. to \in Ended => status' = [status EXCEPT ![s] = to]
  BY <1>2, <1>3, <1>4, <1>5
<1>. QED  BY <1>2, <1>6, <1>7

LEMMA StepRefines ==
    ASSUME OneRust, IInv, [Next]_vars
    PROVE  [Atomic!Next]_<<content, status>>
<1>0. TypeOK
  BY DEF IInv
<1>1. ASSUME NEW s \in Savers, Step(s)
      PROVE  Atomic!Next \/ UNCHANGED <<content, status>>
  <2>1. CASE Open(s) \/ CreateTemp(s)
    <3>1. content' = content
      BY <2>1, OpenKeepsContent
    <3>2. PICK to \in {"write", "stat"} : pc' = [pc EXCEPT ![s] = to]
      BY <2>1 DEF Open, CreateTemp, Go
    <3>3. status' = status
      BY <1>0, <2>1, <3>2, StatusMoves DEF Open, CreateTemp, Go, Ended
    <3>. QED  BY <3>1, <3>3
  <2>2. CASE Write(s)
    <3>1. status' = status
      BY <2>2 DEF Write, status
    <3>. QED  BY <2>2, <3>1, OpenKeepsContent
  <2>3. CASE WriteEnds(s) \/ Stat(s) \/ StatIgnored(s) \/ Chmod(s) \/ ChmodIgnored(s)
    <3>1. dir' = dir /\ data' = data
      BY <2>3 DEF WriteEnds, Stat, StatIgnored, Chmod, ChmodIgnored, files
    <3>2. content' = content
      BY <3>1, ContentKept
    <3>3. PICK to \in {"write", "stat", "chmod", "rename"} : pc' = [pc EXCEPT ![s] = to]
      BY <2>3 DEF WriteEnds, Stat, StatIgnored, Chmod, ChmodIgnored, Go, AfterChmod
    <3>4. pc[s] \notin Ended
      BY <2>3 DEF WriteEnds, Stat, StatIgnored, Chmod, ChmodIgnored, Go, Ended
    <3>5. status' = status
      BY <1>0, <3>3, <3>4, StatusMoves DEF Ended
    <3>. QED  BY <3>2, <3>5
  <2>4. CASE Rename(s)
    <3>1. content' = s
      BY <2>4, RenameCommits
    <3>2. pc[s] \notin Ended /\ pc' = [pc EXCEPT ![s] = "saved"]
      BY <2>4 DEF Rename, Go, Ended
    <3>3. status[s] = "saving" /\ status' = [status EXCEPT ![s] = "saved"]
      BY <1>0, <3>2, StatusMoves DEF Ended
    <3>. QED  BY <3>1, <3>3 DEF Atomic!Next, Atomic!Commit
  <2>5. CASE Fails(s) \/ Crash(s)
    <3>1. dir'[Path] = dir[Path] /\ data' = data
      BY <1>0, <2>5, FileSaveAssumption DEF Fails, Crash, files, TypeOK, Names
    <3>2. content' = content
      BY <3>1, ContentKept
    <3>3. PICK to \in {"failed", "crashed"} : pc' = [pc EXCEPT ![s] = to]
      BY <2>5 DEF Fails, Crash
    <3>4. pc[s] \notin Ended
      BY <2>5 DEF Fails, Crash
    <3>5. status[s] = "saving" /\ status' = [status EXCEPT ![s] = to]
      BY <1>0, <3>3, <3>4, StatusMoves DEF Ended
    <3>. QED  BY <3>2, <3>5 DEF Atomic!Next, Atomic!Abort
  <2>. QED  BY <1>1, <2>1, <2>2, <2>3, <2>4, <2>5 DEF Step
<1>2. ASSUME NEW r \in Readers, ReadOpen(r) \/ Read(r)
      PROVE  UNCHANGED <<content, status>>
  <2>1. dir' = dir /\ data' = data /\ pc' = pc
    BY <1>2 DEF ReadOpen, Read, files, savers
  <2>2. status' = status
    BY <2>1 DEF status
  <2>. QED  BY <2>1, <2>2, ContentKept
<1>3. ASSUME UNCHANGED vars
      PROVE  UNCHANGED <<content, status>>
  <2>1. dir' = dir /\ data' = data /\ pc' = pc
    BY <1>3 DEF vars, files, savers
  <2>2. status' = status
    BY <2>1 DEF status
  <2>. QED  BY <2>1, <2>2, ContentKept
<1>. QED  BY <1>1, <1>2, <1>3 DEF Next

(***************************************************************************)
(* Saving through a temporary file of its own and a rename implements      *)
(* AtomicCassette.                                                         *)
(***************************************************************************)
THEOREM SavingIsAtomic == ASSUME OneRust PROVE Spec => SaveIsAtomic
<1>1. Init => Atomic!Init
  <2>. SUFFICES ASSUME Init PROVE Atomic!Init
    OBVIOUS
  <2>1. status = [s \in Savers |-> "saving"]
    BY DEF Init, status, Ended
  <2>2. dir[Path] = None \/ (dir[Path] = Old /\ data[Old] = Whole(Old))
    BY FileSaveAssumption DEF Init, Names, Inodes
  <2>3. content \in {Old, None}
    <3>1. CASE dir[Path] = None
      BY <3>1 DEF content
    <3>2. CASE dir[Path] = Old /\ data[Old] = Whole(Old)
      BY <3>2, ContentIs, FileSaveAssumption
    <3>. QED  BY <2>2, <3>1, <3>2
  <2>. QED  BY <2>1, <2>3 DEF Atomic!Init
<1>2. IInv /\ [Next]_vars => [Atomic!Next]_<<content, status>>
  BY StepRefines
<1>. QED  BY <1>1, <1>2, FileSaveInvariant, PTL DEF Spec, SaveIsAtomic, Atomic!AtomicSpec

-----------------------------------------------------------------------------
(* Modes and temporary files                                               *)

(* The cassette was private, and no save that ignored an error was renamed *)
(* into place: so is the one there now, and every temporary file before it *)
(* is renamed, other than that of a save that ignored an error.            *)
Widened == \E s \in ignored : pc[s] = "saved"

Private ==
    /\ ~ removed => dir[Path] # None
    /\ given # None => given = "private"
    /\ removed /\ given = None => RustSavers \subseteq ignored
    /\ dir[Path] # None => perm[dir[Path]] = "private"
    /\ \A s \in Savers : seen[s] \in {"private", None}
    /\ \A s \in Savers : Active(s) /\ ~ Rust(s) => perm[fd[s]] = "private"
    /\ \A s \in Savers : Rust(s) /\ pc[s] = "chmod" /\ s \notin ignored => seen[s] = "private"
    /\ \A s \in Savers : Rust(s) /\ pc[s] = "rename" /\ s \notin ignored
                            => perm[fd[s]] = "private"

(* A save that was renamed into place stays so, and what it ignored too.   *)
LEMMA WidenedStays ==
    ASSUME IInv, Widened, NEW s \in Savers, Step(s) PROVE Widened'
<1>1. PICK w \in ignored : pc[w] = "saved"
  BY DEF Widened
<1>2. ignored \subseteq ignored'
  BY DEF Step, Open, CreateTemp, Write, WriteEnds, Stat, StatIgnored, Chmod, ChmodIgnored,
         Rename, Fails, Crash, Go
<1>3. w \in Savers
  BY <1>1, FileSaveAssumption DEF IInv, TypeOK
<1>4. pc[s] \notin Ended /\ \A t \in Savers : t # s => pc'[t] = pc[t]
  <2>1. pc \in [Savers -> {"start", "write", "stat", "chmod", "rename"} \cup Ended]
    BY DEF IInv, TypeOK
  <2>2. CASE Write(s)
    BY <2>2 DEF Write, Ended
  <2>3. CASE ~ Write(s)
    BY <2>1, <2>3 DEF Step, Open, CreateTemp, WriteEnds, Stat, StatIgnored, Chmod, ChmodIgnored,
                      Rename, Fails, Crash, Go, Ended
  <2>. QED  BY <2>2, <2>3
<1>5. w # s /\ pc'[w] = "saved"
  BY <1>1, <1>3, <1>4 DEF Ended
<1>. QED  BY <1>1, <1>2, <1>5 DEF Widened

LEMMA PrivateStep ==
    ASSUME OneRust, IInv, Private, original = "private", NEW s \in Savers, Step(s), ~ Widened'
    PROVE  Private'
<1>. USE DEF before, files
<1>0. /\ dir \in [Names -> Inodes \cup {None}] /\ perm \in [Inodes -> Modes]
      /\ pc \in [Savers -> {"start", "write", "stat", "chmod", "rename"} \cup Ended]
      /\ fd \in [Savers -> Inodes \cup {None}] /\ seen \in [Savers -> Modes \cup {None}]
      /\ Path \in Names /\ Shared \in Names /\ s \in Names /\ s # Path /\ Shared # Path /\ s \in Inodes
      /\ None \notin Modes /\ dir[Path] # None => dir[Path] \in Inodes
  BY FileSaveAssumption DEF IInv, TypeOK, Names, Modes, Inodes
<1>1. \A t \in Savers : Active(t) => OwnInode(t) /\ dir[Temp(t)] = fd[t] /\ fd[t] \in Inodes
  BY OwnIsNotOld DEF IInv, Working
<1>2. CASE Open(s)
  <2>1. /\ pc[s] = "start" /\ Rust(s) /\ pc' = [pc EXCEPT ![s] = "write"] /\ UNCHANGED <<seen, ignored, given, removed>>
        /\ \A t \in Savers : t # s => fd'[t] = fd[t]
        /\ dir'[Path] = dir[Path]
        /\ \A i \in Inodes : i # s => perm'[i] = perm[i]
    BY <1>0, <1>2 DEF Open, Go
  <2>2. dir[Path] # s
    BY <1>0, <2>1 DEF IInv, Unstarted
  <2>3. dir'[Path] # None => perm'[dir'[Path]] = "private"
    BY <1>0, <2>1, <2>2 DEF Private
  <2>4. ASSUME NEW t \in Savers, Active(t)', ~ Rust(t) PROVE perm'[fd'[t]] = "private"
    <3>1. t # s /\ Active(t)
      BY <1>0, <2>1, <2>4 DEF Active
    <3>2. fd[t] = t
      BY <1>1, <2>4, <3>1 DEF OwnInode
    <3>. QED  BY <1>1, <2>1, <2>4, <3>1, <3>2 DEF Private
  <2>5. \A t \in Savers : Rust(t) => t = s
    BY <2>1 DEF OneRust, Rust
  <2>. QED  BY <1>0, <2>1, <2>3, <2>4, <2>5 DEF Private
<1>3. CASE CreateTemp(s)
  <2>1. /\ ~ Rust(s) /\ pc' = [pc EXCEPT ![s] = "stat"] /\ UNCHANGED <<seen, ignored, given, removed>>
        /\ fd' = [fd EXCEPT ![s] = s] /\ dir'[Path] = dir[Path]
        /\ perm' = [perm EXCEPT ![s] = "private"]
    BY <1>0, <1>3 DEF CreateTemp, Go
  <2>2. \A t \in Savers : t # s => (Active(t)' <=> Active(t))
    BY <1>0, <2>1 DEF Active
  <2>3. \A t \in Savers : Active(t)' /\ ~ Rust(t) => perm'[fd'[t]] = "private"
    BY <1>0, <1>1, <2>1, <2>2 DEF Private
  <2>4. \A t \in Savers : Rust(t) /\ pc'[t] = "rename" /\ t \notin ignored
                              => perm'[fd'[t]] = "private"
    BY <1>0, <1>1, <2>1 DEF Private, Active
  <2>. QED  BY <1>0, <2>1, <2>3, <2>4 DEF Private
<1>4. CASE Write(s)
  BY <1>4 DEF Write, Private, Active
<1>5. CASE WriteEnds(s)
  <2>1. /\ pc[s] = "write" /\ pc' = [pc EXCEPT ![s] = IF Rust(s) THEN "stat" ELSE "rename"]
        /\ UNCHANGED <<dir, perm, fd, seen, ignored, given, removed>>
    BY <1>5 DEF WriteEnds, Go
  <2>. QED  BY <1>0, <2>1 DEF Private, Active
<1>6. CASE Stat(s)
  <2>1. /\ pc[s] = "stat" /\ pc' = [pc EXCEPT ![s] = "chmod"]
        /\ UNCHANGED <<dir, perm, fd, ignored, given, removed>>
        /\ seen' = [seen EXCEPT ![s] =
                      IF Rust(s) /\ given # None THEN given
                      ELSE IF dir[Path] # None THEN perm[dir[Path]] ELSE None]
    BY <1>6 DEF Stat, Go
  <2>2. s \notin ignored /\ Rust(s) /\ given = None => dir[Path] # None
    BY DEF Private, Rust
  <2>3. seen'[s] \in {"private", None} /\ (Rust(s) /\ s \notin ignored => seen'[s] = "private")
    BY <1>0, <2>1, <2>2 DEF Private
  <2>. QED  BY <1>0, <2>1, <2>3 DEF Private, Active
<1>7. CASE Chmod(s)
  <2>1. /\ pc[s] = "chmod" /\ pc' = [pc EXCEPT ![s] = AfterChmod(s)]
        /\ UNCHANGED <<dir, fd, seen, ignored, given, removed>>
        /\ perm' = IF seen[s] # None THEN [perm EXCEPT ![ChmodTarget(s)] = seen[s]] ELSE perm
    BY <1>7 DEF Chmod, Go
  <2>2. Active(s) /\ ChmodTarget(s) = fd[s] /\ fd[s] \in Inodes
    <3>1. Active(s)
      BY <2>1 DEF Active
    <3>2. ChmodTarget(s) = fd[s] /\ fd[s] \in Inodes
      BY <1>1, <3>1 DEF ChmodTarget, Temp
    <3>. QED  BY <3>1, <3>2
  <2>3. /\ perm' = IF seen[s] # None THEN [perm EXCEPT ![fd[s]] = "private"] ELSE perm
        /\ Rust(s) /\ s \notin ignored => seen[s] = "private" /\ seen[s] # None
    BY <2>1, <2>2, FileSaveAssumption DEF Private
  <2>4. \A i \in Inodes : perm[i] = "private" => perm'[i] = "private"
    BY <1>0, <2>2, <2>3
  <2>5. \A t \in Savers : Active(t)' => Active(t)
    BY <1>0, <2>1, <2>2 DEF Active
  <2>6. \A t \in Savers : Active(t)' /\ ~ Rust(t) => perm'[fd[t]] = "private"
    BY <1>1, <2>4, <2>5 DEF Private
  <2>7. ASSUME NEW t \in Savers, Rust(t), pc'[t] = "rename", t \notin ignored
        PROVE  perm'[fd[t]] = "private"
    <3>1. CASE t = s
      BY <1>0, <2>2, <2>3, <2>7, <3>1
    <3>2. CASE t # s
      BY <1>0, <1>1, <2>1, <2>4, <2>7, <3>2 DEF Private, Active
    <3>. QED  BY <3>1, <3>2
  <2>8. \A t \in Savers : Rust(t) /\ pc'[t] = "chmod" /\ t \notin ignored => seen[t] = "private"
    BY <1>0, <2>1 DEF Private, AfterChmod
  <2>9. dir[Path] # None => perm'[dir[Path]] = "private"
    BY <1>0, <2>4 DEF Private
  <2>. QED  BY <2>1, <2>6, <2>7, <2>8, <2>9 DEF Private
<1>11. CASE StatIgnored(s) \/ ChmodIgnored(s)
  <2>1. /\ pc[s] \in {"stat", "chmod"} /\ pc' = [pc EXCEPT ![s] = pc'[s]]
        /\ Rust(s) /\ ignored' = ignored \cup {s}
        /\ UNCHANGED <<dir, perm, fd, seen, given, removed>>
    BY <1>0, <1>11 DEF StatIgnored, ChmodIgnored, Go, AfterChmod
  <2>2. \A t \in Savers : ~ Rust(t) => pc'[t] = pc[t]
    BY <1>0, <2>1
  <2>3. \A t \in Savers : t \notin ignored' => t \notin ignored /\ pc'[t] = pc[t]
    BY <1>0, <2>1
  <2>. QED  BY <2>1, <2>2, <2>3 DEF Private, Active
<1>8. CASE Rename(s)
  <2>1. /\ pc[s] = "rename" /\ pc' = [pc EXCEPT ![s] = "saved"] /\ UNCHANGED <<perm, fd, seen, ignored, given, removed>>
        /\ dir[Temp(s)] # None
        /\ dir' = [dir EXCEPT ![Path] = dir[Temp(s)], ![Temp(s)] = None]
    BY <1>8 DEF Rename, Go
  <2>2. Active(s) /\ dir[Temp(s)] = fd[s] /\ Temp(s) # Path
    BY <1>1, <2>1, TempIsName DEF Active
  <2>3. dir'[Path] = fd[s] /\ fd[s] # None
    BY <1>0, <2>1, <2>2
  <2>4. perm[fd[s]] = "private"
    <3>1. s \notin ignored
      BY <1>0, <2>1 DEF Widened
    <3>. QED  BY <2>1, <2>2, <3>1 DEF Private
  <2>. QED  BY <1>0, <2>1, <2>3, <2>4 DEF Private, Active
<1>9. CASE Fails(s)
  <2>1. /\ pc' = [pc EXCEPT ![s] = "failed"] /\ UNCHANGED <<perm, fd, seen, ignored, given, removed>>
        /\ dir'[Path] = dir[Path]
    BY <1>0, <1>9 DEF Fails
  <2>. QED  BY <1>0, <2>1 DEF Private, Active
<1>10. CASE Crash(s)
  BY <1>0, <1>10 DEF Crash, Private, Active
<1>. QED  BY <1>2, <1>3, <1>4, <1>5, <1>6, <1>7, <1>8, <1>9, <1>10, <1>11 DEF Step

LEMMA PrivateInit ==
    ASSUME Init, original = "private" PROVE Private
<1>1. original # None /\ Path \in Names /\ Old \in Inodes /\ Old # None
  BY FileSaveAssumption DEF Names, Inodes
<1>2. dir[Path] = IF ~ removed THEN Old ELSE None
  BY <1>1, FileSaveAssumption DEF Init
<1>3. perm[Old] = "private"
  BY <1>1 DEF Init
<1>4. \A s \in Savers : pc[s] = "start" /\ seen[s] = None
  BY DEF Init
<1>5. /\ given # None => given = "private"
      /\ removed /\ given = None => RustSavers \subseteq ignored
  BY DEF Init
<1>. QED  BY <1>1, <1>2, <1>3, <1>4, <1>5 DEF Private, Active

(***************************************************************************)
(* A cassette that was private is published at the umask only by a Rust    *)
(* save that could not read or set the mode and went on, whoever saves it  *)
(* and wherever a saver stops, also when a caller removed it first.        *)
(***************************************************************************)
THEOREM WidenedOnlyByIgnoring == ASSUME OneRust PROVE Spec => []ModeKept
<1>. DEFINE ModeInv == original = "private" => Widened \/ Private
<1>1. Init => ModeInv
  BY PrivateInit
<1>2. ASSUME IInv, ModeInv, [Next]_vars PROVE ModeInv'
  <2>1. CASE \E s \in Savers : Step(s)
    <3>1. original' = original
      BY <2>1 DEF Step, Open, CreateTemp, Write, WriteEnds, Stat, StatIgnored, Chmod, ChmodIgnored,
                  Rename, Fails, Crash, before
    <3>. QED  BY <1>2, <2>1, <3>1, WidenedStays, PrivateStep
  <2>2. CASE UNCHANGED <<files, savers, before>>
    BY <1>2, <2>2 DEF Widened, Private, files, savers, before, Active
  <2>. QED  BY <1>2, <2>1, <2>2 DEF Next, ReadOpen, Read, vars
<1>3. IInv /\ ModeInv => ModeKept
  BY DEF ModeKept, Private, Widened
<1>. HIDE DEF ModeInv
<1>. QED  BY <1>1, <1>2, <1>3, FileSaveInvariant, PTL DEF Spec

(* The Go package, which ignores no error, keeps a private cassette        *)
(* private, however many goroutines and processes save it.                 *)
THEOREM GoPreservesPermissions ==
    ASSUME RustSavers = {} PROVE Spec => []PermissionsPreserved
<1>1. OneRust
  BY DEF OneRust
<1>2. IInv /\ ModeKept => PermissionsPreserved
  BY DEF IInv, TypeOK, ModeKept, PermissionsPreserved
<1>. QED  BY <1>1, <1>2, FileSaveInvariant, WidenedOnlyByIgnoring, PTL

(* What this needs holds however many savers share the fixed name.         *)
Shapes ==
    /\ dir \in [Names -> Inodes \cup {None}]
    /\ pc \in [Savers -> {"start", "write", "stat", "chmod", "rename"} \cup Ended]

LEMMA ShapesKept ==
    ASSUME Shapes, [Next]_vars PROVE Shapes'
<1>1. ASSUME NEW s \in Savers, Step(s) PROVE Shapes'
  <2>0. s \in Inodes /\ Temp(s) \in Names
    BY TempIsName DEF Inodes
  <2>1. CASE Open(s) \/ CreateTemp(s)
    BY <2>0, <2>1 DEF Shapes, Open, CreateTemp, Go, Inodes
  <2>2. CASE Write(s) \/ WriteEnds(s) \/ Stat(s) \/ StatIgnored(s) \/ Chmod(s) \/ ChmodIgnored(s) \/ Crash(s)
    BY <2>2 DEF Shapes, Write, WriteEnds, Stat, StatIgnored, Chmod, ChmodIgnored, Crash, Go, AfterChmod, Ended, files
  <2>3. CASE Rename(s) \/ Fails(s)
    BY <2>0, <2>3 DEF Shapes, Rename, Fails, Go, Ended
  <2>. QED  BY <1>1, <2>1, <2>2, <2>3 DEF Step
<1>2. ASSUME UNCHANGED <<files, savers>> PROVE Shapes'
  BY <1>2 DEF Shapes, files, savers
<1>. QED  BY <1>1, <1>2 DEF Next, ReadOpen, Read, vars

(* The temporary names of the Go package, once their saver is done.        *)
LEMMA TempsKept ==
    ASSUME Shapes, TempsRemoved, [Next]_vars PROVE TempsRemoved'
<1>0. /\ dir \in [Names -> Inodes \cup {None}] /\ Savers \subseteq Names
      /\ pc \in [Savers -> {"start", "write", "stat", "chmod", "rename"} \cup Ended]
  BY DEF Shapes, Names
<1>1. SUFFICES ASSUME NEW t \in Savers \ RustSavers, pc'[t] \in {"saved", "failed"}
               PROVE  dir'[t] = None
  BY DEF TempsRemoved
<1>2. t # Path /\ t # Shared /\ t \in Names /\ Temp(t) = t
  BY FileSaveAssumption DEF Names, Temp, Rust
<1>3. ASSUME pc'[t] = pc[t], dir'[t] = dir[t] PROVE dir'[t] = None
  BY <1>1, <1>3 DEF TempsRemoved
<1>4. ASSUME UNCHANGED <<dir, pc>> PROVE dir'[t] = None
  BY <1>3, <1>4
<1>5. ASSUME NEW s \in Savers, Step(s) PROVE dir'[t] = None
  <2>1. CASE Open(s) \/ CreateTemp(s)
    <3>1. pc'[s] \in {"write", "stat"} /\ \A u \in Savers \ {s} : pc'[u] = pc[u]
      BY <1>0, <2>1 DEF Open, CreateTemp, Go
    <3>2. t # s
      BY <1>1, <3>1
    <3>3. dir'[t] = dir[t]
      BY <1>0, <1>2, <2>1, <3>2 DEF Open, CreateTemp
    <3>. QED  BY <1>3, <3>1, <3>2, <3>3
  <2>2. CASE Write(s)
    BY <1>4, <2>2 DEF Write
  <2>3. CASE WriteEnds(s) \/ Stat(s) \/ StatIgnored(s) \/ Chmod(s) \/ ChmodIgnored(s) \/ Crash(s)
    <3>1. dir' = dir /\ pc'[s] \notin {"saved", "failed"} /\ \A u \in Savers \ {s} : pc'[u] = pc[u]
      BY <1>0, <2>3 DEF WriteEnds, Stat, StatIgnored, Chmod, ChmodIgnored, Crash, Go, AfterChmod, files
    <3>. QED  BY <1>1, <1>3, <3>1
  <2>4. CASE Rename(s)
    <3>1. /\ dir' = [dir EXCEPT ![Path] = dir[Temp(s)], ![Temp(s)] = None]
          /\ \A u \in Savers \ {s} : pc'[u] = pc[u]
      BY <1>0, <2>4 DEF Rename, Go
    <3>2. CASE t = s
      BY <1>0, <1>2, <3>1, <3>2
    <3>3. CASE t # s
      <4>1. Temp(s) # t
        BY <1>2, <3>3 DEF Temp
      <4>2. dir'[t] = dir[t]
        BY <1>0, <1>2, <3>1, <4>1
      <4>. QED  BY <1>3, <3>1, <3>3, <4>2
    <3>. QED  BY <3>2, <3>3
  <2>5. CASE Fails(s)
    <3>1. CASE t = s
      BY <1>0, <1>1, <1>2, <2>5, <3>1 DEF Fails, Rust
    <3>2. CASE t # s
      <4>1. pc'[t] = pc[t] /\ dir'[t] = dir[t]
        BY <1>0, <1>2, <2>5, <3>2 DEF Fails
      <4>. QED  BY <1>3, <4>1
    <3>. QED  BY <3>1, <3>2
  <2>. QED  BY <1>5, <2>1, <2>2, <2>3, <2>4, <2>5 DEF Step
<1>6. ASSUME NEW r \in Readers, ReadOpen(r) \/ Read(r) PROVE dir'[t] = None
  BY <1>4, <1>6 DEF ReadOpen, Read, files, savers
<1>7. ASSUME UNCHANGED vars PROVE dir'[t] = None
  BY <1>4, <1>7 DEF vars, files, savers
<1>. QED  BY <1>5, <1>6, <1>7 DEF Next

(***************************************************************************)
(* A Save of the Go package that returns leaves no temporary file behind,  *)
(* also when savers of the Rust core share theirs.                         *)
(***************************************************************************)
THEOREM NoTempsLeft == Spec => []TempsRemoved
<1>1. Init => Shapes /\ TempsRemoved
  BY DEF Init, Shapes, TempsRemoved, Inodes
<1>2. Shapes /\ TempsRemoved /\ [Next]_vars => (Shapes /\ TempsRemoved)'
  BY ShapesKept, TempsKept
<1>. QED  BY <1>1, <1>2, PTL DEF Spec

-----------------------------------------------------------------------------
(***************************************************************************)
(* The scanner for binary scalars.                                         *)
(***************************************************************************)
(* A set of numbers has a smallest.                                        *)
LEMMA MinIsLeast ==
    ASSUME NEW T, T \subseteq Nat, T # {}
    PROVE  /\ Min(T) \in T
           /\ \A y \in T : Min(T) <= y
<1>1. \E x \in T : \A y \in T : ~ (<<y, x>> \in OpToRel(<, Nat))
  BY NatLessThanWellFounded, WFMin
<1>2. \E x \in T : \A y \in T : x <= y
  <2>1. PICK x \in T : \A y \in T : ~ (<<y, x>> \in OpToRel(<, Nat))
    BY <1>1
  <2>2. ASSUME NEW y \in T PROVE x <= y
    <3>1. ~ (y < x)
      BY <2>1 DEF OpToRel
    <3>. QED  BY <3>1
  <2>. QED  BY <2>2
<1>. QED  BY <1>2 DEF Min

(* Induction, as a fact about a set of numbers.                            *)
LEMMA Climb ==
    ASSUME NEW T, 0 \in T, \A n \in Nat : n \in T => n + 1 \in T
    PROVE  Nat \subseteq T
<1>. DEFINE Missed == Nat \ T
<1>1. SUFFICES ASSUME Missed # {} PROVE FALSE
  BY <1>1
<1>2. PICK least \in Missed : \A y \in Missed : least <= y
  <2>1. Missed \subseteq Nat
    OBVIOUS
  <2>. HIDE DEF Missed
  <2>. QED  BY <1>1, <2>1, MinIsLeast
<1>3. least # 0
  OBVIOUS
<1>4. least - 1 \in Nat /\ least - 1 \in T
  BY <1>2, <1>3
<1>5. (least - 1) + 1 \in T
  BY <1>4
<1>. QED  BY <1>5

(* A bounded set of numbers has a largest.                                 *)
LEMMA MaxIsGreatest ==
    ASSUME NEW n \in Nat, NEW S, S \subseteq 0..n, S # {}
    PROVE  /\ Max(S) \in S
           /\ \A y \in S : y <= Max(S)
<1>. DEFINE gaps == {n - x : x \in S}
<1>1. gaps \subseteq Nat /\ gaps # {}
  <2>1. ASSUME NEW x \in S PROVE n - x \in Nat
    <3>1. x \in 0..n
      OBVIOUS
    <3>. QED  BY <3>1
  <2>. QED  BY <2>1
<1>2. PICK gap \in gaps : \A y \in gaps : gap <= y
  <2>. HIDE DEF gaps
  <2>. QED  BY <1>1, MinIsLeast
<1>3. PICK x \in S : gap = n - x
  BY <1>2
<1>4. ASSUME NEW y \in S PROVE x >= y
  <2>1. n - x <= n - y
    BY <1>2, <1>3
  <2>2. x \in 0..n /\ y \in 0..n
    OBVIOUS
  <2>. QED  BY <2>1, <2>2
<1>. QED  BY <1>4 DEF Max

-----------------------------------------------------------------------------
(* Texts joined one by one                                                 *)

(* Two texts, one after the other.                                         *)
LEMMA TwoTexts ==
    ASSUME NEW T, NEW a \in Seq(T), NEW b \in Seq(T)
    PROVE  /\ a \o b \in Seq(T) /\ Len(a \o b) = Len(a) + Len(b)
           /\ \A p \in 1..Len(a) : (a \o b)[p] = a[p]
           /\ \A p \in 1..Len(b) : (a \o b)[Len(a) + p] = b[p]
<1>1. a \o b \in Seq(T) /\ Len(a \o b) = Len(a) + Len(b)
  OBVIOUS
<1>2. \A p \in 1..Len(a) : (a \o b)[p] = a[p]
  OBVIOUS
<1>3. \A p \in 1..Len(b) : (a \o b)[Len(a) + p] = b[p]
  OBVIOUS
<1>. QED  BY <1>1, <1>2, <1>3

(* f joins the first n texts of s one by one.                              *)
Joins(s, f, n) == f = [k \in 0..n |-> IF k = 0 THEN <<>> ELSE f[k - 1] \o s[k]]
FirstOf(s, n) == [j \in 1..n |-> s[j]]

(* There is such a function, as far as one likes.                          *)
LEMMA JoinsExist ==
    ASSUME NEW s, NEW m \in Nat
    PROVE  \E f : Joins(s, f, m)
<1>. DEFINE T == {n \in Nat : \E f : Joins(s, f, n)}
<1>1. 0 \in T
  <2>1. Joins(s, [k \in 0..0 |-> <<>>], 0)
    BY DEF Joins
  <2>. QED  BY <2>1
<1>2. ASSUME NEW n \in Nat, n \in T PROVE n + 1 \in T
  <2>1. PICK f : Joins(s, f, n)
    BY <1>2
  <2>. DEFINE g == [k \in 0..(n + 1) |-> IF k <= n THEN f[k] ELSE f[n] \o s[n + 1]]
  <2>2. \A k \in 0..n : f[k] = IF k = 0 THEN <<>> ELSE f[k - 1] \o s[k]
    BY <2>1 DEF Joins
  <2>3. ASSUME NEW k \in 0..(n + 1)
        PROVE  g[k] = IF k = 0 THEN <<>> ELSE g[k - 1] \o s[k]
    BY <2>2
  <2>4. g = [k \in 0..(n + 1) |-> g[k]]
    OBVIOUS
  <2>. HIDE DEF g
  <2>5. Joins(s, g, n + 1)
    BY <2>3, <2>4 DEF Joins
  <2>. QED  BY <2>5
<1>3. Nat \subseteq T
  <2>. HIDE DEF T
  <2>. QED  BY <1>1, <1>2, Climb
<1>. QED  BY <1>3

(* FlattenSeq is the last of the joined texts.                             *)
LEMMA FlattenIs ==
    ASSUME NEW s, NEW n \in Nat, NEW f, Joins(s, f, n), NEW m \in 0..n,
           \A k \in 1..n : <<>> \o s[k] = s[k]
    PROVE  FlattenSeq(FirstOf(s, m)) = f[m]
<1>1. \A k \in 0..n : f[k] = IF k = 0 THEN <<>> ELSE f[k - 1] \o s[k]
  BY DEF Joins
<1>2. Len(FirstOf(s, m)) = m /\ \A k \in 1..m : FirstOf(s, m)[k] = s[k]
  BY DEF FirstOf
<1>5. f[0] = <<>> /\ (\A k \in 1..m : f[k] = f[k - 1] \o s[k]) /\ (m >= 1 => f[1] = s[1])
  <2>1. f[0] = <<>>
    BY <1>1
  <2>2. ASSUME NEW k \in 1..m PROVE f[k] = f[k - 1] \o s[k]
    <3>1. k \in 0..n /\ k # 0
      OBVIOUS
    <3>. QED  BY <1>1, <3>1
  <2>3. ASSUME m >= 1 PROVE f[1] = s[1]
    <3>1. 1 \in 1..m /\ 1 \in 1..n /\ 1 - 1 = 0
      BY <2>3
    <3>2. f[1] = f[1 - 1] \o s[1]
      BY <2>2, <3>1
    <3>3. f[1] = f[0] \o s[1]
      BY <3>1, <3>2
    <3>4. f[1] = <<>> \o s[1]
      BY <2>1, <3>3
    <3>. QED  BY <3>1, <3>4
  <2>. QED  BY <2>1, <2>2, <2>3
<1>3. CASE m = 0
  BY <1>1, <1>2, <1>3 DEF FlattenSeq, FirstOf
<1>4. CASE m # 0
  <2>. DEFINE G(h) == h = [i \in 1..m |-> IF i = 1 THEN FirstOf(s, m)[i] ELSE h[i - 1] \o FirstOf(s, m)[i]]
              h == CHOOSE h : G(h)
  <2>1. \E hh : G(hh)
    <3>. DEFINE e == [i \in 1..m |-> f[i]]
    <3>1. ASSUME NEW i \in 1..m
          PROVE  e[i] = IF i = 1 THEN FirstOf(s, m)[i] ELSE e[i - 1] \o FirstOf(s, m)[i]
      <4>1. CASE i = 1
        BY <1>2, <1>5, <4>1
      <4>2. CASE i # 1
        <5>1. i - 1 \in 1..m
          BY <4>2
        <5>. QED  BY <1>2, <1>5, <4>2, <5>1
      <4>. QED  BY <4>1, <4>2
    <3>2. e = [i \in 1..m |-> e[i]]
      OBVIOUS
    <3>. HIDE DEF e
    <3>3. G(e)
      BY <3>1, <3>2
    <3>. QED  BY <3>3
  <2>2. G(h)
    <3>. HIDE DEF G
    <3>. QED  BY <2>1
  <2>3. \A i \in 1..m : h[i] = IF i = 1 THEN s[i] ELSE h[i - 1] \o s[i]
    <3>. HIDE DEF h
    <3>. QED  BY <2>2, <1>2
  <2>4. FlattenSeq(FirstOf(s, m)) = h[m]
    BY <1>2, <1>4 DEF FlattenSeq
  <2>. HIDE DEF h
  <2>. DEFINE T == {i \in Nat : i + 1 \in 1..m => h[i + 1] = f[i + 1]}
  <2>5. 0 \in T
    BY <1>5, <2>3
  <2>6. ASSUME NEW i \in Nat, i \in T PROVE i + 1 \in T
    <3>1. SUFFICES ASSUME (i + 1) + 1 \in 1..m PROVE h[(i + 1) + 1] = f[(i + 1) + 1]
      OBVIOUS
    <3>2. i + 1 \in 1..m /\ (i + 1) + 1 # 1 /\ ((i + 1) + 1) - 1 = i + 1
      BY <3>1
    <3>3. h[i + 1] = f[i + 1]
      BY <2>6, <3>2
    <3>4. f[(i + 1) + 1] = f[((i + 1) + 1) - 1] \o s[(i + 1) + 1]
      BY <1>5, <3>1
    <3>5. h[(i + 1) + 1] = h[((i + 1) + 1) - 1] \o s[(i + 1) + 1]
      BY <2>3, <3>1, <3>2
    <3>6. f[((i + 1) + 1) - 1] = h[((i + 1) + 1) - 1]
      BY <3>2, <3>3
    <3>. QED  BY <3>4, <3>5, <3>6
  <2>7. Nat \subseteq T
    <3>. HIDE DEF T
    <3>. QED  BY <2>5, <2>6, Climb
  <2>8. m - 1 \in T
    BY <2>7, <1>4
  <2>. QED  BY <2>4, <2>8, <1>4
<1>. QED  BY <1>3, <1>4

(* One more text is appended.                                              *)
LEMMA FlattenGrows ==
    ASSUME NEW T, NEW s, NEW n \in Nat, \A k \in 1..n : s[k] \in Seq(T)
    PROVE  /\ FlattenSeq(FirstOf(s, 0)) = <<>>
           /\ \A k \in 1..n :
                FlattenSeq(FirstOf(s, k)) = FlattenSeq(FirstOf(s, k - 1)) \o s[k]
           /\ \A k \in 0..n : FlattenSeq(FirstOf(s, k)) \in Seq(T)
<1>1. PICK f : Joins(s, f, n)
  BY JoinsExist
<1>2. \A m \in 0..n : FlattenSeq(FirstOf(s, m)) = f[m]
  <2>1. \A k \in 1..n : <<>> \o s[k] = s[k]
    OBVIOUS
  <2>. QED  BY <1>1, <2>1, FlattenIs
<1>3. \A k \in 0..n : f[k] = IF k = 0 THEN <<>> ELSE f[k - 1] \o s[k]
  BY <1>1 DEF Joins
<1>5. f[0] = <<>> /\ \A k \in 1..n : f[k] = f[k - 1] \o s[k]
  <2>1. ASSUME NEW k \in 1..n PROVE f[k] = f[k - 1] \o s[k]
    <3>1. k \in 0..n /\ k # 0
      OBVIOUS
    <3>. QED  BY <1>3, <3>1
  <2>2. f[0] = <<>>
    BY <1>3
  <2>. QED  BY <2>1, <2>2
<1>. DEFINE U == {k \in Nat : k <= n => f[k] \in Seq(T)}
<1>4. Nat \subseteq U
  <2>1. 0 \in U
    <3>1. <<>> \in Seq(T)
      OBVIOUS
    <3>2. f[0] \in Seq(T)
      BY <1>5, <3>1
    <3>. QED  BY <3>2
  <2>2. ASSUME NEW k \in Nat, k \in U PROVE k + 1 \in U
    <3>1. SUFFICES ASSUME k + 1 <= n PROVE f[k + 1] \in Seq(T)
      OBVIOUS
    <3>2. k + 1 \in 1..n /\ (k + 1) - 1 = k
      BY <3>1
    <3>3. f[k] \in Seq(T) /\ s[k + 1] \in Seq(T)
      BY <2>2, <3>1, <3>2
    <3>4. f[k + 1] = f[(k + 1) - 1] \o s[k + 1]
      BY <1>5, <3>2
    <3>5. f[k + 1] = f[k] \o s[k + 1]
      BY <3>2, <3>4
    <3>. QED  BY <3>3, <3>5
  <2>. HIDE DEF U
  <2>. QED  BY <2>1, <2>2, Climb
<1>6. \A k \in 0..n : f[k] \in Seq(T)
  BY <1>4
<1>7. ASSUME NEW k \in 1..n
      PROVE  FlattenSeq(FirstOf(s, k)) = FlattenSeq(FirstOf(s, k - 1)) \o s[k]
  <2>1. k \in 0..n /\ k - 1 \in 0..n
    OBVIOUS
  <2>. QED  BY <1>2, <1>5, <2>1
<1>8. FlattenSeq(FirstOf(s, 0)) = <<>>
  BY <1>2, <1>5
<1>. QED  BY <1>2, <1>6, <1>7, <1>8

(* A text stays where it is when others follow it.                         *)
LEMMA FlattenKeeps ==
    ASSUME NEW T, NEW s, NEW n \in Nat, \A k \in 1..n : s[k] \in Seq(T),
           NEW k \in 0..n
    PROVE  LET whole == FlattenSeq(FirstOf(s, n))
               part == FlattenSeq(FirstOf(s, k))
           IN  Len(part) <= Len(whole) /\ \A p \in 1..Len(part) : whole[p] = part[p]
<1>. DEFINE F(m) == FlattenSeq(FirstOf(s, m))
            U == {m \in Nat : k + m <= n =>
                    Len(F(k)) <= Len(F(k + m)) /\ \A p \in 1..Len(F(k)) : F(k + m)[p] = F(k)[p]}
<1>1. \A m \in 1..n : F(m) = F(m - 1) \o s[m]
  BY FlattenGrows
<1>2. \A m \in 0..n : F(m) \in Seq(T)
  BY FlattenGrows
<1>. HIDE DEF F
<1>3. 0 \in U
  BY <1>2
<1>4. ASSUME NEW m \in Nat, m \in U PROVE m + 1 \in U
  <2>1. SUFFICES ASSUME k + (m + 1) <= n
                 PROVE  /\ Len(F(k)) <= Len(F(k + (m + 1)))
                        /\ \A p \in 1..Len(F(k)) : F(k + (m + 1))[p] = F(k)[p]
    OBVIOUS
  <2>2. F(k + (m + 1)) = F(k + m) \o s[k + (m + 1)]
    <3>1. k + (m + 1) \in 1..n /\ (k + (m + 1)) - 1 = k + m
      BY <2>1
    <3>. QED  BY <1>1, <3>1
  <2>3. F(k + m) \in Seq(T) /\ F(k) \in Seq(T) /\ s[k + (m + 1)] \in Seq(T)
    BY <1>2, <2>1
  <2>4. Len(F(k)) <= Len(F(k + m)) /\ \A p \in 1..Len(F(k)) : F(k + m)[p] = F(k)[p]
    BY <1>4, <2>1
  <2>5. Len(F(k + (m + 1))) = Len(F(k + m)) + Len(s[k + (m + 1)])
    <3>1. \A a, b \in Seq(T) : Len(a \o b) = Len(a) + Len(b)
      OBVIOUS
    <3>. QED  BY <2>2, <2>3, <3>1
  <2>6. \A p \in 1..Len(F(k + m)) : F(k + (m + 1))[p] = F(k + m)[p]
    BY <2>2, <2>3
  <2>7. Len(F(k)) \in Nat /\ Len(F(k + m)) \in Nat /\ Len(s[k + (m + 1)]) \in Nat
    BY <2>3
  <2>8. \A p \in 1..Len(F(k)) : p \in 1..Len(F(k + m))
    BY <2>4, <2>7
  <2>9. Len(F(k)) <= Len(F(k + (m + 1)))
    <3>1. \A a, b, c \in Nat : a <= b => a <= b + c
      OBVIOUS
    <3>2. Len(F(k)) <= Len(F(k + m))
      BY <2>4
    <3>. HIDE DEF U
    <3>. QED  BY <2>5, <2>7, <3>1, <3>2
  <2>. QED  BY <2>4, <2>6, <2>8, <2>9
<1>5. Nat \subseteq U
  <2>. HIDE DEF U
  <2>. QED  BY <1>3, <1>4, Climb
<1>6. n - k \in U /\ k + (n - k) = n
  <2>1. n - k \in Nat /\ k + (n - k) = n
    OBVIOUS
  <2>. QED  BY <1>5, <2>1
<1>. QED  BY <1>6 DEF F

(* What a part of a sequence is, and when another sequence is that part.   *)
LEMMA SubSeqIs ==
    ASSUME NEW T, NEW s \in Seq(T), NEW n \in 0..Len(s), NEW m \in 1..(n + 1)
    PROVE  /\ SubSeq(s, m, n) \in Seq(T) /\ Len(SubSeq(s, m, n)) = (n - m) + 1
           /\ \A i \in 1..((n - m) + 1) : SubSeq(s, m, n)[i] = s[(m + i) - 1]
           /\ \A t \in Seq(T) :
                Len(t) = (n - m) + 1 /\ (\A i \in 1..Len(t) : t[i] = s[(m + i) - 1])
                  => SubSeq(s, m, n) = t
<1>1. SubSeq(s, m, n) \in Seq(T)
  OBVIOUS
<1>2. Len(SubSeq(s, m, n)) = (n - m) + 1
  OBVIOUS
<1>3. \A i \in 1..((n - m) + 1) : SubSeq(s, m, n)[i] = s[(m + i) - 1]
  OBVIOUS
<1>4. ASSUME NEW t \in Seq(T), Len(t) = (n - m) + 1, \A i \in 1..Len(t) : t[i] = s[(m + i) - 1]
      PROVE  SubSeq(s, m, n) = t
  <2>1. \A a, b \in Seq(T) : Len(a) = Len(b) /\ (\A i \in 1..Len(a) : a[i] = b[i]) => a = b
    OBVIOUS
  <2>. QED  BY <1>1, <1>2, <1>3, <1>4, <2>1
<1>. QED  BY <1>1, <1>2, <1>3, <1>4

(* Copying one element moves it from what is left to what is done.         *)
LEMMA CopyOne ==
    ASSUME NEW T, NEW s \in Seq(T), NEW o \in Seq(T), NEW n \in 1..Len(s), NEW p \in 1..n
    PROVE  Append(o, s[p]) \o SubSeq(s, p + 1, n) = o \o SubSeq(s, p, n)
<1>. DEFINE a == SubSeq(s, p + 1, n)
            b == SubSeq(s, p, n)
<1>1. /\ a \in Seq(T) /\ Len(a) = n - p
      /\ \A i \in 1..(n - p) : a[i] = s[p + i]
  <2>1. p + 1 \in 1..(n + 1) /\ n \in 0..Len(s) /\ (n - (p + 1)) + 1 = n - p
    OBVIOUS
  <2>2. a \in Seq(T) /\ Len(a) = (n - (p + 1)) + 1
    BY <2>1, SubSeqIs
  <2>3. \A i \in 1..((n - (p + 1)) + 1) : a[i] = s[((p + 1) + i) - 1]
    BY <2>1, SubSeqIs
  <2>4. \A i \in 1..(n - p) : ((p + 1) + i) - 1 = p + i
    OBVIOUS
  <2>. QED  BY <2>1, <2>2, <2>3, <2>4
<1>2. /\ b \in Seq(T) /\ Len(b) = (n - p) + 1
      /\ \A i \in 1..((n - p) + 1) : b[i] = s[(p + i) - 1]
  <2>1. p \in 1..(n + 1) /\ n \in 0..Len(s)
    OBVIOUS
  <2>. QED  BY <2>1, SubSeqIs
<1>. HIDE DEF a, b
<1>3. s[p] \in T /\ Len(o) \in Nat
  OBVIOUS
<1>. DEFINE x == Append(o, s[p])
<1>4. /\ x \in Seq(T) /\ Len(x) = Len(o) + 1 /\ x[Len(o) + 1] = s[p]
      /\ \A i \in 1..Len(o) : x[i] = o[i]
  BY <1>3
<1>. HIDE DEF x
<1>5. x \o a \in Seq(T) /\ Len(x \o a) = (Len(o) + 1) + (n - p)
  <2>1. x \o a \in Seq(T) /\ Len(x \o a) = Len(x) + Len(a)
    BY <1>1, <1>4, TwoTexts
  <2>. QED  BY <1>1, <1>4, <2>1
<1>6. o \o b \in Seq(T) /\ Len(o \o b) = Len(o) + ((n - p) + 1)
  <2>1. o \o b \in Seq(T) /\ Len(o \o b) = Len(o) + Len(b)
    BY <1>2, TwoTexts
  <2>. QED  BY <1>2, <2>1
<1>7. ASSUME NEW i \in 1..(Len(o) + ((n - p) + 1)) PROVE (x \o a)[i] = (o \o b)[i]
  <2>1. CASE i \in 1..Len(o)
    <3>1. (o \o b)[i] = o[i]
      BY <1>2, <2>1, TwoTexts
    <3>2. i \in 1..Len(x)
      BY <1>3, <1>4, <2>1
    <3>3. (x \o a)[i] = x[i]
      BY <1>1, <1>4, <3>2, TwoTexts
    <3>. QED  BY <1>4, <2>1, <3>1, <3>3
  <2>2. CASE i = Len(o) + 1
    <3>1. 1 \in 1..Len(b) /\ (p + 1) - 1 = p
      BY <1>2
    <3>2. (o \o b)[Len(o) + 1] = b[1]
      BY <1>2, <3>1, TwoTexts
    <3>3. b[1] = s[p]
      BY <1>2, <3>1
    <3>4. i \in 1..Len(x)
      BY <1>3, <1>4, <2>2
    <3>5. (x \o a)[i] = x[i]
      BY <1>1, <1>4, <3>4, TwoTexts
    <3>. QED  BY <1>4, <2>2, <3>2, <3>3, <3>5
  <2>3. CASE i > Len(o) + 1
    <3>. DEFINE j == i - (Len(o) + 1)
    <3>1. /\ j \in 1..(n - p) /\ j + 1 \in 1..((n - p) + 1)
          /\ i = Len(x) + j /\ i = Len(o) + (j + 1) /\ (p + (j + 1)) - 1 = p + j
      BY <1>3, <1>4, <2>3
    <3>. HIDE DEF j
    <3>2. (x \o a)[Len(x) + j] = a[j]
      BY <1>1, <1>4, <3>1, TwoTexts
    <3>3. (o \o b)[Len(o) + (j + 1)] = b[j + 1]
      <4>1. j + 1 \in 1..Len(b)
        BY <1>2, <3>1
      <4>2. \A q \in 1..Len(b) : (o \o b)[Len(o) + q] = b[q]
        BY <1>2, TwoTexts
      <4>. QED  BY <4>1, <4>2
    <3>4. a[j] = s[p + j]
      BY <1>1, <3>1
    <3>5. b[j + 1] = s[(p + (j + 1)) - 1]
      BY <1>2, <3>1
    <3>6. b[j + 1] = s[p + j]
      BY <3>1, <3>5
    <3>. QED  BY <3>1, <3>2, <3>3, <3>4, <3>6
  <2>4. i \in 1..Len(o) \/ i = Len(o) + 1 \/ i > Len(o) + 1
    BY <1>3
  <2>. QED  BY <2>1, <2>2, <2>3, <2>4
<1>8. (Len(o) + 1) + (n - p) = Len(o) + ((n - p) + 1)
  BY <1>3
<1>9. \A u, v \in Seq(T) : Len(u) = Len(v) /\ (\A i \in 1..Len(v) : u[i] = v[i]) => u = v
  OBVIOUS
<1>10. x \o a = o \o b
  BY <1>5, <1>6, <1>7, <1>8, <1>9
<1>. QED  BY <1>10 DEF a, b, x

-----------------------------------------------------------------------------
(* What is said                                                            *)

(* f collects what the first n of l say.                                   *)
Sayings(l, f, n) ==
    f = [k \in 0..n |-> IF k = 0 THEN <<>>
                        ELSE IF l[k] = "blank" THEN f[k - 1] ELSE Append(f[k - 1], l[k])]

(* There is such a function, too.                                          *)
LEMMA SayingsExist ==
    ASSUME NEW l, NEW m \in Nat
    PROVE  \E f : Sayings(l, f, m)
<1>. DEFINE T == {n \in Nat : \E f : Sayings(l, f, n)}
<1>1. 0 \in T
  <2>1. Sayings(l, [k \in 0..0 |-> <<>>], 0)
    BY DEF Sayings
  <2>. QED  BY <2>1
<1>2. ASSUME NEW n \in Nat, n \in T PROVE n + 1 \in T
  <2>1. PICK f : Sayings(l, f, n)
    BY <1>2
  <2>. DEFINE g == [k \in 0..(n + 1) |-> IF k <= n THEN f[k]
                      ELSE IF l[n + 1] = "blank" THEN f[n] ELSE Append(f[n], l[n + 1])]
  <2>2. \A k \in 0..n :
          f[k] = IF k = 0 THEN <<>> ELSE IF l[k] = "blank" THEN f[k - 1] ELSE Append(f[k - 1], l[k])
    BY <2>1 DEF Sayings
  <2>3. ASSUME NEW k \in 0..(n + 1)
        PROVE  g[k] = IF k = 0 THEN <<>>
                      ELSE IF l[k] = "blank" THEN g[k - 1] ELSE Append(g[k - 1], l[k])
    BY <2>2
  <2>4. g = [k \in 0..(n + 1) |-> g[k]]
    OBVIOUS
  <2>. HIDE DEF g
  <2>5. Sayings(l, g, n + 1)
    BY <2>3, <2>4 DEF Sayings
  <2>. QED  BY <2>5
<1>3. Nat \subseteq T
  <2>. HIDE DEF T
  <2>. QED  BY <1>1, <1>2, Climb
<1>. QED  BY <1>3

(* Two functions of this recursion agree as far as both go.                *)
LEMMA SayingsAgree ==
    ASSUME NEW l, NEW n \in Nat, NEW m \in 0..n, NEW f, NEW h,
           Sayings(l, f, n), Sayings(l, h, m)
    PROVE  \A k \in 0..m : h[k] = f[k]
<1>1. \A k \in 0..n :
        f[k] = IF k = 0 THEN <<>> ELSE IF l[k] = "blank" THEN f[k - 1] ELSE Append(f[k - 1], l[k])
  BY DEF Sayings
<1>2. \A k \in 0..m :
        h[k] = IF k = 0 THEN <<>> ELSE IF l[k] = "blank" THEN h[k - 1] ELSE Append(h[k - 1], l[k])
  BY DEF Sayings
<1>. DEFINE T == {k \in Nat : k <= m => h[k] = f[k]}
<1>3. 0 \in T
  <2>1. f[0] = <<>>
    BY <1>1
  <2>2. h[0] = <<>>
    BY <1>2
  <2>. QED  BY <2>1, <2>2
<1>4. ASSUME NEW k \in Nat, k \in T PROVE k + 1 \in T
  <2>1. SUFFICES ASSUME k + 1 <= m PROVE h[k + 1] = f[k + 1]
    OBVIOUS
  <2>2. k + 1 \in 0..m /\ k + 1 \in 0..n /\ k + 1 # 0 /\ (k + 1) - 1 = k
    BY <2>1
  <2>3. h[k] = f[k]
    BY <1>4, <2>1
  <2>4. f[k + 1] = IF l[k + 1] = "blank" THEN f[(k + 1) - 1] ELSE Append(f[(k + 1) - 1], l[k + 1])
    BY <1>1, <2>2
  <2>5. h[k + 1] = IF l[k + 1] = "blank" THEN h[(k + 1) - 1] ELSE Append(h[(k + 1) - 1], l[k + 1])
    BY <1>2, <2>2
  <2>. QED  BY <2>2, <2>3, <2>4, <2>5
<1>5. Nat \subseteq T
  <2>. HIDE DEF T
  <2>. QED  BY <1>3, <1>4, Climb
<1>. QED  BY <1>5

(* Said is the last value of it.                                           *)
LEMMA SaidIs ==
    ASSUME NEW l, NEW n \in Nat, NEW f, Sayings(l, f, n), NEW m \in 0..n
    PROVE  Said(FirstOf(l, m)) = f[m]
<1>1. Len(FirstOf(l, m)) = m /\ \A k \in 1..m : FirstOf(l, m)[k] = l[k]
  BY DEF FirstOf
<1>. DEFINE L == FirstOf(l, m)
            G(h) == h = [k \in 0..Len(L) |->
                           IF k = 0 THEN <<>>
                           ELSE IF L[k] = "blank" THEN h[k - 1] ELSE Append(h[k - 1], L[k])]
            h == CHOOSE h : G(h)
<1>2. Said(L) = h[Len(L)]
  BY DEF Said
<1>. HIDE DEF L
<1>3. PICK e : Sayings(l, e, m)
  BY SayingsExist
<1>4. G(e)
  <2>1. ASSUME NEW k \in 0..m
        PROVE  e[k] = IF k = 0 THEN <<>>
                      ELSE IF L[k] = "blank" THEN e[k - 1] ELSE Append(e[k - 1], L[k])
    <3>1. e[k] = IF k = 0 THEN <<>>
                 ELSE IF l[k] = "blank" THEN e[k - 1] ELSE Append(e[k - 1], l[k])
      BY <1>3 DEF Sayings
    <3>2. k # 0 => L[k] = l[k]
      BY <1>1 DEF L
    <3>. QED  BY <3>1, <3>2
  <2>2. e = [k \in 0..m |-> e[k]]
    BY <1>3 DEF Sayings
  <2>3. Len(L) = m
    BY <1>1 DEF L
  <2>. QED  BY <2>1, <2>2, <2>3
<1>5. G(h)
  <2>. HIDE DEF G
  <2>. QED  BY <1>4
<1>. HIDE DEF h
<1>6. Sayings(l, h, m)
  <2>1. Len(L) = m
    BY <1>1 DEF L
  <2>2. ASSUME NEW k \in 0..m
        PROVE  h[k] = IF k = 0 THEN <<>>
                      ELSE IF l[k] = "blank" THEN h[k - 1] ELSE Append(h[k - 1], l[k])
    <3>1. h[k] = IF k = 0 THEN <<>>
                 ELSE IF L[k] = "blank" THEN h[k - 1] ELSE Append(h[k - 1], L[k])
      BY <1>5, <2>1
    <3>2. k # 0 => L[k] = l[k]
      BY <1>1 DEF L
    <3>. QED  BY <3>1, <3>2
  <2>3. h = [k \in 0..m |-> h[k]]
    BY <1>5, <2>1
  <2>. QED  BY <2>2, <2>3 DEF Sayings
<1>7. h[m] = f[m]
  BY <1>6, SayingsAgree
<1>. QED  BY <1>1, <1>2, <1>7 DEF L

(* Blank lines at the end say nothing.                                     *)
LEMMA BlankEnds ==
    ASSUME NEW l, NEW n \in Nat, NEW m \in 0..n,
           \A k \in (m + 1)..n : l[k] = "blank"
    PROVE  Said(FirstOf(l, n)) = Said(FirstOf(l, m))
<1>1. PICK f : Sayings(l, f, n)
  BY SayingsExist
<1>2. \A k \in 0..n : Said(FirstOf(l, k)) = f[k]
  BY <1>1, SaidIs
<1>3. \A k \in 0..n :
        f[k] = IF k = 0 THEN <<>> ELSE IF l[k] = "blank" THEN f[k - 1] ELSE Append(f[k - 1], l[k])
  BY <1>1 DEF Sayings
<1>. DEFINE T == {k \in Nat : m + k <= n => f[m + k] = f[m]}
<1>4. 0 \in T
  OBVIOUS
<1>5. ASSUME NEW k \in Nat, k \in T PROVE k + 1 \in T
  <2>1. SUFFICES ASSUME m + (k + 1) <= n PROVE f[m + (k + 1)] = f[m]
    OBVIOUS
  <2>2. m + (k + 1) \in 0..n /\ m + (k + 1) # 0 /\ (m + (k + 1)) - 1 = m + k
    BY <2>1
  <2>3. l[m + (k + 1)] = "blank"
    BY <2>1
  <2>4. f[m + (k + 1)] = f[(m + (k + 1)) - 1]
    BY <1>3, <2>2, <2>3
  <2>. QED  BY <1>5, <2>1, <2>2, <2>4
<1>6. Nat \subseteq T
  <2>. HIDE DEF T
  <2>. QED  BY <1>4, <1>5, Climb
<1>7. n - m \in Nat /\ m + (n - m) = n
  OBVIOUS
<1>8. f[n] = f[m]
  BY <1>6, <1>7
<1>. QED  BY <1>2, <1>8

-----------------------------------------------------------------------------
(* The scan is at a line after which nothing but blank lines of a scalar   *)
(* it has left is to come before the next node; what it wrote, with those  *)
(* blank lines, is the rewriting of the nodes so far.                      *)

Text(k) == FlattenSeq(FirstOf([j \in 1..Len(document) |-> NodeText(document[j])], k))
New(k) == FlattenSeq(FirstOf([j \in 1..Len(document) |-> Rewritten(j)], k))
EndsAt(k) == Len(Text(k))

Collected(k) ==
    /\ Len(binaries) = Rank(k)
    /\ \A m \in 1..k : Extracted(document[m]) =>
         Rank(m) \in 1..Len(binaries) /\ binaries[Rank(m)] = Payload(document[m])

Reached(k) ==
    /\ at \in 1..(EndsAt(k) + 1)
    /\ \A m \in at..EndsAt(k) : Blank(m)
    /\ out \o SubSeq(lines, at, EndsAt(k)) = New(k)
    /\ Collected(k)

Borrowed == ~ tagged /\ at = Len(lines) + 1 /\ out = lines /\ binaries = <<>>

ScanLine == [indent : Nat, number : Nat,
             look : ContentLines \cup {"plain", "binary", "block", "sentinel"}]

ScanInv ==
    /\ document \in Documents
    /\ lines = FlattenSeq([k \in DOMAIN document |-> NodeText(document[k])])
    /\ out \in Seq(ScanLine)
    /\ binaries \in Seq({Payload(node) : node \in Nodes})
    /\ Borrowed \/ \E k \in 0..Len(document) : Reached(k)

-----------------------------------------------------------------------------
(* The lines of a node                                                     *)

(* The fields of a node.                                                   *)
LEMMA NodeFacts ==
    ASSUME NEW d \in Nodes
    PROVE  /\ d.indent \in Nat /\ d.kind \in {"plain", "binary", "block"}
           /\ d.content \in Seq(ContentLines) /\ (d.kind = "plain" => Len(d.content) = 0)
           /\ DOMAIN d.content = 1..Len(d.content) /\ Len(d.content) \in Nat
<1>1. d.indent \in Nat
  BY BoundsAssumption DEF Nodes, BoundsAssumption
<1>2. d.kind \in {"plain", "binary", "block"}
  BY DEF Nodes
<1>3. d.content \in Seq(ContentLines) /\ (d.kind = "plain" => Len(d.content) = 0)
  <2>1. CASE d \in [indent : 0..MaxIndent, kind : {"plain"}, content : {<<>>}]
    <3>1. d.content = <<>>
      BY <2>1
    <3>. QED  BY <3>1
  <2>2. CASE d \in [indent : 0..MaxIndent, kind : {"binary", "block"},
                    content : BoundedSeq(ContentLines, MaxContent)]
    <3>1. d.content \in BoundedSeq(ContentLines, MaxContent) /\ d.kind # "plain"
      BY <2>2
    <3>2. PICK m \in 0..MaxContent : d.content \in [1..m -> ContentLines]
      BY <3>1 DEF BoundedSeq, SeqOf
    <3>3. m \in Nat
      BY <3>2, BoundsAssumption DEF BoundsAssumption
    <3>. QED  BY <3>1, <3>2, <3>3
  <2>. QED  BY <2>1, <2>2 DEF Nodes
<1>. QED  BY <1>1, <1>2, <1>3

(* The content lines of a node.                                            *)
LEMMA ContentFacts ==
    ASSUME NEW d \in Nodes
    PROVE  /\ ContentText(d) \in Seq(ScanLine) /\ Len(ContentText(d)) = Len(d.content)
           /\ \A m \in 1..Len(d.content) :
                ContentText(d)[m] = Line(IF d.content[m] = "blank" THEN 0 ELSE d.indent + 1, d.content[m])
<1>1. \A m \in 1..Len(d.content) :
        Line(IF d.content[m] = "blank" THEN 0 ELSE d.indent + 1, d.content[m]) \in ScanLine
  <2>1. ASSUME NEW m \in 1..Len(d.content) PROVE d.content[m] \in ContentLines
    BY NodeFacts
  <2>. QED  BY <2>1, NodeFacts DEF Line, ScanLine
<1>2. ContentText(d) = [m \in 1..Len(d.content) |->
                          Line(IF d.content[m] = "blank" THEN 0 ELSE d.indent + 1, d.content[m])]
  BY NodeFacts DEF ContentText
<1>3. Len(d.content) \in Nat
  BY NodeFacts
<1>4. ContentText(d) \in [1..Len(d.content) -> ScanLine]
  BY <1>1, <1>2
<1>. QED  BY <1>2, <1>3, <1>4

(* A node is written as its key and its content below it.                  *)
LEMMA NodeTextFacts ==
    ASSUME NEW d \in Nodes
    PROVE  /\ NodeText(d) \in Seq(ScanLine) /\ Len(NodeText(d)) = Len(d.content) + 1
           /\ NodeText(d)[1] = Line(d.indent, d.kind)
           /\ \A m \in 1..Len(d.content) : NodeText(d)[m + 1] = ContentText(d)[m]
<1>1. Line(d.indent, d.kind) \in ScanLine
  BY NodeFacts DEF Line, ScanLine
<1>2. Len(d.content) \in Nat
  BY NodeFacts
<1>. DEFINE head == <<Line(d.indent, d.kind)>>
            rest == ContentText(d)
<1>3. head \in Seq(ScanLine) /\ Len(head) = 1 /\ head[1] = Line(d.indent, d.kind)
  BY <1>1
<1>4. rest \in Seq(ScanLine) /\ Len(rest) = Len(d.content)
  BY ContentFacts
<1>5. NodeText(d) = head \o rest
  BY DEF NodeText
<1>. HIDE DEF head, rest
<1>6. /\ head \o rest \in Seq(ScanLine) /\ Len(head \o rest) = 1 + Len(rest)
      /\ (head \o rest)[1] = head[1]
      /\ \A m \in 1..Len(rest) : (head \o rest)[1 + m] = rest[m]
  BY <1>3, <1>4, TwoTexts
<1>7. \A m \in 1..Len(d.content) : 1 + m = m + 1
  OBVIOUS
<1>. QED  BY <1>2, <1>3, <1>4, <1>5, <1>6, <1>7 DEF rest

(* Documents are sequences of nodes.                                       *)
LEMMA DocumentFacts ==
    ASSUME document \in Documents
    PROVE  /\ document \in Seq(Nodes) /\ Len(document) \in Nat
           /\ \A k \in 1..Len(document) : document[k] \in Nodes
           /\ \A k \in 1..(Len(document) - 1) :
                document[k].kind # "plain" => document[k + 1].indent <= document[k].indent
<1>1. PICK m \in 0..MaxNodes : document \in [1..m -> Nodes]
  BY DEF Documents, BoundedSeq, SeqOf
<1>2. m \in Nat
  BY <1>1, BoundsAssumption DEF BoundsAssumption
<1>3. document \in Seq(Nodes)
  BY <1>1, <1>2
<1>. QED  BY <1>3 DEF Documents

(* The rank counts up at the nodes that are extracted.                     *)
LEMMA RankGrows ==
    /\ Rank(0) = 0
    /\ \A k \in Nat : /\ Rank(k) \in Nat
                      /\ Rank(k + 1) = Rank(k) + IF Extracted(document[k + 1]) THEN 1 ELSE 0
<1>. DEFINE S(k) == {n \in 1..k : Extracted(document[n])}
<1>1. \A k \in Nat : IsFiniteSet(S(k))
  <2>1. ASSUME NEW k \in Nat PROVE IsFiniteSet(S(k))
    <3>1. IsFiniteSet(1..k) /\ S(k) \in SUBSET (1..k)
      BY FS_Interval
    <3>. QED  BY <3>1, FS_Subset
  <2>. QED  BY <2>1
<1>2. \A k \in Nat : Cardinality(S(k)) \in Nat
  BY <1>1, FS_CardinalityType
<1>3. Cardinality(S(0)) = 0
  <2>1. S(0) = {}
    OBVIOUS
  <2>. QED  BY <2>1, FS_EmptySet
<1>4. ASSUME NEW k \in Nat
      PROVE  Cardinality(S(k + 1)) = Cardinality(S(k)) + IF Extracted(document[k + 1]) THEN 1 ELSE 0
  <2>1. CASE Extracted(document[k + 1])
    <3>1. S(k + 1) = S(k) \cup {k + 1} /\ k + 1 \notin S(k)
      BY <2>1
    <3>2. Cardinality(S(k) \cup {k + 1}) = Cardinality(S(k)) + 1
      <4>. HIDE DEF S
      <4>. QED  BY <1>1, <3>1, FS_AddElement
    <3>. QED  BY <2>1, <3>1, <3>2
  <2>2. CASE ~ Extracted(document[k + 1])
    <3>1. S(k + 1) = S(k)
      BY <2>2
    <3>2. Cardinality(S(k)) \in Nat
      BY <1>2
    <3>. QED  BY <2>2, <3>1, <3>2
  <2>. QED  BY <2>1, <2>2
<1>. QED  BY <1>2, <1>3, <1>4 DEF Rank

(* What a scalar says last, and the blank lines it leaves.                 *)
LastSaid(d) == Max({0} \cup {k \in DOMAIN d.content : d.content[k] # "blank"})

(* Past the last line that says something all are blank.                   *)
LEMMA LastSaidFacts ==
    ASSUME NEW d \in Nodes
    PROVE  /\ LastSaid(d) \in 0..Len(d.content)
           /\ LastSaid(d) # 0 => d.content[LastSaid(d)] # "blank"
           /\ \A m \in 1..Len(d.content) : d.content[m] # "blank" => m <= LastSaid(d)
           /\ Trailing(d) = SubSeq(ContentText(d), LastSaid(d) + 1, Len(d.content))
<1>. DEFINE S == {0} \cup {k \in DOMAIN d.content : d.content[k] # "blank"}
<1>1. Len(d.content) \in Nat /\ DOMAIN d.content = 1..Len(d.content)
  BY NodeFacts
<1>2. S \subseteq 0..Len(d.content) /\ S # {}
  BY <1>1
<1>3. Max(S) \in S /\ \A y \in S : y <= Max(S)
  <2>. HIDE DEF S
  <2>. QED  BY <1>1, <1>2, MaxIsGreatest
<1>4. LastSaid(d) = Max(S)
  BY DEF LastSaid
<1>5. Trailing(d) = SubSeq(ContentText(d), LastSaid(d) + 1, Len(d.content))
  BY DEF Trailing, LastSaid
<1>6. \A m \in 1..Len(d.content) : d.content[m] # "blank" => m \in S
  BY <1>1
<1>7. \A x \in S : x # 0 => d.content[x] # "blank"
  OBVIOUS
<1>. HIDE DEF S
<1>. QED  BY <1>2, <1>3, <1>4, <1>5, <1>6, <1>7

(* A node is rewritten as lines.                                           *)
LEMMA RewrittenIsText ==
    ASSUME document \in Documents, NEW k \in 1..Len(document)
    PROVE  Rewritten(k) \in Seq(ScanLine)
<1>. DEFINE d == document[k]
<1>1. d \in Nodes
  BY DocumentFacts
<1>2. NodeText(d) \in Seq(ScanLine)
  BY <1>1, NodeTextFacts
<1>3. <<binary_sentinel(d.indent, Rank(k))>> \in Seq(ScanLine)
  <2>1. d.indent \in Nat /\ Rank(k) \in Nat
    BY <1>1, NodeFacts, RankGrows, DocumentFacts
  <2>2. binary_sentinel(d.indent, Rank(k)) \in ScanLine
    BY <2>1 DEF binary_sentinel, ScanLine
  <2>. QED  BY <2>2
<1>4. Trailing(d) \in Seq(ScanLine)
  <2>1. LastSaid(d) \in 0..Len(d.content) /\ Len(d.content) \in Nat
    BY <1>1, LastSaidFacts, NodeFacts
  <2>2. ContentText(d) \in Seq(ScanLine) /\ Len(ContentText(d)) = Len(d.content)
    BY <1>1, ContentFacts
  <2>3. \A s \in Seq(ScanLine) : \A m \in 0..Len(s) : SubSeq(s, m + 1, Len(s)) \in Seq(ScanLine)
    OBVIOUS
  <2>4. SubSeq(ContentText(d), LastSaid(d) + 1, Len(d.content)) \in Seq(ScanLine)
    BY <2>1, <2>2, <2>3
  <2>. QED  BY <1>1, <2>4, LastSaidFacts
<1>5. <<binary_sentinel(d.indent, Rank(k))>> \o Trailing(d) \in Seq(ScanLine)
  BY <1>3, <1>4, TwoTexts
<1>. QED  BY <1>2, <1>5 DEF Rewritten

(* The rewriting of the nodes so far grows by that of the next one.        *)
LEMMA NewGrows ==
    ASSUME document \in Documents
    PROVE  /\ New(0) = <<>>
           /\ \A k \in 1..Len(document) : New(k) = New(k - 1) \o Rewritten(k)
           /\ \A k \in 0..Len(document) : New(k) \in Seq(ScanLine)
           /\ New(Len(document)) = FlattenSeq([k \in DOMAIN document |-> Rewritten(k)])
<1>. DEFINE s == [j \in 1..Len(document) |-> Rewritten(j)]
<1>1. \A k \in 1..Len(document) : s[k] = Rewritten(k)
  OBVIOUS
<1>2. \A k \in 1..Len(document) : s[k] \in Seq(ScanLine)
  BY RewrittenIsText
<1>3. FirstOf(s, Len(document)) = [k \in DOMAIN document |-> Rewritten(k)]
  <2>1. DOMAIN document = 1..Len(document)
    BY DocumentFacts
  <2>. QED  BY <2>1 DEF FirstOf
<1>4. \A k : New(k) = FlattenSeq(FirstOf(s, k))
  BY DEF New
<1>5. Len(document) \in Nat
  BY DocumentFacts
<1>. HIDE DEF s
<1>6. /\ FlattenSeq(FirstOf(s, 0)) = <<>>
      /\ \A k \in 1..Len(document) :
           FlattenSeq(FirstOf(s, k)) = FlattenSeq(FirstOf(s, k - 1)) \o s[k]
      /\ \A k \in 0..Len(document) : FlattenSeq(FirstOf(s, k)) \in Seq(ScanLine)
  BY <1>2, <1>5, FlattenGrows
<1>. QED  BY <1>1, <1>3, <1>4, <1>6

(* The text is the document, written out.                                  *)
Written ==
    /\ document \in Documents
    /\ lines = FlattenSeq([k \in DOMAIN document |-> NodeText(document[k])])

(* So does their text, and each part of it is where it stays.              *)
LEMMA TextGrows ==
    ASSUME Written
    PROVE  /\ Text(0) = <<>> /\ Text(Len(document)) = lines
           /\ \A k \in 1..Len(document) : Text(k) = Text(k - 1) \o NodeText(document[k])
           /\ \A k \in 0..Len(document) :
                /\ Text(k) \in Seq(ScanLine) /\ EndsAt(k) <= Len(lines)
                /\ \A p \in 1..EndsAt(k) : lines[p] = Text(k)[p]
<1>. DEFINE s == [j \in 1..Len(document) |-> NodeText(document[j])]
            n == Len(document)
<1>1. \A k \in 1..n : s[k] = NodeText(document[k])
  OBVIOUS
<1>2. \A k \in 1..n : s[k] \in Seq(ScanLine)
  BY NodeTextFacts, DocumentFacts DEF Written
<1>3. FirstOf(s, n) = [k \in DOMAIN document |-> NodeText(document[k])]
  <2>1. DOMAIN document = 1..Len(document)
    BY DocumentFacts DEF Written
  <2>. QED  BY <2>1 DEF FirstOf
<1>4. \A k : Text(k) = FlattenSeq(FirstOf(s, k)) /\ EndsAt(k) = Len(FlattenSeq(FirstOf(s, k)))
  BY DEF Text, EndsAt
<1>5. n \in Nat
  BY DocumentFacts DEF Written
<1>. HIDE DEF s, n
<1>6. /\ FlattenSeq(FirstOf(s, 0)) = <<>>
      /\ \A k \in 1..n : FlattenSeq(FirstOf(s, k)) = FlattenSeq(FirstOf(s, k - 1)) \o s[k]
      /\ \A k \in 0..n : FlattenSeq(FirstOf(s, k)) \in Seq(ScanLine)
  BY <1>2, <1>5, FlattenGrows
<1>7. lines = FlattenSeq(FirstOf(s, n))
  BY <1>3 DEF Written
<1>8. \A k \in 0..n :
        /\ Len(FlattenSeq(FirstOf(s, k))) <= Len(lines)
        /\ \A p \in 1..Len(FlattenSeq(FirstOf(s, k))) : lines[p] = FlattenSeq(FirstOf(s, k))[p]
  BY <1>2, <1>5, <1>7, FlattenKeeps
<1>. QED  BY <1>1, <1>4, <1>6, <1>7, <1>8 DEF n

(* Where a node is in the text.                                            *)
LEMMA NodeIsAt ==
    ASSUME Written, NEW k \in 0..(Len(document) - 1)
    PROVE  LET d == document[k + 1]
               head == EndsAt(k) + 1
           IN  /\ k + 1 \in 1..Len(document) /\ d \in Nodes /\ EndsAt(k) \in Nat
               /\ EndsAt(k + 1) = head + Len(d.content) /\ EndsAt(k + 1) <= Len(lines)
               /\ lines[head] = Line(d.indent, d.kind)
               /\ \A m \in 1..Len(d.content) : lines[head + m] = ContentText(d)[m]
<1>. DEFINE d == document[k + 1]
            head == EndsAt(k) + 1
<1>1. k + 1 \in 1..Len(document) /\ k \in 0..Len(document) /\ k + 1 \in 0..Len(document)
  BY DocumentFacts DEF Written
<1>2. d \in Nodes
  BY <1>1, DocumentFacts DEF Written
<1>3. Text(k) \in Seq(ScanLine) /\ NodeText(d) \in Seq(ScanLine)
  BY <1>1, <1>2, TextGrows, NodeTextFacts
<1>4. Text(k + 1) = Text(k) \o NodeText(d)
  <2>1. Text(k + 1) = Text((k + 1) - 1) \o NodeText(document[k + 1])
    BY <1>1, TextGrows
  <2>2. (k + 1) - 1 = k
    OBVIOUS
  <2>. QED  BY <2>1, <2>2
<1>5. EndsAt(k) = Len(Text(k)) /\ EndsAt(k + 1) = Len(Text(k + 1))
  BY DEF EndsAt
<1>6. EndsAt(k) \in Nat /\ Len(d.content) \in Nat /\ Len(NodeText(d)) = Len(d.content) + 1
  BY <1>2, <1>3, <1>5, NodeFacts, NodeTextFacts
<1>7. EndsAt(k + 1) = EndsAt(k) + Len(NodeText(d))
  <2>1. Len(Text(k) \o NodeText(d)) = Len(Text(k)) + Len(NodeText(d))
    BY <1>3, TwoTexts
  <2>. QED  BY <1>4, <1>5, <2>1
<1>8. \A p \in 1..Len(NodeText(d)) : lines[EndsAt(k) + p] = NodeText(d)[p]
  <2>1. ASSUME NEW p \in 1..Len(NodeText(d)) PROVE lines[EndsAt(k) + p] = NodeText(d)[p]
    <3>1. EndsAt(k) + p \in 1..EndsAt(k + 1)
      BY <1>6, <1>7
    <3>2. lines[EndsAt(k) + p] = Text(k + 1)[EndsAt(k) + p]
      BY <1>1, <3>1, TextGrows
    <3>3. Text(k + 1)[EndsAt(k) + p] = NodeText(d)[p]
      BY <1>3, <1>4, <1>5, TwoTexts
    <3>. QED  BY <3>2, <3>3
  <2>. QED  BY <2>1
<1>9. lines[head] = Line(d.indent, d.kind)
  <2>1. 1 \in 1..Len(NodeText(d))
    BY <1>6
  <2>. QED  BY <1>2, <1>8, <2>1, NodeTextFacts
<1>10. ASSUME NEW m \in 1..Len(d.content) PROVE lines[head + m] = ContentText(d)[m]
  <2>1. m + 1 \in 1..Len(NodeText(d)) /\ EndsAt(k) + (m + 1) = head + m
    BY <1>6
  <2>2. NodeText(d)[m + 1] = ContentText(d)[m]
    BY <1>2, NodeTextFacts
  <2>. QED  BY <1>8, <2>1, <2>2
<1>11. EndsAt(k + 1) = head + Len(d.content) /\ EndsAt(k + 1) <= Len(lines)
  <2>1. EndsAt(k + 1) <= Len(lines)
    BY <1>1, TextGrows
  <2>. QED  BY <1>6, <1>7, <2>1
<1>. QED  BY <1>1, <1>2, <1>6, <1>9, <1>10, <1>11

(* The scanner finds the end of a scalar where it is.                      *)
LEMMA BlockFound ==
    ASSUME Written, NEW k \in 0..(Len(document) - 1), document[k + 1].kind # "plain"
    PROVE  EndOfBlock(EndsAt(k) + 1) = EndsAt(k + 1) + 1
<1>. DEFINE d == document[k + 1]
            p == EndsAt(k) + 1
            c == Len(d.content)
            e == EndsAt(k + 1) + 1
            S == {j \in (p + 1)..(Len(lines) + 1) :
                    j = Len(lines) + 1 \/ (~ Blank(j) /\ lines[j].indent <= lines[p].indent)}
<1>1. /\ k + 1 \in 1..Len(document) /\ d \in Nodes /\ EndsAt(k) \in Nat
      /\ EndsAt(k + 1) = p + c /\ EndsAt(k + 1) <= Len(lines)
      /\ lines[p] = Line(d.indent, d.kind)
      /\ \A m \in 1..c : lines[p + m] = ContentText(d)[m]
  BY NodeIsAt
<1>2. c \in Nat /\ d.indent \in Nat
  BY <1>1, NodeFacts
<1>3. Len(lines) \in Nat /\ Len(document) \in Nat /\ EndsAt(Len(document)) = Len(lines)
  <2>1. Len(document) \in Nat
    BY DocumentFacts DEF Written
  <2>2. Text(Len(document)) = lines /\ Text(Len(document)) \in Seq(ScanLine)
    BY <2>1, TextGrows
  <2>. QED  BY <2>1, <2>2 DEF EndsAt
<1>4. p \in Nat /\ e \in Nat /\ e \in (p + 1)..(Len(lines) + 1) /\ e = (p + c) + 1
  BY <1>1, <1>2, <1>3
<1>5. ASSUME e # Len(lines) + 1 PROVE ~ Blank(e) /\ lines[e].indent <= lines[p].indent
  <2>1. k + 1 # Len(document)
    BY <1>3, <1>5
  <2>2. k + 1 \in 0..(Len(document) - 1) /\ k + 1 \in 1..(Len(document) - 1)
    BY <1>1, <1>3, <2>1
  <2>. DEFINE d2 == document[(k + 1) + 1]
  <2>3. d2 \in Nodes /\ lines[e] = Line(d2.indent, d2.kind)
    BY <2>2, NodeIsAt
  <2>4. d2.indent <= d.indent
    BY <2>2, DocumentFacts DEF Written
  <2>5. d2.kind # "blank"
    BY <2>3, NodeFacts
  <2>. QED  BY <1>1, <2>3, <2>4, <2>5 DEF Blank, Line
<1>6. e \in S
  BY <1>4, <1>5
<1>7. ASSUME NEW j \in S, j < e PROVE FALSE
  <2>. DEFINE m == j - p
  <2>1. m \in 1..c /\ j = p + m
    BY <1>2, <1>4, <1>7
  <2>. HIDE DEF m
  <2>2. lines[j] = Line(IF d.content[m] = "blank" THEN 0 ELSE d.indent + 1, d.content[m])
    BY <1>1, <2>1, ContentFacts
  <2>3. j # Len(lines) + 1
    BY <1>4, <1>7
  <2>4. ~ Blank(j) /\ lines[j].indent <= lines[p].indent
    BY <1>7, <2>3
  <2>5. d.content[m] # "blank"
    BY <2>2, <2>4 DEF Blank, Line
  <2>6. lines[j].indent = d.indent + 1 /\ lines[p].indent = d.indent
    BY <1>1, <2>2, <2>5 DEF Line
  <2>. QED  BY <1>2, <2>4, <2>6
<1>8. S \subseteq Nat /\ EndOfBlock(p) = Min(S)
  BY <1>3, <1>4 DEF EndOfBlock
<1>. HIDE DEF S, e
<1>9. Min(S) \in S /\ Min(S) <= e
  BY <1>6, <1>8, MinIsLeast
<1>10. ~ (Min(S) < e)
  BY <1>7, <1>9
<1>11. Min(S) \in Nat /\ e \in Nat
  BY <1>6, <1>8, <1>9
<1>12. Min(S) = e
  BY <1>9, <1>10, <1>11
<1>. QED  BY <1>8, <1>12 DEF e

(* The scanner stops behind the last line of a scalar that says something, *)
(* and what it has read by then is what the scalar says.                   *)
LEMMA PayloadFound ==
    ASSUME Written, NEW k \in 0..(Len(document) - 1), document[k + 1].kind # "plain"
    PROVE  LET d == document[k + 1]
               p == EndsAt(k) + 1
           IN  /\ EndOfPayload(p) = (p + 1) + LastSaid(d)
               /\ Looks(p + 1, EndOfPayload(p) - 1) = Payload(d)
<1>. DEFINE d == document[k + 1]
            p == EndsAt(k) + 1
            c == Len(d.content)
            e == (p + 1) + LastSaid(d)
            S == {p + 1} \cup {j + 1 : j \in {q \in (p + 1)..(EndOfBlock(p) - 1) : ~ Blank(q)}}
<1>1. /\ d \in Nodes /\ EndsAt(k) \in Nat
      /\ EndsAt(k + 1) = p + c
      /\ \A m \in 1..c : lines[p + m] = ContentText(d)[m]
  BY NodeIsAt
<1>2. c \in Nat /\ p \in Nat /\ LastSaid(d) \in 0..c
  BY <1>1, NodeFacts, LastSaidFacts
<1>3. EndOfBlock(p) = (p + c) + 1
  BY <1>1, BlockFound
<1>4. ASSUME NEW m \in 1..c PROVE lines[p + m].look = d.content[m]
  <2>1. lines[p + m] = ContentText(d)[m]
    BY <1>1
  <2>2. ContentText(d)[m] = Line(IF d.content[m] = "blank" THEN 0 ELSE d.indent + 1, d.content[m])
    BY <1>1, ContentFacts
  <2>3. \A a, b : Line(a, b).look = b
    BY DEF Line
  <2>. HIDE DEF d, p
  <2>. QED  BY <2>1, <2>2, <2>3
<1>5. e \in S
  <2>1. CASE LastSaid(d) = 0
    BY <1>2, <2>1
  <2>2. CASE LastSaid(d) # 0
    <3>1. LastSaid(d) \in 1..c
      BY <1>2, <2>2
    <3>2. d.content[LastSaid(d)] # "blank"
      BY <1>1, <2>2, LastSaidFacts
    <3>3. ~ Blank(p + LastSaid(d))
      BY <1>4, <3>1, <3>2 DEF Blank
    <3>4. p + LastSaid(d) \in (p + 1)..(EndOfBlock(p) - 1) /\ e = (p + LastSaid(d)) + 1
      BY <1>2, <1>3, <3>1
    <3>. QED  BY <3>3, <3>4
  <2>. QED  BY <2>1, <2>2
<1>6. \A y \in S : y \in 0..((p + c) + 1) /\ y <= e
  <2>1. p + 1 \in 0..((p + c) + 1) /\ p + 1 <= e
    BY <1>2
  <2>2. ASSUME NEW j \in (p + 1)..(EndOfBlock(p) - 1), ~ Blank(j)
        PROVE  j + 1 \in 0..((p + c) + 1) /\ j + 1 <= e
    <3>. DEFINE m == j - p
    <3>1. m \in 1..c /\ j = p + m
      BY <1>2, <1>3
    <3>. HIDE DEF m
    <3>2. d.content[m] # "blank"
      BY <1>4, <2>2, <3>1 DEF Blank
    <3>3. m <= LastSaid(d)
      BY <1>1, <3>1, <3>2, LastSaidFacts
    <3>. QED  BY <1>2, <3>1, <3>3
  <2>. QED  BY <2>1, <2>2
<1>7. EndOfPayload(p) = Max(S)
  BY DEF EndOfPayload
<1>. HIDE DEF S
<1>8. S \subseteq 0..((p + c) + 1) /\ S # {} /\ (p + c) + 1 \in Nat
  BY <1>2, <1>5, <1>6
<1>9. Max(S) \in S /\ e <= Max(S)
  BY <1>5, <1>8, MaxIsGreatest
<1>10. EndOfPayload(p) = e
  <2>1. Max(S) <= e
    BY <1>6, <1>9
  <2>2. Max(S) \in Int /\ e \in Int
    <3>1. Max(S) \in 0..((p + c) + 1)
      BY <1>8, <1>9
    <3>2. e \in Int
      BY <1>2
    <3>. QED  BY <3>1, <3>2
  <2>3. Max(S) = e
    <3>. HIDE DEF e
    <3>. QED  BY <1>9, <2>1, <2>2
  <2>. QED  BY <1>7, <2>3
<1>11. Looks(p + 1, e - 1) = Said(FirstOf(d.content, LastSaid(d)))
  <2>1. ((e - 1) - (p + 1)) + 1 = LastSaid(d)
    BY <1>2
  <2>2. ASSUME NEW i \in 1..LastSaid(d) PROVE lines[(p + 1) + (i - 1)].look = d.content[i]
    <3>1. (p + 1) + (i - 1) = p + i /\ i \in 1..c
      BY <1>2
    <3>. QED  BY <1>4, <3>1
  <2>3. [i \in 1..LastSaid(d) |-> lines[(p + 1) + (i - 1)].look] = FirstOf(d.content, LastSaid(d))
    BY <2>2 DEF FirstOf
  <2>4. Looks(p + 1, e - 1)
          = Said([i \in 1..(((e - 1) - (p + 1)) + 1) |-> lines[(p + 1) + (i - 1)].look])
    <3>1. \A a, b : Looks(a, b) = Said([i \in 1..((b - a) + 1) |-> lines[a + (i - 1)].look])
      BY Zenon DEF Looks
    <3>. QED  BY Zenon, <3>1
  <2>. HIDE DEF e, p
  <2>. QED  BY <2>1, <2>3, <2>4
<1>12. Said(FirstOf(d.content, c)) = Said(FirstOf(d.content, LastSaid(d)))
  <2>1. \A m \in (LastSaid(d) + 1)..c : d.content[m] = "blank"
    BY <1>1, <1>2, LastSaidFacts
  <2>. QED  BY <1>2, <2>1, BlankEnds
<1>13. FirstOf(d.content, c) = d.content
  <2>1. d.content \in Seq(ContentLines)
    BY <1>1, NodeFacts
  <2>2. \A s \in Seq(ContentLines) : s = [j \in 1..Len(s) |-> s[j]]
    OBVIOUS
  <2>. QED  BY <2>1, <2>2 DEF FirstOf
<1>. QED  BY <1>10, <1>11, <1>12, <1>13 DEF Payload

-----------------------------------------------------------------------------
(* The invariant                                                           *)

(* The scan starts before the first node.                                  *)
LEMMA ScanInitHolds == ScanInit => ScanInv
<1>. SUFFICES ASSUME ScanInit PROVE ScanInv
  OBVIOUS
<1>1. Written
  BY DEF ScanInit, Written
<1>2. at = 1 /\ out = <<>> /\ binaries = <<>>
  BY DEF ScanInit
<1>3. Len(document) \in Nat /\ Text(0) = <<>> /\ New(0) = <<>> /\ Rank(0) = 0
  BY <1>1, DocumentFacts, TextGrows, NewGrows, RankGrows DEF Written
<1>4. EndsAt(0) = 0
  BY <1>3 DEF EndsAt
<1>5. out \o SubSeq(lines, at, EndsAt(0)) = New(0)
  <2>1. lines \in Seq(ScanLine)
    <3>1. Len(document) \in 0..Len(document)
      BY <1>3
    <3>. QED  BY <1>1, <3>1, TextGrows
  <2>2. SubSeq(lines, 1, 0) = <<>>
    BY <2>1
  <2>3. <<>> \o <<>> = <<>>
    OBVIOUS
  <2>4. SubSeq(lines, at, EndsAt(0)) = <<>>
    BY <1>2, <1>4, <2>2
  <2>. QED  BY <1>2, <1>3, <2>3, <2>4
<1>6. Reached(0)
  BY <1>2, <1>3, <1>4, <1>5 DEF Reached, Collected
<1>. QED  BY <1>1, <1>2, <1>3, <1>6 DEF ScanInv, Written

(* The document is not written to, so what is said about it stays.         *)
LEMMA DocumentStays ==
    ASSUME document' = document, lines' = lines
    PROVE  /\ \A k : /\ New(k)' = New(k) /\ EndsAt(k)' = EndsAt(k) /\ Rank(k)' = Rank(k)
                     /\ Blank(k)' = Blank(k)
           /\ tagged' = tagged
<1>1. ASSUME NEW k PROVE Rank(k)' = Rank(k)
  BY DEF Rank, Extracted, Payload
<1>2. ASSUME NEW k PROVE Rewritten(k)' = Rewritten(k)
  BY <1>1 DEF Rewritten, Extracted, Payload
<1>3. ASSUME NEW k PROVE New(k)' = New(k)
  BY <1>2 DEF New
<1>4. ASSUME NEW k PROVE EndsAt(k)' = EndsAt(k)
  BY DEF EndsAt, Text
<1>5. ASSUME NEW k PROVE Blank(k)' = Blank(k)
  BY DEF Blank
<1>6. tagged' = tagged
  BY DEF tagged, is_binary_block
<1>. QED  BY <1>1, <1>3, <1>4, <1>5, <1>6

(* What holds of the text in every state.                                  *)
LEMMA ScanTypes ==
    ASSUME ScanInv
    PROVE  /\ Written /\ lines \in Seq(ScanLine) /\ Len(lines) \in Nat
           /\ Len(document) \in Nat /\ EndsAt(Len(document)) = Len(lines)
           /\ \A k \in 0..Len(document) : EndsAt(k) \in Nat /\ EndsAt(k) <= Len(lines)
<1>1. Written
  BY DEF ScanInv, Written
<1>2. Len(document) \in Nat
  BY <1>1, DocumentFacts DEF Written
<1>3. \A k \in 0..Len(document) :
        Text(k) \in Seq(ScanLine) /\ EndsAt(k) = Len(Text(k)) /\ EndsAt(k) <= Len(lines)
  BY <1>1, TextGrows DEF EndsAt
<1>4. Text(Len(document)) = lines
  BY <1>1, TextGrows
<1>5. \A k \in 0..Len(document) : EndsAt(k) \in Nat
  BY <1>3
<1>. QED  BY <1>1, <1>2, <1>3, <1>4, <1>5

(* At a line left of a scalar, it is blank; past it, it is the next node.  *)
LEMMA WhatIsNext ==
    ASSUME ScanInv, NEW k \in 0..Len(document), Reached(k), at <= Len(lines)
    PROVE  LET d == document[k + 1]
           IN  \/ at \in 1..EndsAt(k) /\ Blank(at)
               \/ /\ at = EndsAt(k) + 1 /\ k \in 0..(Len(document) - 1) /\ out = New(k)
                  /\ lines[at] = Line(d.indent, d.kind) /\ d \in Nodes
<1>1. EndsAt(k) \in Nat /\ at \in 1..(EndsAt(k) + 1)
  BY ScanTypes DEF Reached
<1>2. CASE at \in 1..EndsAt(k)
  <2>1. at \in at..EndsAt(k)
    BY <1>1, <1>2
  <2>. QED  BY <1>2, <2>1 DEF Reached
<1>3. CASE at = EndsAt(k) + 1
  <2>1. k # Len(document)
    BY <1>1, <1>3, ScanTypes
  <2>2. k \in 0..(Len(document) - 1)
    BY <2>1, ScanTypes
  <2>3. out = New(k)
    <3>1. SubSeq(lines, EndsAt(k) + 1, EndsAt(k)) = <<>>
      BY <1>1, ScanTypes
    <3>2. out \o <<>> = New(k)
      BY <1>3, <3>1 DEF Reached
    <3>3. out \in Seq(ScanLine)
      BY DEF ScanInv
    <3>. QED  BY <3>2, <3>3
  <2>4. lines[EndsAt(k) + 1] = Line(document[k + 1].indent, document[k + 1].kind)
        /\ document[k + 1] \in Nodes
    BY <2>2, NodeIsAt, ScanTypes
  <2>. QED  BY <1>3, <2>2, <2>3, <2>4
<1>. QED  BY <1>1, <1>2, <1>3

(* A node that is not extracted adds nothing to the binaries.              *)
LEMMA NothingCollected ==
    ASSUME ScanInv, NEW k \in 0..(Len(document) - 1), Collected(k), ~ Extracted(document[k + 1])
    PROVE  /\ Collected(k + 1)
           /\ New(k + 1) = New(k) \o NodeText(document[k + 1])
<1>1. k \in Nat /\ k + 1 \in 1..Len(document) /\ (k + 1) - 1 = k
  BY ScanTypes
<1>2. Rank(k) \in Nat /\ Rank(k + 1) = Rank(k)
  <2>1. Rank(k + 1) = Rank(k) + 0 /\ Rank(k) \in Nat
    BY <1>1, RankGrows
  <2>. QED  BY <2>1
<1>3. \A m \in 1..(k + 1) : m \in 1..k \/ m = k + 1
  BY <1>1
<1>4. Collected(k + 1)
  BY <1>2, <1>3 DEF Collected
<1>5. New(k + 1) = New((k + 1) - 1) \o Rewritten(k + 1)
  BY <1>1, NewGrows DEF ScanInv
<1>6. Rewritten(k + 1) = NodeText(document[k + 1])
  BY DEF Rewritten
<1>. QED  BY <1>1, <1>4, <1>5, <1>6

(* Where a node ends, the next is reached.                                 *)
LEMMA PastNode ==
    ASSUME ScanInv, NEW k \in 0..(Len(document) - 1), document' = document, lines' = lines,
           Collected(k), ~ Extracted(document[k + 1]), binaries' = binaries,
           out' = New(k) \o NodeText(document[k + 1]), at' = EndsAt(k + 1) + 1
    PROVE  ScanInv'
<1>1. k + 1 \in 0..Len(document) /\ EndsAt(k + 1) \in Nat /\ lines \in Seq(ScanLine)
  BY ScanTypes
<1>2. Collected(k + 1) /\ out' = New(k + 1)
  BY NothingCollected
<1>3. out' \in Seq(ScanLine)
  BY <1>1, <1>2, NewGrows DEF ScanInv
<1>4. SubSeq(lines, EndsAt(k + 1) + 1, EndsAt(k + 1)) = <<>>
  BY <1>1
<1>5. out' \o SubSeq(lines', at', EndsAt(k + 1)) = New(k + 1)
  <2>1. \A o \in Seq(ScanLine) : o \o <<>> = o
    OBVIOUS
  <2>2. SubSeq(lines', at', EndsAt(k + 1)) = <<>>
    BY <1>4
  <2>. QED  BY <1>2, <1>3, <2>1, <2>2
<1>6. \A m \in at'..EndsAt(k + 1) : FALSE
  BY <1>1
<1>7. Collected(k + 1)'
  BY <1>2, DocumentStays DEF Collected
<1>8. Reached(k + 1)'
  BY <1>1, <1>5, <1>6, <1>7, DocumentStays DEF Reached
<1>. QED  BY <1>1, <1>3, <1>8 DEF ScanInv

(* A blank line left of a scalar, or a plain node.                         *)
LEMMA CopyLineStep == ScanInv /\ CopyLine => ScanInv'
<1>. SUFFICES ASSUME ScanInv, CopyLine PROVE ScanInv'
  OBVIOUS
<1>1. /\ tagged /\ at <= Len(lines) /\ ~ opens_block_scalar(at)
      /\ out' = Append(out, lines[at]) /\ at' = at + 1
      /\ document' = document /\ lines' = lines /\ binaries' = binaries
  BY DEF CopyLine
<1>2. PICK k \in 0..Len(document) : Reached(k)
  BY <1>1 DEF ScanInv, Borrowed
<1>3. lines \in Seq(ScanLine) /\ out \in Seq(ScanLine) /\ EndsAt(k) \in Nat /\ EndsAt(k) <= Len(lines)
  BY ScanTypes DEF ScanInv
<1>4. CASE at \in 1..EndsAt(k)
  <2>1. EndsAt(k) \in 1..Len(lines) /\ lines[at] \in ScanLine
    BY <1>3, <1>4
  <2>2. Append(out, lines[at]) \o SubSeq(lines, at + 1, EndsAt(k)) = New(k)
    <3>1. Append(out, lines[at]) \o SubSeq(lines, at + 1, EndsAt(k))
            = out \o SubSeq(lines, at, EndsAt(k))
      BY <1>3, <1>4, <2>1, CopyOne
    <3>. QED  BY <1>2, <3>1 DEF Reached
  <2>3. \A m \in (at + 1)..EndsAt(k) : Blank(m)
    <3>1. \A m \in (at + 1)..EndsAt(k) : m \in at..EndsAt(k)
      BY <1>3, <1>4
    <3>. QED  BY <1>2, <3>1 DEF Reached
  <2>4. Collected(k)'
    BY <1>1, <1>2, DocumentStays DEF Reached, Collected
  <2>5. at + 1 \in 1..(EndsAt(k) + 1)
    BY <1>3, <1>4
  <2>6. Reached(k)'
    BY <1>1, <2>2, <2>3, <2>4, <2>5, DocumentStays DEF Reached
  <2>7. out' \in Seq(ScanLine)
    BY <1>1, <1>3, <2>1
  <2>. QED  BY <1>1, <2>6, <2>7 DEF ScanInv
<1>5. CASE ~ at \in 1..EndsAt(k)
  <2>. DEFINE d == document[k + 1]
  <2>1. /\ at = EndsAt(k) + 1 /\ k \in 0..(Len(document) - 1) /\ out = New(k)
        /\ lines[at] = Line(d.indent, d.kind) /\ d \in Nodes
    BY <1>1, <1>2, <1>5, WhatIsNext
  <2>2. d.kind = "plain"
    BY <1>1, <2>1, NodeFacts DEF opens_block_scalar, Line
  <2>3. d.content = <<>> /\ EndsAt(k + 1) + 1 = at + 1
    <3>1. Len(d.content) = 0 /\ d.content \in Seq(ContentLines)
      BY <2>1, <2>2, NodeFacts
    <3>2. EndsAt(k + 1) = at + Len(d.content)
      BY <2>1, NodeIsAt, ScanTypes
    <3>. QED  BY <1>3, <2>1, <3>1, <3>2
  <2>4. NodeText(d) = <<lines[at]>>
    <3>1. ContentText(d) = <<>>
      BY <2>1, <2>3, ContentFacts
    <3>2. lines[at] \in ScanLine
      BY <2>1, NodeFacts DEF Line, ScanLine
    <3>. QED  BY <2>1, <3>1, <3>2 DEF NodeText
  <2>5. out' = New(k) \o NodeText(d)
    BY <1>1, <1>3, <2>1, <2>4
  <2>6. ~ Extracted(d)
    BY <2>2 DEF Extracted
  <2>. QED  BY <1>1, <1>2, <2>1, <2>3, <2>5, <2>6, PastNode DEF Reached
<1>. QED  BY <1>4, <1>5

(* A scalar that is copied is the text of its node.                        *)
LEMMA CopyBlockStep == ScanInv /\ CopyBlock => ScanInv'
<1>. SUFFICES ASSUME ScanInv, CopyBlock PROVE ScanInv'
  OBVIOUS
<1>1. /\ tagged /\ at <= Len(lines) /\ opens_block_scalar(at)
      /\ is_binary_block(at) => ~ Decodes(Looks(at + 1, EndOfPayload(at) - 1))
      /\ out' = out \o SubSeq(lines, at, EndOfBlock(at) - 1) /\ at' = EndOfBlock(at)
      /\ document' = document /\ lines' = lines /\ binaries' = binaries
  BY DEF CopyBlock
<1>2. PICK k \in 0..Len(document) : Reached(k)
  BY <1>1 DEF ScanInv, Borrowed
<1>. DEFINE d == document[k + 1]
<1>3. /\ at = EndsAt(k) + 1 /\ k \in 0..(Len(document) - 1) /\ out = New(k)
      /\ lines[at] = Line(d.indent, d.kind) /\ d \in Nodes
  <2>1. ~ Blank(at)
    BY <1>1 DEF opens_block_scalar, Blank
  <2>. QED  BY <1>1, <1>2, <2>1, WhatIsNext
<1>4. d.kind \in {"binary", "block"}
  BY <1>1, <1>3 DEF opens_block_scalar, Line
<1>5. EndOfBlock(at) = EndsAt(k + 1) + 1
  BY <1>3, <1>4, BlockFound, ScanTypes
<1>6. ~ Extracted(d)
  <2>1. CASE d.kind = "block"
    BY <2>1 DEF Extracted
  <2>2. CASE d.kind = "binary"
    <3>1. is_binary_block(at)
      BY <1>3, <2>2 DEF is_binary_block, Line
    <3>2. Looks(at + 1, EndOfPayload(at) - 1) = Payload(d)
      BY <1>3, <2>2, PayloadFound, ScanTypes
    <3>. QED  BY <1>1, <3>1, <3>2 DEF Extracted
  <2>. QED  BY <1>4, <2>1, <2>2
<1>7. SubSeq(lines, at, EndOfBlock(at) - 1) = NodeText(d)
  <2>1. /\ EndsAt(k + 1) = at + Len(d.content) /\ EndsAt(k + 1) <= Len(lines)
        /\ \A m \in 1..Len(d.content) : lines[at + m] = ContentText(d)[m]
    BY <1>3, NodeIsAt, ScanTypes
  <2>2. Len(d.content) \in Nat /\ EndsAt(k) \in Nat /\ lines \in Seq(ScanLine)
    BY <1>3, NodeFacts, ScanTypes
  <2>3. /\ EndsAt(k + 1) \in 0..Len(lines) /\ at \in 1..(EndsAt(k + 1) + 1)
        /\ (EndsAt(k + 1) - at) + 1 = Len(d.content) + 1 /\ (EndsAt(k + 1) + 1) - 1 = EndsAt(k + 1)
    BY <1>3, <2>1, <2>2
  <2>4. ASSUME NEW i \in 1..(Len(d.content) + 1) PROVE NodeText(d)[i] = lines[(at + i) - 1]
    <3>1. CASE i = 1
      <4>1. (at + i) - 1 = at
        BY <1>3, <2>2, <3>1
      <4>. QED  BY <1>3, <3>1, <4>1, NodeTextFacts
    <3>2. CASE i # 1
      <4>. DEFINE m == i - 1
      <4>1. m \in 1..Len(d.content) /\ i = m + 1 /\ (at + i) - 1 = at + m
        BY <1>3, <2>2, <3>2
      <4>2. NodeText(d)[m + 1] = ContentText(d)[m]
        BY <1>3, <4>1, NodeTextFacts
      <4>. HIDE DEF m
      <4>. QED  BY <2>1, <4>1, <4>2
    <3>. QED  BY <3>1, <3>2
  <2>5. NodeText(d) \in Seq(ScanLine) /\ Len(NodeText(d)) = Len(d.content) + 1
    BY <1>3, NodeTextFacts
  <2>6. SubSeq(lines, at, EndsAt(k + 1)) = NodeText(d)
    <3>1. \A t \in Seq(ScanLine) :
            Len(t) = (EndsAt(k + 1) - at) + 1 /\ (\A i \in 1..Len(t) : t[i] = lines[(at + i) - 1])
              => SubSeq(lines, at, EndsAt(k + 1)) = t
      BY <2>2, <2>3, SubSeqIs
    <3>2. \A i \in 1..Len(NodeText(d)) : NodeText(d)[i] = lines[(at + i) - 1]
      BY <2>4, <2>5
    <3>. QED  BY <2>3, <2>5, <3>1, <3>2
  <2>. QED  BY <1>5, <2>3, <2>6
<1>8. Collected(k)
  BY <1>2 DEF Reached
<1>. QED  BY <1>1, <1>3, <1>5, <1>6, <1>7, <1>8, PastNode

(* A scalar that is cut out becomes the next placeholder, and its blank    *)
(* end is left to be copied.                                               *)
LEMMA ExtractBinaryStep == ScanInv /\ ExtractBinary => ScanInv'
<1>. SUFFICES ASSUME ScanInv, ExtractBinary PROVE ScanInv'
  OBVIOUS
<1>1. /\ tagged /\ at <= Len(lines) /\ is_binary_block(at)
      /\ Decodes(Looks(at + 1, EndOfPayload(at) - 1))
      /\ out' = Append(out, binary_sentinel(lines[at].indent, Len(binaries) + 1))
      /\ binaries' = Append(binaries, Looks(at + 1, EndOfPayload(at) - 1))
      /\ at' = EndOfPayload(at)
      /\ document' = document /\ lines' = lines
  BY DEF ExtractBinary
<1>2. PICK k \in 0..Len(document) : Reached(k)
  BY <1>1 DEF ScanInv, Borrowed
<1>. DEFINE d == document[k + 1]
            c == Len(d.content)
            last == LastSaid(d)
<1>3. /\ at = EndsAt(k) + 1 /\ k \in 0..(Len(document) - 1) /\ out = New(k)
      /\ lines[at] = Line(d.indent, d.kind) /\ d \in Nodes
  <2>1. ~ Blank(at)
    BY <1>1 DEF is_binary_block, Blank
  <2>. QED  BY <1>1, <1>2, <2>1, WhatIsNext
<1>4. d.kind = "binary" /\ lines[at].indent = d.indent
  BY <1>1, <1>3 DEF is_binary_block, Line
<1>5. EndOfPayload(at) = (at + 1) + last /\ Looks(at + 1, EndOfPayload(at) - 1) = Payload(d)
  BY <1>3, <1>4, PayloadFound, ScanTypes
<1>6. Extracted(d)
  BY <1>1, <1>4, <1>5 DEF Extracted
<1>7. /\ EndsAt(k + 1) = at + c /\ EndsAt(k + 1) <= Len(lines)
      /\ \A m \in 1..c : lines[at + m] = ContentText(d)[m]
      /\ c \in Nat /\ last \in 0..c /\ EndsAt(k) \in Nat /\ lines \in Seq(ScanLine)
  BY <1>3, NodeIsAt, NodeFacts, LastSaidFacts, ScanTypes
<1>sizes. /\ at \in Nat /\ at >= 1 /\ c \in Nat /\ last \in Nat /\ last <= c
          /\ EndsAt(k + 1) = at + c
  BY <1>3, <1>7
<1>8. k \in Nat /\ k + 1 \in 1..Len(document) /\ k + 1 \in 0..Len(document) /\ (k + 1) - 1 = k
  BY <1>3, ScanTypes
<1>9. Collected(k) /\ Rank(k) = Len(binaries) /\ Rank(k) \in Nat /\ Rank(k + 1) = Rank(k) + 1
  <2>1. Collected(k)
    BY <1>2 DEF Reached
  <2>2. Rank(k + 1) = Rank(k) + 1 /\ Rank(k) \in Nat
    BY <1>6, <1>8, RankGrows
  <2>. QED  BY <2>1, <2>2 DEF Collected
<1>10. /\ binaries' = Append(binaries, Payload(d)) /\ binaries' \in Seq({Payload(node) : node \in Nodes})
       /\ Len(binaries') = Len(binaries) + 1 /\ binaries'[Len(binaries) + 1] = Payload(d)
       /\ \A m \in 1..Len(binaries) : binaries'[m] = binaries[m]
  <2>1. binaries \in Seq({Payload(node) : node \in Nodes}) /\ Payload(d) \in {Payload(node) : node \in Nodes}
    BY <1>3 DEF ScanInv
  <2>. DEFINE P == {Payload(node) : node \in Nodes}
  <2>2. \A b \in Seq(P) : \A x \in P :
          /\ Append(b, x) \in Seq(P) /\ Len(Append(b, x)) = Len(b) + 1
          /\ Append(b, x)[Len(b) + 1] = x /\ \A m \in 1..Len(b) : Append(b, x)[m] = b[m]
    <3>. HIDE DEF P
    <3>. QED  OBVIOUS
  <2>3. binaries' = Append(binaries, Payload(d))
    BY <1>1, <1>5
  <2>. QED  BY <2>1, <2>2, <2>3
<1>11. Collected(k + 1)'
  <2>1. Len(binaries') = Rank(k + 1)
    BY <1>9, <1>10
  <2>2. ASSUME NEW m \in 1..(k + 1), Extracted(document[m])
        PROVE  Rank(m) \in 1..Len(binaries') /\ binaries'[Rank(m)] = Payload(document[m])
    <3>1. CASE m = k + 1
      BY <1>9, <1>10, <3>1
    <3>2. CASE m # k + 1
      <4>1. m \in 1..k
        BY <1>8, <3>2
      <4>2. Rank(m) \in 1..Len(binaries) /\ binaries[Rank(m)] = Payload(document[m])
        BY <1>9, <2>2, <4>1 DEF Collected
      <4>3. Rank(m) \in 1..Len(binaries')
        BY <1>9, <1>10, <4>2
      <4>. QED  BY <1>10, <4>2, <4>3
    <3>. QED  BY <3>1, <3>2
  <2>3. \A m : (Extracted(document[m]))' = Extracted(document[m])
               /\ Payload(document[m])' = Payload(document[m])
    BY <1>1 DEF Extracted, Payload
  <2>. QED  BY <1>1, <2>1, <2>2, <2>3, DocumentStays DEF Collected
<1>12. SubSeq(lines, (at + 1) + last, EndsAt(k + 1)) = Trailing(d)
  <2>1. ContentText(d) \in Seq(ScanLine) /\ Len(ContentText(d)) = c
    BY <1>3, ContentFacts
  <2>2. c \in 0..Len(ContentText(d)) /\ last + 1 \in 1..(c + 1) /\ (c - (last + 1)) + 1 = c - last
    BY <1>7, <2>1
  <2>. DEFINE t == SubSeq(ContentText(d), last + 1, c)
  <2>3. /\ t \in Seq(ScanLine) /\ Len(t) = (c - (last + 1)) + 1
        /\ \A i \in 1..((c - (last + 1)) + 1) : t[i] = ContentText(d)[((last + 1) + i) - 1]
    BY <2>1, <2>2, SubSeqIs
  <2>4. /\ EndsAt(k + 1) \in 0..Len(lines) /\ (at + 1) + last \in 1..(EndsAt(k + 1) + 1)
        /\ (EndsAt(k + 1) - ((at + 1) + last)) + 1 = c - last
    BY <1>3, <1>7
  <2>. HIDE DEF t
  <2>5. ASSUME NEW i \in 1..Len(t) PROVE t[i] = lines[(((at + 1) + last) + i) - 1]
    <3>1. /\ last + i \in 1..c /\ ((last + 1) + i) - 1 = last + i
          /\ (((at + 1) + last) + i) - 1 = at + (last + i)
      <4>1. i \in 1..(c - last)
        BY <2>2, <2>3
      <4>. HIDE DEF c, last
      <4>. QED  BY <1>sizes, <4>1
    <3>2. i \in 1..((c - (last + 1)) + 1)
      BY <2>3
    <3>3. t[i] = ContentText(d)[((last + 1) + i) - 1]
      BY <2>3, <3>2
    <3>4. lines[at + (last + i)] = ContentText(d)[last + i]
      BY <1>7, <3>1
    <3>. QED  BY <3>1, <3>3, <3>4
  <2>6. \A s \in Seq(ScanLine) :
          Len(s) = (EndsAt(k + 1) - ((at + 1) + last)) + 1
            /\ (\A i \in 1..Len(s) : s[i] = lines[(((at + 1) + last) + i) - 1])
              => SubSeq(lines, (at + 1) + last, EndsAt(k + 1)) = s
    BY <1>7, <2>4, SubSeqIs
  <2>7. SubSeq(lines, (at + 1) + last, EndsAt(k + 1)) = t
    BY <2>2, <2>3, <2>4, <2>5, <2>6
  <2>8. Trailing(d) = t
    BY <1>3, LastSaidFacts DEF t
  <2>. QED  BY <2>7, <2>8
<1>. DEFINE mark == binary_sentinel(d.indent, Rank(k + 1))
<1>13. mark \in ScanLine /\ out \in Seq(ScanLine) /\ out' = Append(out, mark)
  <2>1. d.indent \in Nat
    BY <1>3, NodeFacts
  <2>2. mark \in ScanLine
    BY <1>9, <2>1 DEF binary_sentinel, ScanLine
  <2>3. out' = Append(out, mark)
    BY <1>1, <1>4, <1>9
  <2>. QED  BY <2>2, <2>3 DEF ScanInv
<1>14. out' \o Trailing(d) = New(k + 1)
  <2>1. New(k + 1) = New((k + 1) - 1) \o Rewritten(k + 1)
    BY <1>8, NewGrows DEF ScanInv
  <2>2. Rewritten(k + 1) = <<mark>> \o Trailing(d)
    BY <1>6 DEF Rewritten
  <2>3. Trailing(d) \in Seq(ScanLine)
    <3>1. EndsAt(k + 1) \in 0..Len(lines) /\ (at + 1) + last \in 1..(EndsAt(k + 1) + 1)
      BY <1>3, <1>7
    <3>2. SubSeq(lines, (at + 1) + last, EndsAt(k + 1)) \in Seq(ScanLine)
      BY <1>7, <3>1, SubSeqIs
    <3>. QED  BY <1>12, <3>2
  <2>4. \A o, b \in Seq(ScanLine) : \A x \in ScanLine : Append(o, x) \o b = o \o (<<x>> \o b)
    OBVIOUS
  <2>5. New(k + 1) = out \o (<<mark>> \o Trailing(d))
    BY <1>3, <1>8, <2>1, <2>2
  <2>. HIDE DEF mark
  <2>6. Append(out, mark) \o Trailing(d) = out \o (<<mark>> \o Trailing(d))
    BY <1>13, <2>3, <2>4
  <2>. QED  BY <1>13, <2>5, <2>6
<1>15. at' \in 1..(EndsAt(k + 1) + 1) /\ at' = (at + 1) + last
  <2>1. at' = (at + 1) + last
    BY <1>1, <1>5
  <2>. HIDE DEF c, last
  <2>. QED  BY <1>sizes, <2>1
<1>16. ASSUME NEW m \in at'..EndsAt(k + 1) PROVE Blank(m)
  <2>. DEFINE j == m - at
  <2>1. j \in 1..c /\ m = at + j /\ ~ (j <= last)
    <3>1. m \in ((at + 1) + last)..(at + c)
      BY <1>15, <1>sizes
    <3>. HIDE DEF c, last
    <3>. QED  BY <1>sizes, <3>1
  <2>. HIDE DEF j
  <2>2. d.content[j] = "blank"
    BY <1>3, <2>1, LastSaidFacts
  <2>3. lines[m] = ContentText(d)[j]
    BY <1>7, <2>1
  <2>4. ContentText(d)[j] = Line(IF d.content[j] = "blank" THEN 0 ELSE d.indent + 1, d.content[j])
    BY <1>3, <2>1, ContentFacts
  <2>. QED  BY <2>2, <2>3, <2>4 DEF Blank, Line
<1>17. out' \o SubSeq(lines', at', EndsAt(k + 1)) = New(k + 1)
  BY <1>1, <1>12, <1>14, <1>15
<1>18. Reached(k + 1)'
  BY <1>1, <1>11, <1>15, <1>16, <1>17, DocumentStays DEF Reached
<1>19. out' \in Seq(ScanLine)
  BY <1>13
<1>. QED  BY <1>1, <1>8, <1>10, <1>18, <1>19 DEF ScanInv

(* A text without the tag has no binary scalar.                            *)
LEMMA NothingTagged ==
    ASSUME ScanInv, ~ tagged
    PROVE  /\ \A m \in 1..Len(document) : ~ Extracted(document[m])
           /\ \A m \in 0..Len(document) : Rank(m) = 0
<1>1. ASSUME NEW m \in 1..Len(document) PROVE ~ Extracted(document[m])
  <2>1. m - 1 \in 0..(Len(document) - 1) /\ (m - 1) + 1 = m
    BY ScanTypes
  <2>2. /\ lines[EndsAt(m - 1) + 1] = Line(document[m].indent, document[m].kind)
        /\ EndsAt(m - 1) + 1 \in 1..Len(lines)
    <3>1. /\ EndsAt(m - 1) \in Nat /\ document[(m - 1) + 1] \in Nodes
          /\ EndsAt((m - 1) + 1) = (EndsAt(m - 1) + 1) + Len(document[(m - 1) + 1].content)
          /\ EndsAt((m - 1) + 1) <= Len(lines)
          /\ lines[EndsAt(m - 1) + 1]
               = Line(document[(m - 1) + 1].indent, document[(m - 1) + 1].kind)
      BY <2>1, NodeIsAt, ScanTypes
    <3>2. Len(document[m].content) \in Nat
      BY <2>1, <3>1, NodeFacts
    <3>. QED  BY <2>1, <3>1, <3>2, ScanTypes
  <2>3. lines[EndsAt(m - 1) + 1].look # "binary"
    BY <2>2, ScanTypes DEF tagged, is_binary_block
  <2>. QED  BY <2>2, <2>3 DEF Extracted, Line
<1>. DEFINE T == {m \in Nat : m <= Len(document) => Rank(m) = 0}
<1>2. 0 \in T
  BY RankGrows
<1>3. ASSUME NEW m \in Nat, m \in T PROVE m + 1 \in T
  <2>1. SUFFICES ASSUME m + 1 <= Len(document) PROVE Rank(m + 1) = 0
    OBVIOUS
  <2>2. ~ Extracted(document[m + 1]) /\ Rank(m) = 0
    BY <1>1, <1>3, <2>1, ScanTypes
  <2>3. Rank(m + 1) = Rank(m) + 0
    BY <2>2, RankGrows
  <2>. QED  BY <2>2, <2>3
<1>4. Nat \subseteq T
  <2>. HIDE DEF T
  <2>. QED  BY <1>2, <1>3, Climb
<1>. QED  BY <1>1, <1>4, ScanTypes

(* A text that is borrowed had nothing in it to cut out.                   *)
LEMMA UntouchedStep == ScanInv /\ Untouched => ScanInv'
<1>. SUFFICES ASSUME ScanInv, Untouched PROVE ScanInv'
  OBVIOUS
<1>1. /\ ~ tagged /\ at = 1 /\ lines # <<>>
      /\ out' = lines /\ at' = Len(lines) + 1
      /\ document' = document /\ lines' = lines /\ binaries' = binaries
  BY DEF Untouched
<1>2. lines \in Seq(ScanLine) /\ Len(lines) \in Nat
  BY ScanTypes
<1>3. Len(lines) # 0
  BY <1>1, <1>2
<1>4. ~ Borrowed
  BY <1>1, <1>2, <1>3 DEF Borrowed
<1>5. PICK k \in 0..Len(document) : Reached(k)
  BY <1>4 DEF ScanInv
<1>6. binaries = <<>>
  <2>2. Rank(k) = 0
    BY <1>1, <1>5, NothingTagged
  <2>3. Len(binaries) = 0 /\ binaries \in Seq({Payload(node) : node \in Nodes})
    BY <1>5, <2>2 DEF Reached, Collected, ScanInv
  <2>. QED  BY <2>3
<1>7. Borrowed'
  BY <1>1, <1>6, DocumentStays DEF Borrowed
<1>. QED  BY <1>1, <1>2, <1>7 DEF ScanInv

(* Every step keeps the invariant.                                         *)
LEMMA ScanNextHolds == ScanInv /\ [ScanNext]_scan_vars => ScanInv'
<1>. SUFFICES ASSUME ScanInv, [ScanNext]_scan_vars PROVE ScanInv'
  OBVIOUS
<1>1. CASE Untouched
  BY <1>1, UntouchedStep
<1>2. CASE ExtractBinary
  BY <1>2, ExtractBinaryStep
<1>3. CASE CopyBlock
  BY <1>3, CopyBlockStep
<1>4. CASE CopyLine
  BY <1>4, CopyLineStep
<1>5. CASE UNCHANGED scan_vars
  <2>1. document' = document /\ lines' = lines /\ at' = at /\ out' = out /\ binaries' = binaries
    BY <1>5 DEF scan_vars
  <2>2. Borrowed' = Borrowed
    BY <2>1, DocumentStays DEF Borrowed
  <2>3. ASSUME NEW k, Reached(k) PROVE Reached(k)'
    BY <2>1, <2>3, DocumentStays DEF Reached, Collected, Extracted, Payload
  <2>. QED  BY <2>1, <2>2, <2>3 DEF ScanInv
<1>. QED  BY <1>1, <1>2, <1>3, <1>4, <1>5 DEF ScanNext

(* The scanner cuts the binary scalars out of a document and nothing else, *)
(* whatever words are base64 and however long the document and its scalars *)
(* are and however deep it is nested (extract_binary_scalars).             *)
THEOREM OnlyBinaryScalarsExtractedHolds == ScanSpec => []OnlyBinaryScalarsExtracted
<1>1. ScanInv => OnlyBinaryScalarsExtracted
  <2>. SUFFICES ASSUME ScanInv, at > Len(lines)
                PROVE  /\ out = FlattenSeq([k \in DOMAIN document |-> Rewritten(k)])
                       /\ Len(binaries) = Rank(Len(document))
                       /\ \A k \in DOMAIN document :
                            Extracted(document[k]) => binaries[Rank(k)] = Payload(document[k])
    BY DEF OnlyBinaryScalarsExtracted
  <2>. DEFINE n == Len(document)
  <2>1. /\ n \in Nat /\ DOMAIN document = 1..n /\ Len(lines) \in Nat /\ EndsAt(n) = Len(lines)
        /\ New(n) = FlattenSeq([k \in DOMAIN document |-> Rewritten(k)])
    BY ScanTypes, DocumentFacts, NewGrows DEF Written
  <2>2. CASE \E k \in 0..n : Reached(k)
    <3>1. PICK k \in 0..n : Reached(k)
      BY <2>2
    <3>2. at \in 1..(EndsAt(k) + 1) /\ EndsAt(k) \in Nat
      BY <3>1, ScanTypes DEF Reached
    <3>3. EndsAt(k) = Len(lines) /\ at = EndsAt(k) + 1
      BY <2>1, <3>2, ScanTypes
    <3>4. k = n
      <4>1. SUFFICES ASSUME k # n PROVE FALSE
        OBVIOUS
      <4>2. k \in 0..(n - 1)
        <5>1. n \in Nat
          BY <2>1
        <5>. HIDE DEF n
        <5>. QED  BY <4>1, <5>1
      <4>3. EndsAt(k + 1) = (EndsAt(k) + 1) + Len(document[k + 1].content)
            /\ EndsAt(k + 1) <= Len(lines) /\ document[k + 1] \in Nodes
        BY <4>2, NodeIsAt, ScanTypes
      <4>4. Len(document[k + 1].content) \in Nat
        BY <4>3, NodeFacts
      <4>5. (EndsAt(k) + 1) + Len(document[k + 1].content) <= EndsAt(k)
        BY <3>3, <4>3
      <4>. QED  BY <3>2, <4>4, <4>5
    <3>5. out = New(n)
      <4>1. SubSeq(lines, EndsAt(k) + 1, EndsAt(k)) = <<>>
        BY <3>2, ScanTypes
      <4>2. out \o <<>> = New(k)
        BY <3>1, <3>3, <4>1 DEF Reached
      <4>3. out \in Seq(ScanLine)
        BY DEF ScanInv
      <4>. QED  BY <3>4, <4>2, <4>3
    <3>. QED  BY <2>1, <3>1, <3>4, <3>5 DEF Reached, Collected
  <2>3. CASE Borrowed
    <3>1. \A k \in 1..n : Rewritten(k) = NodeText(document[k]) /\ ~ Extracted(document[k])
      BY <2>3, NothingTagged DEF Borrowed, Rewritten
    <3>2. out = FlattenSeq([k \in DOMAIN document |-> Rewritten(k)])
      <4>1. lines = FlattenSeq([k \in DOMAIN document |-> NodeText(document[k])])
        BY DEF ScanInv
      <4>2. [k \in DOMAIN document |-> NodeText(document[k])] = [k \in DOMAIN document |-> Rewritten(k)]
        BY <2>1, <3>1
      <4>. QED  BY <2>3, <4>1, <4>2 DEF Borrowed
    <3>3. Len(binaries) = Rank(n)
      BY <2>1, <2>3, NothingTagged DEF Borrowed
    <3>. QED  BY <2>1, <3>1, <3>2, <3>3
  <2>. QED  BY <2>2, <2>3 DEF ScanInv
<1>. QED  BY <1>1, ScanInitHolds, ScanNextHolds, PTL DEF ScanSpec
=============================================================================

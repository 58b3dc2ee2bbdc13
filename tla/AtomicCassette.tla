--------------------------- MODULE AtomicCassette ----------------------------
(***************************************************************************)
(* What saving promises: the cassette on disk is always one complete save, *)
(* replaced in a single step or not at all.                                *)
(***************************************************************************)
CONSTANTS Savers, Old, None

VARIABLES
    content,   \* whose save the cassette holds; Old, or None without a file
    status     \* of each saver

Init ==
    /\ content \in {Old, None}
    /\ status = [s \in Savers |-> "saving"]

Commit(s) ==
    /\ status[s] = "saving"
    /\ content' = s
    /\ status' = [status EXCEPT ![s] = "saved"]

(* An error that the caller sees, or a crash.                              *)
Abort(s) ==
    /\ status[s] = "saving"
    /\ \E why \in {"failed", "crashed"} : status' = [status EXCEPT ![s] = why]
    /\ content' = content

Next == \E s \in Savers : Commit(s) \/ Abort(s)

AtomicSpec == Init /\ [][Next]_<<content, status>>
=============================================================================

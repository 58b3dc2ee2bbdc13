--------------------------- MODULE MCGoTransport ---------------------------
(* A small instance of GoTransport: one class of requests, so that every   *)
(* two calls of a protocol compete for the same recording.                 *)
EXTENDS GoTransport

MCFiles ==
    { [http |-> <<>>, grpc |-> <<>>, ws |-> <<>>],
      [http |-> <<CHOOSE r \in Requests : TRUE>>,
       grpc |-> <<CHOOSE r \in Requests : TRUE>>, ws |-> <<>>],
      [http |-> <<>>, grpc |-> <<>>, ws |-> <<CHOOSE r \in Requests : TRUE>>] }

MCSymmetry == Permutations(Calls)
=============================================================================

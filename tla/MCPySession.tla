----------------------------- MODULE MCPySession -----------------------------
(* A small instance of PySession: one endpoint under two spellings of its  *)
(* URI that the normalizer collapses.                                      *)
EXTENDS PySession

MCMethods == {"GET"}
MCFold == [m \in MCMethods |-> 1]
MCLowerFold == [n \in {} |-> 1]

NoHeaders == [n \in {} |-> 0]
Empty == [core |-> 0, noise |-> 0, spelling |-> 0, kind |-> "none"]
Req(u) == [method |-> "GET", uri |-> u, headers |-> NoHeaders, body |-> Empty]

East == Req(2)
West == Req(1)

MCRequests == {East, West}
MCNormalize == [r \in MCRequests |-> West]
MCMatchOn == <<"method", "uri">>
MCFiles == {<<East, West>>}

MCSymmetry == Permutations(Threads)
=============================================================================

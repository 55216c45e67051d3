------------------------------ MODULE MCQuota ------------------------------
(* Instances of Quota for TLC: two streamed queries and a JSON query of    *)
(* one organization, on two connections, around a limit of two.            *)
EXTENDS Quota, TLC

CONSTANTS s1, s2, q1, c1, c2

MCRequests == {s1, s2, q1}
MCStreams == {s1, s2}
MCClients == {c1, c2}

\* The two streams are alike, and so are the connections.
Symmetry == Permutations(MCStreams) \cup Permutations(MCClients)

=============================================================================

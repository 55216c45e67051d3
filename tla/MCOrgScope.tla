----------------------------- MODULE MCOrgScope -----------------------------
(* Instances of OrgScope for TLC: two requests of one organization and one *)
(* of another share two connections.                                       *)
EXTENDS OrgScope

CONSTANTS r1, r2, r3, orgA, orgB, c1, c2

MCRequests == {r1, r2, r3}
MCOrgs == {orgA, orgB}
MCOrgOf == [r \in MCRequests |-> IF r = r3 THEN orgB ELSE orgA]
MCAudited == {r3}
MCSearching == {r1, r2}
MCUncaught == {r2}
MCClients == {c1, c2}

=============================================================================

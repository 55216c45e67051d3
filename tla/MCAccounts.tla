----------------------------- MODULE MCAccounts -----------------------------
(* One founder, one visitor with a browser, one organization each. *)
EXTENDS Team, TLC
CONSTANTS f, v, home, own, s1, s2
MCUsers == {f, v}
MCOrgs == {home, own}
MCSlots == {s1, s2}
MCSymmetry == Permutations(MCSlots)
============================================================================

---------------------------- MODULE MCBanStore ----------------------------
(* Two addresses and two requests at a time: small enough to be exhausted,   *)
(* large enough for a failure that was let in before the ban it outlives.    *)
EXTENDS BanStore, TLC

CONSTANTS a, b, r1, r2
MCIPs == {a, b}
MCRequests == {r1, r2}
Symmetry == Permutations(MCIPs) \cup Permutations(MCRequests)
===========================================================================

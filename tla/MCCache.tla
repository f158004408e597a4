------------------------------ MODULE MCCache ------------------------------
(* Instances of Cache for TLC.                                              *)
EXTENDS Cache, TLC

CONSTANTS k1, k2, c1, c2

\* Keys are alike and so are the clients; only safety is checked with this set.
Alike == Permutations(Keys) \cup Permutations(Clients)
=============================================================================

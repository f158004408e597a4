----------------------------- MODULE MCReplPool -----------------------------
(* Instances of ReplPool for TLC: two callers, two theorems of two files.    *)
EXTENDS ReplPool, TLC

CONSTANTS k1, k2, f1, f2

FileOf == (k1 :> f1) @@ (k2 :> f2)

\* Sessions are alike, callers are, and so are the two keys, as each has a file of
\* its own; no property that is checked with this set names one of them.
Alike == Permutations(Sessions) \cup Permutations(Callers) \cup Permutations(Keys)
=============================================================================

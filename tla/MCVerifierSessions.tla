------------------------ MODULE MCVerifierSessions ------------------------
EXTENDS VerifierSessions, TLC
Alike == Permutations(Callers) \cup Permutations(Keys)
=============================================================================

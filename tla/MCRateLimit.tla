----------------------------- MODULE MCRateLimit -----------------------------
EXTENDS RateLimit, TLC

Symmetry == Permutations(Caller) \cup Permutations(Key)
=============================================================================

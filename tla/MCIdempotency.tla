--------------------------- MODULE MCIdempotency ---------------------------
EXTENDS Idempotency, TLC

Symmetry == Permutations(Req) \cup Permutations(Key) \cup Permutations(Fingerprint)
=============================================================================

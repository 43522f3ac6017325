------------------------------- MODULE MCPool -------------------------------
EXTENDS Pool, TLC

Symmetry == Permutations(Conn) \cup Permutations(User)
=============================================================================

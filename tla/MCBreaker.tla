------------------------------ MODULE MCBreaker ------------------------------
EXTENDS Breaker, TLC

Symmetry == Permutations(Op)
=============================================================================

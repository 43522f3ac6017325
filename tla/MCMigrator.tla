----------------------------- MODULE MCMigrator -----------------------------
EXTENDS Migrator, TLC

Symmetry == Permutations(Runner) \cup Permutations(Content)
=============================================================================

-------------------------- MODULE MCReconciliation --------------------------
EXTENDS Reconciliation, TLC

Symmetry == Permutations(Workers)
=============================================================================

-------------------------- MODULE MCSubscriptions ---------------------------
EXTENDS Subscriptions, TLC

Symmetry == Permutations(Sessions)
=============================================================================

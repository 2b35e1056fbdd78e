---------------------------- MODULE MCWorkspace ----------------------------
EXTENDS Workspace, TLC

\* A plan without a place for more and the one with the highest limits.
MCPlans == {[thing \in Things |-> limit] : limit \in {0, MaxLimit}}

Symmetry ==
    Permutations(Groups) \cup Permutations(Campaigns) \cup Permutations(Slugs) \cup Permutations(Sessions)
=============================================================================

---------------------------- MODULE MCCampaign ----------------------------
\* Requests are interchangeable, and so are values of a setting.
EXTENDS Campaign, TLC

Symmetry == Permutations(Sessions) \cup Permutations(Values)
=============================================================================

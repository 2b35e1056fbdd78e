----------------------------- MODULE MCAccounts -----------------------------
EXTENDS Accounts, TLC

Symmetry == Permutations(Sessions) \cup Permutations(Users)
                \cup Permutations(Phones) \cup Permutations(Codes)
=============================================================================

----------------------------- MODULE MCApproval -----------------------------
EXTENDS ApprovalClaims, ApprovalInvariant, TLC

Symmetry ==
    Permutations(Receipts) \cup Permutations(PendingIds)
        \cup Permutations(TxnIds) \cup Permutations(Sessions)
=============================================================================

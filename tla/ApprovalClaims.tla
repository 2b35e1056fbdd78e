--------------------------- MODULE ApprovalClaims ---------------------------
(***************************************************************************)
(* What the comments and documents of the repository say of the inbox and  *)
(* the ledger, stated over the requests of module Approval.  The runs of   *)
(* module MCApproval show how far the code keeps it, and how it fails.     *)
(***************************************************************************)
EXTENDS Approval

\* docs/api/system_Scope_constraints.md:41-43: a transaction cannot be approved twice;
\* service.py:51: the lock prevents double approvals.  A payment has one approved entry,
\* or the parts of one split.
ApprovedOnce ==
    \A t, u \in TxnIds :
        /\ t # u /\ Live(t) /\ Live(u)
        /\ txn[t].receipt = txn[u].receipt
        => txn[t].part # txn[u].part /\ txn[t].part # 0 /\ txn[u].part # 0

\* service.py:464, 484: undo reverts an approved transaction to the pending state and
\* deletes the resulting entry, so the step that reopens an approved payment leaves
\* nothing of it in the ledger.
UndoEmptiesLedger ==
    [][\A p \in PendingIds :
         /\ pending[p].st \in {"approved", "split_approved"}
         /\ pending'[p].st = "pending"
         => ~ \E t \in TxnIds : /\ Live(t)'
                                /\ txn'[t].receipt = pending[p].receipt]_vars

\* service.py:24-26: once approved, a transaction is permanently recorded with a seal.
ApprovedIsRecorded ==
    \A p \in PendingIds :
        pending[p].st = "approved" =>
            \E t \in TxnIds : /\ Live(t)
                              /\ txn[t].receipt = pending[p].receipt
                              /\ txn[t].seal # NoSeal

-----------------------------------------------------------------------------

\* The treasurer tries again and again to approve what is still in the inbox.
PersistentSpec ==
    FairSpec /\ \A p \in PendingIds : SF_vars(\E s \in Sessions : ApproveLock(s, p))

\* service.py:90-91, 99: an approval that finds its entry recorded by an earlier attempt is
\* to "find the existing one and continue", and to mark the inbox row as processed.  So once
\* no attempt is cut off any more, what is approved again and again leaves the inbox.
InboxEmpties ==
    <>[][\A s \in Sessions : Abandon(s) => Continue(s)]_vars
        => \A p \in PendingIds : (pending[p].st = "pending") ~> (pending[p].st # "pending")

=============================================================================

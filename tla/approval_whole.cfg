SPECIFICATION Spec
CONSTANTS
    Receipts = {r1, r2}
    PendingIds = {p1, p2}
    TxnIds = {t1, t2, t3, t4, t5}
    Sessions = {s1, s2}
    Parts = 2
    Ops = {"ingest", "manual", "approve", "reject", "undo", "clear"}
    Faults = {"crash"}
    Amounts = {"cents"}
    NoCode = NoCode
    None = None
INVARIANTS
    ApprovedOnce
    ApprovedIsRecorded
PROPERTY UndoEmptiesLedger
SYMMETRY Symmetry
\* The inbox and the ledger are bounded: a run ends when no key is left.
CHECK_DEADLOCK FALSE

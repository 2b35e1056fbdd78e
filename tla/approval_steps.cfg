SPECIFICATION FairSpec
CONSTANTS
    Receipts = {r1}
    PendingIds = {p1}
    TxnIds = {t1, t2, t3}
    Sessions = {s1, s2}
    Parts = 2
    Ops = {"ingest", "manual", "approve", "split", "edit", "reject", "undo", "correct", "clear"}
    Faults = {"learner"}
    Amounts = {"cents", "finer"}
    NoCode = NoCode
    None = None
INVARIANT SealHolds
PROPERTIES
    RequestEnds
    ImplementsLedger
\* The inbox and the ledger are bounded: a run ends when no key is left.
CHECK_DEADLOCK FALSE

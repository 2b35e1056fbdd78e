SPECIFICATION Spec
CONSTANTS
    Receipts = {r1}
    PendingIds = {p1, p2}
    TxnIds = {t1, t2, t3, t4}
    Sessions = {s1, s2}
    Parts = 2
    Ops = {"ingest", "manual", "approve", "split", "edit", "reject", "undo", "correct", "clear"}
    Faults = {"learner", "crash"}
    Amounts = {"cents"}
    NoCode = NoCode
    None = None
INVARIANTS
    IInv
    CountedOnce
    SplitWhole
    UnsealedIsTorn
    SupersededIsReplaced
SYMMETRY Symmetry
\* The inbox and the ledger are bounded: a run ends when no key is left.
CHECK_DEADLOCK FALSE

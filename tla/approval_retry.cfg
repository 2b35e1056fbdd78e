SPECIFICATION PersistentSpec
CONSTANTS
    Receipts = {r1}
    PendingIds = {p1}
    TxnIds = {t1, t2, t3}
    Sessions = {s1, s2}
    Parts = 2
    Ops = {"ingest", "approve"}
    Faults = {"crash"}
    Amounts = {"cents"}
    NoCode = NoCode
    None = None
PROPERTY InboxEmpties
\* The inbox and the ledger are bounded: a run ends when no key is left.
CHECK_DEADLOCK FALSE

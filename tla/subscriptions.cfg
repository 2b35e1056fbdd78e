SPECIFICATION FairSpec
CONSTANTS
    Checkouts = {c1}
    Cards = {}
    Sessions = {s1, s2}
    Period = 2
    Trial = 1
    Horizon = 3
    MaxEnd = 3
    MaxRefunds = 1
    None = None
INVARIANTS
    BooksAgree
    CreditBound
PROPERTIES
    PaidIsCredited
    ExpiredIsDowngraded
\* The clock is bounded: a run ends when it has reached the horizon.
CHECK_DEADLOCK FALSE

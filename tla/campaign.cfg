SPECIFICATION Spec
CONSTANTS
    Sessions = {s1, s2}
    Values = {on, off}
    Absent = Absent
    Amounts = {1, 2}
    Targets = {0, 2}
    MaxRaised = 3
SYMMETRY Symmetry
INVARIANTS
    AcknowledgedIsKept
    CurrencySettled
    GoalNotSpammed

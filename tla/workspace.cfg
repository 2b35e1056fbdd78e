SPECIFICATION Spec
CONSTANTS
    Groups = {g1, g2}
    Campaigns = {c1, c2, c3}
    Slugs = {a, b}
    Sessions = {s1, s2}
    Plans <- MCPlans
    MaxLimit = 1
    None = None
INVARIANTS
    WithinPlan
    SlugsUnique
    NothingOrphaned
SYMMETRY Symmetry

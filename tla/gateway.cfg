SPECIFICATION FairSpec
CONSTANTS
    Phones = {p1}
    Messages = {m1, m2}
    Kinds = {"batch", "group"}
    Workers = {w1, w2}
    BlockAt = 2
    Limit = 1
    MaxMade = 0
    None = None
INVARIANTS
    BlockIsEarned
    GroupsBounded
PROPERTIES
    RegisteredIsServed

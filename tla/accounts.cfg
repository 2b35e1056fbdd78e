SPECIFICATION Spec
CONSTANTS
    Users = {u1, u2}
    Phones = {p1, p2}
    Codes = {k1, k2}
    Tokens = {}
    Sessions = {s1, s2}
    Purposes = {"registration", "2fa_login"}
    CodeLife = 1
    None = None
SYMMETRY Symmetry
INVARIANTS
    TypeOK
    NumberIsOwned
    CodesBounded
    UnsubscribedIsCut

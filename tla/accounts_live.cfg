SPECIFICATION FairSpec
CONSTANTS
    Users = {u1}
    Phones = {p1}
    Codes = {k1, k2, k3}
    Tokens = {t1}
    Sessions = {s1, s2}
    Purposes = {"registration"}
    CodeLife = 1
    None = None
INVARIANTS
    LoggedOutStaysOut
PROPERTIES
    RegistrantGetsIn

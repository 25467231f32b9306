SPECIFICATION QuietWithdrawalSpec
CONSTANTS
    f1 = f1
    f2 = f2
    s1 = s1
    s2 = s2
    Fam = {f1, f2}
    RT = {r1, r2}
    AT = {a1, a2}
    Req = {q1}
    NULL = NULL
    Scope = {s1, s2}
    Asked <- AskedOf
PROPERTIES
    RevokingStopsAccess
SYMMETRY Symmetry

SPECIFICATION SessionSpec
CONSTANTS
    Fam = {f1}
    RT = {r1, r2}
    AT = {a1, a2}
    Req = {q1, q2}
    NULL = NULL
PROPERTIES
    RefreshIsTransparent
CHECK_DEADLOCK FALSE

SPECIFICATION QuietCleanupSpec
CONSTANTS
    Fam = {f1}
    RT = {r1, r2, r3}
    AT = {a1, a2, a3}
    Req = {q1}
    NULL = NULL
PROPERTIES
    AccessTokensDieWithFamily
SYMMETRY Symmetry
CHECK_DEADLOCK FALSE

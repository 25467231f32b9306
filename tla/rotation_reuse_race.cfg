SPECIFICATION RaceSpec
CONSTANTS
    Fam = {f1}
    RT = {r1, r2, r3}
    AT = {a1, a2, a3}
    Req = {q1, q2}
    NULL = NULL
PROPERTIES
    ReuseRevokesEntireFamily
SYMMETRY Symmetry
CHECK_DEADLOCK FALSE

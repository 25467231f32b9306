SPECIFICATION ScopesSpec
CONSTANTS
    Scope = {s1, s2}
    Code = {c1}
    Key = {k1}
    Refresh = {t1}
    Access = {b1}
    Asker = {q1}
    Saver = {m1}
    MaxCalls = 2
PROPERTIES
    KeyKeepsWhatClientKeeps
CHECK_DEADLOCK FALSE

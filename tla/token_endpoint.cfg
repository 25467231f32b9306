SPECIFICATION EndpointSpec
CONSTANTS
    Fam = {f1}
    RT = {r1, r2}
    AT = {a1, a2}
    Req = {q1, q2}
    NULL = NULL
    Scope = {s1, s2}
    FirstScope = s1
    Code = {c1}
    Key = {k1}
    Refresh = {t1}
    Access = {b1}
    Asker = {q3}
    Saver = {m1, m2}
    MaxCalls = 3
    Caller = {q4, q5}
    Rotator = {m3, m4}
    MaxRotations = 3
    Exchanger = {q6, q7}
    Revoker = {u1, u2}
    MaxMinted = 4
    MaxGrants = 2
    Registrant = {q8, q9}
    LimitPerDay = 2
    LastDay = 1
    MaxPerDay = 4
INVARIANTS
    EndpointTypeOK
    StaysSignedIn
    UngrantedStaysGone
    AnswersHoldTheirScopes
    SavedListIsExact
    OnlyPlaintextRevives
    RevivalsBounded
    NoSilentKey
    LateMintsBounded
    BudgetIsExact
PROPERTIES
    CascadeTerminates
CHECK_DEADLOCK FALSE

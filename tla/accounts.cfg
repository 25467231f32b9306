SPECIFICATION AccountsSpec
CONSTANTS
    p1 = p1
    p2 = p2
    Link = {l1, l2, l3}
    Resetter = {p1, p2}
    MaxChange = 2
    NoLink = NoLink
    Proc = {o1, o2, o3}
    MaxAttempts = 3
    MaxDeaths = 2
    Tab = {p1, p2}
    Login = {p1, p2}
    MaxSecrets = 3
    Address = {x1, x2}
    FirstAddress = x1
    MailCode = {m1}
    Editor = {e1}
    Requester = {q1}
    Prover = {v1}
    Patch <- SinglePatches
    Challenge = {h1, h2}
    Verifier = {p1, p2}
    Enroller = {n1}
    Person = {u1, u2}
    Action = {p1, p2}
    Visit = {s1}
    Interval = 1
    FirstExt = png
    Ext = {png, jpg}
    Upload = {u1, u2}
    Former = {p1, p2}
    Changer = {z1, z2, z3}
    Policy = {w1}
    Environment = {y1}
    Length = {1, 2}
    NewRules <- SomeRules
    RulePatch <- SomePatches
    PolicySaver = {p1, p2}
    Name = {n2}
    Reader = {p1, p2}
    Deleter = {c1}
    TTL = 3
INVARIANTS
    AccountsTypeOK
    OutstandingBounded
    OnlyLegacyRevives
    GuessesBounded
    AcceptedBounded
    ConfirmedWasShown
    SignInCodesWereShown
    UnprovedOnlyByRace
    ReplaysBounded
    CounterIsHighest
    RemovedSignsIn
    AnAdministratorRemains
    ShownWasSubmitted
    LastSaveIsShown
    SavesKeepSignInOpen
    PolicyCanBeMet
    ServedIsRecent
PROPERTIES
    SpentLinkRefused
    LostRankIsShort
SYMMETRY Symmetry
CHECK_DEADLOCK FALSE

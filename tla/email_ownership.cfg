SPECIFICATION EmailSpec
CONSTANTS
    Address = {x1, x2}
    MailCode = {m1}
    Editor = {e1}
    Requester = {q1}
    Prover = {v1}
    Patch <- SinglePatches
INVARIANTS
    VerifiedAddressWasProved
CHECK_DEADLOCK FALSE

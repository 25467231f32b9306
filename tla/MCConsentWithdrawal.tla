------------------------- MODULE MCConsentWithdrawal -------------------------
\* Small instances of ConsentWithdrawal for TLC.
EXTENDS ConsentWithdrawal, TLC

CONSTANTS f1, f2, s1, s2

\* The second authorization asks for one scope the first did not.
AskedOf == (f1 :> {s1}) @@ (f2 :> {s2})

\* Ids are random and interchangeable; the families are told apart by Asked.
Symmetry == Permutations(RT) \cup Permutations(AT) \cup Permutations(Req)

\* A withdrawal and the token endpoint never overlap.
QuietWithdrawalSpec ==
    ConsentInit /\ [][\/ TokenStep /\ wd.pc = "idle"
                      \/ ConsentStep /\ \A q \in Req : req[q].pc = "idle"]_allVars
=============================================================================

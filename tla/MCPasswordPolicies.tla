------------------------- MODULE MCPasswordPolicies -------------------------
\* Small instances of PasswordPolicies for TLC.
EXTENDS PasswordPolicies

Rules(lo, hi) == [min |-> lo, max |-> hi]

\* With and without a maximum, which is then lowered, removed or kept while the
\* minimum is raised or kept.
SomeRules == {Rules(1, 1), Rules(1, 0)}

SomePatches == {Rules(Keep, Keep), Rules(2, Keep), Rules(Keep, 1), Rules(Keep, NoMax)}
=============================================================================

--------------------------- MODULE MCPasswordReset ---------------------------
\* Small instances of PasswordReset for TLC.
EXTENDS PasswordReset, TLC

\* Ids are random and interchangeable.
Symmetry == Permutations(Link) \cup Permutations(Resetter)
=============================================================================

------------------------- MODULE MCEmailVerification -------------------------
\* Small instances of EmailVerification for TLC.
EXTENDS EmailVerification

\* The edits of a user that change one field.
Single(e, v, a) == [email |-> e, verified |-> v, admin |-> a]

SinglePatches ==
    {Single(a, "keep", "keep") : a \in Address \cup {"none"}}
        \cup {Single("keep", "clear", "keep"), Single("keep", "keep", "set"),
              Single("keep", "keep", "clear")}
=============================================================================

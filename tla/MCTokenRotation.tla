--------------------------- MODULE MCTokenRotation ---------------------------
\* Small instances of TokenRotation for TLC.
EXTENDS TokenRotation, TLC

\* Ids are random and interchangeable: no action or property orders them.
Symmetry == Permutations(RT) \cup Permutations(AT) \cup Permutations(Req)
              \cup Permutations(Fam)

\* Requests only, for the interleavings of rotations and cascades on longer
\* chains: nothing lapses, nothing is deleted, no gate changes.
RaceSpec == Init /\ [][Requests \/ \E f \in Fam : Authorize(f)]_vars

\* The cron runs between requests only: what follows from cleanup alone,
\* without a race inside a request.
QuietCleanupSpec ==
    Init /\ [][\/ Requests
               \/ \E f \in Fam : Authorize(f)
               \/ Cleanup /\ \A q \in Req : req[q].pc = "idle"]_vars
=============================================================================

----------------------------- MODULE GrantFamily -----------------------------
(***************************************************************************)
(* What the token endpoint promises for one grant, with the tables left    *)
(* out.  A grant goes from an authorization code (or directly, for the     *)
(* client_credentials grant) to a session; a session is renewed by handing *)
(* it on; it may end at any time and then never comes back.                *)
(***************************************************************************)
CONSTANT Fam

VARIABLE stage    \* stage[f] of the grant f

Stages == {"none", "code", "minting", "session", "over"}

GrantTypeOK == stage \in [Fam -> Stages]

GrantInit == stage = [f \in Fam |-> "none"]

Move(f, from, to) ==
    /\ stage[f] = from
    /\ stage' = [stage EXCEPT ![f] = to]

Issue(f) == Move(f, "none", "code")        \* a code is issued
Open(f) == Move(f, "none", "minting")      \* client_credentials
Redeem(f) == Move(f, "code", "minting")    \* the code is used up
Establish(f) == Move(f, "minting", "session")
Rotate(f) == Move(f, "session", "minting") \* the refresh token is used up

\* Expiry, revocation, deletion, a cascade, a failed request: several grants
\* may end in one step (cleanup).
End(S) ==
    /\ \A f \in S : stage[f] \in {"code", "minting", "session"}
    /\ stage' = [f \in Fam |-> IF f \in S THEN "over" ELSE stage[f]]

GrantNext ==
    \/ \E f \in Fam : Issue(f) \/ Open(f) \/ Redeem(f) \/ Establish(f) \/ Rotate(f)
    \/ \E S \in SUBSET Fam : End(S)

Spec == GrantInit /\ [][GrantNext]_stage
=============================================================================

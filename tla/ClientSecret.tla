---------------------------- MODULE ClientSecret ----------------------------
(***************************************************************************)
(* The secret of one confidential client: clients.client_secret, which is  *)
(* plaintext in rows written before the HMAC key existed.  A token request *)
(* that proves a plaintext secret replaces it by its hash (authenticate-   *)
(* Client in services/oauth-token.service.ts) while an administrator may   *)
(* rotate it (rotateSecret in services/client.service.ts).  Both write     *)
(* with the same UPDATE, which tests nothing.                              *)
(***************************************************************************)
EXTENDS Naturals, FiniteSets

CONSTANTS
    Caller,         \* token requests in flight at the same time
    Rotator,        \* administrators
    MaxRotations    \* bound of the model: how many secrets are generated

ASSUME CallerAssumption == IsFiniteSet(Caller)

ASSUME MaxRotationsAssumption == MaxRotations \in Nat

VARIABLES
    stored,     \* the column: which secret, and whether in plaintext
    caller,     \* caller[p]: the secret a request is about to write hashed
    rotator,    \* rotator[r]: the secret a rotation is about to write
    generated,  \* secrets are numbered as they are generated, the first is 0
    newest,     \* history: the secret the last rotation wrote
    revivals    \* history: how often a request has put an older one back

secretVars == <<stored, caller, rotator, generated, newest, revivals>>

Secret == 0 .. MaxRotations

None == MaxRotations + 1

Upgrading == {p \in Caller : caller[p] # None}

SecretTypeOK ==
    /\ stored \in [secret : Secret, plain : BOOLEAN]
    /\ caller \in [Caller -> Secret \cup {None}]
    /\ rotator \in [Rotator -> Secret \cup {None}]
    /\ generated \in Secret /\ newest \in Secret /\ revivals \in Nat

SecretInit ==
    /\ stored \in [secret : {0}, plain : BOOLEAN]
    /\ caller = [p \in Caller |-> None]
    /\ rotator = [r \in Rotator |-> None]
    /\ generated = 0 /\ newest = 0 /\ revivals = 0

\* Broken variant: every stored secret is written again.
AnyRow(row) == TRUE

NeedsUpgrade(row) == row.plain

\* verifyClientSecretAgainstStored: the secret presented is the one stored.
\* Any other is refused, which changes nothing.
Authenticate(p) ==
    /\ caller[p] = None
    /\ NeedsUpgrade(stored)
    /\ caller' = [caller EXCEPT ![p] = stored.secret]
    /\ UNCHANGED <<stored, rotator, generated, newest, revivals>>

\* updateSecret with the hash of what the request has proved.
Upgrade(p) ==
    /\ caller[p] # None
    /\ stored' = [secret |-> caller[p], plain |-> FALSE]
    /\ revivals' = IF caller[p] # stored.secret THEN revivals + 1 ELSE revivals
    /\ caller' = [caller EXCEPT ![p] = None]
    /\ UNCHANGED <<rotator, generated, newest>>

\* The request dies before it upgrades.
CallerDies(p) ==
    /\ caller[p] # None
    /\ caller' = [caller EXCEPT ![p] = None]
    /\ UNCHANGED <<stored, rotator, generated, newest, revivals>>

GenerateSecret(r) ==
    /\ rotator[r] = None /\ generated < MaxRotations
    /\ generated' = generated + 1
    /\ rotator' = [rotator EXCEPT ![r] = generated + 1]
    /\ UNCHANGED <<stored, caller, newest, revivals>>

\* Broken variant: the new secret is stored as it is.
StoredPlain(s) == [secret |-> s, plain |-> TRUE]

StoredHashed(s) == [secret |-> s, plain |-> FALSE]

\* updateSecret with the new hash; the secret is then shown, or the request
\* dies and nobody knows it.
RotateSecret(r) ==
    /\ rotator[r] # None
    /\ stored' = StoredHashed(rotator[r])
    /\ newest' = rotator[r]
    /\ rotator' = [rotator EXCEPT ![r] = None]
    /\ UNCHANGED <<caller, generated, revivals>>

SecretNext ==
    \/ \E p \in Caller : Authenticate(p) \/ Upgrade(p) \/ CallerDies(p)
    \/ \E r \in Rotator : GenerateSecret(r) \/ RotateSecret(r)

SecretSpec == SecretInit /\ [][SecretNext]_secretVars

-----------------------------------------------------------------------------
(* Properties.                                                             *)

\* Whatever overlaps, only the one secret that was in plaintext can come back
\* after a rotation: never one that a rotation had generated.
OnlyPlaintextRevives == stored.secret \in {newest, 0}

\* It comes back at most once per request that was in flight when the column
\* was first written; once those are gone every rotation stands.
RevivalsBounded ==
    /\ stored.plain => revivals = 0
    /\ revivals + Cardinality(Upgrading) <= Cardinality(Caller)

\* The inductive invariant: what is being upgraded is the plaintext secret.
SecretInv ==
    /\ SecretTypeOK /\ OnlyPlaintextRevives /\ RevivalsBounded
    /\ \A p \in Upgrading : caller[p] = 0
    /\ stored.plain => stored.secret = 0 /\ newest = 0
=============================================================================

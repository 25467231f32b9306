------------------------------- MODULE ApiKey -------------------------------
(***************************************************************************)
(* One API key that a user creates for himself: its announced creation,    *)
(* its revocation, and the exchanges that mint access tokens with it       *)
(* (services/api-key.service.ts, exchangeApiKey in oauth-token.service.ts  *)
(* and POST /api/token/api-key).  An exchange reads the key, then client,  *)
(* user and environment grants, and inserts the token last; an Argon2      *)
(* verification lies in between.  The scopes of the key are ScopeGrants'.  *)
(***************************************************************************)
EXTENDS Naturals, FiniteSets

CONSTANTS
    Exchanger,  \* exchanges in flight at the same time
    Revoker,    \* owners and administrators who revoke it
    MaxMinted,  \* bound of the model: tokens minted
    MaxGrants   \* bound of the model: how often access is given back

ASSUME ExchangerAssumption == IsFiniteSet(Exchanger)

ASSUME MintAssumption == MaxMinted \in Nat /\ MaxGrants \in Nat

VARIABLES
    keyRow,     \* the row of api_keys
    revoked,    \* revoked_at is set
    expired,    \* expires_at has passed
    creation,   \* what the creating request does next
    mailed,     \* history: the owner has been told
    revoker,    \* revoker[r]: has read the key as not revoked
    access,     \* the owner may use the environment of the client
    grants,     \* history: how often access was given back
    exchange,   \* exchange[p]: what an exchange does next
    entitled,   \* history: access was there at some moment of exchange p
    minted,     \* history: tokens minted
    late        \* history: tokens minted after the key was revoked or gone

createVars == <<creation, mailed>>

exchangeVars == <<exchange, entitled, minted, late>>

keyVars == <<keyRow, revoked, expired, createVars, revoker, access, grants, exchangeVars>>

InFlight == {p \in Exchanger : exchange[p] # "idle"}

Ended == keyRow = "deleted" \/ revoked \/ expired

KeyTypeOK ==
    /\ keyRow \in {"none", "there", "deleted"}
    /\ revoked \in BOOLEAN /\ expired \in BOOLEAN /\ mailed \in BOOLEAN /\ access \in BOOLEAN
    /\ creation \in {"create", "notify", "revoke", "delivered", "failed", "dead"}
    /\ revoker \in [Revoker -> BOOLEAN]
    /\ exchange \in [Exchanger -> {"idle", "check", "mint"}]
    /\ entitled \in [Exchanger -> BOOLEAN]
    /\ minted \in 0 .. MaxMinted /\ late \in 0 .. minted /\ grants \in 0 .. MaxGrants

KeyInit ==
    /\ keyRow = "none" /\ revoked = FALSE /\ expired = FALSE
    /\ creation = "create" /\ mailed = FALSE
    /\ revoker = [r \in Revoker |-> FALSE]
    /\ access = TRUE /\ grants = 0
    /\ exchange = [p \in Exchanger |-> "idle"]
    /\ entitled = [p \in Exchanger |-> FALSE]
    /\ minted = 0 /\ late = 0

-----------------------------------------------------------------------------
(* Creation.                                                               *)

\* The batch of ScopeGrants, in one piece.
CreateKey ==
    /\ creation = "create"
    /\ keyRow' = "there"
    /\ creation' = "notify"
    /\ UNCHANGED <<revoked, expired, mailed, revoker, access, grants, exchangeVars>>

\* Broken variant: a mail that cannot be sent does not matter.
DeliverAnyway == "delivered"

AfterFailedMail == "revoke"

\* sendCreatedNotification; only then is the secret answered.
NotifyOwner ==
    /\ creation = "notify"
    /\ \/ mailed' = TRUE /\ creation' = "delivered"
       \/ mailed' = FALSE /\ creation' = AfterFailedMail
    /\ UNCHANGED <<keyRow, revoked, expired, revoker, access, grants, exchangeVars>>

\* UPDATE ... SET revoked_at = ? WHERE id = ? AND revoked_at IS NULL.
RevokeRow == revoked' = (revoked \/ keyRow = "there")

RevokeUnannounced ==
    /\ creation = "revoke"
    /\ RevokeRow
    /\ creation' = "failed"
    /\ UNCHANGED <<keyRow, expired, mailed, revoker, access, grants, exchangeVars>>

\* The creating request dies: the key stays, with a secret nobody was told.
CreatorDies ==
    /\ creation \in {"notify", "revoke"}
    /\ creation' = "dead"
    /\ UNCHANGED <<keyRow, revoked, expired, mailed, revoker, access, grants, exchangeVars>>

-----------------------------------------------------------------------------
(* Revocation, and what else ends a key.                                   *)

ReadForRevocation(r) ==
    /\ keyRow = "there" /\ ~ revoked /\ ~ revoker[r]
    /\ revoker' = [revoker EXCEPT ![r] = TRUE]
    /\ UNCHANGED <<keyRow, revoked, expired, createVars, access, grants, exchangeVars>>

RevokeKey(r) ==
    /\ revoker[r]
    /\ RevokeRow
    /\ revoker' = [revoker EXCEPT ![r] = FALSE]
    /\ UNCHANGED <<keyRow, expired, createVars, access, grants, exchangeVars>>

Expire ==
    /\ keyRow = "there" /\ ~ expired
    /\ expired' = TRUE
    /\ UNCHANGED <<keyRow, revoked, createVars, revoker, access, grants, exchangeVars>>

\* The owner or the client is deleted, and the key with it.
DeleteOwner ==
    /\ keyRow = "there"
    /\ keyRow' = "deleted"
    /\ UNCHANGED <<revoked, expired, createVars, revoker, access, grants, exchangeVars>>

\* setUserEnvironments takes the environment of the client away, or gives it.
ChangeAccess ==
    /\ \/ access /\ UNCHANGED grants
       \/ ~ access /\ grants < MaxGrants /\ grants' = grants + 1
    /\ access' = ~ access
    /\ entitled' = [p \in Exchanger |-> entitled[p] \/ (exchange[p] # "idle" /\ access')]
    /\ UNCHANGED <<keyRow, revoked, expired, createVars, revoker, exchange, minted, late>>

-----------------------------------------------------------------------------
(* Exchange.                                                               *)

\* Broken variant: whether the key was revoked is not asked.
NotExpired == keyRow = "there" /\ ~ expired

Usable == keyRow = "there" /\ ~ revoked /\ ~ expired

\* getByKeyId; the secret is known only once the creation has answered.
PresentKey(p) ==
    /\ exchange[p] = "idle" /\ creation = "delivered" /\ Usable
    /\ exchange' = [exchange EXCEPT ![p] = "check"]
    /\ entitled' = [entitled EXCEPT ![p] = access]
    /\ UNCHANGED <<keyRow, revoked, expired, createVars, revoker, access, grants, minted, late>>

HasAccess == access

\* Client and user are read, and the environment grants of the user.
CheckOwner(p) ==
    /\ exchange[p] = "check"
    /\ exchange' = [exchange EXCEPT
                      ![p] = IF keyRow = "there" /\ HasAccess THEN "mint" ELSE "idle"]
    /\ UNCHANGED <<keyRow, revoked, expired, createVars, revoker, access, grants,
                   entitled, minted, late>>

\* INSERT INTO tokens with api_key_id, whose foreign key needs the row.
MintFromKey(p) ==
    /\ exchange[p] = "mint"
    /\ \/ /\ keyRow = "there" /\ minted < MaxMinted
          /\ minted' = minted + 1
          /\ late' = IF Ended THEN late + 1 ELSE late
       \/ /\ keyRow # "there"
          /\ UNCHANGED <<minted, late>>
    /\ exchange' = [exchange EXCEPT ![p] = "idle"]
    /\ UNCHANGED <<keyRow, revoked, expired, createVars, revoker, access, grants, entitled>>

ExchangeDies(p) ==
    /\ exchange[p] # "idle"
    /\ exchange' = [exchange EXCEPT ![p] = "idle"]
    /\ UNCHANGED <<keyRow, revoked, expired, createVars, revoker, access, grants,
                   entitled, minted, late>>

KeyNext ==
    \/ CreateKey \/ NotifyOwner \/ RevokeUnannounced \/ CreatorDies
    \/ Expire \/ DeleteOwner \/ ChangeAccess
    \/ \E r \in Revoker : ReadForRevocation(r) \/ RevokeKey(r)
    \/ \E p \in Exchanger :
          PresentKey(p) \/ CheckOwner(p) \/ MintFromKey(p) \/ ExchangeDies(p)

KeySpec == KeyInit /\ [][KeyNext]_keyVars

-----------------------------------------------------------------------------
(* Properties.                                                             *)

\* A key whose secret was handed out has been announced to its owner; one that
\* could not be announced is revoked, by whomever, before the caller hears so.
NoSilentKey ==
    /\ creation = "delivered" => mailed
    /\ creation = "failed" => Ended

\* After its end a key mints only for exchanges that had read it before, each
\* of them once; and never for one whose owner had access to the environment at
\* no moment of that exchange, however often access comes and goes.
LateMintsBounded ==
    /\ ~ Ended => late = 0
    /\ Ended => late + Cardinality(InFlight) <= Cardinality(Exchanger)
    /\ \A p \in Exchanger : exchange[p] = "mint" => entitled[p]
=============================================================================

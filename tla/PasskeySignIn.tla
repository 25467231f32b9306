---------------------------- MODULE PasskeySignIn ----------------------------
(***************************************************************************)
(* One passkey: its row in user_passkeys, the challenges in                *)
(* passkey_challenges that its device signs, and the exchange tokens that  *)
(* carry a verified signature to the sign-in (services/passkey.service.ts  *)
(* and the passkey provider of auth.ts).  A verification reads the         *)
(* challenge and then the row, and only after the signature has been       *)
(* checked against both writes the counter, deletes the challenge and      *)
(* issues the token, each in a call of its own.                            *)
(***************************************************************************)
EXTENDS Naturals, FiniteSets

CONSTANTS
    Challenge,      \* authentication challenges
    Verifier,       \* verifications in flight at the same time
    Enroller        \* registrations in flight at the same time

ASSUME VerifierAssumption == IsFiniteSet(Verifier)

ASSUME ChallengeAssumption == IsFiniteSet(Challenge) /\ Challenge # {}

VARIABLES
    credential,     \* the row: whether it is there, and its counter
    device,         \* the device: whether it counts, and its counter
    challenge,      \* challenge[c]: its row, what it is for, and the counter
                    \* that the device signed with it
    verify,         \* verify[v]: the call made next, for which challenge, and
                    \* the counter read
    enrol,          \* enrol[r]: the call a registration makes next
    invitation,     \* the row of the registration challenge
    tokens,         \* tokens[c]: live exchange tokens issued for a challenge
    sessions,       \* history: sessions[c]: sign-ins by those tokens
    highest,        \* history: the highest counter that was written
    crossing,       \* history: a counter was written over one it had not read
    owed            \* history: what was in flight when the passkey was removed

passkeyVars == <<credential, device, challenge, verify, enrol, invitation, tokens,
                 sessions, highest, crossing, owed>>

MaxCount == Cardinality(Challenge)

NoChallenge == [row |-> "unused", use |-> "sign-in", signed |-> 0, made |-> FALSE]

NotVerifying(c) == [pc |-> "idle", challenge |-> c, read |-> 0]

At(pcs) == {v \in Verifier : verify[v].pc \in pcs}

\* Verifications that have read the row, of one challenge and of any.
PastRead == At({"count", "delete", "issue"})

Reading(c) == {v \in At({"find", "count", "delete", "issue"}) : verify[v].challenge = c}

\* What f counts, one item for each: tokens, or sessions, of every challenge.
Items(f) == UNION {{c} \X (1 .. f[c]) : c \in Challenge}

TotalOf(f) == Cardinality(Items(f))

PasskeyTypeOK ==
    /\ credential \in [there : BOOLEAN, counter : 0 .. MaxCount]
    /\ device \in [counts : BOOLEAN, counter : 0 .. MaxCount]
    /\ challenge \in [Challenge -> [row : {"unused", "live", "lapsed", "gone"},
                                    use : {"sign-in", "availability"},
                                    signed : 0 .. MaxCount, made : BOOLEAN]]
    /\ verify \in [Verifier -> [pc : {"idle", "find", "count", "delete", "issue", "drop"},
                                challenge : Challenge, read : 0 .. MaxCount]]
    /\ enrol \in [Enroller -> {"idle", "insert", "delete"}]
    /\ invitation \in {"live", "gone"}
    /\ tokens \in [Challenge -> Nat] /\ sessions \in [Challenge -> Nat]
    /\ highest \in 0 .. MaxCount /\ crossing \in BOOLEAN /\ owed \in Nat

PasskeyInit ==
    /\ credential = [there |-> FALSE, counter |-> 0]
    /\ device \in [counts : BOOLEAN, counter : {0}]
    /\ challenge = [c \in Challenge |-> NoChallenge]
    /\ verify \in [Verifier -> {NotVerifying(CHOOSE c \in Challenge : TRUE)}]
    /\ enrol = [r \in Enroller |-> "idle"] /\ invitation = "live"
    /\ tokens = [c \in Challenge |-> 0] /\ sessions = [c \in Challenge |-> 0]
    /\ highest = 0 /\ crossing = FALSE /\ owed = 0

Proceed(v, pc) == verify' = [verify EXCEPT ![v].pc = pc]

-----------------------------------------------------------------------------
(* Registration: verifyAndStoreRegistration, and removePasskey.            *)

BeginEnrol(r) ==
    /\ enrol[r] = "idle" /\ invitation = "live"
    /\ enrol' = [enrol EXCEPT ![r] = "insert"]
    /\ UNCHANGED <<credential, device, challenge, verify, invitation, tokens, sessions,
                   highest, crossing, owed>>

\* credential_id is UNIQUE: the second INSERT of the same passkey is refused.
InsertCredential(r) ==
    /\ enrol[r] = "insert"
    /\ IF credential.there
       THEN /\ enrol' = [enrol EXCEPT ![r] = "idle"]
            /\ UNCHANGED <<credential, highest, crossing>>
       ELSE /\ enrol' = [enrol EXCEPT ![r] = "delete"]
            /\ credential' = [there |-> TRUE, counter |-> 0]
            /\ highest' = 0 /\ crossing' = FALSE
    /\ UNCHANGED <<device, challenge, verify, invitation, tokens, sessions, owed>>

DeleteInvitation(r) ==
    /\ enrol[r] = "delete"
    /\ invitation' = "gone"
    /\ enrol' = [enrol EXCEPT ![r] = "idle"]
    /\ UNCHANGED <<credential, device, challenge, verify, tokens, sessions, highest,
                   crossing, owed>>

\* The deletion of the row, also by the cascade of its user.
RemovePasskey ==
    /\ credential.there
    /\ credential' = [there |-> FALSE, counter |-> 0]
    /\ owed' = TotalOf(tokens) + TotalOf(sessions) + Cardinality(PastRead)
    /\ UNCHANGED <<device, challenge, verify, enrol, invitation, tokens, sessions,
                   highest, crossing>>

-----------------------------------------------------------------------------
(* Challenges, and the device.                                             *)

\* generateAuthenticationChallenge, generateAvailabilityChallenge.
IssueChallenge(c, use) ==
    /\ challenge[c].row = "unused"
    /\ use = "availability" => credential.there
    /\ challenge' = [challenge EXCEPT ![c].row = "live", ![c].use = use]
    /\ UNCHANGED <<credential, device, verify, enrol, invitation, tokens, sessions,
                   highest, crossing, owed>>

\* The authenticator signs; one that counts counts every signature.
Sign(c) ==
    LET n == IF device.counts THEN device.counter + 1 ELSE 0 IN
    /\ challenge[c].row = "live" /\ ~ challenge[c].made
    /\ device' = [device EXCEPT !.counter = n]
    /\ challenge' = [challenge EXCEPT ![c].signed = n, ![c].made = TRUE]
    /\ UNCHANGED <<credential, verify, enrol, invitation, tokens, sessions, highest,
                   crossing, owed>>

LapseChallenge(c) ==
    /\ challenge[c].row = "live"
    /\ challenge' = [challenge EXCEPT ![c].row = "lapsed"]
    /\ UNCHANGED <<credential, device, verify, enrol, invitation, tokens, sessions,
                   highest, crossing, owed>>

-----------------------------------------------------------------------------
(* verifyAuthentication and verifyAvailability, and the exchange token.    *)

ReadChallenge(v, c) ==
    /\ verify[v].pc = "idle" /\ challenge[c].made
    /\ challenge[c].row \in {"live", "lapsed"}
    /\ verify' = [verify EXCEPT ![v] =
                     [NotVerifying(c) EXCEPT !.pc =
                         IF challenge[c].row = "live" THEN "find" ELSE "drop"]]
    /\ UNCHANGED <<credential, device, challenge, enrol, invitation, tokens, sessions,
                   highest, crossing, owed>>

\* Broken variant: the counter is not compared.
AnyCounter(signed, counter) == TRUE

\* verifyAuthenticationResponse: a device that does not count signs with 0.
CounterAdvances(signed, counter) == signed > counter \/ (signed = 0 /\ counter = 0)

\* Broken variant: the key is remembered, the row is not needed.
Remembered(row) == TRUE

Registered(row) == row.there

\* findCredentialById, and the signature against the counter of that row.
FindCredential(v) ==
    /\ verify[v].pc = "find"
    /\ IF Registered(credential) /\ CounterAdvances(challenge[verify[v].challenge].signed,
                                                       credential.counter)
       THEN verify' = [verify EXCEPT ![v].pc = "count", ![v].read = credential.counter]
       ELSE verify' = [verify EXCEPT ![v] = NotVerifying(@.challenge)]
    /\ UNCHANGED <<credential, device, challenge, enrol, invitation, tokens, sessions,
                   highest, crossing, owed>>

Counted(n) == IF credential.there THEN [credential EXCEPT !.counter = n] ELSE credential

\* updateCredentialCounter: an UPDATE that compares nothing.
UpdateCounter(v) ==
    LET n == challenge[verify[v].challenge].signed IN
    /\ verify[v].pc = "count"
    /\ credential' = Counted(n)
    /\ highest' = IF credential.there /\ n > highest THEN n ELSE highest
    /\ crossing' = (crossing \/ verify[v].read # credential.counter)
    /\ Proceed(v, "delete")
    /\ UNCHANGED <<device, challenge, enrol, invitation, tokens, sessions, owed>>

\* Broken variant: the challenge is left to expire.
KeptRow(row) == row

DeletedRow(row) == "gone"

\* deleteChallenge; verifyAvailability ends here, with no token, and takes only a
\* challenge bound to a user, where verifyAuthentication takes either.
DeleteChallenge(v) ==
    LET c == verify[v].challenge IN
    /\ verify[v].pc \in {"delete", "drop"}
    /\ challenge' = [challenge EXCEPT ![c].row = DeletedRow(@)]
    /\ \/ verify[v].pc = "delete" /\ Proceed(v, "issue")
       \/ /\ verify[v].pc = "drop" \/ challenge[c].use = "availability"
          /\ verify' = [verify EXCEPT ![v] = NotVerifying(c)]
    /\ UNCHANGED <<credential, device, enrol, invitation, tokens, sessions, highest,
                   crossing, owed>>

IssueToken(v) ==
    LET c == verify[v].challenge IN
    /\ verify[v].pc = "issue"
    /\ tokens' = [tokens EXCEPT ![c] = @ + 1]
    /\ verify' = [verify EXCEPT ![v] = NotVerifying(c)]
    /\ UNCHANGED <<credential, device, challenge, enrol, invitation, sessions, highest,
                   crossing, owed>>

\* UPDATE ... WHERE used_at IS NULL AND expires_at > ? RETURNING.
ConsumeToken(c) ==
    /\ tokens[c] > 0
    /\ tokens' = [tokens EXCEPT ![c] = @ - 1]
    /\ sessions' = [sessions EXCEPT ![c] = @ + 1]
    /\ UNCHANGED <<credential, device, challenge, verify, enrol, invitation, highest,
                   crossing, owed>>

LapseToken(c) ==
    /\ tokens[c] > 0
    /\ tokens' = [tokens EXCEPT ![c] = @ - 1]
    /\ UNCHANGED <<credential, device, challenge, verify, enrol, invitation, sessions,
                   highest, crossing, owed>>

\* A request dies between two of its calls.
VerifierDies(v) ==
    /\ verify[v].pc # "idle"
    /\ verify' = [verify EXCEPT ![v] = NotVerifying(@.challenge)]
    /\ UNCHANGED <<credential, device, challenge, enrol, invitation, tokens, sessions,
                   highest, crossing, owed>>

PasskeyNext ==
    \/ \E r \in Enroller : BeginEnrol(r) \/ InsertCredential(r) \/ DeleteInvitation(r)
    \/ RemovePasskey
    \/ \E c \in Challenge :
          \/ \E use \in {"sign-in", "availability"} : IssueChallenge(c, use)
          \/ Sign(c) \/ LapseChallenge(c) \/ ConsumeToken(c) \/ LapseToken(c)
    \/ \E v \in Verifier :
          \/ \E c \in Challenge : ReadChallenge(v, c)
          \/ FindCredential(v) \/ UpdateCounter(v) \/ DeleteChallenge(v)
          \/ IssueToken(v) \/ VerifierDies(v)

PasskeySpec == PasskeyInit /\ [][PasskeyNext]_passkeyVars

-----------------------------------------------------------------------------
(* Properties.                                                             *)

\* A signature lets in only the verifications that were in flight when the
\* first of them deleted its challenge, each of them once: no token is used
\* twice, and a device that does not count is no easier to replay.
ReplaysBounded ==
    \A c \in Challenge :
        /\ challenge[c].row \in {"unused", "live"} => tokens[c] + sessions[c] = 0
        /\ tokens[c] + sessions[c] + Cardinality(Reading(c)) <= Cardinality(Verifier)

\* The counter of the row is the highest it ever had, unless a verification
\* wrote it over one that it had not read: signatures that are presented late
\* do not turn it back.
CounterIsHighest == credential.there /\ ~ crossing => credential.counter = highest

\* Once a passkey is removed, the only sign-ins it still leads to are those of
\* tokens already issued and of verifications that had read its row.
RemovedSignsIn ==
    ~ credential.there =>
        TotalOf(tokens) + TotalOf(sessions) + Cardinality(PastRead) <= owed
=============================================================================

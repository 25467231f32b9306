---------------------------- MODULE TotpEnrolment ----------------------------
(***************************************************************************)
(* One user's authenticator: the row of user_totp, the enrolment that      *)
(* writes a pending secret and confirms it once a code of it was shown     *)
(* (services/totp.service.ts), and the sign-ins that ask for one (auth.ts).*)
(* Enrolment may be restarted at any time, from another tab as well.       *)
(***************************************************************************)
EXTENDS Naturals, FiniteSets

CONSTANTS
    Tab,            \* confirmations in flight at the same time
    Login,          \* sign-ins in flight at the same time
    MaxSecrets      \* bound of the model: how many secrets are generated

ASSUME MaxSecretsAssumption == MaxSecrets \in Nat

VARIABLES
    totp,           \* the row: its secret (0 while there is none) and whether
                    \* it is confirmed
    secrets,        \* secrets are numbered as they are generated
    confirming,     \* confirming[t]: the secret whose code was right, 0 if none
    login,          \* login[l]: what a sign-in has found out, and the secret of
                    \* the code that let it in
    shown,          \* history: secrets that a confirmation proved
    swapped         \* history: secrets stored while another was being confirmed

totpVars == <<totp, secrets, confirming, login, shown, swapped>>

TotpTypeOK ==
    /\ totp \in [secret : 0 .. MaxSecrets, confirmed : BOOLEAN]
    /\ secrets \in 0 .. MaxSecrets
    /\ confirming \in [Tab -> 0 .. MaxSecrets]
    /\ login \in [Login -> [pc : {"idle", "code", "free", "in"}, secret : 0 .. MaxSecrets]]
    /\ shown \in SUBSET (1 .. MaxSecrets) /\ swapped \in SUBSET (1 .. MaxSecrets)

NoRow == [secret |-> 0, confirmed |-> FALSE]

NoLogin == [pc |-> "idle", secret |-> 0]

TotpInit ==
    /\ totp = NoRow /\ secrets = 0
    /\ confirming = [t \in Tab |-> 0]
    /\ login = [l \in Login |-> NoLogin]
    /\ shown = {} /\ swapped = {}

\* Broken variant: a confirmed row stays confirmed.
StillConfirmed(s) == [secret |-> s, confirmed |-> totp.confirmed]

Pending(s) == [secret |-> s, confirmed |-> FALSE]

\* upsertPending: whatever the row was, it is pending now.
BeginEnrollment ==
    /\ secrets < MaxSecrets
    /\ secrets' = secrets + 1
    /\ totp' = Pending(secrets + 1)
    /\ swapped' = IF \E t \in Tab : confirming[t] # 0
                  THEN swapped \cup {secrets + 1} ELSE swapped
    /\ UNCHANGED <<confirming, login, shown>>

\* The row is read and the code is one of its secret.
ProveSecret(t) ==
    /\ confirming[t] = 0 /\ totp.secret # 0
    /\ confirming' = [confirming EXCEPT ![t] = totp.secret]
    /\ shown' = shown \cup {totp.secret}
    /\ UNCHANGED <<totp, secrets, login, swapped>>

\* UPDATE ... WHERE user_id = ?: whichever secret the row has by now.
Confirm(t) ==
    /\ confirming[t] # 0
    /\ totp' = IF totp.secret = 0 THEN totp ELSE [totp EXCEPT !.confirmed = TRUE]
    /\ confirming' = [confirming EXCEPT ![t] = 0]
    /\ UNCHANGED <<secrets, login, shown, swapped>>

ConfirmDies(t) ==
    /\ confirming[t] # 0
    /\ confirming' = [confirming EXCEPT ![t] = 0]
    /\ UNCHANGED <<totp, secrets, login, shown, swapped>>

Disable ==
    /\ totp.secret # 0
    /\ totp' = NoRow
    /\ UNCHANGED <<secrets, confirming, login, shown, swapped>>

\* authorize(): isEnrolled decides whether a code is asked for ...
CheckEnrolled(l) ==
    /\ login[l].pc = "idle"
    /\ login' = [login EXCEPT ![l].pc = IF totp.confirmed THEN "code" ELSE "free"]
    /\ UNCHANGED <<totp, secrets, confirming, shown, swapped>>

\* Broken variant: the row may be pending.
AlsoPending(row) == row.secret # 0

Confirmed(row) == row.confirmed

\* ... and verifyCode reads the row again; the code is one of the secret in
\* it, or the sign-in is refused.
VerifyCode(l) ==
    /\ login[l].pc = "code"
    /\ login' = [login EXCEPT ![l] =
                    IF Confirmed(totp) THEN [pc |-> "in", secret |-> totp.secret] ELSE NoLogin]
    /\ UNCHANGED <<totp, secrets, confirming, shown, swapped>>

EnterWithout(l) ==
    /\ login[l].pc = "free"
    /\ login' = [login EXCEPT ![l].pc = "in"]
    /\ UNCHANGED <<totp, secrets, confirming, shown, swapped>>

EndLogin(l) ==
    /\ login[l].pc # "idle"
    /\ login' = [login EXCEPT ![l] = NoLogin]
    /\ UNCHANGED <<totp, secrets, confirming, shown, swapped>>

TotpNext ==
    \/ BeginEnrollment \/ Disable
    \/ \E t \in Tab : ProveSecret(t) \/ Confirm(t) \/ ConfirmDies(t)
    \/ \E l \in Login : CheckEnrolled(l) \/ VerifyCode(l) \/ EnterWithout(l) \/ EndLogin(l)

TotpSpec == TotpInit /\ [][TotpNext]_totpVars

-----------------------------------------------------------------------------
(* Properties.                                                             *)

\* The secret of an active enrolment is one the user has proved to hold,
\* unless it was stored while another was being confirmed: the confirmation
\* then activates a secret nobody has shown a code of, and the user cannot
\* sign in with it.
ConfirmedWasShown == totp.confirmed => totp.secret \in shown \cup swapped

\* No sign-in is let in by a code of a secret that is still pending, also when
\* the enrolment is restarted between its two reads.
SignInCodesWereShown ==
    \A l \in Login : login[l].secret \in shown \cup swapped \cup {0}
=============================================================================

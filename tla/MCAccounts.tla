----------------------------- MODULE MCAccounts -----------------------------
\* The parts of users, settings and scopes that share no row with one another, in one
\* run: a behaviour is a behaviour of one part, the others keep one initial
\* state.
EXTENDS PasswordReset, OtpChallenge, TotpEnrolment, MCEmailVerification,
        PasskeySignIn, Administrators, StagedUpload, SiteSettings, MCPasswordPolicies,
        ScopeDiscovery, TLC

CONSTANTS
    FirstAddress, FirstExt,
    p1, p2      \* whoever overlaps in a part: its requests, tabs, saves

\* A part never compares two of these, except for equality.
Symmetry == Permutations({p1, p2})

VARIABLE part

accountVars == <<part, resetVars, vars, totpVars, emailVars, passkeyVars, adminVars,
                 uploadVars, settingsVars, policyVars, discoveryVars>>

Parts == {"reset", "otp", "totp", "email", "passkey", "admins", "upload",
          "settings", "policies", "discovery"}

\* The part that is not under way starts in one of its initial states.
AtRest ==
    /\ part # "email" => user = [email |-> FirstAddress, verified |-> FALSE, admin |-> FALSE]
    /\ part # "passkey" => device.counts
    /\ part # "admins" => \A u \in Person : rank[u] = "admin"
    /\ part # "upload" => \A u \in Upload : ext[u] = FirstExt
    /\ part # "settings" => canSend

AccountsInit ==
    /\ part \in Parts
    /\ ResetInit /\ Init /\ TotpInit /\ EmailInit /\ PasskeyInit /\ AdminsInit
    /\ UploadInit /\ SettingsInit /\ PoliciesInit /\ DiscoveryInit
    /\ AtRest

AccountsNext ==
    \/ /\ part = "reset" /\ ResetNext
       /\ UNCHANGED <<part, vars, totpVars, emailVars, passkeyVars,
                      adminVars, uploadVars, settingsVars, policyVars, discoveryVars>>
    \/ /\ part = "otp" /\ Next
       /\ UNCHANGED <<part, resetVars, totpVars, emailVars, passkeyVars,
                      adminVars, uploadVars, settingsVars, policyVars, discoveryVars>>
    \/ /\ part = "totp" /\ TotpNext
       /\ UNCHANGED <<part, resetVars, vars, emailVars, passkeyVars,
                      adminVars, uploadVars, settingsVars, policyVars, discoveryVars>>
    \/ /\ part = "email" /\ EmailNext
       /\ UNCHANGED <<part, resetVars, vars, totpVars, passkeyVars,
                      adminVars, uploadVars, settingsVars, policyVars, discoveryVars>>
    \/ /\ part = "passkey" /\ PasskeyNext
       /\ UNCHANGED <<part, resetVars, vars, totpVars, emailVars,
                      adminVars, uploadVars, settingsVars, policyVars, discoveryVars>>
    \/ /\ part = "admins" /\ AdminsNext
       /\ UNCHANGED <<part, resetVars, vars, totpVars, emailVars,
                      passkeyVars, uploadVars, settingsVars, policyVars,
                      discoveryVars>>
    \/ /\ part = "upload" /\ UploadNext
       /\ UNCHANGED <<part, resetVars, vars, totpVars, emailVars,
                      passkeyVars, adminVars, settingsVars, policyVars,
                      discoveryVars>>
    \/ /\ part = "settings" /\ SettingsNext
       /\ UNCHANGED <<part, resetVars, vars, totpVars, emailVars,
                      passkeyVars, adminVars, uploadVars, policyVars, discoveryVars>>
    \/ /\ part = "policies" /\ PoliciesNext
       /\ UNCHANGED <<part, resetVars, vars, totpVars, emailVars,
                      passkeyVars, adminVars, uploadVars, settingsVars,
                      discoveryVars>>
    \/ /\ part = "discovery" /\ DiscoveryNext
       /\ UNCHANGED <<part, resetVars, vars, totpVars, emailVars,
                      passkeyVars, adminVars, uploadVars, settingsVars, policyVars>>

AccountsSpec == AccountsInit /\ [][AccountsNext]_accountVars

\* The tables and the locals of every part keep their types.
AccountsTypeOK ==
    /\ ResetTypeOK /\ TypeOK /\ TotpTypeOK /\ EmailTypeOK /\ PasskeyTypeOK
    /\ AdminsTypeOK /\ UploadTypeOK /\ SettingsTypeOK /\ PoliciesTypeOK
    /\ DiscoveryTypeOK
=============================================================================

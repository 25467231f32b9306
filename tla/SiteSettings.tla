---------------------------- MODULE SiteSettings ----------------------------
(***************************************************************************)
(* The two columns of site_settings that the sign-in depends on: the URL   *)
(* of the site and whether e-mailed codes are required.  A save            *)
(* (updateSiteFields in services/site-settings.service.ts) reads the row,  *)
(* checks the fields it was given against the rest of that row, and        *)
(* updates only the columns it was given.                                  *)
(***************************************************************************)
EXTENDS Naturals

CONSTANT Changer     \* saves in flight at the same time

VARIABLES
    siteUrl,        \* whether a URL is configured
    mfaEnabled,
    canSend,        \* whether RESEND_API_KEY is configured
    changing,       \* changing[s]: the patch a save is about to write, and whether
                    \* it has overlapped no other
    blended         \* history: the last write belonged to a save that overlapped
                    \* another

settingsVars == <<siteUrl, mfaEnabled, canSend, changing, blended>>

Field == {"keep", "set", "clear"}

NoChange == [busy |-> FALSE, url |-> "keep", mfa |-> "keep", alone |-> TRUE]

Busy == {s \in Changer : changing[s].busy}

SettingsTypeOK ==
    /\ {siteUrl, mfaEnabled, canSend, blended} \subseteq BOOLEAN
    /\ changing \in [Changer -> [busy : BOOLEAN, url : Field, mfa : Field, alone : BOOLEAN]]
    /\ \A s \in Changer \ Busy : changing[s] = NoChange

\* The row of a new deployment.
SettingsInit ==
    /\ canSend \in BOOLEAN
    /\ siteUrl = FALSE /\ mfaEnabled = FALSE
    /\ changing = [s \in Changer |-> NoChange]
    /\ blended = FALSE

\* A column after a patch.
Patched(old, field) == IF field = "keep" THEN old ELSE field = "set"

\* Broken variant: only the fields of the save are checked.
AcceptsInput(url, mfa) == mfa = "set" => canSend /\ url # "clear"

\* What a save is refused for, against the row it has read.
Accepts(url, mfa) ==
    /\ mfa = "set" => canSend
    /\ Patched(mfaEnabled, mfa) => Patched(siteUrl, url)
    /\ url = "clear" => ~ mfaEnabled

ReadSettings(s, url, mfa) ==
    /\ ~ changing[s].busy
    /\ Accepts(url, mfa)
    /\ changing' = [t \in Changer |->
                       IF t = s THEN [busy |-> TRUE, url |-> url, mfa |-> mfa,
                                      alone |-> Busy = {}]
                       ELSE [changing[t] EXCEPT !.alone = @ /\ ~ changing[t].busy]]
    /\ UNCHANGED <<siteUrl, mfaEnabled, canSend, blended>>

\* A save that overlapped no other leaves a row that was checked as a whole.
UpdateSettings(s) ==
    /\ changing[s].busy
    /\ siteUrl' = Patched(siteUrl, changing[s].url)
    /\ mfaEnabled' = Patched(mfaEnabled, changing[s].mfa)
    /\ blended' = ~ changing[s].alone
    /\ changing' = [changing EXCEPT ![s] = NoChange]
    /\ UNCHANGED canSend

SettingsFail(s) ==
    /\ changing[s].busy
    /\ changing' = [changing EXCEPT ![s] = NoChange]
    /\ UNCHANGED <<siteUrl, mfaEnabled, canSend, blended>>

SettingsNext ==
    \E s \in Changer :
        \/ \E url, mfa \in Field : ReadSettings(s, url, mfa)
        \/ UpdateSettings(s)
        \/ SettingsFail(s)

SettingsSpec == SettingsInit /\ [][SettingsNext]_settingsVars

-----------------------------------------------------------------------------
(* Properties.                                                             *)

\* Codes are required and cannot be sent: beginSignInChallenge then refuses
\* everyone who has no authenticator, administrators included.
LockedOut == mfaEnabled /\ ~ (siteUrl /\ canSend)

\* No sequence of saves locks the site out unless two of them overlapped: each
\* was checked against a row that the other was about to change.
SavesKeepSignInOpen == LockedOut => blended
=============================================================================

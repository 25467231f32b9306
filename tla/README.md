# eetr-auth: a TLA+ verification project

TLA+ modules, TLC configurations and TLAPS proofs for the parts of eetr-auth that are hard to test: what
happens between two database statements of one request while other requests, the daily cron and administrators
go on. Paths below are relative to `src/`; `services/` and `repositories/` stand for
`apps/auth/src/lib/services/` and `apps/auth/src/lib/repositories/`.

## 1. How the system runs

`apps/auth` is a Next.js application on a Cloudflare Worker. All its state but one cached list is in a D1
(SQLite) database. Every `prepare(...).run()`, `.first()` or `.all()` is one statement that commits by itself.
A few repository methods send a `batch` (atomic); those modelled here are the insertion of an API key with its
scopes and the replacement of the environments of a user or a password policy. A service method is therefore a
process that takes one step per statement, any number of them run at once, and a Worker may stop between any
two statements. There are no locks: what protects the data is a condition inside one statement (`WHERE used_at
IS NULL`), or nothing.

That shapes every module: one action per statement, a program counter and locals per request, a `Die`,
`Abandon` or `...Dies` action between any two statements, and no atomicity beyond one statement.

## 2. Inventory

| Component | State it keeps | Operations | What is hard | What makes it correct |
|---|---|---|---|---|
| Token endpoint (`services/oauth-token.service.ts`) | none of its own | exchange (code, client_credentials, refresh, api_key), revoke, delete, cleanup, validate | single use under concurrency, a reuse cascade over a lineage that changes, failure after the credential is consumed | one holder of the right to mint; a cascade kills its family and only it |
| Token tables (`repositories/*token*`, `authorization-code*`, `db/schema.sql`) | `authorization_codes`, `refresh_tokens`, `tokens`, their scope tables | conditional updates, lineage search, cleanup | deletion cuts the lineage others are following | links stay inside a family |
| Authorization endpoint (`services/oauth-authorization.service.ts`) | pending request in a cookie | validate, create code, record consent, redirect | dies between code and consent | a code is never delivered without its consent record |
| Consent (`services/consent.service.ts`) | `user_consents` | record, revoke | read-merge-write; five-statement withdrawal | accumulates; withdrawal sticks |
| User challenges (`services/user-challenge.service.ts`) | `user_challenges`, `users.password_hash`, `email_verified_at` | reset links; mailed codes; verification of an address | check, await, act; the row does not name the address | links and codes stay spent, guesses are bounded, a verified address was proved |
| Users and administrators (`services/user.service.ts`) | `users`, `users_environments` | create, update, delete | count, then write; several writes per save | an administrator is left |
| Sign-in and session (`auth.ts`, `auth/session-admin-refresh.ts`) | session JWT | password, passkey, second factor, hash upgrade, admin claim | upgrade with a stale hash; cached claim | lost rights are lost soon; no replaced password returns |
| TOTP (`services/totp.service.ts`) | `user_totp` | begin, confirm, verify, disable | confirm does not name the secret it verified | only a proved secret lets in |
| Passkeys (`services/passkey.service.ts`) | credentials, challenges, exchange tokens | register, authenticate, exchange, remove | unconditional deletion and counter write | one signature is not replayed without bound; the counter does not turn back |
| API keys (`services/api-key.service.ts`) | `api_keys` and their scopes | create, notify or revoke, exchange | the key is usable before it is announced | an unannounced key does not stay usable |
| Clients (`services/client.service.ts`) | `clients`, `client_scopes`, redirect URIs, claims | create, rotate secret, replace scopes and URIs | replacing is delete-all, then insert one by one | ungranted scopes stay gone; rotated secrets stay replaced |
| Dynamic registration (`services/dcr*.ts`) | `dcr_rate_limit` | register, count, prune | increment and read are two statements; midnight | the daily budget is exact |
| Scheduled worker (`apps/auth/worker.ts`) | none | daily cleanup | runs in the middle of requests | removes only what no one needs |
| Environments and scopes (`services/scope.service.ts`, `cache/`) | one table each, a cached list in memory | CRUD, discovery | overlapping reads stored in another order | discovery serves a recent list |
| Site settings, password policies | `site_settings`, `password_policies`, assignments | update, select, assign | checked against a row that another save changes | nobody is locked out; no minimum length exceeds its maximum |
| Staged uploads (`uploads/staged-upload.ts`) | R2 objects, a key in a row | stage, promote | promoted before the row is saved | what is shown was saved |
| Client library (`packages/eetr-auth-client`) | a pair of tokens in memory | getAccessToken, setTokens | overlapping refreshes, lost answers | a session is not lost without a cause |
| Audit and activity logs | append-only tables | append, list, prune | nothing reads them back to decide | |
| Hashing worker, UI, documentation, infrastructure | none | | stateless or presentation | |

The components meet at rows: the token tables (token endpoint, authorization, consent, cron, client library),
`client_scopes` (client editor, token endpoint, API keys), `users` (sign-in, challenges, editors) and
`site_settings`. `PROJECT.json` lists each component with its files, its modules and what is left out of it,
and every hazard at its line with the properties about it.

## 3. Modules

| Module | Models | Proofs |
|---|---|---|
| `GrantFamily` | what the token endpoint promises for one grant: issued, redeemed once, handed on, over for good; the abstract specification that `TokenRotation` implements (`ImplementsGrant`) | `TokenRotationProofs` |
| `TokenRotation` | the token endpoint and its tables, one action per statement | `TokenRotationProofs` |
| `ConsentWithdrawal` | authorization with its consent record, and withdrawal; EXTENDS `TokenRotation` | `ConsentProofs` |
| `ClientSession` | the token manager of the client library; EXTENDS `TokenRotation` | `ClientSessionProofs` |
| `ScopeGrants` | the scope list of a client and the scopes of everything issued from it | `ScopeGrantsProofs` |
| `ClientSecret` | one client secret: upgraded from plaintext, rotated | `CredentialProofs` |
| `ApiKey` | one API key: created, announced, revoked, exchanged | `CredentialProofs` |
| `DcrRateLimit` | the daily budget of registrations of one address | `CredentialProofs` |
| `PasswordReset` | reset links, password change, hash upgrade at sign-in | `AccountProofs` |
| `OtpChallenge` | one mailed code and the requests that present codes for it | `ChallengeProofs` |
| `EmailVerification` | one address, who changed it and whether it was proved | `ChallengeProofs` |
| `TotpEnrolment` | one authenticator and the sign-ins that ask for it | `AccountProofs` |
| `PasskeySignIn` | one passkey, its challenges and exchange tokens | `AccountProofs` |
| `Administrators` | who is an administrator, and who is told so | `AccountProofs` |
| `StagedUpload` | one picture: staged, promoted, shown | `SiteProofs` |
| `SiteSettings` | the two settings the sign-in depends on | `SiteProofs` |
| `PasswordPolicies` | policies, their environments, the one for administrators | `SiteProofs` |
| `ScopeDiscovery` | scopes and the list of them kept in memory | `SiteProofs` |
| `MCTokenEndpoint`, `MCAccounts` | sums: in each behaviour one component moves (`part`) and the others keep one initial state | `ClientSessionProofs`, `AccountProofs` |
| other `MC*` | small instances: symmetry, restricted environments, sets of patches | |

The two sums put components into one run that share no row: a composition of all of them would be their
product and show nothing more. Components that do share rows are composed by EXTENDS (`ConsentWithdrawal` and
`ClientSession` with `TokenRotation`). Where two modules touch one row, each keeps what the other does to it
as an action of its own: `ApiKey.ChangeAccess` is the editor of a user's environments,
`ScopeDiscovery.SaveClient` a saved scope list, `PasswordPolicies` the selection in the site settings.

### TokenRotation

A *family* is the rotation lineage grown from one grant (a code or a client_credentials call). The code knows
only `rotated_from_id`; the model adds the family as a history column of each row, which the properties need
and no guard reads to decide anything the code decides otherwise.

| State | Code |
|---|---|
| `codes[f]` | the `authorization_codes` row; `absent` for client_credentials (no code, no subject) |
| `rt[r]`, `at[a]` | rows of `refresh_tokens` and `tokens`; `deleted` is a row that was removed |
| `rt[r].parent`, `.access` | `rotated_from_id`, `access_token_id`, set to NULL by the foreign keys |
| `perm[f]` | the subject may use the client: the environment gate and the test-user gate together (two SELECTs on every refresh, merged into one step) |
| `held` | token values a client has received |
| `req[q]` | program counter and locals of a request; `raced` is history |

Request actions in the order of the code: `LookupCode`, `MarkUsed` / `LookupRefreshToken`, `CheckSubject`,
`RevokePresented` / `ExchangeClientCredentials`; then `CreateAccessToken`, `CreateRefreshToken`, `Respond`.
Reuse, a failed gate and a lost rotation race all enter `revokeFamilyAndAccessTokens`: `WalkParent` and
`WalkChildren` (one SELECT each, the search of `collectFamilyIds`), `RevokeFamily`, the same search again,
`ListFamilyAccessTokenIds`, `ExpireAccessTokensByIds`. `Abandon` is any exception, a lost response or a Worker
that dies, at every point. The four deletions of `cleanupTokenArtifacts` are independent actions, because the
code starts them together. Time is the moment a row lapses (`CodeLapses`, `AccessLapses`, `RefreshLapses`);
the guards of `RefreshLapses` state what 1 h and 30 d issued at the same instant imply.

Abstracted: scopes, which are in `ScopeGrants`, and the inserts of scope rows (folded into the row insert they
follow; a failure among them is `Abandon`), the contents of JWTs and ID tokens, client authentication (a wrong
client or secret is refused without a change of state), audiences, PKCE. A resource server that validates a JWT
offline does not see `tokens.expires_at`; "usable" here is what `validateAccessToken` answers from the table.

### ConsentWithdrawal

Extends `TokenRotation` with the `user_consents` row of one user and one client. Authorization is
`CreateCode`, `GetConsent`, `UpsertConsent`; the code's value reaches the client with the redirect, so
`TokenStep` lets a code be redeemed only after its record was written. Withdrawal is `DeleteConsent`,
`CollectBound`, `RevokeAll`, `ExpireBound` (skipped when nothing was collected) and `DeleteUnusedCodes`.
`granted` and `overlapped` are history (what was agreed to since the last withdrawal; whether two uses of the
row have overlapped), and so are `wd.raced` and `wd.bound`: which families a request disturbed meanwhile, and
what was bound to a live refresh token when it started.

### PasswordReset

A link is a `user_challenges` row; a password is the number of the change that set it. Each operation reads
the row (`CheckLink`, `CheckCancel`), then acts on what it read. `WriteReset` stands for the hashing call and
the UPDATE of `users`; `MarkConsumed` and `DeleteLink` test nothing, as in the code. `ChangePassword` and
`DropLinks` are the password branch of `updateUser`; `VerifyPassword` and `UpgradeHash` the sign-in. The model
assumes the default `HASH_METHOD=argon`: with `md5`, meant for local development, nothing is ever upgraded.

### OtpChallenge

One row of kind `mfa_otp` or `email_verification`; the two verify methods have the same statements. A request
reads and compares (`PresentWrong`, `PresentRight`, `PresentLate`), then counts (`IncrementOtpFailedAttempts`)
or deletes (`DeleteRow`). `Replace` is the deletion by a newer verification code.

### ScopeGrants

A grant of a scope to a client is a row of `client_scopes` with a random id (here the next number; only
equality is read). `joins[c]` are the ids in the join rows of a code, token or key; `Confers(c)` is the inner
join. A request reads its source once, consumes it and then inserts its outputs, one join row per step, each
of which fails when the id is gone. A save is the DELETE of all rows, with its cascade, and one INSERT per
scope. `ceiling`, `answered`, `allowed` and `mixed` are history: what a credential may still confer, what its
answer named, the lists of the last save and of those it overlapped, and whether it overlapped any.

### ClientSecret, ApiKey, DcrRateLimit

`ClientSecret`: a token request proves the stored secret, hashes it and writes it with the UPDATE of the
rotation, which tests nothing. Secrets are numbered as they are generated; `newest` and `revivals` are
history.

`ApiKey`: the creating request inserts, mails the owner and hands out the secret, or revokes; an exchange
reads the key, then the rights of its owner, and mints last. `mailed`, `entitled` and `late` are history.

`DcrRateLimit`: a registration remembers its date, sends the UPSERT and then the SELECT; midnight and the cron
may fall between them. `attempts`, `admitted` and `turnedAway` are history.

### ClientSession

Extends `TokenRotation` with one TokenManager: the pair in memory and, per call, the refresh token sent or the
pair on its way back. The server side is the token endpoint itself, driven by these calls. `shared` and `lost`
are history: two refreshes have been in flight together; an answer never arrived. It assumes that an answer
takes less than the 30 s by which the library renews early.

### EmailVerification, TotpEnrolment, PasskeySignIn

`EmailVerification`: edits of the user work from the row they read (`fresh` says whether it still is the row);
codes are mailed, presented, and marked or deleted in further calls. `proved`, `trusted` and `raced` are
history.

`TotpEnrolment`: `upsertPending` replaces whatever is there; `confirm` names the user and not the secret; a
sign-in reads whether there is an authenticator and later verifies. `shown` and `swapped` are history.

`PasskeySignIn`: a device signs a challenge once, with its next counter or, when it does not count, with 0. A
verification reads the challenge and the row; the library accepts a counter that is higher, or when both are
0; then come the write of the counter, the deletion of the challenge and the exchange token. A challenge made
for an availability check may end as one or, since `verifyAuthentication` compares only its kind, as a sign-in. `sessions`,
`highest`, `crossing` and `owed` are history.

### Administrators, StagedUpload, SiteSettings, PasswordPolicies, ScopeDiscovery

`Administrators`: an action begins with the claim of its session, counts the administrators and writes in
another call. A claim is read again once it is an interval old; a failed read leaves it. A sign-in reads the
row in one step (`BeginSignIn`, `auth.ts:69`), awaits the password and the second factor, and in a later step
stamps what it had read as checked just then (`EndSignIn`, `auth.ts:528-529`), so a claim can be wrong and look
fresh. An action counts as begun where its claim is let through. `lost` (the time since the loss of the rank,
or since the end of a sign-in that had read it before), `overtaken`, `blind` and `collided` are history.

`StagedUpload`: get, put and delete in the bucket, then the row. `submitted`, `lastSaved` and `torn` are
history.

`SiteSettings` and `PasswordPolicies` read, check, and write only the columns they were given; `blended` and
`crossed` are history: the last write belonged to a save that overlapped another.

`ScopeDiscovery`: a request that finds the list expired reads the table and stores what it read when it is
answered, later than another if it so happens. `since` is history: how long ago each list was the table's.

### External parts

Modelled only by what the callers see: mail ("may fail"), the bucket (one object per key), the device of a
passkey and the WebAuthn library (comparison of counters), the authenticator app and the mail box of a user,
the clock.

## 4. Runs

| Run | Instance | Shows |
|---|---|---|
| `rotation_full` | 1 family, 3 + 3 rows, 1 request, everything else | `TypeOK`, `HeldAccessIsReachable`, `ImplementsGrant` |
| `rotation_races` | 2 families, 3 + 3 rows, 2 requests, no lapse, no deletion | `SingleHolder`, `CascadeStaysInFamily`, `CascadeContains` |
| `consent_withdrawal` | 2 families, 2 + 2 rows, 1 request, 2 scopes | `ConsentTypeOK`, `ConsentExact`, `WithdrawalSticks`, `WithdrawalSparesMachines` |
| `token_endpoint` | `MCTokenEndpoint`, see below | `EndpointTypeOK` and the properties of its five parts |
| `accounts` | `MCAccounts`, see below | `AccountsTypeOK` and the properties of its ten parts |
| `rotation_reuse_race`, `rotation_reuse_cleanup`, `consent_rotated_access`, `reset_reused`, `key_scopes`, `email_ownership`, `client_refresh_race` | the smallest in which it happens | section 5 |

| Part of `token_endpoint` | Instance | Shows |
|---|---|---|
| `ClientSession` | 1 family, 2 + 2 rows, 2 requests, fair | `StaysSignedIn`, `CascadeTerminates` |
| `ScopeGrants` | 2 scopes, 1 code, 1 key, 1 refresh token, 1 access token, 1 request and 2 saves at a time, 3 in all | `UngrantedStaysGone`, `AnswersHoldTheirScopes`, `SavedListIsExact` |
| `ClientSecret` | 2 requests, 2 rotations at a time, 3 in all | `OnlyPlaintextRevives`, `RevivalsBounded` |
| `ApiKey` | 2 exchanges, 2 revocations, 4 tokens, access given back twice | `NoSilentKey`, `LateMintsBounded` |
| `DcrRateLimit` | 2 requests at a time, 4 per day, limit 2, 2 days | `BudgetIsExact` |

| Part of `accounts` | Instance | Shows |
|---|---|---|
| `PasswordReset` | 3 links, 2 requests, 2 changes | `OutstandingBounded`, `OnlyLegacyRevives`, `SpentLinkRefused` |
| `OtpChallenge` | 3 requests, limit 3, 2 deaths | `GuessesBounded`, `AcceptedBounded` |
| `TotpEnrolment` | 2 tabs, 2 sign-ins, 3 secrets | `ConfirmedWasShown`, `SignInCodesWereShown` |
| `EmailVerification` | 2 addresses, 1 code, 1 edit, 1 request, 1 proof | `UnprovedOnlyByRace` |
| `PasskeySignIn` | 2 challenges, 2 verifications, 1 registration | `ReplaysBounded`, `CounterIsHighest`, `RemovedSignsIn` |
| `Administrators` | 2 persons, 2 actions, 1 sign-in under way, an interval of 1 step | `AnAdministratorRemains`, `LostRankIsShort` |
| `StagedUpload` | 2 pictures, 2 extensions, 2 forms | `ShownWasSubmitted`, `LastSaveIsShown` |
| `SiteSettings` | 3 saves | `SavesKeepSignInOpen` |
| `PasswordPolicies` | 1 policy, 1 environment, 2 lengths, 2 saves | `PolicyCanBeMet` |
| `ScopeDiscovery` | 1 scope, 2 readers, 1 deletion, a lifetime of 3 steps | `ServedIsRecent` |

### Bounds, and why they are enough

The hazards here are between two actors: one that has read and has not written yet, and one that writes
meanwhile. Every instance has two of each kind that can collide, and room for one thing more: a third save or
guess, or a repetition of the accident.

`TokenRotation`: `IdsLeft` admits a request that may mint only while every admitted one can still draw a row
id, because the UUIDs of the code never run out and a request must not block half way for want of one. With
two rows this excludes two refreshes that both mint, so a `ClientSession` run with two rows is about a pair,
its renewal and a second caller who is taken for reuse; the module has also been explored with 3 + 3 rows (8.6
million states, no error). `rotation_races` has the third row, and with it two refreshes of the same token,
three-link chains (a middle token presented again, so the search must go up *and* down) and a second family to
stray into. In `consent_withdrawal` two authorizations suffice for a lost update and for a withdrawal with a
family it races with and one it does not; one request is enough because the withdrawal itself is the second
actor. It has no lapse of tokens and no cleanup: both only remove what a withdrawal would end. One withdrawal
runs at a time.

`MaxCalls` = 3 in `ScopeGrants` is an exchange before and one after a save, or two saves that overlap around a
request; with one refresh token a chain ends after code and refresh, and that longer ones add nothing is
proved (section 6). `MaxRotations` = 3 allows an upgrade to undo two rotations in a row, `MaxChange` = 2 a
change to be undone and another to follow; three links allow an old, a current and a racing one. An `Interval`
of 1 lets a claim be fresh and stale; `LostRankIsShort` is proved for any. `MaxDeaths` = 2 exceeds what one
request can lose by dying in each of its two gaps. `MaxPerDay` = 4 is twice the limit. `SinglePatches` are
edits of one field; `UnprovedOnlyByRace` is proved for any set of patches.

Symmetry: ids are random and nothing orders them, so permuting them is sound for the runs on rows; families
are told apart by `Asked` in `ConsentWithdrawal` and not permuted there. The parts of `accounts` take the
requests, tabs, forms or saves that overlap from one set {p1, p2}, and a run permutes it: each part only
compares them for equality. `token_endpoint` uses no symmetry, because it checks a liveness property.

Deadlock is checked wherever the system never stops: in `rotation_full`, where an administrator can always
change a gate, in both runs of `ConsentWithdrawal` and in `reset_reused`. Elsewhere behaviours do end: in the
restricted environments of `rotation_races` and the other rotation runs, when a challenge has been deleted,
when a spent bound admits no further request.

Fairness: only `CascadeTerminates` needs any. `EndpointSpec` assumes that a request whose Worker is alive gets
an answer to each statement it sends, `WF(part = "session" /\ Serve(q))`. It assumes neither that clients send
requests, nor that a request finishes rather than dies; the search still has to end on its own while rotations
extend the family.

## 5. Where code and documentation disagree

Each of these runs checks one statement of a comment, a test or a documentation page against the model, and
TLC finds a behaviour that contradicts it. The quotations are in `PROJECT.json`.

| Run | Statement | What happens |
|---|---|---|
| `rotation_reuse_race` | reuse of a rotated refresh token revokes the entire family | the cascade runs while a rotation stands between its UPDATE and its INSERT; the successor stays live |
| `rotation_reuse_cleanup` | outstanding access tokens die with the family | cleanup has deleted the revoked ancestor through which the cascade would reach one |
| `consent_rotated_access` | revoking consent stops access immediately | an access token whose refresh token was already rotated is not collected; no race is needed |
| `reset_reused` | a link is single-use | two completions overlap, or one died before marking the link |
| `key_scopes` | a key loses a scope when it is ungranted from the client | it loses all of them when the unchanged list is saved; no race is needed |
| `email_ownership` | a mailed code proves ownership of the address | the address was changed while the code was on its way |
| `client_refresh_race` | the manager refreshes transparently | two callers refresh with one token; the server takes the second for reuse and ends the session |

Other promises hold only while requests do not overlap. Instead of refuting them one by one, a passing run
states how far they go:

| Promise | What holds |
|---|---|
| the consent row is the accumulated union, and withdrawal sticks (`services/consent.service.ts:31-33`, `:102`) | `ConsentExact`: unless an authorization or a withdrawal falls between another's read and write of the row |
| the bound access tokens collected are those of the rows revoked (`repositories/refresh-token.repository.d1.ts:174-175`) | `WithdrawalSticks`: in every family that no request renewed meanwhile |
| only the most recent reset link is valid (`services/user-challenge.service.ts:393`) | `OutstandingBounded`: never more links than overlapping requests |
| a password change invalidates outstanding links (`services/user.service.ts:329-331`) | `SpentLinkRefused`: a link not checked before it was dropped is refused |
| at most `MFA_OTP_MAX_ATTEMPTS` wrong codes | `GuessesBounded`: exceeded by one per other request in flight and one per request that died |
| a rejected update cannot leave a half-applied picture behind (`avatar/route.ts:13-15`) | `ShownWasSubmitted`, `LastSaveIsShown`: the picture is promoted before the row is written, so a save that fails in between may show its picture, but never one that no save was given |
| the staleness of the admin claim is bounded to the re-check window (`lib/auth/session-admin-refresh.ts:8-9`) | `LostRankIsShort`: plus the time that a sign-in takes which read the rank before it was lost, and plus failed lookups |
| the last administrator cannot be demoted or deleted (`services/user.service.ts:309`, `:404`) | `AnAdministratorRemains`: unless two removals overlap (`collided`) |
| confirming activates the secret whose code was proved (`repositories/user-totp.repository.d1.ts:47`) | `ConfirmedWasShown`: unless an enrolment was begun between the proof and the UPDATE, which names the user and not the secret (`swapped`) |
| the signature counter prevents replay (`services/passkey.service.ts:338`) | `CounterIsHighest`: it turns back only where a verification writes over a counter it had not read (`crossing`); `ReplaysBounded` holds in any case |
| a save that would shut everybody out is refused (`services/site-settings.service.ts:183`) | `SavesKeepSignInOpen`: each save alone; two that overlap may do it together (`blended`) |
| a policy's minimum length does not exceed its maximum (`services/password-policy.service.ts:199`) | `PolicyCanBeMet`: unless two updates of the policy overlap (`crossed`) |

The last five, like `LastSaveIsShown` above and `StaysSignedIn` for overlapping calls, say nothing of the overlap
they leave out: it is what the code does, and the variable named records that it happened.

Smaller disagreements, seen while modelling and part of the modules:

- `db/schema.sql:266-267` says that a key without rows in `api_key_scopes` mints all scopes of its client; the
  code mints nothing.
- A policy may ask for more characters by its classes than its maximum length admits; `validateRules` compares
  only the two lengths. `PolicyCanBeMet` is about those.
- Beginning an enrolment again makes a confirmed authenticator pending: until the new secret is confirmed,
  sign-in asks for none.

## 6. Proofs

TLAPS checks these for every number of rows, requests and actors and every bound; TLC checks the same formulas
on the instances above.

| Module | Theorems |
|---|---|
| `TokenRotationProofs` | `TypeCorrect`, `SingleHolderHolds`, `CascadeStays`, `TablesImplementGrant` (refinement of `GrantFamily`), `HeldAccessReachable`, `CascadeContainsHolds` |
| `ConsentProofs` | `ConsentTypeCorrect`, `ConsentExactHolds`, `WithdrawalSticksHolds`, `WithdrawalSparesMachinesHolds`, `EndpointSafeUnderWithdrawal` (what `TokenRotation` promises, with withdrawals) |
| `ClientSessionProofs` | `StaysSignedInHolds`; `EndpointRunsItsParts`, `EndpointTypeCorrect` (the sum `MCTokenEndpoint`) |
| `ScopeGrantsProofs` | `UngrantedStaysGoneHolds`, `AnswersHoldTheirScopesHolds`, `SavedListIsExactHolds` |
| `CredentialProofs` | `OnlyPlaintextRevivesHolds`, `RevivalsBoundedHolds`; `NoSilentKeyHolds`, `LateMintsBoundedHolds`; `BudgetIsExactHolds` |
| `ChallengeProofs` | `OtpTypeCorrect`, `EveryGuessCountedHolds`, `GuessesBoundedHolds`, `AcceptedBoundedHolds`; `UnprovedOnlyByRaceHolds` |
| `AccountProofs` | `ConfirmedWasShownHolds`, `SignInCodesWereShownHolds`; `AnAdministratorRemainsHolds`, `LostRankIsShortHolds`; `OnlyLegacyRevivesHolds`, `SpentLinkRefusedHolds`, `OutstandingBoundedHolds`; `CounterIsHighestHolds`, `ReplaysBoundedHolds`, `RemovedSignsInHolds`; `AccountsRunItsParts`, `AccountsTypeCorrect` (the sum `MCAccounts`) |
| `SiteProofs` | `SavesKeepSignInOpenHolds`, `ShownWasSubmittedHolds`, `LastSaveIsShownHolds`, `PolicyCanBeMetHolds`, `ServedIsRecentHolds` |

The theorem that ends in `Holds` proves the property of that name as it is stated in the model.

Assumptions are the named ones of the modules, and TLC evaluates all of them in the runs: that ids of
different kinds differ and NULL is none of them; that bounds, limits and intervals are numbers, positive where
a zero makes no sense; and that the requests in flight are finitely many where a property counts them, as are
the challenges of a passkey, of which there is at least one.

### The invariants behind them

`TokenRotation.IInv` is `TypeOK`, `LinksStayInFamily`, `SingleHolder` and `CascadeStaysInFamily`.
`SingleHolder` is inductive with types alone, once it is stated of requests that are minting and of codes not
yet redeemed as well as of live rows: the only steps that make a holder take the right from another one, in
the same statement (`RedeemKeepsSingleHolder`, `RotateKeepsSingleHolder`, `MintKeepsSingleHolder`); every
other step only takes rights away (`Shrinks`). `CascadeStaysInFamily` is not inductive: a search follows
`parent` and `access`, so it needs that these never leave the family, in the rows and in the locals of
requests that are about to write or follow one. That is `LinksStayInFamily`.

The refinement uses `IInv`: with a single holder, each statement that redeems, rotates or ends is one step of
the abstract grant of its family, and every other statement a stutter of all of them. `HeldAccessReachable`
adds `AnchoredTokens`: what a client holds, and what an answer under way names, was bound to a row of its
family, and a binding is lost only when one of its two rows is deleted.

`CascadeContainsHolds` needs what no state shows of itself: that the search reaches every row. The prover has
no transitive closure to do induction on, so `Connected` says it with sets: in a family of which no row was
deleted, a set of rows that no link enters or leaves holds all rows or none. `FirstMint` is what makes the
first row of a family the only one without a parent. `Searched` is what a search knows: links of seen rows
lead to seen rows, to rows in the queue, or to the ones just being read. So a search with an empty queue has
seen a closed set, which is the family (`SearchCovers`). `CascadeKnows` adds the rest while nothing raced:
nobody mints, the second search starts with the family revoked, and its list holds every bound access token
(`KnowsStep`); `HeldAccessReachable` then makes it every token that a client holds (`QuietEndKillsFamily`).

`ConsentProofs`: `IInv` is kept by the endpoint's steps and, by lemmas of their own, by the three bulk
statements of a withdrawal, which change no link, add no live row and reopen no code. `RecordInv` says,
until two uses of the consent row overlap, that what an authorization has read is what the row holds;
`ListsOfPair` that a withdrawal only lists tokens of families with a subject; `WithdrawalInv` that in a family
nobody disturbed no request mints and each token bound at the start is bound to a live row, then listed, then
expired (`Tracked`).

`ClientSessionProofs`: every step of a session is a step of the endpoint, so `TypeOK` and `SingleHolder` carry
over. `SessionInv` says, until two refreshes overlap or an answer is lost, that whoever is served was sent the
live token (`OwnCalls`) and that pairs in memory or on the way are live (`GoodPairs`).

`ScopeGrantsProofs`: ids only grow, so an id read before a save names nothing after it. `RequestInv` says that
what a request remembers leads at most to what its source may confer; `SaveInv` accounts for the list: what is
there and what the one save still inserts is exactly what was asked for, unless saves were mixed. `AnswersInv`
says that the join rows of a credential under way, with those still missing, are the ids its request has read,
that two requests never fill one credential, and that an id names one scope.

`CredentialProofs`: `SecretInv` counts the requests that can still put the plaintext secret back; `KeyInv` the
exchanges that can still mint; `BudgetInv`, per day, the attempts not counted yet and those about to be read:
while the day lasts the counter lies between what was admitted and what began.

`ChallengeProofs`: `EveryGuessCounted` strengthens the two bounds. While the row is there, every wrong code
has been counted, is about to be, or was lost with a request that died; and a request that saw the limit
reached stays in `Exceeding` until it has deleted the row. After the deletion nothing is compared. Of
addresses: until a race, every code, request and proof in flight belongs to the address of the row
(`Coherent`), and codes are only sent to users who have an address (`Addressed`).

`AccountProofs`: while a confirmation is in flight the secret in the row was shown, or is recorded as swapped
(`TotpInv`). A removal that is alone and has counted leaves somebody else (`AdminsInv`); the claim of someone
who lost the rank is at least as old as the loss, or as the end of a sign-in that had read the rank before
(`ClaimsInv`). A link that is over is consumed or deleted
(`LinksInv`), a rehash has verified the first password (`PasswordInv`), and each request inserts at most one
link after its purge (`OutstandingInv`). A signature is made once and moves the counter it read forward
(`CounterInv`); a token is issued only once the row is gone, so only verifications that had read it before can
still issue one (`ReplayInv`). A sign-in after a removal turns a verification that had read the row into a
token, or a token into a session, and never makes a new one of either (`OwedInv`, with the sums over all
challenges written as the cardinality of a set of items, so that they can be reasoned about). No counter of a
passkey is ahead of its device, which has counted no more than the challenges it signed (`CountsInv`).

`SiteProofs`: a save that is alone writes against the row it has read (`SettingsInv`, `PolicyInv`), every
picture at a final key was submitted and, unless saves were torn, the one shown is the last one while none is
being replaced (`UploadInv`), and the list that a reader has read was the table's at some moment since it
began (`DiscoveryInv`). Only a policy that is there is assigned or selected, since the statement that writes
the reference is refused otherwise and the deletion takes the references along (`AssignedInv`).

The two sums that TLC runs need no invariant of their own. A step of a sum is a step of one part and leaves
the variables of the others alone, so a behaviour of the sum is a behaviour of every part
(`EndpointRunsItsParts`, `AccountsRunItsParts`). Their type invariants follow from those of the parts, and so
does every other theorem about a part.

### Only model-checked

`CascadeTerminates`: liveness under fairness and ENABLED are out of the prover's reach. Every other property of
a passing run is the statement of a theorem. The claims of section 5 are refuted, by TLC.

## 7. Plan

1. `ClientSession` against two managers of one user, and against a withdrawal of consent.
2. Several passkeys of one user; the deletion of an environment.
3. A composition of the sign-in gates: password, second factor, passkey, in one session.

## 8. Not modelled, and why

The model covers about a tenth of the lines under `src/` that count as implementation: those that keep state
and have an order that matters. The rest is

- pages and server actions that only call a service, the OpenAPI description, documentation, deployment files;
- the WebAuthn, Auth.js and JOSE libraries, and the client library except its TokenManager: wrappers without
  state;
- pure functions with unit tests: the rules of a password policy, redirect-URI matching, PKCE, the format of
  keys and tokens;
- mail and object storage beyond "the call may fail"; the hashing worker, which is a call that takes time;
- the append-only logs, which nothing reads back to decide;
- names, titles, redirect URIs and claims: single-row writes that no other step depends on;
- environments, whose deletion has the two steps and the foreign key of the deletion of a scope
  (`ScopeDiscovery`); the rows removed by deleting a user or a client, which end everything that refers to
  them in one statement of the database.

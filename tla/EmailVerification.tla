--------------------------- MODULE EmailVerification ---------------------------
(***************************************************************************)
(* One user's address and whether it is verified (users.email and          *)
(* users.email_verified_at), written by administrators who edit the user   *)
(* (updateUser in services/user.service.ts) and by requests that present a *)
(* mailed code (services/user-challenge.service.ts).  A code's row does    *)
(* not name the address it was mailed to; every request works from the     *)
(* user it read first.                                                     *)
(***************************************************************************)
EXTENDS Naturals, FiniteSets

CONSTANTS
    Address,
    MailCode,       \* rows of user_challenges
    Editor,         \* administrators who edit the user at the same time
    Requester,      \* requests for a code in flight
    Prover,         \* requests that present a code in flight
    Patch           \* the edits an administrator may ask for

Flag == {"keep", "set", "clear"}

ASSUME AddressAssumption == {"none", "keep"} \cap Address = {}

ASSUME PatchAssumption ==
    Patch \subseteq [email : Address \cup {"none", "keep"}, verified : Flag, admin : Flag]

VARIABLES
    user,           \* the row of the user
    code,           \* code[c]: the row of a code, and where it was mailed
    edit,           \* edit[e]: the patch, and whether the user is still the
                    \* one the editor has read
    request,        \* request[q]: the address read, and the call made next
    proof,          \* proof[v]: the call made next
    proved,         \* history: addresses whose code was presented
    trusted,        \* history: addresses an administrator vouched for
    raced           \* history: the address was changed while a code, a request
                    \* or another edit was outstanding

emailVars == <<user, code, edit, request, proof, proved, trusted, raced>>

User == [email : Address \cup {"none"}, verified : BOOLEAN, admin : BOOLEAN]

Kind == {"email_verification", "mfa_otp"}

NoCode == [live |-> FALSE, kind |-> "mfa_otp", sentTo |-> "none"]

NoPatch == [email |-> "keep", verified |-> "keep", admin |-> "keep"]

NoEdit == [busy |-> FALSE, fresh |-> TRUE, patch |-> NoPatch]

NothingRequested == [pc |-> "idle", kind |-> "mfa_otp", sentTo |-> "none"]

EmailTypeOK ==
    /\ user \in User
    /\ code \in [MailCode -> [live : BOOLEAN, kind : Kind, sentTo : Address \cup {"none"}]]
    /\ edit \in [Editor ->
           [busy : BOOLEAN, fresh : BOOLEAN,
            patch : [email : Address \cup {"none", "keep"}, verified : Flag, admin : Flag]]]
    /\ request \in [Requester -> [pc : {"idle", "replace", "insert"}, kind : Kind,
                                  sentTo : Address \cup {"none"}]]
    /\ proof \in [Prover -> {"idle", "must", "need not", "mark", "write"}]
    /\ proved \in SUBSET Address /\ trusted \in SUBSET Address /\ raced \in BOOLEAN

\* createUser: the address of an administrator is trusted.
EmailInit ==
    /\ user \in {u \in User : u.verified = (u.admin /\ u.email # "none")}
    /\ trusted = IF user.verified THEN {user.email} ELSE {}
    /\ code = [c \in MailCode |-> NoCode]
    /\ edit = [e \in Editor |-> NoEdit]
    /\ request = [q \in Requester |-> NothingRequested]
    /\ proof = [v \in Prover |-> "idle"]
    /\ proved = {} /\ raced = FALSE

-----------------------------------------------------------------------------
(* Editing the user.                                                       *)

\* Broken variant: a new address keeps the old timestamp.
KeepsVerified(patch) == patch

\* A new address of a user who is not an administrator is unverified; a value
\* given explicitly goes first.
ResetsVerified(patch) ==
    IF /\ patch.verified = "keep" /\ ~ user.admin
       /\ patch.email \notin {"keep", user.email}
    THEN [patch EXCEPT !.verified = "clear"]
    ELSE patch

ReadForEdit(e, patch) ==
    /\ ~ edit[e].busy
    /\ edit' = [edit EXCEPT ![e] = [busy |-> TRUE, fresh |-> TRUE,
                                    patch |-> ResetsVerified(patch)]]
    /\ UNCHANGED <<user, code, request, proof, proved, trusted, raced>>

EditedFlag(old, flag) == IF flag = "keep" THEN old ELSE flag = "set"

CodesInForce ==
    \/ \E c \in MailCode : code[c].live
    \/ \E q \in Requester : request[q].pc # "idle"
    \/ \E v \in Prover : proof[v] # "idle"

\* One UPDATE of the columns in the patch.
WriteEdit(e) ==
    LET patch == edit[e].patch
        email == IF patch.email = "keep" THEN user.email ELSE patch.email
        admin == EditedFlag(user.admin, patch.admin)
        changed == email # user.email
    IN
    /\ edit[e].busy
    /\ user' = [email |-> email, verified |-> EditedFlag(user.verified, patch.verified),
                admin |-> admin]
    /\ trusted' = IF email # "none" /\ (patch.verified = "set" \/ user.admin)
                  THEN trusted \cup {email} ELSE trusted
    /\ raced' = (raced \/ (changed /\ (~ edit[e].fresh \/ CodesInForce)))
    /\ edit' = [f \in Editor |->
                   IF f = e THEN NoEdit
                   ELSE IF edit[f].busy /\ (changed \/ admin # user.admin)
                        THEN [edit[f] EXCEPT !.fresh = FALSE]
                   ELSE edit[f]]
    /\ UNCHANGED <<code, request, proof, proved>>

EditFails(e) ==
    /\ edit[e].busy
    /\ edit' = [edit EXCEPT ![e] = NoEdit]
    /\ UNCHANGED <<user, code, request, proof, proved, trusted, raced>>

-----------------------------------------------------------------------------
(* Asking for a code, and presenting it.                                   *)

\* requestEmailVerification and beginSignInChallenge; a sign-in code is mailed
\* whatever the user is, and replaces no earlier one.
RequestCode(q, kind) ==
    /\ request[q].pc = "idle" /\ user.email # "none"
    /\ kind = "email_verification" => ~ user.admin /\ ~ user.verified
    /\ request' = [request EXCEPT ![q] =
                      [pc |-> IF kind = "mfa_otp" THEN "insert" ELSE "replace",
                       kind |-> kind, sentTo |-> user.email]]
    /\ UNCHANGED <<user, code, edit, proof, proved, trusted, raced>>

\* deleteByUserIdAndKind.
ReplaceCodes(q) ==
    /\ request[q].pc = "replace"
    /\ code' = [c \in MailCode |->
                   IF code[c].kind = "email_verification" THEN NoCode ELSE code[c]]
    /\ request' = [request EXCEPT ![q].pc = "insert"]
    /\ UNCHANGED <<user, edit, proof, proved, trusted, raced>>

InsertCode(q, c) ==
    /\ request[q].pc = "insert" /\ ~ code[c].live
    /\ code' = [code EXCEPT ![c] = [live |-> TRUE, kind |-> request[q].kind,
                                    sentTo |-> request[q].sentTo]]
    /\ request' = [request EXCEPT ![q] = NothingRequested]
    /\ UNCHANGED <<user, edit, proof, proved, trusted, raced>>

\* A request that presents a code; at sign-in, a code of MFA will only mark the
\* address if the user read first needed it.
BeginProof(v) ==
    /\ proof[v] = "idle"
    /\ proof' = [proof EXCEPT ![v] =
                    IF ~ user.admin /\ ~ user.verified THEN "must" ELSE "need not"]
    /\ UNCHANGED <<user, code, edit, request, proved, trusted, raced>>

\* The right code, and the deletion of its row.
ProveCode(v, c) ==
    /\ proof[v] \in {"must", "need not"} /\ code[c].live
    /\ proved' = proved \cup {code[c].sentTo}
    /\ code' = [code EXCEPT ![c] = NoCode]
    /\ proof' = [proof EXCEPT ![v] =
                    IF code[c].kind = "email_verification" \/ @ = "must" THEN "mark" ELSE "idle"]
    /\ UNCHANGED <<user, edit, request, trusted, raced>>

\* markEmailVerified: the user is read again ...
ReadForMark(v) ==
    /\ proof[v] = "mark"
    /\ proof' = [proof EXCEPT ![v] =
                    IF user.admin \/ user.email = "none" \/ user.verified THEN "idle" ELSE "write"]
    /\ UNCHANGED <<user, code, edit, request, proved, trusted, raced>>

\* ... and the UPDATE names only the user.
MarkVerified(v) ==
    /\ proof[v] = "write"
    /\ user' = [user EXCEPT !.verified = TRUE]
    /\ proof' = [proof EXCEPT ![v] = "idle"]
    /\ UNCHANGED <<code, edit, request, proved, trusted, raced>>

\* The request is refused or dies; a code expires.
ProofEnds(v) ==
    /\ proof[v] # "idle"
    /\ proof' = [proof EXCEPT ![v] = "idle"]
    /\ UNCHANGED <<user, code, edit, request, proved, trusted, raced>>

RequestEnds(q) ==
    /\ request[q].pc # "idle"
    /\ request' = [request EXCEPT ![q] = NothingRequested]
    /\ UNCHANGED <<user, code, edit, proof, proved, trusted, raced>>

ExpireCode(c) ==
    /\ code[c].live
    /\ code' = [code EXCEPT ![c] = NoCode]
    /\ UNCHANGED <<user, edit, request, proof, proved, trusted, raced>>

EmailNext ==
    \/ \E e \in Editor :
          \/ \E patch \in Patch : ReadForEdit(e, patch)
          \/ WriteEdit(e) \/ EditFails(e)
    \/ \E q \in Requester :
          \/ \E kind \in Kind : RequestCode(q, kind)
          \/ ReplaceCodes(q) \/ RequestEnds(q) \/ \E c \in MailCode : InsertCode(q, c)
    \/ \E v \in Prover :
          \/ BeginProof(v) \/ ReadForMark(v) \/ MarkVerified(v) \/ ProofEnds(v)
          \/ \E c \in MailCode : ProveCode(v, c)
    \/ \E c \in MailCode : ExpireCode(c)

EmailSpec == EmailInit /\ [][EmailNext]_emailVars

-----------------------------------------------------------------------------
(* Properties.                                                             *)

Unproved == user.verified /\ user.email \notin proved \cup trusted \cup {"none"}

\* auth.ts:245: completing a mailed code proves that the user owns the address.
\* A verified address was proved by its own code, or vouched for by an
\* administrator.
VerifiedAddressWasProved == ~ Unproved

\* An address counts as verified without either only when it was changed while
\* a code was on its way, a request was under way, or another edit had changed
\* the user since it was read.
UnprovedOnlyByRace == Unproved => raced
=============================================================================

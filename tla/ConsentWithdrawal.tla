-------------------------- MODULE ConsentWithdrawal --------------------------
(***************************************************************************)
(* Consent of one user for one client (services/consent.service.ts), on    *)
(* top of the token endpoint.  An authorization inserts its code and then  *)
(* records consent by reading the user_consents row, merging in memory and *)
(* writing the union; a withdrawal deletes the row and then revokes,       *)
(* expires and deletes the credentials of the pair, one statement at a     *)
(* time.  Both race with each other and with the token endpoint.           *)
(*                                                                         *)
(* Every family of TokenRotation belongs to the pair, except those opened  *)
(* by client_credentials: their rows have no subject.                      *)
(***************************************************************************)
EXTENDS TokenRotation

CONSTANTS
    Scope,      \* scope names
    Asked       \* Asked[f]: the scopes granted to the authorization of f

ASSUME AskedAssumption == Asked \in [Fam -> SUBSET Scope]

VARIABLES
    consent,    \* the scopes of the user_consents row, {} when there is none
    granted,    \* history: what was agreed to since the last withdrawal
    overlapped, \* history: two uses of the row have overlapped since then
    auth,       \* auth[f]: the authorization request that issues the code of f
    wd          \* the withdrawal in progress

consentVars == <<consent, granted, overlapped, auth, wd>>

allVars == <<vars, consentVars>>

IdleWithdrawal == [pc |-> "idle", doomed |-> {}, bound |-> {}, raced |-> {}]

ConsentTypeOK ==
    /\ TypeOK
    /\ consent \subseteq Scope /\ granted \subseteq Scope /\ overlapped \in BOOLEAN
    /\ auth \in [Fam -> [pc : {"none", "get", "upsert", "done", "dead"},
                         read : SUBSET Scope]]
    /\ wd \in [pc : {"idle", "collect", "revoke", "expire", "codes"},
               doomed : SUBSET AT, bound : SUBSET AT, raced : SUBSET Fam]
    /\ wd.pc \in {"idle", "collect"} => wd.doomed = {}

ConsentInit ==
    /\ Init
    /\ consent = {} /\ granted = {} /\ overlapped = FALSE
    /\ auth = [f \in Fam |-> [pc |-> "none", read |-> {}]]
    /\ wd = IdleWithdrawal

\* Broken variant: every refresh token of the client, with or without a subject.
OfClient(f) == codes[f] # "none"

\* subject = ? AND client_id = ?
OfPair(f) == codes[f] # "absent"

LiveRows == {r \in RT : Live(r) /\ OfPair(rt[r].fam)}

\* Authorizations that have read the row and not yet written it.
Recording == {f \in Fam : auth[f].pc = "upsert"}

InFlight == {f \in Fam : OfPair(f) /\ \E q \in Req : Minting(q, f)}

-----------------------------------------------------------------------------
(* Authorization: the code first, then the consent record, then the        *)
(* redirect that carries the code.                                         *)

CreateCode(f) ==
    /\ auth[f].pc = "none"
    /\ Authorize(f)
    /\ auth' = [auth EXCEPT ![f].pc = "get"]
    /\ UNCHANGED <<consent, granted, overlapped, wd>>

GetConsent(f) ==
    /\ auth[f].pc = "get"
    /\ auth' = [auth EXCEPT ![f] = [pc |-> "upsert", read |-> consent]]
    /\ overlapped' = (overlapped \/ Recording # {})
    /\ UNCHANGED <<vars, consent, granted, wd>>

\* Broken variant: the row is replaced.
Replaced(f) == Asked[f]

\* What the user had agreed to when it was read, and what is new.
Merged(f) == auth[f].read \cup Asked[f]

UpsertConsent(f) ==
    /\ auth[f].pc = "upsert"
    /\ consent' = Merged(f)
    /\ granted' = granted \cup Asked[f]
    /\ auth' = [auth EXCEPT ![f] = [pc |-> "done", read |-> {}]]
    /\ UNCHANGED <<vars, overlapped, wd>>

\* The Worker dies: the code exists and nobody learns its value.
AuthorizeDies(f) ==
    /\ auth[f].pc \in {"get", "upsert"}
    /\ auth' = [auth EXCEPT ![f] = [pc |-> "dead", read |-> {}]]
    /\ UNCHANGED <<vars, consent, granted, overlapped, wd>>

-----------------------------------------------------------------------------
(* Withdrawal.                                                             *)

\* The row is dropped, whether or not there was one.
DeleteConsent ==
    /\ wd.pc = "idle"
    /\ consent' = {} /\ granted' = {} /\ overlapped' = (Recording # {})
    /\ wd' = [pc |-> "collect", doomed |-> {}, raced |-> InFlight,
              bound |-> BoundAccess(LiveRows)]
    /\ UNCHANGED <<vars, auth>>

\* SELECT the access tokens bound to the rows that are not revoked.
CollectBound ==
    /\ wd.pc = "collect"
    /\ wd' = [wd EXCEPT !.pc = "revoke",
                        !.doomed = BoundAccess(LiveRows)]
    /\ UNCHANGED <<vars, consent, granted, overlapped, auth>>

RevokeAll ==
    /\ wd.pc = "revoke"
    /\ RevokeRows(LiveRows)
    /\ wd' = [wd EXCEPT !.pc = IF wd.doomed = {} THEN "codes" ELSE "expire"]
    /\ UNCHANGED <<codes, perm, at, held, req, consent, granted, overlapped, auth>>

ExpireBound ==
    /\ wd.pc = "expire"
    /\ ExpireAccess(wd.doomed)
    /\ wd' = [wd EXCEPT !.pc = "codes"]
    /\ UNCHANGED <<codes, perm, rt, held, req, consent, granted, overlapped, auth>>

\* Broken variant: the codes that lapsed instead of those not redeemed.
LapsedCodes == {f \in Fam : codes[f] = "expired"}

\* used_at IS NULL.
UnusedCodes == {f \in Fam : codes[f] \in {"unused", "expired"}}

DeleteUnusedCodes ==
    /\ wd.pc = "codes"
    /\ codes' = [f \in Fam |-> IF f \in UnusedCodes THEN "deleted" ELSE codes[f]]
    /\ wd' = IdleWithdrawal
    /\ UNCHANGED <<perm, rt, at, held, req, consent, granted, overlapped, auth>>

\* Broken variant: the list of access tokens outlives the request.
WithdrawalPauses ==
    /\ wd.pc # "idle"
    /\ wd' = [wd EXCEPT !.pc = "idle"]
    /\ UNCHANGED <<vars, consent, granted, overlapped, auth>>

\* The administrator's request dies half way: what is left stays.
WithdrawalDies ==
    /\ wd.pc # "idle"
    /\ wd' = IdleWithdrawal
    /\ UNCHANGED <<vars, consent, granted, overlapped, auth>>

Withdraw ==
    \/ DeleteConsent \/ CollectBound \/ RevokeAll
    \/ ExpireBound \/ DeleteUnusedCodes \/ WithdrawalDies

-----------------------------------------------------------------------------

\* The pair's families in which a step of the token endpoint mints, or ends a
\* session by itself.
Disturbed ==
    {f \in Fam : OfPair(f) /\ \/ \E q \in Req : Minting(q, f)'
                              \/ \E r \in RT : Live(r) /\ rt[r].fam = f /\ ~Live(r)'}

\* A step of the token endpoint.  The client redeems a code only after the
\* redirect has delivered it.
TokenStep ==
    /\ Requests \/ \E f \in Fam : CodeLapses(f)
    /\ \A q \in Req : req'[q].pc = "code_found" => auth[req'[q].fam].pc = "done"
    /\ wd' = IF wd.pc = "idle" THEN wd ELSE [wd EXCEPT !.raced = @ \cup Disturbed]
    /\ UNCHANGED <<consent, granted, overlapped, auth>>

ConsentStep ==
    \/ \E f \in Fam : CreateCode(f) \/ GetConsent(f) \/ UpsertConsent(f) \/ AuthorizeDies(f)
    \/ Withdraw

ConsentNext == TokenStep \/ ConsentStep

ConsentSpec == ConsentInit /\ [][ConsentNext]_allVars

-----------------------------------------------------------------------------
(* Properties.                                                             *)

\* A withdrawal that ends has ended every session of the pair that no rotation
\* or exchange was renewing meanwhile: no refresh token is live, no code can be
\* redeemed, and the access tokens bound to the refresh tokens that were live
\* when it started are expired.  A race in one family excuses no other family.
WithdrawalSticks ==
    [][DeleteUnusedCodes =>
         \A f \in Fam : OfPair(f) /\ f \notin wd.raced =>
            /\ \A r \in RT : rt[r].fam = f => ~Live(r)'
            /\ codes'[f] \notin {"unused", "expired"}
            /\ \A a \in wd.bound : at[a].fam = f => at'[a].st # "live"]_allVars

\* A withdrawal ends nothing of a family that has no subject: machine sessions
\* of the same client keep their tokens.
WithdrawalSparesMachines ==
    [][Withdraw =>
         \A f \in Fam : codes[f] = "absent" =>
            /\ \A r \in RT : rt[r].fam = f => rt'[r] = rt[r]
            /\ \A a \in AT : at[a].fam = f => at'[a] = at[a]]_allVars

\* docs/features/oauth-and-grants.mdx:67-68: revoking consent also revokes the
\* user's access tokens for the client, so access stops immediately.
RevokingStopsAccess ==
    [][DeleteUnusedCodes =>
         \A a \in held \cap AT : OfPair(at[a].fam) => at'[a].st # "live"]_allVars

\* The row holds exactly what the user agreed to since the last withdrawal, as
\* long as no authorization read the row while another stood between its read
\* and its write, and no withdrawal came in between; requests that die, repeated
\* withdrawals and exchanges that overlap do not matter, and a withdrawal mends
\* what an overlap has lost.
ConsentExact == ~overlapped => consent = granted
=============================================================================

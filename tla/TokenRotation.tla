---------------------------- MODULE TokenRotation ----------------------------
(***************************************************************************)
(* The token endpoint of eetr-auth over its D1 tables authorization_codes, *)
(* refresh_tokens and tokens (services/oauth-token.service.ts and the D1   *)
(* repositories).  Every D1 statement commits by itself, so a request is a *)
(* process that takes one step per statement, and requests interleave      *)
(* between any two of them; a Worker may also die between two of them.     *)
(*                                                                         *)
(* A family is the rotation lineage that grows from one grant: either one  *)
(* authorization code or one client_credentials call.  The rows carry the  *)
(* family they were minted for as a history column (fam): the code itself  *)
(* knows only the rotated_from_id links.                                   *)
(*                                                                         *)
(* Time is abstracted to the moment a row lapses.  Scopes, audiences and   *)
(* JWT wording are left out: see the README.                               *)
(***************************************************************************)
EXTENDS Naturals, FiniteSets

CONSTANTS
    Fam,    \* grants: each is the root of one rotation family
    RT,     \* ids of refresh_tokens rows
    AT,     \* ids of tokens (access token) rows
    Req,    \* requests in flight at the same time
    NULL    \* SQL NULL

ASSUME NullAssumption == NULL \notin Fam \cup RT \cup AT

ASSUME RowsAssumption == RT \cap AT = {}

VARIABLES
    codes,  \* codes[f]: the authorization_codes row the family starts from
    perm,   \* perm[f]: the subject may use the client (environment, test gate)
    rt,     \* the refresh_tokens table
    at,     \* the tokens table
    held,   \* tokens whose value has been returned to a client
    req     \* req[q]: program counter and locals of a request

vars == <<codes, perm, rt, at, held, req>>

CodeState == {"none", "unused", "expired", "used", "deleted", "absent"}

RefreshRow ==
    {x \in [st : {"unborn", "live", "revoked", "deleted"}, expired : BOOLEAN,
            fam : Fam \cup {NULL}, parent : RT \cup {NULL}, access : AT \cup {NULL}] :
        /\ x.st = "unborn" => x.fam = NULL /\ x.parent = NULL /\ x.access = NULL
        /\ x.st # "unborn" => x.fam \in Fam}

AccessRow ==
    {x \in [st : {"unborn", "live", "expired", "deleted"}, fam : Fam \cup {NULL}] :
        x.st = "unborn" <=> x.fam = NULL}

MintPC == {"mint_access", "mint_refresh"}

CascadePC == {"walk", "children", "revoke_family", "list_access", "expire_access"}

PendingPC == {"code_found", "rt_found", "rt_allowed"} \cup MintPC

RequestRow ==
    [pc : {"idle", "respond"} \cup PendingPC \cup CascadePC,
     fam : Fam \cup {NULL}, root : RT \cup {NULL},
     access : AT \cup {NULL}, refresh : RT \cup {NULL},
     sweep : {"revoke", "list"}, cur : RT \cup {NULL},
     seen : SUBSET RT, queue : SUBSET RT, doomed : SUBSET AT,
     raced : BOOLEAN]

\* A local is set before the statement that uses it.
Request ==
    {o \in RequestRow :
        /\ o.pc \in PendingPC \cup CascadePC => o.fam \in Fam
        /\ o.pc \in {"rt_found", "rt_allowed"} \cup CascadePC => o.root \in RT
        /\ o.pc \in {"idle", "code_found"} => o.root = NULL
        /\ o.pc \in {"mint_refresh", "respond"} => o.access \in AT
        /\ o.pc = "respond" => o.refresh \in RT
        /\ o.pc = "children" => o.cur \in RT}

\* Type correctness of the tables and of every request's locals.
TypeOK ==
    /\ codes \in [Fam -> CodeState]
    /\ perm \in [Fam -> BOOLEAN]
    /\ rt \in [RT -> RefreshRow]
    /\ at \in [AT -> AccessRow]
    /\ held \subseteq RT \cup AT
    /\ req \in [Req -> Request]

IdleRequest ==
    [pc |-> "idle", fam |-> NULL, root |-> NULL, access |-> NULL, refresh |-> NULL,
     sweep |-> "revoke", cur |-> NULL, seen |-> {}, queue |-> {}, doomed |-> {},
     raced |-> FALSE]

Init ==
    /\ codes = [f \in Fam |-> "none"]
    /\ perm = [f \in Fam |-> TRUE]
    /\ rt = [r \in RT |-> [st |-> "unborn", expired |-> FALSE, fam |-> NULL,
                           parent |-> NULL, access |-> NULL]]
    /\ at = [a \in AT |-> [st |-> "unborn", fam |-> NULL]]
    /\ held = {}
    /\ req = [q \in Req |-> IdleRequest]

\* A request that has consumed its credential and not yet inserted the
\* successor: for that long nothing in the tables represents the family.
Minting(q, f) == req[q].pc \in MintPC /\ req[q].fam = f

Live(r) == rt[r].st = "live"

Present(r) == rt[r].st \in {"live", "revoked"}

Unborn(T) == {x \in DOMAIN T : T[x].st = "unborn"}

\* Bound of the model: a request that may mint is admitted only while every
\* admitted request still has a fresh row id to draw (the code's UUIDs never
\* run out).
IdsLeft ==
    LET pending == Cardinality({q \in Req : req[q].pc \in PendingPC})
    IN  pending < Cardinality(Unborn(rt)) /\ pending < Cardinality(Unborn(at))

\* The next state of one request.
Become(q, next) == req' = [req EXCEPT ![q] = next]

-----------------------------------------------------------------------------
(* The grant: an authorization code, or client_credentials.                *)

\* POST /api/authorize has inserted a code row and redirected with its value.
Authorize(f) ==
    /\ codes[f] = "none"
    /\ perm[f]
    /\ codes' = [codes EXCEPT ![f] = "unused"]
    /\ UNCHANGED <<perm, rt, at, held, req>>

\* The request now owns the family: it issues the next pair.
\* Any cascade under way in the same family is racing with it from now on.
MintFor(q, f) ==
    req' = [p \in Req |->
              IF p = q THEN [req[q] EXCEPT !.pc = "mint_access", !.fam = f]
              ELSE IF req[p].fam = f /\ req[p].pc \in CascadePC
                   THEN [req[p] EXCEPT !.raced = TRUE] ELSE req[p]]

\* client_credentials: no code, no subject, no parent; a pair is issued at once.
ExchangeClientCredentials(q, f) ==
    /\ req[q].pc = "idle" /\ codes[f] = "none" /\ IdsLeft
    /\ codes' = [codes EXCEPT ![f] = "absent"]
    /\ MintFor(q, f)
    /\ UNCHANGED <<perm, rt, at, held>>

\* authorization_code: the lookup and every check made on the row it returned.
LookupCode(q, f) ==
    /\ req[q].pc = "idle" /\ codes[f] = "unused" /\ IdsLeft
    /\ Become(q, [req[q] EXCEPT !.pc = "code_found", !.fam = f])
    /\ UNCHANGED <<codes, perm, rt, at, held>>

\* Broken variant: an UPDATE without its WHERE used_at IS NULL.
MarksAnyCode(f) == codes[f] # "none"

\* WHERE used_at IS NULL.
UsedAtIsNull(f) == codes[f] \in {"unused", "expired"}

\* The conditional UPDATE that consumes the code: only the request that flips
\* used_at goes on to issue; expires_at is not looked at again.
MarkUsed(q) ==
    /\ req[q].pc = "code_found"
    /\ \/ /\ UsedAtIsNull(req[q].fam)
          /\ codes' = [codes EXCEPT ![req[q].fam] = "used"]
          /\ MintFor(q, req[q].fam)
       \/ /\ ~UsedAtIsNull(req[q].fam)
          /\ Become(q, IdleRequest)
          /\ UNCHANGED codes
    /\ UNCHANGED <<perm, rt, at, held>>

-----------------------------------------------------------------------------
(* Rotation of a refresh token.                                            *)

\* The locals of a request that starts revokeFamilyAndAccessTokens at root r
\* of family f.
CascadeFrom(q, r, f) ==
    [IdleRequest EXCEPT !.pc = "walk", !.fam = f, !.root = r, !.queue = {r},
                        !.raced = \E p \in Req \ {q} : Minting(p, f)]

\* Lookup of the presented value: reuse of a revoked token starts the cascade,
\* a deleted or expired one is refused (no change of state).
LookupRefreshToken(q, r) ==
    /\ req[q].pc = "idle" /\ r \in held
    /\ \/ /\ rt[r].st = "revoked"
          /\ Become(q, CascadeFrom(q, r, rt[r].fam))
       \/ /\ Live(r) /\ ~rt[r].expired /\ IdsLeft
          /\ Become(q, [req[q] EXCEPT !.pc = "rt_found", !.fam = rt[r].fam, !.root = r])
    /\ UNCHANGED <<codes, perm, rt, at, held>>

\* The environment and test-user gates, re-read on every refresh; a token
\* without a subject skips them.
CheckSubject(q) ==
    LET f == req[q].fam IN
    /\ req[q].pc = "rt_found"
    /\ \/ /\ codes[f] = "absent" \/ perm[f]
          /\ Become(q, [req[q] EXCEPT !.pc = "rt_allowed"])
       \/ /\ codes[f] # "absent" /\ ~perm[f]
          /\ Become(q, CascadeFrom(q, req[q].root, f))
    /\ UNCHANGED <<codes, perm, rt, at, held>>

\* Broken variant: an UPDATE without its WHERE revoked_at IS NULL.
RevokesAnyRow(r) == Present(r)

\* WHERE revoked_at IS NULL.
RevokedAtIsNull(r) == Live(r)

\* The conditional UPDATE that is the rotation guard: the loser treats the
\* token as reused.
RevokePresented(q) ==
    LET r == req[q].root IN
    /\ req[q].pc = "rt_allowed"
    /\ \/ /\ RevokedAtIsNull(r)
          /\ rt' = [rt EXCEPT ![r].st = "revoked"]
          /\ MintFor(q, req[q].fam)
       \/ /\ ~RevokedAtIsNull(r)
          /\ Become(q, CascadeFrom(q, r, req[q].fam))
          /\ UNCHANGED rt
    /\ UNCHANGED <<codes, perm, at, held>>

-----------------------------------------------------------------------------
(* issueTokenPair: two inserts, then the response.                         *)

CreateAccessToken(q) ==
    /\ req[q].pc = "mint_access"
    /\ \E a \in Unborn(at) :
         /\ at' = [at EXCEPT ![a] = [st |-> "live", fam |-> req[q].fam]]
         /\ Become(q, [req[q] EXCEPT !.pc = "mint_refresh", !.access = a])
    /\ UNCHANGED <<codes, perm, rt, held>>

\* Both foreign keys of the new row must still point at an existing row.
ForeignKeysHold(q) ==
    /\ at[req[q].access].st # "deleted"
    /\ req[q].root # NULL => Present(req[q].root)

\* Broken variant: rotation copies the access token id of the old row.
CarriesOldAccess(q) ==
    [st |-> "live", expired |-> FALSE, fam |-> req[q].fam, parent |-> req[q].root,
     access |-> IF req[q].root = NULL THEN req[q].access ELSE rt[req[q].root].access]

\* The inserted row.
NewRefreshRow(q) ==
    [st |-> "live", expired |-> FALSE, fam |-> req[q].fam,
     parent |-> req[q].root, access |-> req[q].access]

\* The row points at its parent and its access token; when one of them was
\* deleted in between the INSERT fails and the request ends without a pair.
CreateRefreshToken(q) ==
    /\ req[q].pc = "mint_refresh"
    /\ \/ /\ ForeignKeysHold(q)
          /\ \E r \in Unborn(rt) :
               /\ rt' = [rt EXCEPT ![r] = NewRefreshRow(q)]
               /\ Become(q, [req[q] EXCEPT !.pc = "respond", !.refresh = r])
       \/ /\ ~ForeignKeysHold(q)
          /\ Become(q, IdleRequest)
          /\ UNCHANGED rt
    /\ UNCHANGED <<codes, perm, at, held>>

\* The client receives the pair.
Respond(q) ==
    /\ req[q].pc = "respond"
    /\ held' = held \cup {req[q].access, req[q].refresh}
    /\ Become(q, IdleRequest)
    /\ UNCHANGED <<codes, perm, rt, at>>

\* The request throws (scope selection, a failed statement), its Worker dies,
\* or its response is lost: what it has already written stays.
Abandon(q) ==
    /\ req[q].pc # "idle"
    /\ Become(q, IdleRequest)
    /\ UNCHANGED <<codes, perm, rt, at, held>>

-----------------------------------------------------------------------------
(* revokeFamilyAndAccessTokens: collectFamilyIds is a breadth-first search *)
(* with one SELECT per link; it runs twice, once to revoke the rows it     *)
(* reaches and once to list their access tokens.  The queue is a set: the  *)
(* SELECTs have no ORDER BY and no property depends on the visiting order. *)

\* Broken variant: the search only descends.
NoParents(c) == {rt[c].parent} \ (RT \cup {NULL})

\* Broken variant: a NULL-safe comparison, which matches rows without a parent.
RowsLinkedAlike(c) == {r \in RT : Present(r) /\ rt[r].parent = rt[c].parent}

\* Rows linked to c that a step of the search adds to its queue.
Parents(c) == {rt[c].parent} \ {NULL}

Children(c) == {r \in RT : Present(r) /\ rt[r].parent = c}

\* Broken variant: a row already seen is searched again.
WalkWithoutSeen(q) ==
    /\ req[q].pc = "walk"
    /\ \E c \in req[q].queue :
         Become(q, [req[q] EXCEPT !.pc = "children", !.cur = c, !.seen = {},
                     !.queue = (@ \ {c}) \cup Parents(c)])
    /\ UNCHANGED <<codes, perm, rt, at, held>>

\* Take a row off the queue, skip it if seen, otherwise read its parent link.
WalkParent(q) ==
    /\ req[q].pc = "walk"
    /\ \E c \in req[q].queue :
         \/ /\ c \in req[q].seen
            /\ Become(q, [req[q] EXCEPT !.queue = @ \ {c}])
         \/ /\ c \notin req[q].seen
            /\ LET seen == req[q].seen \cup {c} IN
               Become(q, [req[q] EXCEPT !.pc = "children", !.cur = c, !.seen = seen,
                           !.queue = (@ \ {c}) \cup (Parents(c) \ seen)])
    /\ UNCHANGED <<codes, perm, rt, at, held>>

\* Read the rows that were rotated from the current one.
WalkChildren(q) ==
    /\ req[q].pc = "children"
    /\ Become(q, [req[q] EXCEPT !.pc = "walk", !.cur = NULL,
                          !.queue = @ \cup (Children(req[q].cur) \ req[q].seen)])
    /\ UNCHANGED <<codes, perm, rt, at, held>>

WalkDone(q, sweep) ==
    req[q].pc = "walk" /\ req[q].queue = {} /\ req[q].sweep = sweep

\* UPDATE refresh_tokens SET revoked_at ... WHERE revoked_at IS NULL AND id IN S.
RevokeRows(S) ==
    rt' = [r \in RT |-> IF r \in S /\ Live(r) THEN [rt[r] EXCEPT !.st = "revoked"]
                                             ELSE rt[r]]

\* The first search is over: one UPDATE, and the second search starts.
RevokeFamily(q) ==
    /\ WalkDone(q, "revoke")
    /\ RevokeRows(req[q].seen)
    /\ Become(q, [req[q] EXCEPT !.sweep = "list", !.seen = {}, !.queue = {req[q].root}])
    /\ UNCHANGED <<codes, perm, at, held>>

\* Broken variant: the SELECT without its access_token_id IS NOT NULL.
BoundAccessOrNull(S) == {rt[r].access : r \in {s \in S : Present(s)}}

\* Broken variant: only the rows that are still live are listed.
BoundLiveAccess(S) == {rt[r].access : r \in {s \in S : Live(s)}} \ {NULL}

\* SELECT DISTINCT access_token_id ... WHERE access_token_id IS NOT NULL.
BoundAccess(S) == {rt[r].access : r \in {s \in S : Present(s)}} \ {NULL}

\* The second search is over: SELECT the access tokens bound to the rows.
ListFamilyAccessTokenIds(q) ==
    /\ WalkDone(q, "list")
    /\ LET ids == BoundAccess(req[q].seen) IN
       \/ /\ ids # {}
          /\ Become(q, [req[q] EXCEPT !.pc = "expire_access", !.doomed = ids])
       \/ /\ ids = {}
          /\ Become(q, IdleRequest)
    /\ UNCHANGED <<codes, perm, rt, at, held>>

ExpireAccess(S) ==
    at' = [a \in AT |-> IF a \in S /\ at[a].st = "live" THEN [at[a] EXCEPT !.st = "expired"]
                                                       ELSE at[a]]

\* expires_at := min(expires_at, now) for the listed rows; the request fails
\* with invalid_grant.
ExpireAccessTokensByIds(q) ==
    /\ req[q].pc = "expire_access"
    /\ ExpireAccess(req[q].doomed)
    /\ Become(q, IdleRequest)
    /\ UNCHANGED <<codes, perm, rt, held>>

-----------------------------------------------------------------------------
(* Revocation and deletion by value, cleanup, time.                        *)

\* revokeTokenByValue on a refresh token: that row only.
RevokeTokenByValue(r) ==
    /\ Live(r)
    /\ RevokeRows({r})
    /\ UNCHANGED <<codes, perm, at, held, req>>

\* revokeTokenByValue on an access token.
RevokeAccessByValue(a) ==
    /\ at[a].st = "live"
    /\ ExpireAccess({a})
    /\ UNCHANGED <<codes, perm, rt, held, req>>

\* DELETE FROM refresh_tokens; rotated_from_id of the children becomes NULL.
DeleteRefreshRows(S) ==
    rt' = [r \in RT |->
             IF r \in S THEN [rt[r] EXCEPT !.st = "deleted", !.parent = NULL, !.access = NULL]
             ELSE IF rt[r].parent \in S THEN [rt[r] EXCEPT !.parent = NULL] ELSE rt[r]]

\* DELETE FROM tokens; access_token_id of the bound rows becomes NULL.
DeleteAccessRows(S) ==
    /\ at' = [a \in AT |-> IF a \in S THEN [at[a] EXCEPT !.st = "deleted"] ELSE at[a]]
    /\ rt' = [r \in RT |-> IF rt[r].access \in S THEN [rt[r] EXCEPT !.access = NULL]
                                                 ELSE rt[r]]

\* deleteTokenByValue: an administrator deletes one row.
DeleteTokenByValue ==
    /\ \/ \E r \in RT : Present(r) /\ DeleteRefreshRows({r}) /\ UNCHANGED at
       \/ \E a \in AT : at[a].st \in {"live", "expired"} /\ DeleteAccessRows({a})
    /\ UNCHANGED <<codes, perm, held, req>>

\* cleanupTokenArtifacts starts four independent DELETEs; each is a step.
DeleteExpiredAccessTokens ==
    LET S == {a \in AT : at[a].st = "expired"} IN
    /\ S # {}
    /\ DeleteAccessRows(S)
    /\ UNCHANGED <<codes, perm, held, req>>

DeleteExpired ==
    LET S == {r \in RT : Present(r) /\ rt[r].expired} IN
    /\ S # {}
    /\ DeleteRefreshRows(S)
    /\ UNCHANGED <<codes, perm, at, held, req>>

DeleteRevoked ==
    LET S == {r \in RT : rt[r].st = "revoked"} IN
    /\ S # {}
    /\ DeleteRefreshRows(S)
    /\ UNCHANGED <<codes, perm, at, held, req>>

DeleteUsedOrExpired ==
    LET S == {f \in Fam : codes[f] \in {"used", "expired"}} IN
    /\ S # {}
    /\ codes' = [f \in Fam |-> IF f \in S THEN "deleted" ELSE codes[f]]
    /\ UNCHANGED <<perm, rt, at, held, req>>

Cleanup ==
    \/ DeleteExpiredAccessTokens
    \/ DeleteExpired
    \/ DeleteRevoked
    \/ DeleteUsedOrExpired

\* An administrator changes the environments or the test flag of the subject.
SetAccess(f) ==
    /\ perm' = [perm EXCEPT ![f] = ~perm[f]]
    /\ UNCHANGED <<codes, rt, at, held, req>>

\* 300 s, 1 h and 30 days pass.  A refresh token outlives the access token
\* issued with it, and a parent lapses no later than its child.
CodeLapses(f) ==
    /\ codes[f] = "unused"
    /\ codes' = [codes EXCEPT ![f] = "expired"]
    /\ UNCHANGED <<perm, rt, at, held, req>>

AccessLapses(a) ==
    /\ at[a].st = "live"
    /\ at' = [at EXCEPT ![a].st = "expired"]
    /\ UNCHANGED <<codes, perm, rt, held, req>>

RefreshLapses(r) ==
    /\ Present(r) /\ ~rt[r].expired
    /\ rt[r].access # NULL => at[rt[r].access].st # "live"
    /\ rt[r].parent # NULL => rt[rt[r].parent].expired
    /\ rt' = [rt EXCEPT ![r].expired = TRUE]
    /\ UNCHANGED <<codes, perm, at, held, req>>

-----------------------------------------------------------------------------

RequestStep(q) ==
    \/ MarkUsed(q) \/ CheckSubject(q) \/ RevokePresented(q)
    \/ CreateAccessToken(q) \/ CreateRefreshToken(q) \/ Respond(q)
    \/ WalkParent(q) \/ WalkChildren(q) \/ RevokeFamily(q)
    \/ ListFamilyAccessTokenIds(q) \/ ExpireAccessTokensByIds(q)

Requests ==
    \/ \E q \in Req : RequestStep(q) \/ Abandon(q)
    \/ \E q \in Req, f \in Fam : ExchangeClientCredentials(q, f) \/ LookupCode(q, f)
    \/ \E q \in Req, r \in RT : LookupRefreshToken(q, r)

Environment ==
    \/ \E f \in Fam : Authorize(f) \/ SetAccess(f) \/ CodeLapses(f)
    \/ \E r \in RT : RevokeTokenByValue(r) \/ RefreshLapses(r)
    \/ \E a \in AT : RevokeAccessByValue(a) \/ AccessLapses(a)

Housekeeping == DeleteTokenByValue \/ Cleanup

Next == Requests \/ Environment \/ Housekeeping

Spec == Init /\ [][Next]_vars

\* A request whose Worker is alive gets an answer to every statement it sends.
FairSpec == Spec /\ \A q \in Req : WF_vars(RequestStep(q))

-----------------------------------------------------------------------------
(* Properties.                                                             *)

\* Single use end to end: a family never has two live refresh tokens, never
\* two requests minting for it, and never a live token besides a minting
\* request or an unredeemed code.  Whatever the interleaving of code exchanges
\* and rotations, the two conditional UPDATEs (used_at, revoked_at) hand the
\* right to mint from one holder to the next.
SingleHolder ==
    \A f \in Fam :
        /\ \A r, s \in RT : Live(r) /\ Live(s) /\ rt[r].fam = f /\ rt[s].fam = f => r = s
        /\ \A p, q \in Req : Minting(p, f) /\ Minting(q, f) => p = q
        /\ \A q \in Req, r \in RT : Minting(q, f) => ~(Live(r) /\ rt[r].fam = f)
        /\ codes[f] \in {"none", "unused", "expired"} =>
             /\ \A r \in RT : rt[r].fam # f
             /\ \A q \in Req : ~Minting(q, f)

\* A cascade only ever reaches, revokes and expires rows of the family of the
\* token that was presented, also while cleanup cuts rotated_from_id links.
CascadeStaysInFamily ==
    \A q \in Req : req[q].pc \in CascadePC =>
        /\ \A r \in req[q].seen \cup req[q].queue : rt[r].fam = req[q].fam
        /\ \A a \in req[q].doomed : at[a].fam = req[q].fam

\* The links a cascade follows never leave the family: rows, and the locals
\* of requests that are about to write or follow one.
LinksStayInFamily ==
    /\ \A r \in RT : rt[r].parent # NULL => rt[rt[r].parent].fam = rt[r].fam
    /\ \A r \in RT : rt[r].access # NULL => at[rt[r].access].fam = rt[r].fam
    /\ \A q \in Req :
         /\ req[q].pc \in PendingPC \cup CascadePC /\ req[q].root # NULL =>
              rt[req[q].root].fam = req[q].fam
         /\ req[q].pc = "mint_refresh" => at[req[q].access].fam = req[q].fam
         /\ req[q].pc = "children" => rt[req[q].cur].fam = req[q].fam

\* The inductive invariant: what SingleHolder and CascadeStaysInFamily rest on.
IInv == TypeOK /\ LinksStayInFamily /\ SingleHolder /\ CascadeStaysInFamily

\* What a client may use: no access token is usable beyond the reach of the
\* cascade.  A live access token that was handed out is bound to a refresh row
\* of its own family, unless a row of the family has been deleted.
NoRowDeleted(f) == \A r \in RT : rt[r].fam = f => rt[r].st # "deleted"

HeldAccessIsReachable ==
    \A a \in AT : (a \in held /\ at[a].st = "live" /\ NoRowDeleted(at[a].fam)) =>
        \E r \in RT : Present(r) /\ rt[r].access = a /\ rt[r].fam = at[a].fam

FamilyDead(f) ==
    /\ \A r \in RT : rt[r].fam = f => ~Live(r)
    /\ \A a \in AT : (a \in held /\ at[a].fam = f) => at[a].st # "live"

CascadeEnds(q) ==
    (ListFamilyAccessTokenIds(q) \/ ExpireAccessTokensByIds(q)) /\ req'[q].pc = "idle"

\* Containment: when a cascade ends that no rotation of the same family raced
\* with, and no row of the family was deleted, then no refresh token of the
\* family is live and no access token handed out for it is usable.
CascadeContains ==
    [][\A q \in Req, f \in Fam :
          CascadeEnds(q) /\ req[q].fam = f /\ ~req[q].raced /\ NoRowDeleted(f)
            => FamilyDead(f)']_vars

\* The test "reusing a rotated refresh token revokes the entire rotation
\* family" (services/oauth-token.integration.test.ts:1024) as a claim about
\* every cascade: no refresh token of the family is live when it ends.
ReuseRevokesEntireFamily ==
    [][\A q \in Req : CascadeEnds(q) =>
          \A r \in RT : rt[r].fam = req[q].fam => ~Live(r)']_vars

\* The comment of revokeFamilyAndAccessTokens (services/oauth-token.service.ts
\* 791-796): a stolen-then-rotated token's outstanding access tokens die with
\* the family.
AccessTokensDieWithFamily ==
    [][\A q \in Req : CascadeEnds(q) =>
          \A a \in AT : (a \in held /\ at[a].fam = req[q].fam) => at'[a].st # "live"]_vars

\* The search terminates: rows link back and forth, and the family may grow
\* while it is being walked.
CascadeTerminates ==
    \A q \in Req : req[q].pc \in CascadePC ~> req[q].pc = "idle"

(* The abstract grant that every family implements.                        *)
Stage(f) ==
    IF \E q \in Req : Minting(q, f) THEN "minting"
    ELSE IF \E r \in RT : Live(r) /\ rt[r].fam = f THEN "session"
    ELSE IF codes[f] \in {"unused", "expired"} THEN "code"
    ELSE IF codes[f] = "none" THEN "none" ELSE "over"

Grant == INSTANCE GrantFamily WITH stage <- [f \in Fam |-> Stage(f)]

\* Every behaviour of the tables is a behaviour of the abstract grant: a
\* credential is redeemed once, a session is handed on, and what is over
\* stays over.
ImplementsGrant == Grant!Spec
=============================================================================

--------------------------- MODULE ConsentProofs ---------------------------
(***************************************************************************)
(* Proofs about ConsentWithdrawal for any grants, scopes, rows and         *)
(* requests.  A withdrawal takes several statements while the token        *)
(* endpoint goes on, so WithdrawalInv says after each of them what is      *)
(* already true of the families that nothing has raced with, and that      *)
(* the endpoint cannot undo it without being noted as a race.              *)
(***************************************************************************)
EXTENDS ConsentWithdrawal, TokenRotationProofs

AuthRow == [pc : {"none", "get", "upsert", "done", "dead"}, read : SUBSET Scope]

WithdrawalRow ==
    [pc : {"idle", "collect", "revoke", "expire", "codes"},
     doomed : SUBSET AT, bound : SUBSET AT, raced : SUBSET Fam]

\* The consent record, as long as its uses do not overlap: at most one
\* authorization stands between its read and its write, and what it has read
\* is what the row still holds.
RecordInv ==
    ~overlapped =>
        /\ consent = granted
        /\ \A f \in Fam : auth[f].pc = "upsert" => auth[f].read = consent
        /\ \A f, g \in Fam : auth[f].pc = "upsert" /\ auth[g].pc = "upsert" => f = g

\* The withdrawal lists access tokens of families that have a subject.
ListsOfPair ==
    \A a \in wd.bound \cup wd.doomed :
        /\ at[a].st # "unborn" /\ at[a].fam \in Fam
        /\ codes[at[a].fam] \notin {"none", "absent"}

\* How far the withdrawal has got with an access token that was bound to a
\* live refresh token of family f when it started.
Tracked(a, f) ==
    /\ wd.pc = "collect" => \E r \in RT : Live(r) /\ rt[r].fam = f /\ rt[r].access = a
    /\ wd.pc \in {"revoke", "expire"} => a \in wd.doomed
    /\ wd.pc = "codes" => at[a].st # "live"

Undisturbed(f) == OfPair(f) /\ f \notin wd.raced

WithdrawalInv ==
    wd.pc # "idle" =>
        \A f \in Fam : Undisturbed(f) =>
            /\ \A q \in Req : ~Minting(q, f)
            /\ \A a \in wd.bound : at[a].fam = f => Tracked(a, f)
            /\ wd.pc \in {"expire", "codes"} => \A r \in RT : rt[r].fam = f => ~Live(r)

ConsentInv == IInv /\ ConsentTypeOK /\ RecordInv /\ ListsOfPair /\ WithdrawalInv

-----------------------------------------------------------------------------
(* The tables of the token endpoint.                                       *)

\* Everything but the two UPDATEs and the DELETE of a withdrawal is a step of
\* the endpoint, or none.
LEMMA EndpointStep ==
    ASSUME [ConsentNext]_allVars, ~RevokeAll, ~ExpireBound, ~DeleteUnusedCodes
    PROVE  [Next]_vars
<1>1. CASE TokenStep
  BY <1>1 DEF TokenStep, Next, Environment
<1>2. ASSUME NEW f \in Fam, CreateCode(f) PROVE Next
  BY <1>2 DEF CreateCode, Next, Environment
<1>3. CASE \E f \in Fam : GetConsent(f) \/ UpsertConsent(f) \/ AuthorizeDies(f)
  BY <1>3 DEF GetConsent, UpsertConsent, AuthorizeDies
<1>4. CASE DeleteConsent \/ CollectBound \/ WithdrawalDies
  BY <1>4 DEF DeleteConsent, CollectBound, WithdrawalDies
<1>5. CASE UNCHANGED allVars
  BY <1>5 DEF allVars
<1> QED
  BY <1>1, <1>2, <1>3, <1>4, <1>5 DEF ConsentNext, ConsentStep, Withdraw

\* A statement that changes no link, adds no live row and reopens no code.
LEMMA BulkKeepsIInv ==
    ASSUME IInv, TypeOK', UNCHANGED req,
           \A r \in RT : /\ rt'[r].fam = rt[r].fam /\ (Live(r)' => Live(r))
                         /\ rt'[r].parent = rt[r].parent /\ rt'[r].access = rt[r].access,
           \A a \in AT : at'[a].fam = at[a].fam,
           \A f \in Fam : codes'[f] \in {"none", "unused", "expired"} =>
                             codes[f] \in {"none", "unused", "expired"}
    PROVE  IInv'
<1>1. SingleHolder'
  BY Shrinks DEF IInv, Minting
<1>row. \A r \in RT : rt[r].parent \in RT \cup {NULL} /\ rt[r].access \in AT \cup {NULL}
  BY DEF IInv, TypeOK, RefreshRow
<1>req. \A q \in Req : /\ req[q].root \in RT \cup {NULL}
                       /\ req[q].pc = "mint_refresh" => req[q].access \in AT
                       /\ req[q].pc = "children" => req[q].cur \in RT
                       /\ req[q].seen \subseteq RT /\ req[q].queue \subseteq RT
                       /\ req[q].doomed \subseteq AT
  BY DEF IInv, TypeOK, Request, RequestRow
<1>2. LinksStayInFamily'
  BY <1>row, <1>req DEF IInv, LinksStayInFamily
<1>3. CascadeStaysInFamily'
  BY <1>req DEF IInv, CascadeStaysInFamily
<1> QED
  BY <1>1, <1>2, <1>3 DEF IInv

LEMMA RevokeAllKeepsIInv == IInv /\ RevokeAll => IInv'
<1> SUFFICES ASSUME IInv, RevokeAll PROVE IInv'
  OBVIOUS
<1>1. RevokeRows(LiveRows) /\ UNCHANGED <<codes, perm, at, held, req>>
  BY DEF RevokeAll
<1>2. TypeOK' /\ \A r \in RT : rt[r] \in RefreshRow
  BY <1>1, RevokeRowsType DEF IInv, TypeOK
<1>3. \A r \in RT : /\ rt'[r].fam = rt[r].fam /\ (Live(r)' => Live(r))
                    /\ rt'[r].parent = rt[r].parent /\ rt'[r].access = rt[r].access
  BY <1>1, <1>2 DEF RevokeRows, Live, RefreshRow
<1> QED
  BY <1>1, <1>2, <1>3, BulkKeepsIInv

LEMMA ExpireBoundKeepsIInv == IInv /\ ExpireBound => IInv'
<1> SUFFICES ASSUME IInv, ExpireBound PROVE IInv'
  OBVIOUS
<1>1. ExpireAccess(wd.doomed) /\ UNCHANGED <<codes, perm, rt, held, req>>
  BY DEF ExpireBound
<1>2. TypeOK' /\ \A a \in AT : at[a] \in AccessRow
  BY <1>1, ExpireAccessType DEF IInv, TypeOK
<1>3. \A a \in AT : at'[a].fam = at[a].fam
  BY <1>1, <1>2 DEF ExpireAccess, AccessRow
<1> QED
  BY <1>1, <1>2, <1>3, BulkKeepsIInv DEF Live

LEMMA DeleteCodesKeepsIInv == IInv /\ DeleteUnusedCodes => IInv'
<1> SUFFICES ASSUME IInv, DeleteUnusedCodes PROVE IInv'
  OBVIOUS
<1>1. /\ codes' = [f \in Fam |-> IF f \in UnusedCodes THEN "deleted" ELSE codes[f]]
      /\ UNCHANGED <<perm, rt, at, held, req>>
  BY DEF DeleteUnusedCodes
<1>2. TypeOK'
  BY <1>1 DEF IInv, TypeOK, CodeState
<1> QED
  BY <1>1, <1>2, BulkKeepsIInv DEF Live

LEMMA TablesStep == IInv /\ [ConsentNext]_allVars => IInv'
BY EndpointStep, RevokeAllKeepsIInv, ExpireBoundKeepsIInv, DeleteCodesKeepsIInv, IInvStep

\* No step of this system deletes a row or cuts a link; what has ended stays
\* ended, and a grant is a machine's from its first step on.
TablesGoOn ==
    /\ \A r \in RT : rt[r].st # "unborn" =>
         /\ rt'[r].fam = rt[r].fam /\ rt'[r].access = rt[r].access
         /\ Live(r)' => Live(r)
    /\ \A a \in AT : at[a].st # "unborn" =>
         /\ at'[a].fam = at[a].fam /\ at'[a].st # "unborn"
         /\ at'[a].st = "live" => at[a].st = "live"
    /\ \A f \in Fam : /\ codes'[f] = "none" => codes[f] = "none"
                      /\ codes'[f] = "absent" => codes[f] \in {"none", "absent"}
                      /\ codes[f] = "absent" => codes'[f] = "absent"

LEMMA TablesGoOnStep == TypeOK /\ [ConsentNext]_allVars => TablesGoOn
<1> SUFFICES ASSUME TypeOK, [ConsentNext]_allVars PROVE TablesGoOn
  OBVIOUS
<1> DEFINE RowsGoOn == \A r \in RT : rt[r].st # "unborn" =>
                         /\ rt'[r].fam = rt[r].fam /\ rt'[r].access = rt[r].access
                         /\ Live(r)' => Live(r)
           AccessGoesOn == \A a \in AT : at[a].st # "unborn" =>
                             /\ at'[a].fam = at[a].fam /\ at'[a].st # "unborn"
                             /\ at'[a].st = "live" => at[a].st = "live"
           CodesGoOn == \A f \in Fam :
                          /\ codes'[f] = "none" => codes[f] = "none"
                          /\ codes'[f] = "absent" => codes[f] \in {"none", "absent"}
                          /\ codes[f] = "absent" => codes'[f] = "absent"
<1>row. /\ \A r \in RT : rt[r] \in RefreshRow
        /\ \A a \in AT : at[a] \in AccessRow
        /\ codes \in [Fam -> CodeState]
  BY DEF TypeOK
<1>same. /\ UNCHANGED rt => RowsGoOn
         /\ UNCHANGED at => AccessGoesOn
         /\ UNCHANGED codes => CodesGoOn
  BY DEF Live
<1>revoke. ASSUME NEW S, RevokeRows(S) PROVE RowsGoOn
  BY <1>revoke, <1>row DEF RevokeRows, Live, RefreshRow
<1>expire. ASSUME NEW S, ExpireAccess(S) PROVE AccessGoesOn
  BY <1>expire, <1>row DEF ExpireAccess, AccessRow
<1>lapse. ASSUME NEW f \in Fam, CodeLapses(f) PROVE CodesGoOn
  BY <1>lapse, <1>row DEF CodeLapses, CodeState
<1>1. ASSUME NEW q \in Req, RequestStep(q) \/ Abandon(q)
      PROVE  RowsGoOn /\ AccessGoesOn /\ CodesGoOn
  <2>1. CASE MarkUsed(q)
    <3>1. CodesGoOn
      BY <1>row, <1>same, <2>1 DEF MarkUsed, UsedAtIsNull
    <3> QED
      BY <1>same, <2>1, <3>1 DEF MarkUsed
  <2>2. CASE RevokePresented(q)
    <3>1. UNCHANGED rt \/ rt' = [rt EXCEPT ![req[q].root].st = "revoked"]
      BY <2>2 DEF RevokePresented
    <3>2. ASSUME NEW r, rt' = [rt EXCEPT ![r].st = "revoked"] PROVE RowsGoOn
      BY <1>row, <3>2 DEF TypeOK, Live, RefreshRow
    <3>3. RowsGoOn
      BY <1>same, <3>1, <3>2
    <3> QED
      BY <1>same, <2>2, <3>3 DEF RevokePresented
  <2>3. CASE CreateAccessToken(q)
    <3>1. PICK a \in Unborn(at) : at' = [at EXCEPT ![a] = [st |-> "live", fam |-> req[q].fam]]
      BY <2>3 DEF CreateAccessToken
    <3>2. AccessGoesOn
      BY <3>1, <1>row DEF Unborn, TypeOK
    <3> QED
      BY <1>same, <2>3, <3>2 DEF CreateAccessToken
  <2>4. CASE CreateRefreshToken(q)
    <3>1. CASE UNCHANGED rt
      BY <1>same, <2>4, <3>1 DEF CreateRefreshToken
    <3>2. CASE \E r \in Unborn(rt) : rt' = [rt EXCEPT ![r] = NewRefreshRow(q)]
      <4>1. RowsGoOn
        BY <3>2, <1>row DEF Unborn, TypeOK, Live
      <4> QED
        BY <1>same, <2>4, <4>1 DEF CreateRefreshToken
    <3> QED
      BY <2>4, <3>1, <3>2 DEF CreateRefreshToken
  <2>5. CASE RevokeFamily(q)
    BY <1>revoke, <1>same, <2>5 DEF RevokeFamily
  <2>6. CASE ExpireAccessTokensByIds(q)
    BY <1>expire, <1>same, <2>6 DEF ExpireAccessTokensByIds
  <2>7. CASE \/ CheckSubject(q) \/ Respond(q) \/ WalkParent(q) \/ WalkChildren(q)
             \/ ListFamilyAccessTokenIds(q) \/ Abandon(q)
    BY <1>same, <2>7 DEF CheckSubject, Respond, WalkParent, WalkChildren,
       ListFamilyAccessTokenIds, Abandon
  <2> HIDE DEF RowsGoOn, AccessGoesOn, CodesGoOn
  <2> QED
    BY <1>1, <2>1, <2>2, <2>3, <2>4, <2>5, <2>6, <2>7 DEF RequestStep
<1>2. ASSUME NEW q \in Req, NEW f \in Fam, ExchangeClientCredentials(q, f) \/ LookupCode(q, f)
      PROVE  RowsGoOn /\ AccessGoesOn /\ CodesGoOn
  <2>1. CodesGoOn
    BY <1>2, <1>row, <1>same DEF ExchangeClientCredentials, LookupCode
  <2> QED
    BY <1>2, <1>same, <2>1 DEF ExchangeClientCredentials, LookupCode
<1>3. ASSUME NEW q \in Req, NEW r \in RT, LookupRefreshToken(q, r)
      PROVE  RowsGoOn /\ AccessGoesOn /\ CodesGoOn
  BY <1>3, <1>same DEF LookupRefreshToken
<1>4. ASSUME NEW f \in Fam, CodeLapses(f) PROVE RowsGoOn /\ AccessGoesOn /\ CodesGoOn
  BY <1>4, <1>lapse, <1>same DEF CodeLapses
<1>5. ASSUME NEW f \in Fam, CreateCode(f) PROVE RowsGoOn /\ AccessGoesOn /\ CodesGoOn
  <2>1. CodesGoOn
    BY <1>5, <1>row DEF CreateCode, Authorize
  <2> QED
    BY <1>5, <1>same, <2>1 DEF CreateCode, Authorize
<1>6. ASSUME UNCHANGED vars PROVE RowsGoOn /\ AccessGoesOn /\ CodesGoOn
  BY <1>6, <1>same DEF vars
<1>7. ASSUME RevokeAll PROVE RowsGoOn /\ AccessGoesOn /\ CodesGoOn
  BY <1>7, <1>revoke, <1>same DEF RevokeAll
<1>8. ASSUME ExpireBound PROVE RowsGoOn /\ AccessGoesOn /\ CodesGoOn
  BY <1>8, <1>expire, <1>same DEF ExpireBound
<1>9. ASSUME DeleteUnusedCodes PROVE RowsGoOn /\ AccessGoesOn /\ CodesGoOn
  <2>1. CodesGoOn
    BY <1>9, <1>row DEF DeleteUnusedCodes, UnusedCodes
  <2> QED
    BY <1>9, <1>same, <2>1 DEF DeleteUnusedCodes
<1>10. ASSUME \/ \E f \in Fam : GetConsent(f) \/ UpsertConsent(f) \/ AuthorizeDies(f)
              \/ DeleteConsent \/ CollectBound \/ WithdrawalDies \/ UNCHANGED allVars
       PROVE  RowsGoOn /\ AccessGoesOn /\ CodesGoOn
  BY <1>6, <1>10 DEF GetConsent, UpsertConsent, AuthorizeDies, DeleteConsent, CollectBound,
     WithdrawalDies, allVars
<1> HIDE DEF RowsGoOn, AccessGoesOn, CodesGoOn
<1>11. RowsGoOn /\ AccessGoesOn /\ CodesGoOn
  BY <1>1, <1>2, <1>3, <1>4, <1>5, <1>7, <1>8, <1>9, <1>10
  DEF ConsentNext, ConsentStep, Withdraw, TokenStep, Requests
<1> QED
  BY <1>11 DEF TablesGoOn, RowsGoOn, AccessGoesOn, CodesGoOn

-----------------------------------------------------------------------------
(* Types, and the consent record.                                          *)

LEMMA BoundIsAccess ==
    ASSUME TypeOK
    PROVE  BoundAccess(LiveRows) \subseteq AT
<1>1. \A r \in RT : rt[r].access \in AT \cup {NULL}
  BY DEF TypeOK, RefreshRow
<1> QED
  BY <1>1 DEF BoundAccess, LiveRows

LEMMA ConsentTypeStep ==
    ASSUME ConsentTypeOK, TypeOK', [ConsentNext]_allVars
    PROVE  ConsentTypeOK'
<1> DEFINE RecordOK == /\ consent \subseteq Scope /\ granted \subseteq Scope
                       /\ overlapped \in BOOLEAN
           AuthOK == auth \in [Fam -> AuthRow]
           WdOK == wd \in WithdrawalRow /\ (wd.pc \in {"idle", "collect"} => wd.doomed = {})
<1>t. TypeOK /\ RecordOK /\ AuthOK /\ WdOK /\ Asked \in [Fam -> SUBSET Scope]
  BY AskedAssumption DEF ConsentTypeOK, AuthRow, WithdrawalRow
<1>idle. IdleWithdrawal \in WithdrawalRow /\ IdleWithdrawal.doomed = {}
  BY DEF IdleWithdrawal, WithdrawalRow
<1>same. /\ UNCHANGED <<consent, granted, overlapped>> => RecordOK'
         /\ UNCHANGED auth => AuthOK'
         /\ UNCHANGED wd => WdOK'
         /\ wd' = IdleWithdrawal => WdOK'
  BY <1>t, <1>idle
<1>1. ASSUME TokenStep PROVE RecordOK' /\ AuthOK' /\ WdOK'
  <2>1. wd' = wd \/ wd' = [wd EXCEPT !.raced = @ \cup Disturbed]
    BY <1>1 DEF TokenStep
  <2>2. Disturbed \subseteq Fam
    BY DEF Disturbed
  <2>3. WdOK'
    BY <1>t, <1>same, <2>1, <2>2 DEF WithdrawalRow
  <2> QED
    BY <1>1, <1>same, <2>3 DEF TokenStep
<1>2. ASSUME NEW f \in Fam, CreateCode(f) \/ GetConsent(f) \/ UpsertConsent(f) \/ AuthorizeDies(f)
      PROVE  RecordOK' /\ AuthOK' /\ WdOK'
  <2>1. UNCHANGED wd
    BY <1>2 DEF CreateCode, GetConsent, UpsertConsent, AuthorizeDies
  <2>2. AuthOK'
    BY <1>t, <1>2 DEF CreateCode, GetConsent, UpsertConsent, AuthorizeDies, AuthRow
  <2>3. CASE CreateCode(f) \/ GetConsent(f) \/ AuthorizeDies(f)
    <3>1. RecordOK'
      BY <1>t, <2>3 DEF CreateCode, GetConsent, AuthorizeDies
    <3> QED
      BY <1>same, <2>1, <2>2, <3>1
  <2>4. CASE UpsertConsent(f)
    <3>1. auth[f].read \subseteq Scope /\ Asked[f] \subseteq Scope
      BY <1>t DEF AuthRow
    <3>2. RecordOK'
      BY <1>t, <2>4, <3>1 DEF UpsertConsent, Merged
    <3> QED
      BY <1>same, <2>1, <2>2, <3>2
  <2> QED
    BY <1>2, <2>3, <2>4
<1>3. ASSUME DeleteConsent PROVE RecordOK' /\ AuthOK' /\ WdOK'
  <2>1. InFlight \subseteq Fam /\ BoundAccess(LiveRows) \subseteq AT
    BY <1>t, BoundIsAccess DEF InFlight
  <2>2. WdOK'
    BY <1>3, <2>1 DEF DeleteConsent, WithdrawalRow
  <2>3. RecordOK'
    BY <1>3 DEF DeleteConsent
  <2> QED
    BY <1>3, <1>same, <2>2, <2>3 DEF DeleteConsent
<1>4. ASSUME CollectBound PROVE RecordOK' /\ AuthOK' /\ WdOK'
  <2>1. BoundAccess(LiveRows) \subseteq AT
    BY <1>t, BoundIsAccess
  <2>2. WdOK'
    BY <1>4, <1>t, <2>1 DEF CollectBound, WithdrawalRow
  <2> QED
    BY <1>4, <1>same, <2>2 DEF CollectBound
<1>5. ASSUME RevokeAll \/ ExpireBound PROVE RecordOK' /\ AuthOK' /\ WdOK'
  <2>1. WdOK'
    BY <1>5, <1>t DEF RevokeAll, ExpireBound, WithdrawalRow
  <2> QED
    BY <1>5, <1>same, <2>1 DEF RevokeAll, ExpireBound
<1>6. ASSUME DeleteUnusedCodes \/ WithdrawalDies \/ UNCHANGED allVars
      PROVE  RecordOK' /\ AuthOK' /\ WdOK'
  <2>1. UNCHANGED <<consent, granted, overlapped, auth>> /\ (wd' = wd \/ wd' = IdleWithdrawal)
    BY <1>6 DEF DeleteUnusedCodes, WithdrawalDies, allVars, consentVars
  <2> HIDE DEF RecordOK, AuthOK, WdOK
  <2> QED
    BY <1>same, <2>1
<1>7. RecordOK' /\ AuthOK' /\ WdOK'
  <2> HIDE DEF RecordOK, AuthOK, WdOK
  <2> QED
    BY <1>1, <1>2, <1>3, <1>4, <1>5, <1>6 DEF ConsentNext, ConsentStep, Withdraw
<1> QED
  BY <1>7 DEF ConsentTypeOK, AuthRow, WithdrawalRow

\* Who stands between reading the record and writing it, and what was read.
LEMMA RecordStep ==
    ASSUME ConsentTypeOK, RecordInv, [ConsentNext]_allVars
    PROVE  RecordInv'
<1>t. auth \in [Fam -> AuthRow] /\ overlapped \in BOOLEAN
  BY DEF ConsentTypeOK, AuthRow
<1>1. CASE UNCHANGED <<consent, granted, overlapped, auth>>
  BY <1>1 DEF RecordInv
<1>2. ASSUME NEW f \in Fam, CreateCode(f) \/ AuthorizeDies(f) PROVE RecordInv'
  <2>1. PICK next \in {[auth[f] EXCEPT !.pc = "get"], [pc |-> "dead", read |-> {}]} :
          auth' = [auth EXCEPT ![f] = next] /\ next.pc # "upsert"
    BY <1>2, <1>t DEF CreateCode, AuthorizeDies, AuthRow
  <2>2. \A g \in Fam : auth'[g].pc = "upsert" => auth'[g] = auth[g]
    BY <1>t, <2>1
  <2>3. UNCHANGED <<consent, granted, overlapped>>
    BY <1>2 DEF CreateCode, AuthorizeDies
  <2> QED
    BY <2>2, <2>3 DEF RecordInv
<1>3. ASSUME NEW f \in Fam, GetConsent(f) PROVE RecordInv'
  <2>1. /\ auth' = [auth EXCEPT ![f] = [pc |-> "upsert", read |-> consent]]
        /\ overlapped' = (overlapped \/ Recording # {}) /\ UNCHANGED <<consent, granted>>
    BY <1>3 DEF GetConsent
  <2>2. ~overlapped' => ~overlapped /\ \A g \in Fam : auth[g].pc # "upsert"
    BY <2>1 DEF Recording
  <2>3. \A g \in Fam : auth'[g] = IF g = f THEN [pc |-> "upsert", read |-> consent] ELSE auth[g]
    BY <1>t, <2>1
  <2> QED
    BY <2>1, <2>2, <2>3 DEF RecordInv
<1>4. ASSUME NEW f \in Fam, UpsertConsent(f) PROVE RecordInv'
  <2>1. /\ auth[f].pc = "upsert"
        /\ consent' = auth[f].read \cup Asked[f] /\ granted' = granted \cup Asked[f]
        /\ auth' = [auth EXCEPT ![f] = [pc |-> "done", read |-> {}]] /\ UNCHANGED overlapped
    BY <1>4 DEF UpsertConsent, Merged
  <2>2. \A g \in Fam : auth'[g] = IF g = f THEN [pc |-> "done", read |-> {}] ELSE auth[g]
    BY <1>t, <2>1
  <2>3. ~overlapped => consent' = granted' /\ \A g \in Fam : auth'[g].pc # "upsert"
    BY <2>1, <2>2 DEF RecordInv
  <2> QED
    BY <2>1, <2>3 DEF RecordInv
<1>5. ASSUME DeleteConsent PROVE RecordInv'
  <2>1. ~overlapped' => \A g \in Fam : auth[g].pc # "upsert"
    BY <1>5 DEF DeleteConsent, Recording
  <2> QED
    BY <1>5, <2>1 DEF DeleteConsent, RecordInv
<1>6. CASE \/ TokenStep \/ CollectBound \/ RevokeAll \/ ExpireBound
           \/ DeleteUnusedCodes \/ WithdrawalDies \/ UNCHANGED allVars
  BY <1>1, <1>6 DEF TokenStep, CollectBound, RevokeAll, ExpireBound, DeleteUnusedCodes,
     WithdrawalDies, allVars, consentVars
<1> QED
  BY <1>2, <1>3, <1>4, <1>5, <1>6 DEF ConsentNext, ConsentStep, Withdraw

-----------------------------------------------------------------------------
(* The withdrawal.                                                         *)

\* The SELECT of a withdrawal returns access tokens of redeemed codes.
LEMMA BoundAreOfPair ==
    ASSUME IInv, NEW a \in BoundAccess(LiveRows)
    PROVE  /\ a \in AT /\ at[a].st # "unborn" /\ at[a].fam \in Fam
           /\ codes[at[a].fam] \notin {"none", "absent"}
           /\ \E r \in RT : Live(r) /\ rt[r].fam = at[a].fam /\ rt[r].access = a
<1>1. PICK r \in RT : Live(r) /\ OfPair(rt[r].fam) /\ rt[r].access = a /\ a # NULL
  BY DEF BoundAccess, LiveRows
<1>2. rt[r].fam \in Fam /\ a \in AT
  BY <1>1 DEF IInv, TypeOK, RefreshRow, Live
<1>3. at[a].fam = rt[r].fam
  BY <1>1 DEF IInv, LinksStayInFamily
<1>4. at[a].st # "unborn"
  BY <1>2, <1>3, NullAssumption DEF IInv, TypeOK, AccessRow
<1>5. codes[rt[r].fam] # "none"
  BY <1>2 DEF IInv, SingleHolder
<1> QED
  BY <1>1, <1>2, <1>3, <1>4, <1>5 DEF OfPair

LEMMA ListsStep ==
    ASSUME IInv, ConsentTypeOK, ListsOfPair, [ConsentNext]_allVars
    PROVE  ListsOfPair'
<1>t. wd \in WithdrawalRow /\ TablesGoOn
  BY TablesGoOnStep DEF ConsentTypeOK, WithdrawalRow
<1>1. ASSUME NEW a \in wd.bound \cup wd.doomed
      PROVE  /\ at'[a].st # "unborn" /\ at'[a].fam \in Fam
             /\ codes'[at'[a].fam] \notin {"none", "absent"}
  <2>1. a \in AT
    BY <1>t DEF WithdrawalRow
  <2> QED
    BY <1>t, <1>1, <2>1 DEF ListsOfPair, TablesGoOn
<1>2. ASSUME wd'.bound \subseteq wd.bound, wd'.doomed \subseteq wd.doomed PROVE ListsOfPair'
  BY <1>1, <1>2 DEF ListsOfPair
<1>3. ASSUME UNCHANGED vars, wd'.bound \cup wd'.doomed
                               \subseteq wd.bound \cup wd.doomed \cup BoundAccess(LiveRows)
      PROVE  ListsOfPair'
  BY <1>1, <1>3, BoundAreOfPair DEF ListsOfPair, vars
<1>4. CASE DeleteConsent \/ CollectBound
  <2>1. UNCHANGED vars
    BY <1>4 DEF DeleteConsent, CollectBound
  <2>2. DeleteConsent => wd'.bound = BoundAccess(LiveRows) /\ wd'.doomed = {}
    BY DEF DeleteConsent
  <2>c. CollectBound => wd'.bound = wd.bound /\ wd'.doomed = BoundAccess(LiveRows)
    BY <1>t DEF CollectBound, WithdrawalRow
  <2>3. wd'.bound \cup wd'.doomed \subseteq wd.bound \cup wd.doomed \cup BoundAccess(LiveRows)
    BY <1>4, <2>2, <2>c
  <2> QED
    BY <1>3, <2>1, <2>3
<1>5. CASE wd' = IdleWithdrawal
  BY <1>2, <1>5 DEF IdleWithdrawal
<1>6. CASE TokenStep \/ RevokeAll \/ ExpireBound \/ UNCHANGED wd
  BY <1>2, <1>6, <1>t DEF TokenStep, RevokeAll, ExpireBound, WithdrawalRow
<1> QED
  BY <1>4, <1>5, <1>6 DEF ConsentNext, ConsentStep, Withdraw, CreateCode, GetConsent,
     UpsertConsent, AuthorizeDies, DeleteUnusedCodes, WithdrawalDies, allVars, consentVars

\* While the withdrawal itself does nothing, what it has achieved for a family
\* lasts, unless a step of the endpoint disturbs the family.
LEMMA AchievedLasts ==
    ASSUME ConsentInv, [ConsentNext]_allVars, [Next]_vars, wd.pc # "idle",
           \/ UNCHANGED <<rt, at, req, wd>>
           \/ wd' = [wd EXCEPT !.raced = @ \cup Disturbed]
    PROVE  WithdrawalInv'
<1>t. /\ TypeOK /\ TypeOK' /\ wd \in WithdrawalRow /\ TablesGoOn
      /\ \A r \in RT : rt[r] \in RefreshRow
      /\ \A a \in AT : at[a] \in AccessRow
  BY TablesGoOnStep, TypeStep DEF ConsentInv, IInv, ConsentTypeOK, WithdrawalRow, TypeOK
<1>wd. /\ wd'.pc = wd.pc /\ wd'.bound = wd.bound /\ wd'.doomed = wd.doomed
       /\ wd.raced \subseteq wd'.raced /\ wd.bound \subseteq AT
  BY <1>t DEF WithdrawalRow
<1> SUFFICES ASSUME NEW f \in Fam, Undisturbed(f)'
             PROVE  /\ \A q \in Req : ~Minting(q, f)'
                    /\ \A a \in wd'.bound : at'[a].fam = f => Tracked(a, f)'
                    /\ wd'.pc \in {"expire", "codes"} =>
                         \A r \in RT : rt'[r].fam = f => ~Live(r)'
  BY DEF WithdrawalInv
<1>pair. Undisturbed(f)
  BY <1>t, <1>wd DEF Undisturbed, OfPair, TablesGoOn
<1>calm. /\ \A q \in Req : ~Minting(q, f)'
         /\ \A r \in RT : Live(r) /\ rt[r].fam = f => Live(r)'
  <2>1. CASE UNCHANGED <<rt, at, req, wd>>
    BY <1>pair, <2>1 DEF ConsentInv, WithdrawalInv, Minting, Live
  <2>2. CASE wd' = [wd EXCEPT !.raced = @ \cup Disturbed]
    <3>1. f \notin Disturbed
      BY <1>t, <2>2 DEF Undisturbed, WithdrawalRow
    <3> QED
      BY <1>pair, <3>1 DEF Disturbed, Undisturbed
  <2> QED
    BY <2>1, <2>2
<1>known. /\ \A q \in Req : ~Minting(q, f)
          /\ \A a \in wd.bound : at[a].fam = f => Tracked(a, f)
          /\ wd.pc \in {"expire", "codes"} => \A r \in RT : rt[r].fam = f => ~Live(r)
  BY <1>pair DEF ConsentInv, WithdrawalInv
<1>1. ASSUME NEW a \in wd.bound, at'[a].fam = f PROVE Tracked(a, f)'
  <2>1. a \in AT /\ at[a].st # "unborn"
    BY <1>wd DEF ConsentInv, ListsOfPair
  <2>2. at[a].fam = f /\ (at'[a].st = "live" => at[a].st = "live")
    BY <1>1, <1>t, <2>1 DEF TablesGoOn
  <2>3. Tracked(a, f)
    BY <1>known, <2>2
  <2>4. ASSUME NEW r \in RT, Live(r), rt[r].fam = f, rt[r].access = a
        PROVE  Live(r)' /\ rt'[r].fam = f /\ rt'[r].access = a
    BY <1>calm, <1>t, <2>4 DEF TablesGoOn, Live
  <2> QED
    BY <1>wd, <2>2, <2>3, <2>4 DEF Tracked
<1>2. ASSUME wd.pc \in {"expire", "codes"}, NEW r \in RT, rt'[r].fam = f PROVE ~Live(r)'
  <2>1. rt[r].fam = f
    BY <1>2, <1>known, <1>t, RowIsBorn
  <2>2. rt[r].st # "unborn"
    BY <1>t, <2>1, NullAssumption DEF RefreshRow
  <2> QED
    BY <1>2, <1>known, <1>t, <2>1, <2>2 DEF TablesGoOn
<1> QED
  BY <1>1, <1>2, <1>calm, <1>wd

LEMMA WithdrawalStep ==
    ASSUME ConsentInv, [ConsentNext]_allVars
    PROVE  WithdrawalInv'
<1>t. /\ IInv /\ TypeOK /\ wd \in WithdrawalRow /\ TablesGoOn
      /\ \A r \in RT : rt[r] \in RefreshRow
      /\ \A a \in AT : at[a] \in AccessRow
  BY TablesGoOnStep DEF ConsentInv, IInv, ConsentTypeOK, WithdrawalRow, TypeOK
<1>0. ASSUME wd'.pc = "idle" PROVE WithdrawalInv'
  BY <1>0 DEF WithdrawalInv
<1>1. CASE wd' = IdleWithdrawal
  BY <1>0, <1>1 DEF IdleWithdrawal
<1>2. ASSUME TokenStep PROVE WithdrawalInv'
  <2>1. CASE wd.pc = "idle"
    BY <1>0, <1>2, <2>1 DEF TokenStep
  <2>2. CASE wd.pc # "idle"
    <3>1. wd' = [wd EXCEPT !.raced = @ \cup Disturbed]
      BY <1>2, <2>2 DEF TokenStep
    <3>2. [Next]_vars
      BY <1>2 DEF TokenStep, Next, Environment
    <3> QED
      BY <2>2, <3>1, <3>2, AchievedLasts
  <2> QED
    BY <2>1, <2>2
<1>3. ASSUME UNCHANGED <<rt, at, req, wd>>, [Next]_vars PROVE WithdrawalInv'
  BY <1>0, <1>3, AchievedLasts
<1>4. CASE \/ \E f \in Fam : CreateCode(f) \/ GetConsent(f) \/ UpsertConsent(f) \/ AuthorizeDies(f)
           \/ UNCHANGED allVars
  <2>1. UNCHANGED <<rt, at, req, wd>>
    BY <1>4 DEF CreateCode, Authorize, GetConsent, UpsertConsent, AuthorizeDies, vars, allVars,
       consentVars
  <2>2. [Next]_vars
    BY <1>4 DEF CreateCode, GetConsent, UpsertConsent, AuthorizeDies, allVars, Next, Environment
  <2> QED
    BY <1>3, <2>1, <2>2
<1>5. ASSUME DeleteConsent PROVE WithdrawalInv'
  <2>1. /\ wd'.pc = "collect" /\ wd'.raced = InFlight /\ wd'.bound = BoundAccess(LiveRows)
        /\ UNCHANGED <<codes, rt, at, req>>
    BY <1>5 DEF DeleteConsent, vars
  <2>2. \A f \in Fam : Undisturbed(f)' => \A q \in Req : ~Minting(q, f)'
    BY <2>1 DEF Undisturbed, OfPair, InFlight, Minting
  <2>3. ASSUME NEW a \in BoundAccess(LiveRows), NEW f \in Fam, at'[a].fam = f
        PROVE  Tracked(a, f)'
    BY <1>t, <2>1, <2>3, BoundAreOfPair DEF Tracked, Live
  <2> QED
    BY <2>1, <2>2, <2>3 DEF WithdrawalInv
<1>own. ASSUME wd.pc # "idle", NEW f \in Fam, Undisturbed(f)', wd'.raced = wd.raced
        PROVE  /\ OfPair(f)
               /\ \A q \in Req : ~Minting(q, f)
               /\ \A a \in wd.bound : at[a].fam = f => Tracked(a, f)
               /\ wd.pc \in {"expire", "codes"} => \A r \in RT : rt[r].fam = f => ~Live(r)
  <2>1. Undisturbed(f)
    BY <1>own, <1>t DEF Undisturbed, OfPair, TablesGoOn
  <2> QED
    BY <1>own, <2>1 DEF ConsentInv, WithdrawalInv, Undisturbed
<1>6. ASSUME CollectBound PROVE WithdrawalInv'
  <2>1. /\ wd.pc = "collect" /\ wd'.pc = "revoke" /\ wd'.raced = wd.raced
        /\ wd'.bound = wd.bound /\ wd'.doomed = BoundAccess(LiveRows)
        /\ UNCHANGED <<rt, at, req>>
    BY <1>6, <1>t DEF CollectBound, WithdrawalRow, vars
  <2> SUFFICES ASSUME NEW f \in Fam, Undisturbed(f)'
               PROVE  /\ \A q \in Req : ~Minting(q, f)'
                      /\ \A a \in wd.bound : at'[a].fam = f => Tracked(a, f)'
    BY <2>1 DEF WithdrawalInv
  <2>2. ASSUME NEW a \in wd.bound, at[a].fam = f PROVE a \in BoundAccess(LiveRows)
    <3>1. Tracked(a, f) /\ OfPair(f) /\ a \in AT
      BY <1>own, <1>t, <2>1, <2>2 DEF WithdrawalRow
    <3> QED
      BY <2>1, <3>1, NullAssumption DEF Tracked, BoundAccess, LiveRows, Present, Live
  <2> QED
    BY <1>own, <2>1, <2>2 DEF Tracked, Minting
<1>7. ASSUME RevokeAll PROVE WithdrawalInv'
  <2>1. /\ wd.pc = "revoke" /\ wd'.raced = wd.raced /\ wd'.bound = wd.bound
        /\ wd'.doomed = wd.doomed
        /\ wd'.pc = (IF wd.doomed = {} THEN "codes" ELSE "expire")
        /\ RevokeRows(LiveRows) /\ UNCHANGED <<codes, at, req>>
    BY <1>7, <1>t DEF RevokeAll, WithdrawalRow
  <2> SUFFICES ASSUME NEW f \in Fam, Undisturbed(f)'
               PROVE  /\ \A q \in Req : ~Minting(q, f)'
                      /\ \A a \in wd.bound : at'[a].fam = f => Tracked(a, f)'
                      /\ \A r \in RT : rt'[r].fam = f => ~Live(r)'
    BY <2>1 DEF WithdrawalInv
  <2>2. ASSUME NEW r \in RT, rt'[r].fam = f PROVE ~Live(r)'
    <3>1. OfPair(f)
      BY <1>own, <2>1
    <3> QED
      BY <1>t, <2>1, <2>2, <3>1 DEF RevokeRows, LiveRows, Live, RefreshRow
  <2>3. \A a \in wd.bound : at'[a].fam = f => a \in wd.doomed
    BY <1>own, <2>1 DEF Tracked
  <2> QED
    BY <1>own, <2>1, <2>2, <2>3 DEF Tracked, Minting
<1>8. ASSUME ExpireBound PROVE WithdrawalInv'
  <2>1. /\ wd.pc = "expire" /\ wd'.pc = "codes" /\ wd'.raced = wd.raced
        /\ wd'.bound = wd.bound
        /\ ExpireAccess(wd.doomed) /\ UNCHANGED <<codes, rt, req>>
    BY <1>8, <1>t DEF ExpireBound, WithdrawalRow
  <2> SUFFICES ASSUME NEW f \in Fam, Undisturbed(f)'
               PROVE  /\ \A q \in Req : ~Minting(q, f)'
                      /\ \A a \in wd.bound : at'[a].fam = f => Tracked(a, f)'
                      /\ \A r \in RT : rt'[r].fam = f => ~Live(r)'
    BY <2>1 DEF WithdrawalInv
  <2>2. ASSUME NEW a \in wd.bound, at'[a].fam = f PROVE at'[a].st # "live"
    <3>1. a \in AT
      BY <1>t DEF WithdrawalRow
    <3>2. at[a].fam = f
      BY <1>t, <2>1, <2>2, <3>1 DEF ExpireAccess, AccessRow
    <3>3. a \in wd.doomed
      BY <1>own, <2>1, <3>2 DEF Tracked
    <3> QED
      BY <1>t, <2>1, <3>1, <3>3 DEF ExpireAccess, AccessRow
  <2> QED
    BY <1>own, <2>1, <2>2 DEF Tracked, Minting, Live
<1> QED
  BY <1>1, <1>2, <1>4, <1>5, <1>6, <1>7, <1>8
  DEF ConsentNext, ConsentStep, Withdraw, DeleteUnusedCodes, WithdrawalDies

-----------------------------------------------------------------------------
(* The theorems.                                                           *)

LEMMA ConsentInvInit == ConsentInit => ConsentInv
<1> SUFFICES ASSUME ConsentInit PROVE ConsentInv
  OBVIOUS
<1>1. IInv
  BY IInvInit DEF ConsentInit
<1>2. \A f \in Fam : auth[f].pc = "none"
  BY DEF ConsentInit
<1>3. wd.pc = "idle" /\ wd.bound = {} /\ wd.doomed = {}
  BY DEF ConsentInit, IdleWithdrawal
<1>4. ConsentTypeOK
  BY <1>1 DEF ConsentInit, ConsentTypeOK, IInv, IdleWithdrawal
<1>5. RecordInv
  BY <1>2 DEF ConsentInit, RecordInv
<1> QED
  BY <1>1, <1>3, <1>4, <1>5 DEF ConsentInv, ListsOfPair, WithdrawalInv

LEMMA ConsentInvStep == ConsentInv /\ [ConsentNext]_allVars => ConsentInv'
<1> SUFFICES ASSUME ConsentInv, [ConsentNext]_allVars PROVE ConsentInv'
  OBVIOUS
<1>1. IInv' /\ TypeOK'
  BY TablesStep DEF ConsentInv, IInv
<1>2. ConsentTypeOK' /\ RecordInv' /\ ListsOfPair' /\ WithdrawalInv'
  BY <1>1, ConsentTypeStep, RecordStep, ListsStep, WithdrawalStep DEF ConsentInv
<1> QED
  BY <1>1, <1>2 DEF ConsentInv

LEMMA ConsentInvariance == ConsentSpec => []ConsentInv
BY ConsentInvInit, ConsentInvStep, PTL DEF ConsentSpec

\* Type correctness of the tables, the record, the authorizations and the
\* withdrawal in progress.
THEOREM ConsentTypeCorrect == ConsentSpec => []ConsentTypeOK
<1>1. ConsentInv => ConsentTypeOK
  BY DEF ConsentInv
<1> QED
  BY <1>1, ConsentInvariance, PTL

\* The consent record is exact for any number of authorizations and
\* withdrawals, whichever of them die, unless two of them have overlapped
\* since the last withdrawal.
THEOREM ConsentExactHolds == ConsentSpec => []ConsentExact
<1>1. ConsentInv => ConsentExact
  BY DEF ConsentInv, RecordInv, ConsentExact
<1> QED
  BY <1>1, ConsentInvariance, PTL

\* A withdrawal ends every session of the user that no rotation or exchange
\* renewed meanwhile, and the access tokens it found bound to it.
THEOREM WithdrawalSticksHolds == ConsentSpec => WithdrawalSticks
<1> DEFINE Step == DeleteUnusedCodes =>
                     \A f \in Fam : OfPair(f) /\ f \notin wd.raced =>
                        /\ \A r \in RT : rt[r].fam = f => ~Live(r)'
                        /\ codes'[f] \notin {"unused", "expired"}
                        /\ \A a \in wd.bound : at[a].fam = f => at'[a].st # "live"
<1>1. ASSUME ConsentInv PROVE Step
  <2> SUFFICES ASSUME DeleteUnusedCodes, NEW f \in Fam, OfPair(f), f \notin wd.raced
               PROVE  /\ \A r \in RT : rt[r].fam = f => ~Live(r)'
                      /\ codes'[f] \notin {"unused", "expired"}
                      /\ \A a \in wd.bound : at[a].fam = f => at'[a].st # "live"
    OBVIOUS
  <2>1. wd.pc = "codes" /\ UNCHANGED <<rt, at>>
    BY DEF DeleteUnusedCodes
  <2>2. codes'[f] \notin {"unused", "expired"}
    BY DEF DeleteUnusedCodes, UnusedCodes
  <2>3. /\ \A r \in RT : rt[r].fam = f => ~Live(r)
        /\ \A a \in wd.bound : at[a].fam = f => at[a].st # "live"
    BY <1>1, <2>1 DEF ConsentInv, WithdrawalInv, Undisturbed, Tracked
  <2> QED
    BY <2>1, <2>2, <2>3 DEF Live
<1> HIDE DEF Step
<1>2. ConsentSpec => [][Step]_allVars
  BY <1>1, ConsentInvariance, PTL DEF ConsentSpec
<1> QED
  BY <1>2 DEF WithdrawalSticks, Step

\* No withdrawal touches a row of a machine's session: the conditions on the
\* subject keep it to the rows of the user, and the list of access tokens it
\* has collected never holds one of a machine.
THEOREM WithdrawalSparesMachinesHolds == ConsentSpec => WithdrawalSparesMachines
<1> DEFINE Step == Withdraw =>
                     \A f \in Fam : codes[f] = "absent" =>
                        /\ \A r \in RT : rt[r].fam = f => rt'[r] = rt[r]
                        /\ \A a \in AT : at[a].fam = f => at'[a] = at[a]
<1>1. ASSUME ConsentInv PROVE Step
  <2> SUFFICES ASSUME Withdraw, NEW f \in Fam, codes[f] = "absent"
               PROVE  /\ \A r \in RT : rt[r].fam = f => rt'[r] = rt[r]
                      /\ \A a \in AT : at[a].fam = f => at'[a] = at[a]
    OBVIOUS
  <2>1. CASE DeleteConsent \/ CollectBound \/ DeleteUnusedCodes \/ WithdrawalDies
    BY <2>1 DEF DeleteConsent, CollectBound, DeleteUnusedCodes, WithdrawalDies, vars
  <2>2. CASE RevokeAll
    BY <2>2 DEF RevokeAll, RevokeRows, LiveRows, OfPair
  <2>3. CASE ExpireBound
    BY <1>1, <2>3 DEF ExpireBound, ExpireAccess, ConsentInv, ListsOfPair
  <2> QED
    BY <2>1, <2>2, <2>3 DEF Withdraw
<1> HIDE DEF Step
<1>2. ConsentSpec => [][Step]_allVars
  BY <1>1, ConsentInvariance, PTL DEF ConsentSpec
<1> QED
  BY <1>2 DEF WithdrawalSparesMachines, Step

\* A withdrawal UPDATEs and DELETEs rows that requests are using; it neither
\* gives a family a second holder nor leads a cascade into another family.
THEOREM EndpointSafeUnderWithdrawal == ConsentSpec => [](SingleHolder /\ CascadeStaysInFamily)
<1>1. ConsentInv => SingleHolder /\ CascadeStaysInFamily
  BY DEF ConsentInv, IInv
<1> QED
  BY <1>1, ConsentInvariance, PTL
=============================================================================

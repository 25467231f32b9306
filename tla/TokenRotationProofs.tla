------------------------- MODULE TokenRotationProofs -------------------------
(***************************************************************************)
(* Invariants of TokenRotation for every number of grants, rows and        *)
(* requests.                                                               *)
(***************************************************************************)
EXTENDS TokenRotation, TLAPS

USE DEF MintPC, CascadePC, PendingPC

LEMMA IdleIsRequest == IdleRequest \in Request
BY NullAssumption DEF IdleRequest, Request, RequestRow

\* What MintFor does to the locals of the minting and of a cascading request.
LEMMA MintFieldsType ==
    ASSUME NEW o \in Request, NEW f \in Fam
    PROVE  /\ [o EXCEPT !.pc = "mint_access", !.fam = f] \in Request
           /\ [o EXCEPT !.raced = TRUE] \in Request
<1> USE DEF Request, RequestRow
<1>1. [o EXCEPT !.pc = "mint_access", !.fam = f] \in Request
  OBVIOUS
<1>2. [o EXCEPT !.raced = TRUE] \in Request
  OBVIOUS
<1> HIDE DEF Request, RequestRow
<1> QED
  BY <1>1, <1>2

\* How a lookup or a check updates the locals.
LEMMA PendingFieldsType ==
    ASSUME NEW o \in Request, NEW f \in Fam
    PROVE  /\ o.pc = "idle" => [o EXCEPT !.pc = "code_found", !.fam = f] \in Request
           /\ \A r \in RT : [o EXCEPT !.pc = "rt_found", !.fam = f, !.root = r] \in Request
           /\ o.pc = "rt_found" => [o EXCEPT !.pc = "rt_allowed"] \in Request
<1> USE DEF Request, RequestRow
<1>1. o.pc = "idle" => [o EXCEPT !.pc = "code_found", !.fam = f] \in Request
  OBVIOUS
<1>2. \A r \in RT : [o EXCEPT !.pc = "rt_found", !.fam = f, !.root = r] \in Request
  OBVIOUS
<1>3. o.pc = "rt_found" => [o EXCEPT !.pc = "rt_allowed"] \in Request
  OBVIOUS
<1> HIDE DEF Request, RequestRow
<1> QED
  BY <1>1, <1>2, <1>3

\* How the two inserts update the locals.
LEMMA MintingFieldsType ==
    ASSUME NEW o \in Request
    PROVE  /\ \A a \in AT : o.pc = "mint_access" =>
             [o EXCEPT !.pc = "mint_refresh", !.access = a] \in Request
           /\ \A r \in RT : o.pc = "mint_refresh" =>
             [o EXCEPT !.pc = "respond", !.refresh = r] \in Request
<1> USE DEF Request, RequestRow
<1>1. \A a \in AT : o.pc = "mint_access" =>
        [o EXCEPT !.pc = "mint_refresh", !.access = a] \in Request
  OBVIOUS
<1>2. \A r \in RT : o.pc = "mint_refresh" =>
        [o EXCEPT !.pc = "respond", !.refresh = r] \in Request
  OBVIOUS
<1> HIDE DEF Request, RequestRow
<1> QED
  BY <1>1, <1>2

\* How the steps of a cascade update the locals.
LEMMA WalkFieldsType ==
    ASSUME NEW o \in Request
    PROVE  /\ \A S \in SUBSET RT : [o EXCEPT !.queue = S] \in Request
           /\ \A c \in RT, S, T \in SUBSET RT : o.pc = "walk" =>
             [o EXCEPT !.pc = "children", !.cur = c, !.seen = S, !.queue = T] \in Request
           /\ \A S \in SUBSET RT : o.pc = "children" =>
             [o EXCEPT !.pc = "walk", !.cur = NULL, !.queue = S] \in Request
           /\ \A S \in SUBSET RT :
             [o EXCEPT !.sweep = "list", !.seen = {}, !.queue = S] \in Request
           /\ \A D \in SUBSET AT : o.pc = "walk" =>
             [o EXCEPT !.pc = "expire_access", !.doomed = D] \in Request
<1> USE DEF Request, RequestRow
<1>1. \A S \in SUBSET RT : [o EXCEPT !.queue = S] \in Request
  OBVIOUS
<1>2. \A c \in RT, S, T \in SUBSET RT : o.pc = "walk" =>
        [o EXCEPT !.pc = "children", !.cur = c, !.seen = S, !.queue = T] \in Request
  OBVIOUS
<1>3. \A S \in SUBSET RT : o.pc = "children" =>
        [o EXCEPT !.pc = "walk", !.cur = NULL, !.queue = S] \in Request
  OBVIOUS
<1>4. \A S \in SUBSET RT :
        [o EXCEPT !.sweep = "list", !.seen = {}, !.queue = S] \in Request
  OBVIOUS
<1>5. \A D \in SUBSET AT : o.pc = "walk" =>
        [o EXCEPT !.pc = "expire_access", !.doomed = D] \in Request
  OBVIOUS
<1> HIDE DEF Request, RequestRow
<1> QED
  BY <1>1, <1>2, <1>3, <1>4, <1>5

LEMMA BecomeType ==
    ASSUME TypeOK, NEW q \in Req, NEW o \in Request, Become(q, o)
    PROVE  req' \in [Req -> Request]
BY DEF TypeOK, Become

LEMMA MintForType ==
    ASSUME TypeOK, NEW q \in Req, NEW f \in Fam, MintFor(q, f)
    PROVE  req' \in [Req -> Request]
<1>1. \A p \in Req : req[p] \in Request
  BY DEF TypeOK
<1> QED
  BY <1>1, MintFieldsType DEF MintFor

LEMMA CascadeFromType ==
    ASSUME TypeOK, NEW q \in Req, NEW r \in RT, NEW f \in Fam
    PROVE  CascadeFrom(q, r, f) \in Request
BY NullAssumption DEF CascadeFrom, IdleRequest, Request, RequestRow

\* The shapes in which the actions update a row of refresh_tokens or tokens.
LEMMA RowsType ==
    ASSUME NEW x \in RefreshRow
    PROVE  /\ x.st # "unborn" => [x EXCEPT !.st = "revoked"] \in RefreshRow
           /\ x.st # "unborn" =>
                [x EXCEPT !.st = "deleted", !.parent = NULL, !.access = NULL] \in RefreshRow
           /\ [x EXCEPT !.parent = NULL] \in RefreshRow
           /\ [x EXCEPT !.access = NULL] \in RefreshRow
           /\ [x EXCEPT !.expired = TRUE] \in RefreshRow
BY DEF RefreshRow

LEMMA AccessRowsType ==
    ASSUME NEW x \in AccessRow, x.st # "unborn"
    PROVE  /\ [x EXCEPT !.st = "expired"] \in AccessRow
           /\ [x EXCEPT !.st = "deleted"] \in AccessRow
BY DEF AccessRow

LEMMA RevokeRowsType ==
    ASSUME TypeOK, NEW S, RevokeRows(S)
    PROVE  rt' \in [RT -> RefreshRow]
<1>1. \A r \in RT : rt[r] \in RefreshRow
  BY DEF TypeOK
<1> QED
  BY <1>1, RowsType DEF RevokeRows, Live

LEMMA ExpireAccessType ==
    ASSUME TypeOK, NEW S, ExpireAccess(S)
    PROVE  at' \in [AT -> AccessRow]
<1>1. \A a \in AT : at[a] \in AccessRow
  BY DEF TypeOK
<1> QED
  BY <1>1, AccessRowsType DEF ExpireAccess

LEMMA DeleteRefreshRowsType ==
    ASSUME TypeOK, NEW S, \A r \in S : rt[r].st # "unborn", DeleteRefreshRows(S)
    PROVE  rt' \in [RT -> RefreshRow]
<1>1. \A r \in RT : rt[r] \in RefreshRow
  BY DEF TypeOK
<1> QED
  BY <1>1, RowsType DEF DeleteRefreshRows

LEMMA DeleteAccessRowsType ==
    ASSUME TypeOK, NEW S, \A a \in S : at[a].st # "unborn", DeleteAccessRows(S)
    PROVE  rt' \in [RT -> RefreshRow] /\ at' \in [AT -> AccessRow]
<1>1. /\ \A r \in RT : rt[r] \in RefreshRow
      /\ \A a \in AT : at[a] \in AccessRow
  BY DEF TypeOK
<1> QED
  BY <1>1, RowsType, AccessRowsType DEF DeleteAccessRows

\* Every action keeps the types.
LEMMA TypeStep == TypeOK /\ [Next]_vars => TypeOK'
<1> SUFFICES ASSUME TypeOK, [Next]_vars PROVE TypeOK'
  OBVIOUS
<1>req. \A q \in Req : req[q] \in Request
  BY DEF TypeOK
<1>locals. \A q \in Req :
             /\ req[q].pc \in PendingPC \cup CascadePC => req[q].fam \in Fam
             /\ req[q].pc \in {"rt_found", "rt_allowed"} \cup CascadePC => req[q].root \in RT
             /\ req[q].pc \in {"mint_refresh", "respond"} => req[q].access \in AT
             /\ req[q].pc = "respond" => req[q].refresh \in RT
             /\ req[q].pc = "children" => req[q].cur \in RT
             /\ req[q].root \in RT \cup {NULL}
             /\ req[q].seen \in SUBSET RT /\ req[q].queue \in SUBSET RT
             /\ req[q].doomed \in SUBSET AT
  BY <1>req DEF Request, RequestRow
<1>rows. /\ \A r \in RT : rt[r] \in RefreshRow
         /\ \A r \in RT : /\ rt[r].st # "unborn" => rt[r].fam \in Fam
                          /\ rt[r].parent \in RT \cup {NULL}
                          /\ rt[r].access \in AT \cup {NULL}
  BY DEF TypeOK, RefreshRow
<1>1. ASSUME NEW q \in Req, MarkUsed(q) PROVE TypeOK'
  <2>1. req' \in [Req -> Request]
    BY <1>1, <1>locals, IdleIsRequest, BecomeType, MintForType DEF MarkUsed
  <2> QED
    BY <1>1, <2>1 DEF MarkUsed, TypeOK, CodeState
<1>2. ASSUME NEW q \in Req, CheckSubject(q) PROVE TypeOK'
  <2>1. req' \in [Req -> Request]
    BY <1>2, <1>req, <1>locals, BecomeType, CascadeFromType, PendingFieldsType DEF CheckSubject
  <2> QED
    BY <1>2, <2>1 DEF CheckSubject, TypeOK
<1>3. ASSUME NEW q \in Req, RevokePresented(q) PROVE TypeOK'
  <2>1. req' \in [Req -> Request]
    BY <1>3, <1>locals, BecomeType, MintForType, CascadeFromType DEF RevokePresented
  <2>2. Live(req[q].root) => [rt[req[q].root] EXCEPT !.st = "revoked"] \in RefreshRow
    BY <1>3, <1>rows, <1>locals, RowsType DEF RevokePresented, Live
  <2>3. rt' \in [RT -> RefreshRow]
    BY <1>3, <2>2 DEF RevokePresented, RevokedAtIsNull, TypeOK
  <2> QED
    BY <1>3, <2>1, <2>3 DEF RevokePresented, TypeOK
<1>4. ASSUME NEW q \in Req, CreateAccessToken(q) PROVE TypeOK'
  <2>1. req' \in [Req -> Request]
    BY <1>4, <1>req, BecomeType, MintingFieldsType DEF CreateAccessToken, Unborn, TypeOK
  <2>2. [st |-> "live", fam |-> req[q].fam] \in AccessRow
    BY <1>4, <1>locals, NullAssumption DEF CreateAccessToken, AccessRow
  <2> QED
    BY <1>4, <2>1, <2>2 DEF CreateAccessToken, TypeOK
<1>5. ASSUME NEW q \in Req, CreateRefreshToken(q) PROVE TypeOK'
  <2>1. req' \in [Req -> Request]
    BY <1>5, <1>req, <1>locals, BecomeType, IdleIsRequest, MintingFieldsType
       DEF CreateRefreshToken, Unborn, TypeOK
  <2>2. NewRefreshRow(q) \in RefreshRow
    BY <1>5, <1>locals DEF CreateRefreshToken, NewRefreshRow, RefreshRow
  <2>3. rt' \in [RT -> RefreshRow]
    BY <1>5, <2>2 DEF CreateRefreshToken, TypeOK
  <2> QED
    BY <1>5, <2>1, <2>3 DEF CreateRefreshToken, TypeOK
<1>6. ASSUME NEW q \in Req, Respond(q) PROVE TypeOK'
  <2>1. req' \in [Req -> Request]
    BY <1>6, IdleIsRequest, BecomeType DEF Respond
  <2> QED
    BY <1>6, <2>1, <1>locals DEF Respond, TypeOK
<1>7. ASSUME NEW q \in Req, WalkParent(q) PROVE TypeOK'
  <2>1. PICK c \in req[q].queue :
          \/ Become(q, [req[q] EXCEPT !.queue = req[q].queue \ {c}])
          \/ Become(q, [req[q] EXCEPT !.pc = "children", !.cur = c, !.seen = req[q].seen \cup {c},
                        !.queue = (req[q].queue \ {c}) \cup (Parents(c) \ (req[q].seen \cup {c}))])
    BY <1>7, <1>req DEF WalkParent, Request, RequestRow
  <2>2. c \in RT /\ Parents(c) \in SUBSET RT
    BY <1>locals, <1>rows DEF Parents
  <2> DEFINE skip == [req[q] EXCEPT !.queue = req[q].queue \ {c}]
             visit == [req[q] EXCEPT !.pc = "children", !.cur = c, !.seen = req[q].seen \cup {c},
                        !.queue = (req[q].queue \ {c}) \cup (Parents(c) \ (req[q].seen \cup {c}))]
  <2>3. skip \in Request /\ visit \in Request
    BY <1>7, <2>2, <1>req, <1>locals, WalkFieldsType DEF WalkParent
  <2>4. Become(q, skip) \/ Become(q, visit)
    BY <2>1
  <2> HIDE DEF skip, visit
  <2>5. req' \in [Req -> Request]
    BY <2>3, <2>4, BecomeType
  <2> QED
    BY <1>7, <2>5 DEF WalkParent, TypeOK
<1>8. ASSUME NEW q \in Req, WalkChildren(q) PROVE TypeOK'
  <2>1. req' \in [Req -> Request]
    BY <1>8, <1>req, <1>locals, BecomeType, WalkFieldsType DEF WalkChildren, Children
  <2> QED
    BY <1>8, <2>1 DEF WalkChildren, TypeOK
<1>9. ASSUME NEW q \in Req, RevokeFamily(q) PROVE TypeOK'
  <2>1. req' \in [Req -> Request]
    BY <1>9, <1>req, <1>locals, BecomeType, WalkFieldsType DEF RevokeFamily, WalkDone
  <2>2. rt' \in [RT -> RefreshRow]
    BY <1>9, RevokeRowsType DEF RevokeFamily
  <2> QED
    BY <1>9, <2>1, <2>2 DEF RevokeFamily, TypeOK
<1>10. ASSUME NEW q \in Req, ListFamilyAccessTokenIds(q) PROVE TypeOK'
  <2>1. BoundAccess(req[q].seen) \in SUBSET AT
    BY <1>locals, <1>rows DEF BoundAccess
  <2>2. req' \in [Req -> Request]
    BY <1>10, <2>1, <1>req, BecomeType, IdleIsRequest, WalkFieldsType
       DEF ListFamilyAccessTokenIds, WalkDone
  <2> QED
    BY <1>10, <2>2 DEF ListFamilyAccessTokenIds, TypeOK
<1>11. ASSUME NEW q \in Req, ExpireAccessTokensByIds(q) PROVE TypeOK'
  <2>1. req' \in [Req -> Request]
    BY <1>11, IdleIsRequest, BecomeType DEF ExpireAccessTokensByIds
  <2> QED
    BY <1>11, <2>1, ExpireAccessType DEF ExpireAccessTokensByIds, TypeOK
<1>12. ASSUME NEW q \in Req, Abandon(q) PROVE TypeOK'
  <2>1. req' \in [Req -> Request]
    BY <1>12, IdleIsRequest, BecomeType DEF Abandon
  <2> QED
    BY <1>12, <2>1 DEF Abandon, TypeOK
<1>13. ASSUME NEW q \in Req, NEW f \in Fam, ExchangeClientCredentials(q, f) PROVE TypeOK'
  <2>1. req' \in [Req -> Request]
    BY <1>13, MintForType DEF ExchangeClientCredentials
  <2> QED
    BY <1>13, <2>1 DEF ExchangeClientCredentials, TypeOK, CodeState
<1>14. ASSUME NEW q \in Req, NEW f \in Fam, LookupCode(q, f) PROVE TypeOK'
  <2>1. req' \in [Req -> Request]
    BY <1>14, <1>req, BecomeType, PendingFieldsType DEF LookupCode
  <2> QED
    BY <1>14, <2>1 DEF LookupCode, TypeOK
<1>15. ASSUME NEW q \in Req, NEW r \in RT, LookupRefreshToken(q, r) PROVE TypeOK'
  <2>1. req' \in [Req -> Request]
    BY <1>15, <1>req, <1>rows, BecomeType, CascadeFromType, PendingFieldsType DEF LookupRefreshToken, Live
  <2> QED
    BY <1>15, <2>1 DEF LookupRefreshToken, TypeOK
<1>16. ASSUME NEW f \in Fam, Authorize(f) PROVE TypeOK'
  BY <1>16 DEF Authorize, TypeOK, CodeState
<1>17. ASSUME NEW f \in Fam, SetAccess(f) PROVE TypeOK'
  BY <1>17 DEF SetAccess, TypeOK
<1>18. ASSUME NEW f \in Fam, CodeLapses(f) PROVE TypeOK'
  BY <1>18 DEF CodeLapses, TypeOK, CodeState
<1>19. ASSUME NEW r \in RT, RevokeTokenByValue(r) PROVE TypeOK'
  BY <1>19, RevokeRowsType DEF RevokeTokenByValue, TypeOK
<1>20. ASSUME NEW r \in RT, RefreshLapses(r) PROVE TypeOK'
  BY <1>20, <1>rows, RowsType DEF RefreshLapses, TypeOK
<1>21. ASSUME NEW a \in AT, RevokeAccessByValue(a) PROVE TypeOK'
  BY <1>21, ExpireAccessType DEF RevokeAccessByValue, TypeOK
<1>22. ASSUME NEW a \in AT, AccessLapses(a) PROVE TypeOK'
  BY <1>22, AccessRowsType DEF AccessLapses, TypeOK
<1>23. ASSUME DeleteTokenByValue PROVE TypeOK'
  BY <1>23, DeleteRefreshRowsType, DeleteAccessRowsType DEF DeleteTokenByValue, Present, TypeOK
<1>24. ASSUME Cleanup PROVE TypeOK'
  BY <1>24, DeleteRefreshRowsType, DeleteAccessRowsType DEF Cleanup, DeleteExpiredAccessTokens,
     DeleteExpired, DeleteRevoked, DeleteUsedOrExpired, Present, CodeState, TypeOK
<1>25. ASSUME UNCHANGED vars PROVE TypeOK'
  BY <1>25 DEF vars, TypeOK
<1> QED
  BY <1>1, <1>2, <1>3, <1>4, <1>5, <1>6, <1>7, <1>8, <1>9, <1>10, <1>11, <1>12, <1>13, <1>14,
      <1>15, <1>16, <1>17, <1>18, <1>19, <1>20, <1>21, <1>22, <1>23, <1>24, <1>25
     DEF Next, Requests, Environment, Housekeeping, RequestStep

LEMMA TypeInit == Init => TypeOK
BY NullAssumption, IdleIsRequest
   DEF Init, TypeOK, CodeState, RefreshRow, AccessRow

\* The tables and every request's locals keep their types, for any number of
\* grants, rows and requests.
THEOREM TypeCorrect == Spec => []TypeOK
<1> QED
  BY TypeInit, TypeStep, PTL DEF Spec
-----------------------------------------------------------------------------
(* SingleHolder.                                                           *)

\* A step that creates no live row, starts no minting and reopens no code
\* cannot give a family a second holder.
LEMMA Shrinks ==
    ASSUME SingleHolder,
           \A r \in RT : Live(r)' => Live(r),
           \A r \in RT : rt'[r].fam = rt[r].fam,
           \A q \in Req, f \in Fam : Minting(q, f)' => Minting(q, f),
           \A f \in Fam : codes'[f] \in {"none", "unused", "expired"} =>
                             codes[f] \in {"none", "unused", "expired"}
    PROVE  SingleHolder'
BY DEF SingleHolder

\* Who mints after MintFor: q for f, and whoever minted before.
LEMMA MintForMints ==
    ASSUME TypeOK, NEW q \in Req, NEW f \in Fam, MintFor(q, f)
    PROVE  \A p \in Req, g \in Fam : Minting(p, g)' => Minting(p, g) \/ (p = q /\ g = f)
BY DEF MintFor, Minting, TypeOK, Request, RequestRow

\* A request that moves on without MintFor starts no minting.
LEMMA BecomeMints ==
    ASSUME TypeOK, NEW q \in Req, NEW o, Become(q, o),
           o.pc \in MintPC => req[q].pc \in MintPC /\ o.fam = req[q].fam
    PROVE  \A p \in Req, g \in Fam : Minting(p, g)' => Minting(p, g)
BY DEF Become, Minting, TypeOK

\* The unused code, when it is consumed, is the only holder of its family.
LEMMA RedeemKeepsSingleHolder ==
    ASSUME TypeOK, SingleHolder, NEW q \in Req, NEW f \in Fam,
           codes[f] \in {"none", "unused", "expired"},
           NEW c \in {"used", "absent"}, codes' = [codes EXCEPT ![f] = c],
           MintFor(q, f), UNCHANGED rt
    PROVE  SingleHolder'
<1>1. \A p \in Req, g \in Fam : Minting(p, g)' => Minting(p, g) \/ (p = q /\ g = f)
  BY MintForMints
<1>2. (\A r \in RT : rt[r].fam # f) /\ (\A p \in Req : ~Minting(p, f))
  BY DEF SingleHolder
<1>3. \A r \in RT : Live(r)' <=> Live(r)
  BY DEF Live
<1>4. \A g \in Fam : g # f => codes'[g] = codes[g]
  BY DEF TypeOK
<1>5. codes'[f] = c
  BY DEF TypeOK
<1> QED
  BY <1>1, <1>2, <1>3, <1>4, <1>5 DEF SingleHolder

\* The live token, when it is revoked by its rotation, is the only holder.
LEMMA RotateKeepsSingleHolder ==
    ASSUME TypeOK, SingleHolder, NEW q \in Req, NEW f \in Fam, NEW r \in RT,
           Live(r), rt[r].fam = f, rt' = [rt EXCEPT ![r].st = "revoked"],
           MintFor(q, f), UNCHANGED codes
    PROVE  SingleHolder'
<1>1. \A p \in Req, g \in Fam : Minting(p, g)' => Minting(p, g) \/ (p = q /\ g = f)
  BY MintForMints
<1>2. \A p \in Req : ~Minting(p, f)
  BY DEF SingleHolder
<1>3. \A s \in RT : /\ rt'[s].fam = rt[s].fam
                    /\ Live(s)' => Live(s) /\ s # r
  BY DEF Live, TypeOK, RefreshRow
<1>4. \A s \in RT : Live(s)' => rt'[s].fam # f
  BY <1>3 DEF SingleHolder
<1> QED
  BY <1>1, <1>2, <1>3, <1>4 DEF SingleHolder

\* The new refresh token replaces the request that minted it as the holder.
LEMMA MintKeepsSingleHolder ==
    ASSUME TypeOK, SingleHolder, NEW q \in Req, NEW f \in Fam, NEW r \in RT,
           Minting(q, f), rt[r].st = "unborn",
           NEW x, x.st = "live", x.fam = f, rt' = [rt EXCEPT ![r] = x],
           NEW o, Become(q, o), o.pc \notin MintPC, UNCHANGED codes
    PROVE  SingleHolder'
<1>1. \A p \in Req, g \in Fam : Minting(p, g)' => Minting(p, g)
  BY BecomeMints
<1>2. \A p \in Req : ~Minting(p, f)'
  <2>1. ~Minting(q, f)'
    BY DEF Become, Minting, TypeOK
  <2>2. \A p \in Req : Minting(p, f) => p = q
    BY DEF SingleHolder
  <2> QED
    BY <1>1, <2>1, <2>2
<1>3. \A s \in RT : /\ s # r => rt'[s] = rt[s]
                    /\ rt'[r] = x
  BY DEF TypeOK
<1>4. \A s \in RT : Live(s) => rt[s].fam # f
  BY DEF SingleHolder
<1>5. codes[f] \notin {"none", "unused", "expired"}
  BY DEF SingleHolder
<1>6. \A s, t \in RT, g \in Fam :
        Live(s)' /\ Live(t)' /\ rt'[s].fam = g /\ rt'[t].fam = g => s = t
  BY <1>3, <1>4 DEF SingleHolder, Live
<1>7. \A p \in Req, s \in RT, g \in Fam : Minting(p, g)' => ~(Live(s)' /\ rt'[s].fam = g)
  BY <1>1, <1>2, <1>3 DEF SingleHolder, Live
<1> QED
  BY <1>1, <1>3, <1>5, <1>6, <1>7 DEF SingleHolder

\* No bulk UPDATE or DELETE revives a row or moves it to another family.
LEMMA BulkShrinks ==
    ASSUME TypeOK, NEW S, RevokeRows(S) \/ DeleteRefreshRows(S) \/ DeleteAccessRows(S)
    PROVE  \A r \in RT : (Live(r)' => Live(r)) /\ rt'[r].fam = rt[r].fam
<1>1. \A r \in RT : rt[r] \in RefreshRow
  BY DEF TypeOK
<1>2. CASE RevokeRows(S)
  BY <1>1, <1>2 DEF RevokeRows, Live, RefreshRow
<1>3. CASE DeleteRefreshRows(S)
  BY <1>1, <1>3 DEF DeleteRefreshRows, Live, RefreshRow
<1>4. CASE DeleteAccessRows(S)
  BY <1>1, <1>4 DEF DeleteAccessRows, Live, RefreshRow
<1> QED
  BY <1>2, <1>3, <1>4

LEMMA SingleHolderStep ==
    TypeOK /\ LinksStayInFamily /\ SingleHolder /\ [Next]_vars => SingleHolder'
<1> SUFFICES ASSUME TypeOK, LinksStayInFamily, SingleHolder, [Next]_vars
             PROVE  SingleHolder'
  OBVIOUS
<1> DEFINE Open(f) == codes[f] \in {"none", "unused", "expired"}
           NoMint == \A p \in Req, g \in Fam : Minting(p, g)' => Minting(p, g)
<1>pcs. \A q \in Req : /\ req[q].pc \in PendingPC => req[q].fam \in Fam
                       /\ req[q].pc = "rt_allowed" => req[q].root \in RT
  BY DEF TypeOK, Request, RequestRow
<1>1. ASSUME NEW q \in Req, MarkUsed(q) PROVE SingleHolder'
  <2>1. CASE ~UsedAtIsNull(req[q].fam)
    <3>1. NoMint
      BY <1>1, <2>1, BecomeMints DEF MarkUsed, IdleRequest
    <3> QED
      BY <1>1, <2>1, <3>1, Shrinks DEF MarkUsed, Live
  <2>2. CASE UsedAtIsNull(req[q].fam)
    BY <1>1, <2>2, <1>pcs, RedeemKeepsSingleHolder DEF MarkUsed, UsedAtIsNull
  <2> QED
    BY <2>1, <2>2
<1>2. ASSUME NEW q \in Req, NEW f \in Fam, ExchangeClientCredentials(q, f) PROVE SingleHolder'
  BY <1>2, RedeemKeepsSingleHolder DEF ExchangeClientCredentials
<1>3. ASSUME NEW q \in Req, RevokePresented(q) PROVE SingleHolder'
  <2>1. rt[req[q].root].fam = req[q].fam /\ req[q].root \in RT /\ req[q].fam \in Fam
    BY <1>3, <1>pcs, NullAssumption DEF RevokePresented, LinksStayInFamily
  <2>2. CASE Live(req[q].root)
    BY <1>3, <2>1, <2>2, RotateKeepsSingleHolder DEF RevokePresented, RevokedAtIsNull
  <2>3. CASE ~Live(req[q].root)
    <3>1. NoMint
      BY <1>3, <2>3, BecomeMints DEF RevokePresented, RevokedAtIsNull, CascadeFrom, IdleRequest
    <3> QED
      BY <1>3, <2>3, <3>1, Shrinks DEF RevokePresented, RevokedAtIsNull, Live
  <2> QED
    BY <2>2, <2>3
<1>4. ASSUME NEW q \in Req, CreateRefreshToken(q) PROVE SingleHolder'
  <2>1. CASE ~ForeignKeysHold(q)
    <3>1. NoMint
      BY <1>4, <2>1, BecomeMints DEF CreateRefreshToken, IdleRequest
    <3> QED
      BY <1>4, <2>1, <3>1, Shrinks DEF CreateRefreshToken, Live
  <2>2. CASE ForeignKeysHold(q)
    <3>1. PICK r \in RT : /\ rt[r].st = "unborn"
                          /\ rt' = [rt EXCEPT ![r] = NewRefreshRow(q)]
                          /\ Become(q, [req[q] EXCEPT !.pc = "respond", !.refresh = r])
      BY <1>4, <2>2 DEF CreateRefreshToken, Unborn, TypeOK
    <3>2. Minting(q, req[q].fam) /\ req[q].fam \in Fam
      BY <1>4, <1>pcs DEF CreateRefreshToken, Minting
    <3>3. NewRefreshRow(q).st = "live" /\ NewRefreshRow(q).fam = req[q].fam
      BY DEF NewRefreshRow
    <3>4. [req[q] EXCEPT !.pc = "respond", !.refresh = r].pc = "respond"
      BY DEF TypeOK, Request, RequestRow
    <3> HIDE DEF NoMint
    <3> QED
      BY <1>4, <3>1, <3>2, <3>3, <3>4, MintKeepsSingleHolder DEF CreateRefreshToken
  <2> QED
    BY <2>1, <2>2
<1>5. ASSUME NoMint, UNCHANGED <<codes, rt>> PROVE SingleHolder'
  BY <1>5, Shrinks DEF Live
<1>6. ASSUME NEW q \in Req, CheckSubject(q) PROVE SingleHolder'
  <2>1. NoMint
    <3>1. [req[q] EXCEPT !.pc = "rt_allowed"].pc = "rt_allowed"
      BY DEF TypeOK, Request, RequestRow
    <3>2. CascadeFrom(q, req[q].root, req[q].fam).pc = "walk"
      BY DEF CascadeFrom, IdleRequest
    <3> QED
      BY <1>6, <3>1, <3>2, BecomeMints DEF CheckSubject
  <2> QED
    BY <1>6, <2>1, <1>5 DEF CheckSubject
<1>7. ASSUME NEW q \in Req, CreateAccessToken(q) PROVE SingleHolder'
  <2>1. NoMint
    <3>1. PICK a \in AT : Become(q, [req[q] EXCEPT !.pc = "mint_refresh", !.access = a])
      BY <1>7 DEF CreateAccessToken, Unborn, TypeOK
    <3>2. [req[q] EXCEPT !.pc = "mint_refresh", !.access = a].fam = req[q].fam
      BY DEF TypeOK, Request, RequestRow
    <3>3. req[q].pc \in MintPC
      BY <1>7 DEF CreateAccessToken
    <3> HIDE DEF MintPC
    <3> QED
      BY <3>1, <3>2, <3>3, BecomeMints
  <2> QED
    BY <1>7, <2>1, <1>5 DEF CreateAccessToken
<1>8. ASSUME NEW q \in Req, Respond(q) PROVE SingleHolder'
  <2>1. NoMint
    BY <1>8, BecomeMints DEF Respond, IdleRequest
  <2> QED
    BY <1>8, <2>1, <1>5 DEF Respond
<1>9. ASSUME NEW q \in Req, Abandon(q) PROVE SingleHolder'
  <2>1. NoMint
    BY <1>9, BecomeMints DEF Abandon, IdleRequest
  <2> QED
    BY <1>9, <2>1, <1>5 DEF Abandon
<1>10. ASSUME NEW q \in Req, WalkParent(q) PROVE SingleHolder'
  <2>1. NoMint
    BY <1>10, BecomeMints DEF WalkParent, TypeOK, Request, RequestRow
  <2> QED
    BY <1>10, <2>1, <1>5 DEF WalkParent
<1>11. ASSUME NEW q \in Req, WalkChildren(q) PROVE SingleHolder'
  <2>1. NoMint
    BY <1>11, BecomeMints DEF WalkChildren, TypeOK, Request, RequestRow
  <2> QED
    BY <1>11, <2>1, <1>5 DEF WalkChildren
<1>12. ASSUME NEW q \in Req, ListFamilyAccessTokenIds(q) PROVE SingleHolder'
  <2>1. NoMint
    BY <1>12, BecomeMints DEF ListFamilyAccessTokenIds, IdleRequest, WalkDone, TypeOK, Request, RequestRow
  <2> QED
    BY <1>12, <2>1, <1>5 DEF ListFamilyAccessTokenIds
<1>13. ASSUME NEW q \in Req, ExpireAccessTokensByIds(q) PROVE SingleHolder'
  <2>1. NoMint
    BY <1>13, BecomeMints DEF ExpireAccessTokensByIds, IdleRequest
  <2> QED
    BY <1>13, <2>1, <1>5 DEF ExpireAccessTokensByIds
<1>14. ASSUME NEW q \in Req, RevokeFamily(q) PROVE SingleHolder'
  <2>1. NoMint
    BY <1>14, BecomeMints DEF RevokeFamily, WalkDone, TypeOK, Request, RequestRow
  <2>2. \A r \in RT : (Live(r)' => Live(r)) /\ rt'[r].fam = rt[r].fam
    BY <1>14, BulkShrinks DEF RevokeFamily
  <2> QED
    BY <1>14, <2>1, <2>2, Shrinks DEF RevokeFamily
<1>15. ASSUME NEW q \in Req, NEW f \in Fam, LookupCode(q, f) PROVE SingleHolder'
  <2>1. NoMint
    BY <1>15, BecomeMints DEF LookupCode, TypeOK, Request, RequestRow
  <2> QED
    BY <1>15, <2>1, <1>5 DEF LookupCode
<1>16. ASSUME NEW q \in Req, NEW r \in RT, LookupRefreshToken(q, r) PROVE SingleHolder'
  <2>1. NoMint
    BY <1>16, BecomeMints DEF LookupRefreshToken, CascadeFrom, IdleRequest, TypeOK, Request, RequestRow
  <2> QED
    BY <1>16, <2>1, <1>5 DEF LookupRefreshToken
<1>17. ASSUME UNCHANGED <<rt, req>>,
            \A f \in Fam : codes'[f] \in {"none", "unused", "expired"} => Open(f)
     PROVE  SingleHolder'
  BY <1>17, Shrinks DEF Live, Minting
<1>18. ASSUME NEW f \in Fam, Authorize(f) PROVE SingleHolder'
  BY <1>18, <1>17 DEF Authorize, TypeOK
<1>19. ASSUME NEW f \in Fam, SetAccess(f) PROVE SingleHolder'
  BY <1>19, <1>17 DEF SetAccess, TypeOK
<1>20. ASSUME NEW f \in Fam, CodeLapses(f) PROVE SingleHolder'
  BY <1>20, <1>17 DEF CodeLapses, TypeOK
<1>21. ASSUME UNCHANGED <<codes, req>>,
            \A r \in RT : (Live(r)' => Live(r)) /\ rt'[r].fam = rt[r].fam
     PROVE  SingleHolder'
  BY <1>21, Shrinks DEF Minting
<1>22. ASSUME NEW r \in RT, RevokeTokenByValue(r) PROVE SingleHolder'
  BY <1>22, <1>21, BulkShrinks DEF RevokeTokenByValue
<1>23. ASSUME NEW r \in RT, RefreshLapses(r) PROVE SingleHolder'
  <2>1. \A s \in RT : (Live(s)' => Live(s)) /\ rt'[s].fam = rt[s].fam
    BY <1>23 DEF RefreshLapses, Live, TypeOK, RefreshRow
  <2> QED
    BY <1>23, <2>1, <1>21 DEF RefreshLapses
<1>24. ASSUME NEW a \in AT, RevokeAccessByValue(a) PROVE SingleHolder'
  BY <1>24, <1>21 DEF RevokeAccessByValue, Live
<1>25. ASSUME NEW a \in AT, AccessLapses(a) PROVE SingleHolder'
  BY <1>25, <1>21 DEF AccessLapses, Live
<1>26. ASSUME DeleteTokenByValue PROVE SingleHolder'
  <2>1. \A s \in RT : (Live(s)' => Live(s)) /\ rt'[s].fam = rt[s].fam
    BY <1>26, BulkShrinks DEF DeleteTokenByValue
  <2> QED
    BY <1>26, <2>1, <1>21 DEF DeleteTokenByValue
<1>27. ASSUME DeleteExpiredAccessTokens \/ DeleteExpired \/ DeleteRevoked PROVE SingleHolder'
  <2>1. \A s \in RT : (Live(s)' => Live(s)) /\ rt'[s].fam = rt[s].fam
    BY <1>27, BulkShrinks DEF DeleteExpiredAccessTokens, DeleteExpired, DeleteRevoked
  <2> QED
    BY <1>27, <2>1, <1>21 DEF DeleteExpiredAccessTokens, DeleteExpired, DeleteRevoked
<1>28. ASSUME DeleteUsedOrExpired PROVE SingleHolder'
  BY <1>28, <1>17 DEF DeleteUsedOrExpired, TypeOK
<1>29. ASSUME UNCHANGED vars PROVE SingleHolder'
  BY <1>29, <1>17 DEF vars
<1> QED
  BY <1>1, <1>2, <1>3, <1>4, <1>6, <1>7, <1>8, <1>9, <1>10, <1>11, <1>12, <1>13, <1>14, <1>15, <1>16, <1>18, <1>19, <1>20, <1>22, <1>23, <1>24, <1>25, <1>26, <1>27, <1>28, <1>29
  DEF Next, Requests, RequestStep, Environment, Housekeeping, Cleanup

-----------------------------------------------------------------------------
(* Families.                                                               *)

\* A born row keeps its family.
RefreshFamsKept == \A r \in RT : rt[r].fam # NULL => rt'[r].fam = rt[r].fam

AccessFamsKept == \A a \in AT : at[a].fam # NULL => at'[a].fam = at[a].fam

\* No row is born or gains a link.
LinksDrop ==
    \A r \in RT : /\ rt'[r].fam = rt[r].fam
                  /\ rt'[r].parent \in {rt[r].parent, NULL}
                  /\ rt'[r].access \in {rt[r].access, NULL}

LEMMA BulkKeepsFamilies ==
    ASSUME TypeOK, NEW S
    PROVE  /\ RevokeRows(S) \/ DeleteRefreshRows(S) \/ DeleteAccessRows(S)
                => RefreshFamsKept /\ LinksDrop
           /\ ExpireAccess(S) \/ DeleteAccessRows(S) => AccessFamsKept
<1>1. (\A r \in RT : rt[r] \in RefreshRow) /\ (\A a \in AT : at[a] \in AccessRow)
  BY DEF TypeOK
<1>2. ASSUME RevokeRows(S) PROVE RefreshFamsKept /\ LinksDrop
  BY <1>1, <1>2 DEF RevokeRows, RefreshFamsKept, LinksDrop, RefreshRow
<1>3. ASSUME DeleteRefreshRows(S) PROVE RefreshFamsKept /\ LinksDrop
  BY <1>1, <1>3 DEF DeleteRefreshRows, RefreshFamsKept, LinksDrop, RefreshRow
<1>4. ASSUME DeleteAccessRows(S) PROVE RefreshFamsKept /\ LinksDrop /\ AccessFamsKept
  BY <1>1, <1>4 DEF DeleteAccessRows, RefreshFamsKept, AccessFamsKept, LinksDrop,
                    RefreshRow, AccessRow
<1>5. ASSUME ExpireAccess(S) PROVE AccessFamsKept
  BY <1>1, <1>5 DEF ExpireAccess, AccessFamsKept, AccessRow
<1> QED
  BY <1>2, <1>3, <1>4, <1>5

\* Only the insert of a successor adds a link.
LEMMA RowsStep ==
    ASSUME TypeOK, [Next]_vars
    PROVE  /\ RefreshFamsKept /\ AccessFamsKept
           /\ LinksDrop \/ \E q \in Req : CreateRefreshToken(q) /\ ForeignKeysHold(q)
<1> DEFINE Goal == /\ RefreshFamsKept /\ AccessFamsKept
                   /\ LinksDrop \/ \E q \in Req : CreateRefreshToken(q) /\ ForeignKeysHold(q)
<1>row. \A r \in RT : rt[r] \in RefreshRow
  BY DEF TypeOK
<1>1. ASSUME UNCHANGED <<rt, at>> PROVE Goal
  BY <1>1 DEF RefreshFamsKept, AccessFamsKept, LinksDrop
<1>2. ASSUME RefreshFamsKept, LinksDrop, UNCHANGED at PROVE Goal
  BY <1>2 DEF AccessFamsKept
<1>3. ASSUME AccessFamsKept, UNCHANGED rt PROVE Goal
  BY <1>3 DEF RefreshFamsKept, LinksDrop
<1>4. ASSUME NEW q \in Req, RevokePresented(q) PROVE Goal
  <2>1. RefreshFamsKept /\ LinksDrop
    BY <1>4, <1>row DEF RevokePresented, RefreshFamsKept, LinksDrop, RefreshRow, TypeOK
  <2> QED
    BY <1>4, <2>1, <1>2 DEF RevokePresented
<1>5. ASSUME NEW q \in Req, CreateAccessToken(q) PROVE Goal
  <2>1. PICK a \in Unborn(at) : at' = [at EXCEPT ![a] = [st |-> "live", fam |-> req[q].fam]]
    BY <1>5 DEF CreateAccessToken
  <2>2. a \in AT /\ at[a].fam = NULL
    BY <2>1 DEF Unborn, TypeOK, AccessRow
  <2>3. AccessFamsKept
    BY <2>1, <2>2 DEF AccessFamsKept, TypeOK
  <2> QED
    BY <1>5, <2>3, <1>3 DEF CreateAccessToken
<1>6. ASSUME NEW q \in Req, CreateRefreshToken(q) PROVE Goal
  <2>1. CASE ~ForeignKeysHold(q)
    BY <1>6, <2>1, <1>1 DEF CreateRefreshToken
  <2>2. CASE ForeignKeysHold(q)
    <3>1. PICK r \in Unborn(rt) : rt' = [rt EXCEPT ![r] = NewRefreshRow(q)]
      BY <1>6, <2>2 DEF CreateRefreshToken
    <3>2. r \in RT /\ rt[r].fam = NULL
      BY <3>1, <1>row DEF Unborn, TypeOK, RefreshRow
    <3>3. RefreshFamsKept
      BY <3>1, <3>2 DEF RefreshFamsKept, TypeOK
    <3>4. AccessFamsKept
      BY <1>6 DEF CreateRefreshToken, AccessFamsKept
    <3> QED
      BY <1>6, <2>2, <3>3, <3>4
  <2> QED
    BY <2>1, <2>2
<1>7. ASSUME NEW q \in Req, RevokeFamily(q) PROVE Goal
  BY <1>7, <1>2, BulkKeepsFamilies DEF RevokeFamily
<1>8. ASSUME NEW q \in Req, ExpireAccessTokensByIds(q) PROVE Goal
  BY <1>8, <1>3, BulkKeepsFamilies DEF ExpireAccessTokensByIds
<1>9. ASSUME NEW r \in RT, RevokeTokenByValue(r) PROVE Goal
  BY <1>9, <1>2, BulkKeepsFamilies DEF RevokeTokenByValue
<1>10. ASSUME NEW a \in AT, RevokeAccessByValue(a) PROVE Goal
  BY <1>10, <1>3, BulkKeepsFamilies DEF RevokeAccessByValue
<1>11. ASSUME NEW r \in RT, RefreshLapses(r) PROVE Goal
  <2>1. RefreshFamsKept /\ LinksDrop
    BY <1>11, <1>row DEF RefreshLapses, RefreshFamsKept, LinksDrop, RefreshRow, TypeOK
  <2> QED
    BY <1>11, <2>1, <1>2 DEF RefreshLapses
<1>12. ASSUME NEW a \in AT, AccessLapses(a) PROVE Goal
  <2>1. AccessFamsKept
    BY <1>12 DEF AccessLapses, AccessFamsKept, AccessRow, TypeOK
  <2> QED
    BY <1>12, <2>1, <1>3 DEF AccessLapses
<1>13. ASSUME NEW S, DeleteRefreshRows(S), UNCHANGED at PROVE Goal
  BY <1>13, <1>2, BulkKeepsFamilies
<1>14. ASSUME NEW S, DeleteAccessRows(S) PROVE Goal
  BY <1>14, BulkKeepsFamilies
<1>15. ASSUME Housekeeping PROVE Goal
  <2>1. CASE DeleteTokenByValue
    BY <2>1, <1>13, <1>14 DEF DeleteTokenByValue
  <2>2. CASE Cleanup
    BY <2>2, <1>1, <1>13, <1>14 DEF Cleanup, DeleteExpiredAccessTokens, DeleteExpired,
                                    DeleteRevoked, DeleteUsedOrExpired
  <2> QED
    BY <1>15, <2>1, <2>2 DEF Housekeeping
<1>16. ASSUME NEW q \in Req,
             \/ MarkUsed(q) \/ CheckSubject(q) \/ Respond(q) \/ Abandon(q)
             \/ WalkParent(q) \/ WalkChildren(q) \/ ListFamilyAccessTokenIds(q)
             \/ (\E f \in Fam : ExchangeClientCredentials(q, f) \/ LookupCode(q, f))
             \/ (\E r \in RT : LookupRefreshToken(q, r))
       PROVE Goal
  <2>1. UNCHANGED <<rt, at>>
    BY <1>16 DEF MarkUsed, CheckSubject, Respond, Abandon, WalkParent, WalkChildren,
       ListFamilyAccessTokenIds, ExchangeClientCredentials, LookupCode, LookupRefreshToken
  <2> QED
    BY <2>1, <1>1
<1>17. ASSUME NEW f \in Fam, Authorize(f) \/ SetAccess(f) \/ CodeLapses(f) PROVE Goal
  BY <1>17, <1>1 DEF Authorize, SetAccess, CodeLapses
<1>18. ASSUME UNCHANGED vars PROVE Goal
  BY <1>18, <1>1 DEF vars
<1> HIDE DEF Goal
<1>19. Goal
  BY <1>4, <1>5, <1>6, <1>7, <1>8, <1>9, <1>10, <1>11, <1>12, <1>15, <1>16, <1>17, <1>18
  DEF Next, Requests, RequestStep, Environment
<1> QED
  BY <1>19 DEF Goal

\* LinksStayInFamily and CascadeStaysInFamily, row by row and request by request.
LinkedRow(r) ==
    /\ rt[r].parent # NULL => rt[rt[r].parent].fam = rt[r].fam
    /\ rt[r].access # NULL => at[rt[r].access].fam = rt[r].fam

LinkedRequest(q) ==
    /\ req[q].pc \in PendingPC \cup CascadePC /\ req[q].root # NULL =>
         rt[req[q].root].fam = req[q].fam
    /\ req[q].pc = "mint_refresh" => at[req[q].access].fam = req[q].fam
    /\ req[q].pc = "children" => rt[req[q].cur].fam = req[q].fam
    /\ req[q].pc \in CascadePC =>
         /\ \A r \in req[q].seen \cup req[q].queue : rt[r].fam = req[q].fam
         /\ \A a \in req[q].doomed : at[a].fam = req[q].fam

LEMMA LinkedParts ==
    LinksStayInFamily /\ CascadeStaysInFamily
      <=> (\A r \in RT : LinkedRow(r)) /\ (\A q \in Req : LinkedRequest(q))
BY DEF LinksStayInFamily, CascadeStaysInFamily, LinkedRow, LinkedRequest

LEMMA LinkedRowsStep ==
    ASSUME TypeOK, \A r \in RT : LinkedRow(r), \A q \in Req : LinkedRequest(q), [Next]_vars
    PROVE  \A r \in RT : LinkedRow(r)'
<1>1. RefreshFamsKept /\ AccessFamsKept
  BY RowsStep
<1>row. \A r \in RT : rt[r] \in RefreshRow
  BY DEF TypeOK
<1>2. ASSUME NEW r \in RT, LinkedRow(r), rt[r].fam # NULL,
             rt'[r].parent \in {rt[r].parent, NULL}, rt'[r].access \in {rt[r].access, NULL}
      PROVE  LinkedRow(r)'
  <2>1. rt[r].parent \in RT \cup {NULL} /\ rt[r].access \in AT \cup {NULL}
    BY <1>row DEF RefreshRow
  <2>2. rt'[r].parent # NULL => rt[rt'[r].parent].fam = rt[r].fam /\ rt'[r].parent \in RT
    BY <1>2, <2>1 DEF LinkedRow
  <2>3. rt'[r].access # NULL => at[rt'[r].access].fam = rt[r].fam /\ rt'[r].access \in AT
    BY <1>2, <2>1 DEF LinkedRow
  <2> QED
    BY <1>1, <1>2, <2>2, <2>3 DEF LinkedRow, RefreshFamsKept, AccessFamsKept
<1>3. CASE LinksDrop
  <2> SUFFICES ASSUME NEW r \in RT PROVE LinkedRow(r)'
    OBVIOUS
  <2>1. CASE rt[r].fam # NULL
    BY <1>2, <1>3, <2>1 DEF LinksDrop
  <2>2. CASE rt[r].fam = NULL
    <3>1. rt[r].parent = NULL /\ rt[r].access = NULL
      BY <1>row, <2>2, NullAssumption DEF RefreshRow
    <3> QED
      BY <1>3, <3>1 DEF LinksDrop, LinkedRow
  <2> QED
    BY <2>1, <2>2
<1>4. CASE \E q \in Req : CreateRefreshToken(q) /\ ForeignKeysHold(q)
  <2>1. PICK q \in Req : CreateRefreshToken(q) /\ ForeignKeysHold(q)
    BY <1>4
  <2>2. PICK s \in Unborn(rt) : rt' = [rt EXCEPT ![s] = NewRefreshRow(q)]
    BY <2>1 DEF CreateRefreshToken
  <2>3. \A r \in RT : rt'[r] = IF r = s THEN NewRefreshRow(q) ELSE rt[r]
    BY <2>2 DEF TypeOK
  <2>4. /\ s \in RT /\ rt[s].st = "unborn" /\ req[q].pc = "mint_refresh"
        /\ req[q].fam \in Fam /\ req[q].access \in AT /\ req[q].root \in RT \cup {NULL}
        /\ UNCHANGED at
    BY <2>1, <2>2 DEF Unborn, TypeOK, Request, RequestRow, CreateRefreshToken
  <2>5. /\ at[req[q].access].fam = req[q].fam
        /\ req[q].root # NULL => rt[req[q].root].fam = req[q].fam /\ req[q].root # s
    BY <2>1, <2>4 DEF LinkedRequest, ForeignKeysHold, Present
  <2>6. LinkedRow(s)'
    BY <2>3, <2>4, <2>5 DEF LinkedRow, NewRefreshRow
  <2>7. ASSUME NEW r \in RT, r # s PROVE LinkedRow(r)'
    <3>1. CASE rt[r].fam # NULL
      BY <1>2, <2>3, <2>7, <3>1
    <3>2. CASE rt[r].fam = NULL
      <4>1. rt[r].parent = NULL /\ rt[r].access = NULL
        BY <1>row, <3>2, NullAssumption DEF RefreshRow
      <4> QED
        BY <2>3, <2>7, <4>1 DEF LinkedRow
    <3> QED
      BY <3>1, <3>2
  <2> QED
    BY <2>6, <2>7
<1> QED
  BY <1>3, <1>4, RowsStep

\* A request whose locals do not change keeps pointing into its family.
LEMMA LinkedRequestKept ==
    ASSUME TypeOK, NEW q \in Req, LinkedRequest(q), RefreshFamsKept, AccessFamsKept,
           req'[q] = req[q] \/ req'[q] = [req[q] EXCEPT !.raced = TRUE]
    PROVE  LinkedRequest(q)'
<1>1. req[q] \in Request
  BY DEF TypeOK
<1>2. /\ req'[q].pc = req[q].pc /\ req'[q].fam = req[q].fam /\ req'[q].root = req[q].root
      /\ req'[q].access = req[q].access /\ req'[q].cur = req[q].cur
      /\ req'[q].seen = req[q].seen /\ req'[q].queue = req[q].queue
      /\ req'[q].doomed = req[q].doomed
  BY <1>1 DEF Request, RequestRow
<1>3. /\ req[q].pc \in PendingPC \cup CascadePC => req[q].fam \in Fam
      /\ req[q].root \in RT \cup {NULL}
      /\ req[q].seen \subseteq RT /\ req[q].queue \subseteq RT /\ req[q].doomed \subseteq AT
      /\ req[q].pc = "mint_refresh" => req[q].access \in AT
      /\ req[q].pc = "children" => req[q].cur \in RT
  BY <1>1 DEF Request, RequestRow
<1> QED
  BY <1>2, <1>3, NullAssumption DEF LinkedRequest, RefreshFamsKept, AccessFamsKept

\* A request at rest, or about to answer, points at nothing.
LEMMA AtRestIsLinked ==
    ASSUME NEW q \in Req, req'[q].pc \in {"idle", "respond", "code_found"},
           req'[q].pc = "code_found" => req'[q].root = NULL
    PROVE  LinkedRequest(q)'
BY DEF LinkedRequest

\* The request that starts to mint: its parent row, if any, is of the family.
LEMMA MintForLinked ==
    ASSUME TypeOK, NEW q \in Req, NEW f \in Fam, MintFor(q, f), RefreshFamsKept,
           req[q].root # NULL => rt[req[q].root].fam = f
    PROVE  LinkedRequest(q)'
<1>1. req[q] \in Request /\ req[q].root \in RT \cup {NULL}
  BY DEF TypeOK, Request, RequestRow
<1>2. req'[q] = [req[q] EXCEPT !.pc = "mint_access", !.fam = f]
  BY DEF MintFor
<1>3. /\ req'[q].pc = "mint_access" /\ req'[q].fam = f
      /\ req'[q].root = req[q].root
  BY <1>1, <1>2 DEF Request, RequestRow
<1> QED
  BY <1>1, <1>3, NullAssumption DEF LinkedRequest, RefreshFamsKept

\* The request that starts a cascade at a row of the family.
LEMMA CascadeFromLinked ==
    ASSUME TypeOK, NEW q \in Req, NEW f \in Fam, NEW r \in RT, rt[r].fam = f,
           Become(q, CascadeFrom(q, r, f)), RefreshFamsKept
    PROVE  LinkedRequest(q)'
<1>1. req'[q] = CascadeFrom(q, r, f)
  BY DEF Become, TypeOK
<1>2. /\ req'[q].pc = "walk" /\ req'[q].fam = f /\ req'[q].root = r
      /\ req'[q].seen = {} /\ req'[q].queue = {r} /\ req'[q].doomed = {}
  BY <1>1 DEF CascadeFrom, IdleRequest
<1> QED
  BY <1>2, NullAssumption DEF LinkedRequest, RefreshFamsKept

LEMMA LinkedRequestsStep ==
    ASSUME TypeOK, \A r \in RT : LinkedRow(r), \A q \in Req : LinkedRequest(q), [Next]_vars
    PROVE  \A q \in Req : LinkedRequest(q)'
<1> DEFINE Goal == \A q \in Req : LinkedRequest(q)'
           Others(q) == \A p \in Req \ {q} : \/ req'[p] = req[p]
                                            \/ req'[p] = [req[p] EXCEPT !.raced = TRUE]
<1>fams. RefreshFamsKept /\ AccessFamsKept
  BY RowsStep
<1>req. \A q \in Req : req[q] \in Request
  BY DEF TypeOK
<1>type. \A q \in Req :
           /\ req[q].pc \in PendingPC \cup CascadePC => req[q].fam \in Fam
           /\ req[q].pc \in {"rt_found", "rt_allowed"} \cup CascadePC => req[q].root \in RT
           /\ req[q].root \in RT \cup {NULL} /\ req[q].cur \in RT \cup {NULL}
           /\ req[q].seen \subseteq RT /\ req[q].queue \subseteq RT
           /\ req[q].doomed \subseteq AT
           /\ req[q].pc \in {"idle", "code_found"} => req[q].root = NULL
           /\ req[q].pc = "children" => req[q].cur \in RT
  <2> SUFFICES ASSUME NEW q \in Req
               PROVE  /\ req[q].pc \in PendingPC \cup CascadePC => req[q].fam \in Fam
                      /\ req[q].pc \in {"rt_found", "rt_allowed"} \cup CascadePC
                           => req[q].root \in RT
                      /\ req[q].root \in RT \cup {NULL} /\ req[q].cur \in RT \cup {NULL}
                      /\ req[q].seen \subseteq RT /\ req[q].queue \subseteq RT
                      /\ req[q].doomed \subseteq AT
                      /\ req[q].pc \in {"idle", "code_found"} => req[q].root = NULL
                      /\ req[q].pc = "children" => req[q].cur \in RT
    OBVIOUS
  <2> QED
    BY <1>req DEF Request, RequestRow
<1>rows. \A r \in RT : rt[r] \in RefreshRow
  BY DEF TypeOK
<1>1. ASSUME UNCHANGED req PROVE Goal
  BY <1>1, <1>fams, LinkedRequestKept
<1>2. ASSUME NEW q \in Req, Others(q), LinkedRequest(q)' PROVE Goal
  BY <1>2, <1>fams, LinkedRequestKept
<1>3. ASSUME NEW q \in Req, NEW o, Become(q, o) PROVE Others(q) /\ req'[q] = o
  BY <1>3 DEF Become, TypeOK
<1>4. ASSUME NEW q \in Req, NEW f, MintFor(q, f) PROVE Others(q)
  BY <1>4 DEF MintFor
<1> HIDE DEF Others
<1>5. ASSUME NEW q \in Req, Become(q, IdleRequest) PROVE Goal
  <2>1. LinkedRequest(q)'
    BY <1>3, <1>5, AtRestIsLinked DEF IdleRequest
  <2> QED
    BY <1>2, <1>3, <1>5, <2>1
<1>6. ASSUME NEW q \in Req, MarkUsed(q) PROVE Goal
  <2>1. CASE ~UsedAtIsNull(req[q].fam)
    BY <1>5, <1>6, <2>1 DEF MarkUsed
  <2>2. CASE UsedAtIsNull(req[q].fam)
    <3>1. LinkedRequest(q)'
      BY <1>6, <2>2, <1>type, <1>fams, MintForLinked DEF MarkUsed
    <3> QED
      BY <1>6, <2>2, <3>1, <1>2, <1>4 DEF MarkUsed
  <2> QED
    BY <2>1, <2>2
<1>7. ASSUME NEW q \in Req, NEW f \in Fam, ExchangeClientCredentials(q, f) PROVE Goal
  <2>1. LinkedRequest(q)'
    BY <1>7, <1>type, <1>fams, MintForLinked DEF ExchangeClientCredentials
  <2> QED
    BY <1>7, <2>1, <1>2, <1>4 DEF ExchangeClientCredentials
<1>8. ASSUME NEW q \in Req, NEW f \in Fam, LookupCode(q, f) PROVE Goal
  <2>1. /\ [req[q] EXCEPT !.pc = "code_found", !.fam = f].pc = "code_found"
        /\ [req[q] EXCEPT !.pc = "code_found", !.fam = f].root = NULL
    BY <1>8, <1>req, <1>type DEF LookupCode, Request, RequestRow
  <2>2. Others(q) /\ req'[q].pc = "code_found" /\ req'[q].root = NULL
    BY <1>8, <1>3, <2>1 DEF LookupCode
  <2> QED
    BY <2>2, <1>2, AtRestIsLinked
<1>9. ASSUME NEW q \in Req, NEW f \in Fam, NEW r \in RT, rt[r].fam = f,
             Become(q, CascadeFrom(q, r, f))
      PROVE  Goal
  <2>1. LinkedRequest(q)'
    BY <1>9, <1>fams, CascadeFromLinked
  <2> QED
    BY <1>9, <2>1, <1>2, <1>3
<1>10. ASSUME NEW q \in Req, NEW r \in RT, LookupRefreshToken(q, r) PROVE Goal
  <2>1. rt[r].fam \in Fam
    BY <1>10, <1>rows DEF LookupRefreshToken, Live, RefreshRow
  <2>2. CASE Become(q, CascadeFrom(q, r, rt[r].fam))
    BY <2>1, <2>2, <1>9
  <2>3. CASE Become(q, [req[q] EXCEPT !.pc = "rt_found", !.fam = rt[r].fam, !.root = r])
    <3> DEFINE o == [req[q] EXCEPT !.pc = "rt_found", !.fam = rt[r].fam, !.root = r]
    <3>1. o.pc = "rt_found" /\ o.fam = rt[r].fam /\ o.root = r
      BY <1>req DEF Request, RequestRow
    <3>2. Others(q) /\ req'[q] = o
      BY <2>3, <1>3
    <3> HIDE DEF o
    <3>3. rt'[r].fam = rt[r].fam
      BY <1>fams, <2>1, NullAssumption DEF RefreshFamsKept
    <3>4. LinkedRequest(q)'
      BY <3>1, <3>2, <3>3 DEF LinkedRequest
    <3> QED
      BY <3>2, <3>4, <1>2
  <2> QED
    BY <1>10, <2>2, <2>3 DEF LookupRefreshToken
<1>11. ASSUME NEW q \in Req, CheckSubject(q) PROVE Goal
  <2>1. /\ req[q].root \in RT /\ req[q].fam \in Fam
        /\ rt[req[q].root].fam = req[q].fam
    BY <1>11, <1>type, NullAssumption DEF CheckSubject, LinkedRequest
  <2>2. CASE Become(q, CascadeFrom(q, req[q].root, req[q].fam))
    BY <2>1, <2>2, <1>9
  <2>3. CASE Become(q, [req[q] EXCEPT !.pc = "rt_allowed"])
    <3> DEFINE o == [req[q] EXCEPT !.pc = "rt_allowed"]
    <3>1. o.pc = "rt_allowed" /\ o.fam = req[q].fam /\ o.root = req[q].root
      BY <1>req DEF Request, RequestRow
    <3>2. Others(q) /\ req'[q] = o
      BY <2>3, <1>3
    <3> HIDE DEF o
    <3>3. rt'[req[q].root].fam = req[q].fam
      BY <1>11, <2>1 DEF CheckSubject
    <3>4. LinkedRequest(q)'
      BY <3>1, <3>2, <3>3 DEF LinkedRequest
    <3> QED
      BY <3>2, <3>4, <1>2
  <2> QED
    BY <1>11, <2>2, <2>3 DEF CheckSubject
<1>12. ASSUME NEW q \in Req, RevokePresented(q) PROVE Goal
  <2>1. /\ req[q].root \in RT /\ req[q].fam \in Fam
        /\ rt[req[q].root].fam = req[q].fam
    BY <1>12, <1>type, NullAssumption DEF RevokePresented, LinkedRequest
  <2>2. CASE Become(q, CascadeFrom(q, req[q].root, req[q].fam))
    BY <2>1, <2>2, <1>9
  <2>3. CASE MintFor(q, req[q].fam)
    <3>1. LinkedRequest(q)'
      BY <2>1, <2>3, <1>fams, MintForLinked
    <3> QED
      BY <2>3, <3>1, <1>2, <1>4
  <2> QED
    BY <1>12, <2>2, <2>3 DEF RevokePresented
<1>13. ASSUME NEW q \in Req, CreateAccessToken(q) PROVE Goal
  <2>1. PICK a \in AT : /\ at' = [at EXCEPT ![a] = [st |-> "live", fam |-> req[q].fam]]
                        /\ Become(q, [req[q] EXCEPT !.pc = "mint_refresh", !.access = a])
    BY <1>13 DEF CreateAccessToken, Unborn, TypeOK
  <2> DEFINE o == [req[q] EXCEPT !.pc = "mint_refresh", !.access = a]
  <2>2. o.pc = "mint_refresh" /\ o.fam = req[q].fam /\ o.root = req[q].root /\ o.access = a
    BY <1>req DEF Request, RequestRow
  <2>3. Others(q) /\ req'[q] = o
    BY <2>1, <1>3
  <2> HIDE DEF o
  <2>4. at'[a].fam = req[q].fam
    BY <2>1 DEF TypeOK
  <2>5. req[q].pc = "mint_access" /\ UNCHANGED rt
    BY <1>13 DEF CreateAccessToken
  <2>6. LinkedRequest(q)'
    BY <2>2, <2>3, <2>4, <2>5 DEF LinkedRequest
  <2> QED
    BY <2>3, <2>6, <1>2
<1>14. ASSUME NEW q \in Req, CreateRefreshToken(q) PROVE Goal
  <2>1. CASE Become(q, IdleRequest)
    BY <2>1, <1>5
  <2>2. CASE \E r \in RT : Become(q, [req[q] EXCEPT !.pc = "respond", !.refresh = r])
    <3>1. PICK r \in RT : Become(q, [req[q] EXCEPT !.pc = "respond", !.refresh = r])
      BY <2>2
    <3>2. [req[q] EXCEPT !.pc = "respond", !.refresh = r].pc = "respond"
      BY <1>req DEF Request, RequestRow
    <3>3. Others(q) /\ req'[q].pc = "respond"
      BY <3>1, <3>2, <1>3
    <3> QED
      BY <3>3, <1>2, AtRestIsLinked
  <2> QED
    BY <1>14, <2>1, <2>2 DEF CreateRefreshToken, Unborn, TypeOK
<1>15. ASSUME NEW q \in Req, Respond(q) \/ Abandon(q) \/ ExpireAccessTokensByIds(q) PROVE Goal
  BY <1>15, <1>5 DEF Respond, Abandon, ExpireAccessTokensByIds
<1>16. ASSUME NEW q \in Req, NEW o \in Request, Become(q, o),
              req[q].pc \in CascadePC, o.pc \in CascadePC,
              o.fam = req[q].fam, o.root = req[q].root,
              o.pc = "children" => rt[o.cur].fam = o.fam /\ o.cur \in RT,
              \A r \in o.seen \cup o.queue : rt[r].fam = o.fam,
              \A a \in o.doomed : at[a].fam = o.fam
       PROVE  Goal
  <2>1. Others(q) /\ req'[q] = o
    BY <1>16, <1>3
  <2>2. /\ o.fam \in Fam /\ o.root \in RT /\ rt[o.root].fam = o.fam
        /\ o.seen \subseteq RT /\ o.queue \subseteq RT /\ o.doomed \subseteq AT
    <3>1. o.seen \subseteq RT /\ o.queue \subseteq RT /\ o.doomed \subseteq AT
      BY <1>16 DEF Request, RequestRow
    <3> QED
      BY <3>1, <1>16, <1>type, NullAssumption DEF LinkedRequest
  <2>3. /\ rt'[o.root].fam = o.fam
        /\ o.pc = "children" => rt'[o.cur].fam = o.fam
        /\ \A r \in o.seen \cup o.queue : rt'[r].fam = o.fam
        /\ \A a \in o.doomed : at'[a].fam = o.fam
    BY <1>16, <1>fams, <2>2, NullAssumption DEF RefreshFamsKept, AccessFamsKept
  <2>4. LinkedRequest(q)'
    BY <1>16, <2>1, <2>3 DEF LinkedRequest
  <2> QED
    BY <2>1, <2>4, <1>2
<1>17. ASSUME NEW q \in Req, req[q].pc \in CascadePC
       PROVE  /\ req[q].fam \in Fam /\ req[q].root \in RT
              /\ rt[req[q].root].fam = req[q].fam
              /\ \A r \in req[q].seen \cup req[q].queue : rt[r].fam = req[q].fam
              /\ \A a \in req[q].doomed : at[a].fam = req[q].fam
  BY <1>17, <1>type, NullAssumption DEF LinkedRequest
<1>18. ASSUME NEW c \in RT, rt[c].fam \in Fam
       PROVE  \A r \in Parents(c) \cup Children(c) : r \in RT /\ rt[r].fam = rt[c].fam
  <2>1. \A r \in Parents(c) : r \in RT /\ rt[r].fam = rt[c].fam
    BY <1>rows DEF Parents, LinkedRow, RefreshRow
  <2>2. \A r \in Children(c) : r \in RT /\ rt[r].fam = rt[c].fam
    BY NullAssumption DEF Children, LinkedRow
  <2> QED
    BY <2>1, <2>2
<1>19. ASSUME NEW q \in Req, WalkParent(q) PROVE Goal
  <2>1. PICK c \in req[q].queue :
          \/ Become(q, [req[q] EXCEPT !.queue = @ \ {c}])
          \/ LET seen == req[q].seen \cup {c} IN
             Become(q, [req[q] EXCEPT !.pc = "children", !.cur = c, !.seen = seen,
                         !.queue = (@ \ {c}) \cup (Parents(c) \ seen)])
    BY <1>19 DEF WalkParent
  <2>2. req[q].pc = "walk" /\ c \in RT /\ rt[c].fam = req[q].fam /\ req[q].fam \in Fam
    BY <1>19, <1>17, <1>type, <2>1 DEF WalkParent
  <2>3. CASE Become(q, [req[q] EXCEPT !.queue = @ \ {c}])
    <3> DEFINE o == [req[q] EXCEPT !.queue = @ \ {c}]
    <3>1. /\ o \in Request /\ o.pc = "walk" /\ o.fam = req[q].fam /\ o.root = req[q].root
          /\ o.seen = req[q].seen /\ o.queue \subseteq req[q].queue
          /\ o.doomed = req[q].doomed
      BY <1>req, <2>2 DEF Request, RequestRow
    <3> HIDE DEF o
    <3> QED
      BY <1>16, <1>17, <2>2, <2>3, <3>1 DEF o
  <2>4. CASE Become(q, [req[q] EXCEPT !.pc = "children", !.cur = c,
                          !.seen = req[q].seen \cup {c},
                          !.queue = (@ \ {c}) \cup (Parents(c) \ (req[q].seen \cup {c}))])
    <3> DEFINE o == [req[q] EXCEPT !.pc = "children", !.cur = c,
                          !.seen = req[q].seen \cup {c},
                          !.queue = (@ \ {c}) \cup (Parents(c) \ (req[q].seen \cup {c}))]
    <3>0. \A r \in Parents(c) : r \in RT /\ rt[r].fam = req[q].fam
      BY <1>18, <2>2
    <3>1. /\ o \in Request /\ o.pc = "children" /\ o.fam = req[q].fam
          /\ o.root = req[q].root /\ o.cur = c
          /\ o.seen = req[q].seen \cup {c} /\ o.queue \subseteq req[q].queue \cup Parents(c)
          /\ o.doomed = req[q].doomed
      BY <1>req, <2>2, <3>0 DEF Request, RequestRow
    <3> HIDE DEF o
    <3>2. Become(q, o)
      BY <2>4 DEF o
    <3>3. \A r \in o.seen \cup o.queue : rt[r].fam = o.fam
      BY <1>17, <2>2, <3>0, <3>1
    <3> QED
      BY <1>16, <1>17, <2>2, <3>1, <3>2, <3>3
  <2> QED
    BY <2>1, <2>3, <2>4
<1>20. ASSUME NEW q \in Req, WalkChildren(q) PROVE Goal
  <2> DEFINE o == [req[q] EXCEPT !.pc = "walk", !.cur = NULL,
                       !.queue = @ \cup (Children(req[q].cur) \ req[q].seen)]
  <2>1. /\ req[q].pc = "children" /\ req[q].cur \in RT /\ req[q].fam \in Fam
        /\ rt[req[q].cur].fam = req[q].fam
    BY <1>20, <1>type DEF WalkChildren, LinkedRequest
  <2>2. \A r \in Children(req[q].cur) : r \in RT /\ rt[r].fam = req[q].fam
    BY <1>18, <2>1
  <2>3. /\ o \in Request /\ o.pc = "walk" /\ o.fam = req[q].fam /\ o.root = req[q].root
        /\ o.seen = req[q].seen /\ o.queue \subseteq req[q].queue \cup Children(req[q].cur)
        /\ o.doomed = req[q].doomed
    BY <1>req, <2>1, <2>2 DEF Request, RequestRow
  <2>4. Become(q, o)
    BY <1>20 DEF WalkChildren
  <2> HIDE DEF o
  <2>5. \A r \in o.seen \cup o.queue : rt[r].fam = o.fam
    BY <1>17, <2>1, <2>2, <2>3
  <2> QED
    BY <1>16, <1>17, <2>1, <2>3, <2>4, <2>5
<1>21. ASSUME NEW q \in Req, RevokeFamily(q) PROVE Goal
  <2> DEFINE o == [req[q] EXCEPT !.sweep = "list", !.seen = {}, !.queue = {req[q].root}]
  <2>1. req[q].pc = "walk" /\ Become(q, o)
    BY <1>21 DEF RevokeFamily, WalkDone
  <2>2. /\ o \in Request /\ o.pc = "walk" /\ o.fam = req[q].fam /\ o.root = req[q].root
        /\ o.seen = {} /\ o.queue = {req[q].root} /\ o.doomed = req[q].doomed
    BY <1>req, <1>17, <2>1 DEF Request, RequestRow
  <2> HIDE DEF o
  <2> QED
    BY <1>16, <1>17, <2>1, <2>2
<1>22. ASSUME NEW q \in Req, ListFamilyAccessTokenIds(q) PROVE Goal
  <2> DEFINE ids == BoundAccess(req[q].seen)
             o == [req[q] EXCEPT !.pc = "expire_access", !.doomed = ids]
  <2>1. req[q].pc = "walk" /\ (Become(q, o) \/ Become(q, IdleRequest))
    BY <1>22 DEF ListFamilyAccessTokenIds, WalkDone
  <2>2. \A a \in ids : a \in AT /\ at[a].fam = req[q].fam
    BY <1>17, <1>type, <1>rows, <2>1 DEF BoundAccess, LinkedRow, RefreshRow
  <2> HIDE DEF ids
  <2>3. /\ o \in Request /\ o.pc = "expire_access" /\ o.fam = req[q].fam
        /\ o.root = req[q].root /\ o.seen = req[q].seen /\ o.queue = req[q].queue
        /\ o.doomed = ids
    BY <1>req, <2>1, <2>2 DEF Request, RequestRow
  <2> HIDE DEF o
  <2>4. CASE Become(q, o)
    BY <1>16, <1>17, <2>1, <2>2, <2>3, <2>4
  <2> QED
    BY <1>5, <2>1, <2>4
<1>23. ASSUME Environment \/ Housekeeping \/ UNCHANGED vars PROVE Goal
  BY <1>23, <1>1 DEF Environment, Authorize, SetAccess, CodeLapses, RevokeTokenByValue,
     RefreshLapses, RevokeAccessByValue, AccessLapses, Housekeeping, DeleteTokenByValue,
     Cleanup, DeleteExpiredAccessTokens, DeleteExpired, DeleteRevoked, DeleteUsedOrExpired,
     vars
<1> HIDE DEF Goal
<1>24. Goal
  BY <1>6, <1>7, <1>8, <1>10, <1>11, <1>12, <1>13, <1>14, <1>15, <1>19, <1>20, <1>21,
     <1>22, <1>23 DEF Next, Requests, RequestStep
<1> QED
  BY <1>24 DEF Goal

-----------------------------------------------------------------------------
(* The inductive invariant.                                                *)

LEMMA IInvInit == Init => IInv
<1> SUFFICES ASSUME Init PROVE IInv
  OBVIOUS
<1>1. TypeOK
  BY TypeInit
<1>2. \A q \in Req : req[q].pc = "idle"
  BY DEF Init, IdleRequest
<1>3. \A r \in RT : rt[r].st = "unborn" /\ rt[r].fam = NULL /\ rt[r].parent = NULL
                    /\ rt[r].access = NULL
  BY DEF Init
<1>4. SingleHolder
  BY <1>2, <1>3, NullAssumption DEF SingleHolder, Live, Minting
<1>5. LinksStayInFamily /\ CascadeStaysInFamily
  BY <1>2, <1>3 DEF LinksStayInFamily, CascadeStaysInFamily
<1> QED
  BY <1>1, <1>4, <1>5 DEF IInv

LEMMA IInvStep == IInv /\ [Next]_vars => IInv'
<1> SUFFICES ASSUME IInv, [Next]_vars PROVE IInv'
  OBVIOUS
<1>1. /\ TypeOK /\ SingleHolder /\ LinksStayInFamily
      /\ (\A r \in RT : LinkedRow(r)) /\ (\A q \in Req : LinkedRequest(q))
  BY LinkedParts DEF IInv
<1>2. TypeOK'
  BY <1>1, TypeStep
<1>3. SingleHolder'
  BY <1>1, SingleHolderStep
<1>4. (\A r \in RT : LinkedRow(r)') /\ (\A q \in Req : LinkedRequest(q)')
  BY <1>1, LinkedRowsStep, LinkedRequestsStep
<1>5. LinksStayInFamily'
  BY <1>4 DEF LinksStayInFamily, LinkedRow, LinkedRequest
<1>6. CascadeStaysInFamily'
  BY <1>4 DEF CascadeStaysInFamily, LinkedRequest
<1> QED
  BY <1>2, <1>3, <1>5, <1>6 DEF IInv

LEMMA Invariance == Spec => []IInv
BY IInvInit, IInvStep, PTL DEF Spec

\* The right to continue a grant has one holder at a time, whatever the number
\* of concurrent code exchanges, rotations, cascades and cleanups: the
\* conditional UPDATEs of used_at and revoked_at are enough.
THEOREM SingleHolderHolds == Spec => []SingleHolder
<1>1. IInv => SingleHolder
  BY DEF IInv
<1> QED
  BY <1>1, Invariance, PTL

\* A reuse cascade never revokes a row of another grant, whatever is inserted,
\* revoked or deleted while it walks the rotated_from_id links.
THEOREM CascadeStays == Spec => []CascadeStaysInFamily
<1>1. IInv => CascadeStaysInFamily
  BY DEF IInv
<1> QED
  BY <1>1, Invariance, PTL
-----------------------------------------------------------------------------
(* Refinement: every step of the tables is a step of GrantFamily.          *)

Mints(f) == \E q \in Req : Minting(q, f)

Lives(f) == \E r \in RT : Live(r) /\ rt[r].fam = f

\* What a family's stage may do in a step that takes the right to mint from
\* no one and gives it to no one.
StaysOrEnds(f) ==
    \/ Stage(f)' = Stage(f)
    \/ Stage(f) \in {"code", "minting", "session"} /\ Stage(f)' = "over"

\* The stage of f goes on, and no other one changes.
Advances(f, from, to) ==
    /\ Stage(f) = from /\ Stage(f)' = to
    /\ \A g \in Fam \ {f} : Stage(g)' = Stage(g)

AbstractStep == [Grant!GrantNext]_[f \in Fam |-> Stage(f)]

LEMMA QuietIsAbstract ==
    ASSUME \A f \in Fam : StaysOrEnds(f)
    PROVE  AbstractStep
<1> DEFINE S == {f \in Fam : Stage(f)' # Stage(f)}
<1>1. \A f \in S : [g \in Fam |-> Stage(g)][f] \in {"code", "minting", "session"}
  BY DEF StaysOrEnds
<1>2. [f \in Fam |-> Stage(f)']
        = [f \in Fam |-> IF f \in S THEN "over" ELSE [g \in Fam |-> Stage(g)][f]]
  BY DEF StaysOrEnds
<1>3. Grant!End(S)
  BY <1>1, <1>2 DEF Grant!End
<1>4. S \in SUBSET Fam
  OBVIOUS
<1> HIDE DEF S
<1> QED
  BY <1>3, <1>4 DEF AbstractStep, Grant!GrantNext

LEMMA AdvanceIsAbstract ==
    ASSUME NEW f \in Fam,
           \/ Advances(f, "none", "code")
           \/ Advances(f, "none", "minting")
           \/ Advances(f, "code", "minting")
           \/ Advances(f, "minting", "session")
           \/ Advances(f, "session", "minting")
    PROVE  AbstractStep
<1> DEFINE now == [g \in Fam |-> Stage(g)]
           next == [g \in Fam |-> Stage(g)']
<1>1. ASSUME NEW from, NEW to, Advances(f, from, to)
      PROVE  now[f] = from /\ next = [now EXCEPT ![f] = to]
  BY <1>1 DEF Advances
<1>2. CASE Advances(f, "none", "code")
  <2>1. Grant!Issue(f)
    BY <1>1, <1>2 DEF Grant!Issue, Grant!Move
  <2> QED
    BY <2>1 DEF AbstractStep, Grant!GrantNext
<1>3. CASE Advances(f, "none", "minting")
  <2>1. Grant!Open(f)
    BY <1>1, <1>3 DEF Grant!Open, Grant!Move
  <2> QED
    BY <2>1 DEF AbstractStep, Grant!GrantNext
<1>4. CASE Advances(f, "code", "minting")
  <2>1. Grant!Redeem(f)
    BY <1>1, <1>4 DEF Grant!Redeem, Grant!Move
  <2> QED
    BY <2>1 DEF AbstractStep, Grant!GrantNext
<1>5. CASE Advances(f, "minting", "session")
  <2>1. Grant!Establish(f)
    BY <1>1, <1>5 DEF Grant!Establish, Grant!Move
  <2> QED
    BY <2>1 DEF AbstractStep, Grant!GrantNext
<1>6. CASE Advances(f, "session", "minting")
  <2>1. Grant!Rotate(f)
    BY <1>1, <1>6 DEF Grant!Rotate, Grant!Move
  <2> QED
    BY <2>1 DEF AbstractStep, Grant!GrantNext
<1> QED
  BY <1>2, <1>3, <1>4, <1>5, <1>6

\* A family of which no row became live, no request started minting and the
\* code only lapsed or was deleted.
LEMMA QuietFamily ==
    ASSUME SingleHolder, NEW f \in Fam,
           Mints(f)' => Mints(f), Lives(f)' => Lives(f),
           \/ codes'[f] = codes[f]
           \/ codes[f] = "unused" /\ codes'[f] = "expired"
           \/ codes[f] \in {"used", "expired"} /\ codes'[f] = "deleted"
    PROVE  StaysOrEnds(f)
<1>stage. /\ Stage(f) = IF Mints(f) THEN "minting" ELSE IF Lives(f) THEN "session"
                        ELSE IF codes[f] \in {"unused", "expired"} THEN "code"
                        ELSE IF codes[f] = "none" THEN "none" ELSE "over"
          /\ Stage(f)' = IF Mints(f)' THEN "minting" ELSE IF Lives(f)' THEN "session"
                        ELSE IF codes'[f] \in {"unused", "expired"} THEN "code"
                        ELSE IF codes'[f] = "none" THEN "none" ELSE "over"
  BY DEF Stage, Mints, Lives
<1>1. Mints(f) => ~Lives(f) /\ codes[f] \notin {"none", "unused", "expired"}
  BY DEF SingleHolder, Mints, Lives
<1>2. Lives(f) => codes[f] \notin {"none", "unused", "expired"}
  BY DEF SingleHolder, Lives
<1> QED
  BY <1>stage, <1>1, <1>2 DEF StaysOrEnds

\* A step that starts no minting, revives no row and lets codes only lapse or
\* be deleted ends some grants, or none.
LEMMA QuietStep ==
    ASSUME SingleHolder,
           \A p \in Req, g \in Fam : Minting(p, g)' => Minting(p, g),
           \A r \in RT : (Live(r)' => Live(r)) /\ rt'[r].fam = rt[r].fam,
           \A f \in Fam : \/ codes'[f] = codes[f]
                          \/ codes[f] = "unused" /\ codes'[f] = "expired"
                          \/ codes[f] \in {"used", "expired"} /\ codes'[f] = "deleted"
    PROVE  AbstractStep
<1>1. \A f \in Fam : (Mints(f)' => Mints(f)) /\ (Lives(f)' => Lives(f))
  BY DEF Mints, Lives
<1> QED
  BY <1>1, QuietFamily, QuietIsAbstract

LEMMA SameStage ==
    ASSUME NEW f \in Fam, Mints(f)' <=> Mints(f), Lives(f)' <=> Lives(f), codes'[f] = codes[f]
    PROVE  Stage(f)' = Stage(f)
BY DEF Stage, Mints, Lives

LEMMA MintForMintsExactly ==
    ASSUME TypeOK, NEW q \in Req, NEW f \in Fam, MintFor(q, f), req[q].pc \notin MintPC
    PROVE  Mints(f)' /\ \A g \in Fam \ {f} : Mints(g)' <=> Mints(g)
<1>1. /\ req'[q].pc = "mint_access" /\ req'[q].fam = f
      /\ \A p \in Req \ {q} : req'[p].pc = req[p].pc /\ req'[p].fam = req[p].fam
  BY DEF MintFor, TypeOK, Request, RequestRow
<1> QED
  BY <1>1 DEF Mints, Minting

LEMMA RedeemIsAbstract ==
    ASSUME TypeOK, SingleHolder, NEW q \in Req, NEW f \in Fam,
           codes[f] \in {"none", "unused", "expired"}, req[q].pc \notin MintPC,
           NEW c, codes' = [codes EXCEPT ![f] = c], MintFor(q, f), UNCHANGED rt
    PROVE  AbstractStep
<1>1. Mints(f)' /\ \A g \in Fam \ {f} : Mints(g)' <=> Mints(g)
  BY MintForMintsExactly
<1>2. \A g \in Fam : Lives(g)' <=> Lives(g)
  BY DEF Lives, Live
<1>3. \A g \in Fam \ {f} : codes'[g] = codes[g]
  BY DEF TypeOK
<1>4. \A g \in Fam \ {f} : Stage(g)' = Stage(g)
  BY <1>1, <1>2, <1>3, SameStage
<1>5. Stage(f)' = "minting"
  BY <1>1 DEF Stage, Mints
<1>6. Stage(f) \in {"none", "code"}
  BY DEF SingleHolder, Stage
<1> QED
  BY <1>4, <1>5, <1>6, AdvanceIsAbstract DEF Advances

LEMMA RotateIsAbstract ==
    ASSUME TypeOK, SingleHolder, NEW q \in Req, NEW f \in Fam, NEW r \in RT,
           Live(r), rt[r].fam = f, rt' = [rt EXCEPT ![r].st = "revoked"],
           req[q].pc \notin MintPC, MintFor(q, f), UNCHANGED codes
    PROVE  AbstractStep
<1>1. Mints(f)' /\ \A g \in Fam \ {f} : Mints(g)' <=> Mints(g)
  BY MintForMintsExactly
<1>2. \A s \in RT : rt'[s].fam = rt[s].fam /\ (s # r => rt'[s] = rt[s])
  BY DEF TypeOK, RefreshRow
<1>3. \A g \in Fam \ {f} : Lives(g)' <=> Lives(g)
  BY <1>2 DEF Lives, Live
<1>4. \A g \in Fam \ {f} : Stage(g)' = Stage(g)
  BY <1>1, <1>3, SameStage
<1>5. Stage(f) = "session"
  BY DEF SingleHolder, Stage
<1>6. Stage(f)' = "minting"
  BY <1>1 DEF Stage, Mints
<1> QED
  BY <1>4, <1>5, <1>6, AdvanceIsAbstract DEF Advances

LEMMA EstablishIsAbstract ==
    ASSUME TypeOK, SingleHolder, NEW q \in Req, NEW f \in Fam, NEW r \in RT,
           Minting(q, f), rt[r].st = "unborn",
           NEW x, x.st = "live", x.fam = f, rt' = [rt EXCEPT ![r] = x],
           NEW o, Become(q, o), o.pc \notin MintPC, UNCHANGED codes
    PROVE  AbstractStep
<1>1. /\ req'[q] = o
      /\ \A p \in Req \ {q} : req'[p] = req[p]
  BY DEF Become, TypeOK
<1>2. ~Mints(f)' /\ \A g \in Fam \ {f} : Mints(g)' <=> Mints(g)
  BY <1>1 DEF Mints, Minting, SingleHolder
<1>3. rt'[r] = x /\ \A s \in RT \ {r} : rt'[s] = rt[s]
  BY DEF TypeOK
<1>4. Lives(f)' /\ \A g \in Fam \ {f} : Lives(g)' <=> Lives(g)
  BY <1>3 DEF Lives, Live
<1>5. \A g \in Fam \ {f} : Stage(g)' = Stage(g)
  BY <1>2, <1>4, SameStage
<1>6. Stage(f) = "minting"
  BY DEF Stage
<1>7. Stage(f)' = "session"
  BY <1>2, <1>4 DEF Stage, Mints, Lives
<1> QED
  BY <1>5, <1>6, <1>7, AdvanceIsAbstract DEF Advances

LEMMA AuthorizeIsAbstract ==
    ASSUME TypeOK, SingleHolder, NEW f \in Fam, Authorize(f)
    PROVE  AbstractStep
<1>1. \A g \in Fam : (Mints(g)' <=> Mints(g)) /\ (Lives(g)' <=> Lives(g))
  BY DEF Authorize, Mints, Minting, Lives, Live
<1>2. \A g \in Fam \ {f} : codes'[g] = codes[g]
  BY DEF Authorize, TypeOK
<1>3. \A g \in Fam \ {f} : Stage(g)' = Stage(g)
  BY <1>1, <1>2, SameStage
<1>4. codes[f] = "none" /\ codes'[f] = "unused" /\ ~Mints(f) /\ ~Lives(f)
  BY DEF Authorize, TypeOK, SingleHolder, Mints, Lives
<1>5. Stage(f) = "none"
  BY <1>4 DEF Stage, Mints, Lives
<1>6. Stage(f)' = "code"
  <2>1. ~Mints(f)' /\ ~Lives(f)'
    BY <1>1, <1>4
  <2> QED
    BY <2>1, <1>4 DEF Stage, Mints, Lives
<1> QED
  BY <1>3, <1>5, <1>6, AdvanceIsAbstract DEF Advances

LEMMA RefinementStep == IInv /\ [Next]_vars => AbstractStep
<1> SUFFICES ASSUME TypeOK, LinksStayInFamily, SingleHolder, [Next]_vars
             PROVE  AbstractStep
  BY DEF IInv
<1> DEFINE NoMint == \A p \in Req, g \in Fam : Minting(p, g)' => Minting(p, g)
<1>pcs. \A q \in Req : /\ req[q].pc \in PendingPC => req[q].fam \in Fam
                       /\ req[q].pc = "rt_allowed" => req[q].root \in RT
  BY DEF TypeOK, Request, RequestRow
(* The steps that hand the grant on, with those of the same statement that do not. *)
<1>1. ASSUME NEW q \in Req, MarkUsed(q) PROVE AbstractStep
  <2>1. CASE ~UsedAtIsNull(req[q].fam)
    <3>1. NoMint
      BY <1>1, <2>1, BecomeMints DEF MarkUsed, IdleRequest
    <3> QED
      BY <1>1, <2>1, <3>1, QuietStep DEF MarkUsed, Live
  <2>2. CASE UsedAtIsNull(req[q].fam)
    BY <1>1, <2>2, <1>pcs, RedeemIsAbstract DEF MarkUsed, UsedAtIsNull
  <2> QED
    BY <2>1, <2>2
<1>2. ASSUME NEW q \in Req, NEW f \in Fam, ExchangeClientCredentials(q, f) PROVE AbstractStep
  BY <1>2, RedeemIsAbstract DEF ExchangeClientCredentials
<1>3. ASSUME NEW q \in Req, RevokePresented(q) PROVE AbstractStep
  <2>1. rt[req[q].root].fam = req[q].fam /\ req[q].root \in RT /\ req[q].fam \in Fam
    BY <1>3, <1>pcs, NullAssumption DEF RevokePresented, LinksStayInFamily
  <2>2. CASE Live(req[q].root)
    BY <1>3, <2>1, <2>2, RotateIsAbstract DEF RevokePresented, RevokedAtIsNull
  <2>3. CASE ~Live(req[q].root)
    <3>1. NoMint
      BY <1>3, <2>3, BecomeMints DEF RevokePresented, RevokedAtIsNull, CascadeFrom, IdleRequest
    <3> QED
      BY <1>3, <2>3, <3>1, QuietStep DEF RevokePresented, RevokedAtIsNull, Live
  <2> QED
    BY <2>2, <2>3
<1>4. ASSUME NEW q \in Req, CreateRefreshToken(q) PROVE AbstractStep
  <2>1. CASE ~ForeignKeysHold(q)
    <3>1. NoMint
      BY <1>4, <2>1, BecomeMints DEF CreateRefreshToken, IdleRequest
    <3> QED
      BY <1>4, <2>1, <3>1, QuietStep DEF CreateRefreshToken, Live
  <2>2. CASE ForeignKeysHold(q)
    <3>1. PICK r \in RT : /\ rt[r].st = "unborn"
                          /\ rt' = [rt EXCEPT ![r] = NewRefreshRow(q)]
                          /\ Become(q, [req[q] EXCEPT !.pc = "respond", !.refresh = r])
      BY <1>4, <2>2 DEF CreateRefreshToken, Unborn, TypeOK
    <3>2. Minting(q, req[q].fam) /\ req[q].fam \in Fam
      BY <1>4, <1>pcs DEF CreateRefreshToken, Minting
    <3>3. NewRefreshRow(q).st = "live" /\ NewRefreshRow(q).fam = req[q].fam
      BY DEF NewRefreshRow
    <3>4. [req[q] EXCEPT !.pc = "respond", !.refresh = r].pc = "respond"
      BY DEF TypeOK, Request, RequestRow
    <3> HIDE DEF NoMint
    <3> QED
      BY <1>4, <3>1, <3>2, <3>3, <3>4, EstablishIsAbstract DEF CreateRefreshToken
  <2> QED
    BY <2>1, <2>2
<1>5. ASSUME NEW f \in Fam, Authorize(f) PROVE AbstractStep
  BY <1>5, AuthorizeIsAbstract
(* Every other step of a request leaves rows and codes alone, or revokes. *)
<1>6. ASSUME NEW q \in Req, NEW o, Become(q, o),
             o.pc \in MintPC => req[q].pc \in MintPC /\ o.fam = req[q].fam,
             UNCHANGED codes, UNCHANGED rt \/ \E S : RevokeRows(S)
      PROVE  AbstractStep
  <2>1. NoMint
    BY <1>6, BecomeMints
  <2>2. \A r \in RT : (Live(r)' => Live(r)) /\ rt'[r].fam = rt[r].fam
    BY <1>6, BulkShrinks DEF Live
  <2> QED
    BY <1>6, <2>1, <2>2, QuietStep
<1>7. ASSUME NEW q \in Req, CheckSubject(q) PROVE AbstractStep
  <2>1. [req[q] EXCEPT !.pc = "rt_allowed"].pc = "rt_allowed"
    BY DEF TypeOK, Request, RequestRow
  <2>2. CascadeFrom(q, req[q].root, req[q].fam).pc = "walk"
    BY DEF CascadeFrom, IdleRequest
  <2> QED
    BY <1>7, <2>1, <2>2, <1>6 DEF CheckSubject
<1>8. ASSUME NEW q \in Req, CreateAccessToken(q) PROVE AbstractStep
  <2>1. PICK a \in AT : Become(q, [req[q] EXCEPT !.pc = "mint_refresh", !.access = a])
    BY <1>8 DEF CreateAccessToken, Unborn, TypeOK
  <2>2. [req[q] EXCEPT !.pc = "mint_refresh", !.access = a].fam = req[q].fam
    BY DEF TypeOK, Request, RequestRow
  <2>3. req[q].pc \in MintPC /\ UNCHANGED <<codes, rt>>
    BY <1>8 DEF CreateAccessToken
  <2> HIDE DEF MintPC
  <2> QED
    BY <2>1, <2>2, <2>3, <1>6
<1>9. ASSUME NEW q \in Req, Respond(q) \/ Abandon(q) \/ ExpireAccessTokensByIds(q)
      PROVE  AbstractStep
  <2>1. Become(q, IdleRequest) /\ UNCHANGED <<codes, rt>> /\ IdleRequest.pc = "idle"
    BY <1>9 DEF Respond, Abandon, ExpireAccessTokensByIds, IdleRequest
  <2> QED
    BY <2>1, <1>6
<1>10. ASSUME NEW q \in Req, WalkParent(q) PROVE AbstractStep
  BY <1>10, <1>6 DEF WalkParent, TypeOK, Request, RequestRow
<1>11. ASSUME NEW q \in Req, WalkChildren(q) PROVE AbstractStep
  BY <1>11, <1>6 DEF WalkChildren, TypeOK, Request, RequestRow
<1>12. ASSUME NEW q \in Req, ListFamilyAccessTokenIds(q) PROVE AbstractStep
  BY <1>12, <1>6 DEF ListFamilyAccessTokenIds, IdleRequest, WalkDone, TypeOK, Request, RequestRow
<1>13. ASSUME NEW q \in Req, RevokeFamily(q) PROVE AbstractStep
  <2>1. [req[q] EXCEPT !.sweep = "list", !.seen = {}, !.queue = {req[q].root}].pc = "walk"
    BY <1>13 DEF RevokeFamily, WalkDone, TypeOK, Request, RequestRow
  <2> QED
    BY <1>13, <2>1, <1>6 DEF RevokeFamily
<1>14. ASSUME NEW q \in Req, NEW f \in Fam, LookupCode(q, f) PROVE AbstractStep
  BY <1>14, <1>6 DEF LookupCode, TypeOK, Request, RequestRow
<1>15. ASSUME NEW q \in Req, NEW r \in RT, LookupRefreshToken(q, r) PROVE AbstractStep
  BY <1>15, <1>6 DEF LookupRefreshToken, CascadeFrom, IdleRequest, TypeOK, Request, RequestRow
(* Administrators, cleanup and time move no request. *)
<1>16. ASSUME UNCHANGED req,
              \A r \in RT : (Live(r)' => Live(r)) /\ rt'[r].fam = rt[r].fam,
              \A f \in Fam : \/ codes'[f] = codes[f]
                             \/ codes[f] = "unused" /\ codes'[f] = "expired"
                             \/ codes[f] \in {"used", "expired"} /\ codes'[f] = "deleted"
       PROVE  AbstractStep
  BY <1>16, QuietStep DEF Minting
<1>17. ASSUME UNCHANGED <<rt, codes, req>> PROVE AbstractStep
  BY <1>17, <1>16 DEF Live
<1>18. ASSUME NEW f \in Fam, SetAccess(f) PROVE AbstractStep
  BY <1>18, <1>17 DEF SetAccess
<1>19. ASSUME NEW f \in Fam, CodeLapses(f) PROVE AbstractStep
  BY <1>19, <1>16 DEF CodeLapses, TypeOK, Live
<1>20. ASSUME NEW r \in RT, RevokeTokenByValue(r) PROVE AbstractStep
  BY <1>20, <1>16, BulkShrinks DEF RevokeTokenByValue
<1>21. ASSUME NEW r \in RT, RefreshLapses(r) PROVE AbstractStep
  <2>1. \A s \in RT : (Live(s)' => Live(s)) /\ rt'[s].fam = rt[s].fam
    BY <1>21 DEF RefreshLapses, Live, TypeOK, RefreshRow
  <2> QED
    BY <1>21, <2>1, <1>16 DEF RefreshLapses
<1>22. ASSUME NEW a \in AT, RevokeAccessByValue(a) \/ AccessLapses(a) PROVE AbstractStep
  BY <1>22, <1>17 DEF RevokeAccessByValue, AccessLapses
<1>23. ASSUME DeleteTokenByValue \/ DeleteExpiredAccessTokens \/ DeleteExpired \/ DeleteRevoked
       PROVE  AbstractStep
  <2>1. \A s \in RT : (Live(s)' => Live(s)) /\ rt'[s].fam = rt[s].fam
    BY <1>23, BulkShrinks
       DEF DeleteTokenByValue, DeleteExpiredAccessTokens, DeleteExpired, DeleteRevoked
  <2>2. UNCHANGED <<codes, req>>
    BY <1>23 DEF DeleteTokenByValue, DeleteExpiredAccessTokens, DeleteExpired, DeleteRevoked
  <2> QED
    BY <2>1, <2>2, <1>16
<1>24. ASSUME DeleteUsedOrExpired PROVE AbstractStep
  BY <1>24, <1>16 DEF DeleteUsedOrExpired, Live
<1>25. ASSUME UNCHANGED vars PROVE AbstractStep
  BY <1>25, <1>17 DEF vars
<1> QED
  BY <1>1, <1>2, <1>3, <1>4, <1>5, <1>7, <1>8, <1>9, <1>10, <1>11, <1>12, <1>13, <1>14, <1>15,
     <1>18, <1>19, <1>20, <1>21, <1>22, <1>23, <1>24, <1>25
  DEF Next, Requests, RequestStep, Environment, Housekeeping, Cleanup

LEMMA RefinementInit == Init => Grant!GrantInit
<1> SUFFICES ASSUME Init PROVE \A f \in Fam : Stage(f) = "none"
  BY DEF Grant!GrantInit
<1>1. /\ \A q \in Req : req[q].pc = "idle"
      /\ \A r \in RT : rt[r].st = "unborn"
      /\ \A f \in Fam : codes[f] = "none"
  BY DEF Init, IdleRequest
<1> QED
  BY <1>1 DEF Stage, Minting, Live

\* The tables implement the abstract grant, for any number of grants, rows and
\* requests: a credential is redeemed once, a session is handed on by one
\* request at a time, and no interleaving of exchanges, rotations, cascades,
\* revocations, deletions and cleanup brings back a grant that is over.
THEOREM TablesImplementGrant == Spec => ImplementsGrant
<1>1. IInv /\ [Next]_vars => [Grant!GrantNext]_[f \in Fam |-> Stage(f)]
  BY RefinementStep DEF AbstractStep
<1> QED
  BY <1>1, RefinementInit, Invariance, PTL DEF Spec, ImplementsGrant, Grant!Spec
-----------------------------------------------------------------------------
(* HeldAccessIsReachable.                                                  *)

Bound(a) == \E r \in RT : Present(r) /\ rt[r].access = a /\ rt[r].fam = at[a].fam

\* Holds of an access token from the moment its refresh token is inserted,
\* also while it is expired: what HeldAccessIsReachable needs to be inductive.
Anchored(a) ==
    /\ at[a].fam \in Fam
    /\ at[a].st # "deleted" /\ NoRowDeleted(at[a].fam) => Bound(a)

AnchoredTokens ==
    /\ \A a \in AT : a \in held => Anchored(a)
    /\ \A q \in Req : req[q].pc = "respond" => Anchored(req[q].access)

\* A row that is not deleted is not revived, and loses a link only when the
\* other end of it is deleted.
LinksPersist ==
    \A r \in RT : Present(r) =>
        \/ rt'[r].st = "deleted"
        \/ /\ Present(r)' /\ (Live(r)' => Live(r))
           /\ rt[r].access # NULL =>
                rt'[r].access = rt[r].access \/ at'[rt[r].access].st = "deleted"
           /\ rt[r].parent # NULL =>
                rt'[r].parent = rt[r].parent \/ rt'[rt[r].parent].st = "deleted"

\* A deleted row does not come back.
DeletedStays ==
    /\ \A r \in RT : rt[r].st = "deleted" => rt'[r].st = "deleted"
    /\ \A a \in AT : at[a].st = "deleted" => at'[a].st = "deleted"

LEMMA BulkPersists ==
    ASSUME TypeOK, NEW S
    PROVE  /\ RevokeRows(S) /\ UNCHANGED at => LinksPersist /\ DeletedStays
           /\ DeleteRefreshRows(S) /\ UNCHANGED at => LinksPersist /\ DeletedStays
           /\ DeleteAccessRows(S) => LinksPersist /\ DeletedStays
           /\ ExpireAccess(S) /\ UNCHANGED rt => LinksPersist /\ DeletedStays
<1>1. /\ \A r \in RT : rt[r] \in RefreshRow /\ rt[r].access \in AT \cup {NULL}
                     /\ rt[r].parent \in RT \cup {NULL}
      /\ \A a \in AT : at[a] \in AccessRow
  BY DEF TypeOK, RefreshRow
<1>2. ASSUME RevokeRows(S), UNCHANGED at PROVE LinksPersist /\ DeletedStays
  BY <1>1, <1>2 DEF RevokeRows, LinksPersist, DeletedStays, Present, Live, RefreshRow
<1>3. ASSUME DeleteRefreshRows(S), UNCHANGED at PROVE LinksPersist /\ DeletedStays
  BY <1>1, <1>3 DEF DeleteRefreshRows, LinksPersist, DeletedStays, Present, Live, RefreshRow
<1>4. ASSUME DeleteAccessRows(S) PROVE LinksPersist /\ DeletedStays
  BY <1>1, <1>4 DEF DeleteAccessRows, LinksPersist, DeletedStays, Present, Live, RefreshRow, AccessRow
<1>5. ASSUME ExpireAccess(S), UNCHANGED rt PROVE LinksPersist /\ DeletedStays
  BY <1>1, <1>5 DEF ExpireAccess, LinksPersist, DeletedStays, Present, Live, AccessRow
<1> QED
  BY <1>2, <1>3, <1>4, <1>5

LEMMA PersistStep ==
    ASSUME TypeOK, [Next]_vars
    PROVE  LinksPersist /\ DeletedStays
<1> DEFINE Goal == LinksPersist /\ DeletedStays
<1>row. \A r \in RT : rt[r] \in RefreshRow
  BY DEF TypeOK
<1>1. ASSUME UNCHANGED <<rt, at>> PROVE Goal
  BY <1>1 DEF LinksPersist, DeletedStays, Present, Live
<1>2. ASSUME NEW q \in Req, RevokePresented(q) PROVE Goal
  BY <1>2, <1>row DEF RevokePresented, LinksPersist, DeletedStays, Present, RevokedAtIsNull,
                      Live, RefreshRow, TypeOK
<1>3. ASSUME NEW q \in Req, CreateAccessToken(q) PROVE Goal
  BY <1>3 DEF CreateAccessToken, Unborn, LinksPersist, DeletedStays, Present, Live, TypeOK
<1>4. ASSUME NEW q \in Req, CreateRefreshToken(q) PROVE Goal
  <2>1. CASE ~ForeignKeysHold(q)
    BY <1>4, <2>1, <1>1 DEF CreateRefreshToken
  <2>2. CASE ForeignKeysHold(q)
    <3>1. PICK r \in Unborn(rt) : rt' = [rt EXCEPT ![r] = NewRefreshRow(q)]
      BY <1>4, <2>2 DEF CreateRefreshToken
    <3>2. \A s \in RT : Present(s) \/ rt[s].st = "deleted" => rt'[s] = rt[s]
      BY <3>1 DEF Unborn, Present, Live, TypeOK
    <3> QED
      BY <1>4, <3>2 DEF CreateRefreshToken, LinksPersist, DeletedStays, Present, Live
  <2> QED
    BY <2>1, <2>2
<1>5. ASSUME NEW q \in Req, RevokeFamily(q) \/ ExpireAccessTokensByIds(q) PROVE Goal
  BY <1>5, BulkPersists DEF RevokeFamily, ExpireAccessTokensByIds
<1>6. ASSUME NEW r \in RT, RevokeTokenByValue(r) PROVE Goal
  BY <1>6, BulkPersists DEF RevokeTokenByValue
<1>7. ASSUME NEW a \in AT, RevokeAccessByValue(a) PROVE Goal
  BY <1>7, BulkPersists DEF RevokeAccessByValue
<1>8. ASSUME NEW r \in RT, RefreshLapses(r) PROVE Goal
  BY <1>8, <1>row DEF RefreshLapses, LinksPersist, DeletedStays, Present, Live, RefreshRow, TypeOK
<1>9. ASSUME NEW a \in AT, AccessLapses(a) PROVE Goal
  BY <1>9 DEF AccessLapses, LinksPersist, DeletedStays, Present, Live, AccessRow, TypeOK
<1>10. ASSUME NEW S, \/ DeleteRefreshRows(S) /\ UNCHANGED at
                     \/ DeleteAccessRows(S)
       PROVE Goal
  BY <1>10, BulkPersists
<1>11. ASSUME Housekeeping PROVE Goal
  <2>1. CASE DeleteTokenByValue
    BY <2>1, <1>10 DEF DeleteTokenByValue
  <2>2. CASE Cleanup
    BY <2>2, <1>1, <1>10 DEF Cleanup, DeleteExpiredAccessTokens, DeleteExpired,
                             DeleteRevoked, DeleteUsedOrExpired
  <2> QED
    BY <1>11, <2>1, <2>2 DEF Housekeeping
<1>12. ASSUME NEW q \in Req,
             \/ MarkUsed(q) \/ CheckSubject(q) \/ Respond(q) \/ Abandon(q)
             \/ WalkParent(q) \/ WalkChildren(q) \/ ListFamilyAccessTokenIds(q)
             \/ (\E f \in Fam : ExchangeClientCredentials(q, f) \/ LookupCode(q, f))
             \/ (\E r \in RT : LookupRefreshToken(q, r))
       PROVE Goal
  <2>1. UNCHANGED <<rt, at>>
    BY <1>12 DEF MarkUsed, CheckSubject, Respond, Abandon, WalkParent, WalkChildren,
       ListFamilyAccessTokenIds, ExchangeClientCredentials, LookupCode, LookupRefreshToken
  <2> QED
    BY <2>1, <1>1
<1>13. ASSUME NEW f \in Fam, Authorize(f) \/ SetAccess(f) \/ CodeLapses(f) PROVE Goal
  BY <1>13, <1>1 DEF Authorize, SetAccess, CodeLapses
<1>14. ASSUME UNCHANGED vars PROVE Goal
  BY <1>14, <1>1 DEF vars
<1> HIDE DEF Goal
<1>15. Goal
  BY <1>2, <1>3, <1>4, <1>5, <1>6, <1>7, <1>8, <1>9, <1>11, <1>12, <1>13, <1>14
  DEF Next, Requests, RequestStep, Environment
<1> QED
  BY <1>15 DEF Goal

LEMMA AnchoredKept ==
    ASSUME TypeOK, RefreshFamsKept, AccessFamsKept, LinksPersist, DeletedStays,
           NEW a \in AT, Anchored(a)
    PROVE  Anchored(a)'
<1> DEFINE f == at[a].fam
<1>1. f \in Fam /\ f # NULL /\ at'[a].fam = f
  BY NullAssumption DEF Anchored, AccessFamsKept
<1>2. SUFFICES ASSUME at'[a].st # "deleted", NoRowDeleted(f)'
               PROVE  \E r \in RT : Present(r)' /\ rt'[r].access = a /\ rt'[r].fam = f
  BY <1>1 DEF Anchored, Bound, NoRowDeleted
<1>3. \A r \in RT : rt[r].fam = f => rt'[r].fam = f /\ rt'[r].st # "deleted"
  BY <1>1, <1>2 DEF RefreshFamsKept, NoRowDeleted
<1>4. at[a].st # "deleted" /\ NoRowDeleted(f)
  BY <1>2, <1>3 DEF DeletedStays, NoRowDeleted
<1>5. PICK r \in RT : Present(r) /\ rt[r].access = a /\ rt[r].fam = f
  BY <1>4 DEF Anchored, Bound
<1>6. Present(r)' /\ rt'[r].access = a
  BY <1>2, <1>3, <1>5, NullAssumption DEF LinksPersist
<1> QED
  BY <1>3, <1>5, <1>6

\* Who answers after a step that does not insert a refresh token.
NoNewAnswer ==
    /\ \A q \in Req : req'[q].pc = "respond" =>
         req[q].pc = "respond" /\ req'[q].access = req[q].access
    /\ \A a \in AT : a \in held' => a \in held \/ \E q \in Req : req[q].pc = "respond" /\ req[q].access = a

LEMMA BecomeAnswers ==
    ASSUME TypeOK, NEW q \in Req, NEW o, Become(q, o), o.pc # "respond", UNCHANGED held
    PROVE  NoNewAnswer
BY DEF Become, NoNewAnswer, TypeOK

LEMMA MintForAnswers ==
    ASSUME TypeOK, NEW q \in Req, NEW f \in Fam, MintFor(q, f), UNCHANGED held
    PROVE  NoNewAnswer
BY DEF MintFor, NoNewAnswer, TypeOK, Request, RequestRow

LEMMA AnswersStep ==
    ASSUME TypeOK, [Next]_vars
    PROVE  NoNewAnswer \/ \E q \in Req : CreateRefreshToken(q) /\ ForeignKeysHold(q)
<1> DEFINE Goal == NoNewAnswer \/ \E q \in Req : CreateRefreshToken(q) /\ ForeignKeysHold(q)
<1>req. \A q \in Req : /\ req[q] \in Request
                       /\ req[q].pc \in PendingPC => req[q].fam \in Fam
  BY DEF TypeOK, Request, RequestRow
<1>1. ASSUME UNCHANGED <<held, req>> PROVE Goal
  BY <1>1 DEF NoNewAnswer
<1>2. ASSUME NEW q \in Req, MarkUsed(q) \/ RevokePresented(q)
      PROVE  Goal
  BY <1>2, <1>req, BecomeAnswers, MintForAnswers
     DEF MarkUsed, RevokePresented, CascadeFrom, IdleRequest
<1>3. ASSUME NEW q \in Req, NEW f \in Fam, ExchangeClientCredentials(q, f) PROVE Goal
  BY <1>3, MintForAnswers DEF ExchangeClientCredentials
<1>4. ASSUME NEW q \in Req, NEW o, Become(q, o), o.pc # "respond", UNCHANGED held PROVE Goal
  BY <1>4, BecomeAnswers
<1>5. ASSUME NEW q \in Req, CheckSubject(q) PROVE Goal
  BY <1>5, <1>req, <1>4 DEF CheckSubject, CascadeFrom, IdleRequest, Request, RequestRow
<1>6. ASSUME NEW q \in Req, CreateAccessToken(q) PROVE Goal
  <2>1. PICK a : Become(q, [req[q] EXCEPT !.pc = "mint_refresh", !.access = a])
    BY <1>6 DEF CreateAccessToken
  <2>2. [req[q] EXCEPT !.pc = "mint_refresh", !.access = a].pc = "mint_refresh"
    BY <1>req DEF Request, RequestRow
  <2> QED
    BY <1>6, <2>1, <2>2, <1>4 DEF CreateAccessToken
<1>7. ASSUME NEW q \in Req, CreateRefreshToken(q) PROVE Goal
  BY <1>7, <1>4 DEF CreateRefreshToken, IdleRequest
<1>8. ASSUME NEW q \in Req, Respond(q) PROVE Goal
  <2>1. \A p \in Req : req'[p].pc = "respond" => p # q /\ req'[p] = req[p]
    BY <1>8 DEF Respond, Become, IdleRequest, TypeOK
  <2>2. req[q].refresh \in RT
    BY <1>8, <1>req DEF Respond, Request
  <2>3. \A a \in AT : a \in held' => a \in held \/ req[q].access = a
    BY <1>8, <2>2, RowsAssumption DEF Respond
  <2> QED
    BY <1>8, <2>1, <2>3 DEF Respond, NoNewAnswer
<1>9. ASSUME NEW q \in Req, Abandon(q) \/ ExpireAccessTokensByIds(q) PROVE Goal
  BY <1>9, <1>4 DEF Abandon, ExpireAccessTokensByIds, IdleRequest
<1>10. ASSUME NEW q \in Req, WalkParent(q) PROVE Goal
  BY <1>10, <1>req, <1>4 DEF WalkParent, Request, RequestRow
<1>11. ASSUME NEW q \in Req, WalkChildren(q) PROVE Goal
  BY <1>11, <1>req, <1>4 DEF WalkChildren, Request, RequestRow
<1>12. ASSUME NEW q \in Req, RevokeFamily(q) PROVE Goal
  BY <1>12, <1>req, <1>4 DEF RevokeFamily, WalkDone, Request, RequestRow
<1>13. ASSUME NEW q \in Req, ListFamilyAccessTokenIds(q) PROVE Goal
  BY <1>13, <1>req, <1>4 DEF ListFamilyAccessTokenIds, IdleRequest, Request, RequestRow
<1>14. ASSUME NEW q \in Req, NEW f \in Fam, LookupCode(q, f) PROVE Goal
  BY <1>14, <1>req, <1>4 DEF LookupCode, Request, RequestRow
<1>15. ASSUME NEW q \in Req, NEW r \in RT, LookupRefreshToken(q, r) PROVE Goal
  BY <1>15, <1>req, <1>4 DEF LookupRefreshToken, CascadeFrom, IdleRequest, Request, RequestRow
<1>16. ASSUME Environment \/ Housekeeping PROVE Goal
  BY <1>16, <1>1 DEF Environment, Housekeeping, Authorize, SetAccess, CodeLapses,
     RevokeTokenByValue, RefreshLapses, RevokeAccessByValue, AccessLapses, DeleteTokenByValue,
     Cleanup, DeleteExpiredAccessTokens, DeleteExpired, DeleteRevoked, DeleteUsedOrExpired
<1>17. ASSUME UNCHANGED vars PROVE Goal
  BY <1>17, <1>1 DEF vars
<1> HIDE DEF Goal
<1>18. Goal
  BY <1>2, <1>3, <1>5, <1>6, <1>7, <1>8, <1>9, <1>10, <1>11, <1>12, <1>13, <1>14, <1>15, <1>16, <1>17
  DEF Next, Requests, RequestStep
<1> QED
  BY <1>18 DEF Goal

LEMMA AnchoredStep == IInv /\ AnchoredTokens /\ [Next]_vars => AnchoredTokens'
<1> SUFFICES ASSUME TypeOK, LinksStayInFamily, AnchoredTokens, [Next]_vars
             PROVE  AnchoredTokens'
  BY DEF IInv
<1>req. \A q \in Req : /\ req[q].pc \in {"mint_refresh", "respond"} => req[q].access \in AT
                       /\ req[q].pc = "mint_refresh" => req[q].fam \in Fam
  BY DEF TypeOK, Request, RequestRow
<1>1. \A a \in AT : Anchored(a) => Anchored(a)'
  BY RowsStep, PersistStep, AnchoredKept
<1>2. CASE NoNewAnswer
  <2>1. \A a \in AT : a \in held' => Anchored(a)
    BY <1>2 DEF NoNewAnswer, AnchoredTokens
  <2>2. \A q \in Req : req'[q].pc = "respond" => req'[q].access \in AT /\ Anchored(req'[q].access)
    BY <1>2, <1>req DEF NoNewAnswer, AnchoredTokens
  <2> QED
    BY <2>1, <2>2, <1>1 DEF AnchoredTokens
<1>3. ASSUME NEW q \in Req, CreateRefreshToken(q), ForeignKeysHold(q)
      PROVE  AnchoredTokens'
  <2>1. PICK a \in AT : a = req[q].access /\ at[a].fam = req[q].fam /\ req[q].fam \in Fam
    BY <1>3, <1>req DEF CreateRefreshToken, LinksStayInFamily
  <2>2. PICK r \in Unborn(rt) : /\ rt' = [rt EXCEPT ![r] = NewRefreshRow(q)]
                                /\ Become(q, [req[q] EXCEPT !.pc = "respond", !.refresh = r])
    BY <1>3 DEF CreateRefreshToken
  <2>3. /\ req'[q].access = a
        /\ \A p \in Req \ {q} : req'[p] = req[p]
    BY <2>1, <2>2 DEF Become, TypeOK, Request, RequestRow
  <2>4. r \in RT /\ rt'[r].st = "live" /\ rt'[r].access = a /\ rt'[r].fam = at[a].fam
    BY <2>1, <2>2 DEF Unborn, NewRefreshRow, TypeOK
  <2>5. UNCHANGED <<at, held>>
    BY <1>3 DEF CreateRefreshToken
  <2>6. Anchored(a)'
    BY <2>1, <2>3, <2>4, <2>5 DEF Anchored, Bound, Present
  <2>7. \A p \in Req \ {q} : req'[p].pc = "respond" =>
          req'[p].access \in AT /\ Anchored(req'[p].access)
    BY <2>3, <1>req DEF AnchoredTokens
  <2>8. \A p \in Req : req'[p].pc = "respond" =>
          req'[p].access = a \/ (req'[p].access \in AT /\ Anchored(req'[p].access))
    BY <2>3, <2>7
  <2> QED
    BY <2>1, <2>5, <2>6, <2>8, <1>1 DEF AnchoredTokens
<1> QED
  BY <1>2, <1>3, AnswersStep

\* Whatever the interleaving, an access token a client holds and may still use
\* is listed by the cascade of its family, unless a row of the family was
\* deleted: revoking the family is enough to revoke access.
THEOREM HeldAccessReachable == Spec => []HeldAccessIsReachable
<1>1. Init => AnchoredTokens
  BY DEF Init, AnchoredTokens, IdleRequest
<1>2. AnchoredTokens => HeldAccessIsReachable
  BY DEF AnchoredTokens, Anchored, Bound, HeldAccessIsReachable
<1> QED
  BY <1>1, <1>2, AnchoredStep, Invariance, PTL DEF Spec

-----------------------------------------------------------------------------
(* CascadeContains: what a search has seen, as long as no rotation of the   *)
(* family races with it and no row of the family is deleted.               *)

\* What a request does by itself.
OwnStep(q) ==
    \/ RequestStep(q) \/ Abandon(q)
    \/ \E f \in Fam : ExchangeClientCredentials(q, f) \/ LookupCode(q, f)
    \/ \E r \in RT : LookupRefreshToken(q, r)

\* Any other step leaves its locals alone, or tells it that it is raced.
LEMMA Bystander ==
    ASSUME TypeOK, [Next]_vars, NEW q \in Req
    PROVE  OwnStep(q) \/ req'[q] = req[q] \/ req'[q] = [req[q] EXCEPT !.raced = TRUE]
<1> DEFINE Goal == OwnStep(q) \/ req'[q] = req[q] \/ req'[q] = [req[q] EXCEPT !.raced = TRUE]
<1>1. ASSUME UNCHANGED req PROVE Goal
  BY <1>1
<1>2. ASSUME NEW p \in Req, p # q, NEW o, Become(p, o) PROVE Goal
  BY <1>2 DEF Become, TypeOK
<1>3. ASSUME NEW p \in Req, p # q, NEW f, MintFor(p, f) PROVE Goal
  BY <1>3 DEF MintFor
<1>4. ASSUME NEW p \in Req, RequestStep(p) \/ Abandon(p) PROVE Goal
  <2>1. CASE p = q
    BY <1>4, <2>1 DEF OwnStep
  <2>2. CASE p # q
    <3> HIDE DEF Goal
    <3> QED
      BY <1>2, <1>3, <1>4, <2>2 DEF RequestStep, Abandon, MarkUsed, CheckSubject,
         RevokePresented, CreateAccessToken, CreateRefreshToken, Respond, WalkParent,
         WalkChildren, RevokeFamily, ListFamilyAccessTokenIds, ExpireAccessTokensByIds
  <2> QED
    BY <2>1, <2>2
<1>5. ASSUME NEW p \in Req, NEW f \in Fam, ExchangeClientCredentials(p, f) \/ LookupCode(p, f)
      PROVE  Goal
  BY <1>2, <1>3, <1>5 DEF OwnStep, ExchangeClientCredentials, LookupCode
<1>6. ASSUME NEW p \in Req, NEW r \in RT, LookupRefreshToken(p, r) PROVE Goal
  BY <1>2, <1>6 DEF OwnStep, LookupRefreshToken
<1>7. ASSUME Environment \/ Housekeeping \/ UNCHANGED vars PROVE Goal
  BY <1>7, <1>1 DEF Environment, Authorize, SetAccess, CodeLapses, RevokeTokenByValue,
     RefreshLapses, RevokeAccessByValue, AccessLapses, Housekeeping, DeleteTokenByValue,
     Cleanup, DeleteExpiredAccessTokens, DeleteExpired, DeleteRevoked, DeleteUsedOrExpired,
     vars
<1> HIDE DEF Goal
<1>8. Goal
  BY <1>4, <1>5, <1>6, <1>7 DEF Next, Requests
<1> QED
  BY <1>8 DEF Goal

\* A request starts to mint by MintFor: for a code that nobody has redeemed,
\* or for the row that it has just revoked.
LEMMA MintStarts ==
    ASSUME TypeOK, LinksStayInFamily, [Next]_vars, NEW p \in Req, NEW f \in Fam,
           Minting(p, f)', ~Minting(p, f)
    PROVE  /\ MintFor(p, f) /\ UNCHANGED at
           /\ \/ codes[f] \in {"none", "unused", "expired"} /\ UNCHANGED rt
              \/ req[p].root \in RT /\ rt[req[p].root].fam = f
<1>req. /\ req[p] \in Request
        /\ req[p].pc \in PendingPC \cup CascadePC => req[p].fam \in Fam
        /\ req[p].pc = "rt_allowed" => req[p].root \in RT
  BY DEF TypeOK, Request, RequestRow
<1>pc. req'[p].pc \in MintPC /\ req'[p].fam = f
  BY DEF Minting
<1>not. \A o : Become(p, o) => o.pc \in MintPC /\ o.fam = f
  BY <1>pc DEF Become, TypeOK
<1>1. OwnStep(p)
  <2>1. req'[p] # req[p] /\ req'[p] # [req[p] EXCEPT !.raced = TRUE]
    BY <1>req, <1>pc DEF Minting, Request, RequestRow
  <2> QED
    BY <2>1, Bystander
<1>2. ASSUME NEW g \in Fam, MintFor(p, g) PROVE g = f
  BY <1>2, <1>pc, <1>req DEF MintFor, Request, RequestRow
<1>3. CASE MarkUsed(p)
  <2>1. UsedAtIsNull(req[p].fam) /\ MintFor(p, req[p].fam)
    BY <1>3, <1>not DEF MarkUsed, IdleRequest
  <2> QED
    BY <1>2, <1>3, <1>req, <2>1 DEF MarkUsed, UsedAtIsNull
<1>4. CASE \E g \in Fam : ExchangeClientCredentials(p, g)
  BY <1>2, <1>4 DEF ExchangeClientCredentials
<1>5. CASE RevokePresented(p)
  <2>c. CascadeFrom(p, req[p].root, req[p].fam).pc = "walk"
    BY DEF CascadeFrom, IdleRequest
  <2>1. MintFor(p, req[p].fam)
    <3> HIDE DEF CascadeFrom
    <3> QED
      BY <1>5, <1>not, <2>c DEF RevokePresented
  <2>2. req[p].root \in RT /\ rt[req[p].root].fam = req[p].fam
    BY <1>5, <1>req, NullAssumption DEF RevokePresented, LinksStayInFamily
  <2> QED
    BY <1>2, <1>5, <1>req, <2>1, <2>2 DEF RevokePresented
<1>6. CASE CreateAccessToken(p)
  <2>1. PICK a : Become(p, [req[p] EXCEPT !.pc = "mint_refresh", !.access = a])
    BY <1>6 DEF CreateAccessToken
  <2>2. [req[p] EXCEPT !.pc = "mint_refresh", !.access = a].fam = req[p].fam
    BY <1>req DEF Request, RequestRow
  <2>3. req[p].fam = f
    BY <2>1, <2>2, <1>not
  <2> QED
    BY <1>6, <2>3 DEF CreateAccessToken, Minting
<1>7. ASSUME NEW o, Become(p, o), o.pc \notin MintPC PROVE FALSE
  BY <1>7, <1>not
<1>8. CASE CheckSubject(p)
  <2>1. [req[p] EXCEPT !.pc = "rt_allowed"].pc = "rt_allowed"
    BY <1>req DEF Request, RequestRow
  <2> QED
    BY <1>7, <1>8, <2>1 DEF CheckSubject, CascadeFrom, IdleRequest
<1>9. CASE CreateRefreshToken(p)
  <2>1. \A r : [req[p] EXCEPT !.pc = "respond", !.refresh = r].pc = "respond"
    BY <1>req DEF Request, RequestRow
  <2> QED
    BY <1>7, <1>9, <2>1 DEF CreateRefreshToken, IdleRequest
<1>10. CASE Respond(p) \/ Abandon(p) \/ ExpireAccessTokensByIds(p)
  BY <1>7, <1>10 DEF Respond, Abandon, ExpireAccessTokensByIds, IdleRequest
<1>11. CASE WalkParent(p)
  BY <1>7, <1>11, <1>req DEF WalkParent, Request, RequestRow
<1>12. CASE WalkChildren(p)
  BY <1>7, <1>12, <1>req DEF WalkChildren, Request, RequestRow
<1>13. CASE RevokeFamily(p)
  BY <1>7, <1>13, <1>req DEF RevokeFamily, WalkDone, Request, RequestRow
<1>14. CASE ListFamilyAccessTokenIds(p)
  BY <1>7, <1>14, <1>req DEF ListFamilyAccessTokenIds, IdleRequest, Request, RequestRow
<1>15. CASE \E g \in Fam : LookupCode(p, g)
  BY <1>7, <1>15, <1>req DEF LookupCode, Request, RequestRow
<1>16. CASE \E r \in RT : LookupRefreshToken(p, r)
  BY <1>7, <1>16, <1>req DEF LookupRefreshToken, CascadeFrom, IdleRequest, Request, RequestRow
<1> QED
  BY <1>1, <1>3, <1>4, <1>5, <1>6, <1>8, <1>9, <1>10, <1>11, <1>12, <1>13, <1>14, <1>15, <1>16
  DEF OwnStep, RequestStep

\* The rows of a family of which none is deleted keep their place in it.
LEMMA FamilyRowsKept ==
    ASSUME TypeOK, LinksStayInFamily, [Next]_vars, NEW f \in Fam, NoRowDeleted(f)'
    PROVE  /\ NoRowDeleted(f)
           /\ \A r \in RT : rt[r].fam = f =>
                /\ Present(r) /\ Present(r)' /\ rt'[r].fam = f /\ (Live(r)' => Live(r))
                /\ rt'[r].parent = rt[r].parent /\ rt'[r].access \in {rt[r].access, NULL}
<1>steps. RefreshFamsKept /\ LinksPersist /\ DeletedStays
  BY RowsStep, PersistStep
<1>row. \A r \in RT : rt[r] \in RefreshRow /\ rt'[r] \in RefreshRow
  BY TypeStep DEF TypeOK
<1>1. \A r \in RT : rt[r].fam = f => rt'[r].fam = f /\ rt'[r].st # "deleted"
  BY <1>steps, NullAssumption DEF RefreshFamsKept, NoRowDeleted
<1>2. NoRowDeleted(f)
  BY <1>1, <1>steps DEF NoRowDeleted, DeletedStays
<1>3. ASSUME NEW r \in RT, rt[r].fam = f
      PROVE  /\ Present(r) /\ Present(r)' /\ (Live(r)' => Live(r))
             /\ rt'[r].parent = rt[r].parent
  <2>1. Present(r)
    BY <1>2, <1>3, <1>row, NullAssumption DEF NoRowDeleted, Present, RefreshRow
  <2>2. Present(r)' /\ (Live(r)' => Live(r))
    BY <1>1, <1>3, <1>steps, <2>1 DEF LinksPersist
  <2>3. ASSUME rt[r].parent # NULL PROVE rt'[r].parent = rt[r].parent
    <3>1. rt[r].parent \in RT /\ rt[rt[r].parent].fam = f
      BY <1>3, <1>row, <2>3 DEF LinksStayInFamily, RefreshRow
    <3> QED
      BY <1>1, <1>3, <1>steps, <2>1, <2>3, <3>1 DEF LinksPersist
  <2>4. ASSUME rt[r].parent = NULL PROVE rt'[r].parent = rt[r].parent
    <3>1. ASSUME LinksDrop PROVE rt'[r].parent = NULL
      BY <2>4, <3>1 DEF LinksDrop
    <3>2. ASSUME NEW q \in Req, CreateRefreshToken(q), ForeignKeysHold(q)
          PROVE  rt'[r].parent = NULL
      <4>1. PICK s \in Unborn(rt) : rt' = [rt EXCEPT ![s] = NewRefreshRow(q)]
        BY <3>2 DEF CreateRefreshToken
      <4>2. r # s
        BY <2>1, <4>1 DEF Unborn, Present
      <4> QED
        BY <2>4, <4>1, <4>2 DEF TypeOK
    <3> QED
      BY <2>4, <3>1, <3>2, RowsStep
  <2> QED
    BY <2>1, <2>2, <2>3, <2>4
<1>4. ASSUME NEW r \in RT, rt[r].fam = f PROVE rt'[r].access \in {rt[r].access, NULL}
  <2>1. CASE LinksDrop
    BY <2>1 DEF LinksDrop
  <2>2. CASE \E q \in Req : CreateRefreshToken(q) /\ ForeignKeysHold(q)
    <3>1. PICK q \in Req, s \in Unborn(rt) : rt' = [rt EXCEPT ![s] = NewRefreshRow(q)]
      BY <2>2 DEF CreateRefreshToken
    <3>2. r # s
      BY <1>3, <1>4, <3>1 DEF Unborn, Present
    <3> QED
      BY <3>1, <3>2 DEF TypeOK
  <2> QED
    BY <2>1, <2>2, RowsStep
<1> QED
  BY <1>1, <1>2, <1>3, <1>4

\* A row joins a family only as the successor that a minting request inserts.
LEMMA RowIsBorn ==
    ASSUME TypeOK, [Next]_vars, NEW f \in Fam, NEW s \in RT, rt'[s].fam = f, rt[s].fam # f
    PROVE  \E q \in Req : /\ CreateRefreshToken(q) /\ Minting(q, f)
                          /\ rt' = [rt EXCEPT ![s] = NewRefreshRow(q)]
<1>1. CASE LinksDrop
  BY <1>1 DEF LinksDrop
<1>2. CASE \E q \in Req : CreateRefreshToken(q) /\ ForeignKeysHold(q)
  <2>1. PICK q \in Req : CreateRefreshToken(q) /\ ForeignKeysHold(q)
    BY <1>2
  <2>2. PICK r \in Unborn(rt) : rt' = [rt EXCEPT ![r] = NewRefreshRow(q)]
    BY <2>1 DEF CreateRefreshToken
  <2>3. s = r /\ NewRefreshRow(q).fam = f
    BY <2>2 DEF TypeOK
  <2> QED
    BY <2>1, <2>2, <2>3 DEF CreateRefreshToken, NewRefreshRow, Minting
<1> QED
  BY <1>1, <1>2, RowsStep

\* A set of rows that the rotated_from_id links of family f neither enter nor
\* leave.
LinkClosed(S, f) ==
    \A r \in RT : rt[r].fam = f /\ rt[r].parent # NULL => (r \in S <=> rt[r].parent \in S)

\* The rows of a family of which none was deleted hang together.
Connected(f) ==
    NoRowDeleted(f) =>
        \A S \in SUBSET RT : LinkClosed(S, f) /\ (\E r \in S : rt[r].fam = f) =>
            \A r \in RT : rt[r].fam = f => r \in S

\* A request that mints without a parent mints the first row of its family.
FirstMint ==
    \A q \in Req : req[q].pc \in MintPC /\ req[q].root = NULL =>
        \A r \in RT : rt[r].fam # req[q].fam

\* A minting request only creates its rows or gives up.
LEMMA MintGoesOn ==
    ASSUME TypeOK, [Next]_vars, NEW q \in Req, NEW f \in Fam, Minting(q, f), Minting(q, f)'
    PROVE  req'[q].root = req[q].root /\ ~CreateRefreshToken(q)
<1>req. req[q] \in Request /\ req[q].pc \in MintPC
  BY DEF TypeOK, Minting
<1>1. OwnStep(q) => CreateAccessToken(q) \/ CreateRefreshToken(q) \/ Abandon(q)
  BY <1>req DEF OwnStep, RequestStep, ExchangeClientCredentials, LookupCode,
     LookupRefreshToken, MarkUsed, CheckSubject, RevokePresented, Respond, WalkParent,
     WalkChildren, RevokeFamily, WalkDone, ListFamilyAccessTokenIds, ExpireAccessTokensByIds
<1>2. ASSUME NEW o, Become(q, o) PROVE o.pc \in MintPC
  BY <1>2 DEF Become, TypeOK, Minting
<1>3. ~Abandon(q)
  BY <1>2 DEF Abandon, IdleRequest
<1>4. ~CreateRefreshToken(q)
  <2>1. \A r : [req[q] EXCEPT !.pc = "respond", !.refresh = r].pc = "respond"
    BY <1>req DEF Request, RequestRow
  <2>2. IdleRequest.pc = "idle"
    BY DEF IdleRequest
  <2> QED
    BY <1>2, <2>1, <2>2 DEF CreateRefreshToken
<1>5. ASSUME CreateAccessToken(q) PROVE req'[q].root = req[q].root
  BY <1>5, <1>req DEF CreateAccessToken, Become, TypeOK, Request, RequestRow
<1>6. ASSUME req'[q] = [req[q] EXCEPT !.raced = TRUE] PROVE req'[q].root = req[q].root
  BY <1>6, <1>req DEF Request, RequestRow
<1> QED
  BY <1>1, <1>3, <1>4, <1>5, <1>6, Bystander

LEMMA FirstMintStep ==
    ASSUME IInv, FirstMint, [Next]_vars
    PROVE  FirstMint'
<1> SUFFICES ASSUME NEW q \in Req, req'[q].pc \in MintPC, req'[q].root = NULL,
                    NEW s \in RT, rt'[s].fam = req'[q].fam
             PROVE  FALSE
  BY DEF FirstMint
<1>t. TypeOK /\ LinksStayInFamily /\ req[q] \in Request
  BY DEF IInv, TypeOK
<1>new. req'[q] \in Request
  BY TypeStep, <1>t DEF TypeOK
<1>f. PICK f \in Fam : req'[q].fam = f
  BY <1>new DEF Request
<1>m. Minting(q, f)'
  BY <1>f DEF Minting
<1>1. CASE Minting(q, f)
  <2>1. req[q].root = NULL /\ ~CreateRefreshToken(q)
    <3>1. req'[q].root = req[q].root /\ ~CreateRefreshToken(q)
      BY <1>1, <1>m, <1>t, MintGoesOn
    <3> QED
      BY <3>1
  <2>2. rt[s].fam # f
    BY <1>1, <2>1 DEF FirstMint, Minting
  <2>3. PICK p \in Req : CreateRefreshToken(p) /\ Minting(p, f)
    <3>1. rt'[s].fam = f
      BY <1>f
    <3> QED
      BY <1>t, <2>2, <3>1, RowIsBorn
  <2>4. p = q
    BY <1>1, <2>3 DEF IInv, SingleHolder
  <2> QED
    BY <2>1, <2>3, <2>4
<1>2. CASE ~Minting(q, f)
  <2>1. /\ MintFor(q, f)
        /\ \/ codes[f] \in {"none", "unused", "expired"} /\ UNCHANGED rt
           \/ req[q].root \in RT
    BY <1>2, <1>m, <1>t, MintStarts
  <2>2. req[q].root = NULL
    BY <1>t, <2>1 DEF MintFor, Request, RequestRow
  <2>3. codes[f] \in {"none", "unused", "expired"} /\ UNCHANGED rt
    BY <2>1, <2>2, NullAssumption
  <2> QED
    BY <1>f, <2>3 DEF IInv, SingleHolder
<1> QED
  BY <1>1, <1>2

LEMMA ConnectedStep ==
    ASSUME IInv, FirstMint, [Next]_vars, NEW f \in Fam, Connected(f)
    PROVE  Connected(f)'
<1> SUFFICES ASSUME NoRowDeleted(f)',
                    NEW S \in SUBSET RT, LinkClosed(S, f)',
                    NEW r0 \in S, rt'[r0].fam = f, NEW r1 \in RT, rt'[r1].fam = f
             PROVE  r1 \in S
  BY DEF Connected
<1>t. TypeOK /\ LinksStayInFamily
  BY DEF IInv
<1>1. /\ NoRowDeleted(f)
      /\ \A r \in RT : rt[r].fam = f => rt'[r].fam = f /\ rt'[r].parent = rt[r].parent
  BY <1>t, FamilyRowsKept
<1>2. LinkClosed(S, f)
  BY <1>1 DEF LinkClosed
<1>3. (\E r \in S : rt[r].fam = f) => \A r \in RT : rt[r].fam = f => r \in S
  BY <1>1, <1>2 DEF Connected
<1>4. CASE \A s \in RT : rt'[s].fam = f => rt[s].fam = f
  BY <1>3, <1>4
<1>5. ASSUME NEW s \in RT, rt'[s].fam = f, rt[s].fam # f PROVE r1 \in S
  <2>1. PICK q \in Req : /\ CreateRefreshToken(q) /\ Minting(q, f)
                         /\ rt' = [rt EXCEPT ![s] = NewRefreshRow(q)]
    <3>1. PICK q \in Req : CreateRefreshToken(q) /\ Minting(q, f)
                           /\ rt' = [rt EXCEPT ![s] = NewRefreshRow(q)]
      BY <1>5, <1>t, RowIsBorn
    <3> QED
      BY <3>1
  <2>q. req[q] \in Request /\ req[q].pc = "mint_refresh" /\ req[q].fam = f
    BY <1>t, <2>1 DEF TypeOK, CreateRefreshToken, Minting
  <2>2. \A r \in RT : rt'[r].fam = f => r = s \/ rt[r].fam = f
    BY <1>t, <2>1 DEF TypeOK
  <2>3. CASE req[q].root = NULL
    <3>1. \A r \in RT : rt[r].fam # f
      BY <2>3, <2>q DEF FirstMint
    <3> QED
      BY <2>2, <3>1
  <2>4. CASE req[q].root # NULL
    <3>1. req[q].root \in RT /\ rt[req[q].root].fam = f
      BY <1>t, <2>4, <2>q DEF Request, RequestRow, LinksStayInFamily
    <3>2. rt'[s].parent = req[q].root
      BY <1>t, <2>1 DEF TypeOK, NewRefreshRow
    <3>3. s \in S <=> req[q].root \in S
      BY <1>5, <2>4, <3>2 DEF LinkClosed
    <3> QED
      BY <1>3, <2>2, <3>1, <3>3
  <2> QED
    BY <2>3, <2>4
<1> QED
  BY <1>4, <1>5

-----------------------------------------------------------------------------
(* What a cascade that nothing raced with knows about its family.          *)

FamilyRevoked(f) == \A r \in RT : rt[r].fam = f => ~Live(r)

\* The search has everything in sight that is linked to a row it has seen,
\* except what the SELECT of the current row's children is about to return.
Searched(q) ==
    LET inSight == req[q].seen \cup req[q].queue IN
    /\ req[q].root \in inSight
    /\ \A c \in req[q].seen :
         /\ Parents(c) \subseteq inSight
         /\ (req[q].pc = "children" /\ c = req[q].cur) \/ Children(c) \subseteq inSight

Quiet(q) == req[q].pc \in CascadePC /\ ~req[q].raced /\ NoRowDeleted(req[q].fam)

\* The first search ends with the family revoked, the second one with every
\* access token bound to it listed.
CascadeKnows(q) ==
    Quiet(q) =>
      /\ \A p \in Req : ~Minting(p, req[q].fam)
      /\ req[q].pc \in {"walk", "children"} => Searched(q)
      /\ req[q].sweep = "list" => FamilyRevoked(req[q].fam)
      /\ req[q].pc = "expire_access" =>
           /\ req[q].sweep = "list"
           /\ BoundAccess({r \in RT : rt[r].fam = req[q].fam}) \subseteq req[q].doomed

ContainInv == FirstMint /\ (\A f \in Fam : Connected(f)) /\ \A q \in Req : CascadeKnows(q)

\* A finished search has seen the whole family.
LEMMA SearchCovers ==
    ASSUME IInv, NEW q \in Req, NEW f \in Fam, req[q].fam = f, req[q].pc = "walk",
           req[q].queue = {}, NoRowDeleted(f), Connected(f), Searched(q)
    PROVE  \A r \in RT : rt[r].fam = f => r \in req[q].seen
<1> DEFINE seen == req[q].seen
<1>t. /\ req[q].seen \in SUBSET RT /\ req[q].root \in RT /\ req[q].root \in seen
      /\ \A c \in seen : Parents(c) \subseteq seen /\ Children(c) \subseteq seen
  BY DEF IInv, TypeOK, Request, RequestRow, Searched
<1>row. \A r \in RT : rt[r] \in RefreshRow
  BY DEF IInv, TypeOK
<1> HIDE DEF seen
<1>1. rt[req[q].root].fam = f
  BY <1>t, NullAssumption DEF IInv, LinksStayInFamily
<1>2. ASSUME NEW r \in RT, rt[r].fam = f, rt[r].parent # NULL
      PROVE  r \in seen <=> rt[r].parent \in seen
  <2>1. Present(r)
    BY <1>2, <1>row, NullAssumption DEF NoRowDeleted, Present, RefreshRow
  <2>2. rt[r].parent \in Parents(r) /\ r \in Children(rt[r].parent)
    BY <1>2, <2>1 DEF Parents, Children
  <2> QED
    BY <1>t, <2>2
<1>3. LinkClosed(seen, f)
  BY <1>2 DEF LinkClosed
<1> QED
  BY <1>t, <1>1, <1>3 DEF Connected, seen

\* While a cascade is quiet and somebody else moves, what it knows stays true.
LEMMA KnowsThroughOthers ==
    ASSUME IInv, [Next]_vars, NEW q \in Req, NEW f \in Fam, CascadeKnows(q),
           req'[q] = req[q], req[q].fam = f, Quiet(q)'
    PROVE  CascadeKnows(q)'
<1>t. /\ TypeOK /\ TypeOK' /\ LinksStayInFamily /\ LinksStayInFamily' /\ CascadeStaysInFamily
      /\ req[q] \in Request /\ req[q].pc \in CascadePC /\ ~req[q].raced
  BY IInvStep DEF IInv, TypeOK, Quiet
<1>1. NoRowDeleted(f)'
  BY DEF Quiet
<1>2. /\ NoRowDeleted(f)
      /\ \A r \in RT : rt[r].fam = f =>
           /\ Present(r) /\ Present(r)' /\ rt'[r].fam = f /\ (Live(r)' => Live(r))
           /\ rt'[r].parent = rt[r].parent /\ rt'[r].access \in {rt[r].access, NULL}
  BY <1>1, <1>t, FamilyRowsKept
<1>3. Quiet(q)
  BY <1>2, <1>t DEF Quiet
<1>4. \A p \in Req : ~Minting(p, f)
  BY <1>3 DEF CascadeKnows
<1>5. \A s \in RT : rt'[s].fam = f => rt[s].fam = f
  BY <1>4, <1>t, RowIsBorn
<1>6. ASSUME NEW p \in Req, Minting(p, f)' PROVE FALSE
  <2>1. MintFor(p, f)
    BY <1>4, <1>6, <1>t, MintStarts
  <2>2. p # q
    BY <1>6, <1>t DEF Minting
  <2>3. req'[q] = [req[q] EXCEPT !.raced = TRUE]
    BY <1>t, <2>1, <2>2 DEF MintFor
  <2> QED
    BY <1>t, <2>3 DEF Request, RequestRow
<1>7. ASSUME req[q].pc \in {"walk", "children"} PROVE Searched(q)'
  <2>1. Searched(q)
    BY <1>3, <1>7 DEF CascadeKnows
  <2>2. req[q].seen \in SUBSET RT /\ \A c \in req[q].seen : rt[c].fam = f
    BY <1>t DEF CascadeStaysInFamily, Request, RequestRow
  <2>3. ASSUME NEW c \in RT, rt[c].fam = f
        PROVE  Parents(c)' = Parents(c) /\ Children(c)' \subseteq Children(c)
    <3>1. Parents(c)' = Parents(c)
      BY <1>2, <2>3 DEF Parents
    <3>2. ASSUME NEW r \in RT, Present(r)', rt'[r].parent = c PROVE r \in Children(c)
      <4>1. rt'[r].fam = f
        BY <1>2, <1>t, <2>3, <3>2, NullAssumption DEF LinksStayInFamily
      <4> QED
        BY <1>2, <1>5, <3>2, <4>1 DEF Children
    <3> QED
      BY <3>1, <3>2 DEF Children
  <2> QED
    BY <2>1, <2>2, <2>3 DEF Searched
<1>8. ASSUME FamilyRevoked(f) PROVE FamilyRevoked(f)'
  BY <1>2, <1>5, <1>8 DEF FamilyRevoked
<1>9. BoundAccess({r \in RT : rt[r].fam = f})' \subseteq BoundAccess({r \in RT : rt[r].fam = f})
  BY <1>2, <1>5 DEF BoundAccess
<1> QED
  BY <1>3, <1>6, <1>7, <1>8, <1>9 DEF CascadeKnows, Minting

\* A cascade starts quiet: nobody mints, and its root is in sight.
LEMMA KnowsAtStart ==
    ASSUME TypeOK, NEW q \in Req, NEW r \in RT, NEW f \in Fam,
           Become(q, CascadeFrom(q, r, f)), req[q].pc \notin MintPC
    PROVE  CascadeKnows(q)'
<1>1. req'[q] = CascadeFrom(q, r, f) /\ \A p \in Req \ {q} : req'[p] = req[p]
  BY DEF Become, TypeOK
<1>2. /\ req'[q].pc = "walk" /\ req'[q].fam = f /\ req'[q].root = r /\ req'[q].seen = {}
      /\ req'[q].queue = {r} /\ req'[q].sweep = "revoke"
      /\ req'[q].raced = \E p \in Req \ {q} : Minting(p, f)
  BY <1>1 DEF CascadeFrom, IdleRequest
<1>3. ~req'[q].raced => \A p \in Req : ~Minting(p, f)'
  BY <1>1, <1>2 DEF Minting
<1>4. Searched(q)'
  BY <1>2 DEF Searched
<1> QED
  BY <1>2, <1>3, <1>4 DEF CascadeKnows, Quiet, Minting

\* Its own steps: each SELECT of the search, the UPDATE between the two
\* searches, and the list that the second one ends with.
LEMMA KnowsByWalking ==
    ASSUME IInv, [Next]_vars, NEW q \in Req, NEW f \in Fam, CascadeKnows(q), Connected(f),
           req[q].fam = f, Quiet(q)',
           \/ WalkParent(q) \/ WalkChildren(q)
           \/ RevokeFamily(q) \/ ListFamilyAccessTokenIds(q)
    PROVE  CascadeKnows(q)'
<1>t. /\ TypeOK /\ LinksStayInFamily /\ req[q] \in Request
  BY DEF IInv, TypeOK
<1>own. ASSUME NEW o, Become(q, o)
        PROVE  req'[q] = o /\ \A p \in Req \ {q} : req'[p] = req[p]
  BY <1>own, <1>t DEF Become, TypeOK
<1>known. ASSUME req[q].pc \in CascadePC, ~req[q].raced, NoRowDeleted(f)
          PROVE  /\ \A p \in Req : ~Minting(p, f)
                 /\ req[q].pc \in {"walk", "children"} => Searched(q)
                 /\ req[q].sweep = "list" => FamilyRevoked(f)
  BY <1>known DEF CascadeKnows, Quiet
<1>1. ASSUME WalkParent(q) PROVE CascadeKnows(q)'
  <2>1. PICK c \in req[q].queue :
          \/ /\ c \in req[q].seen
             /\ Become(q, [req[q] EXCEPT !.queue = @ \ {c}])
          \/ /\ c \notin req[q].seen
             /\ LET seen == req[q].seen \cup {c} IN
                Become(q, [req[q] EXCEPT !.pc = "children", !.cur = c, !.seen = seen,
                            !.queue = (@ \ {c}) \cup (Parents(c) \ seen)])
    BY <1>1 DEF WalkParent
  <2>pc. req[q].pc = "walk" /\ UNCHANGED <<rt, at>>
    BY <1>1 DEF WalkParent
  <2>2. CASE Become(q, [req[q] EXCEPT !.queue = @ \ {c}]) /\ c \in req[q].seen
    <3>1. req'[q] = [req[q] EXCEPT !.queue = @ \ {c}]
          /\ \A p \in Req \ {q} : req'[p] = req[p]
      BY <1>own, <2>2
    <3>2. /\ req'[q].pc = "walk" /\ req'[q].fam = f /\ req'[q].root = req[q].root
          /\ req'[q].seen = req[q].seen /\ req'[q].queue = req[q].queue \ {c}
          /\ req'[q].sweep = req[q].sweep /\ req'[q].raced = req[q].raced
      BY <1>t, <2>pc, <3>1 DEF Request, RequestRow
    <3>3. ~req[q].raced /\ NoRowDeleted(f)
      BY <2>pc, <3>2 DEF Quiet, NoRowDeleted
    <3>4. Searched(q)'
      BY <1>known, <2>2, <2>pc, <3>2, <3>3 DEF Searched, Parents, Children, Present
    <3>5. FamilyRevoked(f)' <=> FamilyRevoked(f)
      BY <2>pc DEF FamilyRevoked, Live
    <3>6. \A p \in Req : ~Minting(p, f)'
      BY <1>known, <2>pc, <3>1, <3>2, <3>3 DEF Minting
    <3> QED
      BY <1>known, <2>pc, <3>2, <3>3, <3>4, <3>5, <3>6 DEF CascadeKnows, FamilyRevoked, Minting
  <2>3. CASE c \notin req[q].seen
    <3>1. req'[q] = [req[q] EXCEPT !.pc = "children", !.cur = c,
                       !.seen = req[q].seen \cup {c},
                       !.queue = (req[q].queue \ {c}) \cup (Parents(c) \ (req[q].seen \cup {c}))]
          /\ \A p \in Req \ {q} : req'[p] = req[p]
      BY <1>own, <2>1, <2>3
    <3>2. /\ req'[q].pc = "children" /\ req'[q].fam = f /\ req'[q].root = req[q].root
          /\ req'[q].cur = c /\ req'[q].seen = req[q].seen \cup {c}
          /\ req'[q].queue = (req[q].queue \ {c}) \cup (Parents(c) \ (req[q].seen \cup {c}))
          /\ req'[q].sweep = req[q].sweep /\ req'[q].raced = req[q].raced
      BY <1>t, <2>pc, <3>1 DEF Request, RequestRow
    <3>3. ~req[q].raced /\ NoRowDeleted(f)
      BY <2>pc, <3>2 DEF Quiet, NoRowDeleted
    <3>4. Searched(q)'
      BY <1>known, <2>pc, <3>2, <3>3 DEF Searched, Parents, Children, Present
    <3>5. FamilyRevoked(f)' <=> FamilyRevoked(f)
      BY <2>pc DEF FamilyRevoked, Live
    <3>6. \A p \in Req : ~Minting(p, f)'
      BY <1>known, <2>pc, <3>1, <3>2, <3>3 DEF Minting
    <3> QED
      BY <1>known, <2>pc, <3>2, <3>3, <3>4, <3>5, <3>6 DEF CascadeKnows, FamilyRevoked, Minting
  <2> QED
    BY <2>1, <2>2, <2>3
<1>2. ASSUME WalkChildren(q) PROVE CascadeKnows(q)'
  <2>pc. req[q].pc = "children" /\ UNCHANGED <<rt, at>>
    BY <1>2 DEF WalkChildren
  <2>1. req'[q] = [req[q] EXCEPT !.pc = "walk", !.cur = NULL,
                     !.queue = @ \cup (Children(req[q].cur) \ req[q].seen)]
        /\ \A p \in Req \ {q} : req'[p] = req[p]
    BY <1>2, <1>own DEF WalkChildren
  <2>2. /\ req'[q].pc = "walk" /\ req'[q].fam = f /\ req'[q].root = req[q].root
        /\ req'[q].seen = req[q].seen
        /\ req'[q].queue = req[q].queue \cup (Children(req[q].cur) \ req[q].seen)
        /\ req'[q].sweep = req[q].sweep /\ req'[q].raced = req[q].raced
    BY <1>t, <2>pc, <2>1 DEF Request, RequestRow
  <2>3. ~req[q].raced /\ NoRowDeleted(f)
    BY <2>pc, <2>2 DEF Quiet, NoRowDeleted
  <2>4. Searched(q)'
    BY <1>known, <2>pc, <2>2, <2>3 DEF Searched, Parents, Children, Present
  <2>5. FamilyRevoked(f)' <=> FamilyRevoked(f)
    BY <2>pc DEF FamilyRevoked, Live
  <2>6. \A p \in Req : ~Minting(p, f)'
    BY <1>known, <2>pc, <2>1, <2>2, <2>3 DEF Minting
  <2> QED
    BY <1>known, <2>pc, <2>2, <2>3, <2>4, <2>5, <2>6 DEF CascadeKnows, FamilyRevoked, Minting
<1>3. ASSUME RevokeFamily(q) PROVE CascadeKnows(q)'
  <2>pc. req[q].pc = "walk" /\ req[q].queue = {} /\ RevokeRows(req[q].seen)
    BY <1>3 DEF RevokeFamily, WalkDone
  <2>1. req'[q] = [req[q] EXCEPT !.sweep = "list", !.seen = {}, !.queue = {req[q].root}]
        /\ \A p \in Req \ {q} : req'[p] = req[p]
    BY <1>3, <1>own DEF RevokeFamily
  <2>2. /\ req'[q].pc = "walk" /\ req'[q].fam = f /\ req'[q].root = req[q].root
        /\ req'[q].seen = {} /\ req'[q].queue = {req[q].root}
        /\ req'[q].raced = req[q].raced
    BY <1>t, <2>pc, <2>1 DEF Request, RequestRow
  <2>3. ~req[q].raced /\ NoRowDeleted(f)'
    BY <2>2 DEF Quiet
  <2>4. NoRowDeleted(f)
    BY <1>t, <2>3, FamilyRowsKept
  <2>5. Searched(q)'
    BY <2>2 DEF Searched
  <2>6. \A r \in RT : rt[r].fam = f => r \in req[q].seen
    BY <1>known, <2>pc, <2>3, <2>4, SearchCovers
  <2>7. \A r \in RT : rt[r] \in RefreshRow
    BY <1>t DEF TypeOK
  <2>8. FamilyRevoked(f)'
    BY <2>pc, <2>6, <2>7 DEF FamilyRevoked, RevokeRows, Live, RefreshRow
  <2>9. \A p \in Req : ~Minting(p, f)'
    BY <1>known, <2>pc, <2>1, <2>2, <2>3, <2>4 DEF Minting
  <2> QED
    BY <2>2, <2>5, <2>8, <2>9 DEF CascadeKnows, FamilyRevoked, Minting
<1>4. ASSUME ListFamilyAccessTokenIds(q) PROVE CascadeKnows(q)'
  <2>pc. /\ req[q].pc = "walk" /\ req[q].queue = {} /\ req[q].sweep = "list"
         /\ UNCHANGED <<rt, at>>
    BY <1>4 DEF ListFamilyAccessTokenIds, WalkDone
  <2>0. Become(q, [req[q] EXCEPT !.pc = "expire_access", !.doomed = BoundAccess(req[q].seen)])
        \/ Become(q, IdleRequest)
    BY <1>4 DEF ListFamilyAccessTokenIds
  <2>i. ~Become(q, IdleRequest)
    <3>1. IdleRequest.pc = "idle"
      BY DEF IdleRequest
    <3> QED
      BY <1>own, <3>1 DEF Quiet
  <2>1. req'[q] = [req[q] EXCEPT !.pc = "expire_access", !.doomed = BoundAccess(req[q].seen)]
        /\ \A p \in Req \ {q} : req'[p] = req[p]
    BY <1>own, <2>0, <2>i
  <2>2. /\ req'[q].pc = "expire_access" /\ req'[q].fam = f /\ req'[q].sweep = "list"
        /\ req'[q].doomed = BoundAccess(req[q].seen) /\ req'[q].raced = req[q].raced
    BY <1>t, <2>pc, <2>1 DEF Request, RequestRow
  <2>3. ~req[q].raced /\ NoRowDeleted(f)
    BY <2>pc, <2>2 DEF Quiet, NoRowDeleted
  <2>4. \A r \in RT : rt[r].fam = f => r \in req[q].seen
    BY <1>known, <2>pc, <2>3, SearchCovers
  <2>5. BoundAccess({r \in RT : rt[r].fam = f})' \subseteq req'[q].doomed
    BY <2>pc, <2>2, <2>4 DEF BoundAccess, Present
  <2>6. \A p \in Req : ~Minting(p, f)'
    BY <1>known, <2>pc, <2>1, <2>2, <2>3 DEF Minting
  <2>7. FamilyRevoked(f)'
    BY <1>known, <2>pc, <2>3 DEF FamilyRevoked, Live
  <2> QED
    BY <2>2, <2>5, <2>6, <2>7 DEF CascadeKnows, FamilyRevoked, Minting
<1> QED
  BY <1>1, <1>2, <1>3, <1>4

LEMMA KnowsStep ==
    ASSUME IInv, [Next]_vars, NEW q \in Req, CascadeKnows(q), \A f \in Fam : Connected(f)
    PROVE  CascadeKnows(q)'
<1> SUFFICES ASSUME Quiet(q)' PROVE CascadeKnows(q)'
  BY DEF CascadeKnows
<1>t. /\ TypeOK /\ LinksStayInFamily /\ req[q] \in Request /\ req'[q] \in Request
      /\ req'[q].pc \in CascadePC /\ ~req'[q].raced
  BY TypeStep DEF IInv, TypeOK, Quiet
<1>1. ASSUME NEW o, Become(q, o), o.pc \notin CascadePC PROVE FALSE
  BY <1>1, <1>t DEF Become, TypeOK
<1>2. ASSUME NEW f, MintFor(q, f) PROVE FALSE
  BY <1>2, <1>t DEF MintFor, Request, RequestRow
<1>3. ASSUME req'[q] = req[q] PROVE CascadeKnows(q)'
  <2>1. PICK f \in Fam : req[q].fam = f
    BY <1>3, <1>t DEF Request
  <2> QED
    BY <1>3, <2>1, KnowsThroughOthers
<1>4. ASSUME req'[q] = [req[q] EXCEPT !.raced = TRUE] PROVE FALSE
  BY <1>4, <1>t DEF Request, RequestRow
<1>5. ASSUME NEW r \in RT, NEW f \in Fam, Become(q, CascadeFrom(q, r, f)),
             req[q].pc \notin MintPC
      PROVE  CascadeKnows(q)'
  BY <1>5, <1>t, KnowsAtStart
<1>idle. IdleRequest.pc = "idle"
  BY DEF IdleRequest
<1>6. ASSUME WalkParent(q) \/ WalkChildren(q) \/ RevokeFamily(q) \/ ListFamilyAccessTokenIds(q)
      PROVE  CascadeKnows(q)'
  <2>1. req[q].pc \in CascadePC
    BY <1>6 DEF WalkParent, WalkChildren, RevokeFamily, ListFamilyAccessTokenIds, WalkDone
  <2>2. PICK f \in Fam : req[q].fam = f
    BY <1>t, <2>1 DEF Request
  <2> QED
    BY <1>6, <2>2, KnowsByWalking
<1>8. ASSUME NEW r \in RT, LookupRefreshToken(q, r) PROVE CascadeKnows(q)'
  <2>1. [req[q] EXCEPT !.pc = "rt_found", !.fam = rt[r].fam, !.root = r].pc = "rt_found"
    BY <1>t DEF Request, RequestRow
  <2>2. rt[r].st = "revoked" /\ Become(q, CascadeFrom(q, r, rt[r].fam)) /\ req[q].pc = "idle"
    <3> HIDE DEF CascadeFrom
    <3> QED
      BY <1>1, <1>8, <2>1 DEF LookupRefreshToken
  <2>3. PICK f \in Fam : rt[r].fam = f
    BY <1>t, <2>2 DEF TypeOK, RefreshRow
  <2> QED
    BY <1>5, <2>2, <2>3
<1>9. ASSUME CheckSubject(q) PROVE CascadeKnows(q)'
  <2>1. [req[q] EXCEPT !.pc = "rt_allowed"].pc = "rt_allowed"
    BY <1>t DEF Request, RequestRow
  <2>2. Become(q, CascadeFrom(q, req[q].root, req[q].fam)) /\ req[q].pc = "rt_found"
    BY <1>1, <1>9, <2>1 DEF CheckSubject
  <2>3. PICK r \in RT, f \in Fam : req[q].root = r /\ req[q].fam = f
    BY <1>t, <2>2 DEF Request
  <2> QED
    BY <1>5, <2>2, <2>3
<1>10. ASSUME RevokePresented(q) PROVE CascadeKnows(q)'
  <2>1. Become(q, CascadeFrom(q, req[q].root, req[q].fam)) /\ req[q].pc = "rt_allowed"
    BY <1>2, <1>10 DEF RevokePresented
  <2>2. PICK r \in RT, f \in Fam : req[q].root = r /\ req[q].fam = f
    BY <1>t, <2>1 DEF Request
  <2> QED
    BY <1>5, <2>1, <2>2
<1>11. ~MarkUsed(q) /\ ~Respond(q) /\ ~Abandon(q) /\ ~ExpireAccessTokensByIds(q)
  BY <1>1, <1>2, <1>idle DEF MarkUsed, Respond, Abandon, ExpireAccessTokensByIds
<1>12. ~CreateAccessToken(q)
  <2>1. \A a : [req[q] EXCEPT !.pc = "mint_refresh", !.access = a].pc = "mint_refresh"
    BY <1>t DEF Request, RequestRow
  <2> QED
    BY <1>1, <2>1 DEF CreateAccessToken
<1>13. ~CreateRefreshToken(q)
  <2>1. \A r : [req[q] EXCEPT !.pc = "respond", !.refresh = r].pc = "respond"
    BY <1>t DEF Request, RequestRow
  <2> QED
    BY <1>1, <1>idle, <2>1 DEF CreateRefreshToken
<1>14. ASSUME NEW f \in Fam PROVE ~ExchangeClientCredentials(q, f) /\ ~LookupCode(q, f)
  <2>1. [req[q] EXCEPT !.pc = "code_found", !.fam = f].pc = "code_found"
    BY <1>t DEF Request, RequestRow
  <2> QED
    BY <1>1, <1>2, <2>1 DEF ExchangeClientCredentials, LookupCode
<1>15. ASSUME OwnStep(q) PROVE CascadeKnows(q)'
  BY <1>6, <1>8, <1>9, <1>10, <1>11, <1>12, <1>13, <1>14, <1>15 DEF OwnStep, RequestStep
<1> QED
  BY <1>3, <1>4, <1>15, <1>t, Bystander

LEMMA ContainInit == Init => ContainInv
<1> SUFFICES ASSUME Init PROVE ContainInv
  OBVIOUS
<1>1. (\A r \in RT : rt[r].fam = NULL) /\ \A q \in Req : req[q].pc = "idle"
  BY DEF Init, IdleRequest
<1>2. \A f \in Fam : Connected(f)
  BY <1>1, NullAssumption DEF Connected
<1> QED
  BY <1>1, <1>2 DEF ContainInv, FirstMint, CascadeKnows, Quiet

LEMMA ContainStep == IInv /\ ContainInv /\ [Next]_vars => ContainInv'
<1> SUFFICES ASSUME IInv, ContainInv, [Next]_vars PROVE ContainInv'
  OBVIOUS
<1>1. FirstMint'
  BY FirstMintStep DEF ContainInv
<1>2. \A f \in Fam : Connected(f)'
  BY ConnectedStep DEF ContainInv
<1>3. \A q \in Req : CascadeKnows(q)'
  BY KnowsStep DEF ContainInv
<1> QED
  BY <1>1, <1>2, <1>3 DEF ContainInv

\* What ContainInv and HeldAccessIsReachable say of the step that ends a cascade.
LEMMA QuietEndKillsFamily ==
    ASSUME IInv, ContainInv, HeldAccessIsReachable, [Next]_vars, NEW q \in Req, NEW f \in Fam,
           CascadeEnds(q), req[q].fam = f, ~req[q].raced, NoRowDeleted(f)
    PROVE  FamilyDead(f)'
<1>t. /\ req[q].pc \in CascadePC /\ Quiet(q) /\ CascadeKnows(q) /\ Connected(f)
      /\ req[q] \in Request
  BY DEF IInv, TypeOK, ContainInv, CascadeEnds, ListFamilyAccessTokenIds,
     ExpireAccessTokensByIds, WalkDone, Quiet
<1>1. ASSUME NEW S, BoundAccess({r \in RT : rt[r].fam = f}) \subseteq S,
             NEW a \in AT, a \in held, at[a].fam = f, at[a].st = "live"
      PROVE  a \in S
  BY <1>1, NullAssumption DEF HeldAccessIsReachable, BoundAccess
<1>2. CASE ListFamilyAccessTokenIds(q)
  <2>pc. req[q].pc = "walk" /\ req[q].queue = {} /\ req[q].sweep = "list"
         /\ UNCHANGED <<rt, at, held>>
    BY <1>2 DEF ListFamilyAccessTokenIds, WalkDone
  <2>1. BoundAccess(req[q].seen) = {}
    <3>1. [req[q] EXCEPT !.pc = "expire_access", !.doomed = BoundAccess(req[q].seen)].pc
            = "expire_access"
      BY <1>t DEF Request, RequestRow
    <3> QED
      BY <1>2, <3>1 DEF ListFamilyAccessTokenIds, Become, CascadeEnds, IInv, TypeOK
  <2>2. \A r \in RT : rt[r].fam = f => r \in req[q].seen
    BY <1>t, <2>pc, SearchCovers DEF CascadeKnows
  <2>3. BoundAccess({r \in RT : rt[r].fam = f}) \subseteq {}
    BY <2>1, <2>2 DEF BoundAccess
  <2>4. FamilyRevoked(f)
    BY <1>t, <2>pc DEF CascadeKnows
  <2>5. \A a \in AT : a \in held /\ at[a].fam = f => at[a].st # "live"
    BY <1>1, <2>3
  <2> QED
    BY <2>pc, <2>4, <2>5 DEF FamilyDead, FamilyRevoked, Live
<1>3. CASE ExpireAccessTokensByIds(q)
  <2>pc. req[q].pc = "expire_access" /\ ExpireAccess(req[q].doomed) /\ UNCHANGED <<rt, held>>
    BY <1>3 DEF ExpireAccessTokensByIds
  <2>1. /\ FamilyRevoked(f)
        /\ BoundAccess({r \in RT : rt[r].fam = f}) \subseteq req[q].doomed
    BY <1>t, <2>pc DEF CascadeKnows
  <2>2. \A a \in AT : at[a] \in AccessRow
    BY DEF IInv, TypeOK
  <2>3. ASSUME NEW a \in AT, a \in held, at'[a].fam = f PROVE at'[a].st # "live"
    <3>1. at[a].fam = f
      BY <2>pc, <2>2, <2>3 DEF ExpireAccess, AccessRow
    <3>2. at[a].st = "live" => a \in req[q].doomed
      BY <1>1, <2>1, <2>3, <3>1
    <3> QED
      BY <2>pc, <2>2, <3>2 DEF ExpireAccess, AccessRow
  <2> QED
    BY <2>pc, <2>1, <2>3 DEF FamilyDead, FamilyRevoked, Live
<1> QED
  BY <1>2, <1>3 DEF CascadeEnds

\* CascadeContains: when a cascade ends that no rotation of its family raced
\* with, and no row of the family was deleted, no refresh token of the family
\* is live and no access token that was handed out for it is usable.
THEOREM CascadeContainsHolds == Spec => CascadeContains
<1> DEFINE Step == \A q \in Req, f \in Fam :
                     CascadeEnds(q) /\ req[q].fam = f /\ ~req[q].raced /\ NoRowDeleted(f)
                       => FamilyDead(f)'
<1>1. IInv /\ ContainInv /\ HeldAccessIsReachable /\ [Next]_vars => [Step]_vars
  BY QuietEndKillsFamily
<1> HIDE DEF Step
<1>2. Spec => [](ContainInv)
  BY Invariance, ContainInit, ContainStep, PTL DEF Spec
<1>3. Spec => [][Step]_vars
  BY <1>1, <1>2, Invariance, HeldAccessReachable, PTL DEF Spec
<1> QED
  BY <1>3 DEF CascadeContains, Step
=============================================================================

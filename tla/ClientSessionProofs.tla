------------------------- MODULE ClientSessionProofs -------------------------
(***************************************************************************)
(* Proofs about ClientSession for any number of grants, rows and calls.    *)
(* SessionInv says where the session of an undisturbed manager is at every *)
(* moment: in the refresh token it holds, with the one request that is     *)
(* renewing it, or in the answer that is on its way back.  At the end, the *)
(* sum of the five parts that MCTokenEndpoint runs.                        *)
(***************************************************************************)
EXTENDS MCTokenEndpoint, TokenRotationProofs, ScopeGrantsProofs, CredentialProofs

\* The right to continue the session has left the table for a moment.
Renewing(q) == req[q].pc \in MintPC \cup {"respond"} \/ call[q].pc = "answered"

Undisturbed == ~ shared /\ ~ lost

\* What is in flight, and whose it is.
OwnCalls ==
    /\ \A p, q \in Calling : p = q
    /\ \A q \in Req : /\ req[q].pc \notin CascadePC
                      /\ call[q].pc = "sent" => call[q].refresh = manager.refresh
                      /\ req[q].pc \in {"rt_found", "rt_allowed"} =>
                            req[q].root = manager.refresh

\* Every pair that is held or under way is good.
GoodPairs ==
    /\ manager.refresh # NULL => Live(manager.refresh) \/ \E q \in Req : Renewing(q)
    /\ manager.fresh => at[manager.access].st = "live"
    /\ \A q \in Req :
         /\ req[q].pc \in {"mint_refresh", "respond"} => at[req[q].access].st = "live"
         /\ req[q].pc = "respond" => Live(req[q].refresh)
         /\ call[q].pc = "answered" => /\ at[call[q].access].st = "live"
                                       /\ Live(call[q].refresh)

\* Nothing takes rows away, and the subject keeps its access.
NothingEnds == (\A r \in RT : rt[r].st # "deleted") /\ \A f \in Fam : perm[f]

PairsNamed ==
    /\ manager.fresh => manager.access \in AT
    /\ \A q \in Req : call[q].pc = "answered" => call[q].access \in AT /\ call[q].refresh \in RT
    /\ \A q \in Req : call[q].pc = "sent" => call[q].refresh \in RT

SessionInv ==
    /\ SessionTypeOK /\ PairsNamed /\ NothingEnds
    /\ Undisturbed => OwnCalls /\ GoodPairs

Call == [pc : {"idle", "sent", "served", "answered"},
         access : AT \cup {NULL}, refresh : RT \cup {NULL}]

\* Every step of a session is a step of the token endpoint, or none.
LEMMA SessionSteps ==
    ASSUME PairsNamed, [SessionNext]_<<vars, sessionVars>>
    PROVE  [Next]_vars
  <1>1. ASSUME NEW q \in Req, Arrive(q) PROVE [Next]_vars
    <2>1. call[q].refresh \in RT
      BY <1>1 DEF Arrive, PairsNamed
    <2> QED
      BY <1>1, <2>1 DEF Arrive, Next, Requests
  <1>2. ASSUME NEW q \in Req, NEW f \in Fam, SignIn(q, f) PROVE [Next]_vars
    BY <1>2 DEF SignIn, Next, Requests
  <1>3. ASSUME NEW q \in Req, Serve(q) \/ ServerFails(q) PROVE [Next]_vars
    BY <1>3 DEF Serve, ServerFails, Next, Requests
  <1>4. ASSUME NEW q \in Req, GetAccessToken(q) \/ SetTokens(q) \/ ConnectionFails(q)
        PROVE  [Next]_vars
    BY <1>4 DEF GetAccessToken, SetTokens, ConnectionFails
  <1>5. ASSUME GoesStale \/ Lapse PROVE [Next]_vars
    BY <1>5 DEF GoesStale, Lapse, Next, Environment
  <1>6. ASSUME NEW f \in Fam, Authorize(f) PROVE [Next]_vars
    BY <1>6 DEF Next, Environment
  <1>7. CASE UNCHANGED <<vars, sessionVars>>
    BY <1>7
  <1> QED
    BY <1>1, <1>2, <1>3, <1>4, <1>5, <1>6, <1>7 DEF SessionNext

\* While one call of an undisturbed manager is under way there is no other.
LEMMA OnlyCall ==
    ASSUME SessionInv, Undisturbed, NEW q \in Calling
    PROVE  \A p \in Req \ {q} : call[p].pc = "idle" /\ req[p].pc = "idle"
  BY DEF SessionInv, OwnCalls, Calling, SessionTypeOK

LEMMA NoneCalling ==
    ASSUME SessionInv, Calling = {}
    PROVE  \A p \in Req : call[p].pc = "idle" /\ req[p].pc = "idle"
  BY DEF SessionInv, Calling, SessionTypeOK

\* The token of a manager that is not being renewed is not revoked.
LEMMA HeldIsLive ==
    ASSUME SessionInv, Undisturbed, manager.refresh # NULL, \A q \in Req : ~ Renewing(q)
    PROVE  Live(manager.refresh)
  BY DEF SessionInv, GoodPairs

LEMMA NoCallType == NoCall \in Call /\ NoCall.pc = "idle"
  BY DEF NoCall, Call

LEMMA SessionInvInit == SessionInit => SessionInv
  <1> SUFFICES ASSUME SessionInit PROVE SessionInv
    OBVIOUS
  <1>1. TypeOK
    BY TypeInit DEF SessionInit
  <1>2. /\ \A q \in Req : req[q].pc = "idle" /\ call[q] = NoCall
        /\ manager = [access |-> NULL, refresh |-> NULL, fresh |-> FALSE]
        /\ \A r \in RT : rt[r].st = "unborn" /\ \A f \in Fam : perm[f]
    BY DEF SessionInit, Init, IdleRequest
  <1>3. SessionTypeOK
    <2>1. manager \in [access : AT \cup {NULL}, refresh : RT \cup {NULL}, fresh : BOOLEAN]
      BY <1>2
    <2>2. call \in [Req -> Call]
      BY NoCallType DEF SessionInit
    <2> QED
      BY <1>1, <1>2, <2>1, <2>2 DEF SessionInit, SessionTypeOK, Call
  <1>4. PairsNamed /\ NothingEnds
    BY <1>2 DEF PairsNamed, NothingEnds, NoCall, SessionInit, Init
  <1>5. OwnCalls /\ GoodPairs
    BY <1>2 DEF OwnCalls, GoodPairs, Calling, NoCall, CascadePC
  <1> QED
    BY <1>3, <1>4, <1>5 DEF SessionInv

\* The application may sign in anew while it holds a session.
LEMMA SignInStep ==
    ASSUME SessionInv, TypeOK', NEW q \in Req, NEW f \in Fam, SignIn(q, f)
    PROVE  SessionInv'
  <1>1. /\ \A p \in Req : call[p].pc = "idle" /\ req[p].pc = "idle"
        /\ call \in [Req -> Call] /\ req \in [Req -> Request]
    BY NoneCalling DEF SignIn, SessionInv, SessionTypeOK, Call, TypeOK
  <1>2. /\ call'[q] = [call[q] EXCEPT !.pc = "served"] /\ req'[q].pc = "code_found"
        /\ \A p \in Req \ {q} : call'[p] = call[p] /\ req'[p] = req[p]
        /\ UNCHANGED <<codes, perm, rt, at, held, manager, shared, lost>>
    <2>1. /\ call' = [call EXCEPT ![q].pc = "served"]
          /\ req' = [req EXCEPT ![q] = [req[q] EXCEPT !.pc = "code_found", !.fam = f]]
          /\ UNCHANGED <<codes, perm, rt, at, held, manager, shared, lost>>
      BY DEF SignIn, LookupCode, Become
    <2>2. [req[q] EXCEPT !.pc = "code_found", !.fam = f].pc = "code_found"
      BY <1>1 DEF Request, RequestRow
    <2> QED
      BY <1>1, <2>1, <2>2
  <1>3. call' \in [Req -> Call] /\ call'[q].pc = "served"
    BY <1>1 DEF SignIn, Call
  <1>4. SessionTypeOK'
    BY <1>1, <1>2, <1>3 DEF SessionInv, SessionTypeOK, Call
  <1>5. PairsNamed' /\ NothingEnds'
    BY <1>1, <1>2, <1>3 DEF SessionInv, PairsNamed, NothingEnds
  <1>6. ASSUME Undisturbed' PROVE OwnCalls'
    <2>1. \A p \in Req \ {q} : call'[p].pc = "idle" /\ req'[p].pc = "idle"
      BY <1>1, <1>2
    <2>2. \A p \in Calling' : p = q
      BY <2>1 DEF Calling
    <2> QED
      BY <1>2, <1>3, <2>1, <2>2 DEF OwnCalls, CascadePC
  <1>7. ASSUME Undisturbed' PROVE GoodPairs'
    <2>1. Undisturbed
      BY <1>2, <1>7 DEF Undisturbed
    <2>2. manager.refresh # NULL => Live(manager.refresh)
      BY <1>1, <2>1, HeldIsLive DEF Renewing, MintPC
    <2> QED
      BY <1>1, <1>2, <1>3, <2>1, <2>2 DEF SessionInv, GoodPairs, Live
  <1> QED
    BY <1>4, <1>5, <1>6, <1>7 DEF SessionInv

LEMMA GetAccessTokenStep ==
    ASSUME SessionInv, TypeOK', NEW q \in Req, GetAccessToken(q)
    PROVE  SessionInv'
  <1>1. /\ call \in [Req -> Call]
        /\ manager \in [access : AT \cup {NULL}, refresh : RT \cup {NULL}, fresh : BOOLEAN]
        /\ call[q].pc = "idle" /\ manager.refresh \in RT
        /\ req[q].pc = "idle"
    BY DEF GetAccessToken, SessionInv, SessionTypeOK, Call
  <1>2. /\ call'[q] = [pc |-> "sent", access |-> NULL, refresh |-> manager.refresh]
        /\ \A p \in Req \ {q} : call'[p] = call[p]
        /\ call' \in [Req -> Call]
        /\ shared' = (shared \/ Calling # {})
        /\ UNCHANGED <<codes, perm, rt, at, held, req, manager, lost>>
    BY <1>1 DEF GetAccessToken, Call, NoCall, vars
  <1>3. shared' \in BOOLEAN
    BY <1>2 DEF SessionInv, SessionTypeOK
  <1>4. SessionTypeOK'
    BY <1>1, <1>2, <1>3 DEF SessionInv, SessionTypeOK, Call
  <1>5. PairsNamed' /\ NothingEnds'
    BY <1>1, <1>2 DEF SessionInv, PairsNamed, NothingEnds
  <1>6. ASSUME Undisturbed' PROVE OwnCalls' /\ GoodPairs'
    <2>1. Undisturbed /\ Calling = {}
      BY <1>2, <1>6 DEF Undisturbed
    <2>2. \A p \in Req : call[p].pc = "idle" /\ req[p].pc = "idle"
      BY <2>1, NoneCalling
    <2>3. Live(manager.refresh)
      BY <1>1, <2>1, <2>2, HeldIsLive DEF Renewing, MintPC, GetAccessToken
    <2>4. OwnCalls'
      BY <1>2, <2>2 DEF OwnCalls, Calling, CascadePC
    <2>5. GoodPairs'
      BY <1>2, <2>1, <2>2, <2>3 DEF SessionInv, GoodPairs, Live
    <2> QED
      BY <2>4, <2>5
  <1> QED
    BY <1>4, <1>5, <1>6 DEF SessionInv

LEMMA SetTokensStep ==
    ASSUME SessionInv, TypeOK', NEW q \in Req, SetTokens(q)
    PROVE  SessionInv'
  <1>1. /\ call \in [Req -> Call] /\ call[q].pc = "answered" /\ q \in Calling
        /\ call[q].access \in AT /\ call[q].refresh \in RT
        /\ req[q].pc = "idle"
    BY DEF SetTokens, SessionInv, SessionTypeOK, Call, PairsNamed, Calling
  <1>2. /\ manager' = [access |-> call[q].access, refresh |-> call[q].refresh, fresh |-> TRUE]
        /\ call'[q].pc = "idle" /\ \A p \in Req \ {q} : call'[p] = call[p]
        /\ call' \in [Req -> Call]
        /\ UNCHANGED <<codes, perm, rt, at, held, req, shared, lost>>
    BY <1>1, NoCallType DEF SetTokens, Stored, vars
  <1>3. SessionTypeOK'
    BY <1>1, <1>2 DEF SessionInv, SessionTypeOK, Call
  <1>4. PairsNamed' /\ NothingEnds'
    BY <1>1, <1>2 DEF SessionInv, PairsNamed, NothingEnds
  <1>5. ASSUME Undisturbed' PROVE OwnCalls' /\ GoodPairs'
    <2>1. Undisturbed
      BY <1>2, <1>5 DEF Undisturbed
    <2>2. \A p \in Req \ {q} : call[p].pc = "idle" /\ req[p].pc = "idle"
      BY <1>1, <2>1, OnlyCall
    <2>3. Live(call[q].refresh) /\ at[call[q].access].st = "live"
      BY <1>1, <2>1 DEF SessionInv, GoodPairs
    <2>4. OwnCalls'
      BY <1>1, <1>2, <2>2 DEF OwnCalls, Calling, CascadePC
    <2>5. GoodPairs'
      BY <1>1, <1>2, <2>2, <2>3 DEF GoodPairs, Live
    <2> QED
      BY <2>4, <2>5
  <1> QED
    BY <1>3, <1>4, <1>5 DEF SessionInv

\* What a step of a request leaves alone.
LEMMA RequestFrame ==
    ASSUME TypeOK, NEW q \in Req, RequestStep(q)
    PROVE  /\ perm' = perm
           /\ \A r \in RT : rt'[r].st = "deleted" => rt[r].st = "deleted"
           /\ \A p \in Req \ {q} : req'[p].pc = req[p].pc
           /\ req[q].pc # "idle"
  <1>1. /\ rt \in [RT -> RefreshRow] /\ req \in [Req -> Request]
        /\ req[q] \in RequestRow
    BY DEF TypeOK, Request
  <1>2. ASSUME NEW g \in Fam \cup {NULL}, MintFor(q, g)
        PROVE  \A p \in Req \ {q} : req'[p].pc = req[p].pc
    BY <1>1, <1>2 DEF MintFor, Request, RequestRow
  <1>3. ASSUME NEW next, Become(q, next)
        PROVE  \A p \in Req \ {q} : req'[p].pc = req[p].pc
    BY <1>1, <1>3 DEF Become
  <1>4. CASE MarkUsed(q)
    BY <1>1, <1>2, <1>3, <1>4 DEF MarkUsed, RequestRow
  <1>5. CASE CheckSubject(q)
    BY <1>1, <1>3, <1>5 DEF CheckSubject
  <1>6. CASE RevokePresented(q)
    <2>1. ASSUME NEW r \in RT, rt' = [rt EXCEPT ![r].st = "revoked"]
          PROVE  \A s \in RT : rt'[s].st = "deleted" => rt[s].st = "deleted"
      BY <1>1, <2>1 DEF RefreshRow
    <2>2. req[q].root \in RT
      BY <1>1, <1>6 DEF RevokePresented, Request
    <2> QED
      BY <1>1, <1>2, <1>3, <1>6, <2>1, <2>2 DEF RevokePresented, RequestRow
  <1>7. CASE CreateAccessToken(q)
    BY <1>1, <1>3, <1>7 DEF CreateAccessToken
  <1>8. CASE CreateRefreshToken(q)
    <2>1. ASSUME NEW r \in RT, rt' = [rt EXCEPT ![r] = NewRefreshRow(q)]
          PROVE  \A s \in RT : rt'[s].st = "deleted" => rt[s].st = "deleted"
      BY <1>1, <2>1 DEF NewRefreshRow
    <2>2. Unborn(rt) \subseteq RT
      BY <1>1 DEF Unborn
    <2> QED
      BY <1>3, <1>8, <2>1, <2>2 DEF CreateRefreshToken
  <1>9. CASE Respond(q)
    BY <1>3, <1>9 DEF Respond
  <1>10. CASE WalkParent(q)
    BY <1>3, <1>10 DEF WalkParent
  <1>11. CASE WalkChildren(q)
    BY <1>3, <1>11 DEF WalkChildren
  <1>12. CASE RevokeFamily(q)
    <2>1. \A s \in RT : rt'[s].st = "deleted" => rt[s].st = "deleted"
      BY <1>1, <1>12 DEF RevokeFamily, RevokeRows, RefreshRow
    <2> QED
      BY <1>3, <1>12, <2>1 DEF RevokeFamily, WalkDone
  <1>13. CASE ListFamilyAccessTokenIds(q)
    BY <1>3, <1>13 DEF ListFamilyAccessTokenIds, WalkDone
  <1>14. CASE ExpireAccessTokensByIds(q)
    BY <1>3, <1>14 DEF ExpireAccessTokensByIds
  <1> QED
    BY <1>4, <1>5, <1>6, <1>7, <1>8, <1>9, <1>10, <1>11, <1>12, <1>13, <1>14 DEF RequestStep

\* A refresh token that reaches the server is the one the manager holds, and it
\* is not taken for reuse.
LEMMA ArriveStep ==
    ASSUME SessionInv, TypeOK', NEW q \in Req, Arrive(q)
    PROVE  SessionInv'
  <1> DEFINE r == call[q].refresh
  <1>1. /\ call \in [Req -> Call] /\ req \in [Req -> Request]
        /\ call[q].pc = "sent" /\ q \in Calling /\ r \in RT
        /\ req[q].pc = "idle"
    BY DEF Arrive, SessionInv, SessionTypeOK, Call, PairsNamed, Calling, TypeOK
  <1>2. /\ UNCHANGED <<codes, perm, rt, at, held, manager, shared, lost>>
        /\ \A p \in Req \ {q} : req'[p] = req[p] /\ call'[p] = call[p]
        /\ \/ LookupRefreshToken(q, r) /\ call'[q] = [NoCall EXCEPT !.pc = "served"]
           \/ Live(r) /\ call'[q] = NoCall /\ req' = req
        /\ call' \in [Req -> Call]
    <2>1. [NoCall EXCEPT !.pc = "served"] \in Call /\ NoCall \in Call
      BY DEF NoCall, Call
    <2>2. CASE LookupRefreshToken(q, r) /\ call' = [call EXCEPT ![q] = [NoCall EXCEPT !.pc = "served"]]
      BY <1>1, <2>1, <2>2 DEF LookupRefreshToken, Become, Arrive
    <2>3. CASE Live(r) /\ UNCHANGED vars /\ call' = [call EXCEPT ![q] = NoCall]
      BY <1>1, <2>1, <2>3 DEF vars, Arrive
    <2> QED
      BY <2>2, <2>3 DEF Arrive
  <1>3. /\ call'[q].pc \in {"served", "idle"}
        /\ call'[q].pc = "idle" => req'[q].pc = "idle"
    BY <1>1, <1>2 DEF NoCall
  <1>4. SessionTypeOK'
    BY <1>1, <1>2, <1>3 DEF SessionInv, SessionTypeOK, Call
  <1>5. PairsNamed' /\ NothingEnds'
    BY <1>1, <1>2, <1>3 DEF SessionInv, PairsNamed, NothingEnds
  <1>6. ASSUME Undisturbed' PROVE OwnCalls' /\ GoodPairs'
    <2>1. Undisturbed
      BY <1>2, <1>6 DEF Undisturbed
    <2>2. \A p \in Req \ {q} : call[p].pc = "idle" /\ req[p].pc = "idle"
      BY <1>1, <2>1, OnlyCall
    <2>3. r = manager.refresh /\ manager.refresh # NULL
      BY <1>1, <2>1, NullAssumption DEF SessionInv, OwnCalls
    <2>4. Live(r)
      BY <1>1, <2>1, <2>2, <2>3, HeldIsLive DEF Renewing, MintPC
    <2>5. \/ req'[q].pc = "rt_found" /\ req'[q].root = r
          \/ req'[q].pc = "idle"
      <3>1. CASE LookupRefreshToken(q, r)
        <4>1. req' = [req EXCEPT ![q] = [req[q] EXCEPT !.pc = "rt_found", !.fam = rt[r].fam, !.root = r]]
          BY <2>4, <3>1 DEF LookupRefreshToken, Live, Become
        <4>2. req[q] \in RequestRow
          BY <1>1 DEF Request
        <4> QED
          BY <1>1, <4>1, <4>2 DEF RequestRow
      <3> QED
        BY <1>1, <1>2, <3>1
    <2>6. \A p \in Calling' : p = q
      BY <1>2, <2>2 DEF Calling
    <2>7. OwnCalls'
      BY <1>2, <1>3, <2>2, <2>3, <2>5, <2>6 DEF OwnCalls, CascadePC
    <2>8. GoodPairs'
      BY <1>2, <1>3, <2>1, <2>2, <2>3, <2>4, <2>5 DEF SessionInv, GoodPairs, Live
    <2> QED
      BY <2>7, <2>8
  <1> QED
    BY <1>4, <1>5, <1>6 DEF SessionInv

\* What holds of every step of a request, whoever disturbs it.
LEMMA ServeKeepsTypes ==
    ASSUME SessionInv, TypeOK', NEW q \in Req, Serve(q)
    PROVE  /\ SessionTypeOK' /\ PairsNamed' /\ NothingEnds'
           /\ \A p \in Req \ {q} : call'[p] = call[p] /\ req'[p].pc = req[p].pc
           /\ UNCHANGED <<manager, shared, lost>>
           /\ IF Respond(q)
              THEN call'[q] = [pc |-> "answered", access |-> req[q].access,
                               refresh |-> req[q].refresh]
              ELSE call'[q] = IF req'[q].pc = "idle" THEN NoCall ELSE call[q]
  <1>1. /\ TypeOK /\ call \in [Req -> Call] /\ req \in [Req -> Request]
        /\ call[q].pc = "served" /\ RequestStep(q)
    BY DEF Serve, SessionInv, SessionTypeOK, Call, TypeOK
  <1>2. /\ perm' = perm
        /\ \A r \in RT : rt'[r].st = "deleted" => rt[r].st = "deleted"
        /\ \A p \in Req \ {q} : req'[p].pc = req[p].pc
    BY <1>1, RequestFrame
  <1>3. NoCall \in Call /\ NoCall.pc = "idle"
    BY NoCallType
  <1>4. /\ call' \in [Req -> Call]
        /\ \A p \in Req \ {q} : call'[p] = call[p]
        /\ call'[q].pc = "answered" => call'[q].access \in AT /\ call'[q].refresh \in RT
        /\ call'[q].pc \in {"answered", "served", "idle"}
        /\ call'[q].pc # "served" => req'[q].pc = "idle"
        /\ IF Respond(q)
           THEN call'[q] = [pc |-> "answered", access |-> req[q].access,
                            refresh |-> req[q].refresh]
           ELSE call'[q] = IF req'[q].pc = "idle" THEN NoCall ELSE call[q]
    <2>1. CASE Respond(q)
      <3>1. /\ req[q].access \in AT /\ req[q].refresh \in RT
        BY <1>1, <2>1 DEF Respond, Request
      <3>2. req'[q].pc = "idle"
        BY <1>1, <2>1 DEF Respond, Become, IdleRequest
      <3> QED
        BY <1>1, <2>1, <3>1, <3>2 DEF Serve, Call
    <2>2. CASE ~ Respond(q)
      BY <1>1, <1>3, <2>2 DEF Serve
    <2> QED
      BY <2>1, <2>2
  <1>5. UNCHANGED <<manager, shared, lost>>
    BY DEF Serve
  <1>6. SessionTypeOK'
    BY <1>1, <1>2, <1>4, <1>5 DEF SessionInv, SessionTypeOK, Call
  <1>7. PairsNamed'
    BY <1>1, <1>4, <1>5 DEF SessionInv, PairsNamed
  <1>8. NothingEnds'
    BY <1>2 DEF SessionInv, NothingEnds
  <1> QED
    BY <1>2, <1>4, <1>5, <1>6, <1>7, <1>8

\* The session passes from the token presented to the request, and from the
\* request to the pair it answers with.
LEMMA ServeStep ==
    ASSUME SessionInv, IInv, TypeOK', NEW q \in Req, Serve(q)
    PROVE  SessionInv'
  <1>1. /\ TypeOK /\ call \in [Req -> Call] /\ req \in [Req -> Request]
        /\ req[q] \in RequestRow /\ rt \in [RT -> RefreshRow] /\ at \in [AT -> AccessRow]
        /\ call[q].pc = "served" /\ q \in Calling /\ RequestStep(q)
        /\ manager \in [access : AT \cup {NULL}, refresh : RT \cup {NULL}, fresh : BOOLEAN]
        /\ manager.fresh => manager.access \in AT
    BY DEF Serve, SessionInv, SessionTypeOK, PairsNamed, Call, TypeOK, Calling, Request
  <1>2. /\ SessionTypeOK' /\ PairsNamed' /\ NothingEnds'
        /\ \A p \in Req \ {q} : call'[p] = call[p] /\ req'[p].pc = req[p].pc
        /\ UNCHANGED <<manager, shared, lost>>
        /\ IF Respond(q)
           THEN call'[q] = [pc |-> "answered", access |-> req[q].access,
                            refresh |-> req[q].refresh]
           ELSE call'[q] = IF req'[q].pc = "idle" THEN NoCall ELSE call[q]
    BY ServeKeepsTypes
  <1>3. ASSUME Undisturbed' PROVE OwnCalls' /\ GoodPairs'
    <2>1. Undisturbed
      BY <1>2, <1>3 DEF Undisturbed
    <2>2. \A p \in Req \ {q} : call[p].pc = "idle" /\ req[p].pc = "idle"
      BY <1>1, <2>1, OnlyCall
    <2>3. \A p \in Req \ {q} : call'[p].pc = "idle" /\ req'[p].pc = "idle"
      BY <1>2, <2>2
    <2>4. \A p \in Calling' : p = q
      BY <2>3 DEF Calling
    <2>5. OwnCalls /\ GoodPairs
      BY <2>1 DEF SessionInv
    <2>6. /\ req[q].pc \notin CascadePC
          /\ req[q].pc \in {"rt_found", "rt_allowed"} => req[q].root = manager.refresh
          /\ manager.refresh # NULL => Live(manager.refresh) \/ Renewing(q)
          /\ manager.fresh => at[manager.access].st = "live"
          /\ req[q].pc \in {"mint_refresh", "respond"} => at[req[q].access].st = "live"
          /\ req[q].pc = "respond" => Live(req[q].refresh)
      BY <2>2, <2>5 DEF OwnCalls, GoodPairs, Renewing, MintPC
    \* It is enough to look at the request that is served.
    <2>7. SUFFICES
            /\ req'[q].pc \notin CascadePC
            /\ req'[q].pc \in {"rt_found", "rt_allowed"} => req'[q].root = manager.refresh
            /\ manager.refresh # NULL => Live(manager.refresh)' \/ Renewing(q)'
            /\ manager.fresh => at'[manager.access].st = "live"
            /\ req'[q].pc \in {"mint_refresh", "respond"} => at'[req'[q].access].st = "live"
            /\ req'[q].pc = "respond" => rt'[req'[q].refresh].st = "live"
            /\ call'[q].pc \in {"idle", "served", "answered"}
            /\ call'[q].pc = "answered" => /\ at'[call'[q].access].st = "live"
                                           /\ rt'[call'[q].refresh].st = "live"
      <3>1. OwnCalls'
        BY <1>2, <2>3, <2>4, <2>7 DEF OwnCalls, CascadePC
      <3>2. GoodPairs'
        BY <1>2, <2>3, <2>7 DEF GoodPairs, Live, MintPC
      <3> QED
        BY <3>1, <3>2
    <2>8. NoCall.pc = "idle"
      BY NoCallType
    \* A step that ends the request, or moves it on, and writes nothing.
    <2>9. ASSUME NEW o, Become(q, o), o.pc \in {"idle", "rt_allowed"},
                 o.pc = "rt_allowed" => o.root = req[q].root,
                 req[q].pc \in {"code_found", "rt_found"}, UNCHANGED <<rt, at>>
          PROVE  /\ req'[q].pc = o.pc /\ req'[q].pc \notin CascadePC
                 /\ req'[q].pc \in {"rt_found", "rt_allowed"} => req'[q].root = req[q].root
                 /\ manager.refresh # NULL => Live(manager.refresh)'
                 /\ call'[q].pc \in {"idle", "served"}
                 /\ req'[q].pc \notin {"mint_refresh", "respond"}
      <3>1. req'[q] = o
        BY <1>1, <2>9 DEF Become
      <3>2. ~ Respond(q) /\ ~ Renewing(q)
        BY <1>1, <2>9 DEF Respond, Renewing, MintPC
      <3> QED
        BY <1>1, <1>2, <2>6, <2>8, <2>9, <3>1, <3>2 DEF CascadePC, Live
    \* A step that consumes the credential.
    <2>10. ASSUME NEW g \in Fam \cup {NULL}, MintFor(q, g), UNCHANGED at, ~ Respond(q)
           PROVE  /\ req'[q].pc = "mint_access" /\ call'[q].pc = "served"
                  /\ Renewing(q)'
      <3>1. req'[q] = [req[q] EXCEPT !.pc = "mint_access", !.fam = g]
        BY <1>1, <2>10 DEF MintFor
      <3>2. req'[q].pc = "mint_access"
        BY <1>1, <3>1 DEF RequestRow
      <3> QED
        BY <1>1, <1>2, <2>10, <3>2 DEF Renewing, MintPC
    <2>11. CASE MarkUsed(q)
      <3>1. /\ req[q].pc = "code_found" /\ UNCHANGED <<rt, at>>
            /\ ~ Respond(q) /\ req[q].fam \in Fam \cup {NULL}
        BY <1>1, <2>11 DEF MarkUsed, Respond, RequestRow
      <3>2. IdleRequest.pc = "idle"
        BY DEF IdleRequest
      <3>3. CASE MintFor(q, req[q].fam)
        BY <2>6, <2>10, <3>1, <3>3 DEF CascadePC
      <3>4. CASE Become(q, IdleRequest)
        BY <2>6, <2>9, <3>1, <3>2, <3>4
      <3> QED
        BY <2>11, <3>3, <3>4 DEF MarkUsed
    <2>12. CASE CheckSubject(q)
      <3>1. /\ req[q].pc = "rt_found" /\ req[q].fam \in Fam /\ UNCHANGED <<rt, at>>
        BY <1>1, <2>12 DEF CheckSubject, Request, PendingPC
      <3>2. perm[req[q].fam]
        BY <3>1 DEF SessionInv, NothingEnds
      <3>3. PICK o : o = [req[q] EXCEPT !.pc = "rt_allowed"]
        OBVIOUS
      <3>4. Become(q, o)
        BY <2>12, <3>2, <3>3 DEF CheckSubject
      <3>5. o.pc = "rt_allowed" /\ o.root = req[q].root
        BY <1>1, <3>3 DEF RequestRow
      <3> QED
        BY <2>6, <2>9, <3>1, <3>4, <3>5
    <2>13. CASE RevokePresented(q)
      <3>1. /\ req[q].pc = "rt_allowed" /\ UNCHANGED at /\ req[q].root = manager.refresh
            /\ req[q].root \in RT /\ req[q].fam \in Fam /\ ~ Respond(q)
        BY <1>1, <2>6, <2>13 DEF RevokePresented, Request, PendingPC, Respond
      <3>2. Live(req[q].root)
        BY <1>1, <2>6, <3>1, NullAssumption DEF Renewing, MintPC
      <3>3. MintFor(q, req[q].fam)
        BY <2>13, <3>2 DEF RevokePresented, RevokedAtIsNull
      <3> QED
        BY <2>6, <2>10, <3>1, <3>3 DEF CascadePC
    <2>14. CASE CreateAccessToken(q)
      <3>1. PICK a \in Unborn(at) :
              /\ at' = [at EXCEPT ![a] = [st |-> "live", fam |-> req[q].fam]]
              /\ Become(q, [req[q] EXCEPT !.pc = "mint_refresh", !.access = a])
        BY <2>14 DEF CreateAccessToken
      <3>2. a \in AT
        BY <1>1 DEF Unborn
      <3>3. req'[q] = [req[q] EXCEPT !.pc = "mint_refresh", !.access = a]
        BY <1>1, <3>1 DEF Become
      <3>4. req'[q].pc = "mint_refresh" /\ req'[q].access = a
        BY <1>1, <3>3 DEF RequestRow
      <3>5. at'[a].st = "live" /\ (manager.fresh => at'[manager.access].st = "live")
        BY <1>1, <2>6, <3>1, <3>2
      <3>6. req[q].pc = "mint_access" /\ ~ Respond(q)
        BY <2>14 DEF CreateAccessToken, Respond
      <3>7. call'[q].pc = "served"
        BY <1>1, <1>2, <3>4, <3>6
      <3> QED
        BY <3>4, <3>5, <3>7 DEF Renewing, MintPC, CascadePC
    <2>15. CASE CreateRefreshToken(q)
      <3>1. /\ req[q].pc = "mint_refresh" /\ at[req[q].access].st = "live"
            /\ req[q].access \in AT /\ req[q].fam \in Fam /\ UNCHANGED at
            /\ ~ Respond(q)
        BY <1>1, <2>6, <2>15 DEF CreateRefreshToken, Request, PendingPC, MintPC, Respond
      <3>2. req[q].root # NULL => Present(req[q].root)
        <4>1. HAVE req[q].root # NULL
        <4>2. req[q].root \in RT
          BY <1>1, <4>1 DEF RequestRow
        <4>3. rt[req[q].root].fam = req[q].fam
          BY <3>1, <4>1 DEF IInv, LinksStayInFamily, PendingPC, MintPC
        <4>4. rt[req[q].root].st \in {"unborn", "live", "revoked"}
          BY <1>1, <4>2 DEF RefreshRow, SessionInv, NothingEnds
        <4>5. rt[req[q].root].st # "unborn"
          BY <1>1, <3>1, <4>2, <4>3, NullAssumption DEF RefreshRow
        <4> QED
          BY <4>4, <4>5 DEF Present
      <3>3. ForeignKeysHold(q)
        BY <3>1, <3>2 DEF ForeignKeysHold
      <3>4. PICK r \in Unborn(rt) :
              /\ rt' = [rt EXCEPT ![r] = NewRefreshRow(q)]
              /\ Become(q, [req[q] EXCEPT !.pc = "respond", !.refresh = r])
        BY <2>15, <3>3 DEF CreateRefreshToken
      <3>5. r \in RT /\ rt'[r].st = "live"
        BY <1>1, <3>4 DEF Unborn, NewRefreshRow
      <3>6. req'[q] = [req[q] EXCEPT !.pc = "respond", !.refresh = r]
        BY <1>1, <3>4 DEF Become
      <3>7. req'[q].pc = "respond" /\ req'[q].refresh = r /\ req'[q].access = req[q].access
        BY <1>1, <3>6 DEF RequestRow
      <3>8. call'[q].pc = "served"
        BY <1>1, <1>2, <3>1, <3>7
      <3> QED
        BY <2>6, <3>1, <3>5, <3>7, <3>8 DEF Renewing, CascadePC
    <2>16. CASE Respond(q)
      <3>1. /\ req[q].pc = "respond" /\ UNCHANGED <<rt, at>> /\ req'[q].pc = "idle"
        BY <1>1, <2>16 DEF Respond, Become, IdleRequest
      <3>2. /\ call'[q].pc = "answered" /\ call'[q].access = req[q].access
            /\ call'[q].refresh = req[q].refresh
        BY <1>2, <2>16
      <3> QED
        BY <2>6, <3>1, <3>2 DEF Renewing, CascadePC, Live
    <2>17. ~ (WalkParent(q) \/ WalkChildren(q) \/ RevokeFamily(q)
              \/ ListFamilyAccessTokenIds(q) \/ ExpireAccessTokensByIds(q))
      BY <2>6 DEF CascadePC, WalkParent, WalkChildren, RevokeFamily, WalkDone,
                  ListFamilyAccessTokenIds, ExpireAccessTokensByIds
    <2> QED
      BY <1>1, <2>11, <2>12, <2>13, <2>14, <2>15, <2>16, <2>17 DEF RequestStep
  <1> QED
    BY <1>2, <1>3 DEF SessionInv

\* What does not arrive, or fails before the token is consumed, changes nothing.
LEMMA ServerFailsStep ==
    ASSUME SessionInv, TypeOK', NEW q \in Req, ServerFails(q)
    PROVE  SessionInv'
  <1>1. /\ call \in [Req -> Call] /\ req \in [Req -> Request]
        /\ call[q].pc = "served" /\ q \in Calling
    BY DEF ServerFails, SessionInv, SessionTypeOK, Call, TypeOK, Calling
  <1>2. /\ UNCHANGED <<codes, perm, rt, at, held, manager, shared>>
        /\ \A p \in Req \ {q} : req'[p] = req[p] /\ call'[p] = call[p]
        /\ req'[q].pc = "idle" /\ call'[q].pc = "idle" /\ call' \in [Req -> Call]
        /\ lost' = (lost \/ req[q].pc \in MintPC \cup {"respond"})
    <2>1. IdleRequest.pc = "idle" /\ NoCall \in Call /\ NoCall.pc = "idle"
      BY NoCallType DEF IdleRequest
    <2> QED
      BY <1>1, <2>1 DEF ServerFails, Abandon, Become
  <1>3. lost' \in BOOLEAN
    BY <1>2 DEF SessionInv, SessionTypeOK
  <1>4. SessionTypeOK'
    BY <1>1, <1>2, <1>3 DEF SessionInv, SessionTypeOK, Call
  <1>5. PairsNamed' /\ NothingEnds'
    BY <1>2 DEF SessionInv, PairsNamed, NothingEnds
  <1>6. ASSUME Undisturbed' PROVE OwnCalls' /\ GoodPairs'
    <2>1. Undisturbed /\ ~ Renewing(q)
      BY <1>1, <1>2, <1>6 DEF Undisturbed, Renewing
    <2>2. \A p \in Req \ {q} : call[p].pc = "idle" /\ req[p].pc = "idle"
      BY <1>1, <2>1, OnlyCall
    <2>3. manager.refresh # NULL => Live(manager.refresh)
      BY <2>1, <2>2, HeldIsLive DEF Renewing, MintPC
    <2>4. OwnCalls'
      BY <1>2, <2>2 DEF OwnCalls, Calling, CascadePC
    <2>5. GoodPairs'
      BY <1>2, <2>1, <2>2, <2>3 DEF SessionInv, GoodPairs, Live
    <2> QED
      BY <2>4, <2>5
  <1> QED
    BY <1>4, <1>5, <1>6 DEF SessionInv

LEMMA ConnectionFailsStep ==
    ASSUME SessionInv, TypeOK', NEW q \in Req, ConnectionFails(q)
    PROVE  SessionInv'
  <1>1. /\ call \in [Req -> Call] /\ call[q].pc \in {"sent", "answered"}
        /\ q \in Calling /\ req[q].pc = "idle"
    BY DEF ConnectionFails, SessionInv, SessionTypeOK, Call, Calling
  <1>2. /\ UNCHANGED <<codes, perm, rt, at, held, req, manager, shared>>
        /\ \A p \in Req \ {q} : call'[p] = call[p]
        /\ call'[q].pc = "idle" /\ call' \in [Req -> Call]
        /\ lost' = (lost \/ call[q].pc = "answered")
    BY <1>1, NoCallType DEF ConnectionFails, vars
  <1>3. lost' \in BOOLEAN
    BY <1>2 DEF SessionInv, SessionTypeOK
  <1>4. SessionTypeOK'
    BY <1>1, <1>2, <1>3 DEF SessionInv, SessionTypeOK, Call
  <1>5. PairsNamed' /\ NothingEnds'
    BY <1>2 DEF SessionInv, PairsNamed, NothingEnds
  <1>6. ASSUME Undisturbed' PROVE OwnCalls' /\ GoodPairs'
    <2>1. Undisturbed /\ ~ Renewing(q)
      BY <1>1, <1>2, <1>6 DEF Undisturbed, Renewing, MintPC
    <2>2. \A p \in Req \ {q} : call[p].pc = "idle" /\ req[p].pc = "idle"
      BY <1>1, <2>1, OnlyCall
    <2>3. manager.refresh # NULL => Live(manager.refresh)
      BY <2>1, <2>2, HeldIsLive DEF Renewing, MintPC
    <2>4. OwnCalls'
      BY <1>1, <1>2, <2>2 DEF OwnCalls, Calling, CascadePC
    <2>5. GoodPairs'
      BY <1>1, <1>2, <2>1, <2>2, <2>3 DEF SessionInv, GoodPairs, Live
    <2> QED
      BY <2>4, <2>5
  <1> QED
    BY <1>4, <1>5, <1>6 DEF SessionInv

\* The passing of time ends no access token that the manager takes for fresh.
LEMMA TimeStep ==
    ASSUME SessionInv, TypeOK', GoesStale \/ Lapse
    PROVE  SessionInv'
  <1>1. CASE GoesStale
    <2>1. /\ manager \in [access : AT \cup {NULL}, refresh : RT \cup {NULL}, fresh : BOOLEAN]
          /\ manager' = [manager EXCEPT !.fresh = FALSE]
          /\ UNCHANGED <<codes, perm, rt, at, held, req, call, shared, lost>>
      BY <1>1 DEF GoesStale, SessionInv, SessionTypeOK, vars
    <2>2. /\ manager' \in [access : AT \cup {NULL}, refresh : RT \cup {NULL}, fresh : BOOLEAN]
          /\ manager'.refresh = manager.refresh /\ ~ manager'.fresh
      BY <2>1
    <2>3. SessionTypeOK' /\ PairsNamed' /\ NothingEnds'
      BY <2>1, <2>2 DEF SessionInv, SessionTypeOK, PairsNamed, NothingEnds
    <2>4. OwnCalls => OwnCalls'
      BY <2>1, <2>2 DEF OwnCalls, Calling
    <2>5. GoodPairs => GoodPairs'
      BY <2>1, <2>2 DEF GoodPairs, Live, Renewing
    <2> QED
      BY <2>1, <2>3, <2>4, <2>5 DEF SessionInv, Undisturbed
  <1>2. CASE Lapse
    <2>1. /\ rt \in [RT -> RefreshRow] /\ at \in [AT -> AccessRow]
          /\ UNCHANGED <<perm, held, req, manager, call, shared, lost>>
      BY <1>2 DEF Lapse, sessionVars, AccessLapses, RefreshLapses, CodeLapses,
                  SessionInv, SessionTypeOK, TypeOK
    <2>2. \A r \in RT : rt'[r].st = rt[r].st
      <3>1. ASSUME NEW r \in RT, RefreshLapses(r) PROVE \A s \in RT : rt'[s].st = rt[s].st
        BY <2>1, <3>1 DEF RefreshLapses, RefreshRow
      <3> QED
        BY <1>2, <3>1 DEF Lapse, AccessLapses, CodeLapses
    <2>3. /\ manager.fresh /\ at[manager.access].st = "live" => at'[manager.access].st = "live"
          /\ \A q \in Req : at[req[q].access].st = "live" /\ req[q].access \in AT =>
                               at'[req[q].access].st = "live"
          /\ \A q \in Req : at[call[q].access].st = "live" /\ call[q].access \in AT =>
                               at'[call[q].access].st = "live"
      <3>1. ASSUME NEW a \in AT, AccessLapses(a) PROVE \A b \in AT \ {a} : at'[b] = at[b]
        BY <2>1, <3>1 DEF AccessLapses
      <3>2. manager.fresh => manager.access \in AT
        BY DEF SessionInv, PairsNamed
      <3> QED
        BY <1>2, <3>1, <3>2 DEF Lapse, RefreshLapses, CodeLapses
    <2>4. SessionTypeOK' /\ PairsNamed' /\ NothingEnds'
      BY <2>1, <2>2 DEF SessionInv, SessionTypeOK, PairsNamed, NothingEnds
    <2>5. OwnCalls => OwnCalls'
      BY <2>1 DEF OwnCalls, Calling
    <2>6. ASSUME GoodPairs PROVE GoodPairs'
      <3>1. \A q \in Req : /\ req[q].pc \in {"mint_refresh", "respond"} => req[q].access \in AT
                           /\ req[q].pc = "respond" => req[q].refresh \in RT
                           /\ call[q].pc = "answered" => call[q].access \in AT /\ call[q].refresh \in RT
        BY DEF SessionInv, SessionTypeOK, TypeOK, Request, PairsNamed
      <3>2. manager.refresh # NULL => manager.refresh \in RT
        BY DEF SessionInv, SessionTypeOK
      <3>3. /\ \A q \in Req : Renewing(q) => Renewing(q)'
            /\ \A r \in RT : Live(r) => Live(r)'
        BY <2>1, <2>2 DEF Renewing, Live
      <3>4. manager.refresh # NULL => Live(manager.refresh)' \/ \E q \in Req : Renewing(q)'
        BY <2>1, <2>2, <2>6, <3>2, <3>3 DEF GoodPairs, Live
      <3>5. \A q \in Req :
              /\ req[q].pc \in {"mint_refresh", "respond"} => at'[req[q].access].st = "live"
              /\ req[q].pc = "respond" => rt'[req[q].refresh].st = "live"
              /\ call[q].pc = "answered" => /\ at'[call[q].access].st = "live"
                                            /\ rt'[call[q].refresh].st = "live"
        BY <2>2, <2>3, <2>6, <3>1 DEF GoodPairs, Live
      <3> QED
        BY <2>1, <2>3, <2>6, <3>4, <3>5 DEF GoodPairs, Live
    <2> QED
      BY <2>1, <2>4, <2>5, <2>6 DEF SessionInv, Undisturbed
  <1> QED
    BY <1>1, <1>2

\* The invariant is inductive, with what is known of the tables.
LEMMA SessionInvStep ==
    ASSUME SessionInv, IInv, TypeOK', [SessionNext]_<<vars, sessionVars>>
    PROVE  SessionInv'
  <1>1. ASSUME NEW f \in Fam, Authorize(f), UNCHANGED sessionVars PROVE SessionInv'
    <2>1. UNCHANGED <<perm, rt, at, held, req, manager, call, shared, lost>>
      BY <1>1 DEF Authorize, sessionVars
    <2>2. SessionTypeOK' /\ PairsNamed' /\ NothingEnds'
      BY <2>1 DEF SessionInv, SessionTypeOK, PairsNamed, NothingEnds
    <2> QED
      BY <2>1, <2>2 DEF SessionInv, Undisturbed, OwnCalls, GoodPairs, Calling, Live, Renewing
  <1>2. CASE UNCHANGED <<vars, sessionVars>>
    BY <1>2 DEF vars, sessionVars, SessionInv, SessionTypeOK, PairsNamed, NothingEnds,
                Undisturbed, OwnCalls, GoodPairs, Calling, Live, Renewing
  <1> QED
    BY <1>1, <1>2, SignInStep, GetAccessTokenStep, SetTokensStep, ArriveStep, ServeStep,
       ServerFailsStep, ConnectionFailsStep, TimeStep DEF SessionNext

LEMMA SessionInvariant == SessionSpec => [](SessionInv /\ IInv)
  <1>1. SessionInit => SessionInv /\ IInv
    BY SessionInvInit, IInvInit DEF SessionInit
  <1>2. SessionInv /\ IInv /\ [SessionNext]_<<vars, sessionVars>> => SessionInv' /\ IInv'
    <2> SUFFICES ASSUME SessionInv, IInv, [SessionNext]_<<vars, sessionVars>>
                 PROVE  SessionInv' /\ IInv'
      OBVIOUS
    <2>1. [Next]_vars
      BY SessionSteps DEF SessionInv
    <2>2. IInv' /\ TypeOK'
      BY <2>1, IInvStep DEF IInv
    <2> QED
      BY <2>2, SessionInvStep
  <1> QED
    BY <1>1, <1>2, PTL DEF SessionSpec

\* StaysSignedIn (TokenManager.getAccessToken over refresh): for any number of
\* grants, rows and calls, a manager that is called by one caller at a time and
\* gets its answers holds a refresh token that is not revoked, and hands out no
\* dead access token from memory.
THEOREM StaysSignedInHolds == SessionSpec => []StaysSignedIn
  <1>1. SessionInv => StaysSignedIn
    <2> SUFFICES ASSUME SessionInv, ~ shared, ~ lost, Calling = {}, manager.refresh # NULL
                 PROVE  Live(manager.refresh) /\ (manager.fresh => at[manager.access].st = "live")
      BY DEF StaysSignedIn
    <2>1. \A q \in Req : ~ Renewing(q)
      BY NoneCalling DEF Renewing, MintPC
    <2>2. Undisturbed
      BY DEF Undisturbed
    <2> QED
      BY <2>1, <2>2, HeldIsLive DEF SessionInv, GoodPairs
  <1> QED
    BY <1>1, SessionInvariant, PTL

-----------------------------------------------------------------------------
(* The sum of the parts of the token endpoint.                             *)

\* Whichever part moves in MCTokenEndpoint, its behaviours are behaviours of
\* every part's own specification: what is proved of a part holds in the sum.
THEOREM EndpointRunsItsParts ==
    EndpointSpec => SessionSpec /\ ScopesSpec /\ SecretSpec /\ KeySpec /\ DcrSpec
  <1>1. EndpointInit => SessionInit /\ ScopesInit /\ SecretInit /\ KeyInit /\ DcrInit
    BY DEF EndpointInit
  <1>2. ASSUME [EndpointNext]_endpointVars
        PROVE  /\ [SessionNext]_<<vars, sessionVars>> /\ [ScopesNext]_scopeVars
               /\ [SecretNext]_secretVars /\ [KeyNext]_keyVars /\ [DcrNext]_dcrVars
    BY <1>2 DEF EndpointNext, SessionStep, ScopesStep, SecretStep, KeyStep, RegistrationStep,
                endpointVars
  <1> QED
    BY <1>1, <1>2, PTL
       DEF EndpointSpec, SessionSpec, ScopesSpec, SecretSpec, KeySpec, DcrSpec

\* The tables and the locals of every part keep their types, for any rows,
\* requests and bounds.
THEOREM EndpointTypeCorrect == EndpointSpec => []EndpointTypeOK
  <1>1. SessionInv => SessionTypeOK
    BY DEF SessionInv
  <1>2. SessionTypeOK /\ ScopesTypeOK /\ SecretTypeOK /\ KeyTypeOK /\ DcrTypeOK
           => EndpointTypeOK
    BY DEF EndpointTypeOK
  <1> QED
    BY <1>1, <1>2, EndpointRunsItsParts, SessionInvariant, ScopesTypeCorrect, SecretTypes,
       KeyTypes, DcrTypes, PTL
=============================================================================

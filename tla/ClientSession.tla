---------------------------- MODULE ClientSession ----------------------------
(***************************************************************************)
(* The TokenManager of the client library (packages/eetr-auth-client/src/  *)
(* tokens.ts) against the token endpoint.  A manager keeps one pair of     *)
(* tokens in memory.  A call of getAccessToken that finds the access token *)
(* stale sends the refresh token it finds, awaits the answer and stores    *)
(* the pair; nothing keeps a second call from doing the same meanwhile.    *)
(* A call that fails throws, and the pair stays what it was.               *)
(*                                                                         *)
(* The fetch of a call is served by one request of TokenRotation.          *)
(***************************************************************************)
EXTENDS TokenRotation

VARIABLES
    manager,    \* the pair, and whether expiresAt is more than 30 s away
    call,       \* call[q]: the fetch that request q serves: the refresh token
                \* sent, or the pair that is on its way back
    shared,     \* history: two refreshes have been in flight together
    lost        \* history: a pair was issued, or its predecessor consumed, and
                \* the manager never got it

sessionVars == <<manager, call, shared, lost>>

NoCall == [pc |-> "idle", access |-> NULL, refresh |-> NULL]

Calling == {q \in Req : call[q].pc # "idle"}

SessionTypeOK ==
    /\ TypeOK
    /\ manager \in [access : AT \cup {NULL}, refresh : RT \cup {NULL}, fresh : BOOLEAN]
    /\ call \in [Req -> [pc : {"idle", "sent", "served", "answered"},
                         access : AT \cup {NULL}, refresh : RT \cup {NULL}]]
    /\ shared \in BOOLEAN /\ lost \in BOOLEAN
    /\ \A q \in Req : req[q].pc # "idle" => call[q].pc = "served"

SessionInit ==
    /\ Init
    /\ manager = [access |-> NULL, refresh |-> NULL, fresh |-> FALSE]
    /\ call = [q \in Req |-> NoCall]
    /\ shared = FALSE /\ lost = FALSE

-----------------------------------------------------------------------------
(* The library.                                                            *)

\* The application exchanges a code, to seed the manager with the answer.
SignIn(q, f) ==
    /\ Calling = {}
    /\ LookupCode(q, f)
    /\ call' = [call EXCEPT ![q].pc = "served"]
    /\ UNCHANGED <<manager, shared, lost>>

\* getAccessToken with a stale access token and a refresh token; with a fresh
\* one it answers from memory, with neither it throws no_token.
GetAccessToken(q) ==
    /\ call[q].pc = "idle"
    /\ ~ manager.fresh /\ manager.refresh # NULL
    /\ call' = [call EXCEPT ![q] = [NoCall EXCEPT !.pc = "sent", !.refresh = manager.refresh]]
    /\ shared' = (shared \/ Calling # {})
    /\ UNCHANGED <<vars, manager, lost>>

\* Broken variant: a refresh token, once stored, is kept.
KeepsRefresh(c) ==
    [access |-> c.access, fresh |-> TRUE,
     refresh |-> IF manager.refresh = NULL THEN c.refresh ELSE manager.refresh]

\* The token of the answer, not the one that was sent.
Stored(c) == [access |-> c.access, refresh |-> c.refresh, fresh |-> TRUE]

\* setTokens, when the answer has arrived.
SetTokens(q) ==
    /\ call[q].pc = "answered"
    /\ manager' = Stored(call[q])
    /\ call' = [call EXCEPT ![q] = NoCall]
    /\ UNCHANGED <<vars, shared, lost>>

-----------------------------------------------------------------------------
(* The network, and the server.                                            *)

\* The request arrives; a token that has expired is refused and the call
\* throws.
Arrive(q) ==
    /\ call[q].pc = "sent"
    /\ LET r == call[q].refresh IN
       \/ /\ LookupRefreshToken(q, r)
          /\ call' = [call EXCEPT ![q] = [NoCall EXCEPT !.pc = "served"]]
       \/ /\ Live(r) /\ rt[r].expired
          /\ call' = [call EXCEPT ![q] = NoCall]
          /\ UNCHANGED vars
    /\ UNCHANGED <<manager, shared, lost>>

\* An error is thrown to the caller, a pair is on its way back.
Serve(q) ==
    /\ call[q].pc = "served"
    /\ RequestStep(q)
    /\ call' = IF Respond(q)
               THEN [call EXCEPT ![q] = [pc |-> "answered", access |-> req[q].access,
                                         refresh |-> req[q].refresh]]
               ELSE IF req'[q].pc = "idle" THEN [call EXCEPT ![q] = NoCall] ELSE call
    /\ UNCHANGED <<manager, shared, lost>>

\* The Worker dies; a refresh token that has not been consumed is as good as
\* before.
ServerFails(q) ==
    /\ call[q].pc = "served"
    /\ Abandon(q)
    /\ call' = [call EXCEPT ![q] = NoCall]
    /\ lost' = (lost \/ req[q].pc \in MintPC \cup {"respond"})
    /\ UNCHANGED <<manager, shared>>

\* The connection breaks on the way there, or on the way back.
ConnectionFails(q) ==
    /\ call[q].pc \in {"sent", "answered"}
    /\ call' = [call EXCEPT ![q] = NoCall]
    /\ lost' = (lost \/ call[q].pc = "answered")
    /\ UNCHANGED <<vars, manager, shared>>

-----------------------------------------------------------------------------
(* Time.                                                                   *)

\* Thirty seconds are left to the access token.
GoesStale ==
    /\ manager.fresh
    /\ manager' = [manager EXCEPT !.fresh = FALSE]
    /\ UNCHANGED <<vars, call, shared, lost>>

\* An answer takes less than thirty seconds: what the manager takes for fresh
\* has not lapsed on the server.
Lapse ==
    /\ \/ \E a \in AT : /\ AccessLapses(a)
                        /\ manager.fresh => manager.access # a
                        /\ \A q \in Req : call[q].access # a /\ req[q].access # a
       \/ \E r \in RT : /\ RefreshLapses(r)
                        /\ \A q \in Req : call[q].refresh # r \/ call[q].pc = "sent"
       \/ \E f \in Fam : CodeLapses(f)
    /\ UNCHANGED sessionVars

SessionNext ==
    \/ \E q \in Req : \/ GetAccessToken(q) \/ SetTokens(q) \/ Arrive(q) \/ Serve(q)
                      \/ ServerFails(q) \/ ConnectionFails(q)
                      \/ \E f \in Fam : SignIn(q, f)
    \/ \E f \in Fam : Authorize(f) /\ UNCHANGED sessionVars
    \/ GoesStale \/ Lapse

SessionSpec == SessionInit /\ [][SessionNext]_<<vars, sessionVars>>

-----------------------------------------------------------------------------
(* Properties.                                                             *)

\* A manager that is called by one caller at a time and gets its answers keeps
\* its session: between calls the refresh token it holds is the one that is not
\* revoked, and an access token it hands out from memory is good.  Expiry,
\* requests that never arrive and failures before the token is consumed do not
\* change that.
StaysSignedIn ==
    ~ shared /\ ~ lost /\ Calling = {} /\ manager.refresh # NULL =>
        /\ Live(manager.refresh)
        /\ manager.fresh => at[manager.access].st = "live"

\* packages/eetr-auth-client/README.md:149-150: the manager transparently
\* refreshes the access token when a refresh token is available.  It is refused
\* for reuse only if it never got the pair that replaced its token.
RefreshIsTransparent ==
    [][\A q \in Req : CascadeEnds(q) => lost]_<<vars, sessionVars>>
=============================================================================

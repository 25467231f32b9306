---------------------------- MODULE Administrators ----------------------------
(***************************************************************************)
(* The administrators: who is one (users.is_admin), who is told so by a    *)
(* session (the isAdmin claim that refreshAdminClaim re-reads once per     *)
(* interval, lib/auth/session-admin-refresh.ts), and the edits and         *)
(* deletions that take it away (updateUser and deleteUser in               *)
(* services/user.service.ts).  Each counts the administrators in one call  *)
(* and writes in another.  A sign-in (auth.ts) too reads the row in one    *)
(* call and stamps the claim as checked in another.                        *)
(***************************************************************************)
EXTENDS Naturals, FiniteSets

CONSTANTS
    Person,
    Action,         \* server actions in flight at the same time
    Visit,          \* sign-ins in flight at the same time
    Interval        \* ADMIN_RECHECK_INTERVAL_MS, in steps of the clock

ASSUME IntervalAssumption == Interval \in Nat \ {0}

VARIABLES
    rank,           \* rank[u]: "admin", "plain" or "gone"
    claim,          \* claim[u]: the claim in the session of a user
    age,            \* age[u]: time since adminCheckedAt, up to Interval
    action,         \* action[a]: the call an action makes next, whose it is, for
                    \* which user, and whether it has overlapped no other removal
    visit,          \* visit[v]: whose sign-in it is, whether the row read says
                    \* administrator, and (history) whether that was lost since
    lost,           \* history: lost[u]: time since a user ceased to be an
                    \* administrator, or a sign-in ended that had read the rank
                    \* before it was lost, up to Interval
    blind,          \* history: users whose rank could not be read since
    collided        \* history: a removal that was written overlapped another

adminVars == <<rank, claim, age, action, visit, lost, blind, collided>>

NoAction == [pc |-> "idle", by |-> "nobody", actor |-> "nobody", target |-> "nobody",
             alone |-> TRUE]

NoVisit == [by |-> "nobody", admin |-> FALSE, overtaken |-> FALSE]

AdminsNow == {u \in Person : rank[u] = "admin"}

Removing == {a \in Action : action[a].pc \in {"count", "demote", "delete"}}

AdminsTypeOK ==
    /\ rank \in [Person -> {"admin", "plain", "gone"}]
    /\ claim \in [Person -> BOOLEAN] /\ age \in [Person -> 0 .. Interval]
    /\ action \in [Action -> [pc : {"idle", "promote", "count", "demote", "delete"},
                              by : {"nobody", "demote", "delete"},
                              actor : Person \cup {"nobody"}, target : Person \cup {"nobody"}, alone : BOOLEAN]]
    /\ visit \in [Visit -> [by : Person \cup {"nobody"}, admin : BOOLEAN, overtaken : BOOLEAN]]
    /\ lost \in [Person -> 0 .. Interval] /\ blind \in SUBSET Person
    /\ collided \in BOOLEAN

AdminsInit ==
    /\ rank \in [Person -> {"admin", "plain"}] /\ AdminsNow # {}
    /\ claim = [u \in Person |-> FALSE] /\ age = [u \in Person |-> 0]
    /\ action = [a \in Action |-> NoAction] /\ visit = [v \in Visit |-> NoVisit]
    /\ lost = [u \in Person |-> Interval] /\ blind = {} /\ collided = FALSE

-----------------------------------------------------------------------------
(* Sessions.                                                               *)

\* authorize: the row is read first; its password, its policy and its second
\* factor are awaited after that.
BeginSignIn(v, u) ==
    /\ visit[v] = NoVisit /\ rank[u] # "gone"
    /\ visit' = [visit EXCEPT ![v] = [by |-> u, admin |-> rank[u] = "admin", overtaken |-> FALSE]]
    /\ UNCHANGED <<rank, claim, age, action, lost, blind, collided>>

\* jwt: the claim is what was read then, and counts as checked now, whoever has
\* written or deleted the row meanwhile.
EndSignIn(v) ==
    LET u == visit[v].by IN
    /\ u # "nobody"
    /\ claim' = [claim EXCEPT ![u] = visit[v].admin]
    /\ age' = [age EXCEPT ![u] = 0]
    /\ lost' = IF visit[v].overtaken THEN [lost EXCEPT ![u] = 0] ELSE lost
    /\ visit' = [visit EXCEPT ![v] = NoVisit]
    /\ UNCHANGED <<rank, action, blind, collided>>

\* A password or a code that is wrong, or a failed call.
SignInFails(v) ==
    /\ visit[v] # NoVisit
    /\ visit' = [visit EXCEPT ![v] = NoVisit]
    /\ UNCHANGED <<rank, claim, age, action, lost, blind, collided>>

\* Broken variant: a token older than the interval is still good.
NeverStale(n) == FALSE

Stale(n) == n >= Interval

\* refreshAdminClaim: the claim a request works with, the one that its session
\* keeps (the new token may not reach the cookie) and the age of that.
ClaimOutcomes(u) ==
    IF ~ Stale(age[u]) THEN {[now |-> claim[u], kept |-> claim[u], age |-> age[u], seen |-> TRUE]}
    ELSE LET fresh == rank[u] = "admin" IN
         { [now |-> fresh, kept |-> fresh, age |-> 0, seen |-> TRUE],
           [now |-> fresh, kept |-> claim[u], age |-> age[u], seen |-> TRUE],
           [now |-> claim[u], kept |-> claim[u], age |-> age[u], seen |-> FALSE] }

\* onAdminServerAction: only a claim of now lets an action begin.
WithClaim(u, Begin) ==
    \E c \in ClaimOutcomes(u) :
        /\ claim' = [claim EXCEPT ![u] = c.kept]
        /\ age' = [age EXCEPT ![u] = c.age]
        /\ blind' = IF c.seen THEN blind ELSE blind \cup {u}
        /\ IF c.now THEN Begin ELSE UNCHANGED action

\* A step of the clock.
Tick ==
    /\ age' = [u \in Person |-> IF age[u] < Interval THEN age[u] + 1 ELSE Interval]
    /\ lost' = [u \in Person |-> IF lost[u] < Interval THEN lost[u] + 1 ELSE Interval]
    /\ UNCHANGED <<rank, claim, action, visit, blind, collided>>

-----------------------------------------------------------------------------
(* Actions.                                                                *)

Started(a, new) ==
    [b \in Action |->
        IF b = a THEN [new EXCEPT !.alone = Removing = {}]
        ELSE [action[b] EXCEPT !.alone = @ /\ b \notin Removing]]

\* updateUser with isAdmin true.
BeginPromote(a, u, target) ==
    /\ action[a].pc = "idle" /\ rank[target] = "plain"
    /\ WithClaim(u, action' = [action EXCEPT ![a] =
                        [NoAction EXCEPT !.pc = "promote", !.actor = u, !.target = target]])
    /\ UNCHANGED <<rank, visit, lost, collided>>

\* updateUser with isAdmin false, and deleteUser, for anyone but oneself; for a
\* user who is no administrator nothing is counted.
BeginRemoval(a, u, target, by) ==
    /\ action[a].pc = "idle" /\ target # u /\ rank[target] # "gone"
    /\ WithClaim(u, action' = Started(a,
                        [pc |-> IF rank[target] = "admin" THEN "count" ELSE by,
                         by |-> IF rank[target] = "admin" THEN by ELSE "nobody",
                         actor |-> u, target |-> target, alone |-> TRUE]))
    /\ UNCHANGED <<rank, visit, lost, collided>>

\* Broken variant: the one to be removed is not counted out.
SomeAreLeft(n) == n >= 1

OthersAreLeft(n) == n > 1

CountAdmins(a) ==
    /\ action[a].pc = "count"
    /\ action' = [action EXCEPT ![a] =
                     IF OthersAreLeft(Cardinality(AdminsNow))
                     THEN [action[a] EXCEPT !.pc = action[a].by, !.by = "nobody"] ELSE NoAction]
    /\ UNCHANGED <<rank, claim, age, visit, lost, blind, collided>>

\* The sign-ins under way once a user has lost the rank.
Overtaken(u) ==
    [v \in Visit |-> [visit[v] EXCEPT !.overtaken = @ \/ (visit[v].by = u /\ visit[v].admin)]]

\* The UPDATE of is_admin, or the DELETE of the user.
WriteRank(a) ==
    LET u     == action[a].target
        new   == CASE action[a].pc = "promote" -> "admin"
                   [] action[a].pc = "demote"  -> "plain"
                   [] action[a].pc = "delete"  -> "gone"
        loses == rank[u] = "admin" /\ new # "admin"
    IN
    /\ action[a].pc \in {"promote", "demote", "delete"}
    /\ rank' = IF rank[u] = "gone" THEN rank ELSE [rank EXCEPT ![u] = new]
    /\ lost' = IF loses THEN [lost EXCEPT ![u] = 0] ELSE lost
    /\ blind' = IF loses THEN blind \ {u} ELSE blind
    /\ visit' = IF loses THEN Overtaken(u) ELSE visit
    /\ collided' = (collided \/ (a \in Removing /\ ~ action[a].alone))
    /\ action' = [action EXCEPT ![a] = NoAction]
    /\ UNCHANGED <<claim, age>>

ActionDies(a) ==
    /\ action[a].pc # "idle"
    /\ action' = [action EXCEPT ![a] = NoAction]
    /\ UNCHANGED <<rank, claim, age, visit, lost, blind, collided>>

AdminsNext ==
    \/ \E v \in Visit :
          \/ \E u \in Person : BeginSignIn(v, u)
          \/ EndSignIn(v) \/ SignInFails(v)
    \/ Tick
    \/ \E a \in Action :
          \/ \E u, target \in Person :
                \/ BeginPromote(a, u, target)
                \/ \E by \in {"demote", "delete"} : BeginRemoval(a, u, target, by)
          \/ CountAdmins(a) \/ WriteRank(a) \/ ActionDies(a)

AdminsSpec == AdminsInit /\ [][AdminsNext]_adminVars

-----------------------------------------------------------------------------
(* Properties.                                                             *)

\* Someone is left to administer, unless two removals overlapped: each counts
\* the administrator that the other is about to remove.
AnAdministratorRemains == AdminsNow = {} => collided

\* A user who is no longer an administrator, or no longer exists, begins an
\* action (has its claim let through) only within the interval of the loss or
\* of the end of a sign-in that had read the rank before, or when the rank could
\* not be read.  A sign-in under way can thus delay the end, never a session.
LostRankIsShort ==
    [][\A a \in Action : action[a].pc = "idle" /\ action'[a].pc # "idle" =>
          LET u == action'[a].actor IN
          rank[u] = "admin" \/ lost[u] < Interval \/ u \in blind']_adminVars
=============================================================================

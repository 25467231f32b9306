--------------------------- MODULE ScopeDiscovery ---------------------------
(***************************************************************************)
(* The scopes of the server (services/scope.service.ts) and the list of    *)
(* them that the discovery documents serve from the memory of a Worker     *)
(* (cache/scope-discovery-cache.ts).  Requests that find the cache expired *)
(* each send a SELECT and store what they read when it is answered; a      *)
(* scope is deleted after it was seen to be assigned to no client.         *)
(***************************************************************************)
EXTENDS Naturals

CONSTANTS
    Name,       \* names of scopes
    Reader,     \* discovery requests in flight at the same time
    Deleter,    \* deletions in flight at the same time
    TTL         \* TTL_MS, in steps of the clock

ASSUME TTLAssumption == TTL \in Nat \ {0}

VARIABLES
    scopes,     \* the names in the table
    inUse,      \* the names with a row in client_scopes
    cached,     \* the cached list and the time since its request began, TTL when
                \* there is none
    reader,     \* reader[p]: the call a request makes next, the time since it
                \* began, and the list it has read
    deleter,    \* deleter[d]: the name that a deletion has found unassigned
    since       \* history: since[S]: time since S was the list, up to TTL

discoveryVars == <<scopes, inUse, cached, reader, deleter, since>>

Age == 0 .. TTL

NoReader == [pc |-> "idle", age |-> 0, names |-> {}]

DiscoveryTypeOK ==
    /\ scopes \in SUBSET Name /\ inUse \in SUBSET scopes
    /\ cached \in [names : SUBSET Name, age : Age]
    /\ reader \in [Reader -> [pc : {"idle", "list", "store"}, age : Age,
                              names : SUBSET Name]]
    /\ deleter \in [Deleter -> SUBSET Name]
    /\ since \in [SUBSET Name -> Age] /\ since[scopes] = 0

DiscoveryInit ==
    /\ scopes = {} /\ inUse = {}
    /\ cached = [names |-> {}, age |-> TTL]
    /\ reader = [p \in Reader |-> NoReader]
    /\ deleter = [d \in Deleter |-> {}]
    /\ since = [S \in SUBSET Name |-> IF S = {} THEN 0 ELSE TTL]

Later(n) == IF n < TTL THEN n + 1 ELSE TTL

\* The table becomes S; the list it held was current until now.
ScopesBecome(S) == scopes' = S /\ since' = [since EXCEPT ![S] = 0]

-----------------------------------------------------------------------------
(* Scopes.                                                                 *)

CreateScope(n) ==
    /\ n \notin scopes
    /\ ScopesBecome(scopes \cup {n})
    /\ UNCHANGED <<inUse, cached, reader, deleter>>

\* The scope lists of clients are saved; a row needs its scope (FOREIGN KEY).
SaveClient(used) ==
    /\ inUse' = used
    /\ UNCHANGED <<scopes, cached, reader, deleter, since>>

\* countClientScopes: a scope that is assigned is not deleted ...
CountClientScopes(d, n) ==
    /\ deleter[d] = {} /\ n \in scopes \ inUse
    /\ deleter' = [deleter EXCEPT ![d] = {n}]
    /\ UNCHANGED <<scopes, inUse, cached, reader, since>>

\* No row of client_scopes refers to them.
Unreferenced(S) == S \cap inUse = {}

\* ... and not either when it has been assigned since (FOREIGN KEY).  Another
\* deletion of the same row will find nothing to delete.
DeleteScope(d) ==
    /\ deleter[d] # {}
    /\ \/ /\ Unreferenced(deleter[d])
          /\ ScopesBecome(scopes \ deleter[d])
          /\ deleter' = [e \in Deleter |-> deleter[e] \ deleter[d]]
       \/ /\ ~ Unreferenced(deleter[d])
          /\ deleter' = [deleter EXCEPT ![d] = {}]
          /\ UNCHANGED <<scopes, since>>
    /\ UNCHANGED <<inUse, cached, reader>>

-----------------------------------------------------------------------------
(* Discovery.                                                              *)

\* The request takes the time; a list that has not expired is served.
AskForScopes(p) ==
    /\ reader[p].pc = "idle" /\ cached.age = TTL
    /\ reader' = [reader EXCEPT ![p].pc = "list"]
    /\ UNCHANGED <<scopes, inUse, cached, deleter, since>>

ListScopes(p) ==
    /\ reader[p].pc = "list"
    /\ reader' = [reader EXCEPT ![p].pc = "store", ![p].names = scopes]
    /\ UNCHANGED <<scopes, inUse, cached, deleter, since>>

\* Broken variant: the list expires TTL_MS after it was stored.
FromNow(p) == 0

\* The list expires TTL_MS after the request began.
FromStart(p) == reader[p].age

\* An answer that was read earlier may replace one that was read later.
StoreScopes(p) ==
    /\ reader[p].pc = "store"
    /\ cached' = [names |-> reader[p].names, age |-> FromStart(p)]
    /\ reader' = [reader EXCEPT ![p] = NoReader]
    /\ UNCHANGED <<scopes, inUse, deleter, since>>

\* A request fails.
ReaderDies(p) ==
    /\ reader[p].pc # "idle"
    /\ reader' = [reader EXCEPT ![p] = NoReader]
    /\ UNCHANGED <<scopes, inUse, cached, deleter, since>>

\* The Worker is replaced: its memory and its requests are gone.
NewWorker ==
    /\ cached' = [names |-> {}, age |-> TTL]
    /\ reader' = [p \in Reader |-> NoReader]
    /\ UNCHANGED <<scopes, inUse, deleter, since>>

PassTime ==
    /\ cached' = [cached EXCEPT !.age = Later(@)]
    /\ reader' = [p \in Reader |-> IF reader[p].pc = "idle" THEN reader[p]
                                   ELSE [reader[p] EXCEPT !.age = Later(@)]]
    /\ since' = [S \in SUBSET Name |-> IF S = scopes THEN 0 ELSE Later(since[S])]
    /\ UNCHANGED <<scopes, inUse, deleter>>

DiscoveryNext ==
    \/ \E n \in Name : CreateScope(n) \/ \E d \in Deleter : CountClientScopes(d, n)
    \/ \E used \in SUBSET scopes : SaveClient(used)
    \/ \E d \in Deleter : DeleteScope(d)
    \/ \E p \in Reader : \/ AskForScopes(p) \/ ListScopes(p) \/ StoreScopes(p)
                         \/ ReaderDies(p)
    \/ NewWorker \/ PassTime

DiscoverySpec == DiscoveryInit /\ [][DiscoveryNext]_discoveryVars

-----------------------------------------------------------------------------
(* Properties.                                                             *)

\* However long the SELECTs take and in whatever order they are answered: what
\* is served from memory was the list at some moment of the last TTL_MS.
ServedIsRecent == cached.age < TTL => since[cached.names] <= cached.age
=============================================================================

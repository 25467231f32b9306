----------------------------- MODULE ScopeGrants -----------------------------
(***************************************************************************)
(* The scopes of one client and everything that is bound to them.  A scope *)
(* is granted to a client by a row of client_scopes with a random id;      *)
(* authorization codes, refresh tokens, access tokens and API keys hold    *)
(* join rows that name such an id, with a foreign key that cascades.       *)
(* An administrator saves the list of a client (updateScopes) with one     *)
(* DELETE and one INSERT per scope, while requests that have read the old  *)
(* rows go on to insert join rows, one statement each.                     *)
(*                                                                         *)
(* What a row must satisfy besides being there is TokenRotation's; here a  *)
(* row that is live may be presented.                                      *)
(***************************************************************************)
EXTENDS Naturals, FiniteSets, Sequences

CONSTANTS
    Scope,      \* scope names
    Code,       \* authorization codes
    Key,        \* API keys
    Refresh,    \* refresh tokens
    Access,     \* access tokens
    Asker,      \* requests in flight at the same time
    Saver,      \* administrators who save the list
    MaxCalls    \* bound of the model: how many requests and saves there are

Cred == Code \cup Key \cup Refresh \cup Access

ASSUME CredAssumption ==
    /\ Code \cap Key = {} /\ Code \cap Refresh = {} /\ Code \cap Access = {}
    /\ Key \cap Refresh = {} /\ Key \cap Access = {} /\ Refresh \cap Access = {}

ASSUME ClientAssumption == "client" \notin Cred

ASSUME ScopeAssumption == IsFiniteSet(Scope)

ASSUME MaxCallsAssumption == MaxCalls \in Nat

VARIABLES
    granted,    \* the rows of client_scopes
    nextId,     \* ids are never used twice
    status,     \* status[c]: c's row is not there yet, there, or consumed
    joins,      \* joins[c]: the client_scopes ids of c's join rows
    ceiling,    \* history: what c may still confer, from what it came from
    answered,   \* history: the scopes named by the answer that delivered c
    ask,        \* ask[q]: what a request remembers between its statements
    calls,      \* history: how many requests and saves have begun
    save,       \* save[m]: the save an administrator has under way
    allowed,    \* history: the lists of the last save and those it overlapped
    mixed       \* history: the last saves overlapped, or one stopped half way

rowVars == <<status, joins, ceiling, answered>>

saveVars == <<granted, nextId, save, allowed, mixed>>

scopeVars == <<rowVars, saveVars, ask, calls>>

GrantRow == [id : Nat, scope : Scope]

IdsOf(rows) == {g.id : g \in rows}

ScopesOf(rows) == {g.scope : g \in rows}

\* The scopes a credential confers: its join rows INNER JOIN client_scopes.
Confers(c) == ScopesOf({g \in granted : g.id \in joins[c]})

NoRequest == [pc |-> "idle", src |-> "client", ids |-> {}, may |-> {},
              names |-> {}, out |-> <<>>, cur |-> "client",
              made |-> {}, todo |-> {}]

NoSave == [pc |-> "idle", list |-> {}, todo |-> {}, had |-> [k \in Key |-> {}]]

Outputs == {<<>>, <<"code">>, <<"key">>, <<"access">>, <<"refresh">>,
            <<"access", "refresh">>}

ScopesTypeOK ==
    /\ granted \in SUBSET GrantRow /\ nextId \in Nat
    /\ status \in [Cred -> {"free", "live", "spent"}]
    /\ joins \in [Cred -> SUBSET Nat]
    /\ ceiling \in [Cred -> SUBSET Scope]
    /\ answered \in [Cred -> SUBSET Scope]
    /\ ask \in [Asker -> [pc : {"idle", "select", "consume", "issue"},
                          src : Cred \cup {"client"}, ids : SUBSET Nat,
                          may : SUBSET Scope, names : SUBSET Scope,
                          out : Outputs,
                          cur : Cred \cup {"client"}, made : SUBSET Cred,
                          todo : SUBSET Nat]]
    /\ save \in [Saver -> [pc : {"idle", "insert"}, list : SUBSET Scope,
                           todo : SUBSET Scope, had : [Key -> SUBSET Scope]]]
    /\ calls \in 0 .. MaxCalls
    /\ allowed \in SUBSET Scope /\ mixed \in BOOLEAN

\* A client that has been created with every scope, and at most one code, key
\* or refresh token of it, delivered earlier with some of them.
ScopesInit ==
    /\ nextId = Cardinality(Scope)
    /\ \E id \in [Scope -> 0 .. nextId - 1] :
          /\ \A s, t \in Scope : id[s] = id[t] => s = t
          /\ granted = {[id |-> id[s], scope |-> s] : s \in Scope}
    /\ \E old \in SUBSET (Code \cup Key \cup Refresh), rows \in SUBSET granted :
          /\ Cardinality(old) <= 1
          /\ status = [c \in Cred |-> IF c \in old THEN "live" ELSE "free"]
          /\ joins = [c \in Cred |-> IF c \in old THEN IdsOf(rows) ELSE {}]
          /\ ceiling = [c \in Cred |-> IF c \in old THEN ScopesOf(rows) ELSE {}]
          /\ answered = ceiling
    /\ ask = [q \in Asker |-> NoRequest] /\ calls = 0
    /\ save = [m \in Saver |-> NoSave]
    /\ allowed = Scope /\ mixed = FALSE

-----------------------------------------------------------------------------
(* Requests.                                                               *)

\* The scopes a request asks for: none named means all there are, also when
\* there are none.
Chosen(rows) == {rows} \cup (SUBSET rows \ {{}})

Called == calls < MaxCalls /\ calls' = calls + 1

Begins(q) == ask[q].pc = "idle" /\ Called

\* client_credentials, authorize and the creation of a key read the grants of
\* the client itself.
AskClient(q) ==
    /\ Begins(q)
    /\ \E rows \in Chosen(granted), out \in {<<"access", "refresh">>, <<"code">>, <<"key">>} :
          ask' = [ask EXCEPT ![q] = [NoRequest EXCEPT
                    !.pc = "issue", !.ids = IdsOf(rows), !.may = ScopesOf(granted),
                    !.names = ScopesOf(rows), !.out = out]]
    /\ UNCHANGED <<rowVars, saveVars>>

\* The exchange of an API key reads the grants of the key, and mints an access
\* token only.
AskKey(q) ==
    /\ Begins(q)
    /\ \E k \in Key :
          /\ status[k] = "live"
          /\ \E rows \in Chosen({g \in granted : g.id \in joins[k]}) :
                ask' = [ask EXCEPT ![q] = [NoRequest EXCEPT
                          !.pc = "issue", !.src = k, !.ids = IdsOf(rows),
                          !.may = Confers(k), !.names = ScopesOf(rows),
                          !.out = <<"access">>]]
    /\ UNCHANGED <<rowVars, saveVars>>

\* A code or a refresh token is looked up with the ids of its join rows.
LookUp(q) ==
    /\ Begins(q)
    /\ \E c \in Code \cup Refresh :
          /\ status[c] = "live"
          /\ ask' = [ask EXCEPT ![q] = [NoRequest EXCEPT
                       !.pc = "select", !.src = c, !.ids = joins[c], !.may = Confers(c)]]
    /\ UNCHANGED <<rowVars, saveVars>>

\* Broken variant: what the client is granted now is inherited.
InheritedGrants(ids) == granted

StillGranted(ids) == {g \in granted : g.id \in ids}

\* The grants of the client are read, and filtered by those ids; asking for
\* more is refused before anything is consumed.
SelectGrants(q) ==
    /\ ask[q].pc = "select"
    /\ \/ \E rows \in Chosen(StillGranted(ask[q].ids)) :
             ask' = [ask EXCEPT ![q].pc = "consume", ![q].ids = IdsOf(rows),
                                ![q].names = ScopesOf(rows)]
       \/ ask' = [ask EXCEPT ![q] = NoRequest]
    /\ UNCHANGED <<rowVars, saveVars, calls>>

\* Broken variant: the row is deleted instead of marked.
Removed == "gone"

Consumed == "spent"

\* markUsed and revoke: only the request that flips the row goes on.
Consume(q) ==
    /\ ask[q].pc = "consume"
    /\ \/ /\ status[ask[q].src] = "live"
          /\ status' = [status EXCEPT ![ask[q].src] = Consumed]
          /\ ask' = [ask EXCEPT ![q].pc = "issue", ![q].out = <<"access", "refresh">>]
       \/ /\ status[ask[q].src] # "live"
          /\ ask' = [ask EXCEPT ![q] = NoRequest]
          /\ UNCHANGED status
    /\ UNCHANGED <<joins, ceiling, answered, saveVars, calls>>

\* A cascade, a revocation or another request ends what a request is about to
\* consume; at any other time its end is like never having been there.
EndCredential(c) ==
    /\ status[c] = "live"
    /\ \E q \in Asker : ask[q].pc = "consume" /\ ask[q].src = c
    /\ status' = [status EXCEPT ![c] = Consumed]
    /\ UNCHANGED <<joins, ceiling, answered, ask, saveVars, calls>>

Table(kind) ==
    CASE kind = "code" -> Code [] kind = "access" -> Access [] kind = "refresh" -> Refresh

\* Broken variant: only the access token gets scopes.
AccessScopesOnly(q, kind) == IF kind = "access" THEN ask[q].ids ELSE {}

ScopesFor(q, kind) == ask[q].ids

\* A new random id: which of the unused ones makes no difference.
Fresh(table) == {c \in table : status[c] = "free"
                               /\ c = CHOOSE x \in table : status[x] = "free"}

\* INSERT of a code, access or refresh row; its join rows follow one by one.
InsertRow(q) ==
    /\ ask[q].pc = "issue" /\ ask[q].todo = {}
    /\ ask[q].out # <<>> /\ Head(ask[q].out) # "key"
    /\ \E c \in Fresh(Table(Head(ask[q].out))) :
          /\ status' = [status EXCEPT ![c] = "live"]
          /\ ceiling' = [ceiling EXCEPT ![c] = ask[q].may]
          /\ ask' = [ask EXCEPT ![q].out = Tail(@), ![q].cur = c,
                                ![q].made = @ \cup {c},
                                ![q].todo = ScopesFor(q, Head(ask[q].out))]
    /\ UNCHANGED <<joins, answered, saveVars, calls>>

\* INSERT of one join row; an id that is no longer there violates the foreign
\* key, and the request ends with what it has written so far.
InsertScope(q) ==
    /\ ask[q].pc = "issue"
    /\ \E id \in ask[q].todo :
          \/ /\ id \in IdsOf(granted)
             /\ joins' = [joins EXCEPT ![ask[q].cur] = @ \cup {id}]
             /\ ask' = [ask EXCEPT ![q].todo = @ \ {id}]
          \/ /\ id \notin IdsOf(granted)
             /\ ask' = [ask EXCEPT ![q] = NoRequest]
             /\ UNCHANGED joins
    /\ UNCHANGED <<status, ceiling, answered, saveVars, calls>>

\* The batch that inserts a key with its join rows: all of it or nothing.
InsertKey(q) ==
    /\ ask[q].pc = "issue" /\ ask[q].out = <<"key">>
    /\ \/ /\ ask[q].ids \subseteq IdsOf(granted)
          /\ \E k \in Fresh(Key) :
                /\ status' = [status EXCEPT ![k] = "live"]
                /\ joins' = [joins EXCEPT ![k] = ask[q].ids]
                /\ ceiling' = [ceiling EXCEPT ![k] = ask[q].may]
                /\ ask' = [ask EXCEPT ![q].out = <<>>, ![q].made = @ \cup {k}]
       \/ /\ ~ ask[q].ids \subseteq IdsOf(granted)
          /\ ask' = [ask EXCEPT ![q] = NoRequest]
          /\ UNCHANGED <<status, joins, ceiling>>
    /\ UNCHANGED <<answered, saveVars, calls>>

\* The response names the selected scopes.
Answer(q) ==
    /\ ask[q].pc = "issue" /\ ask[q].todo = {} /\ ask[q].out = <<>>
    /\ answered' = [c \in Cred |-> IF c \in ask[q].made
                                   THEN ask[q].names ELSE answered[c]]
    /\ ask' = [ask EXCEPT ![q] = NoRequest]
    /\ UNCHANGED <<status, joins, ceiling, saveVars, calls>>

\* A request throws or its Worker dies between two statements.
RequestDies(q) ==
    /\ ask[q].pc # "idle"
    /\ ask' = [ask EXCEPT ![q] = NoRequest]
    /\ UNCHANGED <<rowVars, saveVars, calls>>

-----------------------------------------------------------------------------
(* setClientScopes.                                                        *)

Inserting == {m \in Saver : save[m].pc = "insert"}

\* Broken variant: only the rows that will be inserted again are deleted.
ListedRows(list) == {g \in granted : g.scope \in list}

RowsToDelete(list) == granted

\* DELETE FROM client_scopes WHERE client_id = ?, which cascades.  Whatever
\* may be conferred or was promised on the strength of the deleted rows is void.
DeleteGrants(m) ==
    /\ save[m].pc = "idle" /\ Called
    /\ \E list \in SUBSET Scope :
          /\ granted' = granted \ RowsToDelete(list)
          /\ joins' = [c \in Cred |-> joins[c] \ IdsOf(RowsToDelete(list))]
          /\ save' = [save EXCEPT ![m] = [pc |-> "insert", list |-> list, todo |-> list,
                                          had |-> [k \in Key |-> Confers(k)]]]
          /\ allowed' = IF Inserting = {} THEN list ELSE allowed \cup list
    /\ mixed' = (Inserting # {})
    /\ ceiling' = [c \in Cred |-> {}]
    /\ answered' = [c \in Cred |-> {}]
    /\ ask' = [q \in Asker |-> [ask[q] EXCEPT !.may = {}, !.names = {}]]
    /\ UNCHANGED <<status, nextId>>

\* One INSERT with a new id; UNIQUE(client_id, scope_id) refuses a scope that
\* an overlapping save has inserted already, and that ends this save.
InsertGrant(m) ==
    /\ save[m].pc = "insert"
    /\ \E s \in save[m].todo :
          \/ /\ s \notin ScopesOf(granted)
             /\ granted' = granted \cup {[id |-> nextId, scope |-> s]}
             /\ nextId' = nextId + 1
             /\ save' = [save EXCEPT ![m].todo = @ \ {s}]
          \/ /\ s \in ScopesOf(granted)
             /\ save' = [save EXCEPT ![m] = NoSave]
             /\ UNCHANGED <<granted, nextId>>
    /\ UNCHANGED <<rowVars, ask, calls, allowed, mixed>>

SaveDone(m) ==
    /\ save[m].pc = "insert" /\ save[m].todo = {}
    /\ save' = [save EXCEPT ![m] = NoSave]
    /\ UNCHANGED <<rowVars, ask, calls, granted, nextId, allowed, mixed>>

\* The save stops half way.
SaveDies(m) ==
    /\ save[m].pc = "insert" /\ save[m].todo # {}
    /\ save' = [save EXCEPT ![m] = NoSave]
    /\ mixed' = TRUE
    /\ UNCHANGED <<rowVars, ask, calls, granted, nextId, allowed>>

-----------------------------------------------------------------------------
RequestNext(q) ==
    \/ AskClient(q) \/ AskKey(q) \/ LookUp(q) \/ SelectGrants(q) \/ Consume(q)
    \/ InsertRow(q) \/ InsertScope(q) \/ InsertKey(q) \/ Answer(q) \/ RequestDies(q)

SaveNext(m) == DeleteGrants(m) \/ InsertGrant(m) \/ SaveDone(m) \/ SaveDies(m)

ScopesNext ==
    \/ \E q \in Asker : RequestNext(q)
    \/ \E c \in Cred : EndCredential(c)
    \/ \E m \in Saver : SaveNext(m)

ScopesSpec == ScopesInit /\ [][ScopesNext]_scopeVars

-----------------------------------------------------------------------------
(* Properties.                                                             *)

\* No credential confers a scope that its source did not confer when it was
\* read, through any chain of exchanges; and once the list has been saved,
\* nothing read or written before confers anything, whatever is inserted late.
UngrantedStaysGone == \A c \in Cred : Confers(c) \subseteq ceiling[c]

\* Until the list is saved again, a delivered credential confers exactly the
\* scopes its answer named, though its join rows were inserted one by one.
AnswersHoldTheirScopes ==
    \A c \in Cred : answered[c] # {} => Confers(c) = answered[c]

\* While no save is under way the client has exactly the last list; only saves
\* that overlap or stop half way may leave less, and never a scope that none
\* of them listed.
SavedListIsExact ==
    /\ ScopesOf(granted) \subseteq allowed
    /\ Inserting = {} /\ ~ mixed => ScopesOf(granted) = allowed

\* services/api-key.service.ts:442-444, docs/features/api-keys.mdx:77-80: a key
\* is frozen at issue and loses a scope when it is ungranted from the client.
\* So a save that keeps a scope, overlapped by no other, should leave it with
\* the keys that held it.
KeyKeepsWhatClientKeeps ==
    [][\A m \in Saver, k \in Key :
         /\ save[m].pc = "insert" /\ save'[m].pc = "idle"
         /\ save[m].todo = {} /\ ~ mixed
         => save[m].had[k] \cap save[m].list \subseteq Confers(k)]_scopeVars
=============================================================================

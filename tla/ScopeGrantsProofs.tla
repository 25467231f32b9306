------------------------- MODULE ScopeGrantsProofs -------------------------
(***************************************************************************)
(* Proofs about ScopeGrants for any scopes, credentials, requests and      *)
(* saves.  UngrantedStaysGone is inductive with three facts: every id that *)
(* is remembered anywhere is older than the next one, so a row inserted    *)
(* later is named by no join row; the ids a request remembers lead only to *)
(* scopes it may confer; and the row it is filling may confer those.  That *)
(* answers hold their scopes needs what each request has made: credentials *)
(* of its own, with the ids the answer stands for or on the way there.     *)
(***************************************************************************)
EXTENDS ScopeGrants, FiniteSetTheorems, TLAPS

Older == 0 .. nextId - 1

TablesInv ==
    /\ IdsOf(granted) \subseteq Older
    /\ \A c \in Cred : joins[c] \subseteq Older
    /\ \A c \in Cred : status[c] = "free" => joins[c] = {}

\* What a request remembers leads to what it may confer, and the row it is
\* filling is there and may confer the same.
RequestInv(q) ==
    /\ ask[q].ids \subseteq Older
    /\ ask[q].pc # "issue" => ask[q].todo = {}
    /\ \A g \in granted : g.id \in ask[q].ids => g.scope \in ask[q].may
    /\ ask[q].todo # {} => /\ ask[q].todo \subseteq ask[q].ids
                           /\ ask[q].cur \in Cred /\ status[ask[q].cur] # "free"
                           /\ ask[q].may \subseteq ceiling[ask[q].cur]

AskRow == [pc : {"idle", "select", "consume", "issue"},
            src : Cred \cup {"client"}, ids : SUBSET Nat,
            may : SUBSET Scope, names : SUBSET Scope,
            out : Outputs,
            cur : Cred \cup {"client"}, made : SUBSET Cred,
            todo : SUBSET Nat]

\* A save keeps the last list exact as long as it is alone.
SaveInv ==
    /\ ScopesOf(granted) \subseteq allowed
    /\ \A m \in Inserting : save[m].todo \subseteq allowed
    /\ ~ mixed => /\ \A m, n \in Inserting : m = n
                  /\ \A m \in Inserting : /\ ScopesOf(granted) \cup save[m].todo = allowed
                                          /\ ScopesOf(granted) \cap save[m].todo = {}
                  /\ Inserting = {} => ScopesOf(granted) = allowed

ScopesInv ==
    /\ ScopesTypeOK /\ TablesInv /\ (\A q \in Asker : RequestInv(q))
    /\ UngrantedStaysGone

-----------------------------------------------------------------------------
(* Types.                                                                  *)

\* A row of the table of scopes has an id and a scope.
LEMMA GrantRows ==
    ASSUME NEW rows \in SUBSET GrantRow
    PROVE  IdsOf(rows) \in SUBSET Nat /\ ScopesOf(rows) \in SUBSET Scope
  BY DEF IdsOf, ScopesOf, GrantRow

LEMMA ChosenRows ==
    ASSUME NEW rows, NEW chosen \in Chosen(rows)
    PROVE  chosen \subseteq rows
  BY DEF Chosen

LEMMA NoRequestType == NoRequest \in AskRow
  BY DEF NoRequest, AskRow, Outputs

LEMMA TailOfOne == ASSUME NEW x PROVE Tail(<<x>>) = <<>>
  <1>1. <<x>> \in Seq({x}) /\ Len(<<x>>) = 1
    OBVIOUS
  <1>2. Tail(<<x>>) \in Seq({x}) /\ Len(Tail(<<x>>)) = 0
    BY <1>1
  <1> QED
    BY <1>2

LEMMA TailOfTwo == ASSUME NEW x, NEW y PROVE Tail(<<x, y>>) = <<y>>
  <1>1. <<x, y>> \in Seq({x, y}) /\ Len(<<x, y>>) = 2
    OBVIOUS
  <1>2. Tail(<<x, y>>) \in Seq({x, y}) /\ Len(Tail(<<x, y>>)) = 1 /\ Tail(<<x, y>>)[1] = y
    BY <1>1
  <1> QED
    BY <1>2

\* What is left to insert stays one of the known lists.
LEMMA OutputsTail ==
    ASSUME NEW out \in Outputs, out # <<>>
    PROVE  Tail(out) \in Outputs
  BY TailOfOne, TailOfTwo, Zenon DEF Outputs

Saving == [pc : {"idle", "insert"}, list : SUBSET Scope,
           todo : SUBSET Scope, had : [Key -> SUBSET Scope]]

LEMMA TypeParts ==
    ScopesTypeOK <=>
    /\ granted \in SUBSET GrantRow /\ nextId \in Nat
    /\ status \in [Cred -> {"free", "live", "spent"}]
    /\ joins \in [Cred -> SUBSET Nat]
    /\ ceiling \in [Cred -> SUBSET Scope]
    /\ answered \in [Cred -> SUBSET Scope]
    /\ ask \in [Asker -> AskRow]
    /\ save \in [Saver -> Saving]
    /\ calls \in 0 .. MaxCalls
    /\ allowed \in SUBSET Scope /\ mixed \in BOOLEAN
  BY Zenon DEF ScopesTypeOK, AskRow, Saving

\* A credential confers scopes, those of the rows that its join rows name.
LEMMA ConfersScopes ==
    ASSUME ScopesTypeOK, NEW c
    PROVE  /\ Confers(c) \in SUBSET Scope
           /\ \A g \in granted : g.id \in joins[c] => g.scope \in Confers(c)
  BY TypeParts DEF Confers, ScopesOf, GrantRow

-----------------------------------------------------------------------------
(* One request moves, and the list is not saved.                           *)

LEMMA RequestMove ==
    ASSUME ScopesInv, NEW q \in Asker, UNCHANGED saveVars,
           status' \in [Cred -> {"free", "live", "spent"}],
           joins' \in [Cred -> SUBSET Nat], ceiling' \in [Cred -> SUBSET Scope],
           answered' \in [Cred -> SUBSET Scope], calls' \in 0 .. MaxCalls,
           ask' \in [Asker -> AskRow],
           \A r \in Asker \ {q} : ask'[r] = ask[r],
           RequestInv(q)',
           \A c \in Cred : status[c] # "free" => status'[c] # "free" /\ ceiling'[c] = ceiling[c],
           \A c \in Cred : joins'[c] \subseteq Older,
           \A c \in Cred : status'[c] = "free" => joins'[c] = {},
           UngrantedStaysGone'
    PROVE  ScopesInv'
  <1>1. granted' = granted /\ nextId' = nextId /\ Older' = Older
    BY DEF saveVars, Older
  <1>2. ScopesTypeOK'
    <2>1. UNCHANGED <<granted, nextId, save, allowed, mixed>>
      BY DEF saveVars
    <2> QED
      BY <2>1, TypeParts DEF ScopesInv, ScopesTypeOK, AskRow
  <1>3. TablesInv'
    BY <1>1 DEF TablesInv, ScopesInv, IdsOf
  <1>4. ASSUME NEW r \in Asker PROVE RequestInv(r)'
    <2>1. CASE r = q
      BY <2>1
    <2>2. CASE r # q
      <3>1. ask'[r] = ask[r] /\ RequestInv(r)
        BY <2>2 DEF ScopesInv
      <3> QED
        BY <3>1, <1>1 DEF RequestInv
    <2> QED
      BY <2>1, <2>2
  <1> QED
    BY <1>2, <1>3, <1>4 DEF ScopesInv

\* ... and the tables are left alone.
LEMMA RequestOnly ==
    ASSUME ScopesInv, NEW q \in Asker, UNCHANGED <<rowVars, saveVars>>,
           calls' \in 0 .. MaxCalls, NEW new \in AskRow, ask' = [ask EXCEPT ![q] = new],
           new.todo = {}, new.ids \subseteq Older,
           \A g \in granted : g.id \in new.ids => g.scope \in new.may
    PROVE  ScopesInv'
  <1>1. UNCHANGED <<granted, nextId, status, joins, ceiling, answered>>
    BY DEF rowVars, saveVars
  <1>2. ask \in [Asker -> AskRow]
    BY TypeParts DEF ScopesInv
  <1>3. ask' \in [Asker -> AskRow] /\ ask'[q] = new /\ \A r \in Asker \ {q} : ask'[r] = ask[r]
    BY <1>2
  <1>4. RequestInv(q)'
    BY <1>1, <1>3 DEF RequestInv, Older
  <1>5. UngrantedStaysGone'
    BY <1>1 DEF ScopesInv, UngrantedStaysGone, Confers, ScopesOf
  <1>6. TablesInv /\ UNCHANGED saveVars
    BY DEF ScopesInv
  <1> QED
    BY <1>1, <1>3, <1>4, <1>5, <1>6, RequestMove, TypeParts DEF ScopesInv, TablesInv

LEMMA Forgets ==
    ASSUME ScopesInv, NEW q \in Asker, UNCHANGED <<rowVars, saveVars>>,
           calls' \in 0 .. MaxCalls, ask' = [ask EXCEPT ![q] = NoRequest]
    PROVE  ScopesInv'
  <1>1. NoRequest.todo = {} /\ NoRequest.ids = {}
    BY DEF NoRequest
  <1> QED
    BY <1>1, NoRequestType, RequestOnly

LEMMA CallsBounded == ASSUME ScopesTypeOK, Called PROVE calls' \in 0 .. MaxCalls
  BY MaxCallsAssumption DEF ScopesTypeOK, Called

LEMMA AskClientStep ==
    ASSUME ScopesInv, NEW q \in Asker, AskClient(q)
    PROVE  ScopesInv'
  <1>1. PICK rows \in Chosen(granted), out \in {<<"access", "refresh">>, <<"code">>, <<"key">>} :
           ask' = [ask EXCEPT ![q] = [NoRequest EXCEPT
                    !.pc = "issue", !.ids = IdsOf(rows), !.may = ScopesOf(granted),
                    !.names = ScopesOf(rows), !.out = out]]
    BY DEF AskClient
  <1> DEFINE new == [NoRequest EXCEPT
                    !.pc = "issue", !.ids = IdsOf(rows), !.may = ScopesOf(granted),
                    !.names = ScopesOf(rows), !.out = out]
  <1>2. rows \subseteq granted /\ granted \in SUBSET GrantRow
    BY ChosenRows, TypeParts DEF ScopesInv
  <1>3. /\ IdsOf(rows) \in SUBSET Nat /\ ScopesOf(rows) \in SUBSET Scope
        /\ ScopesOf(granted) \in SUBSET Scope
    BY <1>2, GrantRows
  <1>4. new \in AskRow /\ new.todo = {} /\ new.ids = IdsOf(rows) /\ new.may = ScopesOf(granted)
    BY <1>3 DEF NoRequest, AskRow, Outputs
  <1>5. IdsOf(rows) \subseteq Older
    BY <1>2 DEF ScopesInv, TablesInv, IdsOf
  <1>6. \A g \in granted : g.scope \in ScopesOf(granted)
    BY DEF ScopesOf
  <1>7. calls' \in 0 .. MaxCalls /\ UNCHANGED <<rowVars, saveVars>>
    BY CallsBounded DEF AskClient, Begins, ScopesInv
  <1> HIDE DEF new
  <1>8. ask' = [ask EXCEPT ![q] = new]
    BY <1>1 DEF new
  <1> QED
    BY <1>4, <1>5, <1>6, <1>7, <1>8, RequestOnly

LEMMA AskKeyStep ==
    ASSUME ScopesInv, NEW q \in Asker, AskKey(q)
    PROVE  ScopesInv'
  <1>1. PICK k \in Key : \E rows \in Chosen({g \in granted : g.id \in joins[k]}) :
           ask' = [ask EXCEPT ![q] = [NoRequest EXCEPT
                          !.pc = "issue", !.src = k, !.ids = IdsOf(rows),
                          !.may = Confers(k), !.names = ScopesOf(rows),
                          !.out = <<"access">>]]
    BY DEF AskKey
  <1>2. PICK rows \in Chosen({g \in granted : g.id \in joins[k]}) :
           ask' = [ask EXCEPT ![q] = [NoRequest EXCEPT
                          !.pc = "issue", !.src = k, !.ids = IdsOf(rows),
                          !.may = Confers(k), !.names = ScopesOf(rows),
                          !.out = <<"access">>]]
    BY <1>1
  <1> DEFINE new == [NoRequest EXCEPT
                          !.pc = "issue", !.src = k, !.ids = IdsOf(rows),
                          !.may = Confers(k), !.names = ScopesOf(rows),
                          !.out = <<"access">>]
  <1>3. rows \subseteq {g \in granted : g.id \in joins[k]} /\ granted \in SUBSET GrantRow
    BY ChosenRows, TypeParts DEF ScopesInv
  <1>4. /\ IdsOf(rows) \in SUBSET Nat /\ ScopesOf(rows) \in SUBSET Scope
        /\ Confers(k) \in SUBSET Scope /\ k \in Cred
    BY <1>3, GrantRows, ConfersScopes DEF ScopesInv, Cred
  <1>5. new \in AskRow /\ new.todo = {} /\ new.ids = IdsOf(rows) /\ new.may = Confers(k)
    BY <1>4 DEF NoRequest, AskRow, Outputs
  <1>6. IdsOf(rows) \subseteq Older /\ IdsOf(rows) \subseteq joins[k]
    BY <1>3 DEF ScopesInv, TablesInv, IdsOf
  <1>7. \A g \in granted : g.id \in IdsOf(rows) => g.scope \in Confers(k)
    BY <1>6, ConfersScopes DEF ScopesInv
  <1>8. calls' \in 0 .. MaxCalls /\ UNCHANGED <<rowVars, saveVars>>
    BY CallsBounded DEF AskKey, Begins, ScopesInv
  <1> HIDE DEF new
  <1>9. ask' = [ask EXCEPT ![q] = new]
    BY <1>2 DEF new
  <1> QED
    BY <1>5, <1>6, <1>7, <1>8, <1>9, RequestOnly

LEMMA LookUpStep ==
    ASSUME ScopesInv, NEW q \in Asker, LookUp(q)
    PROVE  ScopesInv'
  <1>1. PICK c \in Code \cup Refresh :
           ask' = [ask EXCEPT ![q] = [NoRequest EXCEPT
                       !.pc = "select", !.src = c, !.ids = joins[c], !.may = Confers(c)]]
    BY DEF LookUp
  <1> DEFINE new == [NoRequest EXCEPT
                       !.pc = "select", !.src = c, !.ids = joins[c], !.may = Confers(c)]
  <1>2. c \in Cred /\ joins[c] \in SUBSET Nat /\ Confers(c) \in SUBSET Scope
    BY TypeParts, ConfersScopes DEF ScopesInv, Cred
  <1>3. new \in AskRow /\ new.todo = {} /\ new.ids = joins[c] /\ new.may = Confers(c)
    BY <1>2 DEF NoRequest, AskRow, Outputs
  <1>4. joins[c] \subseteq Older /\ \A g \in granted : g.id \in joins[c] => g.scope \in Confers(c)
    BY <1>2, ConfersScopes DEF ScopesInv, TablesInv
  <1>5. calls' \in 0 .. MaxCalls /\ UNCHANGED <<rowVars, saveVars>>
    BY CallsBounded DEF LookUp, Begins, ScopesInv
  <1> HIDE DEF new
  <1>6. ask' = [ask EXCEPT ![q] = new]
    BY <1>1 DEF new
  <1> QED
    BY <1>3, <1>4, <1>5, <1>6, RequestOnly

LEMMA SelectGrantsStep ==
    ASSUME ScopesInv, NEW q \in Asker, SelectGrants(q)
    PROVE  ScopesInv'
  <1>1. /\ calls' \in 0 .. MaxCalls /\ UNCHANGED <<rowVars, saveVars>>
        /\ ask \in [Asker -> AskRow] /\ granted \in SUBSET GrantRow
    BY TypeParts DEF ScopesInv, SelectGrants
  <1>2. ASSUME NEW rows \in Chosen(StillGranted(ask[q].ids)),
               ask' = [ask EXCEPT ![q].pc = "consume", ![q].ids = IdsOf(rows),
                                  ![q].names = ScopesOf(rows)]
        PROVE  ScopesInv'
    <2> DEFINE new == [ask[q] EXCEPT !.pc = "consume", !.ids = IdsOf(rows),
                                     !.names = ScopesOf(rows)]
    <2>1. rows \subseteq granted /\ \A g \in rows : g.id \in ask[q].ids
      BY ChosenRows DEF StillGranted
    <2>2. IdsOf(rows) \in SUBSET Nat /\ ScopesOf(rows) \in SUBSET Scope
      BY <1>1, <2>1, GrantRows
    <2>3. ask[q] \in AskRow /\ ask[q].todo = {} /\ RequestInv(q)
      BY <1>1 DEF ScopesInv, RequestInv, SelectGrants
    <2>4. new \in AskRow /\ new.todo = {} /\ new.ids = IdsOf(rows) /\ new.may = ask[q].may
      BY <2>2, <2>3 DEF AskRow
    <2>5. IdsOf(rows) \subseteq ask[q].ids
      BY <2>1 DEF IdsOf
    <2>6. IdsOf(rows) \subseteq Older /\ \A g \in granted : g.id \in IdsOf(rows) => g.scope \in ask[q].may
      BY <2>3, <2>5 DEF RequestInv
    <2>7. ask' = [ask EXCEPT ![q] = new]
      BY <1>1, <1>2, <2>3 DEF AskRow
    <2> HIDE DEF new
    <2> QED
      BY <1>1, <2>4, <2>6, <2>7, RequestOnly
  <1> QED
    BY <1>1, <1>2, Forgets DEF SelectGrants

LEMMA RequestDiesStep ==
    ASSUME ScopesInv, NEW q \in Asker, RequestDies(q)
    PROVE  ScopesInv'
  BY Forgets, TypeParts DEF ScopesInv, RequestDies

\* A credential stops being live: what it confers and its join rows stay.
LEMMA StatusMove ==
    ASSUME ScopesInv, NEW q \in Asker, UNCHANGED <<joins, ceiling, answered, saveVars, calls>>,
           NEW c \in Cred, status[c] = "live", status' = [status EXCEPT ![c] = Consumed],
           ask' \in [Asker -> AskRow], \A r \in Asker \ {q} : ask'[r] = ask[r],
           RequestInv(q)'
    PROVE  ScopesInv'
  <1>1. /\ UNCHANGED <<granted, joins, ceiling, answered, calls>>
        /\ status \in [Cred -> {"free", "live", "spent"}]
        /\ joins \in [Cred -> SUBSET Nat] /\ ceiling \in [Cred -> SUBSET Scope]
        /\ answered \in [Cred -> SUBSET Scope] /\ calls \in 0 .. MaxCalls
    BY TypeParts DEF ScopesInv, saveVars
  <1>2. /\ status' \in [Cred -> {"free", "live", "spent"}]
        /\ \A d \in Cred : status'[d] = "free" <=> status[d] = "free"
    BY <1>1 DEF Consumed
  <1>3. UngrantedStaysGone'
    BY <1>1 DEF ScopesInv, UngrantedStaysGone, Confers, ScopesOf
  <1>4. \A d \in Cred : status[d] # "free" => status'[d] # "free" /\ ceiling'[d] = ceiling[d]
    BY <1>1, <1>2
  <1>5. \A d \in Cred : joins'[d] \subseteq Older
    BY <1>1 DEF ScopesInv, TablesInv
  <1>6. \A d \in Cred : status'[d] = "free" => joins'[d] = {}
    BY <1>1, <1>2 DEF ScopesInv, TablesInv
  <1> QED
    BY <1>1, <1>2, <1>3, <1>4, <1>5, <1>6, RequestMove

LEMMA ConsumeStep ==
    ASSUME ScopesInv, NEW q \in Asker, Consume(q)
    PROVE  ScopesInv'
  <1>1. /\ ask \in [Asker -> AskRow] /\ ask[q] \in AskRow /\ RequestInv(q)
        /\ status \in [Cred -> {"free", "live", "spent"}] /\ calls \in 0 .. MaxCalls
    BY TypeParts DEF ScopesInv
  <1>2. CASE /\ status[ask[q].src] = "live"
             /\ status' = [status EXCEPT ![ask[q].src] = Consumed]
             /\ ask' = [ask EXCEPT ![q].pc = "issue", ![q].out = <<"access", "refresh">>]
    <2>1. CASE ask[q].src \in Cred
      <3>1. UNCHANGED <<granted, nextId, joins, ceiling, answered, saveVars, calls>>
        BY DEF Consume, saveVars
      <3>2. /\ ask'[q] = [ask[q] EXCEPT !.pc = "issue", !.out = <<"access", "refresh">>]
            /\ \A r \in Asker \ {q} : ask'[r] = ask[r]
        BY <1>1, <1>2
      <3>3. ask'[q] \in AskRow /\ ask'[q].todo = {} /\ ask'[q].ids = ask[q].ids /\ ask'[q].may = ask[q].may
        BY <1>1, <3>2 DEF Consume, RequestInv, AskRow, Outputs
      <3>4. ask' \in [Asker -> AskRow]
        BY <1>1, <1>2, <3>3
      <3>5. RequestInv(q)'
        BY <1>1, <3>1, <3>3 DEF RequestInv, Older
      <3> QED
        BY <1>2, <2>1, <3>1, <3>2, <3>4, <3>5, StatusMove
    <2>2. CASE ask[q].src \notin Cred
      <3>1. /\ status' = status
        BY <1>1, <1>2, <2>2
      <3> DEFINE new == [ask[q] EXCEPT !.pc = "issue", !.out = <<"access", "refresh">>]
      <3>2. new \in AskRow /\ new.todo = {} /\ new.ids = ask[q].ids /\ new.may = ask[q].may
        BY <1>1 DEF Consume, RequestInv, AskRow, Outputs
      <3>3. ask' = [ask EXCEPT ![q] = new]
        BY <1>1, <1>2 DEF AskRow
      <3>4. UNCHANGED <<rowVars, saveVars>> /\ calls' \in 0 .. MaxCalls
        BY <1>1, <3>1 DEF Consume, rowVars
      <3>5. new.ids \subseteq Older /\ \A g \in granted : g.id \in new.ids => g.scope \in new.may
        BY <1>1, <3>2 DEF RequestInv
      <3> HIDE DEF new
      <3> QED
        BY <3>2, <3>3, <3>4, <3>5, RequestOnly
    <2> QED
      BY <2>1, <2>2
  <1>3. CASE status' = status /\ ask' = [ask EXCEPT ![q] = NoRequest]
    <2>1. UNCHANGED <<rowVars, saveVars>> /\ calls' \in 0 .. MaxCalls
      BY <1>1, <1>3 DEF Consume, rowVars
    <2> QED
      BY <1>3, <2>1, Forgets
  <1> QED
    BY <1>2, <1>3 DEF Consume

LEMMA EndCredentialStep ==
    ASSUME ScopesInv, NEW c \in Cred, EndCredential(c)
    PROVE  ScopesInv'
  <1>1. PICK q \in Asker : ask[q].pc = "consume" /\ ask[q].src = c
    BY DEF EndCredential
  <1>2. UNCHANGED <<granted, nextId, joins, ceiling, answered, ask, saveVars, calls>>
    BY DEF EndCredential, saveVars
  <1>3. ask' \in [Asker -> AskRow] /\ \A r \in Asker \ {q} : ask'[r] = ask[r]
    BY <1>2, TypeParts DEF ScopesInv
  <1>4. RequestInv(q)'
    BY <1>1, <1>2 DEF ScopesInv, RequestInv, Older
  <1>5. status[c] = "live" /\ status' = [status EXCEPT ![c] = Consumed]
    BY DEF EndCredential
  <1> QED
    BY <1>2, <1>3, <1>4, <1>5, StatusMove

LEMMA AnswerStep ==
    ASSUME ScopesInv, NEW q \in Asker, Answer(q)
    PROVE  ScopesInv'
  <1>1. /\ ask \in [Asker -> AskRow] /\ ask[q] \in AskRow
        /\ status \in [Cred -> {"free", "live", "spent"}] /\ calls \in 0 .. MaxCalls
        /\ joins \in [Cred -> SUBSET Nat] /\ ceiling \in [Cred -> SUBSET Scope]
        /\ answered \in [Cred -> SUBSET Scope]
    BY TypeParts DEF ScopesInv
  <1>2. UNCHANGED <<granted, nextId, status, joins, ceiling, saveVars, calls>>
    BY DEF Answer, saveVars
  <1>3. answered' \in [Cred -> SUBSET Scope]
    BY <1>1 DEF Answer, AskRow
  <1>4. /\ ask' \in [Asker -> AskRow] /\ \A r \in Asker \ {q} : ask'[r] = ask[r]
        /\ ask'[q] = NoRequest
    BY <1>1, NoRequestType DEF Answer
  <1>5. RequestInv(q)'
    BY <1>4 DEF RequestInv, NoRequest
  <1>6. UngrantedStaysGone'
    BY <1>2 DEF ScopesInv, UngrantedStaysGone, Confers, ScopesOf
  <1>7. /\ \A d \in Cred : status[d] # "free" => status'[d] # "free" /\ ceiling'[d] = ceiling[d]
        /\ \A d \in Cred : joins'[d] \subseteq Older
        /\ \A d \in Cred : status'[d] = "free" => joins'[d] = {}
    BY <1>2 DEF ScopesInv, TablesInv
  <1> QED
    BY <1>1, <1>2, <1>3, <1>4, <1>5, <1>6, <1>7, RequestMove

\* Whatever list is left to insert, its head names a table of credentials.
LEMMA TablesOfOutputs ==
    ASSUME NEW out \in Outputs, out # <<>>, Head(out) # "key"
    PROVE  Table(Head(out)) \subseteq Cred
  <1>1. Head(out) \in {"code", "access", "refresh"}
    BY DEF Outputs
  <1> QED
    BY <1>1 DEF Table, Cred

LEMMA InsertRowStep ==
    ASSUME ScopesInv, NEW q \in Asker, InsertRow(q)
    PROVE  ScopesInv'
  <1>1. /\ ask \in [Asker -> AskRow] /\ ask[q] \in AskRow /\ RequestInv(q)
        /\ status \in [Cred -> {"free", "live", "spent"}] /\ calls \in 0 .. MaxCalls
        /\ joins \in [Cred -> SUBSET Nat] /\ ceiling \in [Cred -> SUBSET Scope]
        /\ answered \in [Cred -> SUBSET Scope] /\ TablesInv
    BY TypeParts DEF ScopesInv
  <1>2. PICK c \in Fresh(Table(Head(ask[q].out))) :
          /\ status' = [status EXCEPT ![c] = "live"]
          /\ ceiling' = [ceiling EXCEPT ![c] = ask[q].may]
          /\ ask' = [ask EXCEPT ![q].out = Tail(@), ![q].cur = c,
                                ![q].made = @ \cup {c},
                                ![q].todo = ScopesFor(q, Head(ask[q].out))]
    BY DEF InsertRow
  <1>3. UNCHANGED <<granted, nextId, joins, answered, saveVars, calls>>
    BY DEF InsertRow, saveVars
  <1>4. ask[q].out \in Outputs /\ ask[q].out # <<>> /\ Head(ask[q].out) # "key"
    BY <1>1 DEF AskRow, InsertRow
  <1>5. c \in Cred /\ status[c] = "free" /\ joins[c] = {}
    BY <1>1, <1>2, <1>4, TablesOfOutputs DEF Fresh, TablesInv
  <1>6. /\ ask[q].may \in SUBSET Scope /\ ask[q].ids \in SUBSET Nat
        /\ ask[q].made \in SUBSET Cred /\ ask[q].pc = "issue"
    BY <1>1 DEF AskRow, InsertRow
  <1>7. Tail(ask[q].out) \in Outputs
    BY <1>4, OutputsTail
  <1>8. /\ status' \in [Cred -> {"free", "live", "spent"}] /\ status'[c] = "live"
        /\ ceiling' \in [Cred -> SUBSET Scope] /\ ceiling'[c] = ask[q].may
        /\ \A d \in Cred \ {c} : status'[d] = status[d] /\ ceiling'[d] = ceiling[d]
    BY <1>1, <1>2, <1>5, <1>6
  <1> DEFINE new == [ask[q] EXCEPT !.out = Tail(@), !.cur = c, !.made = @ \cup {c},
                                   !.todo = ask[q].ids]
  <1>9. /\ new \in AskRow /\ new.ids = ask[q].ids /\ new.may = ask[q].may
        /\ new.todo = ask[q].ids /\ new.cur = c /\ new.pc = "issue"
    BY <1>1, <1>5, <1>6, <1>7 DEF AskRow
  <1>10. ask' = [ask EXCEPT ![q] = new]
    BY <1>1, <1>2 DEF AskRow, ScopesFor
  <1> HIDE DEF new
  <1>11. /\ ask' \in [Asker -> AskRow] /\ ask'[q] = new
         /\ \A r \in Asker \ {q} : ask'[r] = ask[r]
    BY <1>1, <1>9, <1>10
  <1>12. RequestInv(q)'
    BY <1>1, <1>3, <1>5, <1>8, <1>9, <1>11 DEF RequestInv, Older
  <1>13. UngrantedStaysGone'
    <2>1. \A d \in Cred : Confers(d)' = Confers(d)
      BY <1>3 DEF Confers, ScopesOf
    <2>2. Confers(c) = {}
      BY <1>5 DEF Confers, ScopesOf
    <2> QED
      BY <1>8, <2>1, <2>2 DEF UngrantedStaysGone, ScopesInv
  <1>14. /\ \A d \in Cred : status[d] # "free" => status'[d] # "free" /\ ceiling'[d] = ceiling[d]
         /\ \A d \in Cred : joins'[d] \subseteq Older
         /\ \A d \in Cred : status'[d] = "free" => joins'[d] = {}
    BY <1>1, <1>3, <1>5, <1>8 DEF TablesInv
  <1> QED
    BY <1>1, <1>3, <1>8, <1>11, <1>12, <1>13, <1>14, RequestMove

LEMMA InsertScopeStep ==
    ASSUME ScopesInv, NEW q \in Asker, InsertScope(q)
    PROVE  ScopesInv'
  <1>1. /\ ask \in [Asker -> AskRow] /\ ask[q] \in AskRow /\ RequestInv(q)
        /\ status \in [Cred -> {"free", "live", "spent"}] /\ calls \in 0 .. MaxCalls
        /\ joins \in [Cred -> SUBSET Nat] /\ ceiling \in [Cred -> SUBSET Scope]
        /\ answered \in [Cred -> SUBSET Scope] /\ TablesInv
    BY TypeParts DEF ScopesInv
  <1>2. PICK id \in ask[q].todo :
          \/ /\ id \in IdsOf(granted)
             /\ joins' = [joins EXCEPT ![ask[q].cur] = @ \cup {id}]
             /\ ask' = [ask EXCEPT ![q].todo = @ \ {id}]
          \/ /\ id \notin IdsOf(granted)
             /\ ask' = [ask EXCEPT ![q] = NoRequest]
             /\ UNCHANGED joins
    BY DEF InsertScope
  <1>3. /\ UNCHANGED <<granted, nextId, status, ceiling, answered, saveVars, calls>>
        /\ ask[q].pc = "issue"
    BY DEF InsertScope, saveVars
  <1>c. PICK c : c = ask[q].cur
    OBVIOUS
  <1>4. /\ c \in Cred /\ status[c] # "free" /\ ask[q].may \subseteq ceiling[c]
        /\ id \in ask[q].ids /\ id \in Older /\ ask[q].todo \subseteq ask[q].ids
        /\ id \in Nat
    BY <1>1, <1>c DEF RequestInv, AskRow
  <1>5. CASE /\ joins' = [joins EXCEPT ![c] = @ \cup {id}]
             /\ ask' = [ask EXCEPT ![q].todo = @ \ {id}]
    <2> DEFINE new == [ask[q] EXCEPT !.todo = @ \ {id}]
    <2>1. /\ new \in AskRow /\ new.ids = ask[q].ids /\ new.may = ask[q].may
          /\ new.todo \subseteq ask[q].todo /\ new.cur = c /\ new.pc = "issue"
      BY <1>1, <1>3, <1>c DEF AskRow
    <2>2. ask' = [ask EXCEPT ![q] = new]
      BY <1>1, <1>5 DEF AskRow
    <2> HIDE DEF new
    <2>3. /\ ask' \in [Asker -> AskRow] /\ ask'[q] = new
          /\ \A r \in Asker \ {q} : ask'[r] = ask[r]
      BY <1>1, <2>1, <2>2
    <2>4. RequestInv(q)'
      BY <1>1, <1>3, <1>4, <2>1, <2>3 DEF RequestInv, Older
    <2>5. /\ joins' \in [Cred -> SUBSET Nat] /\ joins'[c] = joins[c] \cup {id}
          /\ \A d \in Cred \ {c} : joins'[d] = joins[d]
      BY <1>1, <1>4, <1>5
    <2>6. UngrantedStaysGone'
      <3>1. \A d \in Cred \ {c} : Confers(d)' = Confers(d)
        BY <1>3, <2>5 DEF Confers, ScopesOf
      <3>2. Confers(c)' \subseteq ceiling[c]
        <4>1. ASSUME NEW g \in granted, g.id \in joins[c] \cup {id} PROVE g.scope \in ceiling[c]
          <5>1. CASE g.id \in joins[c]
            BY <1>4, <5>1 DEF ScopesInv, UngrantedStaysGone, Confers, ScopesOf
          <5>2. CASE g.id = id
            BY <1>1, <1>4, <5>2 DEF RequestInv
          <5> QED
            BY <4>1, <5>1, <5>2
        <4>2. Confers(c)' = ScopesOf({g \in granted : g.id \in joins[c] \cup {id}})
          <5>1. joins'[c] = joins[c] \cup {id} /\ granted' = granted
            BY <1>3, <2>5
          <5> QED
            BY <5>1 DEF Confers, ScopesOf
        <4> QED
          BY <4>1, <4>2 DEF ScopesOf
      <3>3. ASSUME NEW d \in Cred PROVE Confers(d)' \subseteq ceiling'[d]
        <4>1. CASE d = c
          BY <1>3, <3>2, <4>1
        <4>2. CASE d # c
          BY <1>3, <3>1, <4>2 DEF ScopesInv, UngrantedStaysGone
        <4> QED
          BY <4>1, <4>2
      <3> QED
        BY <3>3 DEF UngrantedStaysGone
    <2>7. /\ \A d \in Cred : status[d] # "free" => status'[d] # "free" /\ ceiling'[d] = ceiling[d]
          /\ \A d \in Cred : joins'[d] \subseteq Older
          /\ \A d \in Cred : status'[d] = "free" => joins'[d] = {}
      BY <1>1, <1>3, <1>4, <2>5 DEF TablesInv
    <2> QED
      BY <1>1, <1>3, <2>3, <2>4, <2>5, <2>6, <2>7, RequestMove
  <1>6. CASE ask' = [ask EXCEPT ![q] = NoRequest] /\ UNCHANGED joins
    <2>1. UNCHANGED <<rowVars, saveVars>> /\ calls' \in 0 .. MaxCalls
      BY <1>1, <1>3, <1>6 DEF rowVars
    <2> QED
      BY <1>6, <2>1, Forgets
  <1> QED
    BY <1>2, <1>5, <1>6, <1>c

LEMMA InsertKeyStep ==
    ASSUME ScopesInv, NEW q \in Asker, InsertKey(q)
    PROVE  ScopesInv'
  <1>1. /\ ask \in [Asker -> AskRow] /\ ask[q] \in AskRow /\ RequestInv(q)
        /\ status \in [Cred -> {"free", "live", "spent"}] /\ calls \in 0 .. MaxCalls
        /\ joins \in [Cred -> SUBSET Nat] /\ ceiling \in [Cred -> SUBSET Scope]
        /\ answered \in [Cred -> SUBSET Scope] /\ TablesInv
    BY TypeParts DEF ScopesInv
  <1>2. UNCHANGED <<granted, nextId, answered, saveVars, calls>> /\ ask[q].pc = "issue"
    BY DEF InsertKey, saveVars
  <1>3. ASSUME NEW c \in Fresh(Key),
               status' = [status EXCEPT ![c] = "live"],
               joins' = [joins EXCEPT ![c] = ask[q].ids],
               ceiling' = [ceiling EXCEPT ![c] = ask[q].may],
               ask' = [ask EXCEPT ![q].out = <<>>, ![q].made = @ \cup {c}]
        PROVE  ScopesInv'
    <2>1. c \in Cred /\ status[c] = "free"
      BY DEF Fresh, Cred
    <2>2. /\ ask[q].may \in SUBSET Scope /\ ask[q].ids \in SUBSET Nat
          /\ ask[q].made \in SUBSET Cred
      BY <1>1 DEF AskRow
    <2>3. /\ status' \in [Cred -> {"free", "live", "spent"}] /\ status'[c] = "live"
          /\ ceiling' \in [Cred -> SUBSET Scope] /\ ceiling'[c] = ask[q].may
          /\ joins' \in [Cred -> SUBSET Nat] /\ joins'[c] = ask[q].ids
          /\ \A d \in Cred \ {c} : status'[d] = status[d] /\ ceiling'[d] = ceiling[d]
                                   /\ joins'[d] = joins[d]
      BY <1>1, <1>3, <2>1, <2>2
    <2> DEFINE new == [ask[q] EXCEPT !.out = <<>>, !.made = @ \cup {c}]
    <2>4. /\ new \in AskRow /\ new.ids = ask[q].ids /\ new.may = ask[q].may
          /\ new.todo = ask[q].todo /\ new.cur = ask[q].cur /\ new.pc = "issue"
      BY <1>1, <1>2, <2>1, <2>2 DEF AskRow, Outputs
    <2>5. ask' = [ask EXCEPT ![q] = new]
      BY <1>1, <1>3 DEF AskRow
    <2> HIDE DEF new
    <2>6. /\ ask' \in [Asker -> AskRow] /\ ask'[q] = new
          /\ \A r \in Asker \ {q} : ask'[r] = ask[r]
      BY <1>1, <2>4, <2>5
    <2>7. RequestInv(q)'
      <3>1. /\ ask'[q].ids \subseteq Older' /\ ask'[q].pc = "issue"
            /\ \A g \in granted' : g.id \in ask'[q].ids => g.scope \in ask'[q].may
        BY <1>1, <1>2, <2>4, <2>6 DEF RequestInv, Older
      <3>2. ASSUME ask'[q].todo # {}
            PROVE  /\ ask'[q].todo \subseteq ask'[q].ids
                   /\ ask'[q].cur \in Cred /\ status'[ask'[q].cur] # "free"
                   /\ ask'[q].may \subseteq ceiling'[ask'[q].cur]
        <4>1. /\ ask[q].todo \subseteq ask[q].ids /\ ask[q].cur \in Cred
              /\ status[ask[q].cur] # "free" /\ ask[q].may \subseteq ceiling[ask[q].cur]
          BY <1>1, <2>4, <2>6, <3>2 DEF RequestInv
        <4> QED
          BY <2>1, <2>3, <2>4, <2>6, <4>1
      <3> QED
        BY <3>1, <3>2 DEF RequestInv
    <2>8. UngrantedStaysGone'
      <3>1. ASSUME NEW d \in Cred PROVE Confers(d)' \subseteq ceiling'[d]
        <4>1. CASE d = c
          <5>1. Confers(c)' = ScopesOf({g \in granted : g.id \in ask[q].ids})
            <6>1. joins'[c] = ask[q].ids /\ granted' = granted
              BY <1>2, <2>3
            <6> QED
              BY <6>1 DEF Confers, ScopesOf
          <5>2. ScopesOf({g \in granted : g.id \in ask[q].ids}) \subseteq ask[q].may
            BY <1>1 DEF RequestInv, ScopesOf
          <5> QED
            BY <2>3, <4>1, <5>1, <5>2
        <4>2. CASE d # c
          <5>1. joins'[d] = joins[d] /\ granted' = granted /\ ceiling'[d] = ceiling[d]
            BY <1>2, <2>3, <4>2
          <5>2. Confers(d)' = Confers(d)
            BY <5>1 DEF Confers, ScopesOf
          <5>3. Confers(d) \subseteq ceiling[d]
            BY DEF ScopesInv, UngrantedStaysGone
          <5> QED
            BY <5>1, <5>2, <5>3
        <4> QED
          BY <4>1, <4>2
      <3> QED
        BY <3>1 DEF UngrantedStaysGone
    <2>9. /\ \A d \in Cred : status[d] # "free" => status'[d] # "free" /\ ceiling'[d] = ceiling[d]
          /\ \A d \in Cred : joins'[d] \subseteq Older
          /\ \A d \in Cred : status'[d] = "free" => joins'[d] = {}
      BY <1>1, <2>1, <2>3 DEF TablesInv, RequestInv
    <2> QED
      BY <1>1, <1>2, <2>3, <2>6, <2>7, <2>8, <2>9, RequestMove
  <1>4. CASE ask' = [ask EXCEPT ![q] = NoRequest] /\ UNCHANGED <<status, joins, ceiling>>
    <2>1. UNCHANGED <<rowVars, saveVars>> /\ calls' \in 0 .. MaxCalls
      BY <1>1, <1>2, <1>4 DEF rowVars
    <2> QED
      BY <1>4, <2>1, Forgets
  <1> QED
    BY <1>3, <1>4 DEF InsertKey

-----------------------------------------------------------------------------
(* The list is saved.                                                      *)

LEMMA NoSaveType == NoSave \in Saving
  BY DEF NoSave, Saving

LEMMA DeleteGrantsStep ==
    ASSUME ScopesInv, NEW m \in Saver, DeleteGrants(m)
    PROVE  ScopesInv'
  <1>1. /\ ask \in [Asker -> AskRow] /\ save \in [Saver -> Saving]
        /\ status \in [Cred -> {"free", "live", "spent"}] /\ nextId \in Nat
        /\ joins \in [Cred -> SUBSET Nat] /\ allowed \in SUBSET Scope
        /\ TablesInv
    BY TypeParts DEF ScopesInv
  <1>2. PICK list \in SUBSET Scope :
          /\ granted' = granted \ RowsToDelete(list)
          /\ joins' = [c \in Cred |-> joins[c] \ IdsOf(RowsToDelete(list))]
          /\ save' = [save EXCEPT ![m] = [pc |-> "insert", list |-> list, todo |-> list,
                                          had |-> [k \in Key |-> Confers(k)]]]
          /\ allowed' = IF Inserting = {} THEN list ELSE allowed \cup list
    BY DEF DeleteGrants
  <1>3. /\ granted' = {} /\ UNCHANGED <<status, nextId>>
        /\ ceiling' = [c \in Cred |-> {}] /\ answered' = [c \in Cred |-> {}]
        /\ ask' = [q \in Asker |-> [ask[q] EXCEPT !.may = {}, !.names = {}]]
        /\ mixed' \in BOOLEAN /\ calls' \in 0 .. MaxCalls
    BY <1>2, CallsBounded DEF DeleteGrants, RowsToDelete, ScopesInv
  <1>4. joins' \in [Cred -> SUBSET Nat] /\ \A c \in Cred : joins'[c] \subseteq joins[c]
    BY <1>1, <1>2
  <1>5. ASSUME NEW q \in Asker
        PROVE  /\ ask'[q] \in AskRow /\ ask'[q].may = {} /\ ask'[q].ids = ask[q].ids
               /\ ask'[q].todo = ask[q].todo /\ ask'[q].cur = ask[q].cur
               /\ ask'[q].pc = ask[q].pc
    <2>1. ask[q] \in AskRow
      BY <1>1
    <2>2. ask'[q] = [ask[q] EXCEPT !.may = {}, !.names = {}]
      BY <1>3
    <2> QED
      BY <2>1, <2>2 DEF AskRow
  <1>6. save' \in [Saver -> Saving]
    <2>1. [k \in Key |-> Confers(k)] \in [Key -> SUBSET Scope]
      BY ConfersScopes DEF ScopesInv
    <2>2. [pc |-> "insert", list |-> list, todo |-> list, had |-> [k \in Key |-> Confers(k)]] \in Saving
      BY <2>1 DEF Saving
    <2> QED
      BY <1>1, <1>2, <2>2
  <1>7. ScopesTypeOK'
    <2>1. ask' \in [Asker -> AskRow] /\ allowed' \in SUBSET Scope
      BY <1>1, <1>2, <1>3, <1>5
    <2>2. /\ ceiling' \in [Cred -> SUBSET Scope] /\ answered' \in [Cred -> SUBSET Scope]
          /\ granted' \in SUBSET GrantRow /\ nextId' \in Nat
          /\ status' \in [Cred -> {"free", "live", "spent"}]
      BY <1>1, <1>3
    <2> QED
      BY <1>3, <1>4, <1>6, <2>1, <2>2, Zenon DEF ScopesTypeOK, AskRow, Saving
  <1>8. TablesInv'
    BY <1>1, <1>3, <1>4 DEF TablesInv, Older, IdsOf
  <1>9. ASSUME NEW q \in Asker PROVE RequestInv(q)'
    <2>1. RequestInv(q)
      BY DEF ScopesInv
    <2>2. ask'[q].todo # {} => ask'[q].may \subseteq ceiling'[ask'[q].cur]
      BY <1>5
    <2> QED
      BY <1>3, <1>5, <2>1, <2>2 DEF RequestInv, Older
  <1>10. UngrantedStaysGone'
    BY <1>3 DEF UngrantedStaysGone, Confers, ScopesOf
  <1> QED
    BY <1>7, <1>8, <1>9, <1>10 DEF ScopesInv

\* A step of a save that leaves the tables alone, or adds a row with a new id.
LEMMA SaveMove ==
    ASSUME ScopesInv, UNCHANGED <<rowVars, ask, calls, allowed>>,
           save' \in [Saver -> Saving], mixed' \in BOOLEAN,
           granted' \in SUBSET GrantRow, nextId' \in Nat, nextId <= nextId',
           granted \subseteq granted', IdsOf(granted') \subseteq 0 .. nextId' - 1,
           \A g \in granted' \ granted : g.id \notin Older
    PROVE  ScopesInv'
  <1>1. UNCHANGED <<status, joins, ceiling, answered, ask, calls, allowed>>
    BY DEF rowVars
  <1>2. nextId \in Nat /\ TablesInv
    BY TypeParts DEF ScopesInv
  <1>3. Older \subseteq Older'
    <2>1. \A a, b \in Nat : a <= b => 0 .. a - 1 \subseteq 0 .. b - 1
      OBVIOUS
    <2>2. nextId \in Nat /\ nextId' \in Nat /\ nextId <= nextId'
      BY <1>2
    <2>3. 0 .. nextId - 1 \subseteq 0 .. nextId' - 1
      BY <2>1, <2>2
    <2> QED
      BY <2>3 DEF Older
  <1>4. ScopesTypeOK'
    BY <1>1, TypeParts, Zenon DEF ScopesInv, ScopesTypeOK, AskRow, Saving
  <1>5. TablesInv'
    BY <1>1, <1>2, <1>3 DEF TablesInv, Older
  <1>6. ASSUME NEW q \in Asker PROVE RequestInv(q)'
    <2>1. RequestInv(q)
      BY DEF ScopesInv
    <2>2. \A g \in granted' : g.id \in ask[q].ids => g \in granted
      BY <2>1 DEF RequestInv
    <2> QED
      BY <1>1, <1>3, <2>1, <2>2 DEF RequestInv
  <1>7. ASSUME NEW c \in Cred PROVE Confers(c)' = Confers(c)
    <2>1. joins[c] \subseteq Older /\ joins' = joins
      BY <1>1, <1>2 DEF TablesInv
    <2>2. {g \in granted' : g.id \in joins[c]} = {g \in granted : g.id \in joins[c]}
      BY <2>1
    <2> QED
      BY <2>1, <2>2 DEF Confers
  <1>8. UngrantedStaysGone'
    BY <1>1, <1>7 DEF UngrantedStaysGone, ScopesInv
  <1> QED
    BY <1>4, <1>5, <1>6, <1>8 DEF ScopesInv

LEMMA InsertGrantStep ==
    ASSUME ScopesInv, NEW m \in Saver, InsertGrant(m)
    PROVE  ScopesInv'
  <1>1. /\ save \in [Saver -> Saving] /\ save[m] \in Saving /\ nextId \in Nat
        /\ granted \in SUBSET GrantRow /\ mixed \in BOOLEAN /\ IdsOf(granted) \subseteq Older
    BY TypeParts DEF ScopesInv, TablesInv
  <1>2. PICK s \in save[m].todo :
          \/ /\ granted' = granted \cup {[id |-> nextId, scope |-> s]}
             /\ nextId' = nextId + 1
             /\ save' = [save EXCEPT ![m].todo = @ \ {s}]
          \/ /\ save' = [save EXCEPT ![m] = NoSave]
             /\ UNCHANGED <<granted, nextId>>
    BY DEF InsertGrant
  <1>3. s \in Scope
    BY <1>1 DEF Saving
  <1>4. UNCHANGED <<rowVars, ask, calls, allowed, mixed>>
    BY DEF InsertGrant
  <1>5. CASE /\ granted' = granted \cup {[id |-> nextId, scope |-> s]}
             /\ nextId' = nextId + 1
             /\ save' = [save EXCEPT ![m].todo = @ \ {s}]
    <2>1. [id |-> nextId, scope |-> s] \in GrantRow
      BY <1>1, <1>3 DEF GrantRow
    <2>2. IdsOf(granted') \subseteq 0 .. nextId' - 1
      BY <1>1, <1>5 DEF IdsOf, Older
    <2>3. \A g \in granted' \ granted : g.id \notin Older
      BY <1>1, <1>5 DEF Older
    <2>4. save' \in [Saver -> Saving]
      <3>1. [save[m] EXCEPT !.todo = @ \ {s}] \in Saving
        BY <1>1 DEF Saving
      <3>2. save' = [save EXCEPT ![m] = [save[m] EXCEPT !.todo = @ \ {s}]]
        BY <1>1, <1>5 DEF Saving
      <3> QED
        BY <1>1, <3>1, <3>2
    <2>5. nextId' \in Nat /\ nextId <= nextId' /\ granted' \in SUBSET GrantRow /\ granted \subseteq granted'
      BY <1>1, <1>5, <2>1
    <2> QED
      BY <1>1, <1>4, <2>2, <2>3, <2>4, <2>5, SaveMove
  <1>6. CASE save' = [save EXCEPT ![m] = NoSave] /\ UNCHANGED <<granted, nextId>>
    <2>1. /\ save' \in [Saver -> Saving] /\ granted' \in SUBSET GrantRow /\ nextId' \in Nat
          /\ nextId <= nextId' /\ granted \subseteq granted' /\ granted' \ granted = {}
      BY <1>1, <1>6, NoSaveType
    <2>2. IdsOf(granted') \subseteq 0 .. nextId' - 1
      BY <1>1, <1>6 DEF Older
    <2> QED
      BY <1>1, <1>4, <2>1, <2>2, SaveMove
  <1> QED
    BY <1>2, <1>5, <1>6

LEMMA SaveEndStep ==
    ASSUME ScopesInv, NEW m \in Saver, SaveDone(m) \/ SaveDies(m)
    PROVE  ScopesInv'
  <1>1. /\ save \in [Saver -> Saving] /\ nextId \in Nat /\ mixed \in BOOLEAN
        /\ granted \in SUBSET GrantRow /\ IdsOf(granted) \subseteq Older
    BY TypeParts DEF ScopesInv, TablesInv
  <1>2. /\ UNCHANGED <<rowVars, ask, calls, allowed, granted, nextId>>
        /\ mixed' \in BOOLEAN /\ save' = [save EXCEPT ![m] = NoSave]
    BY <1>1 DEF SaveDone, SaveDies
  <1> QED
    BY <1>1, <1>2, NoSaveType, SaveMove DEF Older, IdsOf

-----------------------------------------------------------------------------
(* The invariant.                                                          *)

LEMMA ScopesInvInit == ScopesInit => ScopesInv
  <1> SUFFICES ASSUME ScopesInit PROVE ScopesInv
    OBVIOUS
  <1>1. nextId \in Nat
    BY ScopeAssumption, FS_CardinalityType DEF ScopesInit
  <1>2. PICK id \in [Scope -> 0 .. nextId - 1] :
          /\ \A s, t \in Scope : id[s] = id[t] => s = t
          /\ granted = {[id |-> id[s], scope |-> s] : s \in Scope}
    BY DEF ScopesInit
  <1>3. PICK old \in SUBSET (Code \cup Key \cup Refresh), rows \in SUBSET granted :
          /\ status = [c \in Cred |-> IF c \in old THEN "live" ELSE "free"]
          /\ joins = [c \in Cred |-> IF c \in old THEN IdsOf(rows) ELSE {}]
          /\ ceiling = [c \in Cred |-> IF c \in old THEN ScopesOf(rows) ELSE {}]
          /\ answered = ceiling
    BY DEF ScopesInit
  <1>4. /\ ask = [q \in Asker |-> NoRequest] /\ calls = 0
        /\ save = [m \in Saver |-> NoSave] /\ allowed = Scope /\ mixed = FALSE
    BY DEF ScopesInit
  <1>5. granted \in SUBSET GrantRow /\ \A g \in granted : g.id \in Older /\ g.id = id[g.scope]
    BY <1>1, <1>2 DEF GrantRow, Older
  <1>6. \A g, h \in granted : g.id = h.id => g.scope = h.scope
    BY <1>2, <1>5 DEF GrantRow
  <1>7. IdsOf(rows) \in SUBSET Nat /\ ScopesOf(rows) \in SUBSET Scope
    BY <1>5, GrantRows
  <1>8. ScopesTypeOK
    <2>1. /\ status \in [Cred -> {"free", "live", "spent"}] /\ joins \in [Cred -> SUBSET Nat]
          /\ ceiling \in [Cred -> SUBSET Scope] /\ answered \in [Cred -> SUBSET Scope]
      BY <1>3, <1>7
    <2>2. ask \in [Asker -> AskRow] /\ save \in [Saver -> Saving] /\ calls \in 0 .. MaxCalls
      BY <1>4, NoRequestType, NoSaveType, MaxCallsAssumption
    <2> QED
      BY <1>1, <1>4, <1>5, <2>1, <2>2, TypeParts
  <1>9. TablesInv
    BY <1>3, <1>5 DEF TablesInv, IdsOf
  <1>10. ASSUME NEW q \in Asker PROVE RequestInv(q)
    BY <1>4 DEF RequestInv, NoRequest
  <1>11. ASSUME NEW c \in Cred PROVE Confers(c) \subseteq ceiling[c]
    <2>1. CASE c \in old
      <3>1. joins[c] = IdsOf(rows) /\ ceiling[c] = ScopesOf(rows)
        BY <1>3, <2>1
      <3>2. ASSUME NEW g \in granted, g.id \in IdsOf(rows) PROVE g.scope \in ScopesOf(rows)
        BY <1>3, <1>6, <3>2 DEF IdsOf, ScopesOf
      <3> QED
        BY <3>1, <3>2 DEF Confers, ScopesOf
    <2>2. CASE c \notin old
      <3>1. joins[c] = {}
        BY <1>3, <2>2
      <3> QED
        BY <3>1 DEF Confers, ScopesOf
    <2> QED
      BY <2>1, <2>2
  <1> QED
    BY <1>8, <1>9, <1>10, <1>11 DEF ScopesInv, UngrantedStaysGone

LEMMA ScopesInvStep == ScopesInv /\ [ScopesNext]_scopeVars => ScopesInv'
  <1> SUFFICES ASSUME ScopesInv, [ScopesNext]_scopeVars PROVE ScopesInv'
    OBVIOUS
  <1>1. ASSUME NEW q \in Asker, RequestNext(q) PROVE ScopesInv'
    BY <1>1, AskClientStep, AskKeyStep, LookUpStep, SelectGrantsStep, ConsumeStep,
       InsertRowStep, InsertScopeStep, InsertKeyStep, AnswerStep, RequestDiesStep
       DEF RequestNext
  <1>2. ASSUME NEW c \in Cred, EndCredential(c) PROVE ScopesInv'
    BY <1>2, EndCredentialStep
  <1>3. ASSUME NEW m \in Saver, SaveNext(m) PROVE ScopesInv'
    BY <1>3, DeleteGrantsStep, InsertGrantStep, SaveEndStep DEF SaveNext
  <1>4. CASE UNCHANGED scopeVars
    BY <1>4 DEF scopeVars, rowVars, saveVars, ScopesInv, ScopesTypeOK, TablesInv, Older,
       RequestInv, UngrantedStaysGone, Confers, ScopesOf, IdsOf, AskRow
  <1> QED
    BY <1>1, <1>2, <1>3, <1>4 DEF ScopesNext

LEMMA ScopesInvInvariant == ScopesSpec => []ScopesInv
  BY ScopesInvInit, ScopesInvStep, PTL DEF ScopesSpec

\* Every variable of the tables, the requests and the saves keeps its type.
THEOREM ScopesTypeCorrect == ScopesSpec => []ScopesTypeOK
  <1>1. ScopesInv => ScopesTypeOK
    BY DEF ScopesInv
  <1> QED
    BY <1>1, ScopesInvInvariant, PTL

\* For any clients' scopes and any requests and saves in flight: no credential
\* confers what its source did not confer when it was read, and what was read
\* or written before the list was saved confers nothing after it.
THEOREM UngrantedStaysGoneHolds == ScopesSpec => []UngrantedStaysGone
  <1>1. ScopesInv => UngrantedStaysGone
    BY DEF ScopesInv
  <1> QED
    BY <1>1, ScopesInvInvariant, PTL

-----------------------------------------------------------------------------
(* The list that is left.                                                  *)

LEMMA SaveInvInit == ScopesInit => SaveInv
  <1> SUFFICES ASSUME ScopesInit PROVE SaveInv
    OBVIOUS
  <1>1. PICK id \in [Scope -> 0 .. nextId - 1] :
           granted = {[id |-> id[s], scope |-> s] : s \in Scope}
    BY DEF ScopesInit
  <1>2. ScopesOf(granted) = Scope
    <2>1. ASSUME NEW s \in Scope PROVE s \in ScopesOf(granted)
      <3>1. [id |-> id[s], scope |-> s] \in granted
        BY <1>1
      <3> QED
        BY <3>1 DEF ScopesOf
    <2>2. \A g \in granted : g.scope \in Scope
      BY <1>1
    <2> QED
      BY <2>1, <2>2 DEF ScopesOf
  <1>3. Inserting = {} /\ allowed = Scope
    BY DEF ScopesInit, Inserting, NoSave
  <1> QED
    BY <1>2, <1>3 DEF SaveInv

LEMMA SaveInvDelete ==
    ASSUME ScopesTypeOK, SaveInv, NEW m \in Saver, DeleteGrants(m)
    PROVE  SaveInv'
  <1>1. save \in [Saver -> Saving]
    BY TypeParts
  <1>2. PICK list \in SUBSET Scope :
          /\ granted' = {}
          /\ save' = [save EXCEPT ![m] = [pc |-> "insert", list |-> list, todo |-> list,
                                          had |-> [k \in Key |-> Confers(k)]]]
          /\ allowed' = IF Inserting = {} THEN list ELSE allowed \cup list
    BY DEF DeleteGrants, RowsToDelete
  <1>3. ScopesOf(granted') = {} /\ mixed' = (Inserting # {})
    BY <1>2 DEF ScopesOf, DeleteGrants
  <1>4. /\ save'[m].pc = "insert" /\ save'[m].todo = list
        /\ \A n \in Saver \ {m} : save'[n] = save[n]
    BY <1>1, <1>2
  <1>5. Inserting' = Inserting \cup {m}
    BY <1>4 DEF Inserting
  <1>6. list \subseteq allowed' /\ (Inserting # {} => allowed \subseteq allowed')
    BY <1>2
  <1>7. \A n \in Inserting' : save'[n].todo \subseteq allowed'
    BY <1>4, <1>5, <1>6 DEF SaveInv, Inserting
  <1>8. ASSUME ~ mixed'
        PROVE  Inserting' = {m} /\ allowed' = list
    BY <1>2, <1>3, <1>5, <1>8
  <1> QED
    BY <1>3, <1>4, <1>7, <1>8 DEF SaveInv

LEMMA OneRowMore ==
    ASSUME NEW rows, NEW i, NEW s
    PROVE  ScopesOf(rows \cup {[id |-> i, scope |-> s]}) = ScopesOf(rows) \cup {s}
  <1> DEFINE row == [id |-> i, scope |-> s]
  <1>1. row.scope = s
    OBVIOUS
  <1> HIDE DEF row
  <1>2. ScopesOf(rows \cup {row}) = ScopesOf(rows) \cup {row.scope}
    BY DEF ScopesOf
  <1> QED
    BY <1>1, <1>2 DEF row

LEMMA SaveInvInsert ==
    ASSUME ScopesTypeOK, SaveInv, NEW m \in Saver, InsertGrant(m)
    PROVE  SaveInv'
  <1>1. save \in [Saver -> Saving]
    BY TypeParts
  <1>2. PICK s \in save[m].todo :
          \/ /\ granted' = granted \cup {[id |-> nextId, scope |-> s]}
             /\ save' = [save EXCEPT ![m].todo = @ \ {s}]
          \/ /\ s \in ScopesOf(granted)
             /\ save' = [save EXCEPT ![m] = NoSave]
             /\ UNCHANGED granted
    BY DEF InsertGrant
  <1>3. m \in Inserting /\ UNCHANGED <<allowed, mixed>>
    BY DEF InsertGrant, Inserting
  <1>4. CASE /\ granted' = granted \cup {[id |-> nextId, scope |-> s]}
             /\ save' = [save EXCEPT ![m].todo = @ \ {s}]
    <2>1. ScopesOf(granted') = ScopesOf(granted) \cup {s}
      BY <1>4, OneRowMore
    <2>2. /\ save'[m].todo = save[m].todo \ {s} /\ save'[m].pc = save[m].pc
          /\ \A n \in Saver \ {m} : save'[n] = save[n]
      BY <1>1, <1>4 DEF Saving
    <2>3. Inserting' = Inserting
      BY <2>2 DEF Inserting
    <2>4. s \in allowed
      BY <1>3 DEF SaveInv
    <2>5. ScopesOf(granted') \subseteq allowed'
      BY <1>3, <2>1, <2>4 DEF SaveInv
    <2>6. \A n \in Inserting' : save'[n].todo \subseteq allowed'
      BY <1>3, <2>2, <2>3 DEF SaveInv, Inserting
    <2>7. ASSUME ~ mixed'
          PROVE  /\ Inserting' = {m}
                 /\ ScopesOf(granted') \cup save'[m].todo = allowed'
                 /\ ScopesOf(granted') \cap save'[m].todo = {}
      <3>1. /\ Inserting = {m} /\ ScopesOf(granted) \cup save[m].todo = allowed
            /\ ScopesOf(granted) \cap save[m].todo = {}
        BY <1>3, <2>7 DEF SaveInv
      <3> QED
        BY <1>3, <2>1, <2>2, <2>3, <3>1
    <2> QED
      BY <2>5, <2>6, <2>7 DEF SaveInv
  <1>5. CASE /\ s \in ScopesOf(granted)
             /\ save' = [save EXCEPT ![m] = NoSave]
             /\ UNCHANGED granted
    <2>1. mixed
      BY <1>2, <1>3, <1>5 DEF SaveInv
    <2>2. save'[m] = NoSave /\ \A n \in Saver \ {m} : save'[n] = save[n]
      BY <1>1, <1>5
    <2>3. \A n \in Inserting' : n \in Inserting /\ save'[n] = save[n]
      BY <2>2 DEF Inserting, NoSave
    <2>4. ScopesOf(granted') = ScopesOf(granted)
      BY <1>5
    <2> QED
      BY <1>3, <2>1, <2>3, <2>4 DEF SaveInv
  <1> QED
    BY <1>2, <1>4, <1>5

LEMMA SaveInvEnd ==
    ASSUME ScopesTypeOK, SaveInv, NEW m \in Saver, SaveDone(m) \/ SaveDies(m)
    PROVE  SaveInv'
  <1>1. save \in [Saver -> Saving]
    BY TypeParts
  <1>2. /\ UNCHANGED <<granted, allowed>> /\ save' = [save EXCEPT ![m] = NoSave]
        /\ m \in Inserting /\ (mixed => mixed')
        /\ (save[m].todo = {} \/ mixed')
    BY DEF SaveDone, SaveDies, Inserting
  <1>3. save'[m] = NoSave /\ \A n \in Saver \ {m} : save'[n] = save[n]
    BY <1>1, <1>2
  <1>4. Inserting' = Inserting \ {m} /\ \A n \in Inserting' : save'[n] = save[n]
    BY <1>3 DEF Inserting, NoSave
  <1>5. ScopesOf(granted') = ScopesOf(granted) /\ allowed' = allowed
    BY <1>2
  <1>6. ASSUME ~ mixed' PROVE Inserting' = {} /\ ScopesOf(granted) = allowed
    <2>1. /\ \A n \in Inserting : m = n
          /\ ScopesOf(granted) \cup save[m].todo = allowed /\ save[m].todo = {}
      BY <1>2, <1>6 DEF SaveInv
    <2> QED
      BY <1>4, <2>1
  <1>7. \A n \in Inserting' : save'[n].todo \subseteq allowed
    BY <1>4 DEF SaveInv
  <1> QED
    BY <1>5, <1>6, <1>7 DEF SaveInv

LEMMA SaveInvKept ==
    ASSUME SaveInv, UNCHANGED saveVars
    PROVE  SaveInv'
  BY DEF SaveInv, saveVars, Inserting, ScopesOf

LEMMA SaveInvStep == ScopesTypeOK /\ SaveInv /\ [ScopesNext]_scopeVars => SaveInv'
  <1> SUFFICES ASSUME ScopesTypeOK, SaveInv, [ScopesNext]_scopeVars PROVE SaveInv'
    OBVIOUS
  <1>1. ASSUME NEW q \in Asker, RequestNext(q) PROVE UNCHANGED saveVars
    BY <1>1 DEF RequestNext, AskClient, AskKey, LookUp, SelectGrants, Consume,
       InsertRow, InsertScope, InsertKey, Answer, RequestDies
  <1>2. ASSUME NEW c \in Cred, EndCredential(c) PROVE UNCHANGED saveVars
    BY <1>2 DEF EndCredential
  <1>3. ASSUME NEW m \in Saver, SaveNext(m) PROVE SaveInv'
    BY <1>3, SaveInvDelete, SaveInvInsert, SaveInvEnd DEF SaveNext
  <1>4. CASE UNCHANGED scopeVars
    BY <1>4, SaveInvKept DEF scopeVars
  <1> QED
    BY <1>1, <1>2, <1>3, <1>4, SaveInvKept DEF ScopesNext

\* However many scopes and saves there are: the client never has a scope that
\* none of the last saves listed, and has exactly the last list unless saves
\* overlapped or stopped half way.
THEOREM SavedListIsExactHolds == ScopesSpec => []SavedListIsExact
  <1>1. SaveInv => SavedListIsExact
    BY DEF SaveInv, SavedListIsExact
  <1> QED
    BY <1>1, SaveInvInit, SaveInvStep, ScopesTypeCorrect, PTL DEF ScopesSpec

-----------------------------------------------------------------------------
(* What an answer named.                                                   *)

\* The ids that a request has yet to insert for a credential.
Missing(q, c) == IF c = ask[q].cur THEN ask[q].todo ELSE {}

\* A request's ids stand for the scopes it will name, and the credentials it
\* has made, which nobody has been told of, have those ids or will have them.
AnswerInv(q) ==
    /\ ask[q].names # {} => ScopesOf(StillGranted(ask[q].ids)) = ask[q].names
    /\ ask[q].pc # "issue" => ask[q].made = {}
    /\ ask[q].todo # {} => ask[q].cur \in ask[q].made
    /\ \A c \in ask[q].made : status[c] # "free" /\ answered[c] = {}
    /\ ask[q].names # {} =>
          \A c \in ask[q].made : joins[c] \cup Missing(q, c) = ask[q].ids

AnswersInv ==
    /\ \A g, h \in granted : g.id = h.id => g = h
    /\ \A c \in Cred : status[c] = "free" => answered[c] = {}
    /\ \A q \in Asker : AnswerInv(q)
    /\ \A q, r \in Asker : q # r => ask[q].made \cap ask[r].made = {}
    /\ AnswersHoldTheirScopes

\* The rows with the ids of some rows of the table are those rows.
LEMMA RowsByIds ==
    ASSUME AnswersInv, NEW rows \in SUBSET granted
    PROVE  StillGranted(IdsOf(rows)) = rows
  <1>1. \A g, h \in granted : g.id = h.id => g = h
    BY DEF AnswersInv
  <1> QED
    BY <1>1 DEF StillGranted, IdsOf

\* One request moves: what it makes is its own, so what others have made and
\* what has been answered stay as they are.
LEMMA AnswersMove ==
    ASSUME AnswersInv, NEW q \in Asker, granted' = granted,
           \A r \in Asker \ {q} : ask'[r] = ask[r],
           AnswerInv(q)',
           \A r \in Asker \ {q} : ask'[q].made \cap ask[r].made = {},
           \A r \in Asker \ {q} : \A c \in ask[r].made :
              status'[c] # "free" /\ answered'[c] = answered[c] /\ joins'[c] = joins[c],
           \A c \in Cred : status'[c] = "free" => answered'[c] = {},
           AnswersHoldTheirScopes'
    PROVE  AnswersInv'
  <1>1. ASSUME NEW r \in Asker PROVE AnswerInv(r)'
    <2>1. CASE r = q
      BY <2>1
    <2>2. CASE r # q
      <3>1. ask'[r] = ask[r] /\ AnswerInv(r)
        BY <2>2 DEF AnswersInv
      <3>2. ask[r].names # {} => ScopesOf(StillGranted(ask[r].ids))' = ask[r].names
        BY <3>1 DEF AnswerInv, StillGranted, ScopesOf
      <3>3. \A c \in ask[r].made :
              status'[c] # "free" /\ answered'[c] = answered[c] /\ joins'[c] = joins[c]
        BY <2>2
      <3>4. \A c : Missing(r, c)' = Missing(r, c)
        BY <3>1 DEF Missing
      <3> QED
        BY <3>1, <3>2, <3>3, <3>4 DEF AnswerInv, StillGranted, ScopesOf
    <2> QED
      BY <2>1, <2>2
  <1>2. \A r, s \in Asker : r # s => ask'[r].made \cap ask'[s].made = {}
    BY DEF AnswersInv
  <1>3. \A g, h \in granted' : g.id = h.id => g = h
    BY DEF AnswersInv
  <1> QED
    BY <1>1, <1>2, <1>3 DEF AnswersInv

\* ... and it only changes what it remembers, naming scopes of its ids.
LEMMA AnswersRemember ==
    ASSUME ScopesInv, AnswersInv, NEW q \in Asker,
           UNCHANGED <<granted, joins, answered>>,
           \A c \in Cred : status'[c] = "free" <=> status[c] = "free",
           NEW new \in AskRow, ask' = [ask EXCEPT ![q] = new],
           new.names # {} => ScopesOf(StillGranted(new.ids)) = new.names,
           new.todo = {}, new.made = {}
    PROVE  AnswersInv'
  <1>1. ask \in [Asker -> AskRow]
    BY TypeParts DEF ScopesInv
  <1>2. ask'[q] = new /\ \A r \in Asker \ {q} : ask'[r] = ask[r]
    BY <1>1
  <1>3. AnswerInv(q)'
    BY <1>2 DEF AnswerInv, StillGranted, ScopesOf
  <1>4. AnswersHoldTheirScopes'
    BY DEF AnswersInv, AnswersHoldTheirScopes, Confers, ScopesOf
  <1>5. ASSUME NEW r \in Asker \ {q}, NEW c \in ask[r].made
        PROVE  status'[c] # "free" /\ answered'[c] = answered[c] /\ joins'[c] = joins[c]
    <2>1. c \in Cred
      BY <1>1 DEF AskRow
    <2> QED
      BY <2>1 DEF AnswersInv, AnswerInv
  <1>6. \A c \in Cred : status'[c] = "free" => answered'[c] = {}
    BY DEF AnswersInv
  <1> QED
    BY <1>2, <1>3, <1>4, <1>5, <1>6, AnswersMove

LEMMA AnswersForget ==
    ASSUME ScopesInv, AnswersInv, NEW q \in Asker,
           UNCHANGED <<granted, joins, answered, status>>,
           ask' = [ask EXCEPT ![q] = NoRequest]
    PROVE  AnswersInv'
  <1>1. NoRequest.todo = {} /\ NoRequest.made = {} /\ NoRequest.names = {}
    BY DEF NoRequest
  <1> QED
    BY <1>1, NoRequestType, AnswersRemember

LEMMA AnswersAsk ==
    ASSUME ScopesInv, AnswersInv, NEW q \in Asker, AskClient(q) \/ AskKey(q) \/ LookUp(q)
    PROVE  AnswersInv'
  <1>1. UNCHANGED <<granted, joins, answered, status>> /\ granted \in SUBSET GrantRow
    BY TypeParts DEF ScopesInv, AskClient, AskKey, LookUp, rowVars, saveVars
  <1>2. CASE AskClient(q)
    <2>1. PICK rows \in Chosen(granted), out \in {<<"access", "refresh">>, <<"code">>, <<"key">>} :
           ask' = [ask EXCEPT ![q] = [NoRequest EXCEPT
                    !.pc = "issue", !.ids = IdsOf(rows), !.may = ScopesOf(granted),
                    !.names = ScopesOf(rows), !.out = out]]
      BY <1>2 DEF AskClient
    <2> DEFINE new == [NoRequest EXCEPT
                    !.pc = "issue", !.ids = IdsOf(rows), !.may = ScopesOf(granted),
                    !.names = ScopesOf(rows), !.out = out]
    <2>2. rows \subseteq granted
      BY ChosenRows
    <2>3. /\ IdsOf(rows) \in SUBSET Nat /\ ScopesOf(rows) \in SUBSET Scope
          /\ ScopesOf(granted) \in SUBSET Scope
      BY <1>1, <2>2, GrantRows
    <2>4. /\ new \in AskRow /\ new.todo = {} /\ new.made = {}
          /\ new.ids = IdsOf(rows) /\ new.names = ScopesOf(rows)
      BY <2>3 DEF NoRequest, AskRow, Outputs
    <2>5. ScopesOf(StillGranted(IdsOf(rows))) = ScopesOf(rows)
      BY <2>2, RowsByIds
    <2> HIDE DEF new
    <2>6. ask' = [ask EXCEPT ![q] = new]
      BY <2>1 DEF new
    <2> QED
      BY <1>1, <2>4, <2>5, <2>6, AnswersRemember
  <1>3. CASE AskKey(q)
    <2>1. PICK k \in Key : \E rows \in Chosen({g \in granted : g.id \in joins[k]}) :
           ask' = [ask EXCEPT ![q] = [NoRequest EXCEPT
                          !.pc = "issue", !.src = k, !.ids = IdsOf(rows),
                          !.may = Confers(k), !.names = ScopesOf(rows),
                          !.out = <<"access">>]]
      BY <1>3 DEF AskKey
    <2>2. PICK rows \in Chosen({g \in granted : g.id \in joins[k]}) :
           ask' = [ask EXCEPT ![q] = [NoRequest EXCEPT
                          !.pc = "issue", !.src = k, !.ids = IdsOf(rows),
                          !.may = Confers(k), !.names = ScopesOf(rows),
                          !.out = <<"access">>]]
      BY <2>1
    <2> DEFINE new == [NoRequest EXCEPT
                          !.pc = "issue", !.src = k, !.ids = IdsOf(rows),
                          !.may = Confers(k), !.names = ScopesOf(rows),
                          !.out = <<"access">>]
    <2>3. rows \subseteq granted
      BY ChosenRows
    <2>4. /\ IdsOf(rows) \in SUBSET Nat /\ ScopesOf(rows) \in SUBSET Scope
          /\ Confers(k) \in SUBSET Scope /\ k \in Cred
      BY <1>1, <2>3, GrantRows, ConfersScopes DEF ScopesInv, Cred
    <2>5. /\ new \in AskRow /\ new.todo = {} /\ new.made = {}
          /\ new.ids = IdsOf(rows) /\ new.names = ScopesOf(rows)
      BY <2>4 DEF NoRequest, AskRow, Outputs
    <2>6. ScopesOf(StillGranted(IdsOf(rows))) = ScopesOf(rows)
      BY <2>3, RowsByIds
    <2> HIDE DEF new
    <2>7. ask' = [ask EXCEPT ![q] = new]
      BY <2>2 DEF new
    <2> QED
      BY <1>1, <2>5, <2>6, <2>7, AnswersRemember
  <1>4. CASE LookUp(q)
    <2>1. PICK c \in Code \cup Refresh :
           ask' = [ask EXCEPT ![q] = [NoRequest EXCEPT
                       !.pc = "select", !.src = c, !.ids = joins[c], !.may = Confers(c)]]
      BY <1>4 DEF LookUp
    <2> DEFINE new == [NoRequest EXCEPT
                       !.pc = "select", !.src = c, !.ids = joins[c], !.may = Confers(c)]
    <2>2. c \in Cred /\ joins[c] \in SUBSET Nat /\ Confers(c) \in SUBSET Scope
      BY TypeParts, ConfersScopes DEF ScopesInv, Cred
    <2>3. new \in AskRow /\ new.todo = {} /\ new.made = {} /\ new.names = {}
      BY <2>2 DEF NoRequest, AskRow, Outputs
    <2> HIDE DEF new
    <2>4. ask' = [ask EXCEPT ![q] = new]
      BY <2>1 DEF new
    <2> QED
      BY <1>1, <2>3, <2>4, AnswersRemember
  <1> QED
    BY <1>2, <1>3, <1>4

LEMMA AnswersSelect ==
    ASSUME ScopesInv, AnswersInv, NEW q \in Asker, SelectGrants(q)
    PROVE  AnswersInv'
  <1>1. /\ UNCHANGED <<granted, joins, answered, status>>
        /\ ask \in [Asker -> AskRow] /\ granted \in SUBSET GrantRow
    BY TypeParts DEF ScopesInv, SelectGrants, rowVars, saveVars
  <1>2. ASSUME NEW rows \in Chosen(StillGranted(ask[q].ids)),
               ask' = [ask EXCEPT ![q].pc = "consume", ![q].ids = IdsOf(rows),
                                  ![q].names = ScopesOf(rows)]
        PROVE  AnswersInv'
    <2> DEFINE new == [ask[q] EXCEPT !.pc = "consume", !.ids = IdsOf(rows),
                                     !.names = ScopesOf(rows)]
    <2>1. rows \subseteq granted
      BY ChosenRows DEF StillGranted
    <2>2. IdsOf(rows) \in SUBSET Nat /\ ScopesOf(rows) \in SUBSET Scope
      BY <1>1, <2>1, GrantRows
    <2>3. ask[q] \in AskRow /\ ask[q].todo = {} /\ ask[q].made = {}
      BY <1>1 DEF ScopesInv, RequestInv, AnswersInv, AnswerInv, SelectGrants
    <2>4. /\ new \in AskRow /\ new.todo = {} /\ new.made = {}
          /\ new.ids = IdsOf(rows) /\ new.names = ScopesOf(rows)
      BY <2>2, <2>3 DEF AskRow
    <2>5. ScopesOf(StillGranted(IdsOf(rows))) = ScopesOf(rows)
      BY <2>1, RowsByIds
    <2>6. ask' = [ask EXCEPT ![q] = new]
      BY <1>1, <1>2, <2>3 DEF AskRow
    <2> HIDE DEF new
    <2> QED
      BY <1>1, <2>4, <2>5, <2>6, AnswersRemember
  <1> QED
    BY <1>1, <1>2, AnswersForget DEF SelectGrants

LEMMA AnswersConsume ==
    ASSUME ScopesInv, AnswersInv, NEW q \in Asker, Consume(q)
    PROVE  AnswersInv'
  <1>1. /\ ask \in [Asker -> AskRow] /\ ask[q] \in AskRow /\ ask[q].todo = {}
        /\ ask[q].made = {} /\ status \in [Cred -> {"free", "live", "spent"}]
        /\ ask[q].names # {} => ScopesOf(StillGranted(ask[q].ids)) = ask[q].names
    BY TypeParts DEF ScopesInv, RequestInv, AnswersInv, AnswerInv, Consume
  <1>2. UNCHANGED <<granted, joins, answered>>
    BY DEF Consume, saveVars
  <1>3. CASE /\ status[ask[q].src] = "live"
             /\ status' = [status EXCEPT ![ask[q].src] = Consumed]
             /\ ask' = [ask EXCEPT ![q].pc = "issue", ![q].out = <<"access", "refresh">>]
    <2> DEFINE new == [ask[q] EXCEPT !.pc = "issue", !.out = <<"access", "refresh">>]
    <2>1. /\ new \in AskRow /\ new.todo = {} /\ new.made = {}
          /\ new.ids = ask[q].ids /\ new.names = ask[q].names
      BY <1>1 DEF AskRow, Outputs
    <2>2. ask' = [ask EXCEPT ![q] = new]
      BY <1>1, <1>3 DEF AskRow
    <2>3. \A c \in Cred : status'[c] = "free" <=> status[c] = "free"
      BY <1>1, <1>3 DEF Consumed
    <2> HIDE DEF new
    <2> QED
      BY <1>1, <1>2, <2>1, <2>2, <2>3, AnswersRemember
  <1>4. CASE status' = status /\ ask' = [ask EXCEPT ![q] = NoRequest]
    BY <1>2, <1>4, AnswersForget
  <1> QED
    BY <1>3, <1>4 DEF Consume

\* The end of a credential is none of an answer's business.
LEMMA AnswersEnd ==
    ASSUME ScopesInv, AnswersInv, NEW c \in Cred, EndCredential(c)
    PROVE  AnswersInv'
  <1>1. /\ UNCHANGED <<granted, joins, answered, ask>>
        /\ status \in [Cred -> {"free", "live", "spent"}] /\ ask \in [Asker -> AskRow]
        /\ status' = [status EXCEPT ![c] = Consumed] /\ status[c] = "live"
    BY TypeParts DEF ScopesInv, EndCredential, saveVars
  <1>2. \A d \in Cred : status'[d] = "free" <=> status[d] = "free"
    BY <1>1 DEF Consumed
  <1>3. ASSUME NEW q \in Asker PROVE AnswerInv(q)'
    <2>1. AnswerInv(q) /\ ask[q].made \subseteq Cred
      BY <1>1 DEF AnswersInv, AskRow
    <2> QED
      BY <1>1, <1>2, <2>1 DEF AnswerInv, StillGranted, ScopesOf, Missing
  <1> QED
    BY <1>1, <1>2, <1>3 DEF AnswersInv, AnswersHoldTheirScopes, Confers, ScopesOf

LEMMA AnswersInsertRow ==
    ASSUME ScopesInv, AnswersInv, NEW q \in Asker, InsertRow(q)
    PROVE  AnswersInv'
  <1>1. /\ ask \in [Asker -> AskRow] /\ ask[q] \in AskRow /\ AnswerInv(q)
        /\ status \in [Cred -> {"free", "live", "spent"}] /\ TablesInv
    BY TypeParts DEF ScopesInv, AnswersInv
  <1>2. PICK c \in Fresh(Table(Head(ask[q].out))) :
          /\ status' = [status EXCEPT ![c] = "live"]
          /\ ask' = [ask EXCEPT ![q].out = Tail(@), ![q].cur = c,
                                ![q].made = @ \cup {c},
                                ![q].todo = ScopesFor(q, Head(ask[q].out))]
    BY DEF InsertRow
  <1>3. UNCHANGED <<granted, joins, answered>> /\ ask[q].todo = {} /\ ask[q].pc = "issue"
    BY DEF InsertRow, saveVars
  <1>4. ask[q].out \in Outputs /\ ask[q].out # <<>> /\ Head(ask[q].out) # "key"
    BY <1>1 DEF AskRow, InsertRow
  <1>5. c \in Cred /\ status[c] = "free" /\ joins[c] = {} /\ answered[c] = {}
    BY <1>1, <1>2, <1>4, TablesOfOutputs DEF Fresh, TablesInv, AnswersInv
  <1>6. /\ ask'[q].ids = ask[q].ids /\ ask'[q].names = ask[q].names /\ ask'[q].pc = "issue"
        /\ ask'[q].cur = c /\ ask'[q].made = ask[q].made \cup {c} /\ ask'[q].todo = ask[q].ids
        /\ \A r \in Asker \ {q} : ask'[r] = ask[r]
    BY <1>1, <1>2, <1>3 DEF AskRow, ScopesFor
  <1>7. ASSUME NEW r \in Asker PROVE c \notin ask[r].made
    BY <1>5 DEF AnswersInv, AnswerInv
  <1>8. /\ \A d \in Cred \ {c} : status'[d] = status[d]
        /\ status'[c] = "live" /\ \A r \in Asker : ask[r].made \subseteq Cred
    BY <1>1, <1>2, <1>5 DEF AskRow
  <1>9. AnswerInv(q)'
    <2>1. \A d \in ask'[q].made : status'[d] # "free" /\ answered'[d] = {}
      BY <1>1, <1>3, <1>5, <1>6, <1>7, <1>8 DEF AnswerInv
    <2>2. ASSUME ask'[q].names # {}, NEW d \in ask'[q].made
          PROVE  joins'[d] \cup Missing(q, d)' = ask'[q].ids
      <3>1. CASE d = c
        BY <1>3, <1>5, <1>6, <3>1 DEF Missing
      <3>2. CASE d # c
        <4>1. d \in ask[q].made /\ joins[d] \cup Missing(q, d) = ask[q].ids
          BY <1>1, <1>6, <2>2, <3>2 DEF AnswerInv
        <4>2. Missing(q, d) = {} /\ Missing(q, d)' = {}
          BY <1>3, <1>6, <3>2 DEF Missing
        <4> QED
          BY <1>3, <1>6, <4>1, <4>2
      <3> QED
        BY <3>1, <3>2
    <2>3. ask'[q].names # {} => ScopesOf(StillGranted(ask[q].ids))' = ask'[q].names
      BY <1>1, <1>3, <1>6 DEF AnswerInv, StillGranted, ScopesOf
    <2> QED
      BY <1>3, <1>6, <2>1, <2>2, <2>3 DEF AnswerInv, StillGranted, ScopesOf
  <1>10. \A r \in Asker \ {q} : ask'[q].made \cap ask[r].made = {}
    BY <1>6, <1>7 DEF AnswersInv
  <1>11. \A r \in Asker \ {q} : \A d \in ask[r].made :
            status'[d] # "free" /\ answered'[d] = answered[d] /\ joins'[d] = joins[d]
    BY <1>3, <1>7, <1>8 DEF AnswersInv, AnswerInv
  <1>12. \A d \in Cred : status'[d] = "free" => answered'[d] = {}
    BY <1>3, <1>8 DEF AnswersInv
  <1>13. AnswersHoldTheirScopes'
    BY <1>3 DEF AnswersInv, AnswersHoldTheirScopes, Confers, ScopesOf
  <1> QED
    BY <1>3, <1>6, <1>9, <1>10, <1>11, <1>12, <1>13, AnswersMove

LEMMA AnswersInsertScope ==
    ASSUME ScopesInv, AnswersInv, NEW q \in Asker, InsertScope(q)
    PROVE  AnswersInv'
  <1>1. /\ ask \in [Asker -> AskRow] /\ ask[q] \in AskRow /\ AnswerInv(q) /\ RequestInv(q)
        /\ joins \in [Cred -> SUBSET Nat]
    BY TypeParts DEF ScopesInv, AnswersInv
  <1>2. PICK id \in ask[q].todo :
          \/ /\ joins' = [joins EXCEPT ![ask[q].cur] = @ \cup {id}]
             /\ ask' = [ask EXCEPT ![q].todo = @ \ {id}]
          \/ /\ ask' = [ask EXCEPT ![q] = NoRequest]
             /\ UNCHANGED joins
    BY DEF InsertScope
  <1>3. UNCHANGED <<granted, status, answered>> /\ ask[q].pc = "issue"
    BY DEF InsertScope, saveVars
  <1>c. PICK c : c = ask[q].cur
    OBVIOUS
  <1>4. c \in ask[q].made /\ c \in Cred /\ answered[c] = {}
    BY <1>1, <1>c DEF AnswerInv, AskRow
  <1>5. CASE /\ joins' = [joins EXCEPT ![c] = @ \cup {id}]
             /\ ask' = [ask EXCEPT ![q].todo = @ \ {id}]
    <2>1. /\ joins'[c] = joins[c] \cup {id} /\ \A d \in Cred \ {c} : joins'[d] = joins[d]
          /\ \A r \in Asker : ask[r].made \subseteq Cred
      BY <1>1, <1>4, <1>5 DEF AskRow
    <2>2. /\ ask'[q].ids = ask[q].ids /\ ask'[q].names = ask[q].names /\ ask'[q].pc = "issue"
          /\ ask'[q].cur = c /\ ask'[q].made = ask[q].made /\ ask'[q].todo = ask[q].todo \ {id}
          /\ \A r \in Asker \ {q} : ask'[r] = ask[r]
      BY <1>1, <1>3, <1>5, <1>c DEF AskRow
    <2>3. AnswerInv(q)'
      <3>1. \A d \in ask'[q].made : status'[d] # "free" /\ answered'[d] = {}
        BY <1>1, <1>3, <2>2 DEF AnswerInv
      <3>2. ASSUME ask'[q].names # {}, NEW d \in ask'[q].made
            PROVE  joins'[d] \cup Missing(q, d)' = ask'[q].ids
        <4>1. joins[d] \cup Missing(q, d) = ask[q].ids /\ d \in Cred
          BY <1>1, <2>1, <2>2, <3>2 DEF AnswerInv
        <4>2. CASE d = c
          BY <1>2, <1>c, <2>1, <2>2, <4>1, <4>2 DEF Missing
        <4>3. CASE d # c
          BY <1>c, <2>1, <2>2, <4>1, <4>3 DEF Missing
        <4> QED
          BY <4>2, <4>3
      <3>3. ask'[q].names # {} => ScopesOf(StillGranted(ask[q].ids))' = ask'[q].names
        BY <1>1, <1>3, <2>2 DEF AnswerInv, StillGranted, ScopesOf
      <3> QED
        BY <1>4, <2>2, <3>1, <3>2, <3>3 DEF AnswerInv, StillGranted, ScopesOf
    <2>4. \A r \in Asker \ {q} : ask'[q].made \cap ask[r].made = {}
      BY <2>2 DEF AnswersInv
    <2>5. \A r \in Asker \ {q} : \A d \in ask[r].made :
              status'[d] # "free" /\ answered'[d] = answered[d] /\ joins'[d] = joins[d]
      BY <1>3, <1>4, <2>1, <2>2, <2>4 DEF AnswersInv, AnswerInv
    <2>6. AnswersHoldTheirScopes'
      <3>1. \A d \in Cred \ {c} : Confers(d)' = Confers(d)
        BY <1>3, <2>1 DEF Confers, ScopesOf
      <3> QED
        BY <1>3, <1>4, <3>1 DEF AnswersInv, AnswersHoldTheirScopes
    <2>7. \A d \in Cred : status'[d] = "free" => answered'[d] = {}
      BY <1>3 DEF AnswersInv
    <2> QED
      BY <1>3, <2>2, <2>3, <2>4, <2>5, <2>6, <2>7, AnswersMove
  <1>6. CASE ask' = [ask EXCEPT ![q] = NoRequest] /\ UNCHANGED joins
    BY <1>3, <1>6, AnswersForget
  <1> QED
    BY <1>2, <1>5, <1>6, <1>c

LEMMA AnswersInsertKey ==
    ASSUME ScopesInv, AnswersInv, NEW q \in Asker, InsertKey(q)
    PROVE  AnswersInv'
  <1>1. /\ ask \in [Asker -> AskRow] /\ ask[q] \in AskRow /\ AnswerInv(q)
        /\ status \in [Cred -> {"free", "live", "spent"}] /\ joins \in [Cred -> SUBSET Nat]
    BY TypeParts DEF ScopesInv, AnswersInv
  <1>2. UNCHANGED <<granted, answered>> /\ ask[q].pc = "issue"
    BY DEF InsertKey, saveVars
  <1>3. ASSUME NEW c \in Fresh(Key),
               status' = [status EXCEPT ![c] = "live"],
               joins' = [joins EXCEPT ![c] = ask[q].ids],
               ask' = [ask EXCEPT ![q].out = <<>>, ![q].made = @ \cup {c}]
        PROVE  AnswersInv'
    <2>1. c \in Cred /\ status[c] = "free" /\ answered[c] = {}
      BY DEF Fresh, Cred, AnswersInv
    <2>2. /\ ask'[q].ids = ask[q].ids /\ ask'[q].names = ask[q].names /\ ask'[q].pc = "issue"
          /\ ask'[q].cur = ask[q].cur /\ ask'[q].made = ask[q].made \cup {c}
          /\ ask'[q].todo = ask[q].todo /\ \A r \in Asker \ {q} : ask'[r] = ask[r]
      BY <1>1, <1>2, <1>3 DEF AskRow
    <2>3. ASSUME NEW r \in Asker PROVE c \notin ask[r].made
      BY <2>1 DEF AnswersInv, AnswerInv
    <2>4. /\ \A d \in Cred \ {c} : status'[d] = status[d] /\ joins'[d] = joins[d]
          /\ status'[c] = "live" /\ joins'[c] = ask[q].ids
          /\ \A r \in Asker : ask[r].made \subseteq Cred
      BY <1>1, <1>3, <2>1 DEF AskRow
    <2>5. AnswerInv(q)'
      <3>1. \A d \in ask'[q].made : status'[d] # "free" /\ answered'[d] = {}
        BY <1>1, <1>2, <2>1, <2>2, <2>3, <2>4 DEF AnswerInv
      <3>2. ASSUME ask'[q].names # {}, NEW d \in ask'[q].made
            PROVE  joins'[d] \cup Missing(q, d)' = ask'[q].ids
        <4>1. CASE d = c
          <5>1. Missing(q, c)' = {}
            BY <1>1, <2>2, <2>3 DEF AnswerInv, Missing
          <5> QED
            BY <2>2, <2>4, <4>1, <5>1
        <4>2. CASE d # c
          <5>1. d \in ask[q].made /\ joins[d] \cup Missing(q, d) = ask[q].ids
            BY <1>1, <2>2, <3>2, <4>2 DEF AnswerInv
          <5>2. joins'[d] = joins[d] /\ Missing(q, d)' = Missing(q, d)
            BY <2>2, <2>4, <4>2, <5>1 DEF Missing
          <5> QED
            BY <2>2, <5>1, <5>2
        <4> QED
          BY <4>1, <4>2
      <3>3. ask'[q].names # {} => ScopesOf(StillGranted(ask[q].ids))' = ask'[q].names
        BY <1>1, <1>2, <2>2 DEF AnswerInv, StillGranted, ScopesOf
      <3>4. ask'[q].todo # {} => ask'[q].cur \in ask'[q].made
        BY <1>1, <2>2 DEF AnswerInv
      <3> QED
        BY <2>2, <3>1, <3>2, <3>3, <3>4 DEF AnswerInv, StillGranted, ScopesOf
    <2>6. \A r \in Asker \ {q} : ask'[q].made \cap ask[r].made = {}
      BY <2>2, <2>3 DEF AnswersInv
    <2>7. \A r \in Asker \ {q} : \A d \in ask[r].made :
              status'[d] # "free" /\ answered'[d] = answered[d] /\ joins'[d] = joins[d]
      BY <1>2, <2>3, <2>4 DEF AnswersInv, AnswerInv
    <2>8. \A d \in Cred : status'[d] = "free" => answered'[d] = {}
      BY <1>2, <2>4 DEF AnswersInv
    <2>9. AnswersHoldTheirScopes'
      <3>1. \A d \in Cred \ {c} : Confers(d)' = Confers(d)
        BY <1>2, <2>4 DEF Confers, ScopesOf
      <3> QED
        BY <1>2, <2>1, <3>1 DEF AnswersInv, AnswersHoldTheirScopes
    <2> QED
      BY <1>2, <2>2, <2>5, <2>6, <2>7, <2>8, <2>9, AnswersMove
  <1>4. CASE ask' = [ask EXCEPT ![q] = NoRequest] /\ UNCHANGED <<status, joins>>
    BY <1>2, <1>4, AnswersForget
  <1> QED
    BY <1>3, <1>4 DEF InsertKey

\* The answer names what everything the request has made confers.
LEMMA AnswersAnswer ==
    ASSUME ScopesInv, AnswersInv, NEW q \in Asker, Answer(q)
    PROVE  AnswersInv'
  <1>1. /\ ask \in [Asker -> AskRow] /\ ask[q] \in AskRow /\ AnswerInv(q)
        /\ ask[q].todo = {} /\ UNCHANGED <<granted, status, joins>>
        /\ answered' = [c \in Cred |-> IF c \in ask[q].made
                                       THEN ask[q].names ELSE answered[c]]
        /\ ask' = [ask EXCEPT ![q] = NoRequest]
    BY TypeParts DEF ScopesInv, AnswersInv, Answer, saveVars
  <1>2. ask'[q] = NoRequest /\ \A r \in Asker \ {q} : ask'[r] = ask[r]
    BY <1>1
  <1>3. AnswerInv(q)'
    BY <1>2 DEF AnswerInv, NoRequest
  <1>4. \A r \in Asker \ {q} : ask'[q].made \cap ask[r].made = {}
    BY <1>2 DEF NoRequest
  <1>5. ASSUME NEW r \in Asker \ {q}, NEW c \in ask[r].made
        PROVE  status'[c] # "free" /\ answered'[c] = answered[c] /\ joins'[c] = joins[c]
    <2>1. c \in Cred /\ c \notin ask[q].made
      BY <1>1 DEF AnswersInv, AskRow
    <2> QED
      BY <1>1, <2>1 DEF AnswersInv, AnswerInv
  <1>6. \A c \in Cred : status'[c] = "free" => answered'[c] = {}
    BY <1>1 DEF AnswersInv, AnswerInv
  <1>7. ASSUME NEW c \in Cred, answered'[c] # {}
        PROVE  Confers(c)' = answered'[c]
    <2>1. Confers(c)' = Confers(c)
      BY <1>1 DEF Confers, ScopesOf
    <2>2. CASE c \in ask[q].made
      <3>1. answered'[c] = ask[q].names /\ ask[q].names # {}
        BY <1>1, <1>7, <2>2
      <3>2. joins[c] = ask[q].ids
        BY <1>1, <2>2, <3>1 DEF AnswerInv, Missing
      <3>3. Confers(c) = ask[q].names
        BY <1>1, <3>1, <3>2 DEF AnswerInv, Confers, StillGranted
      <3> QED
        BY <2>1, <3>1, <3>3
    <2>3. CASE c \notin ask[q].made
      BY <1>1, <1>7, <2>1, <2>3 DEF AnswersInv, AnswersHoldTheirScopes
    <2> QED
      BY <2>2, <2>3
  <1>8. AnswersHoldTheirScopes'
    BY <1>7 DEF AnswersHoldTheirScopes
  <1> QED
    BY <1>1, <1>2, <1>3, <1>4, <1>5, <1>6, <1>8, AnswersMove

\* The save that deletes the rows voids every promise.
LEMMA AnswersDelete ==
    ASSUME ScopesInv, AnswersInv, NEW m \in Saver, DeleteGrants(m)
    PROVE  AnswersInv'
  <1>1. /\ granted' = {} /\ UNCHANGED status /\ answered' = [c \in Cred |-> {}]
        /\ ask \in [Asker -> AskRow]
        /\ ask' = [q \in Asker |-> [ask[q] EXCEPT !.may = {}, !.names = {}]]
    BY TypeParts DEF ScopesInv, DeleteGrants, RowsToDelete
  <1>2. ASSUME NEW q \in Asker
        PROVE  /\ ask'[q].names = {} /\ ask'[q].made = ask[q].made /\ ask'[q].todo = ask[q].todo
               /\ ask'[q].cur = ask[q].cur /\ ask'[q].pc = ask[q].pc
               /\ ask[q].made \subseteq Cred
    <2>1. ask[q] \in AskRow /\ ask'[q] = [ask[q] EXCEPT !.may = {}, !.names = {}]
      BY <1>1
    <2> QED
      BY <2>1 DEF AskRow
  <1>3. ASSUME NEW q \in Asker PROVE AnswerInv(q)'
    <2>1. AnswerInv(q)
      BY DEF AnswersInv
    <2> QED
      BY <1>1, <1>2, <2>1 DEF AnswerInv
  <1> QED
    BY <1>1, <1>2, <1>3 DEF AnswersInv, AnswersHoldTheirScopes

\* A row that a save inserts has an id that nobody remembers.
LEMMA AnswersSave ==
    ASSUME ScopesInv, AnswersInv, UNCHANGED <<rowVars, ask>>,
           granted \subseteq granted', \A g, h \in granted' \ granted : g = h,
           \A g \in granted' \ granted : g.id \notin Older
    PROVE  AnswersInv'
  <1>1. UNCHANGED <<status, joins, answered, ask>> /\ TablesInv
    BY DEF rowVars, ScopesInv
  <1>2. ASSUME NEW ids \in SUBSET Older
        PROVE  {g \in granted' : g.id \in ids} = {g \in granted : g.id \in ids}
    OBVIOUS
  <1>3. ASSUME NEW q \in Asker PROVE AnswerInv(q)'
    <2>1. AnswerInv(q) /\ RequestInv(q)
      BY DEF AnswersInv, ScopesInv
    <2>2. StillGranted(ask[q].ids)' = StillGranted(ask[q].ids)
      BY <1>1, <1>2, <2>1 DEF StillGranted, RequestInv
    <2>3. \A c : Missing(q, c)' = Missing(q, c)
      BY <1>1 DEF Missing
    <2> QED
      BY <1>1, <2>1, <2>2, <2>3 DEF AnswerInv, ScopesOf
  <1>4. ASSUME NEW c \in Cred PROVE Confers(c)' = Confers(c)
    <2>1. joins[c] \subseteq Older /\ joins' = joins
      BY <1>1 DEF TablesInv
    <2>2. {g \in granted' : g.id \in joins[c]} = {g \in granted : g.id \in joins[c]}
      BY <1>2, <2>1
    <2> QED
      BY <2>1, <2>2 DEF Confers
  <1>5. \A g, h \in granted' : g.id = h.id => g = h
    BY <1>1 DEF AnswersInv, TablesInv, IdsOf
  <1> QED
    BY <1>1, <1>3, <1>4, <1>5 DEF AnswersInv, AnswersHoldTheirScopes

LEMMA AnswersSaveStep ==
    ASSUME ScopesInv, AnswersInv, NEW m \in Saver, InsertGrant(m) \/ SaveDone(m) \/ SaveDies(m)
    PROVE  AnswersInv'
  <1>1. nextId \in Nat /\ UNCHANGED <<rowVars, ask>>
    BY TypeParts DEF ScopesInv, InsertGrant, SaveDone, SaveDies
  <1>2. ASSUME NEW s, granted' = granted \cup {[id |-> nextId, scope |-> s]}
        PROVE  AnswersInv'
    <2>1. /\ granted \subseteq granted' /\ \A g, h \in granted' \ granted : g = h
          /\ \A g \in granted' \ granted : g.id \notin Older
      BY <1>1, <1>2 DEF Older
    <2> QED
      BY <1>1, <1>2, <2>1, AnswersSave
  <1>3. CASE granted' = granted
    BY <1>1, <1>3, AnswersSave
  <1> QED
    BY <1>2, <1>3 DEF InsertGrant, SaveDone, SaveDies

LEMMA AnswersInvInit == ScopesInit => AnswersInv
  <1> SUFFICES ASSUME ScopesInit PROVE AnswersInv
    OBVIOUS
  <1>1. PICK id \in [Scope -> 0 .. nextId - 1] :
          /\ \A s, t \in Scope : id[s] = id[t] => s = t
          /\ granted = {[id |-> id[s], scope |-> s] : s \in Scope}
    BY DEF ScopesInit
  <1>2. PICK old \in SUBSET (Code \cup Key \cup Refresh), rows \in SUBSET granted :
          /\ status = [c \in Cred |-> IF c \in old THEN "live" ELSE "free"]
          /\ joins = [c \in Cred |-> IF c \in old THEN IdsOf(rows) ELSE {}]
          /\ ceiling = [c \in Cred |-> IF c \in old THEN ScopesOf(rows) ELSE {}]
          /\ answered = ceiling
    BY DEF ScopesInit
  <1>3. \A g, h \in granted : g.id = h.id => g = h
    BY <1>1
  <1>4. \A c \in Cred : status[c] = "free" => answered[c] = {}
    BY <1>2
  <1>5. ask = [q \in Asker |-> NoRequest]
    BY DEF ScopesInit
  <1>6. \A q \in Asker : AnswerInv(q) /\ ask[q].made = {}
    BY <1>5 DEF AnswerInv, NoRequest
  <1>7. ASSUME NEW c \in Cred, answered[c] # {} PROVE Confers(c) = answered[c]
    <2>1. joins[c] = IdsOf(rows) /\ answered[c] = ScopesOf(rows)
      BY <1>2, <1>7
    <2>2. {g \in granted : g.id \in IdsOf(rows)} = rows
      BY <1>3 DEF IdsOf
    <2> QED
      BY <2>1, <2>2 DEF Confers
  <1> QED
    BY <1>3, <1>4, <1>6, <1>7 DEF AnswersInv, AnswersHoldTheirScopes

LEMMA AnswersInvStep == ScopesInv /\ AnswersInv /\ [ScopesNext]_scopeVars => AnswersInv'
  <1> SUFFICES ASSUME ScopesInv, AnswersInv, [ScopesNext]_scopeVars PROVE AnswersInv'
    OBVIOUS
  <1>1. ASSUME NEW q \in Asker, RequestNext(q) PROVE AnswersInv'
    <2>1. CASE RequestDies(q)
      BY <2>1, AnswersForget DEF RequestDies, rowVars, saveVars
    <2> QED
      BY <1>1, <2>1, AnswersAsk, AnswersSelect, AnswersConsume, AnswersInsertRow,
         AnswersInsertScope, AnswersInsertKey, AnswersAnswer DEF RequestNext
  <1>2. ASSUME NEW c \in Cred, EndCredential(c) PROVE AnswersInv'
    BY <1>2, AnswersEnd
  <1>3. ASSUME NEW m \in Saver, SaveNext(m) PROVE AnswersInv'
    BY <1>3, AnswersDelete, AnswersSaveStep DEF SaveNext
  <1>4. CASE UNCHANGED scopeVars
    BY <1>4 DEF scopeVars, rowVars, saveVars, AnswersInv, AnswerInv, Missing, StillGranted,
       AnswersHoldTheirScopes, Confers, ScopesOf
  <1> QED
    BY <1>1, <1>2, <1>3, <1>4 DEF ScopesNext

\* For any scopes, requests and saves: until the list is saved again, every
\* credential that was delivered confers exactly the scopes that the answer
\* named, though its row and its join rows were inserted one at a time while
\* other requests and saves went on.
THEOREM AnswersHoldTheirScopesHolds == ScopesSpec => []AnswersHoldTheirScopes
  <1>1. AnswersInv => AnswersHoldTheirScopes
    BY DEF AnswersInv
  <1> QED
    BY <1>1, AnswersInvInit, AnswersInvStep, ScopesInvInvariant, PTL DEF ScopesSpec
=============================================================================

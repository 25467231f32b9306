-------------------------- MODULE CredentialProofs --------------------------
(***************************************************************************)
(* Proofs about what a client presents to the endpoints and what it may    *)
(* register: its secret, its API keys and the daily budget of registrations. *)
(***************************************************************************)
EXTENDS ClientSecret, ApiKey, DcrRateLimit, FiniteSetTheorems, TLAPS

-----------------------------------------------------------------------------
(* Proofs about ClientSecret for any finite set of token requests, any     *)
(* administrators and any number of rotations.  SecretInv is inductive:    *)
(* only the plaintext secret is ever being upgraded, because no write      *)
(* brings plaintext back; and each request that puts it back leaves the    *)
(* set of those that still can.                                            *)

\* There are finitely many requests, and no more upgrading than there are.
LEMMA CallerSize ==
    ASSUME NEW S \in SUBSET Caller
    PROVE  /\ IsFiniteSet(S) /\ Cardinality(S) \in Nat
           /\ Cardinality(Caller) \in Nat /\ Cardinality(S) <= Cardinality(Caller)
  BY CallerAssumption, FS_Subset, FS_CardinalityType

LEMMA NoneIsNoSecret == None \notin Secret /\ 0 \in Secret
  BY MaxRotationsAssumption DEF None, Secret

LEMMA SecretInvInit == SecretInit => SecretInv
  <1> SUFFICES ASSUME SecretInit PROVE SecretInv
    OBVIOUS
  <1>1. Upgrading = {}
    BY DEF SecretInit, Upgrading
  <1>2. Cardinality(Upgrading) = 0 /\ Cardinality(Caller) \in Nat
    BY <1>1, FS_EmptySet, CallerSize
  <1>3. SecretTypeOK
    BY NoneIsNoSecret DEF SecretInit, SecretTypeOK
  <1>4. OnlyPlaintextRevives /\ (stored.plain => stored.secret = 0 /\ newest = 0)
    BY DEF SecretInit, OnlyPlaintextRevives
  <1>5. RevivalsBounded
    BY <1>2 DEF SecretInit, RevivalsBounded
  <1> QED
    BY <1>1, <1>3, <1>4, <1>5 DEF SecretInv

LEMMA AuthenticateStep ==
    ASSUME SecretInv, NEW p \in Caller, Authenticate(p)
    PROVE  SecretInv'
  <1>1. /\ stored.plain /\ stored.secret = 0 /\ revivals = 0
        /\ caller' = [caller EXCEPT ![p] = 0] /\ caller \in [Caller -> Secret \cup {None}]
        /\ UNCHANGED <<stored, rotator, generated, newest, revivals>>
    BY DEF SecretInv, SecretTypeOK, RevivalsBounded, Authenticate, NeedsUpgrade
  <1>2. \A q \in Upgrading' : caller'[q] = 0
    BY <1>1 DEF Upgrading, SecretInv
  <1>3. Cardinality(Upgrading') \in Nat /\ Cardinality(Upgrading') <= Cardinality(Caller)
    BY CallerSize DEF Upgrading
  <1>4. SecretTypeOK'
    BY <1>1, NoneIsNoSecret DEF SecretInv, SecretTypeOK
  <1>5. RevivalsBounded'
    BY <1>1, <1>3 DEF RevivalsBounded
  <1> QED
    BY <1>1, <1>2, <1>4, <1>5 DEF SecretInv, OnlyPlaintextRevives

\* A request leaves the set of those that may still write.
LEMMA LeavesUpgrading ==
    ASSUME SecretTypeOK, NEW p \in Upgrading, caller' = [caller EXCEPT ![p] = None]
    PROVE  /\ Upgrading' = Upgrading \ {p} /\ \A q \in Upgrading' : caller'[q] = caller[q]
           /\ Cardinality(Upgrading) \in Nat /\ Cardinality(Caller) \in Nat
           /\ Cardinality(Upgrading') = Cardinality(Upgrading) - 1
  <1>1. Upgrading \in SUBSET Caller
    BY DEF Upgrading
  <1>2. Upgrading' = Upgrading \ {p} /\ \A q \in Upgrading' : caller'[q] = caller[q]
    BY DEF Upgrading, SecretTypeOK
  <1>3. IsFiniteSet(Upgrading) /\ Cardinality(Upgrading) \in Nat /\ Cardinality(Caller) \in Nat
    BY <1>1, CallerSize
  <1> QED
    BY <1>2, <1>3, FS_RemoveElement

LEMMA UpgradeStep ==
    ASSUME SecretInv, NEW p \in Caller, Upgrade(p) \/ CallerDies(p)
    PROVE  SecretInv'
  <1>1. p \in Upgrading /\ caller[p] = 0 /\ caller' = [caller EXCEPT ![p] = None]
    BY DEF Upgrade, CallerDies, Upgrading, SecretInv
  <1>2. /\ Upgrading' = Upgrading \ {p} /\ \A q \in Upgrading' : caller'[q] = 0
        /\ Cardinality(Upgrading) \in Nat /\ Cardinality(Caller) \in Nat
        /\ Cardinality(Upgrading') = Cardinality(Upgrading) - 1
    BY <1>1, LeavesUpgrading DEF SecretInv
  <1>3. /\ stored' \in {stored, [secret |-> 0, plain |-> FALSE]}
        /\ UNCHANGED <<rotator, generated, newest>>
        /\ revivals' \in {revivals, revivals + 1}
        /\ stored'.plain => revivals' = revivals /\ stored' = stored
    BY <1>1 DEF Upgrade, CallerDies
  <1>4. SecretTypeOK'
    <2>1. /\ stored \in [secret : Secret, plain : BOOLEAN] /\ revivals \in Nat
          /\ caller \in [Caller -> Secret \cup {None}]
      BY DEF SecretInv, SecretTypeOK
    <2>2. [secret |-> 0, plain |-> FALSE] \in [secret : Secret, plain : BOOLEAN]
      BY NoneIsNoSecret
    <2>3. stored' \in [secret : Secret, plain : BOOLEAN]
      BY <1>3, <2>1, <2>2, Zenon
    <2>n. revivals' \in Nat
      BY <1>3, <2>1
    <2>4. caller' \in [Caller -> Secret \cup {None}]
      BY <1>1, <2>1
    <2> QED
      BY <1>3, <2>3, <2>n, <2>4 DEF SecretInv, SecretTypeOK
  <1>5. OnlyPlaintextRevives' /\ (stored'.plain => stored'.secret = 0 /\ newest' = 0)
    BY <1>3 DEF SecretInv, OnlyPlaintextRevives
  <1>6. RevivalsBounded'
    <2>1. revivals \in Nat /\ revivals + Cardinality(Upgrading) <= Cardinality(Caller)
      BY DEF SecretInv, SecretTypeOK, RevivalsBounded
    <2>2. revivals' + Cardinality(Upgrading') <= Cardinality(Caller)
      BY <1>2, <1>3, <2>1
    <2>3. stored'.plain => revivals' = 0
      BY <1>3 DEF SecretInv, RevivalsBounded
    <2> QED
      BY <2>2, <2>3 DEF RevivalsBounded
  <1> QED
    BY <1>2, <1>4, <1>5, <1>6 DEF SecretInv

LEMMA RotatorStep ==
    ASSUME SecretInv, NEW r \in Rotator, GenerateSecret(r) \/ RotateSecret(r)
    PROVE  SecretInv'
  <1>1. UNCHANGED <<caller, revivals>> /\ Upgrading' = Upgrading
    BY DEF GenerateSecret, RotateSecret, Upgrading
  <1>2. SecretTypeOK'
    <2>1. CASE GenerateSecret(r)
      <3>1. generated + 1 \in Secret
        BY <2>1, MaxRotationsAssumption DEF GenerateSecret, SecretInv, SecretTypeOK, Secret
      <3> QED
        BY <2>1, <3>1 DEF GenerateSecret, SecretInv, SecretTypeOK
    <2>2. CASE RotateSecret(r)
      <3>1. rotator[r] \in Secret
        BY <2>2 DEF RotateSecret, SecretInv, SecretTypeOK
      <3> QED
        BY <2>2, <3>1 DEF RotateSecret, StoredHashed, SecretInv, SecretTypeOK
    <2> QED
      BY <2>1, <2>2
  <1>3. /\ OnlyPlaintextRevives' /\ (stored'.plain => stored'.secret = 0 /\ newest' = 0)
        /\ stored'.plain => stored' = stored
    BY DEF GenerateSecret, RotateSecret, StoredHashed, SecretInv, OnlyPlaintextRevives
  <1>4. RevivalsBounded'
    BY <1>1, <1>3 DEF SecretInv, RevivalsBounded
  <1> QED
    BY <1>1, <1>2, <1>3, <1>4 DEF SecretInv

LEMMA SecretInvStep == SecretInv /\ [SecretNext]_secretVars => SecretInv'
  <1> SUFFICES ASSUME SecretInv, [SecretNext]_secretVars PROVE SecretInv'
    OBVIOUS
  <1>1. CASE UNCHANGED secretVars
    BY <1>1 DEF secretVars, SecretInv, SecretTypeOK, OnlyPlaintextRevives, RevivalsBounded,
       Upgrading
  <1> QED
    BY <1>1, AuthenticateStep, UpgradeStep, RotatorStep DEF SecretNext

LEMMA SecretInvInvariant == SecretSpec => []SecretInv
  BY SecretInvInit, SecretInvStep, PTL DEF SecretSpec

\* For any number of token requests and rotations: the only secret that can
\* come back after a rotation is the one that was stored in plaintext.
THEOREM OnlyPlaintextRevivesHolds == SecretSpec => []OnlyPlaintextRevives
  <1>1. SecretInv => OnlyPlaintextRevives
    BY DEF SecretInv
  <1> QED
    BY <1>1, SecretInvInvariant, PTL

\* ... and it comes back at most once per token request that can be in flight.
THEOREM RevivalsBoundedHolds == SecretSpec => []RevivalsBounded
  <1>1. SecretInv => RevivalsBounded
    BY DEF SecretInv
  <1> QED
    BY <1>1, SecretInvInvariant, PTL

-----------------------------------------------------------------------------
(* Proofs about ApiKey for any finite set of exchanges, any revokers and   *)
(* any bounds of the model.  KeyInv is inductive: the row is missing only  *)
(* before the creation; an exchange under way has seen the access that is  *)
(* there now; and an exchange that mints after the end of the key leaves   *)
(* those that may, which no exchange can join any more.                    *)

KeyInv ==
    /\ KeyTypeOK
    /\ creation = "create" <=> keyRow = "none"
    /\ \A p \in InFlight : access => entitled[p]
    /\ NoSilentKey
    /\ LateMintsBounded

\* There are finitely many exchanges, and no more in flight than there are.
LEMMA ExchangerSize ==
    ASSUME NEW S \in SUBSET Exchanger
    PROVE  /\ IsFiniteSet(S) /\ Cardinality(S) \in Nat
           /\ Cardinality(Exchanger) \in Nat /\ Cardinality(S) <= Cardinality(Exchanger)
  BY ExchangerAssumption, FS_Subset, FS_CardinalityType

LEMMA FlightSize ==
    /\ Cardinality(InFlight) \in Nat /\ Cardinality(Exchanger) \in Nat
    /\ Cardinality(InFlight) <= Cardinality(Exchanger)
  BY ExchangerSize DEF InFlight

LEMMA KeyInvInit == KeyInit => KeyInv
  <1> SUFFICES ASSUME KeyInit PROVE KeyInv
    OBVIOUS
  <1>1. InFlight = {}
    BY DEF KeyInit, InFlight
  <1>2. KeyTypeOK
    <2>1. /\ minted \in 0 .. MaxMinted /\ late \in 0 .. minted /\ grants \in 0 .. MaxGrants
      BY MintAssumption DEF KeyInit
    <2>2. /\ revoker \in [Revoker -> BOOLEAN]
          /\ exchange \in [Exchanger -> {"idle", "check", "mint"}]
          /\ entitled \in [Exchanger -> BOOLEAN]
      BY DEF KeyInit
    <2> QED
      BY <2>1, <2>2 DEF KeyInit, KeyTypeOK
  <1> QED
    BY <1>1, <1>2 DEF KeyInit, KeyInv, NoSilentKey, LateMintsBounded, Ended

\* A step of those who create, revoke or delete the key: the exchanges stay as
\* they are, and a key that has ended has ended for good.
LEMMA RowMove ==
    ASSUME KeyInv, UNCHANGED <<access, exchangeVars>>, KeyTypeOK',
           creation' = "create" <=> keyRow' = "none", Ended => Ended', NoSilentKey'
    PROVE  KeyInv'
  <1>1. UNCHANGED <<access, exchange, entitled, minted, late>> /\ InFlight' = InFlight
    BY DEF exchangeVars, InFlight
  <1>2. LateMintsBounded'
    <2>1. late \in Nat
      BY MintAssumption DEF KeyInv, KeyTypeOK
    <2>2. Ended' => late + Cardinality(InFlight) <= Cardinality(Exchanger)
      BY <2>1, FlightSize DEF KeyInv, LateMintsBounded
    <2> QED
      BY <1>1, <2>2 DEF KeyInv, LateMintsBounded
  <1> QED
    BY <1>1, <1>2 DEF KeyInv

LEMMA RowStep ==
    ASSUME KeyInv,
           \/ CreateKey \/ NotifyOwner \/ RevokeUnannounced \/ CreatorDies
           \/ Expire \/ DeleteOwner
           \/ \E r \in Revoker : ReadForRevocation(r) \/ RevokeKey(r)
    PROVE  KeyInv'
  <1>1. UNCHANGED <<access, exchangeVars>>
    BY DEF CreateKey, NotifyOwner, RevokeUnannounced, CreatorDies, Expire, DeleteOwner,
       ReadForRevocation, RevokeKey
  <1>t. KeyTypeOK /\ (creation = "create" <=> keyRow = "none") /\ NoSilentKey
    BY DEF KeyInv
  <1>2. ASSUME CreateKey PROVE KeyInv'
    <2>1. /\ creation = "create" /\ keyRow = "none"
          /\ keyRow' = "there" /\ creation' = "notify"
          /\ UNCHANGED <<revoked, expired, mailed, revoker, access, grants, exchangeVars>>
      BY <1>2, <1>t DEF CreateKey
    <2>2. KeyTypeOK'
      BY <1>t, <2>1 DEF KeyTypeOK, exchangeVars
    <2> QED
      BY <1>1, <2>1, <2>2, RowMove DEF Ended, NoSilentKey
  <1>3. ASSUME NotifyOwner PROVE KeyInv'
    <2>1. KeyTypeOK'
      BY <1>3, <1>t DEF NotifyOwner, AfterFailedMail, KeyTypeOK, exchangeVars
    <2> QED
      BY <1>1, <1>3, <1>t, <2>1, RowMove DEF NotifyOwner, AfterFailedMail, Ended, NoSilentKey
  <1>4. ASSUME RevokeUnannounced PROVE KeyInv'
    <2>1. KeyTypeOK'
      BY <1>4, <1>t DEF RevokeUnannounced, RevokeRow, KeyTypeOK, exchangeVars
    <2>2. keyRow \in {"there", "deleted"} /\ keyRow' = keyRow
      BY <1>4, <1>t DEF RevokeUnannounced, KeyTypeOK
    <2> QED
      BY <1>1, <1>4, <1>t, <2>1, <2>2, RowMove DEF RevokeUnannounced, RevokeRow, Ended, NoSilentKey
  <1>5. ASSUME CreatorDies PROVE KeyInv'
    <2>1. KeyTypeOK'
      BY <1>5, <1>t DEF CreatorDies, KeyTypeOK, exchangeVars
    <2> QED
      BY <1>1, <1>5, <1>t, <2>1, RowMove DEF CreatorDies, Ended, NoSilentKey
  <1>6. ASSUME Expire \/ DeleteOwner PROVE KeyInv'
    <2>1. KeyTypeOK'
      BY <1>6, <1>t DEF Expire, DeleteOwner, createVars, KeyTypeOK, exchangeVars
    <2> QED
      BY <1>1, <1>6, <1>t, <2>1, RowMove DEF Expire, DeleteOwner, createVars, Ended, NoSilentKey
  <1>7. ASSUME NEW r \in Revoker, ReadForRevocation(r) \/ RevokeKey(r) PROVE KeyInv'
    <2>1. KeyTypeOK'
      BY <1>7, <1>t DEF ReadForRevocation, RevokeKey, RevokeRow, createVars, KeyTypeOK,
         exchangeVars
    <2> QED
      BY <1>1, <1>7, <1>t, <2>1, RowMove
      DEF ReadForRevocation, RevokeKey, RevokeRow, createVars, Ended, NoSilentKey
  <1> QED
    BY <1>2, <1>3, <1>4, <1>5, <1>6, <1>7

\* Access comes or goes: whoever is in flight when it comes is entitled.
LEMMA ChangeAccessStep == ASSUME KeyInv, ChangeAccess PROVE KeyInv'
  <1>1. /\ access' = ~ access
        /\ entitled' = [p \in Exchanger |-> entitled[p] \/ (exchange[p] # "idle" /\ access')]
        /\ UNCHANGED <<keyRow, revoked, expired, creation, mailed, revoker, exchange, minted, late>>
    BY DEF ChangeAccess, createVars
  <1>2. entitled' \in [Exchanger -> BOOLEAN]
    BY <1>1
  <1>3. ASSUME NEW p \in Exchanger
        PROVE  (entitled[p] => entitled'[p]) /\ (p \in InFlight /\ access' => entitled'[p])
    BY <1>1, Zenon DEF InFlight
  <1>4. KeyTypeOK'
    BY <1>1, <1>2, MintAssumption DEF ChangeAccess, KeyInv, KeyTypeOK
  <1>5. InFlight' = InFlight /\ Ended' = Ended
    BY <1>1 DEF InFlight, Ended
  <1>6. NoSilentKey'
    BY <1>1, <1>5 DEF KeyInv, NoSilentKey
  <1>7. LateMintsBounded'
    BY <1>1, <1>3, <1>5 DEF KeyInv, LateMintsBounded
  <1>8. \A p \in InFlight' : access' => entitled'[p]
    BY <1>3, <1>5 DEF InFlight
  <1> QED
    BY <1>1, <1>4, <1>6, <1>7, <1>8 DEF KeyInv

\* An exchange moves: what it may mint it is entitled to, and what it mints
\* late is paid for by leaving.
LEMMA ExchangeMove ==
    ASSUME KeyInv, NEW p \in Exchanger,
           UNCHANGED <<keyRow, revoked, expired, createVars, revoker, access, grants>>,
           exchange' \in [Exchanger -> {"idle", "check", "mint"}],
           entitled' \in [Exchanger -> BOOLEAN],
           minted' \in 0 .. MaxMinted, late' \in 0 .. minted',
           \A q \in Exchanger \ {p} : exchange'[q] = exchange[q] /\ entitled'[q] = entitled[q],
           exchange'[p] # "idle" /\ access => entitled'[p],
           exchange'[p] = "mint" => entitled'[p],
           ~ Ended => late' = 0,
           Ended => late' + Cardinality(InFlight') <= Cardinality(Exchanger)
    PROVE  KeyInv'
  <1>1. UNCHANGED <<keyRow, revoked, expired, creation, mailed, revoker, access, grants>>
    BY DEF createVars
  <1>2. KeyTypeOK'
    BY <1>1 DEF KeyInv, KeyTypeOK
  <1>3. Ended' = Ended /\ NoSilentKey'
    BY <1>1 DEF KeyInv, NoSilentKey, Ended
  <1>4. \A q \in Exchanger : exchange'[q] = "mint" => entitled'[q]
    BY DEF KeyInv, LateMintsBounded
  <1>5. \A q \in InFlight' : access' => entitled'[q]
    BY <1>1 DEF KeyInv, InFlight
  <1> QED
    BY <1>1, <1>2, <1>3, <1>4, <1>5 DEF KeyInv, LateMintsBounded

LEMMA ExchangeStep ==
    ASSUME KeyInv, NEW p \in Exchanger,
           PresentKey(p) \/ CheckOwner(p) \/ MintFromKey(p) \/ ExchangeDies(p)
    PROVE  KeyInv'
  <1>1. UNCHANGED <<keyRow, revoked, expired, createVars, revoker, access, grants>>
    BY DEF PresentKey, CheckOwner, MintFromKey, ExchangeDies
  <1>2. /\ exchange \in [Exchanger -> {"idle", "check", "mint"}]
        /\ entitled \in [Exchanger -> BOOLEAN]
        /\ minted \in 0 .. MaxMinted /\ late \in 0 .. minted /\ late \in Nat
        /\ (~ Ended => late = 0)
        /\ (Ended => late + Cardinality(InFlight) <= Cardinality(Exchanger))
        /\ (exchange[p] # "idle" /\ access => entitled[p])
    BY DEF KeyInv, KeyTypeOK, LateMintsBounded, InFlight
  <1>3. ASSUME PresentKey(p) PROVE KeyInv'
    <2>1. ~ Ended
      BY <1>3 DEF PresentKey, Usable, Ended
    <2> QED
      BY <1>1, <1>2, <1>3, <2>1, ExchangeMove DEF PresentKey, KeyInv, KeyTypeOK
  <1>4. ASSUME exchange' = [exchange EXCEPT ![p] = "idle"], entitled' = entitled,
               p \in InFlight, minted' \in 0 .. MaxMinted, late' \in 0 .. minted',
               late' \in {late, late + 1}, ~ Ended => late' = late
        PROVE  KeyInv'
    <2>1. InFlight \in SUBSET Exchanger /\ InFlight' = InFlight \ {p}
      BY <1>2, <1>4 DEF InFlight
    <2>2. Cardinality(InFlight') = Cardinality(InFlight) - 1
      BY <1>4, <2>1, ExchangerSize, FS_RemoveElement
    <2>3. Ended => late' + Cardinality(InFlight') <= Cardinality(Exchanger)
      BY <1>2, <1>4, <2>2, FlightSize
    <2> QED
      BY <1>1, <1>2, <1>4, <2>3, ExchangeMove
  <1>5. ASSUME CheckOwner(p) PROVE KeyInv'
    <2>1. CASE keyRow = "there" /\ HasAccess
      <3>1. exchange' = [exchange EXCEPT ![p] = "mint"] /\ entitled[p] /\ p \in InFlight
            /\ UNCHANGED <<entitled, minted, late>>
        BY <1>2, <1>5, <2>1 DEF CheckOwner, HasAccess, InFlight
      <3>2. InFlight' = InFlight
        BY <1>2, <3>1 DEF InFlight
      <3> QED
        BY <1>1, <1>2, <3>1, <3>2, ExchangeMove
    <2>2. CASE ~ (keyRow = "there" /\ HasAccess)
      BY <1>2, <1>4, <1>5, <2>2 DEF CheckOwner, InFlight
    <2> QED
      BY <2>1, <2>2
  <1>6. ASSUME MintFromKey(p) PROVE KeyInv'
    <2>1. /\ exchange' = [exchange EXCEPT ![p] = "idle"] /\ entitled' = entitled
          /\ p \in InFlight
      BY <1>6 DEF MintFromKey, InFlight
    <2>2. CASE /\ minted < MaxMinted /\ minted' = minted + 1
               /\ late' = IF Ended THEN late + 1 ELSE late
      <3>1. minted' \in 0 .. MaxMinted /\ late' \in 0 .. minted'
        BY <1>2, <2>2, MintAssumption
      <3> QED
        BY <1>4, <2>1, <2>2, <3>1
    <2>3. CASE UNCHANGED <<minted, late>>
      BY <1>2, <1>4, <2>1, <2>3
    <2> QED
      BY <1>6, <2>2, <2>3 DEF MintFromKey
  <1>7. ASSUME ExchangeDies(p) PROVE KeyInv'
    BY <1>2, <1>4, <1>7 DEF ExchangeDies, InFlight
  <1> QED
    BY <1>3, <1>5, <1>6, <1>7

LEMMA KeyInvStep == KeyInv /\ [KeyNext]_keyVars => KeyInv'
  <1> SUFFICES ASSUME KeyInv, [KeyNext]_keyVars PROVE KeyInv'
    OBVIOUS
  <1>1. CASE UNCHANGED keyVars
    BY <1>1 DEF keyVars, createVars, exchangeVars, KeyInv, KeyTypeOK, InFlight, NoSilentKey,
       LateMintsBounded, Ended
  <1> QED
    BY <1>1, RowStep, ChangeAccessStep, ExchangeStep DEF KeyNext

LEMMA KeyInvInvariant == KeySpec => []KeyInv
  BY KeyInvInit, KeyInvStep, PTL DEF KeySpec

\* Whatever revokes, expires or deletes the key meanwhile: a secret is handed
\* out only after the mail to its owner, and a failed mail ends the key.
THEOREM NoSilentKeyHolds == KeySpec => []NoSilentKey
  <1>1. KeyInv => NoSilentKey
    BY DEF KeyInv
  <1> QED
    BY <1>1, KeyInvInvariant, PTL

\* However many exchanges overlap: after the end of a key each of them mints at
\* most once more, and none for an owner who had no access while it ran.
THEOREM LateMintsBoundedHolds == KeySpec => []LateMintsBounded
  <1>1. KeyInv => LateMintsBounded
    BY DEF KeyInv
  <1> QED
    BY <1>1, KeyInvInvariant, PTL

-----------------------------------------------------------------------------
(* Proofs about DcrRateLimit for any number of requests and days.          *)
(* Inductive with BudgetIsExact, for each day: the counter is at most what *)
(* was attempted and not yet counted; before the day is over it is at      *)
(* least what was admitted or is about to be read; and once it is over     *)
(* only the requests of the day still in flight can be added.              *)

Counting(d) == {p \in Registrant : attempt[p].pc = "upsert" /\ attempt[p].day = d}

Reads(d) == {p \in Registrant : attempt[p].pc = "select" /\ attempt[p].day = d}

InFlightOf(d) == {p \in Registrant : attempt[p].pc # "idle" /\ attempt[p].day = d}

DayTypes ==
    /\ today \in Day /\ counter \in [Day -> Nat] /\ attempts \in [Day -> Nat]
    /\ admitted \in [Day -> Nat] /\ turnedAway \in [Day -> Nat]
    /\ attempt \in [Registrant -> [pc : {"idle", "upsert", "select"}, day : Day]]
    /\ \A p \in Registrant : attempt[p].pc # "idle" => attempt[p].day <= today

DayInv(d) ==
    /\ counter[d] + Cardinality(Counting(d)) <= attempts[d]
    /\ turnedAway[d] > 0 => attempts[d] > LimitPerDay
    /\ d >= today => admitted[d] + Cardinality(Reads(d)) <= counter[d]
    /\ d >= today => admitted[d] <= LimitPerDay
    /\ d < today => admitted[d] + Cardinality(InFlightOf(d))
                        <= LimitPerDay + Cardinality(Registrant)

BudgetInv == DayTypes /\ \A d \in Day : DayInv(d)

\* The numbers of requests are numbers, and no more than there are requests.
LEMMA CountsOfDay ==
    ASSUME NEW S \in SUBSET Registrant
    PROVE  /\ IsFiniteSet(S) /\ Cardinality(S) \in Nat /\ Cardinality(Registrant) \in Nat
           /\ Cardinality(S) <= Cardinality(Registrant)
  BY RegistrantAssumption, FS_Subset, FS_CardinalityType

LEMMA OneMore ==
    ASSUME NEW S \in SUBSET Registrant, NEW p \in Registrant, p \notin S
    PROVE  Cardinality(S \cup {p}) = Cardinality(S) + 1
  BY CountsOfDay, FS_AddElement

LEMMA OneLess ==
    ASSUME NEW S \in SUBSET Registrant, NEW p \in Registrant, p \in S
    PROVE  Cardinality(S \ {p}) = Cardinality(S) - 1
  BY CountsOfDay, FS_RemoveElement

LEMMA CountsAreNat ==
    \A d \in Day : /\ Cardinality(Counting(d)) \in Nat /\ Cardinality(Reads(d)) \in Nat
                   /\ Cardinality(InFlightOf(d)) \in Nat
                   /\ Cardinality(InFlightOf(d)) <= Cardinality(Registrant)
                   /\ Cardinality(Registrant) \in Nat
  <1> SUFFICES ASSUME NEW d \in Day
               PROVE  /\ Cardinality(Counting(d)) \in Nat /\ Cardinality(Reads(d)) \in Nat
                      /\ Cardinality(InFlightOf(d)) \in Nat
                      /\ Cardinality(InFlightOf(d)) <= Cardinality(Registrant)
                      /\ Cardinality(Registrant) \in Nat
    OBVIOUS
  <1>1. /\ Counting(d) \in SUBSET Registrant /\ Reads(d) \in SUBSET Registrant
        /\ InFlightOf(d) \in SUBSET Registrant
    BY DEF Counting, Reads, InFlightOf
  <1> QED
    BY <1>1, CountsOfDay

LEMMA BudgetInvInit == DcrInit => BudgetInv
  <1> SUFFICES ASSUME DcrInit PROVE BudgetInv
    OBVIOUS
  <1>1. 0 \in Day
    BY DayAssumption DEF Day
  <1>2. DayTypes
    BY <1>1 DEF DcrInit, DayTypes
  <1>3. ASSUME NEW d \in Day PROVE DayInv(d)
    <2>1. Counting(d) = {} /\ Reads(d) = {} /\ d >= 0 /\ d \in Nat
      BY <1>3, DayAssumption DEF DcrInit, Counting, Reads, Day
    <2>2. Cardinality({}) = 0
      BY FS_EmptySet
    <2> QED
      BY <1>3, <2>1, <2>2, DayAssumption DEF DcrInit, DayInv
  <1> QED
    BY <1>2, <1>3 DEF BudgetInv

\* A statement of one request, of which only the sets of its day e take notice.
LEMMA DaySets ==
    ASSUME DayTypes, NEW p \in Registrant, NEW e \in Day, NEW pc \in {"idle", "upsert", "select"},
           attempt[p].pc # "idle" => attempt[p].day = e,
           attempt' = [attempt EXCEPT ![p] = [pc |-> pc, day |-> e]]
    PROVE  /\ \A d \in Day \ {e} : /\ Counting(d)' = Counting(d) /\ Reads(d)' = Reads(d)
                                   /\ InFlightOf(d)' = InFlightOf(d)
           /\ Counting(e)' = IF pc = "upsert" THEN Counting(e) \cup {p} ELSE Counting(e) \ {p}
           /\ Reads(e)' = IF pc = "select" THEN Reads(e) \cup {p} ELSE Reads(e) \ {p}
           /\ InFlightOf(e)' = IF pc # "idle" THEN InFlightOf(e) \cup {p}
                               ELSE InFlightOf(e) \ {p}
           /\ attempt' \in [Registrant -> [pc : {"idle", "upsert", "select"}, day : Day]]
  <1>1. /\ attempt' \in [Registrant -> [pc : {"idle", "upsert", "select"}, day : Day]]
        /\ attempt'[p].pc = pc /\ attempt'[p].day = e
        /\ \A q \in Registrant \ {p} : attempt'[q] = attempt[q]
    BY DEF DayTypes
  <1>2. \A d \in Day \ {e} : /\ Counting(d)' = Counting(d) /\ Reads(d)' = Reads(d)
                             /\ InFlightOf(d)' = InFlightOf(d)
    BY <1>1 DEF Counting, Reads, InFlightOf
  <1>3. Counting(e)' = IF pc = "upsert" THEN Counting(e) \cup {p} ELSE Counting(e) \ {p}
    BY <1>1 DEF Counting
  <1>4. Reads(e)' = IF pc = "select" THEN Reads(e) \cup {p} ELSE Reads(e) \ {p}
    BY <1>1 DEF Reads
  <1>5. InFlightOf(e)' = IF pc # "idle" THEN InFlightOf(e) \cup {p} ELSE InFlightOf(e) \ {p}
    BY <1>1 DEF InFlightOf
  <1> QED
    BY <1>1, <1>2, <1>3, <1>4, <1>5

\* The same, in numbers.
LEMMA DayCounts ==
    ASSUME DayTypes, NEW p \in Registrant, NEW e \in Day, NEW pc \in {"idle", "upsert", "select"},
           attempt[p].pc # "idle" => attempt[p].day = e,
           attempt' = [attempt EXCEPT ![p] = [pc |-> pc, day |-> e]]
    PROVE  /\ pc = "upsert" /\ attempt[p].pc # "upsert" =>
                 Cardinality(Counting(e)') = Cardinality(Counting(e)) + 1
           /\ pc # "upsert" /\ attempt[p].pc = "upsert" =>
                 Cardinality(Counting(e)') = Cardinality(Counting(e)) - 1
           /\ pc # "upsert" /\ attempt[p].pc # "upsert" => Counting(e)' = Counting(e)
           /\ pc = "select" /\ attempt[p].pc # "select" =>
                 Cardinality(Reads(e)') = Cardinality(Reads(e)) + 1
           /\ pc # "select" /\ attempt[p].pc = "select" =>
                 Cardinality(Reads(e)') = Cardinality(Reads(e)) - 1
           /\ pc # "select" /\ attempt[p].pc # "select" => Reads(e)' = Reads(e)
           /\ pc # "idle" /\ attempt[p].pc # "idle" => InFlightOf(e)' = InFlightOf(e)
           /\ pc = "idle" /\ attempt[p].pc # "idle" =>
                 Cardinality(InFlightOf(e)') = Cardinality(InFlightOf(e)) - 1
  <1>1. /\ p \in Counting(e) <=> attempt[p].pc = "upsert"
        /\ p \in Reads(e) <=> attempt[p].pc = "select"
        /\ p \in InFlightOf(e) <=> attempt[p].pc # "idle"
    BY DEF Counting, Reads, InFlightOf, DayTypes
  <1>2. /\ Counting(e) \in SUBSET Registrant /\ Reads(e) \in SUBSET Registrant
        /\ InFlightOf(e) \in SUBSET Registrant
    BY DEF Counting, Reads, InFlightOf
  <1>3. /\ p \notin Counting(e) => Cardinality(Counting(e) \cup {p}) = Cardinality(Counting(e)) + 1
        /\ p \in Counting(e) => Cardinality(Counting(e) \ {p}) = Cardinality(Counting(e)) - 1
        /\ p \notin Reads(e) => Cardinality(Reads(e) \cup {p}) = Cardinality(Reads(e)) + 1
        /\ p \in Reads(e) => Cardinality(Reads(e) \ {p}) = Cardinality(Reads(e)) - 1
        /\ p \in InFlightOf(e) =>
              Cardinality(InFlightOf(e) \ {p}) = Cardinality(InFlightOf(e)) - 1
    BY <1>2, OneMore, OneLess
  <1>4. /\ pc = "upsert" => Counting(e)' = Counting(e) \cup {p}
        /\ pc # "upsert" => Counting(e)' = Counting(e) \ {p}
        /\ pc = "select" => Reads(e)' = Reads(e) \cup {p}
        /\ pc # "select" => Reads(e)' = Reads(e) \ {p}
        /\ pc = "idle" => InFlightOf(e)' = InFlightOf(e) \ {p}
        /\ pc # "idle" => InFlightOf(e)' = InFlightOf(e) \cup {p}
    BY DaySets
  <1>5. /\ p \notin Counting(e) => Counting(e) \ {p} = Counting(e)
        /\ p \notin Reads(e) => Reads(e) \ {p} = Reads(e)
        /\ p \in InFlightOf(e) => InFlightOf(e) \cup {p} = InFlightOf(e)
    OBVIOUS
  <1> QED
    BY <1>1, <1>3, <1>4, <1>5

\* A request that only moves on keeps its day.
LEMMA DayKept ==
    ASSUME DayTypes, NEW p \in Registrant, NEW pc \in {"idle", "upsert", "select"}
    PROVE  [attempt EXCEPT ![p].pc = pc] =
           [attempt EXCEPT ![p] = [pc |-> pc, day |-> attempt[p].day]]
  <1>1. PICK r \in [pc : {"idle", "upsert", "select"}, day : Day] : r = attempt[p]
    BY DEF DayTypes
  <1>2. [r EXCEPT !.pc = pc] = [pc |-> pc, day |-> r.day]
    OBVIOUS
  <1>3. [attempt EXCEPT ![p].pc = pc] = [attempt EXCEPT ![p] = [r EXCEPT !.pc = pc]]
    BY <1>1
  <1> QED
    BY <1>1, <1>2, <1>3

\* What happens to a day e on which one request p moves, and to the others.
LEMMA DayMoves ==
    ASSUME BudgetInv, NEW p \in Registrant, NEW e \in Day, NEW pc \in {"idle", "upsert", "select"},
           attempt[p].pc # "idle" => attempt[p].day = e, e <= today,
           attempt' = [attempt EXCEPT ![p] = [pc |-> pc, day |-> e]], today' = today,
           counter' \in [Day -> Nat], attempts' \in [Day -> Nat],
           admitted' \in [Day -> Nat], turnedAway' \in [Day -> Nat],
           \A d \in Day \ {e} : /\ counter'[d] = counter[d] /\ attempts'[d] = attempts[d]
                                /\ admitted'[d] = admitted[d] /\ turnedAway'[d] = turnedAway[d],
           DayInv(e)'
    PROVE  BudgetInv'
  <1>1. DayTypes'
    <2>1. \A q \in Registrant : attempt'[q].pc # "idle" => attempt'[q].day <= today'
      BY DEF BudgetInv, DayTypes
    <2> QED
      BY <2>1, DaySets DEF BudgetInv, DayTypes
  <1>2. ASSUME NEW d \in Day \ {e} PROVE DayInv(d)'
    <2>1. /\ Counting(d)' = Counting(d) /\ Reads(d)' = Reads(d)
          /\ InFlightOf(d)' = InFlightOf(d)
      BY <1>2, DaySets DEF BudgetInv
    <2> QED
      BY <1>2, <2>1 DEF BudgetInv, DayInv
  <1> QED
    BY <1>1, <1>2 DEF BudgetInv

LEMMA DcrStep ==
    ASSUME BudgetInv, [DcrNext]_dcrVars
    PROVE  BudgetInv'
  <1>1. DayTypes /\ \A d \in Day : DayInv(d) /\ d \in Nat /\ LimitPerDay \in Nat
    BY DayAssumption DEF BudgetInv, Day
  <1>2. today \in Nat
    BY <1>1 DEF DayTypes
  <1>3. ASSUME NEW p \in Registrant, RecordAttempt(p) PROVE BudgetInv'
    <2>1. PICK e \in Day : e = today
      BY <1>1 DEF DayTypes
    <2>2. /\ attempt' = [attempt EXCEPT ![p] = [pc |-> "upsert", day |-> e]]
          /\ attempt[p].pc = "idle" /\ attempts' = [attempts EXCEPT ![e] = @ + 1]
          /\ UNCHANGED <<today, counter, admitted, turnedAway>>
      BY <1>3, <2>1 DEF RecordAttempt
    <2>3. /\ Cardinality(Counting(e)') = Cardinality(Counting(e)) + 1
          /\ Cardinality(Reads(e)') = Cardinality(Reads(e))
      BY <1>1, <2>2, DayCounts, CountsAreNat
    <2>4. attempts' \in [Day -> Nat] /\ attempts'[e] = attempts[e] + 1
      BY <1>1, <2>2 DEF DayTypes
    <2>5. DayInv(e)'
      BY <1>1, <1>2, <2>1, <2>2, <2>3, <2>4, CountsAreNat DEF DayInv, DayTypes
    <2>6. /\ counter' \in [Day -> Nat] /\ admitted' \in [Day -> Nat]
          /\ turnedAway' \in [Day -> Nat]
          /\ \A d \in Day \ {e} : /\ counter'[d] = counter[d] /\ attempts'[d] = attempts[d]
                                   /\ admitted'[d] = admitted[d]
                                   /\ turnedAway'[d] = turnedAway[d]
      BY <1>1, <2>2 DEF DayTypes
    <2>7. e <= today /\ today' = today
      BY <1>2, <2>1, <2>2
    <2> QED
      BY <2>2, <2>4, <2>5, <2>6, <2>7, DayMoves
  <1>4. ASSUME NEW p \in Registrant,
               UpsertCounter(p) \/ ReadCounter(p) \/ RegistrantDies(p)
        PROVE  BudgetInv'
    <2>1. PICK e \in Day : e = attempt[p].day
      BY <1>1 DEF DayTypes
    <2>2. e <= today /\ attempt[p].pc # "idle" /\ today' = today
      BY <1>1, <1>4, <2>1 DEF UpsertCounter, ReadCounter, RegistrantDies, DayTypes
    <2>3. CASE UpsertCounter(p)
      <3>1. /\ attempt' = [attempt EXCEPT ![p] = [pc |-> "select", day |-> e]]
            /\ attempt[p].pc = "upsert" /\ counter' = [counter EXCEPT ![e] = @ + 1]
            /\ UNCHANGED <<attempts, admitted, turnedAway>>
        BY <1>1, <2>1, <2>3, DayKept DEF UpsertCounter
      <3>2. /\ Cardinality(Counting(e)') = Cardinality(Counting(e)) - 1
            /\ Cardinality(Reads(e)') = Cardinality(Reads(e)) + 1
            /\ Cardinality(InFlightOf(e)') = Cardinality(InFlightOf(e))
        BY <1>1, <2>1, <2>2, <3>1, DayCounts, CountsAreNat
      <3>3. counter' \in [Day -> Nat] /\ counter'[e] = counter[e] + 1
        BY <1>1, <3>1 DEF DayTypes
      <3>4. DayInv(e)'
        BY <1>1, <1>2, <2>2, <3>1, <3>2, <3>3, CountsAreNat DEF DayInv, DayTypes
      <3> QED
        BY <1>1, <2>1, <2>2, <3>1, <3>3, <3>4, DayMoves DEF DayTypes
    <2>4. CASE ReadCounter(p)
      <3>1. /\ attempt' = [attempt EXCEPT ![p] = [pc |-> "idle", day |-> e]]
            /\ attempt[p].pc = "select" /\ UNCHANGED <<counter, attempts>>
            /\ \/ /\ counter[e] <= LimitPerDay
                  /\ admitted' = [admitted EXCEPT ![e] = @ + 1] /\ turnedAway' = turnedAway
               \/ /\ ~ (counter[e] <= LimitPerDay)
                  /\ turnedAway' = [turnedAway EXCEPT ![e] = @ + 1] /\ admitted' = admitted
        BY <1>1, <2>1, <2>4, DayKept DEF ReadCounter, WithinBudget
      <3>2. /\ Cardinality(Counting(e)') = Cardinality(Counting(e))
            /\ Cardinality(Reads(e)') = Cardinality(Reads(e)) - 1
            /\ Cardinality(InFlightOf(e)') = Cardinality(InFlightOf(e)) - 1
        BY <1>1, <2>1, <2>2, <3>1, DayCounts, CountsAreNat
      <3>3. /\ admitted' \in [Day -> Nat] /\ turnedAway' \in [Day -> Nat]
            /\ \A d \in Day \ {e} : admitted'[d] = admitted[d] /\ turnedAway'[d] = turnedAway[d]
            /\ \/ counter[e] <= LimitPerDay /\ admitted'[e] = admitted[e] + 1
                  /\ turnedAway'[e] = turnedAway[e]
               \/ ~ (counter[e] <= LimitPerDay) /\ admitted'[e] = admitted[e]
        BY <1>1, <3>1 DEF DayTypes
      <3>4. counter[e] \in Nat /\ attempts[e] \in Nat /\ admitted[e] \in Nat
            /\ Cardinality(Reads(e)) \in Nat /\ Cardinality(Counting(e)) \in Nat
            /\ Cardinality(InFlightOf(e)) \in Nat /\ Cardinality(Reads(e)') \in Nat
        <4>1. Reads(e)' \in SUBSET Registrant
          BY DEF Reads
        <4> QED
          BY <1>1, <4>1, CountsAreNat, CountsOfDay DEF DayTypes
      <3>5. DayInv(e)'
        BY <1>1, <1>2, <2>2, <3>1, <3>2, <3>3, <3>4, CountsAreNat DEF DayInv
      <3> QED
        BY <1>1, <2>1, <2>2, <3>1, <3>3, <3>5, DayMoves DEF DayTypes
    <2>5. CASE RegistrantDies(p)
      <3>1. /\ attempt' = [attempt EXCEPT ![p] = [pc |-> "idle", day |-> e]]
            /\ UNCHANGED <<counter, attempts, admitted, turnedAway>>
        BY <1>1, <2>1, <2>5, DayKept DEF RegistrantDies
      <3>2. /\ Cardinality(Counting(e)') <= Cardinality(Counting(e))
            /\ Cardinality(Reads(e)') <= Cardinality(Reads(e))
            /\ Cardinality(InFlightOf(e)') = Cardinality(InFlightOf(e)) - 1
            /\ Cardinality(Counting(e)') \in Int /\ Cardinality(Reads(e)') \in Int
        <4>1. \/ Cardinality(Counting(e)') = Cardinality(Counting(e)) - 1
              \/ Counting(e)' = Counting(e)
          BY <1>1, <2>1, <2>2, <3>1, DayCounts
        <4>2. \/ Cardinality(Reads(e)') = Cardinality(Reads(e)) - 1
              \/ Reads(e)' = Reads(e)
          BY <1>1, <2>1, <2>2, <3>1, DayCounts
        <4>3. Cardinality(InFlightOf(e)') = Cardinality(InFlightOf(e)) - 1
          BY <1>1, <2>1, <2>2, <3>1, DayCounts
        <4> QED
          BY <4>1, <4>2, <4>3, CountsAreNat
      <3>3. DayInv(e)'
        BY <1>1, <1>2, <2>2, <3>1, <3>2, CountsAreNat DEF DayInv, DayTypes
      <3> QED
        BY <1>1, <2>1, <2>2, <3>1, <3>3, DayMoves DEF DayTypes
    <2> QED
      BY <1>4, <2>3, <2>4, <2>5
  <1>5. ASSUME attempt' = attempt
        PROVE  \A d \in Day : /\ Counting(d)' = Counting(d) /\ Reads(d)' = Reads(d)
                              /\ InFlightOf(d)' = InFlightOf(d)
    BY <1>5 DEF Counting, Reads, InFlightOf
  <1>6. CASE Midnight
    <2>1. /\ today' = today + 1 /\ today' \in Day
          /\ UNCHANGED <<counter, attempt, attempts, admitted, turnedAway>>
      BY <1>1, <1>2, <1>6, DayAssumption DEF Midnight, Day
    <2>2. DayTypes'
      BY <1>1, <1>2, <2>1 DEF DayTypes, Day
    <2>3. ASSUME NEW d \in Day PROVE DayInv(d)'
      BY <1>1, <1>2, <1>5, <2>1, CountsAreNat DEF DayInv, DayTypes
    <2> QED
      BY <2>2, <2>3 DEF BudgetInv
  <1>7. CASE PruneCounters
    <2>1. /\ counter' = [d \in Day |-> IF d < today THEN 0 ELSE counter[d]]
          /\ UNCHANGED <<today, attempt, attempts, admitted, turnedAway>>
      BY <1>7 DEF PruneCounters, BeforeToday
    <2>2. DayTypes'
      BY <1>1, <2>1 DEF DayTypes
    <2>3. ASSUME NEW d \in Day PROVE DayInv(d)'
      BY <1>1, <1>2, <1>5, <2>1, CountsAreNat DEF DayInv, DayTypes
    <2> QED
      BY <2>2, <2>3 DEF BudgetInv
  <1>8. CASE UNCHANGED dcrVars
    BY <1>1, <1>5, <1>8 DEF dcrVars, BudgetInv, DayTypes, DayInv
  <1> QED
    BY <1>3, <1>4, <1>6, <1>7, <1>8 DEF DcrNext

\* BudgetIsExact (recordAttempt's UPSERT and SELECT around midnight and the
\* cron): for any number of requests, days and any limit.
THEOREM BudgetIsExactHolds == DcrSpec => []BudgetIsExact
  <1>1. BudgetInv => BudgetIsExact
    <2> SUFFICES ASSUME BudgetInv, NEW d \in Day
                 PROVE  /\ d = today => admitted[d] <= LimitPerDay
                        /\ admitted[d] <= LimitPerDay + Cardinality(Registrant)
                        /\ turnedAway[d] > 0 => attempts[d] > LimitPerDay
      BY DEF BudgetIsExact
    <2>1. d \in Nat /\ today \in Nat /\ LimitPerDay \in Nat /\ admitted[d] \in Nat
      BY DayAssumption DEF BudgetInv, DayTypes, Day
    <2>2. DayInv(d)
      BY DEF BudgetInv
    <2> QED
      BY <2>1, <2>2, CountsAreNat DEF DayInv
  <1> QED
    BY <1>1, BudgetInvInit, DcrStep, PTL DEF DcrSpec

-----------------------------------------------------------------------------
(* Types, for the sum of the parts in MCTokenEndpoint.                     *)

\* The stored secret and the locals of its requests keep their types.
LEMMA SecretTypes == SecretSpec => []SecretTypeOK
  <1>1. SecretInv => SecretTypeOK
    BY DEF SecretInv
  <1> QED
    BY <1>1, SecretInvInvariant, PTL

\* The key and the requests about it keep their types.
LEMMA KeyTypes == KeySpec => []KeyTypeOK
  <1>1. KeyInv => KeyTypeOK
    BY DEF KeyInv
  <1> QED
    BY <1>1, KeyInvInvariant, PTL

\* The numbers of attempts stay within the bound of the model.
LEMMA FewAttempts ==
    ASSUME BudgetInv, attempts \in [Day -> 0 .. MaxPerDay], [DcrNext]_dcrVars
    PROVE  attempts' \in [Day -> 0 .. MaxPerDay]
  <1>1. ASSUME NEW p \in Registrant, RecordAttempt(p) PROVE attempts' \in [Day -> 0 .. MaxPerDay]
    <2>1. today \in Day /\ attempts[today] + 1 \in 0 .. MaxPerDay
      BY <1>1, DayAssumption DEF RecordAttempt, BudgetInv, DayTypes
    <2> QED
      BY <1>1, <2>1 DEF RecordAttempt
  <1>2. ASSUME NEW p \in Registrant, UpsertCounter(p) \/ ReadCounter(p) \/ RegistrantDies(p)
        PROVE  UNCHANGED attempts
    BY <1>2 DEF UpsertCounter, ReadCounter, RegistrantDies
  <1>3. CASE Midnight \/ PruneCounters \/ UNCHANGED dcrVars
    BY <1>3 DEF Midnight, PruneCounters, dcrVars
  <1> QED
    BY <1>1, <1>2, <1>3 DEF DcrNext

\* The counters, the days and the requests of each keep their types.
LEMMA DcrTypes == DcrSpec => []DcrTypeOK
  <1> DEFINE Few == attempts \in [Day -> 0 .. MaxPerDay]
  <1>1. DcrInit => BudgetInv /\ Few
    BY BudgetInvInit, DayAssumption DEF DcrInit
  <1>2. BudgetInv /\ Few /\ [DcrNext]_dcrVars => BudgetInv' /\ Few'
    BY DcrStep, FewAttempts
  <1>3. BudgetInv /\ Few => DcrTypeOK
    BY DEF BudgetInv, DayTypes, DcrTypeOK
  <1> QED
    BY <1>1, <1>2, <1>3, PTL DEF DcrSpec
=============================================================================

---------------------------- MODULE AccountProofs ----------------------------
(***************************************************************************)
(* Proofs about the account of a user: authenticator, rank, passkey and    *)
(* password.  At the end, the sum of the ten parts that MCAccounts runs.   *)
(***************************************************************************)
EXTENDS MCAccounts, ChallengeProofs, SiteProofs

-----------------------------------------------------------------------------
(* Proofs about TotpEnrolment for any number of tabs, sign-ins and         *)
(* secrets.  The two properties become inductive with what is known of the *)
(* confirmations in flight: the secret such a one has proved was shown,    *)
(* and while it is in flight every other secret that comes into the row is *)
(* recorded as swapped.                                                    *)

\* What is in the row while a confirmation is in flight.
PendingIsKnown ==
    \A t \in Tab : confirming[t] # 0 =>
        totp.secret \in shown \cup swapped \cup {0}

TotpInv == TotpTypeOK /\ PendingIsKnown /\ ConfirmedWasShown /\ SignInCodesWereShown

LEMMA TotpInvInit == TotpInit => TotpInv
  BY MaxSecretsAssumption DEF TotpInit, TotpInv, TotpTypeOK, PendingIsKnown, ConfirmedWasShown,
         SignInCodesWereShown, NoRow, NoLogin

LEMMA TotpInvStep == TotpInv /\ [TotpNext]_totpVars => TotpInv'
  <1> SUFFICES ASSUME TotpInv, [TotpNext]_totpVars PROVE TotpInv'
    OBVIOUS
  <1> USE MaxSecretsAssumption DEF TotpInv, TotpTypeOK, PendingIsKnown, ConfirmedWasShown,
              SignInCodesWereShown
  <1>1. CASE BeginEnrollment
    BY <1>1 DEF BeginEnrollment, Pending
  <1>2. CASE Disable
    BY <1>2 DEF Disable, NoRow
  <1>3. ASSUME NEW t \in Tab, ProveSecret(t) PROVE TotpInv'
    <2>1. totp' = totp /\ secrets' = secrets /\ login' = login /\ swapped' = swapped
          /\ totp.secret # 0 /\ totp.secret \in 0 .. MaxSecrets
          /\ shown' = shown \cup {totp.secret}
      BY <1>3 DEF ProveSecret
    <2>2. confirming' \in [Tab -> 0 .. MaxSecrets]
      BY <1>3, <2>1 DEF ProveSecret
    <2>3. shown' \in SUBSET (1 .. MaxSecrets)
      <3>1. totp.secret \in 1 .. MaxSecrets
        BY <2>1
      <3>2. shown \subseteq 1 .. MaxSecrets
        OBVIOUS
      <3> QED
        BY <2>1, <3>1, <3>2, Zenon
    <2>4. \A l \in Login : login'[l] = login[l]
      BY <2>1
    <2>5. TotpTypeOK'
      BY <2>1, <2>2, <2>3
    <2>6. PendingIsKnown' /\ ConfirmedWasShown' /\ SignInCodesWereShown'
      BY <2>1, <2>4
    <2> QED
      BY <2>5, <2>6
  <1>4. ASSUME NEW t \in Tab, Confirm(t) PROVE TotpInv'
    <2>1. totp.secret \in shown \cup swapped \cup {0}
      BY <1>4 DEF Confirm
    <2>2. /\ totp' \in [secret : 0 .. MaxSecrets, confirmed : BOOLEAN]
          /\ totp'.secret = totp.secret
          /\ totp'.confirmed => totp.confirmed \/ totp.secret # 0
      BY <1>4 DEF Confirm
    <2>3. /\ confirming' \in [Tab -> 0 .. MaxSecrets]
          /\ \A u \in Tab : confirming'[u] # 0 => confirming[u] # 0
      BY <1>4 DEF Confirm
    <2>4. UNCHANGED <<secrets, login, shown, swapped>>
      BY <1>4 DEF Confirm
    <2> QED
      BY <2>1, <2>2, <2>3, <2>4
  <1>5. ASSUME NEW t \in Tab, ConfirmDies(t) PROVE TotpInv'
    BY <1>5 DEF ConfirmDies
  <1>6. ASSUME NEW l \in Login, CheckEnrolled(l) PROVE TotpInv'
    BY <1>6 DEF CheckEnrolled
  <1>7. ASSUME NEW l \in Login, VerifyCode(l) PROVE TotpInv'
    BY <1>7 DEF VerifyCode, Confirmed, NoLogin
  <1>8. ASSUME NEW l \in Login, EnterWithout(l) PROVE TotpInv'
    BY <1>8 DEF EnterWithout
  <1>9. ASSUME NEW l \in Login, EndLogin(l) PROVE TotpInv'
    BY <1>9 DEF EndLogin, NoLogin
  <1>10. CASE UNCHANGED totpVars
    BY <1>10 DEF totpVars
  <1> QED
    BY <1>1, <1>2, <1>3, <1>4, <1>5, <1>6, <1>7, <1>8, <1>9, <1>10 DEF TotpNext

LEMMA TotpInvariance == TotpSpec => []TotpInv
  BY TotpInvInit, TotpInvStep, PTL DEF TotpSpec

\* The row, the confirmations and the sign-ins keep their types.
THEOREM TotpTypeCorrect == TotpSpec => []TotpTypeOK
  <1>1. TotpInv => TotpTypeOK
    BY DEF TotpInv
  <1> QED
    BY <1>1, TotpInvariance, PTL

\* However many tabs restart and confirm an enrolment, the secret of an active
\* one was proved, or was stored while another was being confirmed.
THEOREM ConfirmedWasShownHolds == TotpSpec => []ConfirmedWasShown
  <1>1. TotpInv => ConfirmedWasShown
    BY DEF TotpInv
  <1> QED
    BY <1>1, TotpInvariance, PTL

\* No code of a secret that is only pending lets a sign-in in.
THEOREM SignInCodesWereShownHolds == TotpSpec => []SignInCodesWereShown
  <1>1. TotpInv => SignInCodesWereShown
    BY DEF TotpInv
  <1> QED
    BY <1>1, TotpInvariance, PTL

-----------------------------------------------------------------------------
(* Proofs about Administrators for any persons, actions and interval.      *)
(* AdminsInv says what keeps an administrator: a removal that has met no   *)
(* other is the only one, and somebody else is left.  ClaimsInv compares   *)
(* two clocks: a claim that was true when it was read is at least as old   *)
(* as the loss of the rank, or as the end of a sign-in that had read it    *)
(* before; and a sign-in under way that read it, and was not overtaken,    *)
(* read what is still so.                                                  *)

ActionRow == [pc : {"idle", "promote", "count", "demote", "delete"},
              by : {"nobody", "demote", "delete"}, actor : Person \cup {"nobody"},
              target : Person \cup {"nobody"}, alone : BOOLEAN]

VisitRow == [by : Person \cup {"nobody"}, admin : BOOLEAN, overtaken : BOOLEAN]

SomeoneElse(u) == \E w \in AdminsNow : w # u

AdminsInv ==
    /\ rank \in [Person -> {"admin", "plain", "gone"}]
    /\ action \in [Action -> ActionRow]
    /\ \A a \in Action : action[a].pc # "idle" => action[a].target \in Person
    /\ \A a \in Action : action[a].pc = "count" => action[a].by # "nobody"
    /\ \A a, b \in Removing : a # b => ~ action[a].alone
    /\ ~ collided => /\ AdminsNow # {}
                     /\ \A a \in Removing : action[a].alone /\ action[a].pc # "count" =>
                           SomeoneElse(action[a].target)

ClaimsInv ==
    /\ age \in [Person -> 0 .. Interval] /\ lost \in [Person -> 0 .. Interval]
    /\ claim \in [Person -> BOOLEAN] /\ blind \in SUBSET Person
    /\ visit \in [Visit -> VisitRow]
    /\ \A v \in Visit : visit[v].by \in Person /\ visit[v].admin /\ ~ visit[v].overtaken =>
          rank[visit[v].by] = "admin"
    /\ \A u \in Person : claim[u] /\ rank[u] # "admin" /\ u \notin blind => lost[u] <= age[u]

LEMMA NoActionType == NoAction \in ActionRow /\ NoAction.pc = "idle"
  BY DEF NoAction, ActionRow

LEMMA NoVisitType == NoVisit \in VisitRow /\ NoVisit.admin = FALSE
  BY DEF NoVisit, VisitRow

\* Whoever is counted besides the one to be removed is somebody else.
LEMMA CountedOthers ==
    ASSUME NEW u, OthersAreLeft(Cardinality(AdminsNow))
    PROVE  SomeoneElse(u)
  <1> SUFFICES ASSUME \A w \in AdminsNow : w = u PROVE FALSE
    BY DEF SomeoneElse
  <1>1. AdminsNow \in SUBSET {u}
    OBVIOUS
  <1>2. IsFiniteSet({u}) /\ Cardinality({u}) = 1
    BY FS_Singleton
  <1>3. Cardinality(AdminsNow) \in Nat /\ Cardinality(AdminsNow) <= 1
    BY <1>1, <1>2, FS_Subset, FS_CardinalityType
  <1> QED
    BY <1>3 DEF OthersAreLeft

LEMMA AdminsInvInit == AdminsInit => AdminsInv /\ ClaimsInv
  <1> SUFFICES ASSUME AdminsInit PROVE AdminsInv /\ ClaimsInv
    OBVIOUS
  <1>1. Removing = {}
    BY NoActionType DEF AdminsInit, Removing
  <1>2. AdminsInv
    BY <1>1, NoActionType DEF AdminsInit, AdminsInv
  <1>3. ClaimsInv
    BY IntervalAssumption, NoVisitType DEF AdminsInit, ClaimsInv
  <1> QED
    BY <1>2, <1>3

\* An action that begins to promote, or ends.
LEMMA ActionBecomes ==
    ASSUME AdminsInv, NEW a \in Action, NEW new \in ActionRow,
           action' = [action EXCEPT ![a] = new], new.pc \in {"idle", "promote"},
           new.pc = "promote" => new.target \in Person, UNCHANGED <<rank, collided>>
    PROVE  AdminsInv'
  <1>1. /\ action' \in [Action -> ActionRow] /\ action'[a] = new
        /\ \A b \in Action \ {a} : action'[b] = action[b]
    BY DEF AdminsInv
  <1>2. Removing' = Removing \ {a}
    BY <1>1 DEF Removing
  <1>3. \A b \in Removing' : b \in Removing /\ action'[b] = action[b]
    BY <1>1, <1>2 DEF Removing
  <1>4. \A b \in Action : /\ action'[b].pc # "idle" => action'[b].target \in Person
                          /\ action'[b].pc = "count" => action'[b].by # "nobody"
    BY <1>1 DEF AdminsInv
  <1> QED
    BY <1>1, <1>2, <1>3, <1>4 DEF AdminsInv, AdminsNow, SomeoneElse

\* A removal that begins: neither it nor those under way are alone any more.
LEMMA RemovalBegins ==
    ASSUME AdminsInv, NEW a \in Action, NEW u \in Person, NEW target \in Person,
           NEW by \in {"demote", "delete"}, action[a].pc = "idle",
           UNCHANGED <<rank, collided>>,
           action' = Started(a, [pc |-> IF rank[target] = "admin" THEN "count" ELSE by,
                                 by |-> IF rank[target] = "admin" THEN by ELSE "nobody",
                                 actor |-> u, target |-> target, alone |-> TRUE])
    PROVE  /\ AdminsInv' /\ action'[a].actor = u
           /\ \A b \in Action \ {a} : action'[b].pc = action[b].pc
  <1>1. PICK new : new = [pc |-> IF rank[target] = "admin" THEN "count" ELSE by,
                          by |-> IF rank[target] = "admin" THEN by ELSE "nobody",
                          actor |-> u, target |-> target, alone |-> Removing = {}]
    OBVIOUS
  <1>2. /\ new \in ActionRow /\ new.pc \in {"count", "demote", "delete"}
        /\ new.target = target /\ new.actor = u
        /\ new.pc = "count" => new.by # "nobody"
        /\ new.pc # "count" => rank[target] # "admin"
        /\ new.alone => Removing = {}
    <2>1. CASE rank[target] = "admin"
      BY <1>1, <2>1 DEF ActionRow
    <2>2. CASE rank[target] # "admin"
      BY <1>1, <2>2 DEF ActionRow
    <2> QED
      BY <2>1, <2>2
  <1>3. action'[a] = new
    BY <1>1 DEF Started
  <1>4. \A b \in Action \ {a} :
          /\ action'[b] \in ActionRow /\ action'[b].pc = action[b].pc
          /\ action'[b].target = action[b].target /\ action'[b].by = action[b].by
          /\ action'[b].alone => action[b].alone /\ b \notin Removing
    <2> SUFFICES ASSUME NEW b \in Action \ {a}
                 PROVE  /\ action'[b] \in ActionRow /\ action'[b].pc = action[b].pc
                        /\ action'[b].target = action[b].target
                        /\ action'[b].by = action[b].by
                        /\ action'[b].alone => action[b].alone /\ b \notin Removing
      OBVIOUS
    <2>1. PICK x : x = action[b]
      OBVIOUS
    <2>2. PICK f : f = (x.alone /\ b \notin Removing)
      OBVIOUS
    <2>3. x \in ActionRow /\ f \in BOOLEAN
      BY <2>1, <2>2 DEF AdminsInv
    <2>4. action'[b] = [x EXCEPT !.alone = f]
      BY <2>1, <2>2 DEF Started
    <2> QED
      BY <2>1, <2>2, <2>3, <2>4 DEF ActionRow
  <1>5. action' \in [Action -> ActionRow]
    BY <1>2, <1>3, <1>4 DEF Started
  <1>6. Removing' = Removing \cup {a} /\ a \notin Removing
    BY <1>2, <1>3, <1>4 DEF Removing
  <1>7. \A b, c \in Removing' : b # c => ~ action'[b].alone
    <2> SUFFICES ASSUME NEW b \in Removing', NEW c \in Removing', b # c,
                        action'[b].alone
                 PROVE  FALSE
      OBVIOUS
    <2>1. CASE b = a
      <3>1. c \in Removing
        BY <1>6, <2>1
      <3> QED
        BY <1>2, <1>3, <2>1, <3>1
    <2>2. CASE b # a
      <3>1. b \in Removing /\ b \in Action \ {a}
        BY <1>6, <2>2 DEF Removing
      <3> QED
        BY <1>4, <3>1
    <2> QED
      BY <2>1, <2>2
  <1>8. \A b \in Action : /\ action'[b].pc # "idle" => action'[b].target \in Person
                          /\ action'[b].pc = "count" => action'[b].by # "nobody"
    <2> SUFFICES ASSUME NEW b \in Action
                 PROVE  /\ action'[b].pc # "idle" => action'[b].target \in Person
                        /\ action'[b].pc = "count" => action'[b].by # "nobody"
      OBVIOUS
    <2>1. CASE b = a
      BY <1>2, <1>3, <2>1
    <2>2. CASE b # a
      <3>1. /\ action[b].pc # "idle" => action[b].target \in Person
            /\ action[b].pc = "count" => action[b].by # "nobody"
        BY DEF AdminsInv
      <3> QED
        BY <1>4, <2>2, <3>1
    <2> QED
      BY <2>1, <2>2
  <1>9. ASSUME ~ collided'
        PROVE  /\ AdminsNow' # {}
               /\ \A b \in Removing' : action'[b].alone /\ action'[b].pc # "count" =>
                     \E w \in AdminsNow' : w # action'[b].target
    <2>1. AdminsNow' = AdminsNow /\ AdminsNow # {}
      BY <1>9 DEF AdminsInv, AdminsNow
    <2>2. \A b \in Removing' : action'[b].alone => b = a
      BY <1>4, <1>6 DEF Removing
    <2>3. rank[target] # "admin" => \E w \in AdminsNow : w # target
      BY <2>1 DEF AdminsNow
    <2>4. action'[a].pc # "count" => \E w \in AdminsNow' : w # action'[a].target
      BY <1>2, <1>3, <2>1, <2>3
    <2> QED
      BY <2>1, <2>2, <2>4
  <1>10. AdminsInv'
    BY <1>5, <1>7, <1>8, <1>9, Zenon DEF AdminsInv, SomeoneElse
  <1> QED
    BY <1>2, <1>3, <1>4, <1>10

LEMMA CountAdminsStep ==
    ASSUME AdminsInv, NEW a \in Action, CountAdmins(a)
    PROVE  AdminsInv'
  <1>1. /\ action[a] \in ActionRow /\ action[a].pc = "count" /\ action[a].by # "nobody"
        /\ action[a].target \in Person /\ a \in Removing
        /\ UNCHANGED <<rank, collided>>
    BY DEF CountAdmins, AdminsInv, Removing
  <1>2. CASE OthersAreLeft(Cardinality(AdminsNow))
    <2>1. PICK new : new = [action[a] EXCEPT !.pc = action[a].by, !.by = "nobody"]
      OBVIOUS
    <2>2. action' = [action EXCEPT ![a] = new]
      BY <1>2, <2>1 DEF CountAdmins
    <2>3. /\ new \in ActionRow /\ new.pc \in {"demote", "delete"}
          /\ new.target = action[a].target /\ new.alone = action[a].alone
      BY <1>1, <2>1 DEF ActionRow
    <2>4. /\ action' \in [Action -> ActionRow] /\ action'[a] = new
          /\ \A b \in Action \ {a} : action'[b] = action[b]
      BY <2>2, <2>3 DEF AdminsInv
    <2>5. Removing' = Removing
      BY <1>1, <2>3, <2>4 DEF Removing
    <2>6. \A b, c \in Removing' : b # c => ~ action'[b].alone
      BY <2>3, <2>4, <2>5 DEF AdminsInv, Removing
    <2>7. SomeoneElse(new.target)
      BY <1>2, CountedOthers
    <2>8. \A b \in Action : /\ action'[b].pc # "idle" => action'[b].target \in Person
                            /\ action'[b].pc = "count" => action'[b].by # "nobody"
      BY <1>1, <2>3, <2>4 DEF AdminsInv
    <2>9. ~ collided' => \A b \in Removing' : action'[b].alone /\ action'[b].pc # "count" =>
                            \E w \in AdminsNow : w # action'[b].target
      BY <1>1, <2>4, <2>5, <2>7 DEF AdminsInv, SomeoneElse, Removing
    <2>10. AdminsNow' = AdminsNow
      BY <1>1 DEF AdminsNow
    <2> QED
      BY <1>1, <2>4, <2>6, <2>8, <2>9, <2>10 DEF AdminsInv, SomeoneElse
  <1>3. CASE ~ OthersAreLeft(Cardinality(AdminsNow))
    BY <1>1, <1>3, NoActionType, ActionBecomes DEF CountAdmins
  <1> QED
    BY <1>2, <1>3

\* The write of a removal that was alone leaves the other administrator; any
\* other one is recorded.
LEMMA WriteRankStep ==
    ASSUME AdminsInv, NEW a \in Action, WriteRank(a)
    PROVE  AdminsInv'
  <1> DEFINE u == action[a].target
  <1>1. /\ action[a] \in ActionRow /\ action[a].pc \in {"promote", "demote", "delete"}
        /\ u \in Person /\ rank \in [Person -> {"admin", "plain", "gone"}]
        /\ action' = [action EXCEPT ![a] = NoAction]
        /\ collided' = (collided \/ (a \in Removing /\ ~ action[a].alone))
    BY DEF WriteRank, AdminsInv
  <1>2. /\ rank' \in [Person -> {"admin", "plain", "gone"}]
        /\ \A w \in Person \ {u} : rank'[w] = rank[w]
        /\ action[a].pc = "promote" /\ rank[u] = "admin" => rank'[u] = "admin"
    BY <1>1 DEF WriteRank
  <1>3. /\ action' \in [Action -> ActionRow] /\ action'[a].pc = "idle"
        /\ \A b \in Action \ {a} : action'[b] = action[b]
    BY <1>1, NoActionType DEF AdminsInv
  <1>4. Removing' = Removing \ {a}
    BY <1>3 DEF Removing
  <1>5. \A b \in Removing' : b \in Removing /\ b # a /\ action'[b] = action[b]
    BY <1>3, <1>4 DEF Removing
  <1>6. \A b \in Action : /\ action'[b].pc # "idle" => action'[b].target \in Person
                          /\ action'[b].pc = "count" => action'[b].by # "nobody"
    BY <1>3 DEF AdminsInv
  <1>7. ASSUME ~ collided'
        PROVE  /\ AdminsNow' # {}
               /\ \A b \in Removing' : action'[b].alone /\ action'[b].pc # "count" =>
                     \E w \in AdminsNow' : w # action'[b].target
    <2>1. ~ collided
      BY <1>1, <1>7
    <2>2. CASE a \in Removing
      <3>1. action[a].alone
        BY <1>1, <1>7, <2>2
      <3>2. PICK w \in AdminsNow : w # u
        BY <1>1, <2>1, <2>2, <3>1 DEF AdminsInv, SomeoneElse
      <3>3. w \in AdminsNow'
        BY <1>2, <3>2 DEF AdminsNow
      <3>4. Removing' = {}
        BY <1>4, <1>5, <2>2, <3>1 DEF AdminsInv
      <3> QED
        BY <3>3, <3>4
    <2>3. CASE a \notin Removing
      <3>1. action[a].pc = "promote"
        BY <1>1, <2>3 DEF Removing
      <3>2. AdminsNow \subseteq AdminsNow'
        BY <1>2, <3>1 DEF AdminsNow
      <3> QED
        BY <1>5, <2>1, <3>2 DEF AdminsInv, SomeoneElse
    <2> QED
      BY <2>2, <2>3
  <1>8. \A b, c \in Removing' : b # c => ~ action'[b].alone
    BY <1>5 DEF AdminsInv
  <1> QED
    BY <1>2, <1>3, <1>6, <1>7, <1>8, Zenon DEF AdminsInv, SomeoneElse

\* What the claim of a user allows, and what becomes of it.
LEMMA ClaimStep ==
    ASSUME AdminsInv, ClaimsInv, NEW u \in Person, NEW ACTION Begin, WithClaim(u, Begin),
           UNCHANGED <<rank, visit, lost>>
    PROVE  /\ ClaimsInv'
           /\ \/ UNCHANGED action
              \/ Begin /\ (rank[u] = "admin" \/ lost[u] < Interval \/ u \in blind')
  <1>1. PICK c \in ClaimOutcomes(u) :
          /\ claim' = [claim EXCEPT ![u] = c.kept]
          /\ age' = [age EXCEPT ![u] = c.age]
          /\ blind' = IF c.seen THEN blind ELSE blind \cup {u}
          /\ IF c.now THEN Begin ELSE UNCHANGED action
    BY DEF WithClaim
  <1>2. PICK fresh : fresh = (rank[u] = "admin")
    OBVIOUS
  <1>3. fresh \in BOOLEAN /\ claim[u] \in BOOLEAN /\ age[u] \in 0 .. Interval
        /\ lost[u] \in 0 .. Interval /\ Interval \in Nat \ {0}
    BY <1>2, IntervalAssumption DEF ClaimsInv
  <1>4. \/ ~ Stale(age[u]) /\ c.now = claim[u] /\ c.kept = claim[u] /\ c.age = age[u] /\ c.seen = TRUE
        \/ Stale(age[u]) /\ c.now = fresh /\ c.kept = fresh /\ c.age = 0 /\ c.seen = TRUE
        \/ Stale(age[u]) /\ c.now = fresh /\ c.kept = claim[u] /\ c.age = age[u] /\ c.seen = TRUE
        \/ Stale(age[u]) /\ c.now = claim[u] /\ c.kept = claim[u] /\ c.age = age[u] /\ c.seen = FALSE
    <2>1. PICK m : m = claim[u]
      OBVIOUS
    <2>2. \/ ~ Stale(age[u]) /\ c = [now |-> m, kept |-> m, age |-> age[u], seen |-> TRUE]
          \/ Stale(age[u]) /\ c = [now |-> fresh, kept |-> fresh, age |-> 0, seen |-> TRUE]
          \/ Stale(age[u]) /\ c = [now |-> fresh, kept |-> m, age |-> age[u], seen |-> TRUE]
          \/ Stale(age[u]) /\ c = [now |-> m, kept |-> m, age |-> age[u], seen |-> FALSE]
      BY <1>2, <2>1 DEF ClaimOutcomes
    <2> QED
      BY <2>1, <2>2
  <1>5. /\ c.kept \in BOOLEAN /\ c.age \in 0 .. Interval
        /\ (c.kept = claim[u] /\ c.age = age[u]) \/ (c.kept => rank[u] = "admin")
    <2>1. 0 \in 0 .. Interval
      BY <1>3
    <2>2. c.kept \in {claim[u], fresh} /\ c.age \in {0, age[u]}
      BY <1>4, Zenon
    <2>3. (c.kept = claim[u] /\ c.age = age[u]) \/ c.kept = fresh
      BY <1>4, Zenon
    <2>4. fresh => rank[u] = "admin"
      BY <1>2
    <2> QED
      BY <1>3, <2>1, <2>2, <2>3, <2>4, Zenon
  <1>6. /\ c.now /\ c.seen => rank[u] = "admin" \/ (claim[u] /\ ~ Stale(age[u]))
        /\ c.seen => blind' = blind
        /\ ~ c.seen => blind' = blind \cup {u}
    <2>1. fresh => rank[u] = "admin"
      BY <1>2
    <2>2. blind' = IF c.seen THEN blind ELSE blind \cup {u}
      BY <1>1
    <2>3. (c.seen = TRUE \/ c.seen = FALSE)
      BY <1>4, Zenon
    <2>4. c.now /\ c.seen = TRUE => rank[u] = "admin" \/ (claim[u] /\ ~ Stale(age[u]))
      BY <1>4, <2>1, Zenon
    <2> QED
      BY <2>2, <2>3, <2>4
  <1>7. /\ claim' \in [Person -> BOOLEAN] /\ age' \in [Person -> 0 .. Interval]
        /\ claim'[u] = c.kept /\ age'[u] = c.age
        /\ \A w \in Person \ {u} : claim'[w] = claim[w] /\ age'[w] = age[w]
    BY <1>1, <1>5 DEF ClaimsInv
  <1>8. blind' \in SUBSET Person /\ blind \subseteq blind'
    BY <1>1 DEF ClaimsInv
  <1>9. \A w \in Person : claim'[w] /\ rank[w] # "admin" /\ w \notin blind' => lost[w] <= age'[w]
    BY <1>5, <1>7, <1>8 DEF ClaimsInv
  <1>10. ClaimsInv'
    BY <1>7, <1>8, <1>9 DEF ClaimsInv
  <1>11. CASE c.now
    <2>1. rank[u] = "admin" \/ lost[u] < Interval \/ u \in blind'
      <3>1. CASE ~ c.seen
        BY <1>6, <3>1
      <3>2. CASE c.seen /\ claim[u] /\ ~ Stale(age[u])
        <4>1. rank[u] = "admin" \/ u \in blind \/ lost[u] <= age[u]
          BY <3>2 DEF ClaimsInv
        <4> QED
          BY <1>3, <1>6, <3>2, <4>1 DEF Stale
      <3> QED
        BY <1>6, <1>11, <3>1, <3>2
    <2> QED
      BY <1>1, <1>10, <1>11, <2>1
  <1> QED
    BY <1>1, <1>10, <1>11

\* What begins, begins with the right to.
BegunRightly ==
    \A a \in Action : action[a].pc = "idle" /\ action'[a].pc # "idle" =>
        LET u == action'[a].actor IN
        rank[u] = "admin" \/ lost[u] < Interval \/ u \in blind'

LEMMA BeginsStep ==
    ASSUME AdminsInv, ClaimsInv, NEW a \in Action, NEW u \in Person, NEW target \in Person,
           BeginPromote(a, u, target) \/ \E by \in {"demote", "delete"} :
                                            BeginRemoval(a, u, target, by)
    PROVE  AdminsInv' /\ ClaimsInv' /\ BegunRightly
  <1>1. ASSUME UNCHANGED <<rank, action, collided>> PROVE AdminsInv' /\ BegunRightly
    BY <1>1 DEF AdminsInv, BegunRightly, Removing, AdminsNow, SomeoneElse
  <1>2. CASE BeginPromote(a, u, target)
    <2>1. PICK new : new = [NoAction EXCEPT !.pc = "promote", !.actor = u, !.target = target]
      OBVIOUS
    <2>2. new \in ActionRow /\ new.pc = "promote" /\ new.actor = u /\ new.target = target
      BY <2>1, NoActionType DEF ActionRow
    <2>3. /\ WithClaim(u, action' = [action EXCEPT ![a] = new])
          /\ UNCHANGED <<rank, visit, lost, collided>>
      BY <1>2, <2>1 DEF BeginPromote
    <2>4. ClaimsInv'
      BY <2>3, ClaimStep
    <2>5. CASE UNCHANGED action
      BY <1>1, <2>3, <2>4, <2>5
    <2>6. CASE /\ action' = [action EXCEPT ![a] = new]
               /\ rank[u] = "admin" \/ lost[u] < Interval \/ u \in blind'
      <3>1. AdminsInv'
        BY <2>2, <2>3, <2>6, ActionBecomes
      <3>2. BegunRightly
        BY <2>2, <2>6 DEF BegunRightly, AdminsInv
      <3> QED
        BY <2>4, <3>1, <3>2
    <2> QED
      BY <2>3, <2>5, <2>6, ClaimStep
  <1>3. ASSUME NEW by \in {"demote", "delete"}, BeginRemoval(a, u, target, by)
        PROVE  AdminsInv' /\ ClaimsInv' /\ BegunRightly
    <2>1. PICK new : new = [pc |-> IF rank[target] = "admin" THEN "count" ELSE by,
                            by |-> IF rank[target] = "admin" THEN by ELSE "nobody",
                            actor |-> u, target |-> target, alone |-> TRUE]
      OBVIOUS
    <2>2. /\ WithClaim(u, action' = Started(a, new)) /\ action[a].pc = "idle"
          /\ UNCHANGED <<rank, visit, lost, collided>>
      BY <1>3, <2>1 DEF BeginRemoval
    <2>3. ClaimsInv'
      BY <2>2, ClaimStep
    <2>4. CASE UNCHANGED action
      BY <1>1, <2>2, <2>3, <2>4
    <2>5. CASE /\ action' = Started(a, new)
               /\ rank[u] = "admin" \/ lost[u] < Interval \/ u \in blind'
      <3>1. /\ AdminsInv' /\ action'[a].actor = u
            /\ \A b \in Action \ {a} : action'[b].pc = action[b].pc
        BY <2>1, <2>2, <2>5, RemovalBegins
      <3>2. BegunRightly
        BY <2>5, <3>1 DEF BegunRightly
      <3> QED
        BY <2>3, <3>1, <3>2
    <2> QED
      BY <2>2, <2>4, <2>5, ClaimStep
  <1> QED
    BY <1>2, <1>3

\* The sign-ins that a loss of the rank has overtaken, and no others.
LEMMA OvertakenType ==
    ASSUME ClaimsInv, NEW u \in Person
    PROVE  /\ Overtaken(u) \in [Visit -> VisitRow]
           /\ \A v \in Visit : /\ Overtaken(u)[v].by = visit[v].by
                               /\ Overtaken(u)[v].admin = visit[v].admin
                               /\ Overtaken(u)[v].by \in Person /\ Overtaken(u)[v].admin
                                     /\ ~ Overtaken(u)[v].overtaken =>
                                  visit[v].by # u /\ rank[visit[v].by] = "admin"
  <1> SUFFICES ASSUME NEW v \in Visit
               PROVE  /\ Overtaken(u)[v] \in VisitRow
                      /\ Overtaken(u)[v].by = visit[v].by
                      /\ Overtaken(u)[v].admin = visit[v].admin
                      /\ Overtaken(u)[v].by \in Person /\ Overtaken(u)[v].admin
                            /\ ~ Overtaken(u)[v].overtaken =>
                         visit[v].by # u /\ rank[visit[v].by] = "admin"
    BY DEF Overtaken
  <1>1. PICK x : x = visit[v]
    OBVIOUS
  <1>2. PICK f : f = (x.overtaken \/ (x.by = u /\ x.admin))
    OBVIOUS
  <1>3. x \in VisitRow /\ f \in BOOLEAN
    BY <1>1, <1>2 DEF ClaimsInv
  <1>4. Overtaken(u)[v] = [x EXCEPT !.overtaken = f]
    BY <1>1, <1>2 DEF Overtaken
  <1>5. x.by \in Person /\ x.admin /\ ~ f => x.by # u /\ rank[x.by] = "admin"
    BY <1>1, <1>2 DEF ClaimsInv
  <1> QED
    BY <1>1, <1>3, <1>4, <1>5 DEF VisitRow

\* A sign-in that begins, fails or ends.  One that had read the rank before it
\* was lost starts both clocks anew.
LEMMA VisitStep ==
    ASSUME AdminsInv, ClaimsInv, NEW v \in Visit,
           (\E u \in Person : BeginSignIn(v, u)) \/ EndSignIn(v) \/ SignInFails(v)
    PROVE  ClaimsInv'
  <1>1. ASSUME NEW new \in VisitRow, visit' = [visit EXCEPT ![v] = new]
        PROVE  /\ visit' \in [Visit -> VisitRow] /\ visit'[v] = new
               /\ \A w \in Visit \ {v} : visit'[w] = visit[w]
    BY <1>1 DEF ClaimsInv
  <1>2. ASSUME NEW u \in Person, BeginSignIn(v, u) PROVE ClaimsInv'
    <2>1. PICK now : now = (rank[u] = "admin")
      OBVIOUS
    <2>2. now \in BOOLEAN /\ (now => rank[u] = "admin")
      BY <2>1
    <2>3. PICK new : new = [by |-> u, admin |-> now, overtaken |-> FALSE]
      OBVIOUS
    <2>4. new \in VisitRow /\ new.by = u /\ new.admin = now
      BY <2>2, <2>3 DEF VisitRow
    <2>5. visit' = [visit EXCEPT ![v] = new]
      BY <1>2, <2>1, <2>3 DEF BeginSignIn
    <2>6. UNCHANGED <<rank, claim, age, lost, blind>>
      BY <1>2 DEF BeginSignIn
    <2> QED
      BY <1>1, <2>2, <2>4, <2>5, <2>6 DEF ClaimsInv
  <1>3. CASE SignInFails(v)
    BY <1>1, <1>3, NoVisitType DEF SignInFails, ClaimsInv
  <1>4. CASE EndSignIn(v)
    <2>1. PICK x : x = visit[v]
      OBVIOUS
    <2>2. x \in VisitRow /\ x.by \in Person /\ x.admin \in BOOLEAN /\ x.overtaken \in BOOLEAN
      BY <1>4, <2>1 DEF EndSignIn, ClaimsInv, VisitRow
    <2>3. x.admin /\ ~ x.overtaken => rank[x.by] = "admin"
      BY <2>1, <2>2 DEF ClaimsInv
    <2>4. /\ claim' = [claim EXCEPT ![x.by] = x.admin]
          /\ age' = [age EXCEPT ![x.by] = 0]
          /\ lost' = IF x.overtaken THEN [lost EXCEPT ![x.by] = 0] ELSE lost
          /\ visit' = [visit EXCEPT ![v] = NoVisit] /\ UNCHANGED <<rank, blind>>
      BY <1>4, <2>1 DEF EndSignIn
    <2>5. /\ claim' \in [Person -> BOOLEAN] /\ age' \in [Person -> 0 .. Interval]
          /\ lost' \in [Person -> 0 .. Interval]
          /\ claim'[x.by] = x.admin /\ age'[x.by] = 0
          /\ x.overtaken => lost'[x.by] = 0
          /\ \A w \in Person \ {x.by} :
                claim'[w] = claim[w] /\ age'[w] = age[w] /\ lost'[w] = lost[w]
      BY <2>2, <2>4, IntervalAssumption DEF ClaimsInv
    <2>6. /\ visit' \in [Visit -> VisitRow]
          /\ \A w \in Visit : visit'[w].by \in Person /\ visit'[w].admin
                                  /\ ~ visit'[w].overtaken => rank[visit'[w].by] = "admin"
      BY <1>1, <2>4, NoVisitType DEF ClaimsInv
    <2>7. \A w \in Person : claim'[w] /\ rank[w] # "admin" /\ w \notin blind => lost'[w] <= age'[w]
      BY <2>2, <2>3, <2>5 DEF ClaimsInv
    <2> QED
      BY <2>4, <2>5, <2>6, <2>7 DEF ClaimsInv
  <1> QED
    BY <1>2, <1>3, <1>4

LEMMA AdminsInvStep ==
    ASSUME AdminsInv, ClaimsInv, [AdminsNext]_adminVars
    PROVE  AdminsInv' /\ ClaimsInv' /\ BegunRightly
  <1>1. ASSUME UNCHANGED <<rank, action, collided>> PROVE AdminsInv' /\ BegunRightly
    BY <1>1 DEF AdminsInv, BegunRightly, Removing, AdminsNow, SomeoneElse
  <1>2. ASSUME UNCHANGED <<rank, claim, age, visit, lost, blind>> PROVE ClaimsInv'
    BY <1>2 DEF ClaimsInv
  <1>3. ASSUME NEW v \in Visit,
               (\E u \in Person : BeginSignIn(v, u)) \/ EndSignIn(v) \/ SignInFails(v)
        PROVE  ClaimsInv'
    BY <1>3, VisitStep
  <1>4. ASSUME Tick PROVE ClaimsInv'
    BY <1>4, IntervalAssumption DEF Tick, ClaimsInv
  <1>5. ASSUME NEW a \in Action, CountAdmins(a) PROVE BegunRightly
    BY <1>5 DEF CountAdmins, BegunRightly
  <1>6. ASSUME NEW a \in Action, WriteRank(a) PROVE ClaimsInv' /\ BegunRightly
    <2>1. BegunRightly
      BY <1>6 DEF WriteRank, BegunRightly
    <2>2. /\ action[a].target \in Person /\ rank \in [Person -> {"admin", "plain", "gone"}]
      BY <1>6 DEF WriteRank, AdminsInv
    <2>3. \/ /\ lost' = lost /\ blind' = blind /\ visit' = visit
             /\ \A w \in Person : rank'[w] # "admin" => rank[w] # "admin"
          \/ /\ lost' = [lost EXCEPT ![action[a].target] = 0]
             /\ blind' = blind \ {action[a].target}
             /\ visit' = Overtaken(action[a].target)
             /\ \A w \in Person \ {action[a].target} : rank'[w] = rank[w]
      BY <1>6, <2>2 DEF WriteRank
    <2>4. /\ age' \in [Person -> 0 .. Interval] /\ lost' \in [Person -> 0 .. Interval]
          /\ claim' \in [Person -> BOOLEAN] /\ blind' \in SUBSET Person
          /\ \A w \in Person : claim'[w] /\ rank'[w] # "admin" /\ w \notin blind' =>
                lost'[w] <= age'[w]
      BY <1>6, <2>2, <2>3, IntervalAssumption DEF WriteRank, ClaimsInv
    <2>5. /\ visit' \in [Visit -> VisitRow]
          /\ \A v \in Visit : visit'[v].by \in Person /\ visit'[v].admin
                                  /\ ~ visit'[v].overtaken => rank'[visit'[v].by] = "admin"
      <3>1. CASE visit' = visit /\ \A w \in Person : rank'[w] # "admin" => rank[w] # "admin"
        BY <3>1 DEF ClaimsInv
      <3>2. CASE /\ visit' = Overtaken(action[a].target)
                 /\ \A w \in Person \ {action[a].target} : rank'[w] = rank[w]
        BY <2>2, <3>2, OvertakenType
      <3> QED
        BY <2>3, <3>1, <3>2
    <2>6. ClaimsInv'
      BY <2>4, <2>5 DEF ClaimsInv
    <2> QED
      BY <2>1, <2>6
  <1>7. ASSUME NEW a \in Action, ActionDies(a) PROVE AdminsInv' /\ BegunRightly
    <2>1. AdminsInv'
      BY <1>7, NoActionType, ActionBecomes DEF ActionDies
    <2>2. BegunRightly
      BY <1>7 DEF ActionDies, BegunRightly
    <2> QED
      BY <2>1, <2>2
  <1>8. CASE UNCHANGED adminVars
    BY <1>1, <1>2, <1>8 DEF adminVars
  <1>9. ASSUME NEW v \in Visit,
               (\E u \in Person : BeginSignIn(v, u)) \/ EndSignIn(v) \/ SignInFails(v)
        PROVE  AdminsInv' /\ BegunRightly
    BY <1>1, <1>9 DEF BeginSignIn, EndSignIn, SignInFails
  <1>10. ASSUME Tick PROVE AdminsInv' /\ BegunRightly
    BY <1>1, <1>10 DEF Tick
  <1>11. ASSUME NEW a \in Action, CountAdmins(a) \/ ActionDies(a) PROVE ClaimsInv'
    BY <1>2, <1>11 DEF CountAdmins, ActionDies
  <1> QED
    BY <1>3, <1>4, <1>5, <1>6, <1>7, <1>8, <1>9, <1>10, <1>11, BeginsStep,
       CountAdminsStep, WriteRankStep DEF AdminsNext

\* AnAdministratorRemains (updateUser and deleteUser around countAdmins): for
\* any persons and actions, nobody is left to administer only after two
\* removals that overlapped.
THEOREM AnAdministratorRemainsHolds == AdminsSpec => []AnAdministratorRemains
  <1>1. AdminsInv /\ ClaimsInv /\ [AdminsNext]_adminVars => AdminsInv' /\ ClaimsInv'
    BY AdminsInvStep
  <1>2. AdminsInv => AnAdministratorRemains
    BY DEF AdminsInv, AnAdministratorRemains
  <1> QED
    BY <1>1, <1>2, AdminsInvInit, PTL DEF AdminsSpec

\* LostRankIsShort (refreshAdminClaim, and the claim that authorize reads and
\* jwt stamps): for any interval and sign-ins under way, a user who is no
\* administrator any more begins an action only within the interval of the loss
\* or of the end of a sign-in that had read the rank before, or when the rank
\* could not be read.
THEOREM LostRankIsShortHolds == AdminsSpec => LostRankIsShort
  <1>1. AdminsInv /\ ClaimsInv /\ [AdminsNext]_adminVars => AdminsInv' /\ ClaimsInv'
    BY AdminsInvStep
  <1>2. AdminsInv /\ ClaimsInv /\ [AdminsNext]_adminVars => [BegunRightly]_adminVars
    BY AdminsInvStep
  <1>3. [][BegunRightly]_adminVars => LostRankIsShort
    BY PTL DEF BegunRightly, LostRankIsShort
  <1> QED
    BY <1>1, <1>2, <1>3, AdminsInvInit, PTL DEF AdminsSpec

-----------------------------------------------------------------------------
(* Proofs about PasswordReset for any number of links, requests and        *)
(* changes.  Inductive with the two properties: a link that is over has a  *)
(* row that is consumed or deleted, which no statement undoes, and a       *)
(* sign-in that upgrades a hash has verified the password of number 0.     *)

ResetRow == [pc : {"idle", "insert", "mail", "write", "consume", "cancel", "drop", "rehash"},
             link : Link \cup {NoLink}, read : Nat]

LinksInv ==
    /\ links \in [Link -> {"none", "pending", "lapsed", "consumed", "deleted"}]
    /\ over \in [Link -> {"no", "purged", "used", "cancelled", "changed"}]
    /\ proc \in [Resetter -> ResetRow]
    /\ \A p \in Resetter : proc[p].pc \in {"mail", "write", "consume", "cancel"} =>
          proc[p].link \in Link /\ links[proc[p].link] # "none"
    /\ \A l \in Link : over[l] # "no" => links[l] \in {"consumed", "deleted"}

PasswordInv ==
    /\ pw \in [ver : Nat, legacy : BOOLEAN] /\ last \in Nat
    /\ pw.legacy => pw.ver = 0
    /\ \A p \in Resetter : proc[p].pc = "rehash" => proc[p].read = 0
    /\ OnlyLegacyRevives

LEMMA ResetInvInit == ResetInit => LinksInv /\ PasswordInv
  BY DEF ResetInit, LinksInv, PasswordInv, ResetRow, IdleProc, OnlyLegacyRevives

\* A statement that moves one request on and leaves the rows.
LEMMA ResetGoes ==
    ASSUME LinksInv, NEW p \in Resetter, NEW new \in ResetRow,
           proc' = [proc EXCEPT ![p] = new], UNCHANGED <<links, over>>,
           new.pc \in {"mail", "write", "consume", "cancel"} =>
               new.link \in Link /\ links[new.link] # "none"
    PROVE  LinksInv'
  BY DEF LinksInv

\* A statement that takes rows to where no statement takes them back.
LEMMA RowsSettle ==
    ASSUME LinksInv, NEW p \in Resetter, NEW new \in ResetRow, new.pc \in {"idle", "insert"},
           proc' = [proc EXCEPT ![p] = new],
           links' \in [Link -> {"none", "pending", "lapsed", "consumed", "deleted"}],
           over' \in [Link -> {"no", "purged", "used", "cancelled", "changed"}],
           \A l \in Link : \/ links'[l] = links[l]
                           \/ links[l] # "none" /\ links'[l] \in {"consumed", "deleted"},
           \A l \in Link : over'[l] = over[l] \/ links'[l] \in {"consumed", "deleted"}
    PROVE  LinksInv'
  BY DEF LinksInv

\* The two statements that delete every row of the kind.
LEMMA KindDeleted ==
    ASSUME LinksInv, NEW p \in Resetter, NEW why \in {"purged", "changed"},
           DeleteByUserIdAndKind, PutOver({l \in Link : links[l] # "none"}, why)
    PROVE  /\ links' \in [Link -> {"none", "pending", "lapsed", "consumed", "deleted"}]
           /\ over' \in [Link -> {"no", "purged", "used", "cancelled", "changed"}]
           /\ \A l \in Link : \/ links'[l] = links[l]
                              \/ links[l] # "none" /\ links'[l] \in {"consumed", "deleted"}
           /\ \A l \in Link : over'[l] = over[l] \/ links'[l] \in {"consumed", "deleted"}
  BY DEF LinksInv, DeleteByUserIdAndKind, RowsOfKind, PutOver

LEMMA LinksInvStep ==
    ASSUME LinksInv, PasswordInv, [ResetNext]_resetVars
    PROVE  LinksInv'
  <1> DEFINE Idle == [pc |-> "idle", link |-> NoLink, read |-> 0]
  <1>1. Idle \in ResetRow /\ Idle.pc = "idle"
    BY DEF ResetRow
  <1>2. ASSUME NEW p \in Resetter, PurgeLinks(p) \/ DropLinks(p) PROVE LinksInv'
    <2>1. PICK new \in ResetRow :
            new.pc \in {"idle", "insert"} /\ proc' = [proc EXCEPT ![p] = new]
      BY <1>2 DEF PurgeLinks, DropLinks, ResetGoto, End, ResetRow
    <2> QED
      BY <1>2, <2>1, KindDeleted, RowsSettle DEF PurgeLinks, DropLinks
  <1>3. ASSUME NEW p \in Resetter, InsertLink(p) PROVE LinksInv'
    <2>1. PICK l \in Link : /\ links[l] = "none" /\ links' = [links EXCEPT ![l] = "pending"]
                            /\ proc' = [proc EXCEPT ![p] = [pc |-> "mail", link |-> l, read |-> 0]]
      BY <1>3 DEF InsertLink, ResetGoto
    <2>2. over' = over
      BY <1>3 DEF InsertLink
    <2> QED
      BY <2>1, <2>2 DEF LinksInv, ResetRow
  <1>4. ASSUME NEW p \in Resetter, SendMail(p) \/ UpgradeHash(p) \/ ResetDies(p)
        PROVE  LinksInv'
    BY <1>1, <1>4, ResetGoes DEF SendMail, UpgradeHash, ResetDies, End, ResetGoto
  <1>5. ASSUME NEW p \in Resetter, NEW l \in Link, CheckLink(p, l) \/ CheckCancel(p, l)
        PROVE  LinksInv'
    <2>1. PICK new : /\ new = [pc |-> IF CheckLink(p, l) THEN "write" ELSE "cancel",
                               link |-> l, read |-> 0]
      OBVIOUS
    <2>2. new \in ResetRow /\ new.link = l /\ links[l] = "pending"
      BY <1>5, <2>1 DEF ResetRow, CheckLink, CheckCancel
    <2>3. proc' = [proc EXCEPT ![p] = new]
      BY <1>5, <2>1 DEF CheckLink, CheckCancel, ResetGoto
    <2> QED
      BY <1>5, <2>2, <2>3, ResetGoes DEF CheckLink, CheckCancel
  <1>6. ASSUME NEW p \in Resetter, WriteReset(p) PROVE LinksInv'
    <2>1. PICK new : new = [pc |-> "consume", link |-> proc[p].link, read |-> 0]
      OBVIOUS
    <2>2. proc[p].link \in Link /\ links[proc[p].link] # "none"
      BY <1>6 DEF WriteReset, LinksInv
    <2>3. new \in ResetRow /\ new.link = proc[p].link
      BY <2>1, <2>2 DEF ResetRow
    <2> QED
      BY <1>6, <2>1, <2>2, <2>3, ResetGoes DEF WriteReset, ResetGoto
  <1>7. ASSUME NEW p \in Resetter, MarkConsumed(p) \/ DeleteLink(p) PROVE LinksInv'
    <2>1. proc[p].link \in Link /\ links[proc[p].link] # "none"
      BY <1>7 DEF MarkConsumed, DeleteLink, LinksInv
    <2>2. /\ links' \in [Link -> {"none", "pending", "lapsed", "consumed", "deleted"}]
          /\ over' \in [Link -> {"no", "purged", "used", "cancelled", "changed"}]
          /\ \A l \in Link : \/ links'[l] = links[l]
                             \/ links[l] # "none" /\ links'[l] \in {"consumed", "deleted"}
          /\ \A l \in Link : over'[l] = over[l] \/ links'[l] \in {"consumed", "deleted"}
      BY <1>7, <2>1 DEF MarkConsumed, DeleteLink, PutOver, LinksInv
    <2>3. proc' = [proc EXCEPT ![p] = Idle]
      BY <1>7 DEF MarkConsumed, DeleteLink, End, ResetGoto
    <2> QED
      BY <1>1, <2>2, <2>3, RowsSettle
  <1>8. ASSUME NEW p \in Resetter, ChangePassword(p) PROVE LinksInv'
    <2>1. PICK new : new = [pc |-> "drop", link |-> NoLink, read |-> 0]
      OBVIOUS
    <2>2. new \in ResetRow /\ new.pc = "drop"
      BY <2>1 DEF ResetRow
    <2> QED
      BY <1>8, <2>1, <2>2, ResetGoes DEF ChangePassword, ResetGoto
  <1>9. ASSUME NEW p \in Resetter, VerifyPassword(p) PROVE LinksInv'
    <2>1. PICK new : new = [pc |-> "rehash", link |-> NoLink, read |-> pw.ver]
      OBVIOUS
    <2>2. new \in ResetRow /\ new.pc = "rehash"
      BY <2>1 DEF ResetRow, PasswordInv
    <2> QED
      BY <1>9, <2>1, <2>2, ResetGoes DEF VerifyPassword
  <1>10. ASSUME NEW l \in Link, LinkLapses(l) PROVE LinksInv'
    BY <1>10 DEF LinkLapses, LinksInv
  <1>11. CASE UNCHANGED resetVars
    BY <1>11 DEF resetVars, LinksInv
  <1> QED
    BY <1>2, <1>3, <1>4, <1>5, <1>6, <1>7, <1>8, <1>9, <1>10, <1>11 DEF ResetNext

LEMMA PasswordInvStep ==
    ASSUME LinksInv, PasswordInv, [ResetNext]_resetVars
    PROVE  PasswordInv'
  <1>1. ASSUME NEW p \in Resetter, NEW stage, NEW l, stage # "rehash", ResetGoto(p, stage, l)
        PROVE  \A q \in Resetter : proc'[q].pc = "rehash" => proc'[q].read = 0
    BY <1>1 DEF ResetGoto, LinksInv, PasswordInv
  <1>2. ASSUME NEW p \in Resetter, NEW stage, NEW l, stage # "rehash", ResetGoto(p, stage, l),
               UNCHANGED <<pw, last>>
        PROVE  PasswordInv'
    BY <1>1, <1>2 DEF PasswordInv, OnlyLegacyRevives
  <1>3. ASSUME NEW p \in Resetter, NEW stage, NEW l, stage # "rehash", ResetGoto(p, stage, l),
               SetPassword
        PROVE  PasswordInv'
    BY <1>1, <1>3 DEF SetPassword, PasswordInv, OnlyLegacyRevives
  <1>4. ASSUME NEW p \in Resetter, WriteReset(p) \/ ChangePassword(p) PROVE PasswordInv'
    BY <1>3, <1>4 DEF WriteReset, ChangePassword
  <1>5. ASSUME NEW p \in Resetter, VerifyPassword(p) PROVE PasswordInv'
    BY <1>5 DEF VerifyPassword, NeedsRehash, LinksInv, PasswordInv, OnlyLegacyRevives
  <1>6. ASSUME NEW p \in Resetter, UpgradeHash(p) PROVE PasswordInv'
    <2>1. proc[p].read = 0
      BY <1>6 DEF UpgradeHash, PasswordInv
    <2> QED
      BY <1>1, <1>6, <2>1 DEF UpgradeHash, End, PasswordInv, OnlyLegacyRevives
  <1>7. ASSUME NEW l \in Link, LinkLapses(l) PROVE PasswordInv'
    BY <1>7 DEF LinkLapses, PasswordInv, OnlyLegacyRevives
  <1>8. ASSUME NEW p \in Resetter,
               \/ PurgeLinks(p) \/ InsertLink(p) \/ SendMail(p) \/ MarkConsumed(p)
               \/ DeleteLink(p) \/ DropLinks(p) \/ ResetDies(p)
               \/ \E l \in Link : CheckLink(p, l) \/ CheckCancel(p, l)
        PROVE  PasswordInv'
    <2>1. UNCHANGED <<pw, last>>
      BY <1>8 DEF PurgeLinks, InsertLink, SendMail, MarkConsumed, DeleteLink, DropLinks,
                  ResetDies, CheckLink, CheckCancel
    <2>2. \E stage, l : stage # "rehash" /\ ResetGoto(p, stage, l)
      BY <1>8 DEF PurgeLinks, InsertLink, SendMail, MarkConsumed, DeleteLink, DropLinks,
                  ResetDies, CheckLink, CheckCancel, End
    <2> QED
      BY <1>2, <2>1, <2>2
  <1>9. CASE UNCHANGED resetVars
    BY <1>9 DEF resetVars, PasswordInv, OnlyLegacyRevives
  <1> QED
    BY <1>4, <1>5, <1>6, <1>7, <1>8, <1>9 DEF ResetNext

\* OnlyLegacyRevives (sign-in's upgrade of a hash around the writes of
\* password_hash): for any number of sign-ins, resets and changes, a password
\* that was replaced comes back only if it was the legacy one.
THEOREM OnlyLegacyRevivesHolds == ResetSpec => []OnlyLegacyRevives
  <1>1. PasswordInv => OnlyLegacyRevives
    BY DEF PasswordInv
  <1> QED
    BY <1>1, ResetInvInit, LinksInvStep, PasswordInvStep, PTL DEF ResetSpec

\* SpentLinkRefused (checkActiveChallenge around markConsumed and the two
\* deletions): for any number of links and requests, a link that is over is
\* never accepted again.
THEOREM SpentLinkRefusedHolds == ResetSpec => SpentLinkRefused
  <1> DEFINE Refused == \A p \in Resetter, l \in Link : CheckLink(p, l) => over[l] = "no"
  <1>1. LinksInv => Refused
    BY DEF LinksInv, CheckLink
  <1>2. LinksInv /\ [ResetNext]_resetVars => [Refused]_resetVars
    BY <1>1
  <1> QED
    BY <1>2, ResetInvInit, LinksInvStep, PasswordInvStep, PTL DEF ResetSpec, SpentLinkRefused

\* OutstandingBounded is inductive as it stands: a purge leaves no link, and
\* each request inserts one.
Inserters == {p \in Resetter : proc[p].pc = "insert"}

OutstandingInv ==
    /\ IsFiniteSet(Outstanding)
    /\ Cardinality(Outstanding) + Cardinality(Inserters) <= Cardinality(Resetter)

LEMMA InsertersCount ==
    ASSUME NEW S \in SUBSET Resetter
    PROVE  /\ IsFiniteSet(S) /\ Cardinality(S) \in Nat /\ Cardinality(Resetter) \in Nat
           /\ Cardinality(S) <= Cardinality(Resetter)
  BY ResetterAssumption, FS_Subset, FS_CardinalityType

LEMMA OutstandingInvInit == ResetInit => OutstandingInv
  <1> SUFFICES ASSUME ResetInit PROVE OutstandingInv
    OBVIOUS
  <1>1. Outstanding = {} /\ Inserters = {}
    BY DEF ResetInit, Outstanding, Inserters, IdleProc
  <1>2. IsFiniteSet({}) /\ Cardinality({}) = 0 /\ Cardinality(Resetter) \in Nat
    BY FS_EmptySet, InsertersCount
  <1> QED
    BY <1>1, <1>2 DEF OutstandingInv

\* Fewer of both.
LEMMA FewerOutstanding ==
    ASSUME OutstandingInv, Outstanding' \subseteq Outstanding, Inserters' \subseteq Inserters
    PROVE  OutstandingInv'
  <1>1. Inserters \in SUBSET Resetter /\ Inserters' \in SUBSET Resetter
    BY DEF Inserters
  <1>2. /\ IsFiniteSet(Inserters) /\ Cardinality(Inserters) \in Nat
        /\ Cardinality(Inserters') \in Nat /\ Cardinality(Resetter) \in Nat
    BY <1>1, InsertersCount
  <1>3. Cardinality(Inserters') <= Cardinality(Inserters)
    BY <1>2, FS_Subset
  <1>4. /\ IsFiniteSet(Outstanding') /\ Cardinality(Outstanding') \in Nat
        /\ Cardinality(Outstanding) \in Nat
        /\ Cardinality(Outstanding') <= Cardinality(Outstanding)
    BY FS_Subset, FS_CardinalityType DEF OutstandingInv
  <1> QED
    BY <1>2, <1>3, <1>4 DEF OutstandingInv

LEMMA OutstandingInvStep ==
    ASSUME LinksInv, OutstandingInv, [ResetNext]_resetVars
    PROVE  OutstandingInv'
  <1>1. ASSUME NEW p \in Resetter, PurgeLinks(p) PROVE OutstandingInv'
    <2>1. Outstanding' = {}
      BY <1>1 DEF PurgeLinks, DeleteByUserIdAndKind, RowsOfKind, Outstanding, LinksInv
    <2>2. Inserters' \in SUBSET Resetter
      BY DEF Inserters
    <2>3. IsFiniteSet({}) /\ Cardinality({}) = 0
      BY FS_EmptySet
    <2> QED
      BY <2>1, <2>2, <2>3, InsertersCount DEF OutstandingInv
  <1>2. ASSUME NEW p \in Resetter, InsertLink(p) PROVE OutstandingInv'
    <2>1. PICK l \in Link : /\ links[l] = "none" /\ links' = [links EXCEPT ![l] = "pending"]
                            /\ proc' = [proc EXCEPT ![p] = [pc |-> "mail", link |-> l, read |-> 0]]
      BY <1>2 DEF InsertLink, ResetGoto
    <2>2. Outstanding' = Outstanding \cup {l} /\ l \notin Outstanding
      BY <2>1 DEF Outstanding, LinksInv
    <2>3. Inserters' = Inserters \ {p} /\ p \in Inserters
      BY <1>2, <2>1 DEF Inserters, InsertLink, LinksInv
    <2>4. Inserters \in SUBSET Resetter
      BY DEF Inserters
    <2>5. /\ IsFiniteSet(Outstanding') /\ Cardinality(Outstanding') = Cardinality(Outstanding) + 1
          /\ Cardinality(Outstanding) \in Nat
      BY <2>2, FS_AddElement, FS_CardinalityType DEF OutstandingInv
    <2>6. /\ Cardinality(Inserters') = Cardinality(Inserters) - 1
          /\ Cardinality(Inserters) \in Nat /\ Cardinality(Resetter) \in Nat
      BY <2>3, <2>4, InsertersCount, FS_RemoveElement
    <2> QED
      BY <2>5, <2>6 DEF OutstandingInv
  <1>4. ASSUME NEW p \in Resetter,
               SendMail(p) \/ WriteReset(p) \/ ChangePassword(p) \/ VerifyPassword(p)
                   \/ UpgradeHash(p) \/ ResetDies(p)
                   \/ \E l \in Link : CheckLink(p, l) \/ CheckCancel(p, l)
        PROVE  OutstandingInv'
    <2>1. Outstanding' = Outstanding
      BY <1>4 DEF SendMail, WriteReset, ChangePassword, VerifyPassword, UpgradeHash, ResetDies,
                  CheckLink, CheckCancel, Outstanding
    <2>2. PICK stage, l, n : stage # "insert"
                          /\ proc' = [proc EXCEPT ![p] = [pc |-> stage, link |-> l, read |-> n]]
      BY <1>4 DEF SendMail, WriteReset, ChangePassword, VerifyPassword, UpgradeHash, ResetDies,
                  CheckLink, CheckCancel, ResetGoto, End
    <2>3. \A q \in Resetter : proc'[q].pc = "insert" => proc[q].pc = "insert"
      BY <2>2 DEF LinksInv
    <2>4. Inserters' \subseteq Inserters
      BY <2>3 DEF Inserters
    <2> QED
      BY <2>1, <2>4, FewerOutstanding
  <1>5. ASSUME NEW p \in Resetter, MarkConsumed(p) \/ DeleteLink(p) \/ DropLinks(p)
        PROVE  OutstandingInv'
    <2>1. Outstanding' \subseteq Outstanding
      BY <1>5 DEF MarkConsumed, DeleteLink, DropLinks, DeleteByUserIdAndKind, RowsOfKind,
                  Outstanding, LinksInv
    <2>2. proc' = [proc EXCEPT ![p] = [pc |-> "idle", link |-> NoLink, read |-> 0]]
      BY <1>5 DEF MarkConsumed, DeleteLink, DropLinks, ResetGoto, End
    <2>3. \A q \in Resetter : proc'[q].pc = "insert" => proc[q].pc = "insert"
      BY <2>2 DEF LinksInv
    <2>4. Inserters' \subseteq Inserters
      BY <2>3 DEF Inserters
    <2> QED
      BY <2>1, <2>4, FewerOutstanding
  <1>6. ASSUME NEW l \in Link, LinkLapses(l) PROVE OutstandingInv'
    <2>1. Outstanding' = Outstanding /\ Inserters' = Inserters
      BY <1>6 DEF LinkLapses, Outstanding, Inserters, LinksInv
    <2> QED
      BY <2>1, FewerOutstanding
  <1>7. CASE UNCHANGED resetVars
    <2>1. Outstanding' = Outstanding /\ Inserters' = Inserters
      BY <1>7 DEF resetVars, Outstanding, Inserters
    <2> QED
      BY <2>1, FewerOutstanding
  <1> QED
    BY <1>1, <1>2, <1>4, <1>5, <1>6, <1>7 DEF ResetNext

\* OutstandingBounded (createPasswordResetChallenge's purge and insert): for any
\* number of links and requests, no more links are outstanding than requests
\* overlap.
THEOREM OutstandingBoundedHolds == ResetSpec => []OutstandingBounded
  <1>1. OutstandingInv => OutstandingBounded
    BY DEF OutstandingInv, OutstandingBounded, Inserters
  <1> QED
    BY <1>1, ResetInvInit, LinksInvStep, PasswordInvStep, OutstandingInvInit,
       OutstandingInvStep, PTL DEF ResetSpec

-----------------------------------------------------------------------------
(* Proofs about PasskeySignIn for any number of challenges, verifications  *)
(* and registrations.  Inductive with CounterIsHighest: a signature that   *)
(* is checked was made, is not made again, and advances the counter that   *)
(* was read with it; one that is written over the counter it read is       *)
(* therefore no lower.                                                     *)

VerifyRow == [pc : {"idle", "find", "count", "delete", "issue", "drop"},
              challenge : Challenge \cup {CHOOSE c \in Challenge : TRUE}, read : Nat]

CounterInv ==
    /\ credential \in [there : BOOLEAN, counter : Nat] /\ highest \in Nat
    /\ device \in [counts : BOOLEAN, counter : Nat]
    /\ challenge \in [Challenge -> [row : {"unused", "live", "lapsed", "gone"},
                                    use : {"sign-in", "availability"},
                                    signed : Nat, made : BOOLEAN]]
    /\ verify \in [Verifier -> VerifyRow]
    /\ \A v \in Verifier : verify[v].pc # "idle" =>
          verify[v].challenge \in Challenge /\ challenge[verify[v].challenge].made
    /\ \A v \in Verifier : verify[v].pc = "count" =>
          CounterAdvances(challenge[verify[v].challenge].signed, verify[v].read)
    /\ CounterIsHighest

LEMMA CounterInvInit == PasskeyInit => CounterInv
  BY DEF PasskeyInit, CounterInv, VerifyRow, NotVerifying, NoChallenge, CounterIsHighest

\* A call that moves one verification on and leaves challenges and counters.
LEMMA VerifierGoes ==
    ASSUME CounterInv, NEW v \in Verifier, NEW new \in VerifyRow,
           verify' = [verify EXCEPT ![v] = new],
           UNCHANGED <<credential, device, challenge, highest, crossing>>,
           new.pc # "idle" => new.challenge \in Challenge /\ challenge[new.challenge].made,
           new.pc = "count" => CounterAdvances(challenge[new.challenge].signed, new.read)
    PROVE  CounterInv'
  BY DEF CounterInv, CounterAdvances, CounterIsHighest

\* A change of one challenge that leaves what was signed, if it was.
LEMMA ChallengeMoves ==
    ASSUME CounterInv, NEW c \in Challenge,
           NEW new \in [row : {"unused", "live", "lapsed", "gone"},
                        use : {"sign-in", "availability"}, signed : Nat, made : BOOLEAN],
           challenge' = [challenge EXCEPT ![c] = new],
           challenge[c].made => new.made /\ new.signed = challenge[c].signed,
           UNCHANGED <<credential, verify, highest, crossing>>,
           device' \in [counts : BOOLEAN, counter : Nat]
    PROVE  CounterInv'
  <1>1. /\ \A d \in Challenge : challenge[d].made =>
              challenge'[d].made /\ challenge'[d].signed = challenge[d].signed
        /\ challenge' \in [Challenge -> [row : {"unused", "live", "lapsed", "gone"},
                                    use : {"sign-in", "availability"},
                                    signed : Nat, made : BOOLEAN]]
    BY DEF CounterInv
  <1>2. \A v \in Verifier : verify'[v].pc # "idle" =>
          verify'[v].challenge \in Challenge /\ challenge'[verify'[v].challenge].made
    BY <1>1 DEF CounterInv
  <1>3. \A v \in Verifier : verify'[v].pc = "count" =>
          CounterAdvances(challenge'[verify'[v].challenge].signed, verify'[v].read)
    BY <1>1 DEF CounterInv, CounterAdvances
  <1> QED
    BY <1>1, <1>2, <1>3 DEF CounterInv, CounterIsHighest, CounterAdvances

LEMMA CounterInvStep ==
    ASSUME CounterInv, [PasskeyNext]_passkeyVars
    PROVE  CounterInv'
  <1>1. ASSUME UNCHANGED <<credential, device, challenge, verify, highest, crossing>>
        PROVE  CounterInv'
    BY <1>1 DEF CounterInv, CounterIsHighest, CounterAdvances
  <1>2. ASSUME NEW v \in Verifier, NEW new \in VerifyRow, new.pc = "idle",
               verify' = [verify EXCEPT ![v] = new],
               UNCHANGED <<credential, device, challenge, highest, crossing>>
        PROVE  CounterInv'
    BY <1>2, VerifierGoes
  <1>3. \A v \in Verifier : NotVerifying(verify[v].challenge) \in VerifyRow
                            /\ NotVerifying(verify[v].challenge).pc = "idle"
    BY DEF NotVerifying, CounterInv, VerifyRow
  <1>4. ASSUME NEW r \in Enroller, InsertCredential(r) PROVE CounterInv'
    <2>1. /\ \/ UNCHANGED <<credential, highest, crossing>>
             \/ credential' = [there |-> TRUE, counter |-> 0] /\ highest' = 0 /\ ~ crossing'
          /\ UNCHANGED <<device, challenge, verify>>
      BY <1>4 DEF InsertCredential
    <2>2. credential' \in [there : BOOLEAN, counter : Nat] /\ highest' \in Nat
      <3>1. CASE UNCHANGED <<credential, highest, crossing>>
        BY <3>1 DEF CounterInv
      <3>2. CASE credential' = [there |-> TRUE, counter |-> 0] /\ highest' = 0
        BY <3>2
      <3> QED
        BY <2>1, <3>1, <3>2
    <2>3. CounterIsHighest'
      BY <2>1 DEF CounterInv, CounterIsHighest
    <2> QED
      BY <2>1, <2>2, <2>3 DEF CounterInv, CounterAdvances
  <1>5. ASSUME RemovePasskey PROVE CounterInv'
    BY <1>5 DEF RemovePasskey, CounterInv, CounterIsHighest, CounterAdvances
  <1>6. ASSUME NEW c \in Challenge, NEW use \in {"sign-in", "availability"},
               IssueChallenge(c, use)
        PROVE  CounterInv'
    <2> DEFINE Row == [row : {"unused", "live", "lapsed", "gone"},
                      use : {"sign-in", "availability"}, signed : Nat, made : BOOLEAN]
    <2>1. PICK new : new = [challenge[c] EXCEPT !.row = "live", !.use = use]
      OBVIOUS
    <2>2. /\ new.signed = challenge[c].signed /\ new.made = challenge[c].made /\ new \in Row
      <3>1. PICK old \in Row : old = challenge[c]
        BY DEF CounterInv
      <3>2. new = [row |-> "live", use |-> use, signed |-> old.signed, made |-> old.made]
        BY <2>1, <3>1
      <3> QED
        BY <3>1, <3>2
    <2>3. challenge' = [challenge EXCEPT ![c] = new]
      BY <1>6, <2>1 DEF IssueChallenge, CounterInv
    <2>4. device' \in [counts : BOOLEAN, counter : Nat]
      BY <1>6 DEF IssueChallenge, CounterInv
    <2> QED
      BY <1>6, <2>2, <2>3, <2>4, ChallengeMoves DEF IssueChallenge
  <1>7. ASSUME NEW c \in Challenge, Sign(c) PROVE CounterInv'
    <2>1. PICK n : n = IF device.counts THEN device.counter + 1 ELSE 0
      OBVIOUS
    <2>2. n \in Nat /\ device' \in [counts : BOOLEAN, counter : Nat]
      <3>1. n \in Nat
        BY <2>1 DEF CounterInv
      <3>2. device' = [device EXCEPT !.counter = n]
        BY <1>7, <2>1 DEF Sign
      <3> QED
        BY <3>1, <3>2 DEF CounterInv
    <2>3. PICK new : new = [challenge[c] EXCEPT !.signed = n, !.made = TRUE]
      OBVIOUS
    <2> DEFINE Row == [row : {"unused", "live", "lapsed", "gone"},
                      use : {"sign-in", "availability"}, signed : Nat, made : BOOLEAN]
    <2>4. new \in Row /\ new.signed = n /\ new.made = TRUE
      <3>1. PICK old \in Row : old = challenge[c]
        BY DEF CounterInv
      <3>2. new = [row |-> old.row, use |-> old.use, signed |-> n, made |-> TRUE]
        BY <2>3, <3>1
      <3> QED
        BY <2>2, <3>1, <3>2
    <2>5. challenge' = [challenge EXCEPT ![c] = new]
      BY <1>7, <2>1, <2>3 DEF Sign, CounterInv
    <2> QED
      BY <1>7, <2>2, <2>4, <2>5, ChallengeMoves DEF Sign
  <1>8. ASSUME NEW c \in Challenge, LapseChallenge(c) PROVE CounterInv'
    <2>1. PICK new : new = [challenge[c] EXCEPT !.row = "lapsed"]
      OBVIOUS
    <2>2. /\ new.signed = challenge[c].signed /\ new.made = challenge[c].made
          /\ new \in [row : {"unused", "live", "lapsed", "gone"},
                      use : {"sign-in", "availability"}, signed : Nat, made : BOOLEAN]
      BY <2>1 DEF CounterInv
    <2>3. challenge' = [challenge EXCEPT ![c] = new]
      BY <1>8, <2>1 DEF LapseChallenge, CounterInv
    <2>4. device' \in [counts : BOOLEAN, counter : Nat]
      BY <1>8 DEF LapseChallenge, CounterInv
    <2> QED
      BY <1>8, <2>2, <2>3, <2>4, ChallengeMoves DEF LapseChallenge
  <1>9. ASSUME NEW v \in Verifier, NEW c \in Challenge, ReadChallenge(v, c) PROVE CounterInv'
    <2>1. PICK next \in {"find", "drop"} : next = IF challenge[c].row = "live" THEN "find" ELSE "drop"
      OBVIOUS
    <2>2. PICK new : new = [pc |-> next, challenge |-> c, read |-> 0]
      OBVIOUS
    <2>3. new \in VerifyRow /\ new.challenge = c /\ new.pc # "count"
      BY <2>1, <2>2 DEF VerifyRow
    <2>4. verify' = [verify EXCEPT ![v] = new]
      <3>1. new = [NotVerifying(c) EXCEPT !.pc = next]
        BY <2>2 DEF NotVerifying
      <3>2. verify' = [verify EXCEPT ![v] = [NotVerifying(c) EXCEPT !.pc =
                          IF challenge[c].row = "live" THEN "find" ELSE "drop"]]
        BY <1>9 DEF ReadChallenge
      <3> QED
        BY <2>1, <3>1, <3>2
    <2> QED
      BY <1>9, <2>3, <2>4, VerifierGoes DEF ReadChallenge
  <1>10. ASSUME NEW v \in Verifier, FindCredential(v) PROVE CounterInv'
    <2> DEFINE c == verify[v].challenge
    <2>1. CASE /\ CounterAdvances(challenge[c].signed, credential.counter)
               /\ verify' = [verify EXCEPT ![v].pc = "count", ![v].read = credential.counter]
      <3>1. PICK new : new = [verify[v] EXCEPT !.pc = "count", !.read = credential.counter]
        OBVIOUS
      <3>a. /\ verify \in [Verifier -> VerifyRow] /\ verify[v].pc = "find"
            /\ credential.counter \in Nat
        BY <1>10 DEF FindCredential, CounterInv
      <3>b. c \in Challenge /\ challenge[c].made
        BY <3>a DEF CounterInv
      <3>c. verify[v] \in VerifyRow
        BY <3>a
      <3>d. new \in VerifyRow /\ new.challenge = c /\ new.read = credential.counter
        BY <3>a, <3>c, <3>1 DEF VerifyRow
      <3>e. verify' = [verify EXCEPT ![v] = new]
        BY <2>1, <3>1
      <3>2. /\ new \in VerifyRow /\ new.challenge = c /\ new.read = credential.counter
            /\ c \in Challenge /\ challenge[c].made /\ verify' = [verify EXCEPT ![v] = new]
        BY <3>b, <3>d, <3>e
      <3> QED
        BY <1>10, <2>1, <3>2, VerifierGoes DEF FindCredential
    <2>2. CASE verify' = [verify EXCEPT ![v] = NotVerifying(c)]
      BY <1>2, <1>3, <1>10, <2>2 DEF FindCredential
    <2> QED
      BY <1>10, <2>1, <2>2 DEF FindCredential
  <1>11. ASSUME NEW v \in Verifier, UpdateCounter(v) PROVE CounterInv'
    <2>1. PICK n : n = challenge[verify[v].challenge].signed
      OBVIOUS
    <2>2. /\ n \in Nat /\ verify[v].read \in Nat /\ CounterAdvances(n, verify[v].read)
          /\ verify[v].pc = "count"
      BY <1>11, <2>1 DEF UpdateCounter, CounterInv, VerifyRow
    <2>3. PICK new : new = [verify[v] EXCEPT !.pc = "delete"]
      OBVIOUS
    <2>4. /\ new \in VerifyRow /\ new.pc = "delete" /\ new.challenge = verify[v].challenge
          /\ verify' = [verify EXCEPT ![v] = new]
      BY <1>11, <2>2, <2>3 DEF UpdateCounter, Proceed, CounterInv, VerifyRow
    <2>5. /\ verify' \in [Verifier -> VerifyRow]
          /\ \A w \in Verifier : verify'[w].pc # "idle" =>
                verify'[w].challenge \in Challenge /\ challenge[verify'[w].challenge].made
          /\ \A w \in Verifier : verify'[w].pc = "count" =>
                CounterAdvances(challenge[verify'[w].challenge].signed, verify'[w].read)
      BY <2>2, <2>4 DEF CounterInv, CounterAdvances
    <2>6. /\ challenge' = challenge /\ device' = device
          /\ credential' = IF credential.there THEN [credential EXCEPT !.counter = n]
                           ELSE credential
          /\ highest' = IF credential.there /\ n > highest THEN n ELSE highest
          /\ crossing' = (crossing \/ verify[v].read # credential.counter)
      BY <1>11, <2>1 DEF UpdateCounter, Counted
    <2>7. credential' \in [there : BOOLEAN, counter : Nat] /\ highest' \in Nat
      <3>1. CASE credential.there
        BY <2>2, <2>6, <3>1 DEF CounterInv
      <3>2. CASE ~ credential.there
        BY <2>2, <2>6, <3>2 DEF CounterInv
      <3> QED
        BY <3>1, <3>2
    <2>8. CounterIsHighest'
      <3> SUFFICES ASSUME credential'.there, ~ crossing' PROVE credential'.counter = highest'
        BY DEF CounterIsHighest
      <3>1. credential.there
        BY <2>6
      <3>2. ~ crossing /\ verify[v].read = credential.counter
        BY <2>6
      <3>3. credential'.counter = n
        BY <2>6, <3>1 DEF CounterInv
      <3>4. credential.counter = highest /\ highest \in Nat
        BY <3>1, <3>2 DEF CounterInv, CounterIsHighest
      <3> QED
        BY <2>2, <2>6, <3>1, <3>2, <3>3, <3>4 DEF CounterAdvances
    <2> QED
      BY <2>5, <2>6, <2>7, <2>8 DEF CounterInv, CounterAdvances
  <1>12. ASSUME NEW v \in Verifier, DeleteChallenge(v) PROVE CounterInv'
    <2>1. PICK c \in Challenge : c = verify[v].challenge
      BY <1>12 DEF DeleteChallenge, CounterInv
    <2>2. PICK new : new = [challenge[c] EXCEPT !.row = "gone"]
      OBVIOUS
    <2>3. /\ new.signed = challenge[c].signed /\ new.made = challenge[c].made
          /\ new \in [row : {"unused", "live", "lapsed", "gone"},
                      use : {"sign-in", "availability"}, signed : Nat, made : BOOLEAN]
          /\ challenge' = [challenge EXCEPT ![c] = new]
      BY <1>12, <2>1, <2>2 DEF DeleteChallenge, DeletedRow, CounterInv
    <2>4. PICK moved : moved = [verify[v] EXCEPT !.pc = "issue"]
      OBVIOUS
    <2>5. /\ moved \in VerifyRow /\ moved.pc = "issue" /\ moved.challenge = c
          /\ challenge[c].made
      BY <1>12, <2>1, <2>4 DEF DeleteChallenge, CounterInv, VerifyRow
    <2>6. \/ verify' = [verify EXCEPT ![v] = moved]
          \/ verify' = [verify EXCEPT ![v] = NotVerifying(c)]
      BY <1>12, <2>1, <2>4 DEF DeleteChallenge, Proceed, CounterInv
    <2>7. /\ verify' \in [Verifier -> VerifyRow]
          /\ \A w \in Verifier : verify'[w].pc # "idle" =>
                verify'[w].challenge \in Challenge /\ challenge[verify'[w].challenge].made
          /\ \A w \in Verifier : verify'[w].pc = "count" =>
                CounterAdvances(challenge[verify'[w].challenge].signed, verify'[w].read)
      BY <1>3, <2>1, <2>5, <2>6 DEF CounterInv, CounterAdvances
    <2>8. \A d \in Challenge : challenge'[d].made = challenge[d].made
                               /\ challenge'[d].signed = challenge[d].signed
      BY <2>3 DEF CounterInv
    <2>9. /\ \A w \in Verifier : verify'[w].pc # "idle" =>
                verify'[w].challenge \in Challenge /\ challenge'[verify'[w].challenge].made
          /\ \A w \in Verifier : verify'[w].pc = "count" =>
                verify'[w].challenge \in Challenge
                /\ CounterAdvances(challenge'[verify'[w].challenge].signed, verify'[w].read)
      BY <2>7, <2>8
    <2>10. challenge' \in [Challenge -> [row : {"unused", "live", "lapsed", "gone"},
                                         use : {"sign-in", "availability"},
                                         signed : Nat, made : BOOLEAN]]
      BY <2>3 DEF CounterInv
    <2> QED
      BY <1>12, <2>7, <2>9, <2>10 DEF DeleteChallenge, CounterInv, CounterAdvances,
                                      CounterIsHighest
  <1>13. ASSUME NEW v \in Verifier, IssueToken(v) \/ VerifierDies(v) PROVE CounterInv'
    BY <1>2, <1>3, <1>13 DEF IssueToken, VerifierDies
  <1>14. ASSUME \/ \E r \in Enroller : BeginEnrol(r) \/ DeleteInvitation(r)
                \/ \E c \in Challenge : ConsumeToken(c) \/ LapseToken(c)
                \/ UNCHANGED passkeyVars
         PROVE  CounterInv'
    BY <1>1, <1>14 DEF BeginEnrol, DeleteInvitation, ConsumeToken, LapseToken, passkeyVars
  <1> QED
    BY <1>4, <1>5, <1>6, <1>7, <1>8, <1>9, <1>10, <1>11, <1>12, <1>13, <1>14 DEF PasskeyNext

\* CounterIsHighest (updateCredentialCounter after verifyAuthenticationResponse):
\* for any number of challenges and verifications, the counter of the row is the
\* highest it ever had unless one was written over another that it had not read.
THEOREM CounterIsHighestHolds == PasskeySpec => []CounterIsHighest
  <1>1. CounterInv => CounterIsHighest
    BY DEF CounterInv
  <1> QED
    BY <1>1, CounterInvInit, CounterInvStep, PTL DEF PasskeySpec

-----------------------------------------------------------------------------
(* ReplaysBounded, for any number of challenges and a finite set of        *)
(* verifications.  Inductive with it: a token is issued only once the row  *)
(* of its challenge is gone for good.                                      *)

ReplayInv ==
    /\ CounterInv
    /\ tokens \in [Challenge -> Nat] /\ sessions \in [Challenge -> Nat]
    /\ \A v \in Verifier : verify[v].pc = "issue" => challenge[verify[v].challenge].row = "gone"
    /\ ReplaysBounded

LEMMA ReadingCount ==
    ASSUME NEW S \in SUBSET Verifier
    PROVE  /\ IsFiniteSet(S) /\ Cardinality(S) \in Nat /\ Cardinality(Verifier) \in Nat
           /\ Cardinality(S) <= Cardinality(Verifier)
  BY VerifierAssumption, FS_Subset, FS_CardinalityType

LEMMA ReplayInvInit == PasskeyInit => ReplayInv
  <1> SUFFICES ASSUME PasskeyInit PROVE ReplayInv
    OBVIOUS
  <1>1. /\ tokens \in [Challenge -> Nat] /\ sessions \in [Challenge -> Nat]
        /\ \A c \in Challenge : tokens[c] = 0 /\ sessions[c] = 0
        /\ \A v \in Verifier : verify[v].pc = "idle"
    BY DEF PasskeyInit, NotVerifying
  <1>2. \A c \in Challenge : Cardinality(Reading(c)) = 0
    BY <1>1, FS_EmptySet DEF Reading, At
  <1>3. Cardinality(Verifier) \in Nat
    BY ReadingCount
  <1> QED
    BY <1>1, <1>2, <1>3, CounterInvInit DEF ReplayInv, ReplaysBounded

\* No more verifications read a challenge than are in flight.
LEMMA ReadingBound ==
    \A c \in Challenge : /\ Cardinality(Reading(c)) \in Nat /\ IsFiniteSet(Reading(c))
                         /\ Cardinality(Reading(c)) <= Cardinality(Verifier)
                         /\ Cardinality(Verifier) \in Nat
  <1> SUFFICES ASSUME NEW c \in Challenge
               PROVE  /\ Cardinality(Reading(c)) \in Nat /\ IsFiniteSet(Reading(c))
                      /\ Cardinality(Reading(c)) <= Cardinality(Verifier)
                      /\ Cardinality(Verifier) \in Nat
    OBVIOUS
  <1>1. Reading(c) \in SUBSET Verifier
    BY DEF Reading, At
  <1> QED
    BY <1>1, ReadingCount

\* Tokens and sessions stay or lapse, and nobody starts to read.
LEMMA FewerReading ==
    ASSUME ReplayInv, CounterInv',
           \A c \in Challenge : Reading(c)' \subseteq Reading(c),
           tokens' \in [Challenge -> Nat], sessions' \in [Challenge -> Nat],
           \A c \in Challenge : tokens'[c] + sessions'[c] <= tokens[c] + sessions[c],
           \A c \in Challenge : challenge'[c].row \in {"unused", "live"} =>
                                    challenge[c].row \in {"unused", "live"},
           \A v \in Verifier : verify'[v].pc = "issue" =>
                                   challenge'[verify'[v].challenge].row = "gone"
    PROVE  ReplayInv'
  <1>1. ASSUME NEW c \in Challenge
        PROVE  /\ challenge'[c].row \in {"unused", "live"} => tokens'[c] + sessions'[c] = 0
               /\ tokens'[c] + sessions'[c] + Cardinality(Reading(c)') <= Cardinality(Verifier)
    <2>1. /\ challenge[c].row \in {"unused", "live"} => tokens[c] + sessions[c] = 0
          /\ tokens[c] + sessions[c] + Cardinality(Reading(c)) <= Cardinality(Verifier)
          /\ tokens[c] \in Nat /\ sessions[c] \in Nat
          /\ tokens'[c] \in Nat /\ sessions'[c] \in Nat
      BY DEF ReplayInv, ReplaysBounded
    <2>2. /\ Cardinality(Reading(c)') <= Cardinality(Reading(c))
          /\ Cardinality(Reading(c)) \in Nat /\ Cardinality(Reading(c)') \in Nat
          /\ Cardinality(Verifier) \in Nat
      BY ReadingBound, FS_Subset, FS_CardinalityType
    <2>3. /\ tokens'[c] + sessions'[c] <= tokens[c] + sessions[c]
          /\ challenge'[c].row \in {"unused", "live"} => challenge[c].row \in {"unused", "live"}
      OBVIOUS
    <2> QED
      BY <2>1, <2>2, <2>3
  <1> QED
    BY <1>1 DEF ReplayInv, ReplaysBounded

\* Verifications and challenges rest.
LEMMA NobodyReads ==
    ASSUME ReplayInv, CounterInv', verify' = verify, challenge' = challenge,
           tokens' \in [Challenge -> Nat], sessions' \in [Challenge -> Nat],
           \A c \in Challenge : tokens'[c] + sessions'[c] <= tokens[c] + sessions[c]
    PROVE  ReplayInv'
  <1>1. \A c \in Challenge : Reading(c)' = Reading(c)
    BY DEF Reading, At
  <1> QED
    BY <1>1, FewerReading DEF ReplayInv

\* A verification that leaves, or moves on without a token.
LEMMA ReadingGoes ==
    ASSUME ReplayInv, CounterInv', NEW v \in Verifier, UNCHANGED <<tokens, sessions>>,
           \A w \in Verifier \ {v} : verify'[w] = verify[w],
           verify'[v].pc \in {"find", "count", "delete", "issue"} =>
               /\ verify[v].pc \in {"find", "count", "delete", "issue"}
               /\ verify'[v].challenge = verify[v].challenge,
           \A c \in Challenge : challenge'[c].row = challenge[c].row \/ challenge'[c].row = "gone",
           verify'[v].pc = "issue" => challenge'[verify'[v].challenge].row = "gone"
    PROVE  ReplayInv'
  <1>1. \A c \in Challenge : Reading(c)' \subseteq Reading(c)
    BY DEF Reading, At
  <1>2. \A w \in Verifier : verify'[w].pc = "issue" => challenge'[verify'[w].challenge].row = "gone"
    BY DEF ReplayInv, CounterInv
  <1>3. \A c \in Challenge : tokens'[c] + sessions'[c] <= tokens[c] + sessions[c]
    BY DEF ReplayInv
  <1> QED
    BY <1>1, <1>2, <1>3, FewerReading DEF ReplayInv

LEMMA ReplayInvStep ==
    ASSUME ReplayInv, [PasskeyNext]_passkeyVars
    PROVE  ReplayInv'
  <1>1. CounterInv'
    BY CounterInvStep DEF ReplayInv
  <1>2. \A c \in Challenge : tokens[c] \in Nat /\ sessions[c] \in Nat
                             /\ tokens[c] + sessions[c] <= tokens[c] + sessions[c]
    BY DEF ReplayInv
  <1>3. ASSUME UNCHANGED <<verify, challenge, tokens, sessions>> PROVE ReplayInv'
    BY <1>1, <1>2, <1>3, NobodyReads DEF ReplayInv
  <1>4. ASSUME NEW c \in Challenge, ConsumeToken(c) \/ LapseToken(c) PROVE ReplayInv'
    <2>1. /\ tokens' \in [Challenge -> Nat] /\ sessions' \in [Challenge -> Nat]
          /\ \A d \in Challenge : tokens'[d] + sessions'[d] <= tokens[d] + sessions[d]
          /\ verify' = verify /\ challenge' = challenge
      BY <1>4 DEF ConsumeToken, LapseToken, ReplayInv
    <2> QED
      BY <1>1, <2>1, NobodyReads
  <1>5. ASSUME NEW c \in Challenge, \/ \E use \in {"sign-in", "availability"} : IssueChallenge(c, use)
                                    \/ Sign(c) \/ LapseChallenge(c)
        PROVE  ReplayInv'
    <2>1. /\ UNCHANGED <<verify, tokens, sessions>>
          /\ challenge[c].row \in {"unused", "live"}
          /\ \A d \in Challenge \ {c} : challenge'[d] = challenge[d]
          /\ challenge'[c].row # "gone"
      BY <1>5 DEF IssueChallenge, Sign, LapseChallenge, ReplayInv, CounterInv
    <2>2. \A d \in Challenge : Reading(d)' = Reading(d)
      BY <2>1 DEF Reading, At
    <2>3. \A d \in Challenge : challenge'[d].row \in {"unused", "live"} =>
                                  challenge[d].row \in {"unused", "live"}
      BY <2>1
    <2>4. \A v \in Verifier : verify'[v].pc = "issue" =>
             challenge'[verify'[v].challenge].row = "gone"
      BY <2>1 DEF ReplayInv, CounterInv
    <2> QED
      BY <1>1, <1>2, <2>1, <2>2, <2>3, <2>4, FewerReading DEF ReplayInv
  <1>6. ASSUME NEW v \in Verifier, NEW c \in Challenge, ReadChallenge(v, c) PROVE ReplayInv'
    <2>1. /\ UNCHANGED <<challenge, tokens, sessions>> /\ verify[v].pc = "idle"
          /\ \A w \in Verifier \ {v} : verify'[w] = verify[w]
          /\ \/ challenge[c].row = "live" /\ verify'[v].pc = "find" /\ verify'[v].challenge = c
             \/ verify'[v].pc = "drop"
      BY <1>6 DEF ReadChallenge, NotVerifying, ReplayInv, CounterInv
    <2>2. CASE verify'[v].pc = "drop"
      BY <1>1, <2>1, <2>2, ReadingGoes
    <2>3. CASE challenge[c].row = "live" /\ verify'[v].pc = "find" /\ verify'[v].challenge = c
      <3>1. \A d \in Challenge \ {c} : Reading(d)' = Reading(d)
        BY <2>1, <2>3 DEF Reading, At
      <3>2. Reading(c)' \in SUBSET Verifier
        BY DEF Reading, At
      <3>3. /\ Cardinality(Reading(c)') <= Cardinality(Verifier)
            /\ Cardinality(Reading(c)') \in Nat /\ Cardinality(Verifier) \in Nat
        BY <3>2, ReadingCount
      <3>4. tokens[c] + sessions[c] = 0
        BY <2>3 DEF ReplayInv, ReplaysBounded
      <3>5. ASSUME NEW d \in Challenge
            PROVE  /\ challenge'[d].row \in {"unused", "live"} => tokens'[d] + sessions'[d] = 0
                   /\ tokens'[d] + sessions'[d] + Cardinality(Reading(d)') <= Cardinality(Verifier)
        <4>1. CASE d = c
          BY <2>1, <3>3, <3>4, <4>1
        <4>2. CASE d # c
          BY <2>1, <3>1, <4>2 DEF ReplayInv, ReplaysBounded
        <4> QED
          BY <4>1, <4>2
      <3>6. \A w \in Verifier : verify'[w].pc = "issue" =>
               challenge'[verify'[w].challenge].row = "gone"
        BY <2>1, <2>3 DEF ReplayInv
      <3> QED
        BY <1>1, <2>1, <3>5, <3>6 DEF ReplayInv, ReplaysBounded
    <2> QED
      BY <2>1, <2>2, <2>3
  <1>7. ASSUME NEW v \in Verifier, FindCredential(v) PROVE ReplayInv'
    <2>1. /\ UNCHANGED <<challenge, tokens, sessions>> /\ verify[v].pc = "find"
          /\ \A w \in Verifier \ {v} : verify'[w] = verify[w]
          /\ verify'[v].pc \in {"idle", "count"}
          /\ verify'[v].pc = "count" => verify'[v].challenge = verify[v].challenge
      BY <1>7 DEF FindCredential, NotVerifying, ReplayInv, CounterInv, VerifyRow
    <2> QED
      BY <1>1, <2>1, ReadingGoes
  <1>8. ASSUME NEW v \in Verifier, UpdateCounter(v) PROVE ReplayInv'
    <2>1. /\ UNCHANGED <<challenge, tokens, sessions>> /\ verify[v].pc = "count"
          /\ \A w \in Verifier \ {v} : verify'[w] = verify[w]
          /\ verify'[v].pc = "delete" /\ verify'[v].challenge = verify[v].challenge
      BY <1>8 DEF UpdateCounter, Proceed, ReplayInv, CounterInv, VerifyRow
    <2> QED
      BY <1>1, <2>1, ReadingGoes
  <1>9. ASSUME NEW v \in Verifier, DeleteChallenge(v) PROVE ReplayInv'
    <2>1. PICK c \in Challenge : c = verify[v].challenge
      BY <1>9 DEF DeleteChallenge, ReplayInv, CounterInv
    <2>2. /\ UNCHANGED <<tokens, sessions>> /\ verify[v].pc \in {"delete", "drop"}
          /\ \A w \in Verifier \ {v} : verify'[w] = verify[w]
          /\ challenge'[c].row = "gone" /\ \A d \in Challenge \ {c} : challenge'[d] = challenge[d]
      BY <1>9, <2>1 DEF DeleteChallenge, DeletedRow, Proceed, ReplayInv, CounterInv
    <2>3. \/ verify'[v].pc = "idle"
          \/ /\ verify[v].pc = "delete" /\ verify'[v].pc = "issue"
             /\ verify'[v].challenge = c
      BY <1>9, <2>1 DEF DeleteChallenge, Proceed, NotVerifying, ReplayInv, CounterInv, VerifyRow
    <2> QED
      BY <1>1, <2>1, <2>2, <2>3, ReadingGoes
  <1>10. ASSUME NEW v \in Verifier, IssueToken(v) PROVE ReplayInv'
    <2>1. PICK c \in Challenge : c = verify[v].challenge
      BY <1>10 DEF IssueToken, ReplayInv, CounterInv
    <2>2. /\ tokens' = [tokens EXCEPT ![c] = @ + 1] /\ UNCHANGED <<challenge, sessions>>
          /\ verify[v].pc = "issue" /\ challenge[c].row = "gone"
          /\ \A w \in Verifier \ {v} : verify'[w] = verify[w]
          /\ verify'[v].pc = "idle"
      BY <1>10, <2>1 DEF IssueToken, NotVerifying, ReplayInv, CounterInv
    <2>3. Reading(c)' = Reading(c) \ {v} /\ v \in Reading(c)
      BY <2>1, <2>2 DEF Reading, At
    <2>4. Cardinality(Reading(c)') = Cardinality(Reading(c)) - 1
      BY <2>3, ReadingBound, FS_RemoveElement
    <2>5. \A d \in Challenge \ {c} : Reading(d)' = Reading(d)
      BY <2>1, <2>2 DEF Reading, At
    <2>6. /\ tokens' \in [Challenge -> Nat] /\ tokens'[c] = tokens[c] + 1
          /\ \A d \in Challenge \ {c} : tokens'[d] = tokens[d]
      BY <2>2 DEF ReplayInv
    <2>7. ASSUME NEW d \in Challenge
          PROVE  /\ challenge'[d].row \in {"unused", "live"} => tokens'[d] + sessions'[d] = 0
                 /\ tokens'[d] + sessions'[d] + Cardinality(Reading(d)') <= Cardinality(Verifier)
      <3>1. CASE d = c
        <4>1. tokens[c] + sessions[c] + Cardinality(Reading(c)) <= Cardinality(Verifier)
          BY DEF ReplayInv, ReplaysBounded
        <4> QED
          BY <1>2, <2>2, <2>4, <2>6, <3>1, <4>1, ReadingBound
      <3>2. CASE d # c
        BY <2>2, <2>5, <2>6, <3>2 DEF ReplayInv, ReplaysBounded
      <3> QED
        BY <3>1, <3>2
    <2>8. \A w \in Verifier : verify'[w].pc = "issue" =>
             challenge'[verify'[w].challenge].row = "gone"
      BY <2>2 DEF ReplayInv
    <2> QED
      BY <1>1, <2>2, <2>6, <2>7, <2>8 DEF ReplayInv, ReplaysBounded
  <1>11. ASSUME NEW v \in Verifier, VerifierDies(v) PROVE ReplayInv'
    <2>1. /\ UNCHANGED <<challenge, tokens, sessions>>
          /\ \A w \in Verifier \ {v} : verify'[w] = verify[w]
          /\ verify'[v].pc = "idle"
      BY <1>11 DEF VerifierDies, NotVerifying, ReplayInv, CounterInv
    <2> QED
      BY <1>1, <2>1, ReadingGoes
  <1>12. ASSUME \/ \E r \in Enroller : BeginEnrol(r) \/ InsertCredential(r) \/ DeleteInvitation(r)
                \/ RemovePasskey \/ UNCHANGED passkeyVars
         PROVE  ReplayInv'
    BY <1>3, <1>12 DEF BeginEnrol, InsertCredential, DeleteInvitation, RemovePasskey, passkeyVars
  <1> QED
    BY <1>4, <1>5, <1>6, <1>7, <1>8, <1>9, <1>10, <1>11, <1>12 DEF PasskeyNext

\* ReplaysBounded (verifyAuthentication, deleteChallenge and the exchange token):
\* for any number of challenges and verifications, one signature lets in no more
\* sign-ins than verifications were in flight before its challenge was deleted.
THEOREM ReplaysBoundedHolds == PasskeySpec => []ReplaysBounded
  <1>1. ReplayInv => ReplaysBounded
    BY DEF ReplayInv
  <1> QED
    BY <1>1, ReplayInvInit, ReplayInvStep, PTL DEF PasskeySpec

-----------------------------------------------------------------------------
(* RemovedSignsIn: after the removal every sign-in, token and verification *)
(* that has read the row turns into the next of them at most once.         *)

\* One item more, one item less.
LEMMA OneMore ==
    ASSUME NEW f \in [Challenge -> Nat], NEW c \in Challenge, IsFiniteSet(Items(f))
    PROVE  /\ IsFiniteSet(Items([f EXCEPT ![c] = @ + 1]))
           /\ TotalOf([f EXCEPT ![c] = @ + 1]) = TotalOf(f) + 1
  <1> DEFINE g == [f EXCEPT ![c] = @ + 1]
  <1>1. /\ \A d \in Challenge : f[d] \in Nat /\ g[d] = IF d = c THEN f[c] + 1 ELSE f[d]
        /\ f[c] + 1 \notin 1 .. f[c] /\ 1 .. (f[c] + 1) = (1 .. f[c]) \cup {f[c] + 1}
    OBVIOUS
  <1> HIDE DEF g
  <1>2. \A d \in Challenge : {d} \X (1 .. g[d]) =
            IF d = c THEN ({c} \X (1 .. f[c])) \cup {<<c, f[c] + 1>>} ELSE {d} \X (1 .. f[d])
    BY <1>1
  <1>3. Items(g) = Items(f) \cup {<<c, f[c] + 1>>}
    BY <1>2 DEF Items
  <1>4. <<c, f[c] + 1>> \notin Items(f)
    <2>1. ASSUME NEW d \in Challenge, <<c, f[c] + 1>> \in {d} \X (1 .. f[d]) PROVE FALSE
      <3>1. d = c /\ f[c] + 1 \in 1 .. f[d]
        BY <2>1
      <3> QED
        BY <1>1, <3>1
    <2> QED
      BY <2>1 DEF Items
  <1>5. IsFiniteSet(Items(g)) /\ Cardinality(Items(g)) = Cardinality(Items(f)) + 1
    <2> DEFINE new == <<c, f[c] + 1>>
    <2> HIDE DEF new
    <2>1. Items(g) = Items(f) \cup {new} /\ new \notin Items(f)
      BY <1>3, <1>4 DEF new
    <2> QED
      BY <2>1, FS_AddElement
  <1> QED
    BY <1>5 DEF TotalOf, g

LEMMA OneLess ==
    ASSUME NEW f \in [Challenge -> Nat], NEW c \in Challenge, f[c] > 0, IsFiniteSet(Items(f))
    PROVE  /\ IsFiniteSet(Items([f EXCEPT ![c] = @ - 1]))
           /\ TotalOf([f EXCEPT ![c] = @ - 1]) = TotalOf(f) - 1
  <1> DEFINE g == [f EXCEPT ![c] = @ - 1]
  <1>1. /\ \A d \in Challenge : f[d] \in Nat /\ g[d] = IF d = c THEN f[c] - 1 ELSE f[d]
        /\ f[c] \in 1 .. f[c] /\ 1 .. (f[c] - 1) = (1 .. f[c]) \ {f[c]}
    OBVIOUS
  <1> HIDE DEF g
  <1>2. \A d \in Challenge : {d} \X (1 .. g[d]) =
            IF d = c THEN ({c} \X (1 .. f[c])) \ {<<c, f[c]>>} ELSE {d} \X (1 .. f[d])
    BY <1>1
  <1>3. Items(g) = Items(f) \ {<<c, f[c]>>}
    BY <1>2 DEF Items
  <1>4. <<c, f[c]>> \in Items(f)
    BY <1>1 DEF Items
  <1> QED
    BY <1>3, <1>4, FS_RemoveElement DEF TotalOf, g

OwedInv ==
    /\ ReplayInv /\ owed \in Nat
    /\ IsFiniteSet(Items(tokens)) /\ IsFiniteSet(Items(sessions))
    /\ RemovedSignsIn

LEMMA OwedInvInit == PasskeyInit => OwedInv
  <1> SUFFICES ASSUME PasskeyInit PROVE OwedInv
    OBVIOUS
  <1>1. /\ \A c \in Challenge : tokens[c] = 0 /\ sessions[c] = 0
        /\ \A v \in Verifier : verify[v].pc = "idle"
        /\ owed = 0
    BY DEF PasskeyInit, NotVerifying
  <1>2. Items(tokens) = {} /\ Items(sessions) = {} /\ PastRead = {}
    BY <1>1 DEF Items, PastRead, At
  <1> QED
    BY <1>1, <1>2, ReplayInvInit, FS_EmptySet DEF OwedInv, RemovedSignsIn, TotalOf

\* The sizes are numbers, and PastRead shrinks with its members.
LEMMA OwedTypes ==
    ASSUME OwedInv
    PROVE  /\ TotalOf(tokens) \in Nat /\ TotalOf(sessions) \in Nat /\ owed \in Nat
           /\ IsFiniteSet(PastRead) /\ Cardinality(PastRead) \in Nat
           /\ tokens \in [Challenge -> Nat] /\ sessions \in [Challenge -> Nat]
  <1>1. PastRead \in SUBSET Verifier
    BY DEF PastRead, At
  <1> QED
    BY <1>1, ReadingCount, FS_CardinalityType DEF OwedInv, ReplayInv, TotalOf

LEMMA OwedInvStep ==
    ASSUME OwedInv, [PasskeyNext]_passkeyVars
    PROVE  OwedInv'
  <1>t. /\ verify \in [Verifier -> VerifyRow]
        /\ TotalOf(tokens) \in Nat /\ TotalOf(sessions) \in Nat /\ owed \in Nat
        /\ IsFiniteSet(PastRead) /\ Cardinality(PastRead) \in Nat
        /\ tokens \in [Challenge -> Nat] /\ sessions \in [Challenge -> Nat]
        /\ IsFiniteSet(Items(tokens)) /\ IsFiniteSet(Items(sessions))
    BY OwedTypes DEF OwedInv, ReplayInv, CounterInv
  <1>owed. ~ credential.there =>
             TotalOf(tokens) + TotalOf(sessions) + Cardinality(PastRead) <= owed
    BY DEF OwedInv, RemovedSignsIn
  <1>1. ReplayInv'
    BY ReplayInvStep DEF OwedInv
  <1>2. ASSUME UNCHANGED <<tokens, sessions, owed>>, ~ credential'.there => ~ credential.there,
               ~ credential'.there => PastRead' \subseteq PastRead
        PROVE  OwedInv'
    <2>1. ~ credential'.there => Cardinality(PastRead') <= Cardinality(PastRead)
                                 /\ Cardinality(PastRead') \in Nat
      BY <1>2, <1>t, FS_Subset, FS_CardinalityType
    <2> QED
      BY <1>1, <1>2, <1>owed, <1>t, <2>1 DEF OwedInv, RemovedSignsIn
  <1>3. ASSUME NEW r \in Enroller, BeginEnrol(r) \/ InsertCredential(r) \/ DeleteInvitation(r)
        PROVE  OwedInv'
    <2>1. PastRead' = PastRead
      BY <1>3 DEF BeginEnrol, InsertCredential, DeleteInvitation, PastRead, At
    <2> QED
      BY <1>2, <1>3, <2>1 DEF BeginEnrol, InsertCredential, DeleteInvitation
  <1>4. ASSUME RemovePasskey PROVE OwedInv'
    <2>1. PastRead' = PastRead /\ UNCHANGED <<tokens, sessions>>
          /\ owed' = TotalOf(tokens) + TotalOf(sessions) + Cardinality(PastRead)
      BY <1>4 DEF RemovePasskey, PastRead, At
    <2> QED
      BY <1>1, <1>t, <2>1 DEF OwedInv, RemovedSignsIn
  <1>5. ASSUME NEW c \in Challenge,
               \/ \E use \in {"sign-in", "availability"} : IssueChallenge(c, use)
               \/ Sign(c) \/ LapseChallenge(c)
        PROVE  OwedInv'
    <2>1. UNCHANGED <<verify, credential, tokens, sessions, owed>>
      BY <1>5 DEF IssueChallenge, Sign, LapseChallenge
    <2> QED
      BY <1>2, <2>1 DEF PastRead, At
  <1>6. ASSUME NEW c \in Challenge, ConsumeToken(c) PROVE OwedInv'
    <2>1. /\ tokens[c] > 0 /\ tokens' = [tokens EXCEPT ![c] = @ - 1]
          /\ sessions' = [sessions EXCEPT ![c] = @ + 1]
          /\ UNCHANGED <<credential, owed>> /\ PastRead' = PastRead
      BY <1>6 DEF ConsumeToken, PastRead, At
    <2>2. /\ IsFiniteSet(Items(tokens')) /\ TotalOf(tokens') = TotalOf(tokens) - 1
          /\ IsFiniteSet(Items(sessions')) /\ TotalOf(sessions') = TotalOf(sessions) + 1
      BY <1>t, <2>1, OneMore, OneLess
    <2> QED
      BY <1>1, <1>owed, <1>t, <2>1, <2>2 DEF OwedInv, RemovedSignsIn
  <1>7. ASSUME NEW c \in Challenge, LapseToken(c) PROVE OwedInv'
    <2>1. /\ tokens[c] > 0 /\ tokens' = [tokens EXCEPT ![c] = @ - 1]
          /\ UNCHANGED <<credential, sessions, owed>> /\ PastRead' = PastRead
      BY <1>7 DEF LapseToken, PastRead, At
    <2>2. IsFiniteSet(Items(tokens')) /\ TotalOf(tokens') = TotalOf(tokens) - 1
      BY <1>t, <2>1, OneLess
    <2> QED
      BY <1>1, <1>owed, <1>t, <2>1, <2>2 DEF OwedInv, RemovedSignsIn
  <1>8. ASSUME NEW v \in Verifier, NEW new \in VerifyRow, verify' = [verify EXCEPT ![v] = new],
               UNCHANGED <<credential, tokens, sessions, owed>>,
               new.pc \in {"count", "delete", "issue"} /\ ~ credential.there =>
                   verify[v].pc \in {"count", "delete", "issue"}
        PROVE  OwedInv'
    <2>1. \A w \in Verifier : verify'[w] = IF w = v THEN new ELSE verify[w]
      BY <1>8, <1>t
    <2>2. ~ credential.there => PastRead' \subseteq PastRead
      BY <1>8, <2>1 DEF PastRead, At
    <2> QED
      BY <1>2, <1>8, <2>2
  <1>row. ASSUME NEW v \in Verifier
          PROVE  /\ verify[v] \in VerifyRow
                 /\ NotVerifying(verify[v].challenge) \in VerifyRow
                 /\ NotVerifying(verify[v].challenge).pc = "idle"
    BY <1>t DEF VerifyRow, NotVerifying
  <1>9. ASSUME NEW v \in Verifier, NEW c \in Challenge, ReadChallenge(v, c) PROVE OwedInv'
    <2>1. PICK new \in {[NotVerifying(c) EXCEPT !.pc = "find"],
                        [NotVerifying(c) EXCEPT !.pc = "drop"]} :
             verify' = [verify EXCEPT ![v] = new]
      BY <1>9 DEF ReadChallenge
    <2>2. new \in VerifyRow /\ new.pc \in {"find", "drop"}
      BY <2>1 DEF NotVerifying, VerifyRow
    <2> QED
      BY <1>8, <1>9, <2>1, <2>2 DEF ReadChallenge
  <1>10. ASSUME NEW v \in Verifier, FindCredential(v) PROVE OwedInv'
    <2>1. CASE credential.there
      <3>1. UNCHANGED <<credential, tokens, sessions, owed>>
        BY <1>10 DEF FindCredential
      <3> QED
        BY <1>2, <2>1, <3>1
    <2>2. CASE ~ credential.there
      <3>1. verify' = [verify EXCEPT ![v] = NotVerifying(verify[v].challenge)]
            /\ UNCHANGED <<credential, tokens, sessions, owed>>
        BY <1>10, <2>2, <1>t DEF FindCredential, Registered
      <3> QED
        BY <1>8, <1>row, <3>1
    <2> QED
      BY <2>1, <2>2
  <1>11. ASSUME NEW v \in Verifier, UpdateCounter(v) PROVE OwedInv'
    <2>1. PICK new \in VerifyRow : /\ verify' = [verify EXCEPT ![v] = new]
                                   /\ new.pc = "delete" /\ verify[v].pc = "count"
      <3>1. /\ verify' = [verify EXCEPT ![v] = [verify[v] EXCEPT !.pc = "delete"]]
            /\ [verify[v] EXCEPT !.pc = "delete"] \in VerifyRow
            /\ [verify[v] EXCEPT !.pc = "delete"].pc = "delete"
        BY <1>11, <1>t DEF UpdateCounter, Proceed, VerifyRow
      <3> QED
        BY <1>11, <3>1 DEF UpdateCounter
    <2>2. \A w \in Verifier : verify'[w] = IF w = v THEN new ELSE verify[w]
      BY <1>t, <2>1
    <2>3. PastRead' = PastRead
      BY <2>1, <2>2 DEF PastRead, At
    <2>4. UNCHANGED <<tokens, sessions, owed>>
      BY <1>11 DEF UpdateCounter
    <2>5. credential'.there = credential.there
      BY <1>11 DEF UpdateCounter, Counted, OwedInv, ReplayInv, CounterInv
    <2> QED
      BY <1>2, <2>3, <2>4, <2>5
  <1>12. ASSUME NEW v \in Verifier, DeleteChallenge(v) PROVE OwedInv'
    <2>1. \/ /\ verify[v].pc = "delete"
             /\ verify' = [verify EXCEPT ![v] = [verify[v] EXCEPT !.pc = "issue"]]
          \/ verify' = [verify EXCEPT ![v] = NotVerifying(verify[v].challenge)]
      BY <1>12, <1>t DEF DeleteChallenge, Proceed
    <2>2. [verify[v] EXCEPT !.pc = "issue"] \in VerifyRow
      BY <1>row DEF VerifyRow
    <2>3. UNCHANGED <<credential, tokens, sessions, owed>>
      BY <1>12 DEF DeleteChallenge
    <2> QED
      BY <1>8, <1>row, <2>1, <2>2, <2>3
  <1>13. ASSUME NEW v \in Verifier, IssueToken(v) PROVE OwedInv'
    <2>1. PICK c \in Challenge : c = verify[v].challenge
      BY <1>13 DEF IssueToken, OwedInv, ReplayInv, CounterInv
    <2>2. /\ tokens' = [tokens EXCEPT ![c] = @ + 1] /\ UNCHANGED <<credential, sessions, owed>>
          /\ verify' = [verify EXCEPT ![v] = NotVerifying(c)] /\ verify[v].pc = "issue"
      BY <1>13, <2>1 DEF IssueToken
    <2>3. /\ IsFiniteSet(Items(tokens')) /\ TotalOf(tokens') = TotalOf(tokens) + 1
      BY <1>t, <2>2, OneMore
    <2>4. \A w \in Verifier : verify'[w] = IF w = v THEN NotVerifying(c) ELSE verify[w]
      BY <1>t, <2>2
    <2>5. PastRead' = PastRead \ {v} /\ v \in PastRead
      BY <1>row, <2>1, <2>2, <2>4 DEF PastRead, At
    <2>6. Cardinality(PastRead') = Cardinality(PastRead) - 1
      BY <1>t, <2>5, FS_RemoveElement
    <2> QED
      BY <1>1, <1>owed, <1>t, <2>2, <2>3, <2>6 DEF OwedInv, RemovedSignsIn
  <1>14. ASSUME NEW v \in Verifier, VerifierDies(v) PROVE OwedInv'
    <2>1. verify' = [verify EXCEPT ![v] = NotVerifying(verify[v].challenge)]
          /\ UNCHANGED <<credential, tokens, sessions, owed>>
      BY <1>14, <1>t DEF VerifierDies
    <2> QED
      BY <1>8, <1>row, <2>1
  <1>15. ASSUME UNCHANGED passkeyVars PROVE OwedInv'
    BY <1>2, <1>15 DEF passkeyVars, PastRead, At
  <1> QED
    BY <1>3, <1>4, <1>5, <1>6, <1>7, <1>9, <1>10, <1>11, <1>12, <1>13, <1>14, <1>15
    DEF PasskeyNext

\* RemovedSignsIn (removePasskey against verifyAuthentication and the exchange
\* token): however many challenges and verifications, a removed passkey leads
\* to no sign-in but those of tokens already issued and of verifications that
\* had read its row.
THEOREM RemovedSignsInHolds == PasskeySpec => []RemovedSignsIn
  <1>1. OwedInv => RemovedSignsIn
    BY DEF OwedInv
  <1> QED
    BY <1>1, OwedInvInit, OwedInvStep, PTL DEF PasskeySpec

-----------------------------------------------------------------------------
(* Types of the parts, with what the bounds of the model make of numbers.  *)

\* The versions of a password, and which links are named.
VersionsInv ==
    /\ mailed \subseteq Link /\ redeemed \subseteq Link
    /\ last \in Version /\ pw.ver \in Version
    /\ \A p \in Resetter : proc[p].read \in Version

LEMMA VersionsStep ==
    ASSUME LinksInv, PasswordInv, VersionsInv, [ResetNext]_resetVars
    PROVE  VersionsInv'
  <1>t. /\ proc \in [Resetter -> ResetRow] /\ MaxChange \in Nat /\ 0 \in Version
        /\ pw \in [ver : Nat, legacy : BOOLEAN]
    BY MaxChangeAssumption DEF LinksInv, PasswordInv, Version
  <1>1. ASSUME NEW p \in Resetter, NEW stage, NEW l, ResetGoto(p, stage, l)
        PROVE  \A q \in Resetter : proc'[q].read \in Version
    BY <1>1, <1>t DEF ResetGoto, VersionsInv
  <1>2. ASSUME SetPassword PROVE last' \in Version /\ pw'.ver \in Version
    BY <1>2, <1>t DEF SetPassword, Version, VersionsInv
  <1>3. ASSUME NEW p \in Resetter, WriteReset(p) PROVE VersionsInv'
    <2>1. proc[p].link \in Link
      BY <1>3 DEF WriteReset, LinksInv
    <2> QED
      BY <1>1, <1>2, <1>3, <2>1 DEF WriteReset, VersionsInv
  <1>4. ASSUME NEW p \in Resetter, ChangePassword(p) PROVE VersionsInv'
    BY <1>1, <1>2, <1>4 DEF ChangePassword, VersionsInv
  <1>5. ASSUME NEW p \in Resetter, SendMail(p) PROVE VersionsInv'
    <2>1. proc[p].link \in Link
      BY <1>5 DEF SendMail, LinksInv
    <2> QED
      BY <1>1, <1>5, <2>1 DEF SendMail, End, VersionsInv
  <1>6. ASSUME NEW p \in Resetter, VerifyPassword(p) PROVE VersionsInv'
    BY <1>6, <1>t DEF VerifyPassword, VersionsInv
  <1>7. ASSUME NEW p \in Resetter, UpgradeHash(p) PROVE VersionsInv'
    BY <1>1, <1>7 DEF UpgradeHash, End, VersionsInv
  <1>8. ASSUME NEW p \in Resetter,
               \/ PurgeLinks(p) \/ InsertLink(p) \/ MarkConsumed(p) \/ DeleteLink(p)
               \/ DropLinks(p) \/ ResetDies(p)
               \/ \E l \in Link : CheckLink(p, l) \/ CheckCancel(p, l)
        PROVE  VersionsInv'
    <2>1. UNCHANGED <<mailed, pw, last, redeemed>>
      BY <1>8 DEF PurgeLinks, InsertLink, MarkConsumed, DeleteLink, DropLinks, ResetDies,
                  CheckLink, CheckCancel
    <2>2. \E stage, l : ResetGoto(p, stage, l)
      BY <1>8 DEF PurgeLinks, InsertLink, MarkConsumed, DeleteLink, DropLinks, ResetDies,
                  CheckLink, CheckCancel, End
    <2> QED
      BY <1>1, <2>1, <2>2 DEF VersionsInv
  <1>9. CASE (\E l \in Link : LinkLapses(l)) \/ UNCHANGED resetVars
    BY <1>9 DEF LinkLapses, resetVars, VersionsInv
  <1> QED
    BY <1>3, <1>4, <1>5, <1>6, <1>7, <1>8, <1>9 DEF ResetNext

\* The links, the password and the requests keep their types.
LEMMA ResetTypes == ResetSpec => []ResetTypeOK
  <1>1. ResetInit => VersionsInv
    BY MaxChangeAssumption DEF ResetInit, IdleProc, Version, VersionsInv
  <1>2. LinksInv /\ PasswordInv /\ VersionsInv => ResetTypeOK
    <2> SUFFICES ASSUME LinksInv, PasswordInv, VersionsInv PROVE ResetTypeOK
      OBVIOUS
    <2>1. pw \in [ver : Version, legacy : BOOLEAN]
      BY DEF PasswordInv, VersionsInv
    <2>2. ASSUME NEW p \in Resetter
          PROVE  proc[p] \in [pc : {"idle", "insert", "mail", "write", "consume", "cancel",
                                    "drop", "rehash"},
                              link : Link \cup {NoLink}, read : Version]
      BY DEF LinksInv, VersionsInv, ResetRow
    <2>3. \A p \in Resetter : proc[p].pc \in {"mail", "write", "consume", "cancel"}
                                => links[proc[p].link] # "none"
      BY DEF LinksInv
    <2>4. /\ links \in [Link -> {"none", "pending", "lapsed", "consumed", "deleted"}]
          /\ over \in [Link -> {"no", "purged", "used", "cancelled", "changed"}]
          /\ proc \in [Resetter -> ResetRow]
      BY DEF LinksInv
    <2>5. pw.legacy => pw.ver = 0
      BY DEF PasswordInv
    <2> QED
      BY <2>1, <2>2, <2>3, <2>4, <2>5 DEF ResetTypeOK, VersionsInv
  <1> QED
    BY <1>1, <1>2, VersionsStep, ResetInvInit, LinksInvStep, PasswordInvStep, PTL DEF ResetSpec

CollidedIsFlag == collided \in BOOLEAN

LEMMA CollidedType == CollidedIsFlag /\ [AdminsNext]_adminVars => CollidedIsFlag'
  BY DEF AdminsNext, adminVars, BeginSignIn, EndSignIn, SignInFails, Tick, BeginPromote,
         BeginRemoval, CountAdmins, WriteRank, ActionDies, CollidedIsFlag

\* The ranks, the claims and the actions keep their types.
LEMMA AdminsTypes == AdminsSpec => []AdminsTypeOK
  <1>1. AdminsInit => CollidedIsFlag
    BY DEF AdminsInit, CollidedIsFlag
  <1>2. AdminsInv /\ ClaimsInv /\ [AdminsNext]_adminVars => AdminsInv' /\ ClaimsInv'
    BY AdminsInvStep
  <1>3. AdminsInv /\ ClaimsInv /\ CollidedIsFlag => AdminsTypeOK
    BY DEF AdminsInv, ClaimsInv, ActionRow, VisitRow, AdminsTypeOK, CollidedIsFlag
  <1> QED
    BY <1>1, <1>2, <1>3, CollidedType, AdminsInvInit, PTL DEF AdminsSpec

\* The challenges that the device has signed.
Made == {c \in Challenge : challenge[c].made}

\* No counter is ahead of the device, which has counted no more than it signed.
CountsInv ==
    /\ device.counter <= Cardinality(Made)
    /\ ~ device.counts => device.counter = 0
    /\ credential.counter <= device.counter /\ highest <= device.counter
    /\ \A c \in Challenge : challenge[c].signed <= device.counter
    /\ \A v \in Verifier : verify[v].read <= device.counter /\ verify[v].challenge \in Challenge
    /\ enrol \in [Enroller -> {"idle", "insert", "delete"}]
    /\ invitation \in {"live", "gone"} /\ crossing \in BOOLEAN

LEMMA MadeSize ==
    /\ IsFiniteSet(Made) /\ Cardinality(Made) \in Nat
    /\ Cardinality(Challenge) \in Nat /\ Cardinality(Made) <= Cardinality(Challenge)
  <1>1. Made \subseteq Challenge
    BY DEF Made
  <1> QED
    BY <1>1, ChallengeAssumption, FS_Subset, FS_CardinalityType

LEMMA CountsInit == PasskeyInit => CountsInv
  <1> SUFFICES ASSUME PasskeyInit PROVE CountsInv
    OBVIOUS
  <1>1. /\ device.counter = 0 /\ credential.counter = 0 /\ highest = 0
        /\ \A c \in Challenge : challenge[c].signed = 0
        /\ \A v \in Verifier : verify[v].read = 0
                                 /\ verify[v].challenge = CHOOSE c \in Challenge : TRUE
    BY DEF PasskeyInit, NoChallenge, NotVerifying
  <1>2. (CHOOSE c \in Challenge : TRUE) \in Challenge
    BY ChallengeAssumption
  <1>3. /\ \A r \in Enroller : enrol[r] = "idle"
        /\ enrol = [r \in Enroller |-> "idle"] /\ invitation = "live" /\ crossing = FALSE
    BY DEF PasskeyInit
  <1>4. enrol \in [Enroller -> {"idle", "insert", "delete"}]
    BY <1>3
  <1>5. 0 <= Cardinality(Made)
    BY MadeSize
  <1>6. \A v \in Verifier : verify[v].challenge \in Challenge
    BY <1>1, <1>2, Zenon
  <1>7. /\ device.counter <= Cardinality(Made) /\ device.counter = 0
        /\ credential.counter <= device.counter /\ highest <= device.counter
        /\ \A c \in Challenge : challenge[c].signed <= device.counter
        /\ \A v \in Verifier : verify[v].read <= device.counter
    BY <1>1, <1>5
  <1>8. invitation \in {"live", "gone"} /\ crossing \in BOOLEAN
    BY <1>3
  <1> QED
    BY <1>4, <1>6, <1>7, <1>8 DEF CountsInv

\* A call of a verification.
LEMMA VerifierCounts ==
    ASSUME CounterInv, CountsInv, UNCHANGED <<device, enrol, invitation>>,
           \A c \in Challenge : /\ challenge'[c].signed = challenge[c].signed
                                /\ challenge'[c].made = challenge[c].made,
           \A v \in Verifier : verify'[v].challenge \in Challenge
                                 /\ verify'[v].read <= device.counter,
           credential'.counter <= device.counter, highest' <= device.counter,
           crossing' \in BOOLEAN
    PROVE  CountsInv'
  <1>1. Made' = Made
    BY DEF Made
  <1> QED
    BY <1>1 DEF CountsInv

LEMMA ProceedCounts ==
    ASSUME CountsInv, verify \in [Verifier -> VerifyRow], NEW v \in Verifier,
           NEW next, verify' = [verify EXCEPT ![v].pc = next]
    PROVE  \A w \in Verifier :
               verify'[w].challenge \in Challenge /\ verify'[w].read <= device.counter
  <1> SUFFICES ASSUME NEW w \in Verifier
               PROVE  verify'[w].challenge \in Challenge /\ verify'[w].read <= device.counter
    OBVIOUS
  <1>1. verify[w].challenge \in Challenge /\ verify[w].read <= device.counter
    BY DEF CountsInv
  <1>2. verify[w] \in VerifyRow
    OBVIOUS
  <1>3. verify'[w] = IF w = v THEN [verify[w] EXCEPT !.pc = next] ELSE verify[w]
    OBVIOUS
  <1> QED
    BY <1>1, <1>2, <1>3 DEF VerifyRow

LEMMA CountsStep ==
    ASSUME CounterInv, CountsInv, [PasskeyNext]_passkeyVars
    PROVE  CountsInv'
  <1> DEFINE d == device.counter
  <1>t. /\ credential \in [there : BOOLEAN, counter : Nat] /\ highest \in Nat
        /\ device \in [counts : BOOLEAN, counter : Nat] /\ d \in Nat
        /\ verify \in [Verifier -> VerifyRow]
        /\ challenge \in [Challenge -> [row : {"unused", "live", "lapsed", "gone"},
                                        use : {"sign-in", "availability"},
                                        signed : Nat, made : BOOLEAN]]
    BY DEF CounterInv
  <1>n. \A c \in Challenge : /\ NotVerifying(c).read <= d /\ NotVerifying(c).challenge \in Challenge
    BY <1>t DEF NotVerifying
  <1>1. ASSUME NEW r \in Enroller, BeginEnrol(r) \/ DeleteInvitation(r) \/ InsertCredential(r)
        PROVE  CountsInv'
    <2>1. UNCHANGED <<device, challenge, verify>>
      BY <1>1 DEF BeginEnrol, DeleteInvitation, InsertCredential
    <2>c. \/ UNCHANGED <<credential, highest, crossing>>
          \/ credential' = [there |-> TRUE, counter |-> 0] /\ highest' = 0 /\ crossing' = FALSE
      BY <1>1 DEF BeginEnrol, DeleteInvitation, InsertCredential
    <2>2. /\ credential'.counter <= d /\ highest' <= d /\ crossing' \in BOOLEAN
      <3>1. CASE UNCHANGED <<credential, highest, crossing>>
        BY <3>1 DEF CountsInv
      <3>2. CASE /\ credential' = [there |-> TRUE, counter |-> 0] /\ highest' = 0
                 /\ crossing' = FALSE
        <4>1. credential'.counter = 0 /\ highest' = 0
          BY <3>2
        <4>2. crossing' \in BOOLEAN
          BY <3>2
        <4>3. 0 <= d
          BY <1>t
        <4> HIDE DEF d
        <4> QED
          BY <4>1, <4>2, <4>3
      <3> QED
        BY <2>c, <3>1, <3>2
    <2>3. /\ enrol' \in [Enroller -> {"idle", "insert", "delete"}]
          /\ invitation' \in {"live", "gone"}
      BY <1>1 DEF BeginEnrol, DeleteInvitation, InsertCredential, CountsInv
    <2>4. Made' = Made
      BY <2>1 DEF Made
    <2> QED
      BY <2>1, <2>2, <2>3, <2>4 DEF CountsInv
  <1>2. CASE RemovePasskey
    <2>1. UNCHANGED <<device, challenge, verify, enrol, invitation, highest, crossing>>
          /\ credential'.counter = 0
      BY <1>2 DEF RemovePasskey
    <2> QED
      BY <2>1, <1>t, VerifierCounts DEF CountsInv
  <1>3. ASSUME NEW c \in Challenge, NEW use \in {"sign-in", "availability"}, IssueChallenge(c, use)
        PROVE  CountsInv'
    <2>1. /\ \A b \in Challenge : challenge'[b].signed = challenge[b].signed
                                    /\ challenge'[b].made = challenge[b].made
          /\ UNCHANGED <<device, verify, enrol, invitation, highest, crossing, credential>>
      BY <1>3, <1>t DEF IssueChallenge
    <2> QED
      BY <2>1, VerifierCounts DEF CountsInv
  <1>4. ASSUME NEW c \in Challenge, Sign(c) PROVE CountsInv'
    <2> DEFINE n == IF device.counts THEN d + 1 ELSE 0
    <2>1. /\ device' = [device EXCEPT !.counter = n] /\ ~ challenge[c].made
          /\ challenge' = [challenge EXCEPT ![c].signed = n, ![c].made = TRUE]
          /\ UNCHANGED <<credential, verify, enrol, invitation, highest, crossing>>
      BY <1>4 DEF Sign
    <2>2. /\ device'.counter = n /\ device'.counts = device.counts /\ n \in Nat /\ d <= n
          /\ ~ device.counts => n = 0
      BY <1>t, <2>1 DEF CountsInv
    <2>3. /\ challenge'[c].signed = n /\ challenge'[c].made
          /\ \A b \in Challenge \ {c} : challenge'[b] = challenge[b]
      BY <1>t, <2>1
    <2>4. Made' = Made \cup {c} /\ c \notin Made
      BY <2>1, <2>3 DEF Made
    <2>5. Cardinality(Made') = Cardinality(Made) + 1
      BY <2>4, MadeSize, FS_AddElement
    <2>6. n <= Cardinality(Made')
      BY <1>t, <2>2, <2>5, MadeSize DEF CountsInv
    <2> HIDE DEF n
    <2>7. \A b \in Challenge : challenge'[b].signed <= n
      <3> SUFFICES ASSUME NEW b \in Challenge PROVE challenge'[b].signed <= n
        OBVIOUS
      <3>1. challenge[b].signed <= d /\ challenge[b].signed \in Nat
        BY <1>t DEF CountsInv
      <3> QED
        BY <1>t, <2>2, <2>3, <3>1
    <2>8. \A v \in Verifier : verify[v].read <= n
      <3> SUFFICES ASSUME NEW v \in Verifier PROVE verify[v].read <= n
        OBVIOUS
      <3>1. verify[v].read <= d /\ verify[v].read \in Nat
        BY <1>t DEF CountsInv, VerifyRow
      <3> QED
        BY <1>t, <2>2, <3>1
    <2>9. credential.counter <= n /\ highest <= n
      BY <1>t, <2>2 DEF CountsInv
    <2> QED
      BY <2>1, <2>2, <2>6, <2>7, <2>8, <2>9 DEF CountsInv
  <1>5. ASSUME NEW c \in Challenge, LapseChallenge(c) PROVE CountsInv'
    <2>1. /\ \A b \in Challenge : challenge'[b].signed = challenge[b].signed
                                    /\ challenge'[b].made = challenge[b].made
          /\ UNCHANGED <<device, verify, enrol, invitation, highest, crossing, credential>>
      BY <1>5, <1>t DEF LapseChallenge
    <2> QED
      BY <2>1, VerifierCounts DEF CountsInv
  <1>6. ASSUME NEW c \in Challenge, ConsumeToken(c) \/ LapseToken(c) PROVE CountsInv'
    BY <1>6, VerifierCounts DEF ConsumeToken, LapseToken, CountsInv
  <1>7. ASSUME NEW v \in Verifier, NEW c \in Challenge, ReadChallenge(v, c) PROVE CountsInv'
    <2>1. UNCHANGED <<credential, device, challenge, enrol, invitation, highest, crossing>>
      BY <1>7 DEF ReadChallenge
    <2>2. PICK next : next = IF challenge[c].row = "live" THEN "find" ELSE "drop"
      OBVIOUS
    <2>3. PICK new : new = [pc |-> next, challenge |-> c, read |-> 0]
      OBVIOUS
    <2>4. new = [NotVerifying(c) EXCEPT !.pc = next]
      BY <2>3 DEF NotVerifying
    <2>5. verify' = [verify EXCEPT ![v] = new]
      BY <1>7, <2>2, <2>4 DEF ReadChallenge
    <2>6. new.challenge = c /\ new.read = 0
      BY <2>3
    <2> HIDE <2>3, <2>4
    <2>7. \A w \in Verifier : verify'[w].challenge \in Challenge /\ verify'[w].read <= d
      <3> SUFFICES ASSUME NEW w \in Verifier
                   PROVE  verify'[w].challenge \in Challenge /\ verify'[w].read <= d
        OBVIOUS
      <3>1. verify'[w] = IF w = v THEN new ELSE verify[w]
        BY <1>t, <2>5
      <3> QED
        BY <1>t, <2>6, <3>1 DEF CountsInv
    <2> QED
      BY <2>1, <2>7, VerifierCounts DEF CountsInv
  <1>8. ASSUME NEW v \in Verifier, FindCredential(v) PROVE CountsInv'
    <2>1. UNCHANGED <<credential, device, challenge, enrol, invitation, highest, crossing>>
      BY <1>8 DEF FindCredential
    <2>2. \/ verify' = [verify EXCEPT ![v].pc = "count", ![v].read = credential.counter]
          \/ verify' = [verify EXCEPT ![v] = NotVerifying(verify[v].challenge)]
      BY <1>8 DEF FindCredential
    <2>3. \A w \in Verifier : verify'[w].challenge \in Challenge /\ verify'[w].read <= d
      <3> SUFFICES ASSUME NEW w \in Verifier
                   PROVE  verify'[w].challenge \in Challenge /\ verify'[w].read <= d
        OBVIOUS
      <3>1. /\ verify[w].challenge \in Challenge /\ verify[w].read <= d
            /\ verify[v].challenge \in Challenge /\ credential.counter <= d
        BY DEF CountsInv
      <3>2. CASE verify' = [verify EXCEPT ![v].pc = "count", ![v].read = credential.counter]
        <4>1. verify[v] \in VerifyRow
          BY <1>t
        <4>2. verify'[w] = IF w = v
                           THEN [verify[v] EXCEPT !.pc = "count", !.read = credential.counter]
                           ELSE verify[w]
          BY <1>t, <3>2
        <4> QED
          BY <3>1, <4>1, <4>2 DEF VerifyRow
      <3>3. CASE verify' = [verify EXCEPT ![v] = NotVerifying(verify[v].challenge)]
        BY <1>t, <1>n, <3>1, <3>3
      <3> QED
        BY <2>2, <3>2, <3>3
    <2> QED
      BY <2>1, <2>3, VerifierCounts DEF CountsInv
  <1>9. ASSUME NEW v \in Verifier, UpdateCounter(v) PROVE CountsInv'
    <2>1. challenge[verify[v].challenge].signed <= d
      BY DEF CountsInv
    <2>2. /\ credential'.counter <= d /\ highest' <= d /\ crossing' \in BOOLEAN
          /\ UNCHANGED <<device, challenge, enrol, invitation>>
      BY <1>9, <1>t, <2>1 DEF UpdateCounter, Counted, CountsInv
    <2>3. \A w \in Verifier : verify'[w].challenge \in Challenge /\ verify'[w].read <= d
      <3>1. verify' = [verify EXCEPT ![v].pc = "delete"]
        BY <1>9 DEF UpdateCounter, Proceed
      <3> QED
        BY <1>t, <3>1, ProceedCounts
    <2> QED
      BY <2>2, <2>3, VerifierCounts
  <1>10. ASSUME NEW v \in Verifier, DeleteChallenge(v) PROVE CountsInv'
    <2>1. /\ \A b \in Challenge : challenge'[b].signed = challenge[b].signed
                                    /\ challenge'[b].made = challenge[b].made
          /\ UNCHANGED <<device, credential, enrol, invitation, highest, crossing>>
      BY <1>10, <1>t DEF DeleteChallenge
    <2>2. \/ verify' = [verify EXCEPT ![v].pc = "issue"]
          \/ verify' = [verify EXCEPT ![v] = NotVerifying(verify[v].challenge)]
      BY <1>10 DEF DeleteChallenge, Proceed
    <2>3. \A w \in Verifier : verify'[w].challenge \in Challenge /\ verify'[w].read <= d
      <3>1. CASE verify' = [verify EXCEPT ![v].pc = "issue"]
        BY <1>t, <3>1, ProceedCounts
      <3>2. CASE verify' = [verify EXCEPT ![v] = NotVerifying(verify[v].challenge)]
        BY <1>t, <1>n, <3>2 DEF CountsInv
      <3> QED
        BY <2>2, <3>1, <3>2
    <2> QED
      BY <2>1, <2>3, VerifierCounts DEF CountsInv
  <1>11. ASSUME NEW v \in Verifier, IssueToken(v) \/ VerifierDies(v) PROVE CountsInv'
    <2>1. UNCHANGED <<credential, device, challenge, enrol, invitation, highest, crossing>>
      BY <1>11 DEF IssueToken, VerifierDies
    <2>2. verify' = [verify EXCEPT ![v] = NotVerifying(verify[v].challenge)]
      BY <1>11 DEF IssueToken, VerifierDies
    <2>3. \A w \in Verifier : verify'[w].challenge \in Challenge /\ verify'[w].read <= d
      BY <1>t, <1>n, <2>2 DEF CountsInv
    <2> QED
      BY <2>1, <2>3, VerifierCounts DEF CountsInv
  <1>12. CASE UNCHANGED passkeyVars
    BY <1>12, VerifierCounts DEF passkeyVars, CountsInv
  <1> QED
    BY <1>1, <1>2, <1>3, <1>4, <1>5, <1>6, <1>7, <1>8, <1>9, <1>10, <1>11, <1>12
       DEF PasskeyNext

\* The row, the challenges and the verifications keep their types.
LEMMA PasskeyTypes == PasskeySpec => []PasskeyTypeOK
  <1>1. OwedInv /\ CountsInv => PasskeyTypeOK
    <2> SUFFICES ASSUME OwedInv, CountsInv PROVE PasskeyTypeOK
      OBVIOUS
    <2> DEFINE Small(n) == n \in Nat /\ n <= device.counter
    <2>t. /\ credential \in [there : BOOLEAN, counter : Nat] /\ highest \in Nat
          /\ device \in [counts : BOOLEAN, counter : Nat]
          /\ verify \in [Verifier -> VerifyRow]
          /\ challenge \in [Challenge -> [row : {"unused", "live", "lapsed", "gone"},
                                          use : {"sign-in", "availability"},
                                          signed : Nat, made : BOOLEAN]]
          /\ tokens \in [Challenge -> Nat] /\ sessions \in [Challenge -> Nat] /\ owed \in Nat
      BY DEF OwedInv, ReplayInv, CounterInv
    <2>1. ASSUME NEW n, Small(n) PROVE n \in 0 .. MaxCount
      BY <2>1, <2>t, MadeSize DEF CountsInv, MaxCount
    <2>2. /\ Small(credential.counter) /\ Small(highest) /\ Small(device.counter)
          /\ \A c \in Challenge : Small(challenge[c].signed)
          /\ \A v \in Verifier : Small(verify[v].read)
      BY <2>t DEF CountsInv, VerifyRow
    <2> HIDE DEF Small
    <2>3. /\ credential.counter \in 0 .. MaxCount /\ highest \in 0 .. MaxCount
          /\ device.counter \in 0 .. MaxCount
          /\ \A c \in Challenge : challenge[c].signed \in 0 .. MaxCount
          /\ \A v \in Verifier : verify[v].read \in 0 .. MaxCount
      BY <2>1, <2>2
    <2> DEFINE Counter == 0 .. MaxCount
    <2> HIDE DEF Counter
    <2>4. challenge \in [Challenge -> [row : {"unused", "live", "lapsed", "gone"},
                                       use : {"sign-in", "availability"},
                                       signed : Counter, made : BOOLEAN]]
      BY <2>t, <2>3 DEF Counter
    <2>5. verify \in [Verifier -> [pc : {"idle", "find", "count", "delete", "issue", "drop"},
                                   challenge : Challenge, read : Counter]]
      <3>1. \A v \in Verifier : verify[v].challenge \in Challenge /\ verify[v].read \in Counter
        BY <2>3 DEF CountsInv, Counter
      <3> QED
        BY <2>t, <3>1 DEF VerifyRow
    <2>6. /\ credential \in [there : BOOLEAN, counter : Counter] /\ highest \in Counter
          /\ device \in [counts : BOOLEAN, counter : Counter]
      BY <2>t, <2>3 DEF Counter
    <2> QED
      BY <2>t, <2>4, <2>5, <2>6 DEF PasskeyTypeOK, CountsInv, Counter
  <1>2. OwedInv => CounterInv
    BY DEF OwedInv, ReplayInv
  <1> QED
    BY <1>1, <1>2, OwedInvInit, OwedInvStep, CountsInit, CountsStep, PTL DEF PasskeySpec

-----------------------------------------------------------------------------
(* The sum of the parts of MCAccounts.                                     *)

\* Whichever part moves in MCAccounts, its behaviours are behaviours of every
\* part's own specification: what is proved of a part holds in the sum.
THEOREM AccountsRunItsParts ==
    AccountsSpec => /\ ResetSpec /\ Spec /\ TotpSpec /\ EmailSpec /\ PasskeySpec
                    /\ AdminsSpec /\ UploadSpec /\ SettingsSpec /\ PoliciesSpec
                    /\ DiscoverySpec
  <1>1. AccountsInit => /\ ResetInit /\ Init /\ TotpInit /\ EmailInit /\ PasskeyInit
                        /\ AdminsInit /\ UploadInit /\ SettingsInit /\ PoliciesInit
                        /\ DiscoveryInit
    BY DEF AccountsInit
  <1>2. ASSUME [AccountsNext]_accountVars
        PROVE  /\ [ResetNext]_resetVars /\ [Next]_vars /\ [TotpNext]_totpVars
               /\ [EmailNext]_emailVars /\ [PasskeyNext]_passkeyVars
               /\ [AdminsNext]_adminVars /\ [UploadNext]_uploadVars
               /\ [SettingsNext]_settingsVars /\ [PoliciesNext]_policyVars
               /\ [DiscoveryNext]_discoveryVars
    BY <1>2 DEF AccountsNext, accountVars
  <1> QED
    BY <1>1, <1>2, PTL
       DEF AccountsSpec, ResetSpec, Spec, TotpSpec, EmailSpec, PasskeySpec, AdminsSpec,
           UploadSpec, SettingsSpec, PoliciesSpec, DiscoverySpec

\* The address, the codes and the requests keep their types, which EmailInv contains.
LEMMA EmailTypes == EmailSpec => []EmailTypeOK
  <1>1. EmailInv => EmailTypeOK
    BY DEF EmailInv
  <1> QED
    BY <1>1, EmailInvInit, EmailInvStep, PTL DEF EmailSpec

\* The tables and the locals of every part keep their types, for any links,
\* codes, challenges, administrators, pictures, saves, policies and scopes.
THEOREM AccountsTypeCorrect == AccountsSpec => []AccountsTypeOK
  <1>1. AccountsSpec => /\ []ResetTypeOK /\ []TypeOK /\ []TotpTypeOK /\ []EmailTypeOK
                        /\ []PasskeyTypeOK /\ []AdminsTypeOK /\ []UploadTypeOK
                        /\ []SettingsTypeOK /\ []PoliciesTypeOK /\ []DiscoveryTypeOK
    BY AccountsRunItsParts, ResetTypes, OtpTypeCorrect, TotpTypeCorrect, EmailTypes,
       PasskeyTypes, AdminsTypes, UploadTypes, SettingsTypes, PoliciesTypes, DiscoveryTypes
  <1>2. ResetTypeOK /\ TypeOK /\ TotpTypeOK /\ EmailTypeOK /\ PasskeyTypeOK /\ AdminsTypeOK
        /\ UploadTypeOK /\ SettingsTypeOK /\ PoliciesTypeOK /\ DiscoveryTypeOK
           => AccountsTypeOK
    BY DEF AccountsTypeOK
  <1> QED
    BY <1>1, <1>2, PTL
=============================================================================

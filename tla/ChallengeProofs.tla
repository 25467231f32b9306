-------------------------- MODULE ChallengeProofs --------------------------
(***************************************************************************)
(* Proofs about the mailed codes: who may compare how many of them         *)
(* (OtpChallenge), and what a code proves about an address                 *)
(* (EmailVerification).  The two share no state; each part opens with its  *)
(* inductive invariant.                                                    *)
(***************************************************************************)
EXTENDS OtpChallenge, EmailVerification, FiniteSetTheorems, TLAPS

-----------------------------------------------------------------------------
(* OtpChallenge, for any finite set of concurrent requests and any limit.  *)
(* IInv is inductive: the two halves of EveryGuessCounted say where each   *)
(* wrong code is accounted for while the row is there, and once the row is *)
(* deleted no code is compared any more.                                   *)

\* A set of requests is finite and no larger than Proc.
LEMMA SubsetSize ==
    ASSUME NEW S \in SUBSET Proc
    PROVE  /\ IsFiniteSet(S) /\ Cardinality(S) \in Nat
           /\ Cardinality(Proc) \in Nat /\ Cardinality(S) <= Cardinality(Proc)
  <1>1. IsFiniteSet(Proc)
    BY ProcAssumption
  <1>2. IsFiniteSet(S) /\ Cardinality(S) <= Cardinality(Proc)
    BY <1>1, FS_Subset
  <1> QED
    BY <1>1, <1>2, FS_CardinalityType

\* One request enters, or leaves, a set of requests.
LEMMA EnterSize ==
    ASSUME NEW S \in SUBSET Proc, NEW p \in Proc, p \notin S
    PROVE  Cardinality(S \cup {p}) = Cardinality(S) + 1
  BY SubsetSize, FS_AddElement

LEMMA LeaveSize ==
    ASSUME NEW S \in SUBSET Proc, NEW p \in S
    PROVE  Cardinality(S \ {p}) = Cardinality(S) - 1
  BY SubsetSize, FS_RemoveElement

LEMMA IInvInit == Init => IInv
  <1> SUFFICES ASSUME Init PROVE IInv
    OBVIOUS
  <1>1. Counting = {} /\ Consuming = {} /\ Exceeding = {}
    BY DEF Init, Counting, Consuming, Exceeding
  <1>2. Cardinality({}) = 0 /\ Cardinality(Proc) \in Nat /\ Cardinality(Proc) > 0
    BY ProcAssumption, FS_EmptySet, FS_CardinalityType, SMT
  <1>3. TypeOK
    BY MaxDeathsAssumption DEF Init, TypeOK
  <1> QED
    BY <1>1, <1>2, <1>3, MaxAttemptsAssumption
    DEF Init, IInv, EveryGuessCounted, GuessesBounded, AcceptedBounded

\* What a request's move does to the three sets.
LEMMA SetsMove ==
    ASSUME TypeOK, NEW p \in Proc, NEW l, Goto(p, l)
    PROVE  /\ Counting' = IF l = "count" THEN Counting \cup {p} ELSE Counting \ {p}
           /\ Exceeding' = IF l = "exceeded" THEN Exceeding \cup {p} ELSE Exceeding \ {p}
           /\ Consuming' = IF l = "consume" THEN Consuming \cup {p} ELSE Consuming \ {p}
  <1>1. \A q \in Proc : pc'[q] = IF q = p THEN l ELSE pc[q]
    BY DEF TypeOK, Goto
  <1> QED
    BY <1>1 DEF Counting, Exceeding, Consuming

\* The sizes are numbers, none larger than the number of requests.
LEMMA Sizes ==
    /\ Cardinality(Proc) \in Nat /\ Cardinality(Counting) \in Nat
    /\ Cardinality(Consuming) \in Nat /\ Cardinality(Counting \cup Exceeding) \in Nat
    /\ Cardinality(Counting \cup Exceeding) <= Cardinality(Proc)
  <1>1. Counting \in SUBSET Proc /\ Consuming \in SUBSET Proc
        /\ Counting \cup Exceeding \in SUBSET Proc
    BY DEF Counting, Consuming, Exceeding
  <1> QED
    BY <1>1, SubsetSize

\* Type correctness is preserved by every step.
LEMMA TypeStep == TypeOK /\ [Next]_vars => TypeOK'
  <1> SUFFICES ASSUME TypeOK, [Next]_vars PROVE TypeOK'
    OBVIOUS
  <1> USE DEF TypeOK
  <1>1. ASSUME NEW p \in Proc, PresentWrong(p) PROVE TypeOK'
    BY <1>1 DEF PresentWrong, Goto
  <1>2. ASSUME NEW p \in Proc, PresentRight(p) PROVE TypeOK'
    BY <1>2 DEF PresentRight, Goto
  <1>3. ASSUME NEW p \in Proc, PresentLate(p) PROVE TypeOK'
    BY <1>3 DEF PresentLate, Goto
  <1>4. ASSUME NEW p \in Proc, IncrementOtpFailedAttempts(p) PROVE TypeOK'
    BY <1>4 DEF IncrementOtpFailedAttempts, Goto
  <1>5. ASSUME NEW p \in Proc, DeleteRow(p) PROVE TypeOK'
    BY <1>5 DEF DeleteRow, DeleteById, Goto
  <1>6. ASSUME NEW p \in Proc, Die(p) PROVE TypeOK'
    BY <1>6, MaxDeathsAssumption DEF Die, Goto
  <1>7. CASE Lapse
    BY <1>7 DEF Lapse
  <1>8. CASE Replace
    BY <1>8 DEF Replace, DeleteById
  <1>9. CASE UNCHANGED vars
    BY <1>9 DEF vars
  <1> QED
    BY <1>1, <1>2, <1>3, <1>4, <1>5, <1>6, <1>7, <1>8, <1>9 DEF Next

\* The accounting of the wrong codes is preserved by every step.
LEMMA GuessStep ==
    TypeOK /\ EveryGuessCounted /\ GuessesBounded /\ [Next]_vars
      => EveryGuessCounted' /\ GuessesBounded'
  <1> SUFFICES ASSUME TypeOK, EveryGuessCounted, GuessesBounded, [Next]_vars
               PROVE  EveryGuessCounted' /\ GuessesBounded'
    OBVIOUS
  <1> USE MaxAttemptsAssumption, MaxDeathsAssumption
  <1>s. Counting \in SUBSET Proc /\ Exceeding \in SUBSET Proc
        /\ Counting \cup Exceeding \in SUBSET Proc
    BY DEF Counting, Exceeding
  <1>t. /\ failed \in Nat /\ guesses \in Nat /\ deaths \in Nat
        /\ Cardinality(Counting) \in Nat /\ Cardinality(Counting \cup Exceeding) \in Nat
        /\ Cardinality(Proc) \in Nat
        /\ Cardinality(Counting \cup Exceeding) <= Cardinality(Proc)
    BY Sizes, SMT DEF TypeOK
  <1>u. /\ Cardinality(Counting)' \in Nat /\ Cardinality(Counting \cup Exceeding)' \in Nat
        /\ Cardinality(Counting \cup Exceeding)' <= Cardinality(Proc)
    <2>1. Counting' \in SUBSET Proc /\ (Counting \cup Exceeding)' \in SUBSET Proc
      BY DEF Counting, Exceeding
    <2> QED
      BY <2>1, SubsetSize
  \* One more wrong code: the request is about to count it.
  <1>1. ASSUME NEW p \in Proc, PresentWrong(p)
        PROVE  EveryGuessCounted' /\ GuessesBounded'
    <2>1. p \notin Counting /\ p \notin Counting \cup Exceeding
      BY <1>1 DEF PresentWrong, Counting, Exceeding
    <2>2. Counting' = Counting \cup {p}
          /\ (Counting \cup Exceeding)' = (Counting \cup Exceeding) \cup {p}
      BY <1>1, <2>1, SetsMove DEF PresentWrong
    <2>3. Cardinality(Counting)' = Cardinality(Counting) + 1
          /\ Cardinality(Counting \cup Exceeding)' = Cardinality(Counting \cup Exceeding) + 1
      BY <2>1, <2>2, <1>s, EnterSize
    <2> QED
      BY <1>1, <2>3, <1>t, <1>u DEF PresentWrong, EveryGuessCounted, GuessesBounded
  <1>2. ASSUME NEW p \in Proc, PresentRight(p) \/ PresentLate(p)
        PROVE  EveryGuessCounted' /\ GuessesBounded'
    <2>1. p \notin Counting /\ p \notin Exceeding
      BY <1>2 DEF PresentRight, PresentLate, Counting, Exceeding
    <2>2. Counting' = Counting /\ Exceeding' = Exceeding
      BY <1>2, <2>1, SetsMove DEF PresentRight, PresentLate
    <2> QED
      BY <1>2, <2>2, <1>t DEF PresentRight, PresentLate, EveryGuessCounted, GuessesBounded
  \* A counted code moves from Counting into the counter; at the limit the
  \* request moves on to Exceeding.
  <1>3. ASSUME NEW p \in Proc, IncrementOtpFailedAttempts(p)
        PROVE  EveryGuessCounted' /\ GuessesBounded'
    <2>1. p \in Counting /\ p \notin Exceeding
      BY <1>3 DEF IncrementOtpFailedAttempts, Counting, Exceeding
    <2>2. CASE row = "deleted"
      BY <2>2, <1>3, <1>t DEF IncrementOtpFailedAttempts, EveryGuessCounted, GuessesBounded
    <2>3. CASE row # "deleted" /\ Exceeded(failed + 1)
      <3>1. Counting' = Counting \ {p} /\ (Counting \cup Exceeding)' = Counting \cup Exceeding
        BY <2>1, <2>3, <1>3, SetsMove DEF IncrementOtpFailedAttempts
      <3>2. Cardinality(Counting)' = Cardinality(Counting) - 1
        BY <3>1, <2>1, <1>s, LeaveSize
      <3>3. Cardinality(Counting \cup Exceeding)' = Cardinality(Counting \cup Exceeding)
        BY <3>1
      <3>4. failed' = failed + 1 /\ guesses' = guesses /\ deaths' = deaths /\ row' = row
        BY <2>3, <1>3 DEF IncrementOtpFailedAttempts
      <3> QED
        BY <2>3, <3>2, <3>3, <3>4, <1>t, <1>u DEF EveryGuessCounted, GuessesBounded
    <2>4. CASE row # "deleted" /\ ~Exceeded(failed + 1)
      <3>1. Counting' = Counting \ {p} /\ Exceeding' = Exceeding
        BY <2>1, <2>4, <1>3, SetsMove DEF IncrementOtpFailedAttempts
      <3>2. Cardinality(Counting)' = Cardinality(Counting) - 1
        BY <3>1, <2>1, <1>s, LeaveSize
      <3>3. Cardinality(Counting)' <= Cardinality(Counting \cup Exceeding)'
        <4>1. Counting' \in SUBSET (Counting \cup Exceeding)'
          OBVIOUS
        <4>2. IsFiniteSet((Counting \cup Exceeding)')
          BY SubsetSize DEF Counting, Exceeding
        <4> QED
          BY <4>1, <4>2, FS_Subset
      <3>4. failed' = failed + 1 /\ failed + 1 <= MaxAttempts - 1
            /\ guesses' = guesses /\ deaths' = deaths
        BY <2>4, <1>3, <1>t DEF IncrementOtpFailedAttempts, Exceeded
      <3> QED
        BY <2>4, <3>2, <3>3, <3>4, <1>t, <1>u DEF EveryGuessCounted, GuessesBounded
    <2> QED
      BY <2>2, <2>3, <2>4
  <1>4. ASSUME NEW p \in Proc, DeleteRow(p)
        PROVE  EveryGuessCounted' /\ GuessesBounded'
    BY <1>4, <1>t DEF DeleteRow, DeleteById, EveryGuessCounted, GuessesBounded
  \* A request that dies may leave its code uncounted, or the row in place.
  <1>5. ASSUME NEW p \in Proc, Die(p)
        PROVE  EveryGuessCounted' /\ GuessesBounded'
    <2>1. Counting' = Counting \ {p} /\ Exceeding' = Exceeding \ {p}
      BY <1>5, SetsMove DEF Die
    <2>2. (Counting \cup Exceeding)' = (Counting \cup Exceeding) \ {p}
      BY <2>1
    <2>3. \A S \in SUBSET Proc : Cardinality(S) <= Cardinality(S \ {p}) + 1
      BY SubsetSize, FS_RemoveElement
    <2>4. Cardinality(Counting) <= Cardinality(Counting)' + 1
          /\ Cardinality(Counting \cup Exceeding) <= Cardinality(Counting \cup Exceeding)' + 1
      BY <2>1, <2>2, <2>3, <1>s
    <2> QED
      BY <1>5, <2>4, <1>t, <1>u DEF Die, EveryGuessCounted, GuessesBounded
  <1>6. CASE Lapse \/ Replace \/ UNCHANGED vars
    <2>1. Counting' = Counting /\ Exceeding' = Exceeding
      BY <1>6 DEF Lapse, Replace, vars, Counting, Exceeding
    <2>2. (row' # "deleted" => row # "deleted") /\ UNCHANGED <<failed, guesses, deaths>>
      BY <1>6 DEF Lapse, Replace, DeleteById, vars
    <2> QED
      BY <2>1, <2>2, <1>t DEF EveryGuessCounted, GuessesBounded
  <1> QED
    BY <1>1, <1>2, <1>3, <1>4, <1>5, <1>6 DEF Next

\* The requests let in and those about to be are never more than there are:
\* after the deletion no request starts.
LEMMA AcceptedStep ==
    TypeOK /\ AcceptedBounded /\ [Next]_vars => AcceptedBounded'
  <1> SUFFICES ASSUME TypeOK, AcceptedBounded, [Next]_vars PROVE AcceptedBounded'
    OBVIOUS
  <1>s. Consuming \in SUBSET Proc /\ Consuming' \in SUBSET Proc
    BY DEF Consuming
  <1>t. /\ accepted \in Nat /\ Cardinality(Proc) \in Nat
        /\ Cardinality(Consuming) \in Nat /\ Cardinality(Consuming)' \in Nat
        /\ Cardinality(Consuming)' <= Cardinality(Proc)
    BY <1>s, SubsetSize DEF TypeOK
  \* While the row is there nobody has been let in.
  <1>1. ASSUME NEW p \in Proc, PresentWrong(p) \/ PresentRight(p) \/ PresentLate(p)
        PROVE  AcceptedBounded'
    BY <1>1, <1>t DEF PresentWrong, PresentRight, PresentLate, AcceptedBounded
  <1>2. ASSUME NEW p \in Proc, IncrementOtpFailedAttempts(p)
        PROVE  AcceptedBounded'
    <2>1. p \notin Consuming
      BY <1>2 DEF IncrementOtpFailedAttempts, Consuming
    <2>2. Consuming' = Consuming
      BY <1>2, <2>1, SetsMove DEF IncrementOtpFailedAttempts
    <2> QED
      BY <1>2, <2>2, <1>t DEF IncrementOtpFailedAttempts, AcceptedBounded
  \* A request that is let in leaves Consuming.
  <1>3. ASSUME NEW p \in Proc, DeleteRow(p)
        PROVE  AcceptedBounded'
    <2>1. Consuming' = Consuming \ {p}
      BY <1>3, SetsMove DEF DeleteRow
    <2>2. row' = "deleted"
      BY <1>3 DEF DeleteRow, DeleteById
    <2>3. CASE p \in Consuming
      <3>1. Cardinality(Consuming)' = Cardinality(Consuming) - 1
        BY <2>1, <2>3, <1>s, LeaveSize
      <3>2. accepted' = accepted + 1
        BY <1>3, <2>3 DEF DeleteRow, Consuming
      <3> QED
        BY <2>2, <3>1, <3>2, <1>t DEF AcceptedBounded
    <2>4. CASE p \notin Consuming
      <3>1. accepted' = accepted /\ Cardinality(Consuming)' = Cardinality(Consuming)
        BY <1>3, <2>1, <2>4 DEF DeleteRow, Consuming
      <3> QED
        BY <2>2, <3>1, <1>t DEF AcceptedBounded
    <2> QED
      BY <2>3, <2>4
  <1>4. ASSUME NEW p \in Proc, Die(p)
        PROVE  AcceptedBounded'
    <2>1. Consuming' = Consuming \ {p}
      BY <1>4, SetsMove DEF Die
    <2>2. Cardinality(Consuming)' <= Cardinality(Consuming)
      BY <2>1, <1>s, SubsetSize, FS_Subset
    <2> QED
      BY <1>4, <2>2, <1>t DEF Die, AcceptedBounded
  <1>5. CASE Lapse \/ Replace \/ UNCHANGED vars
    <2>1. Consuming' = Consuming /\ accepted' = accepted /\ (row' # "deleted" => row # "deleted")
      BY <1>5 DEF Lapse, Replace, DeleteById, vars, Consuming
    <2> QED
      BY <2>1, <1>t DEF AcceptedBounded
  <1> QED
    BY <1>1, <1>2, <1>3, <1>4, <1>5 DEF Next

LEMMA Invariance == Spec => []IInv
  <1>1. IInv /\ [Next]_vars => IInv'
    BY TypeStep, GuessStep, AcceptedStep DEF IInv
  <1> QED
    BY <1>1, IInvInit, PTL DEF Spec

\* The row, the counter and every request keep their types.
THEOREM OtpTypeCorrect == Spec => []TypeOK
  <1>1. IInv => TypeOK
    BY DEF IInv
  <1> QED
    BY <1>1, Invariance, PTL

\* The number of wrong codes compared never exceeds the configured maximum by
\* more than one per other request in flight and one per request that died.
THEOREM GuessesBoundedHolds == Spec => []GuessesBounded
  <1>1. IInv => GuessesBounded
    BY DEF IInv
  <1> QED
    BY <1>1, Invariance, PTL

\* A correct code lets in no more requests than there are in flight together,
\* and none once the row was deleted before they read it.
THEOREM AcceptedBoundedHolds == Spec => []AcceptedBounded
  <1>1. IInv => AcceptedBounded
    BY DEF IInv
  <1> QED
    BY <1>1, Invariance, PTL

\* Where every wrong code is accounted for while the row is there.
THEOREM EveryGuessCountedHolds == Spec => []EveryGuessCounted
  <1>1. IInv => EveryGuessCounted
    BY DEF IInv
  <1> QED
    BY <1>1, Invariance, PTL

-----------------------------------------------------------------------------
(* EmailVerification, for any addresses, codes, edits and requests.        *)
(* EmailInv follows the address: as long as no race happened, every code   *)
(* that is live, every request that is about to insert one and every proof *)
(* that is about to mark the user concerns the address the user has now.   *)

\* Until a race: what is outstanding belongs to the address of the user, and
\* an edit that is about to vouch for an address has read the user's rank.
Coherent ==
    /\ \A c \in MailCode : code[c].live => code[c].sentTo = user.email
    /\ \A q \in Requester : request[q].pc # "idle" => request[q].sentTo = user.email
    /\ \A v \in Prover : proof[v] \in {"mark", "write"} => user.email \in proved
    /\ \A e \in Editor :
          LET patch == edit[e].patch IN
          edit[e].busy /\ edit[e].fresh /\ patch.verified = "keep" /\ ~ user.admin
             => patch.email \in {"keep", user.email}
    /\ ~ Unproved

\* Codes are mailed to users who have an address.
Addressed ==
    /\ \A c \in MailCode : code[c].live => code[c].sentTo # "none"
    /\ \A q \in Requester : request[q].pc # "idle" => request[q].sentTo # "none"

EmailInv == EmailTypeOK /\ Addressed /\ (raced \/ Coherent)

CodeRow == [live : BOOLEAN, kind : Kind, sentTo : Address \cup {"none"}]

Edit == [busy : BOOLEAN, fresh : BOOLEAN,
         patch : [email : Address \cup {"none", "keep"}, verified : Flag, admin : Flag]]

Asked == [pc : {"idle", "replace", "insert"}, kind : Kind, sentTo : Address \cup {"none"}]

Types ==
    /\ user \in User
    /\ code \in [MailCode -> CodeRow] /\ edit \in [Editor -> Edit]
    /\ request \in [Requester -> Asked]
    /\ proof \in [Prover -> {"idle", "must", "need not", "mark", "write"}]
    /\ proved \in SUBSET Address /\ trusted \in SUBSET Address /\ raced \in BOOLEAN

LEMMA TypesAgree == EmailTypeOK <=> Types
  BY Zenon DEF EmailTypeOK, Types, CodeRow, Edit, Asked

LEMMA TypesAgreeNext == Types' => EmailTypeOK'
  BY Zenon DEF EmailTypeOK, Types, CodeRow, Edit, Asked

LEMMA RestTypes ==
    NoCode \in CodeRow /\ NoEdit \in Edit /\ NothingRequested \in Asked
  BY DEF NoCode, NoEdit, NoPatch, NothingRequested, CodeRow, Edit, Asked, Kind, Flag

LEMMA EmailInvInit == EmailInit => EmailInv
  <1> SUFFICES ASSUME EmailInit PROVE EmailInv
    OBVIOUS
  <1>1. user \in User /\ trusted = IF user.verified THEN {user.email} ELSE {}
    BY DEF EmailInit
  <1>2. user.verified = (user.admin /\ user.email # "none")
    BY DEF EmailInit
  <1>3. trusted \in SUBSET Address
    BY <1>1, <1>2 DEF User
  <1>4. Types
    BY <1>1, <1>3, RestTypes DEF EmailInit, Types
  <1>5. ~ Unproved
    BY <1>1 DEF Unproved
  <1>6. Coherent
    BY <1>5 DEF EmailInit, Coherent, NoCode, NoEdit, NothingRequested
  <1>7. Addressed
    BY DEF EmailInit, Addressed, NoCode, NothingRequested
  <1> QED
    BY <1>4, <1>6, <1>7, TypesAgree DEF EmailInv

-----------------------------------------------------------------------------
(* Editing the user.                                                       *)

LEMMA ReadForEditStep ==
    ASSUME EmailInv, NEW e \in Editor, NEW patch \in Patch, ReadForEdit(e, patch)
    PROVE  EmailInv'
  <1> DEFINE new == [busy |-> TRUE, fresh |-> TRUE, patch |-> ResetsVerified(patch)]
  <1>1. /\ Types /\ UNCHANGED <<user, code, request, proof, proved, trusted, raced>>
        /\ edit' = [edit EXCEPT ![e] = new]
    BY TypesAgree DEF EmailInv, ReadForEdit
  <1>2. patch \in [email : Address \cup {"none", "keep"}, verified : Flag, admin : Flag]
    BY PatchAssumption
  <1>3. new \in Edit
    BY <1>2 DEF ResetsVerified, Edit, Flag
  <1>4. Types'
    BY <1>1, <1>3 DEF Types
  <1>5. ResetsVerified(patch).verified = "keep" /\ ~ user.admin
          => ResetsVerified(patch).email \in {"keep", user.email}
    BY <1>2 DEF ResetsVerified
  <1>6. edit'[e] = new /\ \A f \in Editor \ {e} : edit'[f] = edit[f]
    BY <1>1 DEF Types
  <1>7. ASSUME Coherent PROVE Coherent'
    <2>1. ASSUME NEW f \in Editor, edit'[f].busy, edit'[f].fresh,
                 edit'[f].patch.verified = "keep", ~ user'.admin
          PROVE  edit'[f].patch.email \in {"keep", user'.email}
      <3>1. CASE f = e
        BY <1>1, <1>5, <1>6, <2>1, <3>1
      <3>2. CASE f # e
        BY <1>1, <1>6, <1>7, <2>1, <3>2 DEF Coherent
      <3> QED
        BY <3>1, <3>2
    <2> QED
      BY <1>1, <1>7, <2>1 DEF Coherent, Unproved
  <1> QED
    BY <1>1, <1>4, <1>7, TypesAgreeNext DEF EmailInv, Addressed

LEMMA EditFailsStep ==
    ASSUME EmailInv, NEW e \in Editor, EditFails(e)
    PROVE  EmailInv'
  <1>1. /\ Types /\ UNCHANGED <<user, code, request, proof, proved, trusted, raced>>
        /\ edit' = [edit EXCEPT ![e] = NoEdit]
    BY TypesAgree DEF EmailInv, EditFails
  <1>2. Types'
    BY <1>1, RestTypes DEF Types
  <1>3. edit'[e] = NoEdit /\ \A f \in Editor \ {e} : edit'[f] = edit[f]
    BY <1>1 DEF Types
  <1>4. ~ edit'[e].busy
    BY <1>3 DEF NoEdit
  <1>5. ASSUME Coherent PROVE Coherent'
    <2>1. ASSUME NEW f \in Editor, edit'[f].busy, edit'[f].fresh,
                 edit'[f].patch.verified = "keep", ~ user'.admin
          PROVE  edit'[f].patch.email \in {"keep", user'.email}
      <3>1. f # e
        BY <1>4, <2>1
      <3> QED
        BY <1>1, <1>3, <1>5, <2>1, <3>1 DEF Coherent
    <2> QED
      BY <1>1, <1>5, <2>1 DEF Coherent, Unproved
  <1> QED
    BY <1>1, <1>2, <1>5, TypesAgreeNext DEF EmailInv, Addressed

\* What an UPDATE of the user leaves, spelled out.
LEMMA WriteEditStep ==
    ASSUME EmailInv, NEW e \in Editor, WriteEdit(e)
    PROVE  EmailInv'
  <1>p. PICK patch : patch = edit[e].patch
    OBVIOUS
  <1>e. PICK email : email = IF patch.email = "keep" THEN user.email ELSE patch.email
    OBVIOUS
  <1>a. PICK admin : admin = EditedFlag(user.admin, patch.admin)
    OBVIOUS
  <1>v. PICK verified : verified = EditedFlag(user.verified, patch.verified)
    OBVIOUS
  <1>1. /\ edit[e].busy
        /\ user' = [email |-> email, verified |-> verified, admin |-> admin]
        /\ trusted' = IF email # "none" /\ (patch.verified = "set" \/ user.admin)
                      THEN trusted \cup {email} ELSE trusted
        /\ raced' = (raced \/ (email # user.email /\ (~ edit[e].fresh \/ CodesInForce)))
        /\ edit' = [f \in Editor |->
                   IF f = e THEN NoEdit
                   ELSE IF edit[f].busy /\ (email # user.email \/ admin # user.admin)
                        THEN [edit[f] EXCEPT !.fresh = FALSE]
                   ELSE edit[f]]
        /\ UNCHANGED <<code, request, proof, proved>>
    BY <1>p, <1>e, <1>a, <1>v DEF WriteEdit
  <1>2. Types /\ edit[e] \in Edit /\ user \in User
    BY TypesAgree DEF EmailInv, Types
  <1>3. /\ patch \in [email : Address \cup {"none", "keep"}, verified : Flag, admin : Flag]
        /\ email \in Address \cup {"none"} /\ verified \in BOOLEAN /\ admin \in BOOLEAN
    BY <1>2, <1>p, <1>e, <1>a, <1>v DEF Edit, User, EditedFlag, Flag
  <1>4. user'.email = email /\ user'.verified = verified /\ user'.admin = admin /\ user' \in User
    BY <1>1, <1>3 DEF User
  <1>5. trusted' \in SUBSET Address /\ raced' \in BOOLEAN /\ trusted \subseteq trusted'
    BY <1>1, <1>2, <1>3 DEF Types
  <1>6. edit' \in [Editor -> Edit]
    <2>1. ASSUME NEW f \in Editor PROVE [edit[f] EXCEPT !.fresh = FALSE] \in Edit /\ edit[f] \in Edit
      BY <1>2 DEF Types, Edit
    <2> QED
      BY <1>1, <2>1, RestTypes
  <1>7. Types'
    BY <1>1, <1>2, <1>4, <1>5, <1>6 DEF Types
  <1>8. ASSUME ~ raced', Coherent PROVE Coherent'
    <2>1. email # user.email => edit[e].fresh /\ ~ CodesInForce
      BY <1>1, <1>8
    <2>2. /\ \A c \in MailCode : code[c].live => email = user.email
          /\ \A q \in Requester : request[q].pc # "idle" => email = user.email
          /\ \A v \in Prover : proof[v] # "idle" => email = user.email
      BY <2>1 DEF CodesInForce
    <2>3. email # user.email => user.admin \/ patch.verified # "keep"
      BY <1>1, <1>8, <1>p, <1>e, <2>1 DEF Coherent
    <2>4. ASSUME verified, email # "none" PROVE email \in proved \cup trusted'
      <3>1. CASE patch.verified = "set" \/ user.admin
        BY <1>1, <2>4, <3>1
      <3>2. CASE patch.verified # "set" /\ ~ user.admin
        <4>1. patch.verified = "keep" /\ user.verified
          BY <1>v, <1>3, <2>4, <3>2 DEF EditedFlag, Flag
        <4>2. email = user.email
          BY <2>3, <3>2, <4>1
        <4> QED
          BY <1>5, <1>8, <2>4, <4>1, <4>2 DEF Coherent, Unproved
      <3> QED
        BY <3>1, <3>2
    <2>5. ~ Unproved'
      BY <1>1, <1>4, <2>4 DEF Unproved
    <2>6. ASSUME NEW f \in Editor, edit'[f].busy, edit'[f].fresh,
                 edit'[f].patch.verified = "keep", ~ user'.admin
          PROVE  edit'[f].patch.email \in {"keep", user'.email}
      <3>1. f # e
        BY <1>1, <2>6 DEF NoEdit
      <3>2. CASE edit[f].busy /\ (email # user.email \/ admin # user.admin)
        <4>1. edit'[f] = [edit[f] EXCEPT !.fresh = FALSE] /\ edit[f] \in Edit
          BY <1>1, <1>2, <3>1, <3>2 DEF Types
        <4> QED
          BY <2>6, <4>1 DEF Edit
      <3>3. CASE ~ (edit[f].busy /\ (email # user.email \/ admin # user.admin))
        <4>1. edit'[f] = edit[f]
          BY <1>1, <3>1, <3>3
        <4>2. email = user.email /\ admin = user.admin
          BY <2>6, <3>3, <4>1
        <4> QED
          BY <1>4, <1>8, <2>6, <4>1, <4>2 DEF Coherent
      <3> QED
        BY <3>2, <3>3
    <2>7. /\ \A c \in MailCode : code'[c].live => code'[c].sentTo = user'.email
          /\ \A q \in Requester : request'[q].pc # "idle" => request'[q].sentTo = user'.email
          /\ \A v \in Prover : proof'[v] \in {"mark", "write"} => user'.email \in proved'
      BY <1>1, <1>4, <1>8, <2>2 DEF Coherent
    <2> QED
      BY <2>5, <2>6, <2>7 DEF Coherent
  <1>9. raced => raced'
    BY <1>1, <1>2 DEF Types
  <1> QED
    BY <1>1, <1>5, <1>7, <1>8, <1>9, TypesAgreeNext DEF EmailInv, Addressed

-----------------------------------------------------------------------------
(* Codes.                                                                  *)

\* A step that edits nothing: the user keeps his address and what it is owed.
LEMMA CodeMove ==
    ASSUME EmailInv, UNCHANGED <<edit, trusted, raced>>, Types', Addressed',
           user'.email = user.email, user'.admin = user.admin, proved \subseteq proved',
           Coherent => /\ \A c \in MailCode : code'[c].live => code'[c].sentTo = user.email
                       /\ \A q \in Requester : request'[q].pc # "idle" => request'[q].sentTo = user.email
                       /\ \A v \in Prover : proof'[v] \in {"mark", "write"} => user.email \in proved'
                       /\ user'.verified => user.verified \/ user.email \in proved
    PROVE  EmailInv'
  <1>1. ASSUME Coherent PROVE Coherent'
    <2>1. ~ Unproved'
      BY <1>1 DEF Coherent, Unproved
    <2> QED
      BY <1>1, <2>1 DEF Coherent
  <1> QED
    BY <1>1, TypesAgreeNext DEF EmailInv

LEMMA RequesterStep ==
    ASSUME EmailInv, NEW q \in Requester,
           \/ \E kind \in Kind : RequestCode(q, kind)
           \/ ReplaceCodes(q) \/ RequestEnds(q) \/ \E c \in MailCode : InsertCode(q, c)
    PROVE  EmailInv'
  <1>1. Types /\ request[q] \in Asked
    BY TypesAgree DEF EmailInv, Types
  <1>2. ASSUME NEW kind \in Kind, RequestCode(q, kind) PROVE EmailInv'
    <2> DEFINE new == [pc |-> IF kind = "mfa_otp" THEN "insert" ELSE "replace",
                       kind |-> kind, sentTo |-> user.email]
    <2>1. new \in Asked /\ new.sentTo = user.email /\ user.email # "none"
      BY <1>1, <1>2 DEF Types, User, Asked, RequestCode
    <2>2. request' = [request EXCEPT ![q] = new]
          /\ UNCHANGED <<user, code, edit, proof, proved, trusted, raced>>
      BY <1>2 DEF RequestCode
    <2> HIDE DEF new
    <2>3. request'[q] = new /\ (\A r \in Requester \ {q} : request'[r] = request[r]) /\ Types'
      BY <1>1, <2>1, <2>2 DEF Types
    <2> QED
      BY <2>1, <2>2, <2>3, CodeMove DEF Coherent, Addressed, EmailInv
  <1>3. ASSUME ReplaceCodes(q) PROVE EmailInv'
    <2>1. /\ code' = [c \in MailCode |->
                   IF code[c].kind = "email_verification" THEN NoCode ELSE code[c]]
          /\ request' = [request EXCEPT ![q].pc = "insert"]
          /\ UNCHANGED <<user, edit, proof, proved, trusted, raced>> /\ request[q].pc = "replace"
      BY <1>3 DEF ReplaceCodes
    <2>2. /\ request'[q].pc = "insert" /\ request'[q].sentTo = request[q].sentTo
          /\ request'[q] \in Asked /\ \A r \in Requester \ {q} : request'[r] = request[r]
      BY <1>1, <2>1 DEF Types, Asked
    <2>3. Types'
      BY <1>1, <2>1, <2>2, RestTypes DEF Types
    <2>4. \A c \in MailCode : code'[c].live => code'[c] = code[c]
      BY <2>1 DEF NoCode
    <2> QED
      BY <2>1, <2>2, <2>3, <2>4, CodeMove DEF Coherent, Addressed, EmailInv
  <1>4. ASSUME RequestEnds(q) PROVE EmailInv'
    <2>1. /\ request' = [request EXCEPT ![q] = NothingRequested]
          /\ UNCHANGED <<user, code, edit, proof, proved, trusted, raced>>
      BY <1>4 DEF RequestEnds
    <2>2. /\ request'[q].pc = "idle" /\ \A r \in Requester \ {q} : request'[r] = request[r]
      BY <1>1, <2>1 DEF Types, NothingRequested
    <2>3. Types'
      BY <1>1, <2>1, RestTypes DEF Types
    <2> QED
      BY <2>1, <2>2, <2>3, CodeMove DEF Coherent, Addressed, EmailInv
  <1>5. ASSUME NEW c \in MailCode, InsertCode(q, c) PROVE EmailInv'
    <2> DEFINE new == [live |-> TRUE, kind |-> request[q].kind, sentTo |-> request[q].sentTo]
    <2>1. /\ code' = [code EXCEPT ![c] = new] /\ request' = [request EXCEPT ![q] = NothingRequested]
          /\ UNCHANGED <<user, edit, proof, proved, trusted, raced>> /\ request[q].pc = "insert"
      BY <1>5 DEF InsertCode
    <2>2. new \in CodeRow /\ new.sentTo = request[q].sentTo
      BY <1>1 DEF Asked, CodeRow
    <2> HIDE DEF new
    <2>3. code'[c] = new /\ \A d \in MailCode \ {c} : code'[d] = code[d]
      BY <1>1, <2>1 DEF Types
    <2>4. /\ request'[q].pc = "idle" /\ \A r \in Requester \ {q} : request'[r] = request[r]
      BY <1>1, <2>1 DEF Types, NothingRequested
    <2>5. Types'
      BY <1>1, <2>1, <2>2, RestTypes DEF Types
    <2> QED
      BY <2>1, <2>2, <2>3, <2>4, <2>5, CodeMove DEF Coherent, Addressed, EmailInv
  <1> QED
    BY <1>2, <1>3, <1>4, <1>5

LEMMA ProverStep ==
    ASSUME EmailInv, NEW v \in Prover,
           \/ BeginProof(v) \/ ReadForMark(v) \/ MarkVerified(v) \/ ProofEnds(v)
           \/ \E c \in MailCode : ProveCode(v, c)
    PROVE  EmailInv'
  <1>1. Types
    BY TypesAgree DEF EmailInv
  <1>2. ASSUME BeginProof(v) \/ ReadForMark(v) \/ ProofEnds(v) PROVE EmailInv'
    <2>1. UNCHANGED <<user, code, edit, request, proved, trusted, raced>>
      BY <1>2 DEF BeginProof, ReadForMark, ProofEnds
    <2>2. /\ proof' \in [Prover -> {"idle", "must", "need not", "mark", "write"}]
          /\ proof'[v] \in {"mark", "write"} => proof[v] = "mark"
          /\ \A w \in Prover \ {v} : proof'[w] = proof[w]
      BY <1>1, <1>2 DEF Types, BeginProof, ReadForMark, ProofEnds
    <2>3. Types'
      BY <1>1, <2>1, <2>2 DEF Types
    <2> QED
      BY <2>1, <2>2, <2>3, CodeMove DEF Coherent, Addressed, EmailInv
  <1>3. ASSUME MarkVerified(v) PROVE EmailInv'
    <2>1. /\ user' = [user EXCEPT !.verified = TRUE] /\ proof' = [proof EXCEPT ![v] = "idle"]
          /\ UNCHANGED <<code, edit, request, proved, trusted, raced>> /\ proof[v] = "write"
      BY <1>3 DEF MarkVerified
    <2>2. /\ user' \in User /\ user'.email = user.email /\ user'.admin = user.admin
      BY <1>1, <2>1 DEF Types, User
    <2>3. proof'[v] = "idle" /\ \A w \in Prover \ {v} : proof'[w] = proof[w]
      BY <1>1, <2>1 DEF Types
    <2>4. Types'
      BY <1>1, <2>1, <2>2 DEF Types
    <2>5. Coherent => user.email \in proved
      BY <2>1 DEF Coherent
    <2> QED
      BY <2>1, <2>2, <2>3, <2>4, <2>5, CodeMove DEF Coherent, Addressed, EmailInv
  <1>4. ASSUME NEW c \in MailCode, ProveCode(v, c) PROVE EmailInv'
    <2>1. /\ proved' = proved \cup {code[c].sentTo} /\ code' = [code EXCEPT ![c] = NoCode]
          /\ proof' = [proof EXCEPT ![v] =
                    IF code[c].kind = "email_verification" \/ @ = "must" THEN "mark" ELSE "idle"]
          /\ UNCHANGED <<user, edit, request, trusted, raced>> /\ code[c].live
      BY <1>4 DEF ProveCode
    <2>2. ~ code'[c].live /\ \A d \in MailCode \ {c} : code'[d] = code[d]
      BY <1>1, <2>1 DEF Types, NoCode
    <2>3. \A w \in Prover \ {v} : proof'[w] = proof[w]
      BY <1>1, <2>1 DEF Types
    <2>4. Coherent => user.email \in proved'
      BY <2>1 DEF Coherent
    <2>5. code[c].sentTo \in Address
      BY <1>1, <2>1 DEF Types, CodeRow, EmailInv, Addressed
    <2>6. Types'
      BY <1>1, <2>1, <2>5, RestTypes DEF Types
    <2> QED
      BY <2>1, <2>2, <2>3, <2>4, <2>6, CodeMove DEF Coherent, Addressed, EmailInv
  <1> QED
    BY <1>2, <1>3, <1>4

LEMMA ExpireCodeStep ==
    ASSUME EmailInv, NEW c \in MailCode, ExpireCode(c)
    PROVE  EmailInv'
  <1>1. /\ Types /\ code' = [code EXCEPT ![c] = NoCode]
        /\ UNCHANGED <<user, edit, request, proof, proved, trusted, raced>>
    BY TypesAgree DEF EmailInv, ExpireCode
  <1>2. ~ code'[c].live /\ \A d \in MailCode \ {c} : code'[d] = code[d]
    BY <1>1 DEF Types, NoCode
  <1>3. Types'
    BY <1>1, RestTypes DEF Types
  <1> QED
    BY <1>1, <1>2, <1>3, CodeMove DEF Coherent, Addressed, EmailInv

LEMMA EmailInvStep == EmailInv /\ [EmailNext]_emailVars => EmailInv'
  <1> SUFFICES ASSUME EmailInv, [EmailNext]_emailVars PROVE EmailInv'
    OBVIOUS
  <1>1. CASE UNCHANGED emailVars
    <2>1. UNCHANGED <<user, code, edit, request, proof, proved, trusted, raced>> /\ Types
      BY <1>1, TypesAgree DEF emailVars, EmailInv
    <2>2. Types'
      BY <2>1 DEF Types
    <2> QED
      BY <2>1, <2>2, CodeMove DEF Coherent, Addressed, EmailInv
  <1>2. CASE EmailNext
    BY <1>2, ReadForEditStep, WriteEditStep, EditFailsStep, RequesterStep, ProverStep,
       ExpireCodeStep DEF EmailNext
  <1> QED
    BY <1>1, <1>2

\* For any addresses, codes, edits and requests: an address counts as verified
\* without having been proved or vouched for only after it was changed while a
\* code, a request or a stale edit was outstanding.
THEOREM UnprovedOnlyByRaceHolds == EmailSpec => []UnprovedOnlyByRace
  <1>1. EmailSpec => []EmailInv
    BY EmailInvInit, EmailInvStep, PTL DEF EmailSpec
  <1>2. EmailInv => UnprovedOnlyByRace
    BY DEF EmailInv, Coherent, UnprovedOnlyByRace
  <1> QED
    BY <1>1, <1>2, PTL
=============================================================================

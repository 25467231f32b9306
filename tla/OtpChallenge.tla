---------------------------- MODULE OtpChallenge ----------------------------
(***************************************************************************)
(* One mailed code: a row of user_challenges of kind mfa_otp or            *)
(* email_verification, and the requests that present codes for it          *)
(* (verifyMfaOtpAndConsume and verifyEmailVerificationOtpAndConsume in     *)
(* services/user-challenge.service.ts; the two differ only in what the     *)
(* success is used for).  A request reads the row, compares the code with  *)
(* what it read, and only then counts the failure or deletes the row.      *)
(***************************************************************************)
EXTENDS Naturals, FiniteSets

CONSTANTS
    Proc,           \* requests in flight at the same time
    MaxAttempts,    \* MFA_OTP_MAX_ATTEMPTS
    MaxDeaths       \* bound of the model: requests that die half way

ASSUME ProcAssumption == IsFiniteSet(Proc) /\ Proc # {}

ASSUME MaxAttemptsAssumption == MaxAttempts \in Nat \ {0}

ASSUME MaxDeathsAssumption == MaxDeaths \in Nat

VARIABLES
    row,        \* the row: there, past its expiry, or deleted
    failed,     \* otp_failed_attempts
    pc,         \* pc[p]: what a request that has read the row does next
    guesses,    \* history: wrong codes that were compared with the right one
    accepted,   \* history: how many requests the right code let in
    deaths      \* history: requests that died half way

vars == <<row, failed, pc, guesses, accepted, deaths>>

\* The requests that have compared a wrong code and not yet counted it, that
\* have seen the limit reached, and that presented the right code.
Counting == {p \in Proc : pc[p] = "count"}

Exceeding == {p \in Proc : pc[p] = "exceeded"}

Consuming == {p \in Proc : pc[p] = "consume"}

TypeOK ==
    /\ row \in {"live", "lapsed", "deleted"}
    /\ failed \in Nat /\ guesses \in Nat /\ accepted \in Nat
    /\ deaths \in 0 .. MaxDeaths
    /\ pc \in [Proc -> {"idle", "count", "exceeded", "consume", "expired"}]

Init ==
    /\ row = "live"
    /\ failed = 0 /\ guesses = 0 /\ accepted = 0 /\ deaths = 0
    /\ pc = [p \in Proc |-> "idle"]

Goto(p, l) == pc' = [pc EXCEPT ![p] = l]

\* The code presented is wrong: it has been compared, and will be counted.
PresentWrong(p) ==
    /\ pc[p] = "idle" /\ row = "live"
    /\ guesses' = guesses + 1
    /\ Goto(p, "count")
    /\ UNCHANGED <<row, failed, accepted, deaths>>

PresentRight(p) ==
    /\ pc[p] = "idle" /\ row = "live"
    /\ Goto(p, "consume")
    /\ UNCHANGED <<row, failed, guesses, accepted, deaths>>

\* Whatever the code: the row read is past its expiry.
PresentLate(p) ==
    /\ pc[p] = "idle" /\ row = "lapsed"
    /\ Goto(p, "expired")
    /\ UNCHANGED <<row, failed, guesses, accepted, deaths>>

\* Broken variant: one failure more is allowed.
MoreThanAllowed(n) == n > MaxAttempts

Exceeded(n) == n >= MaxAttempts

\* UPDATE ... SET otp_failed_attempts = otp_failed_attempts + 1 ... RETURNING;
\* a deleted row returns nothing.
IncrementOtpFailedAttempts(p) ==
    /\ pc[p] = "count"
    /\ \/ /\ row # "deleted"
          /\ failed' = failed + 1
          /\ Goto(p, IF Exceeded(failed + 1) THEN "exceeded" ELSE "idle")
       \/ /\ row = "deleted"
          /\ Goto(p, "idle")
          /\ UNCHANGED failed
    /\ UNCHANGED <<row, guesses, accepted, deaths>>

\* Broken variants: the row is kept until it expires, or marked instead.
KeepRow == row' = row

MarkRow == row' = "consumed"

DeleteById == row' = "deleted"

\* The row is deleted without a condition; only then does a right code let the
\* request in.
DeleteRow(p) ==
    /\ pc[p] \in {"exceeded", "consume", "expired"}
    /\ DeleteById
    /\ accepted' = IF pc[p] = "consume" THEN accepted + 1 ELSE accepted
    /\ Goto(p, "idle")
    /\ UNCHANGED <<failed, guesses, deaths>>

\* The request throws or its Worker dies between two statements.
Die(p) ==
    /\ pc[p] # "idle" /\ deaths < MaxDeaths
    /\ deaths' = deaths + 1
    /\ Goto(p, "idle")
    /\ UNCHANGED <<row, failed, guesses, accepted>>

\* Ten minutes pass.
Lapse ==
    /\ row = "live"
    /\ row' = "lapsed"
    /\ UNCHANGED <<failed, pc, guesses, accepted, deaths>>

\* deleteByUserIdAndKind: a new verification code replaces this one (the
\* sign-in codes are not replaced).
Replace ==
    /\ row # "deleted"
    /\ DeleteById
    /\ UNCHANGED <<failed, pc, guesses, accepted, deaths>>

Next ==
    \/ \E p \in Proc :
         \/ PresentWrong(p) \/ PresentRight(p) \/ PresentLate(p)
         \/ IncrementOtpFailedAttempts(p) \/ DeleteRow(p) \/ Die(p)
    \/ Lapse \/ Replace

Spec == Init /\ [][Next]_vars

-----------------------------------------------------------------------------
(* Properties.                                                             *)

\* config/mfa-otp-max-attempts.ts:2 names MaxAttempts as the maximum of wrong
\* codes.  How far that can be overrun: one wrong code per other request in
\* flight, and one per request that died before it counted or deleted.
\* Without overlap and without deaths the limit is exact.
GuessesBounded == guesses <= MaxAttempts - 1 + Cardinality(Proc) + deaths

\* What GuessesBounded rests on: while the row is there, every wrong code was
\* counted, is about to be counted, or was lost with a request that died; and
\* a request that saw the limit reached stays until it has deleted the row.
EveryGuessCounted ==
    row # "deleted" =>
        /\ guesses <= failed + Cardinality(Counting) + deaths
        /\ guesses <= MaxAttempts - 1 + Cardinality(Counting \cup Exceeding) + deaths

\* The right code lets in only requests that were in flight when the first of
\* them deleted the row, each of them once.
AcceptedBounded ==
    /\ row # "deleted" => accepted = 0
    /\ accepted + Cardinality(Consuming) <= Cardinality(Proc)

\* The inductive invariant.
IInv == TypeOK /\ EveryGuessCounted /\ GuessesBounded /\ AcceptedBounded
=============================================================================

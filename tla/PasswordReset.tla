---------------------------- MODULE PasswordReset ----------------------------
(***************************************************************************)
(* The password of one user and the reset links mailed to them             *)
(* (services/user-challenge.service.ts, the password branch of             *)
(* services/user.service.ts updateUser, and the hash upgrade at sign-in).  *)
(* A link is a row of user_challenges of kind password_reset.  Every       *)
(* statement is a step; a request reads the row first and acts on what it  *)
(* read, with a call to the hashing worker in between.                     *)
(*                                                                         *)
(* A password is the number of the change that set it: 0 is the one the    *)
(* user starts with, stored as a legacy MD5 hash.                          *)
(***************************************************************************)
EXTENDS Naturals, FiniteSets

CONSTANTS
    Link,       \* ids of user_challenges rows of kind password_reset
    Resetter,   \* requests in flight at the same time
    MaxChange,  \* bound of the model: how often the password is set
    NoLink

ASSUME MaxChangeAssumption == MaxChange \in Nat \ {0}

ASSUME NoLinkAssumption == NoLink \notin Link

ASSUME ResetterAssumption == IsFiniteSet(Resetter)

VARIABLES
    links,      \* links[l]: the row of link l
    mailed,     \* links that reached the user
    pw,         \* the password_hash column: which password, and how hashed
    last,       \* history: the latest change
    proc,       \* proc[p]: program counter and locals of a request
    redeemed,   \* history: links that have set a password
    over        \* history: what put an end to a link first, if anything has

resetVars == <<links, mailed, pw, last, proc, redeemed, over>>

Version == 0 .. MaxChange

IdleProc == [pc |-> "idle", link |-> NoLink, read |-> 0]

ResetTypeOK ==
    /\ links \in [Link -> {"none", "pending", "lapsed", "consumed", "deleted"}]
    /\ mailed \subseteq Link
    /\ pw \in [ver : Version, legacy : BOOLEAN] /\ last \in Version
    /\ pw.legacy => pw.ver = 0
    /\ proc \in [Resetter -> [pc : {"idle", "insert", "mail", "write", "consume",
                                    "cancel", "drop", "rehash"},
                              link : Link \cup {NoLink}, read : Version]]
    /\ redeemed \subseteq Link
    /\ over \in [Link -> {"no", "purged", "used", "cancelled", "changed"}]
    /\ \A p \in Resetter : proc[p].pc \in {"mail", "write", "consume", "cancel"}
                         => links[proc[p].link] # "none"

ResetInit ==
    /\ links = [l \in Link |-> "none"]
    /\ mailed = {}
    /\ pw = [ver |-> 0, legacy |-> TRUE] /\ last = 0
    /\ proc = [p \in Resetter |-> IdleProc]
    /\ redeemed = {}
    /\ over = [l \in Link |-> "no"]

ResetGoto(p, pc, l) == proc' = [proc EXCEPT ![p] = [pc |-> pc, link |-> l, read |-> 0]]

End(p) == ResetGoto(p, "idle", NoLink)

\* History: the links in S are over for the given reason, if not already.
PutOver(S, why) == over' = [l \in Link |-> IF l \in S /\ over[l] = "no" THEN why ELSE over[l]]

\* Broken variant: rows that are no longer pending are cleaned, pending ones stay.
SpentRows == {l \in Link : links[l] \in {"lapsed", "consumed"}}

\* The rows deleteByUserIdAndKind deletes.
RowsOfKind == {l \in Link : links[l] \in {"pending", "lapsed", "consumed"}}

DeleteByUserIdAndKind == links' = [l \in Link |-> IF l \in RowsOfKind THEN "deleted" ELSE links[l]]

-----------------------------------------------------------------------------
(* requestPasswordReset: purge, insert, mail.                              *)

PurgeLinks(p) ==
    /\ proc[p].pc = "idle"
    /\ DeleteByUserIdAndKind
    /\ PutOver({l \in Link : links[l] # "none"}, "purged")
    /\ ResetGoto(p, "insert", NoLink)
    /\ UNCHANGED <<mailed, pw, last, redeemed>>

InsertLink(p) ==
    /\ proc[p].pc = "insert"
    /\ \E l \in Link :
         /\ links[l] = "none"
         /\ links' = [links EXCEPT ![l] = "pending"]
         /\ ResetGoto(p, "mail", l)
    /\ UNCHANGED <<mailed, pw, last, redeemed, over>>

SendMail(p) ==
    /\ proc[p].pc = "mail"
    /\ mailed' = mailed \cup {proc[p].link}
    /\ End(p)
    /\ UNCHANGED <<links, pw, last, redeemed, over>>

-----------------------------------------------------------------------------
(* completePasswordReset: check the row, hash, write, mark consumed.       *)

\* A row that is missing, consumed or expired is refused (no change of state).
CheckLink(p, l) ==
    /\ proc[p].pc = "idle" /\ l \in mailed /\ links[l] = "pending"
    /\ ResetGoto(p, "write", l)
    /\ UNCHANGED <<links, mailed, pw, last, redeemed, over>>

\* Broken variant: the new password is hashed the way the old one was.
SetPasswordAsBefore ==
    /\ last < MaxChange
    /\ last' = last + 1
    /\ pw' = [pw EXCEPT !.ver = last + 1]

\* A new password, hashed by the current method.
SetPassword ==
    /\ last < MaxChange
    /\ last' = last + 1
    /\ pw' = [ver |-> last + 1, legacy |-> FALSE]

\* By now nothing of the row is looked at again.
WriteReset(p) ==
    /\ proc[p].pc = "write"
    /\ SetPassword
    /\ redeemed' = redeemed \cup {proc[p].link}
    /\ ResetGoto(p, "consume", proc[p].link)
    /\ UNCHANGED <<links, mailed, over>>

\* UPDATE ... SET consumed_at WHERE id: no condition, and no row if deleted.
MarkConsumed(p) ==
    LET l == proc[p].link IN
    /\ proc[p].pc = "consume"
    /\ links' = IF links[l] = "deleted" THEN links ELSE [links EXCEPT ![l] = "consumed"]
    /\ PutOver({l}, "used")
    /\ End(p)
    /\ UNCHANGED <<mailed, pw, last, redeemed>>

-----------------------------------------------------------------------------
(* cancelPasswordReset: check the row, delete it.                          *)

\* The token carries the expiry of the row, so an expired link is refused.
CheckCancel(p, l) ==
    /\ proc[p].pc = "idle" /\ l \in mailed /\ links[l] = "pending"
    /\ ResetGoto(p, "cancel", l)
    /\ UNCHANGED <<links, mailed, pw, last, redeemed, over>>

DeleteLink(p) ==
    /\ proc[p].pc = "cancel"
    /\ links' = [links EXCEPT ![proc[p].link] = "deleted"]
    /\ PutOver({proc[p].link}, "cancelled")
    /\ End(p)
    /\ UNCHANGED <<mailed, pw, last, redeemed>>

-----------------------------------------------------------------------------
(* updateUser with a password: write it, then drop the outstanding links.  *)

ChangePassword(p) ==
    /\ proc[p].pc = "idle"
    /\ SetPassword
    /\ ResetGoto(p, "drop", NoLink)
    /\ UNCHANGED <<links, mailed, redeemed, over>>

DropLinks(p) ==
    /\ proc[p].pc = "drop"
    /\ DeleteByUserIdAndKind
    /\ PutOver({l \in Link : links[l] # "none"}, "changed")
    /\ End(p)
    /\ UNCHANGED <<mailed, pw, last, redeemed>>

-----------------------------------------------------------------------------
(* Sign-in verifies the stored hash and upgrades a legacy one.             *)

\* Broken variant: every successful sign-in stores a fresh hash.
EveryHash == TRUE

NeedsRehash == pw.legacy

VerifyPassword(p) ==
    /\ proc[p].pc = "idle" /\ NeedsRehash
    /\ proc' = [proc EXCEPT ![p] = [pc |-> "rehash", link |-> NoLink, read |-> pw.ver]]
    /\ UNCHANGED <<links, mailed, pw, last, redeemed, over>>

\* The new hash is of the password that was verified; the row may hold
\* another one by now.
UpgradeHash(p) ==
    /\ proc[p].pc = "rehash"
    /\ pw' = [ver |-> proc[p].read, legacy |-> FALSE]
    /\ End(p)
    /\ UNCHANGED <<links, mailed, last, redeemed, over>>

-----------------------------------------------------------------------------

\* The link's hour passes.
LinkLapses(l) ==
    /\ links[l] = "pending"
    /\ links' = [links EXCEPT ![l] = "lapsed"]
    /\ UNCHANGED <<mailed, pw, last, proc, redeemed, over>>

\* The request throws or its Worker dies: what it has written stays.
ResetDies(p) ==
    /\ proc[p].pc # "idle"
    /\ End(p)
    /\ UNCHANGED <<links, mailed, pw, last, redeemed, over>>

ResetNext ==
    \/ \E p \in Resetter :
         \/ PurgeLinks(p) \/ InsertLink(p) \/ SendMail(p)
         \/ WriteReset(p) \/ MarkConsumed(p) \/ DeleteLink(p)
         \/ ChangePassword(p) \/ DropLinks(p)
         \/ VerifyPassword(p) \/ UpgradeHash(p) \/ ResetDies(p)
         \/ \E l \in Link : CheckLink(p, l) \/ CheckCancel(p, l)
    \/ \E l \in Link : LinkLapses(l)

ResetSpec == ResetInit /\ [][ResetNext]_resetVars

-----------------------------------------------------------------------------
(* Properties.                                                             *)

\* A link that has been used, cancelled, purged by a newer request, or dropped
\* by a password change is refused from then on, whatever is still in flight:
\* a late statement of another request never makes it acceptable again.
SpentLinkRefused ==
    [][\A p \in Resetter, l \in Link : CheckLink(p, l) => over[l] = "no"]_resetVars

\* There are never more links outstanding than requests overlap: each request
\* purges before it inserts.
Outstanding == {l \in Link : links[l] \in {"pending", "lapsed"}}

OutstandingBounded ==
    Cardinality(Outstanding) + Cardinality({p \in Resetter : proc[p].pc = "insert"})
        <= Cardinality(Resetter)

\* A password that was replaced comes back only if it is the one that was
\* stored as a legacy hash, by a sign-in that had verified it before.
OnlyLegacyRevives == pw.ver \in {0, last}

\* docs/features/authentication.mdx:21, docs/guides/waf-rate-limiting.mdx:82:
\* a reset link is single-use.
LinkIsSingleUse ==
    [][\A p \in Resetter : WriteReset(p) => proc[p].link \notin redeemed]_resetVars
=============================================================================

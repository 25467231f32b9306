---------------------------- MODULE StagedUpload ----------------------------
(***************************************************************************)
(* One picture, the avatar of a user or the logo of the site: objects in a *)
(* bucket, and the key in the row that names the one shown.  A picture is  *)
(* uploaded under staging/ and copied to its final key, which has nothing  *)
(* but its extension to tell it from another, when a form is saved         *)
(* (promoteStagedUpload in uploads/staged-upload.ts, called by updateUser  *)
(* and promoteStagedLogo before they write the row).                       *)
(***************************************************************************)
EXTENDS Naturals, FiniteSets

CONSTANTS
    Upload,     \* pictures
    Ext,        \* extensions
    Former      \* forms that are saved at the same time

ASSUME NoPictureAssumption == "none" \notin Upload \cup Ext

VARIABLES
    ext,        \* ext[u]: the extension of a picture
    staged,     \* the pictures under staging/
    final,      \* final[e]: the picture at the final key with that extension
    shownKey,   \* the key in the row
    form,       \* form[f]: the call a save makes next, its picture, and whether
                \* it has overlapped no other
    submitted,  \* history: pictures that some save was given
    lastSaved,  \* history: the picture of the last save that wrote the row
    torn        \* history: saves overlapped or stopped half way since

uploadVars == <<ext, staged, final, shownKey, form, submitted, lastSaved, torn>>

NoForm == [pc |-> "idle", picture |-> "none", alone |-> TRUE]

Saving == {f \in Former : form[f].pc # "idle"}

\* What a visitor sees.
Shown == IF shownKey = "none" THEN "none" ELSE final[shownKey]

UploadTypeOK ==
    /\ ext \in [Upload -> Ext] /\ staged \in SUBSET Upload
    /\ final \in [Ext -> Upload \cup {"none"}] /\ shownKey \in Ext \cup {"none"}
    /\ form \in [Former -> [pc : {"idle", "get", "put", "delete", "row"},
                            picture : Upload \cup {"none"}, alone : BOOLEAN]]
    /\ submitted \in SUBSET Upload /\ lastSaved \in Upload \cup {"none"}
    /\ torn \in BOOLEAN

UploadInit ==
    /\ ext \in [Upload -> Ext] /\ staged = {}
    /\ final = [e \in Ext |-> "none"] /\ shownKey = "none"
    /\ form = [f \in Former |-> NoForm]
    /\ submitted = {} /\ lastSaved = "none" /\ torn = FALSE

FormGoto(f, l) == form' = [form EXCEPT ![f].pc = l]

\* Broken variant: the picture is put where it will be shown.
PutLive(u) == final' = [final EXCEPT ![ext[u]] = u]

PutStaged(u) == UNCHANGED final

\* POST .../stage: validated and put under a fresh key; the form may never be
\* saved.
Stage(u) ==
    /\ u \notin staged \cup submitted
    /\ staged' = staged \cup {u}
    /\ PutStaged(u)
    /\ UNCHANGED <<ext, shownKey, form, submitted, lastSaved, torn>>

Overlapped == [f \in Former |-> [form[f] EXCEPT !.alone = @ /\ form[f].pc = "idle"]]

\* The form is saved with a staged key.
BeginSave(f, u) ==
    /\ form[f].pc = "idle" /\ u \in staged
    /\ form' = [Overlapped EXCEPT ![f] = [pc |-> "get", picture |-> u,
                                          alone |-> Saving = {}]]
    /\ submitted' = submitted \cup {u}
    /\ UNCHANGED <<ext, staged, final, shownKey, lastSaved, torn>>

\* An upload that has gone is refused, and nothing is written.
GetStaged(f) ==
    /\ form[f].pc = "get"
    /\ \/ form[f].picture \in staged /\ FormGoto(f, "put")
       \/ form[f].picture \notin staged /\ form' = [form EXCEPT ![f] = NoForm]
    /\ UNCHANGED <<ext, staged, final, shownKey, submitted, lastSaved, torn>>

PutFinal(f) ==
    /\ form[f].pc = "put"
    /\ final' = [final EXCEPT ![ext[form[f].picture]] = form[f].picture]
    /\ FormGoto(f, "delete")
    /\ UNCHANGED <<ext, staged, shownKey, submitted, lastSaved, torn>>

\* Best-effort: a failure leaves the staged copy behind.
DeleteStaged(f) ==
    /\ form[f].pc = "delete"
    /\ \/ staged' = staged \ {form[f].picture}
       \/ UNCHANGED staged
    /\ FormGoto(f, "row")
    /\ UNCHANGED <<ext, final, shownKey, submitted, lastSaved, torn>>

\* Broken variant: the row keeps the key it has.
KeptKey(u) == IF shownKey = "none" THEN ext[u] ELSE shownKey

FinalKey(u) == ext[u]

\* A save that overlapped no other repairs what an earlier one left.
WriteRow(f) ==
    /\ form[f].pc = "row"
    /\ shownKey' = FinalKey(form[f].picture)
    /\ lastSaved' = form[f].picture
    /\ torn' = ~ form[f].alone
    /\ form' = [form EXCEPT ![f] = NoForm]
    /\ UNCHANGED <<ext, staged, final, submitted>>

\* The UPDATE is refused (a name already taken) or the Worker dies, before or
\* after the final object has been replaced.
SaveFails(f) ==
    /\ form[f].pc # "idle"
    /\ form' = [form EXCEPT ![f] = NoForm]
    /\ torn' = (torn \/ form[f].pc \in {"delete", "row"})
    /\ UNCHANGED <<ext, staged, final, shownKey, submitted, lastSaved>>

\* The lifecycle rule of the bucket.
ExpireStaged(u) ==
    /\ u \in staged
    /\ staged' = staged \ {u}
    /\ UNCHANGED <<ext, final, shownKey, form, submitted, lastSaved, torn>>

\* setLogoKey(null): the object stays.
ClearPicture ==
    /\ shownKey # "none"
    /\ shownKey' = "none" /\ lastSaved' = "none" /\ torn' = FALSE
    /\ form' = Overlapped
    /\ UNCHANGED <<ext, staged, final, submitted>>

UploadNext ==
    \/ \E u \in Upload : Stage(u) \/ ExpireStaged(u) \/ \E f \in Former : BeginSave(f, u)
    \/ \E f \in Former : \/ GetStaged(f) \/ PutFinal(f) \/ DeleteStaged(f)
                         \/ WriteRow(f) \/ SaveFails(f)
    \/ ClearPicture

UploadSpec == UploadInit /\ [][UploadNext]_uploadVars

-----------------------------------------------------------------------------
(* Properties.                                                             *)

\* A picture that was staged and never saved is never shown, and a key in the
\* row always names an object, whatever fails or overlaps.
ShownWasSubmitted == shownKey # "none" => Shown \in submitted

\* While no save is under way the picture of the last one is shown, unless
\* saves overlapped or one failed since: only then may the picture of a save
\* that never happened replace it.
LastSaveIsShown == ~ torn /\ Saving = {} => Shown = lastSaved
=============================================================================

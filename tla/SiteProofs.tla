----------------------------- MODULE SiteProofs -----------------------------
(***************************************************************************)
(* Proofs about what administrators set for the whole site: settings,      *)
(* pictures, password policies and scopes.                                 *)
(***************************************************************************)
EXTENDS SiteSettings, StagedUpload, PasswordPolicies, ScopeDiscovery, TLAPS

-----------------------------------------------------------------------------
(* Proofs about SiteSettings for any number of saves.  SettingsInv says    *)
(* what a save knows: that codes can be sent if it requires them, and, as  *)
(* long as it has overlapped no other, that the row it checked its fields  *)
(* against is still the row.                                               *)

SettingsInv ==
    /\ SettingsTypeOK
    /\ mfaEnabled => canSend
    /\ \A s \in Busy : changing[s].mfa = "set" => canSend
    /\ \A s \in Busy : changing[s].alone =>
          /\ Busy = {s}
          /\ Accepts(changing[s].url, changing[s].mfa)
    /\ SavesKeepSignInOpen

Change == [busy : BOOLEAN, url : Field, mfa : Field, alone : BOOLEAN]

LEMMA NoChangeType == NoChange \in Change /\ ~ NoChange.busy
  BY DEF NoChange, Change, Field

LEMMA SettingsInvInit == SettingsInit => SettingsInv
  <1> SUFFICES ASSUME SettingsInit PROVE SettingsInv
    OBVIOUS
  <1>1. Busy = {}
    BY NoChangeType DEF SettingsInit, Busy
  <1>2. SettingsTypeOK
    BY NoChangeType DEF SettingsInit, SettingsTypeOK, Change
  <1> QED
    BY <1>1, <1>2 DEF SettingsInit, SettingsInv, SavesKeepSignInOpen, LockedOut

LEMMA ReadSettingsStep ==
    ASSUME SettingsInv, NEW s \in Changer, NEW url \in Field, NEW mfa \in Field,
           ReadSettings(s, url, mfa)
    PROVE  SettingsInv'
  <1>1. /\ s \notin Busy /\ Accepts(url, mfa)
        /\ changing \in [Changer -> Change]
        /\ UNCHANGED <<siteUrl, mfaEnabled, canSend, blended>>
    BY DEF ReadSettings, SettingsInv, SettingsTypeOK, Change, Busy
  <1>a. PICK alone \in BOOLEAN : alone = (Busy = {})
    OBVIOUS
  <1>b. changing'[s] = [busy |-> TRUE, url |-> url, mfa |-> mfa, alone |-> alone]
    BY <1>a DEF ReadSettings
  <1>2. /\ changing'[s].busy /\ changing'[s].url = url /\ changing'[s].mfa = mfa
        /\ changing'[s].alone = alone
        /\ changing'[s] \in Change
    BY <1>b DEF Change
  <1>3. ASSUME NEW t \in Changer, t # s
        PROVE  /\ changing'[t] = [changing[t] EXCEPT !.alone = @ /\ ~ changing[t].busy]
               /\ changing'[t] \in Change /\ changing'[t].busy = changing[t].busy
               /\ changing'[t].mfa = changing[t].mfa
               /\ changing[t].busy => ~ changing'[t].alone
               /\ ~ changing[t].busy => changing'[t] = changing[t]
    BY <1>1, <1>3 DEF ReadSettings, Change
  <1>4. Busy' = Busy \cup {s}
    <2>1. \A t \in Changer : changing'[t].busy <=> t = s \/ changing[t].busy
      BY <1>2, <1>3
    <2> QED
      BY <2>1 DEF Busy
  <1>5. changing' \in [Changer -> Change]
    BY <1>1, <1>2, <1>3 DEF ReadSettings
  <1>6. SettingsTypeOK'
    BY <1>1, <1>3, <1>4, <1>5 DEF SettingsInv, SettingsTypeOK, Change, Busy
  <1>7. ASSUME NEW t \in Busy' PROVE changing'[t].mfa = "set" => canSend'
    <2>1. CASE t = s
      BY <1>1, <1>2, <2>1 DEF Accepts
    <2>2. CASE t # s
      BY <1>1, <1>3, <1>4, <2>2 DEF SettingsInv, Busy
    <2> QED
      BY <2>1, <2>2
  <1>8. ASSUME NEW t \in Busy', changing'[t].alone
        PROVE  Busy' = {t} /\ Accepts(changing[t].url, changing[t].mfa)'
    <2>1. t = s
      BY <1>3, <1>4, <1>8 DEF Busy
    <2>2. Busy = {}
      BY <1>2, <1>8, <1>a, <2>1
    <2>3. changing'[t].url = url /\ changing'[t].mfa = mfa
      BY <1>2, <2>1
    <2> QED
      BY <1>1, <1>4, <2>1, <2>2, <2>3 DEF Accepts
  <1>9. SavesKeepSignInOpen' /\ (mfaEnabled' => canSend')
    BY <1>1 DEF SettingsInv, SavesKeepSignInOpen, LockedOut
  <1> QED
    BY <1>6, <1>7, <1>8, <1>9 DEF SettingsInv

LEMMA LeavesBusy ==
    ASSUME SettingsInv, NEW s \in Busy, changing' = [changing EXCEPT ![s] = NoChange]
    PROVE  /\ Busy' = Busy \ {s} /\ \A t \in Busy' : changing'[t] = changing[t]
           /\ \A t \in Changer \ Busy' : changing'[t] = NoChange
           /\ changing' \in [Changer -> Change]
  BY NoChangeType DEF SettingsInv, SettingsTypeOK, Change, Busy

LEMMA UpdateSettingsStep ==
    ASSUME SettingsInv, NEW s \in Changer, UpdateSettings(s)
    PROVE  SettingsInv'
  <1>1. /\ s \in Busy /\ changing' = [changing EXCEPT ![s] = NoChange]
        /\ canSend' = canSend
    BY DEF UpdateSettings, Busy
  <1>2. /\ Busy' = Busy \ {s} /\ \A t \in Busy' : changing'[t] = changing[t]
        /\ \A t \in Changer \ Busy' : changing'[t] = NoChange
        /\ changing' \in [Changer -> Change]
    BY <1>1, LeavesBusy
  <1>3. changing[s] \in Change /\ {siteUrl, mfaEnabled, canSend, blended} \subseteq BOOLEAN
    BY DEF SettingsInv, SettingsTypeOK, Change
  <1>4. /\ siteUrl' = Patched(siteUrl, changing[s].url)
        /\ mfaEnabled' = Patched(mfaEnabled, changing[s].mfa)
        /\ blended' = ~ changing[s].alone
    BY DEF UpdateSettings
  <1>5. {siteUrl', mfaEnabled', canSend', blended'} \subseteq BOOLEAN
    BY <1>1, <1>3, <1>4 DEF Patched, Change
  <1>6. SettingsTypeOK'
    BY <1>2, <1>5 DEF SettingsTypeOK, Change, Busy
  <1>7. mfaEnabled' => canSend'
    BY <1>1, <1>4 DEF SettingsInv, Patched
  <1>8. ~ blended' => ~ LockedOut'
    <2>1. ~ blended' => Accepts(changing[s].url, changing[s].mfa)
      BY <1>1, <1>3, <1>4 DEF SettingsInv, Change
    <2> QED
      BY <1>4, <1>7, <2>1 DEF LockedOut, Accepts
  <1>9. \A t \in Busy' : ~ changing'[t].alone
    BY <1>1, <1>2 DEF SettingsInv
  <1>10. \A t \in Busy' : changing'[t].mfa = "set" => canSend'
    BY <1>1, <1>2 DEF SettingsInv
  <1> QED
    BY <1>6, <1>7, <1>8, <1>9, <1>10 DEF SettingsInv, SavesKeepSignInOpen

LEMMA SettingsFailStep ==
    ASSUME SettingsInv, NEW s \in Changer, SettingsFail(s)
    PROVE  SettingsInv'
  <1>1. /\ s \in Busy /\ changing' = [changing EXCEPT ![s] = NoChange]
        /\ UNCHANGED <<siteUrl, mfaEnabled, canSend, blended>>
    BY DEF SettingsFail, Busy
  <1>2. /\ Busy' = Busy \ {s} /\ \A t \in Busy' : changing'[t] = changing[t]
        /\ \A t \in Changer \ Busy' : changing'[t] = NoChange
        /\ changing' \in [Changer -> Change]
    BY <1>1, LeavesBusy
  <1>3. SettingsTypeOK'
    BY <1>1, <1>2 DEF SettingsInv, SettingsTypeOK, Change, Busy
  <1>4. \A t \in Busy' : ~ changing'[t].alone /\ (changing'[t].mfa = "set" => canSend')
    BY <1>1, <1>2 DEF SettingsInv
  <1> QED
    BY <1>1, <1>3, <1>4 DEF SettingsInv, SavesKeepSignInOpen, LockedOut

LEMMA SettingsInvStep == SettingsInv /\ [SettingsNext]_settingsVars => SettingsInv'
  <1> SUFFICES ASSUME SettingsInv, [SettingsNext]_settingsVars PROVE SettingsInv'
    OBVIOUS
  <1>1. CASE UNCHANGED settingsVars
    BY <1>1 DEF settingsVars, SettingsInv, SettingsTypeOK, Busy, Accepts,
       SavesKeepSignInOpen, LockedOut
  <1> QED
    BY <1>1, ReadSettingsStep, UpdateSettingsStep, SettingsFailStep DEF SettingsNext

\* However many administrators save the settings: codes are required where none
\* can be sent only after a save that overlapped another.
THEOREM SavesKeepSignInOpenHolds == SettingsSpec => []SavesKeepSignInOpen
  <1>1. SettingsSpec => []SettingsInv
    BY SettingsInvInit, SettingsInvStep, PTL DEF SettingsSpec
  <1>2. SettingsInv => SavesKeepSignInOpen
    BY DEF SettingsInv
  <1> QED
    BY <1>1, <1>2, PTL

-----------------------------------------------------------------------------
(* Proofs about StagedUpload for any pictures, extensions and forms.       *)
(* UploadInv follows a picture from the form to the key: what has been put *)
(* is there until another save puts its own, and as long as nothing that   *)
(* was put is without its row, the row shows what was saved.               *)

Form == [pc : {"idle", "get", "put", "delete", "row"},
         picture : Upload \cup {"none"}, alone : BOOLEAN]

\* Saves that have replaced an object and not yet written its key.
Replacing == {f \in Former : form[f].pc \in {"delete", "row"}}

UploadInv ==
    /\ UploadTypeOK
    /\ \A f \in Saving : form[f].picture \in submitted
    /\ \A e \in Ext : final[e] # "none" => final[e] \in submitted
    /\ shownKey # "none" => final[shownKey] # "none"
    /\ \A f \in Replacing : final[ext[form[f].picture]] # "none"
    /\ \A f \in Saving : form[f].alone => Saving = {f}
    /\ \A f \in Replacing : form[f].alone =>
          final[ext[form[f].picture]] = form[f].picture
    /\ ~ torn /\ Replacing = {} => Shown = lastSaved

LEMMA NoFormType == NoForm \in Form /\ NoForm.pc = "idle"
  BY DEF NoForm, Form

LEMMA UploadInvInit == UploadInit => UploadInv
  <1> SUFFICES ASSUME UploadInit PROVE UploadInv
    OBVIOUS
  <1>1. Saving = {} /\ Replacing = {}
    BY NoFormType DEF UploadInit, Saving, Replacing
  <1>2. UploadTypeOK
    BY NoFormType DEF UploadInit, UploadTypeOK, Form
  <1> QED
    BY <1>1, <1>2 DEF UploadInit, UploadInv, Shown

\* What the save that takes a step knows.
LEMMA FormKnown ==
    ASSUME UploadInv, NEW f \in Former, form[f].pc # "idle"
    PROVE  /\ form \in [Former -> Form] /\ form[f].picture \in submitted
           /\ form[f].picture \in Upload /\ form[f].picture # "none"
           /\ ext[form[f].picture] \in Ext /\ ext[form[f].picture] # "none"
           /\ f \in Saving
  BY NoPictureAssumption DEF UploadInv, UploadTypeOK, Saving, Form

\* A save that only moves on, and leaves the row and the objects as they are.
LEMMA FormMoves ==
    ASSUME UploadInv, NEW f \in Former, form[f].pc # "idle",
           NEW l \in {"put", "row"}, l = "put" => form[f].pc = "get",
           l = "row" => form[f].pc = "delete", FormGoto(f, l),
           staged' \in SUBSET Upload,
           UNCHANGED <<ext, final, shownKey, submitted, lastSaved, torn>>
    PROVE  UploadInv'
  <1>1. /\ form \in [Former -> Form] /\ form' = [form EXCEPT ![f].pc = l]
    BY FormKnown DEF FormGoto
  <1>2. /\ form' \in [Former -> Form] /\ form'[f].pc = l
        /\ \A g \in Former : /\ form'[g].picture = form[g].picture
                             /\ form'[g].alone = form[g].alone
        /\ \A g \in Former \ {f} : form'[g] = form[g]
    BY <1>1 DEF Form
  <1>3. Saving' = Saving /\ Replacing' = Replacing
    BY <1>2 DEF Saving, Replacing
  <1>4. UploadTypeOK'
    BY <1>2 DEF UploadInv, UploadTypeOK, Form
  <1> QED
    BY <1>2, <1>3, <1>4 DEF UploadInv, Shown, Saving, Replacing

\* A save that ends without a row: what it had put stays.
LEMMA FormEnds ==
    ASSUME UploadInv, NEW f \in Former, form[f].pc # "idle",
           form' = [form EXCEPT ![f] = NoForm],
           torn' = (torn \/ form[f].pc \in {"delete", "row"}),
           UNCHANGED <<ext, staged, final, shownKey, submitted, lastSaved>>
    PROVE  UploadInv'
  <1>1. /\ form \in [Former -> Form] /\ form' \in [Former -> Form] /\ form'[f].pc = "idle"
        /\ \A g \in Former \ {f} : form'[g] = form[g]
    BY FormKnown, NoFormType
  <1>2. Saving' = Saving \ {f} /\ Replacing' = Replacing \ {f}
    BY <1>1 DEF Saving, Replacing
  <1>3. f \notin Replacing \/ torn'
    BY DEF Replacing
  <1>4. UploadTypeOK'
    BY <1>1 DEF UploadInv, UploadTypeOK, Form
  <1>5. ~ torn' /\ Replacing' = {} => Shown' = lastSaved'
    BY <1>2, <1>3 DEF UploadInv, Shown
  <1>6. \A g \in Saving' : g \in Saving /\ form'[g] = form[g]
    BY <1>1, <1>2 DEF Saving
  <1>7. \A g \in Saving' : form'[g].alone => Saving' = {g}
    BY <1>2, <1>6 DEF UploadInv
  <1>8. \A g \in Replacing' : g \in Replacing /\ form'[g] = form[g]
    BY <1>1, <1>2 DEF Replacing
  <1> QED
    BY <1>4, <1>5, <1>6, <1>7, <1>8 DEF UploadInv

LEMMA BeginSaveStep ==
    ASSUME UploadInv, NEW f \in Former, NEW u \in Upload, BeginSave(f, u)
    PROVE  UploadInv'
  <1> DEFINE new == [pc |-> "get", picture |-> u, alone |-> Saving = {}]
  <1>1. form \in [Former -> Form] /\ form[f].pc = "idle" /\ f \notin Saving
    BY DEF BeginSave, UploadInv, UploadTypeOK, Form, Saving
  <1>2. /\ form' = [Overlapped EXCEPT ![f] = new]
        /\ submitted' = submitted \cup {u}
        /\ UNCHANGED <<ext, staged, final, shownKey, lastSaved, torn>>
    BY DEF BeginSave
  <1>3. /\ Overlapped \in [Former -> Form]
        /\ \A g \in Former : /\ Overlapped[g].pc = form[g].pc
                             /\ Overlapped[g].picture = form[g].picture
                             /\ form[g].pc # "idle" => ~ Overlapped[g].alone
    BY <1>1 DEF Overlapped, Form
  <1>4. new \in Form /\ new.pc = "get" /\ new.picture = u
    BY DEF Form
  <1>5. /\ form' \in [Former -> Form] /\ form'[f] = new
        /\ \A g \in Former \ {f} : form'[g] = Overlapped[g]
    BY <1>2, <1>3, <1>4
  <1>6. Saving' = Saving \cup {f} /\ Replacing' = Replacing
    BY <1>1, <1>3, <1>4, <1>5 DEF Saving, Replacing
  <1>7. UploadTypeOK'
    BY <1>2, <1>5 DEF UploadInv, UploadTypeOK, Form
  <1>8. \A g \in Saving' : /\ form'[g].picture \in submitted'
                           /\ form'[g].alone => Saving' = {g}
    <2>1. form'[f].picture \in submitted' /\ (form'[f].alone => Saving' = {f})
      BY <1>2, <1>5, <1>6
    <2>2. \A g \in Saving : form'[g].picture \in submitted' /\ ~ form'[g].alone
      BY <1>1, <1>2, <1>3, <1>5 DEF UploadInv, Saving
    <2> QED
      BY <1>6, <2>1, <2>2
  <1>9. \A g \in Replacing' : /\ ~ form'[g].alone
                              /\ final[ext[form'[g].picture]] # "none"
    BY <1>1, <1>3, <1>5, <1>6 DEF UploadInv, Replacing
  <1> QED
    BY <1>2, <1>6, <1>7, <1>8, <1>9 DEF UploadInv, Shown

LEMMA PutFinalStep ==
    ASSUME UploadInv, NEW f \in Former, PutFinal(f)
    PROVE  UploadInv'
  <1> DEFINE u == form[f].picture
  <1>1. /\ form[f].pc = "put" /\ form \in [Former -> Form] /\ u \in submitted /\ u \in Upload
        /\ u # "none" /\ ext[u] \in Ext /\ ext \in [Upload -> Ext] /\ f \in Saving
        /\ final \in [Ext -> Upload \cup {"none"}]
    BY FormKnown DEF PutFinal, UploadInv, UploadTypeOK
  <1>2. /\ final' = [final EXCEPT ![ext[u]] = u] /\ form' = [form EXCEPT ![f].pc = "delete"]
        /\ UNCHANGED <<ext, staged, shownKey, submitted, lastSaved, torn>>
    BY DEF PutFinal, FormGoto
  <1>3. /\ form' \in [Former -> Form] /\ form'[f].pc = "delete"
        /\ \A g \in Former : /\ form'[g].picture = form[g].picture
                             /\ form'[g].alone = form[g].alone
        /\ \A g \in Former \ {f} : form'[g] = form[g]
    BY <1>1, <1>2 DEF Form
  <1>4. Saving' = Saving /\ Replacing' = Replacing \cup {f}
    BY <1>1, <1>3 DEF Saving, Replacing
  <1>5. /\ final' \in [Ext -> Upload \cup {"none"}] /\ final'[ext[u]] = u
        /\ \A e \in Ext : final'[e] = final[e] \/ final'[e] = u
    BY <1>1, <1>2
  <1>6. UploadTypeOK'
    BY <1>2, <1>3, <1>5 DEF UploadInv, UploadTypeOK, Form
  <1>7. \A g \in Replacing' : ext[form[g].picture] \in Ext
    BY <1>1, <1>4, FormKnown DEF Replacing
  <1>8. \A g \in Replacing' : final'[ext[form'[g].picture]] # "none"
    <2>1. ASSUME NEW g \in Replacing'
          PROVE  /\ form'[g].picture = form[g].picture /\ ext[form[g].picture] \in Ext
                 /\ g = f \/ final[ext[form[g].picture]] # "none"
      BY <1>3, <1>4, <1>7, <2>1 DEF UploadInv, Replacing
    <2> QED
      BY <1>1, <1>5, <2>1
  <1>9. \A g \in Replacing' : form'[g].alone => g = f
    BY <1>1, <1>3, <1>4 DEF UploadInv, Saving, Replacing
  <1>10. shownKey' # "none" => final'[shownKey'] # "none"
    BY <1>1, <1>2, <1>5 DEF UploadInv, UploadTypeOK
  <1> QED
    BY <1>1, <1>2, <1>3, <1>4, <1>5, <1>6, <1>8, <1>9, <1>10 DEF UploadInv

LEMMA WriteRowStep ==
    ASSUME UploadInv, NEW f \in Former, WriteRow(f)
    PROVE  UploadInv'
  <1> DEFINE u == form[f].picture
  <1>1. /\ form[f].pc = "row" /\ form \in [Former -> Form] /\ u \in submitted /\ u \in Upload
        /\ ext[u] \in Ext /\ ext[u] # "none" /\ f \in Saving /\ f \in Replacing
    BY FormKnown DEF WriteRow, Replacing
  <1>2. /\ shownKey' = ext[u] /\ lastSaved' = u /\ torn' = ~ form[f].alone
        /\ form' = [form EXCEPT ![f] = NoForm]
        /\ UNCHANGED <<ext, staged, final, submitted>>
    BY DEF WriteRow, FinalKey
  <1>3. /\ form' \in [Former -> Form] /\ form'[f].pc = "idle"
        /\ \A g \in Former \ {f} : form'[g] = form[g]
    BY <1>1, <1>2, NoFormType
  <1>4. Saving' = Saving \ {f} /\ Replacing' = Replacing \ {f}
    BY <1>3 DEF Saving, Replacing
  <1>5. UploadTypeOK'
    BY <1>1, <1>2, <1>3 DEF UploadInv, UploadTypeOK, Form
  <1>6. ~ torn' => Shown' = lastSaved'
    BY <1>1, <1>2 DEF UploadInv, Shown
  <1>7. \A g \in Saving' : /\ g \in Saving /\ form'[g] = form[g]
                           /\ form'[g].alone => Saving' = {g}
    BY <1>1, <1>3, <1>4 DEF UploadInv, Saving
  <1>8. \A g \in Replacing' : g \in Replacing /\ form'[g] = form[g]
    BY <1>3, <1>4 DEF Replacing
  <1> QED
    BY <1>1, <1>2, <1>5, <1>6, <1>7, <1>8 DEF UploadInv

LEMMA ClearPictureStep ==
    ASSUME UploadInv, ClearPicture
    PROVE  UploadInv'
  <1>1. form \in [Former -> Form]
    BY DEF UploadInv, UploadTypeOK, Form
  <1>2. /\ form' \in [Former -> Form]
        /\ \A g \in Former : /\ form'[g].pc = form[g].pc
                             /\ form'[g].picture = form[g].picture
                             /\ form[g].pc # "idle" => ~ form'[g].alone
    BY <1>1 DEF ClearPicture, Overlapped, Form
  <1>3. Saving' = Saving /\ Replacing' = Replacing
    BY <1>2 DEF Saving, Replacing
  <1>4. UploadTypeOK'
    BY <1>2 DEF ClearPicture, UploadInv, UploadTypeOK, Form
  <1> QED
    BY <1>2, <1>3, <1>4 DEF ClearPicture, UploadInv, Shown, Saving, Replacing

LEMMA UploadInvStep == UploadInv /\ [UploadNext]_uploadVars => UploadInv'
  <1> SUFFICES ASSUME UploadInv, [UploadNext]_uploadVars PROVE UploadInv'
    OBVIOUS
  <1>1. ASSUME staged' \in SUBSET Upload,
               UNCHANGED <<ext, final, shownKey, form, submitted, lastSaved, torn>>
        PROVE  UploadInv'
    BY <1>1 DEF UploadInv, UploadTypeOK, Saving, Replacing, Shown
  <1>2. ASSUME NEW u \in Upload, Stage(u) \/ ExpireStaged(u) PROVE UploadInv'
    BY <1>1, <1>2 DEF Stage, PutStaged, ExpireStaged, UploadInv, UploadTypeOK
  <1>3. ASSUME NEW f \in Former, GetStaged(f) PROVE UploadInv'
    <2>1. form[f].pc = "get" /\ staged \in SUBSET Upload
      BY <1>3 DEF GetStaged, UploadInv, UploadTypeOK
    <2>2. CASE FormGoto(f, "put")
      BY <1>3, <2>1, <2>2, FormMoves DEF GetStaged
    <2>3. CASE form' = [form EXCEPT ![f] = NoForm]
      <3>1. torn' = (torn \/ form[f].pc \in {"delete", "row"})
        BY <1>3, <2>1 DEF GetStaged, UploadInv, UploadTypeOK
      <3> QED
        BY <1>3, <2>1, <2>3, <3>1, FormEnds DEF GetStaged
    <2> QED
      BY <1>3, <2>2, <2>3 DEF GetStaged
  <1>4. ASSUME NEW f \in Former, DeleteStaged(f) PROVE UploadInv'
    <2>1. form[f].pc = "delete" /\ staged' \in SUBSET Upload
      BY <1>4 DEF DeleteStaged, UploadInv, UploadTypeOK
    <2> QED
      BY <1>4, <2>1, FormMoves DEF DeleteStaged
  <1>5. ASSUME NEW f \in Former, SaveFails(f) PROVE UploadInv'
    BY <1>5, FormEnds DEF SaveFails
  <1>6. CASE UNCHANGED uploadVars
    BY <1>1, <1>6 DEF uploadVars, UploadInv, UploadTypeOK
  <1> QED
    BY <1>2, <1>3, <1>4, <1>5, <1>6, BeginSaveStep, PutFinalStep, WriteRowStep,
       ClearPictureStep DEF UploadNext

LEMMA UploadInvariant == UploadSpec => []UploadInv
  BY UploadInvInit, UploadInvStep, PTL DEF UploadSpec

\* ShownWasSubmitted (stage, promoteStagedUpload): for any pictures and saves, a
\* picture that was staged and never saved is never shown, and the key in the
\* row names an object.
THEOREM ShownWasSubmittedHolds == UploadSpec => []ShownWasSubmitted
  <1>1. UploadInv => ShownWasSubmitted
    BY DEF UploadInv, UploadTypeOK, ShownWasSubmitted, Shown
  <1> QED
    BY <1>1, UploadInvariant, PTL

\* LastSaveIsShown (updateUser and promoteStagedLogo around the promotion): for
\* any number of saves, the picture of the last one is shown unless saves
\* overlapped or one stopped between the object and the row.
THEOREM LastSaveIsShownHolds == UploadSpec => []LastSaveIsShown
  <1>1. UploadInv => LastSaveIsShown
    <2> SUFFICES ASSUME UploadInv, ~ torn, Saving = {} PROVE Shown = lastSaved
      BY DEF LastSaveIsShown
    <2>1. Replacing = {}
      BY DEF Saving, Replacing
    <2> QED
      BY <2>1 DEF UploadInv
  <1> QED
    BY <1>1, UploadInvariant, PTL

-----------------------------------------------------------------------------
(* Proofs about PasswordPolicies for any policies, rules and saves.        *)
(* PolicyInv says what a save that has met no other of its policy knows:   *)
(* its patch still fits the row it will change.                            *)

Bounds == [min : Length, max : Length \cup {0}] \cup {NoBounds}

PolicySave == [pc : {"idle", "insert", "update", "assign", "select"},
               policy : Policy \cup {"none"}, min : Length \cup {Keep},
               max : Length \cup {Keep, NoMax}, envs : SUBSET Environment,
               alone : BOOLEAN]

Writing == {s \in PolicySaver : policySave[s].pc \in {"insert", "update", "assign"}}

PolicyInv ==
    /\ bounds \in [Policy -> Bounds] /\ policySave \in [PolicySaver -> PolicySave]
    /\ \A s \in PolicySaver : policySave[s].pc # "idle" => policySave[s].policy \in Policy
    /\ \A s \in PolicySaver : policySave[s].pc = "insert" =>
          LET b == [min |-> policySave[s].min, max |-> policySave[s].max]
          IN  b \in Bounds /\ Fit(b)
    /\ \A s, t \in Writing : s # t /\ policySave[s].policy = policySave[t].policy =>
          ~ policySave[s].alone
    /\ \A s \in PolicySaver : policySave[s].pc = "update" /\ policySave[s].alone =>
          ValidRules(bounds[policySave[s].policy], policySave[s].min, policySave[s].max)
    /\ PolicyCanBeMet

LEMMA NoPolicySaveType ==
    NoPolicySave \in PolicySave /\ NoPolicySave.pc = "idle" /\ NoPolicySave.policy = "none"
  BY DEF NoPolicySave, PolicySave

\* A patch leaves a row a row, and what is gone gone.
LEMMA PatchedType ==
    ASSUME NEW b \in Bounds, NEW min \in Length \cup {Keep},
           NEW max \in Length \cup {Keep, NoMax}
    PROVE  /\ PatchedBounds(b, min, max) \in Bounds
           /\ PatchedBounds(NoBounds, min, max) = NoBounds /\ Fit(NoBounds)
  <1>1. CASE b = NoBounds
    BY <1>1 DEF PatchedBounds, Bounds, Fit, NoBounds
  <1>2. CASE b # NoBounds
    <2>1. b \in [min : Length, max : Length \cup {0}]
      BY <1>2 DEF Bounds
    <2>2. (CASE max = Keep -> b.max [] max = NoMax -> 0 [] OTHER -> max) \in Length \cup {0}
      BY <2>1 DEF Keep
    <2>3. (IF min = Keep THEN b.min ELSE min) \in Length
      BY <2>1
    <2> QED
      BY <1>2, <2>2, <2>3 DEF PatchedBounds, Bounds, Fit, NoBounds
  <1> QED
    BY <1>1, <1>2

LEMMA PolicyInvInit == PoliciesInit => PolicyInv
  <1> SUFFICES ASSUME PoliciesInit PROVE PolicyInv
    OBVIOUS
  <1>1. Existing = {} /\ Writing = {}
    BY NoPolicySaveType DEF PoliciesInit, Existing, Writing
  <1> QED
    BY <1>1, NoPolicySaveType DEF PoliciesInit, PolicyInv, PolicyCanBeMet, Bounds

\* A new save: those of the same policy lose alone, others keep what they know.
LEMMA PolicySaveBegins ==
    ASSUME PolicyInv, NEW s \in PolicySaver, policySave[s].pc = "idle",
           NEW save \in PolicySave, save.policy \in Policy,
           save.pc \in {"insert", "update"},
           policySave' = SaveStarted(s, save), UNCHANGED <<bounds, crossed>>,
           save.pc = "insert" => LET b == [min |-> save.min, max |-> save.max]
                                 IN  b \in Bounds /\ Fit(b),
           save.pc = "update" => ValidRules(bounds[save.policy], save.min, save.max)
    PROVE  PolicyInv'
  <1>1. policySave \in [PolicySaver -> PolicySave]
    BY DEF PolicyInv
  <1>2. PICK new : new = [save EXCEPT !.alone = SavesOf(save.policy) = {}]
    OBVIOUS
  <1>3. /\ new \in PolicySave /\ new.pc = save.pc /\ new.policy = save.policy
        /\ new.min = save.min /\ new.max = save.max
        /\ new.alone => SavesOf(save.policy) = {}
    BY <1>2 DEF PolicySave
  <1>4. \A t \in PolicySaver \ {s} :
           policySave'[t] = [policySave[t] EXCEPT
                                !.alone = @ /\ policySave[t].policy # save.policy]
    BY <1>1 DEF SaveStarted
  <1>5. policySave'[s] = new
    BY <1>2 DEF SaveStarted
  <1>6. \A t \in PolicySaver \ {s} :
           /\ policySave'[t] \in PolicySave /\ policySave'[t].pc = policySave[t].pc
           /\ policySave'[t].policy = policySave[t].policy
           /\ policySave'[t].min = policySave[t].min /\ policySave'[t].max = policySave[t].max
           /\ policySave'[t].alone =>
                 policySave[t].alone /\ policySave[t].policy # save.policy
    <2> SUFFICES ASSUME NEW t \in PolicySaver \ {s}
                 PROVE  /\ policySave'[t] \in PolicySave
                        /\ policySave'[t].pc = policySave[t].pc
                        /\ policySave'[t].policy = policySave[t].policy
                        /\ policySave'[t].min = policySave[t].min
                        /\ policySave'[t].max = policySave[t].max
                        /\ policySave'[t].alone =>
                              policySave[t].alone /\ policySave[t].policy # save.policy
      OBVIOUS
    <2>1. PICK x : x = policySave[t]
      OBVIOUS
    <2>2. PICK a : a = (x.alone /\ x.policy # save.policy)
      OBVIOUS
    <2>3. x \in PolicySave /\ a \in BOOLEAN
      BY <1>1, <2>1, <2>2
    <2>4. policySave'[t] = [x EXCEPT !.alone = a]
      BY <1>4, <2>1, <2>2
    <2>5. (a => x.alone /\ x.policy # save.policy)
      BY <2>2
    <2> QED
      BY <2>1, <2>3, <2>4, <2>5 DEF PolicySave
  <1>7. policySave' \in [PolicySaver -> PolicySave]
    BY <1>3, <1>5, <1>6 DEF SaveStarted
  <1>8. \A t, u \in Writing' :
           t # u /\ policySave'[t].policy = policySave'[u].policy => ~ policySave'[t].alone
    BY <1>3, <1>5, <1>6 DEF PolicyInv, Writing, SavesOf
  <1>9. \A t \in PolicySaver : policySave'[t].pc = "insert" =>
          LET b == [min |-> policySave'[t].min, max |-> policySave'[t].max]
          IN  b \in Bounds /\ Fit(b)
    BY <1>3, <1>5, <1>6 DEF PolicyInv
  <1>10. \A t \in PolicySaver : policySave'[t].pc = "update" /\ policySave'[t].alone =>
          ValidRules(bounds[policySave'[t].policy], policySave'[t].min, policySave'[t].max)
    BY <1>3, <1>5, <1>6 DEF PolicyInv
  <1>11. \A t \in PolicySaver : policySave'[t].pc # "idle" => policySave'[t].policy \in Policy
    BY <1>3, <1>5, <1>6 DEF PolicyInv
  <1> QED
    BY <1>7, <1>8, <1>9, <1>10, <1>11 DEF PolicyInv, PolicyCanBeMet, Existing

\* A save that ends, or goes on to the environments: with the row of its policy
\* p as it was, or no other save knowing anything of it.
LEMMA PolicySaveMoves ==
    ASSUME PolicyInv, NEW s \in PolicySaver, NEW p \in Policy, NEW new \in PolicySave,
           policySave' = [policySave EXCEPT ![s] = new],
           new.pc \in {"idle", "assign"}, new.pc # "idle" => new.policy \in Policy,
           new.pc = "assign" => /\ s \in Writing /\ new.policy = policySave[s].policy
                                /\ new.alone = policySave[s].alone,
           bounds' \in [Policy -> Bounds], \A r \in Policy \ {p} : bounds'[r] = bounds[r],
           crossed \ {p} = crossed' \ {p},
           bounds'[p] = bounds[p] \/ (s \in Writing /\ policySave[s].policy = p),
           p \in crossed' \/ Fit(bounds'[p])
    PROVE  PolicyInv'
  <1>1. /\ policySave \in [PolicySaver -> PolicySave]
        /\ policySave' \in [PolicySaver -> PolicySave] /\ policySave'[s] = new
        /\ \A t \in PolicySaver \ {s} : policySave'[t] = policySave[t]
    BY DEF PolicyInv
  <1>2. \A t, u \in Writing' :
           t # u /\ policySave'[t].policy = policySave'[u].policy => ~ policySave'[t].alone
    BY <1>1 DEF PolicyInv, Writing
  <1>3. \A t \in PolicySaver : policySave'[t].pc = "insert" =>
          LET b == [min |-> policySave'[t].min, max |-> policySave'[t].max]
          IN  b \in Bounds /\ Fit(b)
    BY <1>1 DEF PolicyInv
  <1>4. ASSUME NEW t \in PolicySaver, policySave'[t].pc = "update", policySave'[t].alone
        PROVE  ValidRules(bounds'[policySave'[t].policy], policySave'[t].min, policySave'[t].max)
    <2>1. t # s /\ policySave'[t] = policySave[t] /\ policySave[t].policy \in Policy
      BY <1>1, <1>4 DEF PolicyInv
    <2>2. bounds'[policySave[t].policy] = bounds[policySave[t].policy]
      BY <1>4, <2>1 DEF PolicyInv, Writing
    <2> QED
      BY <1>4, <2>1, <2>2 DEF PolicyInv
  <1>5. \A r \in Existing' \ crossed' : Fit(bounds'[r])
    BY DEF PolicyInv, PolicyCanBeMet, Existing
  <1>6. \A t \in PolicySaver : policySave'[t].pc # "idle" => policySave'[t].policy \in Policy
    BY <1>1 DEF PolicyInv
  <1> QED
    BY <1>1, <1>2, <1>3, <1>4, <1>5, <1>6 DEF PolicyInv, PolicyCanBeMet

LEMMA BeginCreateStep ==
    ASSUME PolicyInv, NEW s \in PolicySaver, NEW p \in Policy,
           NEW envs \in SUBSET Environment, NEW b \in NewRules, BeginCreate(s, p, b, envs)
    PROVE  PolicyInv'
  <1>1. b \in [min : Length, max : Length \cup {0}] /\ Fit(b)
    BY RulesAssumption DEF BeginCreate
  <1>2. PICK save : save = [NoPolicySave EXCEPT !.pc = "insert", !.policy = p, !.min = b.min,
                                               !.max = b.max, !.envs = envs]
    OBVIOUS
  <1>3. /\ save \in PolicySave /\ save.pc = "insert" /\ save.policy = p
        /\ save.min = b.min /\ save.max = b.max
    BY <1>1, <1>2, NoPolicySaveType DEF PolicySave, Keep
  <1>4. LET r == [min |-> save.min, max |-> save.max] IN r \in Bounds /\ Fit(r)
    BY <1>1, <1>3 DEF Bounds, Fit
  <1>5. policySave' = SaveStarted(s, save) /\ policySave[s].pc = "idle"
        /\ UNCHANGED <<bounds, crossed>>
    BY <1>2 DEF BeginCreate
  <1> QED
    BY <1>3, <1>4, <1>5, PolicySaveBegins

LEMMA BeginUpdateStep ==
    ASSUME PolicyInv, NEW s \in PolicySaver, NEW p \in Policy,
           NEW envs \in SUBSET Environment, NEW patch \in RulePatch,
           BeginUpdate(s, p, patch, envs)
    PROVE  PolicyInv'
  <1>1. patch \in [min : Length \cup {Keep}, max : Length \cup {Keep, NoMax}]
    BY RulesAssumption
  <1>2. PICK save : save = [NoPolicySave EXCEPT !.pc = "update", !.policy = p,
                               !.min = patch.min, !.max = patch.max, !.envs = envs]
    OBVIOUS
  <1>3. /\ save \in PolicySave /\ save.pc = "update" /\ save.policy = p
        /\ save.min = patch.min /\ save.max = patch.max
    BY <1>1, <1>2, NoPolicySaveType DEF PolicySave
  <1>4. /\ policySave' = SaveStarted(s, save) /\ policySave[s].pc = "idle"
        /\ UNCHANGED <<bounds, crossed>>
        /\ ValidRules(bounds[save.policy], save.min, save.max)
    BY <1>2, <1>3 DEF BeginUpdate
  <1> QED
    BY <1>3, <1>4, PolicySaveBegins

LEMMA AssignType ==
    ASSUME PolicyInv, NEW s \in Writing
    PROVE  LET new == ToAssign(policySave[s]) IN
           /\ new \in PolicySave /\ new.pc = "assign"
           /\ new.policy = policySave[s].policy /\ new.alone = policySave[s].alone
           /\ new.policy \in Policy
  BY DEF PolicyInv, PolicySave, ToAssign, Keep, Writing

LEMMA InsertPolicyStep ==
    ASSUME PolicyInv, NEW s \in PolicySaver, InsertPolicy(s)
    PROVE  PolicyInv'
  <1> DEFINE p == policySave[s].policy
             b == [min |-> policySave[s].min, max |-> policySave[s].max]
  <1>1. /\ s \in Writing /\ p \in Policy /\ b \in Bounds /\ Fit(b)
        /\ bounds \in [Policy -> Bounds] /\ bounds' = [bounds EXCEPT ![p] = b]
        /\ policySave \in [PolicySaver -> PolicySave] /\ crossed' = crossed
    BY DEF InsertPolicy, PolicyInv, Writing
  <1>2. /\ bounds' \in [Policy -> Bounds] /\ Fit(bounds'[p])
        /\ \A r \in Policy \ {p} : bounds'[r] = bounds[r]
    BY <1>1
  <1>3. PICK new : new = IF policySave[s].envs = {} THEN NoPolicySave ELSE ToAssign(policySave[s])
    OBVIOUS
  <1>4. policySave' = [policySave EXCEPT ![s] = new]
    BY <1>1, <1>3 DEF InsertPolicy
  <1>5. CASE new = NoPolicySave
    BY <1>1, <1>2, <1>4, <1>5, NoPolicySaveType, PolicySaveMoves
  <1>6. CASE new = ToAssign(policySave[s])
    BY <1>1, <1>2, <1>4, <1>6, AssignType, PolicySaveMoves
  <1> QED
    BY <1>3, <1>5, <1>6

LEMMA UpdatePolicyStep ==
    ASSUME PolicyInv, NEW s \in PolicySaver, UpdatePolicy(s)
    PROVE  PolicyInv'
  <1> DEFINE save == policySave[s]
             p == save.policy
             b == PatchedBounds(bounds[p], save.min, save.max)
  <1>1. /\ s \in Writing /\ p \in Policy /\ save \in PolicySave /\ save.pc = "update"
        /\ bounds \in [Policy -> Bounds] /\ bounds' = [bounds EXCEPT ![p] = b]
        /\ policySave' = [policySave EXCEPT ![s] = ToAssign(save)]
        /\ crossed' = IF save.alone THEN crossed \ {p} ELSE crossed \cup {p}
    BY DEF UpdatePolicy, PolicyInv, Writing
  <1>2. b \in Bounds
    BY <1>1, PatchedType DEF PolicySave
  <1>3. p \in crossed' \/ Fit(b)
    BY <1>1 DEF PolicyInv, ValidRules
  <1>4. /\ bounds' \in [Policy -> Bounds] /\ bounds'[p] = b
        /\ \A r \in Policy \ {p} : bounds'[r] = bounds[r]
    BY <1>1, <1>2
  <1>5. crossed \ {p} = crossed' \ {p}
    BY <1>1
  <1> QED
    BY <1>1, <1>3, <1>4, <1>5, AssignType, PolicySaveMoves

\* The deletion of a policy satisfies every patch of it.
LEMMA DeletePolicyStep ==
    ASSUME PolicyInv, NEW p \in Policy, DeletePolicy(p)
    PROVE  PolicyInv'
  <1>1. /\ bounds \in [Policy -> Bounds] /\ bounds' = [bounds EXCEPT ![p] = NoBounds]
        /\ policySave' = policySave /\ crossed' = crossed \ {p}
        /\ policySave \in [PolicySaver -> PolicySave]
    BY DEF DeletePolicy, PolicyInv
  <1>2. bounds' \in [Policy -> Bounds] /\ p \notin Existing'
    BY <1>1 DEF Bounds, Existing
  <1>3. \A s \in PolicySaver : policySave[s].pc = "update" /\ policySave[s].alone =>
          ValidRules(bounds'[policySave[s].policy], policySave[s].min, policySave[s].max)
    <2> SUFFICES ASSUME NEW s \in PolicySaver, policySave[s].pc = "update", policySave[s].alone
                 PROVE  ValidRules(bounds'[policySave[s].policy], policySave[s].min,
                                   policySave[s].max)
      OBVIOUS
    <2>1. policySave[s].policy \in Policy /\ policySave[s] \in PolicySave
      BY <1>1 DEF PolicyInv
    <2>2. CASE policySave[s].policy = p
      BY <1>1, <2>1, <2>2, PatchedType DEF ValidRules, PolicySave, Bounds
    <2>3. CASE policySave[s].policy # p
      BY <1>1, <2>1, <2>3 DEF PolicyInv
    <2> QED
      BY <2>2, <2>3
  <1>4. \A r \in Existing' \ crossed' : Fit(bounds'[r])
    BY <1>1, <1>2 DEF PolicyInv, PolicyCanBeMet, Existing
  <1> QED
    BY <1>1, <1>2, <1>3, <1>4 DEF PolicyInv, PolicyCanBeMet, Writing

LEMMA PolicyInvStep == PolicyInv /\ [PoliciesNext]_policyVars => PolicyInv'
  <1> SUFFICES ASSUME PolicyInv, [PoliciesNext]_policyVars PROVE PolicyInv'
    OBVIOUS
  <1>1. ASSUME NEW s \in PolicySaver, policySave' = [policySave EXCEPT ![s] = NoPolicySave],
               UNCHANGED <<bounds, crossed>>
        PROVE  PolicyInv'
    <2>1. policySave \in [PolicySaver -> PolicySave]
      BY DEF PolicyInv
    <2>2. /\ policySave' \in [PolicySaver -> PolicySave] /\ policySave'[s].pc = "idle"
          /\ \A t \in PolicySaver \ {s} : policySave'[t] = policySave[t]
      BY <1>1, <2>1, NoPolicySaveType
    <2>3. Writing' = Writing \ {s}
      BY <2>2 DEF Writing
    <2>4. \A t \in Writing' : policySave'[t] = policySave[t]
      BY <2>2, <2>3 DEF Writing
    <2> QED
      BY <1>1, <2>2, <2>3, <2>4 DEF PolicyInv, PolicyCanBeMet, Existing
  <1>2. ASSUME NEW s \in PolicySaver,
               AssignEnvironments(s) \/ PolicySaveDies(s) \/ SelectAdminPolicy(s)
        PROVE  PolicyInv'
    BY <1>1, <1>2 DEF AssignEnvironments, PolicySaveDies, SelectAdminPolicy
  <1>3. ASSUME NEW s \in PolicySaver, NEW p \in Policy, ChooseAdminPolicy(s, p)
        PROVE  PolicyInv'
    <2>1. PICK new : new = [NoPolicySave EXCEPT !.pc = "select", !.policy = p]
      OBVIOUS
    <2>2. new \in PolicySave /\ new.pc = "select" /\ new.policy = p
      BY <2>1, NoPolicySaveType DEF PolicySave
    <2>3. /\ policySave \in [PolicySaver -> PolicySave] /\ policySave[s].pc = "idle"
          /\ policySave' = [policySave EXCEPT ![s] = new] /\ UNCHANGED <<bounds, crossed>>
      BY <1>3, <2>1 DEF ChooseAdminPolicy, PolicyInv
    <2>4. /\ policySave' \in [PolicySaver -> PolicySave] /\ policySave'[s] = new
          /\ \A t \in PolicySaver \ {s} : policySave'[t] = policySave[t]
      BY <2>2, <2>3
    <2>5. Writing' = Writing /\ s \notin Writing
      BY <2>2, <2>3, <2>4 DEF Writing
    <2>6. \A t \in Writing' : policySave'[t] = policySave[t]
      BY <2>4, <2>5 DEF Writing
    <2> QED
      BY <2>2, <2>3, <2>4, <2>5, <2>6 DEF PolicyInv, PolicyCanBeMet, Existing
  <1>4. CASE UNCHANGED policyVars
    BY <1>4 DEF policyVars, PolicyInv, PolicyCanBeMet, Existing, Writing
  <1> QED
    BY <1>2, <1>3, <1>4, BeginCreateStep, BeginUpdateStep, InsertPolicyStep,
       UpdatePolicyStep, DeletePolicyStep DEF PoliciesNext

\* PolicyCanBeMet (validateRules and the UPDATE of a patch): for any policies
\* and saves, the minimum length of a policy exceeds its maximum only when two
\* updates of it overlapped.
THEOREM PolicyCanBeMetHolds == PoliciesSpec => []PolicyCanBeMet
  <1>1. PolicyInv => PolicyCanBeMet
    BY DEF PolicyInv
  <1> QED
    BY <1>1, PolicyInvInit, PolicyInvStep, PTL DEF PoliciesSpec

-----------------------------------------------------------------------------
(* Proofs about ScopeDiscovery for any names, requests and age of the      *)
(* cache.  A list that has been read is on its way to the cache with the   *)
(* age of its request, and was the list of the table since that began.     *)

ReaderRow == [pc : {"idle", "list", "store"}, age : Age, names : SUBSET Name]

DiscoveryInv ==
    /\ scopes \in SUBSET Name /\ deleter \in [Deleter -> SUBSET Name]
    /\ cached \in [names : SUBSET Name, age : Age]
    /\ reader \in [Reader -> ReaderRow]
    /\ since \in [SUBSET Name -> Age] /\ since[scopes] = 0
    /\ \A p \in Reader : reader[p].pc = "store" /\ reader[p].age < TTL =>
          since[reader[p].names] <= reader[p].age
    /\ ServedIsRecent

LEMMA AgeType ==
    /\ 0 \in Age /\ TTL \in Age /\ TTL \in Nat
    /\ \A n \in Age : /\ n \in Nat /\ n <= TTL /\ Later(n) \in Age
                      /\ Later(n) < TTL => n < TTL /\ Later(n) = n + 1
                      /\ Later(n) <= n + 1
  BY TTLAssumption DEF Age, Later

LEMMA NoReaderType == NoReader \in ReaderRow /\ NoReader.pc = "idle"
  BY AgeType DEF NoReader, ReaderRow

LEMMA DiscoveryInvInit == DiscoveryInit => DiscoveryInv
  BY AgeType, NoReaderType DEF DiscoveryInit, DiscoveryInv, ServedIsRecent

\* A list that comes back into the table is current again.
LEMMA ScopesBecomeStep ==
    ASSUME DiscoveryInv, NEW S \in SUBSET Name, ScopesBecome(S), UNCHANGED <<cached, reader>>,
           deleter' \in [Deleter -> SUBSET Name]
    PROVE  DiscoveryInv'
  <1>1. /\ since \in [SUBSET Name -> Age] /\ since' = [since EXCEPT ![S] = 0] /\ scopes' = S
    BY DEF DiscoveryInv, ScopesBecome
  <1>2. /\ since' \in [SUBSET Name -> Age] /\ since'[scopes'] = 0
        /\ \A T \in SUBSET Name : since'[T] <= since[T]
    BY <1>1, TTLAssumption DEF Age
  <1>3. \A p \in Reader : reader[p].names \in SUBSET Name /\ reader[p].age \in Age
    BY DEF DiscoveryInv, ReaderRow
  <1>4. \A p \in Reader : reader[p].pc = "store" /\ reader[p].age < TTL =>
          since'[reader[p].names] <= reader[p].age
    <2> SUFFICES ASSUME NEW p \in Reader, reader[p].pc = "store", reader[p].age < TTL
                 PROVE  since'[reader[p].names] <= reader[p].age
      OBVIOUS
    <2>1. since[reader[p].names] <= reader[p].age
      BY DEF DiscoveryInv
    <2> QED
      BY <1>1, <1>2, <1>3, <2>1, TTLAssumption DEF Age
  <1>5. ServedIsRecent'
    <2>1. cached.age < TTL => since[cached.names] <= cached.age
      BY DEF DiscoveryInv, ServedIsRecent
    <2>2. cached.names \in SUBSET Name /\ cached.age \in Age
      BY DEF DiscoveryInv
    <2> QED
      BY <1>1, <1>2, <2>1, <2>2, TTLAssumption DEF ServedIsRecent, Age
  <1> QED
    BY <1>1, <1>2, <1>4, <1>5 DEF DiscoveryInv

\* One request moves on.
LEMMA ReaderStep ==
    ASSUME DiscoveryInv, NEW p \in Reader, NEW new \in ReaderRow,
           reader' = [reader EXCEPT ![p] = new], UNCHANGED <<scopes, deleter, since>>,
           new.pc = "store" => new.names = scopes,
           cached' = cached \/ (/\ cached' \in [names : SUBSET Name, age : Age]
                                /\ reader[p].pc = "store"
                                /\ cached'.names = reader[p].names
                                /\ cached'.age = reader[p].age)
    PROVE  DiscoveryInv'
  <1>1. reader' \in [Reader -> ReaderRow] /\ cached' \in [names : SUBSET Name, age : Age]
    BY DEF DiscoveryInv
  <1>2. reader'[p] = new /\ \A o \in Reader \ {p} : reader'[o] = reader[o]
    BY DEF DiscoveryInv
  <1>3. new.pc = "store" => since[new.names] <= new.age
    BY TTLAssumption DEF DiscoveryInv, ReaderRow, Age
  <1>4. \A o \in Reader : reader'[o].pc = "store" /\ reader'[o].age < TTL =>
          since[reader'[o].names] <= reader'[o].age
    BY <1>2, <1>3 DEF DiscoveryInv
  <1>5. ServedIsRecent'
    BY DEF DiscoveryInv, ServedIsRecent
  <1> QED
    BY <1>1, <1>4, <1>5 DEF DiscoveryInv

LEMMA ReadersStep ==
    ASSUME DiscoveryInv, NEW p \in Reader,
           AskForScopes(p) \/ ListScopes(p) \/ StoreScopes(p) \/ ReaderDies(p)
    PROVE  DiscoveryInv'
  <1>1. reader \in [Reader -> ReaderRow] /\ reader[p] \in ReaderRow /\ scopes \in SUBSET Name
    BY DEF DiscoveryInv
  <1>2. CASE AskForScopes(p)
    <2>1. PICK new : new = [reader[p] EXCEPT !.pc = "list"]
      OBVIOUS
    <2>2. new \in ReaderRow /\ new.pc = "list"
      BY <1>1, <2>1 DEF ReaderRow
    <2>3. reader' = [reader EXCEPT ![p] = new]
      BY <1>1, <1>2, <2>1 DEF AskForScopes
    <2> QED
      BY <1>2, <2>2, <2>3, ReaderStep DEF AskForScopes
  <1>3. CASE ListScopes(p)
    <2>1. PICK new : new = [reader[p] EXCEPT !.pc = "store", !.names = scopes]
      OBVIOUS
    <2>2. new \in ReaderRow /\ new.names = scopes
      BY <1>1, <2>1 DEF ReaderRow
    <2>3. reader' = [reader EXCEPT ![p] = new]
      BY <1>1, <1>3, <2>1 DEF ListScopes
    <2> QED
      BY <1>3, <2>2, <2>3, ReaderStep DEF ListScopes
  <1>4. CASE StoreScopes(p)
    <2>1. /\ cached' \in [names : SUBSET Name, age : Age] /\ reader[p].pc = "store"
          /\ cached'.names = reader[p].names /\ cached'.age = reader[p].age
      BY <1>1, <1>4 DEF StoreScopes, FromStart, ReaderRow
    <2> QED
      BY <1>4, <2>1, NoReaderType, ReaderStep DEF StoreScopes
  <1>5. CASE ReaderDies(p)
    BY <1>5, NoReaderType, ReaderStep DEF ReaderDies
  <1> QED
    BY <1>2, <1>3, <1>4, <1>5

LEMMA PassTimeStep ==
    ASSUME DiscoveryInv, PassTime
    PROVE  DiscoveryInv'
  <1>1. /\ since \in [SUBSET Name -> Age] /\ scopes \in SUBSET Name
        /\ cached \in [names : SUBSET Name, age : Age] /\ reader \in [Reader -> ReaderRow]
        /\ UNCHANGED <<scopes, deleter>>
    BY DEF DiscoveryInv, PassTime
  <1>2. /\ since' \in [SUBSET Name -> Age] /\ since'[scopes] = 0
        /\ \A S \in SUBSET Name : since'[S] <= since[S] + 1
    BY <1>1, AgeType DEF PassTime
  <1>3. /\ cached' \in [names : SUBSET Name, age : Age] /\ cached'.names = cached.names
        /\ cached'.age = Later(cached.age)
    BY <1>1, AgeType DEF PassTime
  <1>4. \A p \in Reader :
          /\ reader'[p] \in ReaderRow /\ reader'[p].pc = reader[p].pc
          /\ reader'[p].names = reader[p].names
          /\ reader[p].pc = "store" => reader'[p].age = Later(reader[p].age)
    <2> SUFFICES ASSUME NEW p \in Reader
                 PROVE  /\ reader'[p] \in ReaderRow /\ reader'[p].pc = reader[p].pc
                        /\ reader'[p].names = reader[p].names
                        /\ reader[p].pc = "store" => reader'[p].age = Later(reader[p].age)
      OBVIOUS
    <2>1. reader[p] \in ReaderRow /\ Later(reader[p].age) \in Age
      BY <1>1, AgeType DEF ReaderRow
    <2>2. reader'[p] = IF reader[p].pc = "idle" THEN reader[p]
                       ELSE [reader[p] EXCEPT !.age = Later(@)]
      BY DEF PassTime
    <2> QED
      BY <2>1, <2>2 DEF ReaderRow
  <1>5. reader' \in [Reader -> ReaderRow]
    BY <1>4 DEF PassTime
  <1>6. \A p \in Reader : reader'[p].pc = "store" /\ reader'[p].age < TTL =>
          since'[reader'[p].names] <= reader'[p].age
    <2> SUFFICES ASSUME NEW p \in Reader, reader'[p].pc = "store", reader'[p].age < TTL
                 PROVE  since'[reader'[p].names] <= reader'[p].age
      OBVIOUS
    <2>1. reader[p].age \in Age /\ reader[p].names \in SUBSET Name
      BY <1>1 DEF ReaderRow
    <2>2. since[reader[p].names] <= reader[p].age /\ reader'[p].age = reader[p].age + 1
      BY <1>4, <2>1, AgeType DEF DiscoveryInv
    <2>3. since'[reader[p].names] <= since[reader[p].names] + 1
      BY <1>2, <2>1
    <2> QED
      BY <1>1, <1>2, <1>4, <2>1, <2>2, <2>3, TTLAssumption DEF Age
  <1>7. ServedIsRecent'
    <2> SUFFICES ASSUME cached'.age < TTL PROVE since'[cached.names] <= cached'.age
      BY <1>3 DEF ServedIsRecent
    <2>1. cached.age \in Age /\ cached.names \in SUBSET Name
      BY <1>1
    <2>2. cached'.age = cached.age + 1 /\ since[cached.names] <= cached.age
      BY <1>3, <2>1, AgeType DEF DiscoveryInv, ServedIsRecent
    <2>3. since'[cached.names] <= since[cached.names] + 1
      BY <1>2, <2>1
    <2> QED
      BY <1>1, <1>2, <2>1, <2>2, <2>3, TTLAssumption DEF Age
  <1> QED
    BY <1>1, <1>2, <1>3, <1>5, <1>6, <1>7 DEF DiscoveryInv

LEMMA DiscoveryInvStep == DiscoveryInv /\ [DiscoveryNext]_discoveryVars => DiscoveryInv'
  <1> SUFFICES ASSUME DiscoveryInv, [DiscoveryNext]_discoveryVars PROVE DiscoveryInv'
    OBVIOUS
  <1>1. ASSUME UNCHANGED <<scopes, cached, reader, since>>, deleter' \in [Deleter -> SUBSET Name]
        PROVE  DiscoveryInv'
    BY <1>1 DEF DiscoveryInv, ServedIsRecent
  <1>2. ASSUME NEW n \in Name, CreateScope(n) PROVE DiscoveryInv'
    BY <1>2, ScopesBecomeStep DEF CreateScope, DiscoveryInv
  <1>3. ASSUME NEW d \in Deleter, NEW n \in Name, CountClientScopes(d, n) PROVE DiscoveryInv'
    BY <1>1, <1>3 DEF CountClientScopes, DiscoveryInv
  <1>4. ASSUME NEW d \in Deleter, DeleteScope(d) PROVE DiscoveryInv'
    <2>1. deleter \in [Deleter -> SUBSET Name] /\ deleter[d] \in SUBSET Name
          /\ scopes \ deleter[d] \in SUBSET Name
      BY DEF DiscoveryInv
    <2>2. deleter' \in [Deleter -> SUBSET Name]
      BY <1>4, <2>1 DEF DeleteScope
    <2> QED
      BY <1>1, <1>4, <2>1, <2>2, ScopesBecomeStep DEF DeleteScope
  <1>5. CASE \E used \in SUBSET scopes : SaveClient(used)
    BY <1>1, <1>5 DEF SaveClient, DiscoveryInv
  <1>6. CASE NewWorker
    BY <1>6, AgeType, NoReaderType DEF NewWorker, DiscoveryInv, ServedIsRecent
  <1>7. CASE UNCHANGED discoveryVars
    BY <1>1, <1>7 DEF discoveryVars, DiscoveryInv
  <1> QED
    BY <1>2, <1>3, <1>4, <1>5, <1>6, <1>7, ReadersStep, PassTimeStep DEF DiscoveryNext

\* ServedIsRecent (getCachedScopeNames): for any names, any number of requests and
\* any age of the cache, what is served from memory was the list at some moment
\* of that age.
THEOREM ServedIsRecentHolds == DiscoverySpec => []ServedIsRecent
  <1>1. DiscoveryInv => ServedIsRecent
    BY DEF DiscoveryInv
  <1> QED
    BY <1>1, DiscoveryInvInit, DiscoveryInvStep, PTL DEF DiscoverySpec

-----------------------------------------------------------------------------
(* Types that need more than the invariants above.                         *)

\* Only policies that are there are assigned or selected, and a policy that is
\* about to be inserted has drawn its identifier.
AssignedInv ==
    /\ issued \subseteq Policy /\ Existing \subseteq issued
    /\ \A s \in PolicySaver : policySave[s].pc = "insert" =>
          policySave[s].policy \in issued /\ policySave[s].min \in Length
    /\ assigned \in [Environment -> Existing \cup {"none"}]
    /\ adminPolicy \in Existing \cup {"none"}
    /\ crossed \subseteq Policy

\* A save of which only the state that is not "insert" is new.
LEMMA AssignedKept ==
    ASSUME AssignedInv, UNCHANGED <<issued, bounds>>,
           \A s \in PolicySaver : policySave'[s].pc = "insert" => policySave'[s] = policySave[s],
           assigned' \in [Environment -> Existing \cup {"none"}],
           adminPolicy' \in Existing \cup {"none"}, crossed' \subseteq Policy
    PROVE  AssignedInv'
  <1>1. Existing' = Existing
    BY DEF Existing
  <1> QED
    BY <1>1 DEF AssignedInv

\* What a save that starts leaves of the others.
LEMMA OthersStarted ==
    ASSUME PolicyInv, NEW s \in PolicySaver, NEW save \in PolicySave,
           policySave' = SaveStarted(s, save)
    PROVE  /\ policySave'[s].pc = save.pc /\ policySave'[s].policy = save.policy
           /\ policySave'[s].min = save.min
           /\ \A t \in PolicySaver \ {s} :
                 /\ policySave'[t].pc = policySave[t].pc
                 /\ policySave'[t].policy = policySave[t].policy
                 /\ policySave'[t].min = policySave[t].min
  <1>1. policySave'[s] = [save EXCEPT !.alone = SavesOf(save.policy) = {}]
    BY DEF SaveStarted
  <1>2. ASSUME NEW t \in PolicySaver \ {s}
        PROVE  /\ policySave'[t].pc = policySave[t].pc
               /\ policySave'[t].policy = policySave[t].policy
               /\ policySave'[t].min = policySave[t].min
    <2>1. policySave[t] \in PolicySave
      BY DEF PolicyInv
    <2>2. policySave'[t] = [policySave[t] EXCEPT
                               !.alone = @ /\ policySave[t].policy # save.policy]
      BY DEF SaveStarted
    <2> QED
      BY <2>1, <2>2 DEF PolicySave
  <1> QED
    BY <1>1, <1>2 DEF PolicySave

\* Rows that a patch changes are still there, and no others.
LEMMA PatchedThere ==
    ASSUME NEW b \in Bounds, NEW min \in Length \cup {Keep}, NEW max
    PROVE  PatchedBounds(b, min, max) = NoBounds <=> b = NoBounds
  <1>1. CASE b # NoBounds
    <2>1. b \in [min : Length, max : Length \cup {0}]
      BY <1>1 DEF Bounds
    <2>2. (IF min = Keep THEN b.min ELSE min) \in Length
      BY <2>1
    <2>3. PatchedBounds(b, min, max).min \in Length
      BY <1>1, <2>2 DEF PatchedBounds
    <2>4. NoBounds.min = 0 /\ 0 \notin Length
      BY LengthAssumption DEF NoBounds
    <2> QED
      BY <1>1, <2>3, <2>4
  <1>2. CASE b = NoBounds
    BY <1>2 DEF PatchedBounds
  <1> QED
    BY <1>1, <1>2

LEMMA AssignedStep ==
    ASSUME PolicyInv, AssignedInv, [PoliciesNext]_policyVars
    PROVE  AssignedInv'
  <1>t. /\ policySave \in [PolicySaver -> PolicySave] /\ bounds \in [Policy -> Bounds]
        /\ \A s \in PolicySaver : policySave[s].pc # "idle" => policySave[s].policy \in Policy
    BY DEF PolicyInv
  <1>1. ASSUME NEW s \in PolicySaver, NEW p \in Policy, NEW b \in NewRules,
               NEW envs \in SUBSET Environment, BeginCreate(s, p, b, envs)
        PROVE  AssignedInv'
    <2>1. b \in [min : Length, max : Length \cup {0}]
      BY RulesAssumption
    <2>2. PICK save : save = [NoPolicySave EXCEPT !.pc = "insert", !.policy = p, !.min = b.min,
                                                 !.max = b.max, !.envs = envs]
      OBVIOUS
    <2>3. save \in PolicySave /\ save.policy = p /\ save.min \in Length
      BY <2>1, <2>2, NoPolicySaveType DEF PolicySave, Keep
    <2>4. /\ policySave' = SaveStarted(s, save) /\ issued' = issued \cup {p}
          /\ UNCHANGED <<bounds, assigned, adminPolicy, crossed>>
      BY <1>1, <2>2 DEF BeginCreate
    <2>5. Existing' = Existing
      BY <2>4 DEF Existing
    <2> QED
      BY <2>3, <2>4, <2>5, OthersStarted DEF AssignedInv
  <1>2. ASSUME NEW s \in PolicySaver, NEW p \in Policy, NEW patch \in RulePatch,
               NEW envs \in SUBSET Environment, BeginUpdate(s, p, patch, envs)
        PROVE  AssignedInv'
    <2>1. patch \in [min : Length \cup {Keep}, max : Length \cup {Keep, NoMax}]
      BY RulesAssumption
    <2>2. PICK save : save = [NoPolicySave EXCEPT !.pc = "update", !.policy = p,
                                 !.min = patch.min, !.max = patch.max, !.envs = envs]
      OBVIOUS
    <2>3. save \in PolicySave /\ save.pc = "update"
      BY <2>1, <2>2, NoPolicySaveType DEF PolicySave
    <2>4. /\ policySave' = SaveStarted(s, save)
          /\ UNCHANGED <<bounds, issued, assigned, adminPolicy, crossed>>
      BY <1>2, <2>2 DEF BeginUpdate
    <2>5. Existing' = Existing
      BY <2>4 DEF Existing
    <2> QED
      BY <2>3, <2>4, <2>5, OthersStarted DEF AssignedInv
  <1>3. ASSUME NEW s \in PolicySaver, InsertPolicy(s) PROVE AssignedInv'
    <2> DEFINE p == policySave[s].policy
               b == [min |-> policySave[s].min, max |-> policySave[s].max]
    <2>1. /\ p \in issued /\ b.min \in Length /\ bounds' = [bounds EXCEPT ![p] = b]
          /\ UNCHANGED <<issued, assigned, adminPolicy, crossed>>
      BY <1>3 DEF InsertPolicy, AssignedInv
    <2>2. b # NoBounds /\ p \in Policy
      BY <2>1, LengthAssumption DEF NoBounds, AssignedInv
    <2>3. Existing' = Existing \cup {p}
      BY <1>t, <2>1, <2>2 DEF Existing
    <2>4. \/ policySave' = [policySave EXCEPT ![s] = NoPolicySave]
          \/ policySave' = [policySave EXCEPT ![s] = ToAssign(policySave[s])]
      BY <1>3 DEF InsertPolicy
    <2>5. s \in Writing
      BY <1>3 DEF InsertPolicy, Writing
    <2>6. \A t \in PolicySaver : policySave'[t].pc = "insert" => policySave'[t] = policySave[t]
      BY <1>t, <2>4, <2>5, NoPolicySaveType, AssignType
    <2> QED
      BY <2>1, <2>3, <2>6 DEF AssignedInv
  <1>4. ASSUME NEW s \in PolicySaver, UpdatePolicy(s) PROVE AssignedInv'
    <2> DEFINE save == policySave[s]
               b == PatchedBounds(bounds[save.policy], save.min, save.max)
    <2>1. /\ s \in Writing /\ save.policy \in Policy /\ save \in PolicySave
          /\ bounds' = [bounds EXCEPT ![save.policy] = b]
          /\ policySave' = [policySave EXCEPT ![s] = ToAssign(save)]
          /\ crossed' \subseteq crossed \cup {save.policy}
          /\ UNCHANGED <<issued, assigned, adminPolicy>>
      BY <1>4, <1>t DEF UpdatePolicy, Writing
    <2>2. b = NoBounds <=> bounds[save.policy] = NoBounds
      BY <1>t, <2>1, PatchedThere DEF PolicySave
    <2>3. Existing' = Existing
      BY <1>t, <2>1, <2>2 DEF Existing
    <2>4. \A t \in PolicySaver : policySave'[t].pc = "insert" => policySave'[t] = policySave[t]
      BY <1>t, <2>1, AssignType
    <2> QED
      BY <2>1, <2>3, <2>4 DEF AssignedInv
  <1>5. ASSUME NEW s \in PolicySaver, AssignEnvironments(s) PROVE AssignedInv'
    <2>1. policySave' = [policySave EXCEPT ![s] = NoPolicySave]
          /\ UNCHANGED <<bounds, issued, adminPolicy, crossed>>
      BY <1>5 DEF AssignEnvironments
    <2>2. assigned' \in [Environment -> Existing \cup {"none"}]
      BY <1>5 DEF AssignEnvironments, Assignable, AssignedInv
    <2>3. \A t \in PolicySaver : policySave'[t].pc = "insert" => policySave'[t] = policySave[t]
      BY <1>t, <2>1, NoPolicySaveType
    <2> QED
      BY <2>1, <2>2, <2>3, AssignedKept DEF AssignedInv
  <1>6. ASSUME NEW s \in PolicySaver, PolicySaveDies(s) \/ SelectAdminPolicy(s)
        PROVE  AssignedInv'
    <2>1. policySave' = [policySave EXCEPT ![s] = NoPolicySave]
          /\ UNCHANGED <<bounds, issued, assigned, crossed>>
      BY <1>6 DEF PolicySaveDies, SelectAdminPolicy
    <2>2. adminPolicy' \in Existing \cup {"none"}
      BY <1>6 DEF PolicySaveDies, SelectAdminPolicy, AssignedInv
    <2>3. \A t \in PolicySaver : policySave'[t].pc = "insert" => policySave'[t] = policySave[t]
      BY <1>t, <2>1, NoPolicySaveType
    <2> QED
      BY <2>1, <2>2, <2>3, AssignedKept DEF AssignedInv
  <1>7. ASSUME NEW s \in PolicySaver, NEW p \in Policy, ChooseAdminPolicy(s, p)
        PROVE  AssignedInv'
    <2>1. PICK new : new = [NoPolicySave EXCEPT !.pc = "select", !.policy = p]
      OBVIOUS
    <2>2. new.pc = "select"
      BY <2>1, NoPolicySaveType DEF PolicySave
    <2>3. policySave' = [policySave EXCEPT ![s] = new]
          /\ UNCHANGED <<bounds, issued, assigned, adminPolicy, crossed>>
      BY <1>7, <2>1 DEF ChooseAdminPolicy
    <2>4. \A t \in PolicySaver : policySave'[t].pc = "insert" => policySave'[t] = policySave[t]
      BY <1>t, <2>2, <2>3
    <2> QED
      BY <2>3, <2>4, AssignedKept DEF AssignedInv
  <1>8. ASSUME NEW p \in Policy, DeletePolicy(p) PROVE AssignedInv'
    <2>1. Existing' = Existing \ {p}
      BY <1>8, <1>t DEF DeletePolicy, Existing
    <2> QED
      BY <1>8, <2>1 DEF DeletePolicy, ReleasedBy, AssignedInv
  <1>9. CASE UNCHANGED policyVars
    BY <1>9, AssignedKept DEF policyVars, AssignedInv
  <1> QED
    BY <1>1, <1>2, <1>3, <1>4, <1>5, <1>6, <1>7, <1>8, <1>9 DEF PoliciesNext

\* Policies, assignments and saves keep their types: an environment is assigned a
\* policy that is there, or none.
LEMMA PoliciesTypes == PoliciesSpec => []PoliciesTypeOK
  <1>1. PoliciesInit => AssignedInv
    <2> SUFFICES ASSUME PoliciesInit PROVE AssignedInv
      OBVIOUS
    <2>1. Existing = {}
      BY DEF PoliciesInit, Existing
    <2> QED
      BY <2>1, NoPolicySaveType DEF PoliciesInit, AssignedInv
  <1>2. PolicyInv /\ AssignedInv => PoliciesTypeOK
    BY DEF PolicyInv, AssignedInv, PoliciesTypeOK, Bounds, PolicySave
  <1> QED
    BY <1>1, <1>2, AssignedStep, PolicyInvInit, PolicyInvStep, PTL DEF PoliciesSpec

\* A scope with a row in client_scopes is in the table.
UsedExists == inUse \subseteq scopes

LEMMA UsedExistsStep == UsedExists /\ [DiscoveryNext]_discoveryVars => UsedExists'
  BY DEF UsedExists, DiscoveryNext, discoveryVars, CreateScope, CountClientScopes, SaveClient,
         DeleteScope, ScopesBecome, Unreferenced, AskForScopes, ListScopes, StoreScopes,
         ReaderDies, NewWorker, PassTime

\* The scopes, the cache and the requests keep their types.
LEMMA DiscoveryTypes == DiscoverySpec => []DiscoveryTypeOK
  <1>1. DiscoveryInit => UsedExists
    BY DEF DiscoveryInit, UsedExists
  <1>2. DiscoveryInv /\ UsedExists => DiscoveryTypeOK
    BY DEF DiscoveryInv, UsedExists, DiscoveryTypeOK, ReaderRow
  <1> QED
    BY <1>1, <1>2, UsedExistsStep, DiscoveryInvInit, DiscoveryInvStep, PTL DEF DiscoverySpec

\* The settings and the forms keep their types, which their invariants contain.
LEMMA SettingsTypes == SettingsSpec => []SettingsTypeOK
  <1>1. SettingsInv => SettingsTypeOK
    BY DEF SettingsInv
  <1> QED
    BY <1>1, SettingsInvInit, SettingsInvStep, PTL DEF SettingsSpec

LEMMA UploadTypes == UploadSpec => []UploadTypeOK
  <1>1. UploadInv => UploadTypeOK
    BY DEF UploadInv
  <1> QED
    BY <1>1, UploadInvariant, PTL
=============================================================================

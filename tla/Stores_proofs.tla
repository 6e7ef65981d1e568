----------------------------- MODULE Stores_proofs ----------------------------
(***************************************************************************)
(* The promises of what the application keeps in files and caches: the     *)
(* settings (SettingsSave), the installers (InstallerCache), the list of   *)
(* versions (VersionCache), the firmware variables (UefiRecovery) and the  *)
(* history of operations (OperationHistory).  They share no state; each has*)
(* its inductive invariant.                                                *)
(***************************************************************************)
EXTENDS SettingsSave, InstallerCache, VersionCache, UefiRecovery, OperationHistory,
        FiniteSetTheorems, WellFoundedInduction, TLAPS

(***************************************************************************)
(* The settings, for any number of saves and preference commands.  Up to   *)
(* the first overlap only one of them writes: what the files hold follows  *)
(* from the step that one is at, and a file that somebody has yet to write *)
(* is not his own.                                                         *)
(***************************************************************************)

\* What save s, of record r, has made of the configuration f, its temporary file and the
\* Compose file y, when nobody else writes.
SaveDone(r, s, f, tmp, y) ==
  /\ r.at \in SaveSteps => r.cfg # Empty /\ (r.changed <=> r.rev.mount # r.want)
  /\ r.at \in {"planned", "verified"} => f.data = r.cfg /\ y.mount = r.rev.mount
  /\ r.at \in {"applied", "created", "filled"} => f.data = r.cfg /\ y.mount = r.want
  /\ r.at = "created" => tmp.by = <<s, "persist">>
  /\ r.at = "filled" => tmp = [by |-> <<s, "persist">>, data |-> [mount |-> r.want, lang |-> "en"]]
  /\ r.at \in {"persisted", "saved"} => f.data = [mount |-> r.want, lang |-> "en"] /\ y.mount = r.want
  /\ r.at \in {"undoing", "recreated", "refilled", "restored", "reverting"} => y.mount = r.want
  /\ r.at = "recreated" => tmp.by = <<s, "restore">>
  /\ r.at = "refilled" => tmp = [by |-> <<s, "restore">>, data |-> r.cfg]
  /\ r.at \in {"restored", "reverting", "unmounted", "failed"} /\ ~r.errors => f.data = r.cfg
  /\ r.at \in {"unmounted", "failed"} /\ ~r.errors => y.mount = r.rev.mount

\* A file that s has yet to write is not its own.
Unwritten(r, s, f) ==
  /\ r.at \in NotBegun \cup {"planned", "verified", "applied", "created", "filled"}
     => f.by # <<s, "persist">>
  /\ r.at \in (NotBegun \cup SaveSteps) \ {"restored", "reverting", "unmounted", "failed"}
     => f.by # <<s, "restore">>

PrefDone(r, p, f, tmp) ==
  /\ r.at \in {"idle", "loaded", "created", "filled"} => f.by # <<p, "persist">>
  /\ r.at = "created" => tmp.by = <<p, "persist">>
  /\ r.at = "filled" => tmp = [by |-> <<p, "persist">>, data |-> r.cfg]

OneSave == \A s, t \in Savers : HoldsVm(s) /\ HoldsVm(t) => s = t

Written ==
  /\ cfgFile.data # Empty
  /\ \A s \in Savers : SaveDone(saver[s], s, cfgFile, cfgTemp, yml) /\ Unwritten(saver[s], s, cfgFile)
  /\ \A p \in Prefs : PrefDone(pref[p], p, cfgFile, cfgTemp)

SettingsInv == SettingsTypeOK /\ OneSave /\ (Overlaps => overlap) /\ (overlap \/ Written)

\* Nothing has been written at first.
LEMMA SettingsStart == SettingsInit => SettingsInv
<1> SUFFICES ASSUME SettingsInit PROVE SettingsInv
  OBVIOUS
<1> USE SettingsAssumption DEF SettingsInit, NoSave, FirstConfig, FirstYml, NoTempFile, NoWrite
<1>1. SettingsTypeOK
  <2>1. cfgFile \in FileType /\ cfgTemp \in FileType /\ yml \in Ymls /\ vmMount \in Mounts
    BY DEF FileType, Writes, Settings, Mounts, Ymls
  <2>3. NoSave("idle") \in [at : NotBegun \cup SaveSteps \cup {"ended"}, want : Mounts, apply : BOOLEAN,
                           rev : Ymls, cfg : Settings \cup {Empty}, changed : BOOLEAN,
                           failing : {"none", "persist", "recreate"}, errors : BOOLEAN]
    BY DEF Settings, Mounts, Ymls, NotBegun
  <2>4. [at |-> "idle", cfg |-> FirstConfig] \in [at : {"idle", "loaded", "created", "filled", "done"},
        cfg : Settings]
    BY DEF Settings, Mounts
  <2> HIDE DEF NoSave, FirstConfig
  <2>5. \A s \in Savers : saver[s].at = "idle"
    BY DEF NoSave
  <2> QED
    BY <2>1, <2>3, <2>4, <2>5 DEF SettingsTypeOK, UndoSteps
<1>2. OneSave /\ ~Overlaps
  BY DEF OneSave, HoldsVm, Overlaps, UnderWay, SaveSteps, UndoSteps
<1>3. Written
  BY DEF Written, SaveDone, Unwritten, PrefDone, SaveSteps, UndoSteps, Empty
<1> QED
  BY <1>1, <1>2, <1>3 DEF SettingsInv

\* What the invariant says of the saves that ended.
LEMMA SettingsSafe == SettingsInv => BothOrNeither
  BY DEF SettingsInv, Written, SaveDone, BothOrNeither, ConfigWhole, SavedTogether, FailedTogether,
     Asked, SaveSteps, UndoSteps

\* A save or a command changes the files only while it is at work on them.
LEMMA SaveTypes == SettingsTypeOK /\ SettingsNext => SettingsTypeOK'
<1> SUFFICES ASSUME SettingsTypeOK, SettingsNext PROVE SettingsTypeOK'
  OBVIOUS
<1> USE SettingsAssumption
<1> DEFINE Rec == [at : NotBegun \cup SaveSteps \cup {"ended"}, want : Mounts, apply : BOOLEAN,
                   rev : Ymls, cfg : Settings \cup {Empty}, changed : BOOLEAN,
                   failing : {"none", "persist", "recreate"}, errors : BOOLEAN]
           PRec == [at : {"idle", "loaded", "created", "filled", "done"}, cfg : Settings]
<1>1. /\ cfgFile \in FileType /\ cfgTemp \in FileType /\ yml \in Ymls
      /\ vmMount \in Mounts \cup {"none"}
      /\ saver \in [Savers -> Rec] /\ pref \in [Prefs -> PRec] /\ overlap \in BOOLEAN
      /\ \A s \in Savers : saver[s].at \in UndoSteps => saver[s].failing # "none"
  BY DEF SettingsTypeOK
<1>2. overlap' \in BOOLEAN
  BY DEF SettingsNext
<1>3. FirstConfig \in Settings /\ NoTempFile \in FileType /\ FirstYml \in Ymls
      /\ NoSave("ended") \in Rec
  BY DEF FirstConfig, FirstYml, NoTempFile, FileType, Writes, Settings, Mounts, Ymls, NoSave
<1>4. \A s \in Savers, w \in {"persist", "restore"} : <<s, w>> \in Writes
  BY DEF Writes
<1>5. \A p \in Prefs : <<p, "persist">> \in Writes
  BY DEF Writes
<1>6. ASSUME NEW w \in Writes, NEW data \in Settings \cup {Empty},
             CreateTemp(w) \/ FillTemp(w, data) \/ RenameTemp \/ DropTemp
               \/ UNCHANGED <<cfgFile, cfgTemp>>
      PROVE  cfgFile' \in FileType /\ cfgTemp' \in FileType
  BY <1>1, <1>3, <1>6 DEF CreateTemp, FillTemp, RenameTemp, DropTemp, FileType
\* The record of a save after its step.
<1>7. ASSUME NEW s \in Savers, NEW r \in Rec, r.at \in UndoSteps => r.failing # "none",
      saver' = [saver EXCEPT ![s] = r]
      PROVE  saver' \in [Savers -> Rec] /\ \A t \in Savers : saver'[t].at \in UndoSteps
        => saver'[t].failing # "none"
  BY <1>1, <1>7
<1>8. ASSUME NEW s \in Savers,
      NEW step \in {"planned", "verified", "applied", "created", "filled", "persisted",
        "saved"} \cup {"previewed"},
             SaverGoes(s, step)
      PROVE  saver' \in [Savers -> Rec] /\ \A t \in Savers : saver'[t].at \in UndoSteps
        => saver'[t].failing # "none"
  <2>1. saver' = [saver EXCEPT ![s] = [saver[s] EXCEPT !.at = step]] /\ saver[s] \in Rec
    BY <1>1, <1>8 DEF SaverGoes
  <2>2. [saver[s] EXCEPT !.at = step] \in Rec
    BY <2>1 DEF SaveSteps, NotBegun
  <2> QED
    BY <1>7, <2>1, <2>2 DEF UndoSteps
<1>9. ASSUME NEW s \in Savers, NEW step \in UndoSteps, SaverGoes(s, step), saver[s].failing # "none"
      PROVE  saver' \in [Savers -> Rec] /\ \A t \in Savers : saver'[t].at \in UndoSteps
        => saver'[t].failing # "none"
  <2>1. saver' = [saver EXCEPT ![s] = [saver[s] EXCEPT !.at = step]] /\ saver[s] \in Rec
    BY <1>1, <1>9 DEF SaverGoes
  <2>2. [saver[s] EXCEPT !.at = step] \in Rec /\ [saver[s] EXCEPT !.at = step].failing # "none"
    BY <1>9, <2>1 DEF SaveSteps
  <2> QED
    BY <1>7, <2>1, <2>2
<1>10. ASSUME NEW s \in Savers, EndSave(s)
       PROVE  saver' \in [Savers -> Rec] /\ \A t \in Savers : saver'[t].at \in UndoSteps
         => saver'[t].failing # "none"
  BY <1>3, <1>7, <1>10 DEF EndSave, NoSave, UndoSteps
<1>11. ASSUME NEW s \in Savers, NEW step \in {"undoing", "restored", "failed"},
       NEW why \in {"persist", "recreate"}, NEW e \in BOOLEAN,
              saver' = [saver EXCEPT ![s] = [saver[s] EXCEPT !.at = step, !.failing = why,
                !.errors = e]]
       PROVE  saver' \in [Savers -> Rec] /\ \A t \in Savers : saver'[t].at \in UndoSteps
         => saver'[t].failing # "none"
  <2>1. saver[s] \in Rec
    BY <1>1
  <2>2. [saver[s] EXCEPT !.at = step, !.failing = why, !.errors = e] \in Rec
    BY <2>1 DEF SaveSteps, UndoSteps
  <2> QED
    BY <1>7, <1>11, <2>1, <2>2
<1>12. ASSUME NEW s \in Savers, SaveStep(s) \/ UndoStep(s)
       PROVE  saver' \in [Savers -> Rec] /\ \A t \in Savers : saver'[t].at \in UndoSteps
         => saver'[t].failing # "none"
  <2>0. saver[s] \in Rec
    BY <1>1
  <2>1. CASE PreviewSave(s)
    <3>0. PICK want \in Mounts, apply \in BOOLEAN :
            saver' = [saver EXCEPT ![s].at = "previewed", ![s].want = want, ![s].apply = apply,
              ![s].rev = yml]
      BY <2>1 DEF PreviewSave
    <3>1. saver' = [saver EXCEPT ![s] = [saver[s] EXCEPT !.at = "previewed", !.want = want,
          !.apply = apply, !.rev = yml]]
      BY <1>1, <2>0, <3>0
    <3>2. [saver[s] EXCEPT !.at = "previewed", !.want = want, !.apply = apply, !.rev = yml] \in Rec
      BY <1>1, <2>0 DEF NotBegun
    <3> QED
      BY <1>7, <2>0, <3>1, <3>2 DEF UndoSteps
  <2>2. CASE BeginSave(s)
    <3>1. CASE EndSave(s)
      BY <1>10, <3>1
    <3>2. CASE saver' = [saver EXCEPT ![s].at = "planned", ![s].cfg = cfgFile.data,
          ![s].changed = yml.mount # saver[s].want]
      <4>1. PICK cfg \in Settings \cup {Empty}, b \in BOOLEAN :
               saver' = [saver EXCEPT ![s] = [saver[s] EXCEPT !.at = "planned", !.cfg = cfg,
                 !.changed = b]]
        BY <1>1, <3>2 DEF FileType
      <4>2. [saver[s] EXCEPT !.at = "planned", !.cfg = cfg, !.changed = b] \in Rec
        BY <2>0 DEF SaveSteps
      <4> QED
        BY <1>7, <2>0, <4>1, <4>2 DEF UndoSteps
    <3> QED
      BY <2>2, <3>1, <3>2 DEF BeginSave
  <2>3. CASE SaveRefused(s) \/ SaveEnds(s) \/ SaverKilled(s)
    BY <1>10, <2>3 DEF SaveRefused, SaveEnds, SaverKilled
  <2>4. CASE VerifyCompose(s)
    BY <1>8, <1>10, <2>4 DEF VerifyCompose
  <2>5. CASE ApplyMount(s) \/ PersistConfig(s)
    BY <1>8, <2>5 DEF ApplyMount, PersistConfig
  <2>6. CASE PersistFails(s)
    <3>1. saver' = [saver EXCEPT ![s] = [saver[s] EXCEPT !.at = "undoing", !.failing = "persist",
          !.errors = saver[s].errors]]
      BY <1>1, <2>0, <2>6 DEF PersistFails
    <3> QED
      BY <1>11, <2>0, <3>1
  <2>7. CASE RecreateVm(s)
    <3>1. CASE SaverGoes(s, "saved")
      BY <1>8, <3>1
    <3>2. CASE saver' = [saver EXCEPT ![s].at = "undoing", ![s].failing = "recreate"]
      <4>1. saver' = [saver EXCEPT ![s] = [saver[s] EXCEPT !.at = "undoing", !.failing = "recreate",
            !.errors = saver[s].errors]]
        BY <1>1, <2>0, <3>2
      <4> QED
        BY <1>11, <2>0, <4>1
    <3> QED
      BY <2>7, <3>1, <3>2 DEF RecreateVm
  <2>8. CASE RestoreConfig(s)
    <3>1. saver[s].failing # "none" /\ saver[s].failing \in {"persist", "recreate"}
      BY <1>1, <2>0, <2>8 DEF RestoreConfig, UndoSteps
    <3>2. CASE \E step \in UndoSteps : SaverGoes(s, step)
      BY <1>9, <3>1, <3>2
    <3>3. CASE saver' = [saver EXCEPT ![s].at = "restored", ![s].errors = TRUE]
      <4>1. saver' = [saver EXCEPT ![s] = [saver[s] EXCEPT !.at = "restored",
            !.failing = saver[s].failing, !.errors = TRUE]]
        BY <1>1, <2>0, <3>3
      <4> QED
        BY <1>11, <3>1, <4>1
    <3> QED
      BY <2>8, <3>2, <3>3 DEF RestoreConfig, UndoSteps
  <2>9. CASE VerifyRestore(s)
    <3>1. saver[s].failing # "none" /\ saver[s].failing \in {"persist", "recreate"}
      BY <1>1, <2>0, <2>9 DEF VerifyRestore, UndoSteps
    <3>2. CASE \E step \in UndoSteps : SaverGoes(s, step)
      BY <1>9, <3>1, <3>2
    <3>3. CASE saver' = [saver EXCEPT ![s].at = "failed", ![s].errors = TRUE]
      <4>1. saver' = [saver EXCEPT ![s] = [saver[s] EXCEPT !.at = "failed",
            !.failing = saver[s].failing, !.errors = TRUE]]
        BY <1>1, <2>0, <3>3
      <4> QED
        BY <1>11, <3>1, <4>1
    <3> QED
      BY <2>9, <3>2, <3>3 DEF VerifyRestore, UndoSteps
  <2>10. CASE RestoreCompose(s) \/ RecreatePrevious(s)
    <3>1. saver[s].failing # "none"
      BY <1>1, <2>0, <2>10 DEF RestoreCompose, RecreatePrevious, UndoSteps
    <3> QED
      BY <1>9, <2>10, <3>1 DEF RestoreCompose, RecreatePrevious, UndoSteps
  <2> QED
    BY <1>12, <2>1, <2>2, <2>3, <2>4, <2>5, <2>6, <2>7, <2>8, <2>9, <2>10 DEF SaveStep, UndoStep
<1>13. ASSUME NEW s \in Savers, SaveStep(s) \/ UndoStep(s)
       PROVE  /\ cfgFile' \in FileType /\ cfgTemp' \in FileType /\ UNCHANGED pref
              /\ yml' \in Ymls /\ vmMount' \in Mounts \cup {"none"}
  <2>0. saver[s] \in Rec
    BY <1>1
  <2>1. Asked(s) \in Settings
    BY <2>0 DEF Asked, Settings
  <2>2. \/ \E w \in Writes, data \in Settings \cup {Empty} : CreateTemp(w) \/ FillTemp(w, data)
        \/ RenameTemp \/ DropTemp \/ UNCHANGED <<cfgFile, cfgTemp>>
    BY <1>13, <1>4, <2>0, <2>1
    DEF SaveStep, UndoStep, PreviewSave, BeginSave, SaveRefused, VerifyCompose, ApplyMount,
        PersistConfig, PersistFails,
        RecreateVm, RestoreConfig, VerifyRestore, RestoreCompose, RecreatePrevious, SaveEnds,
          SaverKilled, SaverOnly
  <2>3. cfgFile' \in FileType /\ cfgTemp' \in FileType
    BY <1>3, <1>6, <2>2 DEF FileType
  <2>4. UNCHANGED pref /\ yml' \in {yml, saver[s].rev, [saver[s].rev EXCEPT !.mount = saver[s].want]}
        /\ vmMount' \in {vmMount, yml.mount, "none"}
    BY <1>13
    DEF SaveStep, UndoStep, PreviewSave, BeginSave, SaveRefused, VerifyCompose, ApplyMount,
        PersistConfig, PersistFails,
        RecreateVm, RestoreConfig, VerifyRestore, RestoreCompose, RecreatePrevious, SaveEnds,
          SaverKilled, SaverOnly
  <2>5. yml.mount \in Mounts /\ [saver[s].rev EXCEPT !.mount = saver[s].want] \in Ymls
    BY <1>1, <2>0 DEF Ymls
  <2> QED
    BY <1>1, <2>0, <2>3, <2>4, <2>5
<1>14. ASSUME NEW p \in Prefs, LoadPref(p) \/ WritePref(p)
       PROVE  /\ cfgFile' \in FileType /\ cfgTemp' \in FileType /\ UNCHANGED <<saver, yml, vmMount>>
              /\ pref' \in [Prefs -> PRec]
  <2>0. pref[p] \in PRec
    BY <1>1
  <2>1. \/ \E w \in Writes, data \in Settings \cup {Empty} : CreateTemp(w) \/ FillTemp(w, data)
        \/ RenameTemp \/ DropTemp \/ UNCHANGED <<cfgFile, cfgTemp>>
    BY <1>14, <1>5, <2>0 DEF LoadPref, WritePref
  <2>2. cfgFile' \in FileType /\ cfgTemp' \in FileType
    BY <1>3, <1>6, <2>1 DEF FileType
  <2>3. PICK r \in PRec : pref' = [pref EXCEPT ![p] = r]
    <3>1. cfgFile.data # Empty => [cfgFile.data EXCEPT !.lang = "ko"] \in Settings
      BY <1>1 DEF FileType, Settings
    <3>2. ASSUME NEW step \in {"created", "filled", "done"} PROVE [pref[p] EXCEPT !.at = step] \in PRec
      BY <2>0
    <3>3. [at |-> "done", cfg |-> FirstConfig] \in PRec
      BY <1>3
    <3>4. cfgFile.data # Empty
          => [at |-> "loaded", cfg |-> [cfgFile.data EXCEPT !.lang = "ko"]] \in PRec
      BY <3>1
    <3>5. CASE LoadPref(p)
      BY <1>1, <2>0, <3>2, <3>4, <3>5 DEF LoadPref
    <3>6. CASE WritePref(p)
      BY <1>1, <2>0, <3>2, <3>3, <3>6 DEF WritePref, SetPref, EndPref
    <3> QED
      BY <1>14, <3>5, <3>6
  <2>4. pref' \in [Prefs -> PRec]
    BY <1>1, <2>3
  <2> QED
    BY <1>14, <2>2, <2>4 DEF LoadPref, WritePref
<1>15. ASSUME UserEdits PROVE yml' \in Ymls /\ UNCHANGED <<cfgFile, cfgTemp, vmMount, saver, pref>>
  BY <1>1, <1>15 DEF UserEdits, Ymls
<1>16. /\ cfgFile' \in FileType /\ cfgTemp' \in FileType /\ yml' \in Ymls
       /\ vmMount' \in Mounts \cup {"none"}
       /\ saver' \in [Savers -> Rec] /\ pref' \in [Prefs -> PRec]
       /\ \A s \in Savers : saver'[s].at \in UndoSteps => saver'[s].failing # "none"
  BY <1>1, <1>12, <1>13, <1>14, <1>15 DEF SettingsNext
<1> QED
  BY <1>2, <1>16 DEF SettingsTypeOK

\* The lease admits one save at a time.
LEMMA SavesAlone == SettingsTypeOK /\ OneSave /\ SettingsNext => OneSave'
<1> SUFFICES ASSUME SettingsTypeOK, OneSave, SettingsNext PROVE OneSave'
  OBVIOUS
<1>1. DOMAIN saver = Savers
  BY DEF SettingsTypeOK
<1>2. ASSUME NEW s \in Savers, SaveStep(s) \/ UndoStep(s)
      PROVE  /\ \A t \in Savers \ {s} : saver'[t] = saver[t]
             /\ saver'[s].at \in SaveSteps => saver[s].at \in SaveSteps \/ ~\E t \in Savers : HoldsVm(t)
  <2>0. saver[s].at \in NotBegun \cup SaveSteps \cup {"ended"}
        /\ DOMAIN saver[s] = {"at", "want", "apply", "rev", "cfg", "changed", "failing", "errors"}
    BY DEF SettingsTypeOK
  <2>1. CASE SaveRefused(s) \/ SaveEnds(s) \/ SaverKilled(s)
    BY <1>1, <2>0, <2>1 DEF SaveRefused, SaveEnds, SaverKilled, EndSave, NoSave, SaveSteps, UndoSteps
  <2>5. CASE PreviewSave(s)
    <3>1. PICK want \in Mounts, apply \in BOOLEAN :
            saver' = [saver EXCEPT ![s].at = "previewed", ![s].want = want, ![s].apply = apply,
              ![s].rev = yml]
      BY <2>5 DEF PreviewSave
    <3>2. saver'[s].at = "previewed"
      BY <1>1, <2>0, <3>1
    <3> QED
      BY <1>1, <3>1, <3>2 DEF SaveSteps, UndoSteps
  <2>2. CASE BeginSave(s)
    BY <1>1, <2>0, <2>2 DEF BeginSave, EndSave
  <2>3. CASE VerifyCompose(s) \/ ApplyMount(s) \/ PersistConfig(s) \/ PersistFails(s) \/ RecreateVm(s)
    BY <1>1, <2>0, <2>3
      DEF VerifyCompose, ApplyMount, PersistConfig, PersistFails, RecreateVm, SaverGoes, EndSave,
          SaveSteps, UndoSteps
  <2>4. CASE RestoreConfig(s) \/ VerifyRestore(s) \/ RestoreCompose(s) \/ RecreatePrevious(s)
    BY <1>1, <2>0, <2>4
      DEF RestoreConfig, VerifyRestore, RestoreCompose, RecreatePrevious, SaverGoes, SaveSteps,
          UndoSteps
  <2> QED
    BY <1>2, <2>1, <2>2, <2>3, <2>4, <2>5 DEF SaveStep, UndoStep
<1>3. CASE \E s \in Savers : SaveStep(s) \/ UndoStep(s)
  BY <1>2, <1>3 DEF OneSave, HoldsVm
<1>4. CASE (\E p \in Prefs : LoadPref(p) \/ WritePref(p)) \/ UserEdits
  <2>1. UNCHANGED saver
    BY <1>4 DEF LoadPref, WritePref, UserEdits
  <2> QED
    BY <2>1 DEF OneSave, HoldsVm
<1> QED
  BY <1>3, <1>4 DEF SettingsNext

\* A step of the one writer leaves what the others did.
LEMMA OthersDone ==
  ASSUME SettingsTypeOK, OneSave, Written, ~Overlaps, NEW s \in Savers, NEW r,
         saver' = [saver EXCEPT ![s] = r], UNCHANGED pref,
         \/ UNCHANGED <<cfgFile, cfgTemp>> /\ yml'.mount = yml.mount
         \/ HoldsVm(s) /\ (cfgFile'.by = cfgFile.by
            \/ cfgFile'.by \in {<<s, "persist">>, <<s, "restore">>}),
         cfgFile'.data # Empty, SaveDone(r, s, cfgFile', cfgTemp', yml'), Unwritten(r, s, cfgFile')
  PROVE  Written'
<1>1. saver'[s] = r /\ \A t \in Savers \ {s} : saver'[t] = saver[t]
  BY DEF SettingsTypeOK
<1>2. ASSUME NEW t \in Savers, t # s
      PROVE  SaveDone(saver[t], t, cfgFile', cfgTemp', yml') /\ Unwritten(saver[t], t, cfgFile')
  <2>1. SaveDone(saver[t], t, cfgFile, cfgTemp, yml) /\ Unwritten(saver[t], t, cfgFile)
    BY DEF Written
  <2>2. CASE UNCHANGED <<cfgFile, cfgTemp>> /\ yml'.mount = yml.mount
    BY <2>1, <2>2 DEF SaveDone, Unwritten
  <2>3. CASE HoldsVm(s)
        /\ (cfgFile'.by = cfgFile.by \/ cfgFile'.by \in {<<s, "persist">>, <<s, "restore">>})
    <3>1. saver[t].at \notin SaveSteps
      BY <1>2, <2>3 DEF OneSave, HoldsVm
    <3>2. SaveDone(saver[t], t, cfgFile', cfgTemp', yml')
      BY <3>1 DEF SaveDone, SaveSteps, UndoSteps
    <3>3. cfgFile'.by = cfgFile.by \/ cfgFile'.by \notin {<<t, "persist">>, <<t, "restore">>}
      BY <1>2, <2>3
    <3> QED
      BY <2>1, <3>2, <3>3 DEF Unwritten
  <2> QED
    BY <2>2, <2>3
<1>3. ASSUME NEW p \in Prefs PROVE PrefDone(pref[p], p, cfgFile', cfgTemp')
  <2>1. PrefDone(pref[p], p, cfgFile, cfgTemp)
    BY DEF Written
  <2>2. CASE UNCHANGED <<cfgFile, cfgTemp>>
    BY <2>1, <2>2 DEF PrefDone
  <2>3. CASE HoldsVm(s)
        /\ (cfgFile'.by = cfgFile.by \/ cfgFile'.by \in {<<s, "persist">>, <<s, "restore">>})
    <3>1. ~UnderWay(p)
      BY <2>3 DEF Overlaps
    <3>2. cfgFile'.by = cfgFile.by \/ cfgFile'.by # <<p, "persist">>
      BY <2>3, SettingsAssumption
    <3> QED
      BY <2>1, <3>1, <3>2 DEF PrefDone, UnderWay
  <2> QED
    BY <2>2, <2>3
<1> QED
  BY <1>1, <1>2, <1>3 DEF Written

\* A save whose record goes on without touching a file.
LEMMA SavesWrite ==
  ASSUME SettingsTypeOK, OneSave, Written, ~Overlaps, NEW s \in Savers, SaveStep(s) \/ UndoStep(s)
  PROVE  Written'
<1> DEFINE q == saver[s]
<1>0. /\ q \in [at : NotBegun \cup SaveSteps \cup {"ended"}, want : Mounts, apply : BOOLEAN,
                rev : Ymls, cfg : Settings \cup {Empty}, changed : BOOLEAN,
                failing : {"none", "persist", "recreate"}, errors : BOOLEAN]
      /\ DOMAIN saver = Savers
      /\ cfgFile \in FileType /\ cfgTemp \in FileType /\ yml \in Ymls
  BY DEF SettingsTypeOK
<1>1. SaveDone(q, s, cfgFile, cfgTemp, yml) /\ Unwritten(q, s, cfgFile) /\ cfgFile.data # Empty
  BY DEF Written
<1>2. CASE EndSave(s) /\ UNCHANGED <<cfgFile, cfgTemp, yml, pref>>
  <2>1. SaveDone(NoSave("ended"), s, cfgFile', cfgTemp', yml')
        /\ Unwritten(NoSave("ended"), s, cfgFile')
    BY DEF SaveDone, Unwritten, NoSave, NotBegun, SaveSteps, UndoSteps
  <2> QED
    BY <1>1, <1>2, <2>1, OthersDone DEF EndSave
<1>3. CASE PreviewSave(s)
  <2>1. PICK want \in Mounts, apply \in BOOLEAN :
          saver' = [saver EXCEPT ![s].at = "previewed", ![s].want = want, ![s].apply = apply,
            ![s].rev = yml]
    BY <1>3 DEF PreviewSave
  <2> DEFINE x == [q EXCEPT !.at = "previewed", !.want = want, !.apply = apply, !.rev = yml]
  <2>5. saver' = [saver EXCEPT ![s] = x] /\ x.at = "previewed"
    BY <1>0, <2>1
  <2> HIDE DEF x
  <2>2. PICK r : saver' = [saver EXCEPT ![s] = r] /\ r.at = "previewed"
    BY <2>5
  <2>3. q.at = "idle" /\ UNCHANGED <<cfgFile, cfgTemp, yml, pref>>
    BY <1>3 DEF PreviewSave, SaverOnly
  <2>4. SaveDone(r, s, cfgFile', cfgTemp', yml') /\ Unwritten(r, s, cfgFile')
    BY <1>1, <2>2, <2>3 DEF SaveDone, Unwritten, NotBegun, SaveSteps, UndoSteps
  <2> QED
    BY <1>1, <2>2, <2>3, <2>4, OthersDone
<1>4. CASE BeginSave(s)
  <2>1. q.at = "previewed" /\ UNCHANGED <<cfgFile, cfgTemp, yml, pref>>
    BY <1>4 DEF BeginSave, SaverOnly
  <2>2. CASE yml = q.rev
        /\ saver' = [saver EXCEPT ![s].at = "planned", ![s].cfg = cfgFile.data,
           ![s].changed = yml.mount # q.want]
    <3>1. PICK b \in BOOLEAN : b = (yml.mount # q.want)
      OBVIOUS
    <3> DEFINE r == [q EXCEPT !.at = "planned", !.cfg = cfgFile.data, !.changed = b]
    <3>2. saver' = [saver EXCEPT ![s] = r]
      BY <1>0, <2>2, <3>1
    <3>3. r.at = "planned" /\ r.cfg = cfgFile.data /\ r.changed = b /\ r.rev = yml /\ r.want = q.want
      BY <1>0, <2>2
    <3>4. SaveDone(r, s, cfgFile', cfgTemp', yml') /\ Unwritten(r, s, cfgFile')
      <4> HIDE DEF r, q
      <4> QED
        BY <1>1, <2>1, <3>1, <3>3 DEF SaveDone, Unwritten, NotBegun, SaveSteps, UndoSteps
    <3> QED
      BY <1>1, <2>1, <3>2, <3>4, OthersDone
  <2> QED
    BY <1>2, <1>4, <2>1, <2>2 DEF BeginSave
<1>5. CASE SaveRefused(s) \/ SaveEnds(s) \/ SaverKilled(s)
  BY <1>2, <1>5 DEF SaveRefused, SaveEnds, SaverKilled, SaverOnly
\* From here on the save holds the VM, and its record changes in step and errors only.
<1>7. ASSUME NEW step, SaverGoes(s, step)
      PROVE  \E r : /\ saver' = [saver EXCEPT ![s] = r]
                    /\ r.at = step /\ r.want = q.want /\ r.rev = q.rev /\ r.cfg = q.cfg
                    /\ r.changed = q.changed /\ r.errors = q.errors
  <2> DEFINE r == [q EXCEPT !.at = step]
  <2>1. saver' = [saver EXCEPT ![s] = r]
    BY <1>0, <1>7 DEF SaverGoes
  <2>2. r.at = step /\ r.want = q.want /\ r.rev = q.rev /\ r.cfg = q.cfg /\ r.changed = q.changed
        /\ r.errors = q.errors
    BY <1>0
  <2> QED
    BY <2>1, <2>2
<1>8. q.cfg \in Settings \cup {Empty} /\ q.want \in Mounts /\ q.changed \in BOOLEAN
  BY <1>0
<1>9. q.at \in SaveSteps => HoldsVm(s)
  BY DEF HoldsVm
<1> HIDE DEF q
<1>10. CASE VerifyCompose(s)
  <2>1. q.at = "planned" /\ UNCHANGED <<cfgFile, cfgTemp, yml, pref>>
    BY <1>10 DEF VerifyCompose, SaverOnly, q
  <2>2. CASE SaverGoes(s, IF q.changed THEN "verified" ELSE "applied")
    <3>1. PICK r : /\ saver' = [saver EXCEPT ![s] = r]
                   /\ r.at = (IF q.changed THEN "verified" ELSE "applied")
                   /\ r.want = q.want /\ r.rev = q.rev /\ r.cfg = q.cfg /\ r.changed = q.changed
                   /\ r.errors = q.errors
      BY <1>7, <2>2
    <3>2. SaveDone(r, s, cfgFile', cfgTemp', yml') /\ Unwritten(r, s, cfgFile')
      BY <1>1, <1>8, <2>1, <3>1 DEF SaveDone, Unwritten, NotBegun, SaveSteps, UndoSteps
    <3> QED
      BY <1>1, <2>1, <3>1, <3>2, OthersDone
  <2> QED
    BY <1>2, <1>10, <2>1, <2>2 DEF VerifyCompose, q
<1>11. CASE ApplyMount(s)
  <2>1. q.at = "verified" /\ UNCHANGED <<cfgFile, cfgTemp, pref>> /\ SaverGoes(s, "applied")
        /\ yml' = [q.rev EXCEPT !.mount = q.want]
    BY <1>11 DEF ApplyMount, q
  <2>2. yml'.mount = q.want
    BY <1>0, <2>1 DEF Ymls
  <2>3. PICK r : /\ saver' = [saver EXCEPT ![s] = r] /\ r.at = "applied"
                 /\ r.want = q.want /\ r.rev = q.rev /\ r.cfg = q.cfg /\ r.changed = q.changed
                 /\ r.errors = q.errors
    BY <1>7, <2>1
  <2>4. SaveDone(r, s, cfgFile', cfgTemp', yml') /\ Unwritten(r, s, cfgFile')
    BY <1>1, <1>8, <2>1, <2>2, <2>3 DEF SaveDone, Unwritten, NotBegun, SaveSteps, UndoSteps
  <2>5. HoldsVm(s)
    BY <1>9, <2>1 DEF SaveSteps
  <2> QED
    BY <1>1, <2>1, <2>3, <2>4, <2>5, OthersDone
<1>12. CASE PersistConfig(s)
  <2>0. q.at \in {"applied", "created", "filled"} /\ UNCHANGED <<yml, pref>> /\ HoldsVm(s)
    BY <1>12, <1>9 DEF PersistConfig, q, SaveSteps
  <2>1. CASE q.at = "applied" /\ CreateTemp(<<s, "persist">>) /\ SaverGoes(s, "created")
    <3>1. PICK r : /\ saver' = [saver EXCEPT ![s] = r] /\ r.at = "created"
                   /\ r.want = q.want /\ r.rev = q.rev /\ r.cfg = q.cfg /\ r.changed = q.changed
                   /\ r.errors = q.errors
      BY <1>7, <2>1
    <3>2. cfgFile' = cfgFile /\ cfgTemp'.by = <<s, "persist">>
      BY <2>1 DEF CreateTemp
    <3>3. SaveDone(r, s, cfgFile', cfgTemp', yml') /\ Unwritten(r, s, cfgFile')
      BY <1>1, <1>8, <2>0, <2>1, <3>1, <3>2 DEF SaveDone, Unwritten, NotBegun, SaveSteps, UndoSteps
    <3> QED
      BY <1>1, <2>0, <3>1, <3>2, <3>3, OthersDone
  <2>2. CASE q.at = "created" /\ FillTemp(<<s, "persist">>, Asked(s)) /\ SaverGoes(s, "filled")
    <3>1. PICK r : /\ saver' = [saver EXCEPT ![s] = r] /\ r.at = "filled"
                   /\ r.want = q.want /\ r.rev = q.rev /\ r.cfg = q.cfg /\ r.changed = q.changed
                   /\ r.errors = q.errors
      BY <1>7, <2>2
    <3>2. cfgFile.by # <<s, "persist">> /\ cfgTemp.by = <<s, "persist">>
      BY <1>1, <2>2 DEF SaveDone, Unwritten
    <3>3. cfgFile' = cfgFile
          /\ cfgTemp' = [by |-> <<s, "persist">>, data |-> [mount |-> q.want, lang |-> "en"]]
      BY <1>0, <2>2, <3>2 DEF FillTemp, FileType, Asked, q
    <3>4. SaveDone(r, s, cfgFile', cfgTemp', yml') /\ Unwritten(r, s, cfgFile')
      BY <1>1, <1>8, <2>0, <2>2, <3>1, <3>3 DEF SaveDone, Unwritten, NotBegun, SaveSteps, UndoSteps
    <3> QED
      BY <1>1, <2>0, <3>1, <3>3, <3>4, OthersDone
  <2>3. CASE q.at = "filled" /\ RenameTemp /\ SaverGoes(s, "persisted")
    <3>1. PICK r : /\ saver' = [saver EXCEPT ![s] = r] /\ r.at = "persisted"
                   /\ r.want = q.want /\ r.rev = q.rev /\ r.cfg = q.cfg /\ r.changed = q.changed
                   /\ r.errors = q.errors
      BY <1>7, <2>3
    <3>2. cfgFile' = [by |-> <<s, "persist">>, data |-> [mount |-> q.want, lang |-> "en"]]
      BY <1>1, <2>3 DEF SaveDone, RenameTemp
    <3>3. cfgFile'.data # Empty
      BY <1>8, <3>2 DEF Mounts, Empty
    <3>4. SaveDone(r, s, cfgFile', cfgTemp', yml') /\ Unwritten(r, s, cfgFile')
      BY <1>1, <1>8, <2>0, <2>3, <3>1, <3>2 DEF SaveDone, Unwritten, NotBegun, SaveSteps, UndoSteps
    <3> QED
      BY <1>1, <2>0, <3>1, <3>2, <3>3, <3>4, OthersDone
  <2> QED
    BY <1>12, <2>1, <2>2, <2>3 DEF PersistConfig, q
<1>13. CASE PersistFails(s)
  <2>1. q.at \in {"applied", "created", "filled"} /\ UNCHANGED <<cfgFile, yml, pref>> /\ HoldsVm(s)
    BY <1>13, <1>9 DEF PersistFails, q, SaveSteps, DropTemp
  <2>2. PICK r : r = [q EXCEPT !.at = "undoing", !.failing = "persist", !.errors = q.errors]
        /\ saver' = [saver EXCEPT ![s] = r]
    BY <1>0, <1>13 DEF PersistFails, q
  <2>3. /\ saver' = [saver EXCEPT ![s] = r] /\ r.at = "undoing"
        /\ r.want = q.want /\ r.rev = q.rev /\ r.cfg = q.cfg /\ r.changed = q.changed
        /\ r.errors = q.errors
    BY <1>0, <2>2 DEF q
  <2>4. SaveDone(r, s, cfgFile', cfgTemp', yml') /\ Unwritten(r, s, cfgFile')
    BY <1>1, <1>8, <2>1, <2>3 DEF SaveDone, Unwritten, NotBegun, SaveSteps, UndoSteps
  <2> QED
    BY <1>1, <2>1, <2>3, <2>4, OthersDone
<1>14. CASE RecreateVm(s)
  <2>1. q.at = "persisted" /\ UNCHANGED <<cfgFile, cfgTemp, yml, pref>>
    BY <1>14 DEF RecreateVm, q
  <2>2. PICK r : /\ saver' = [saver EXCEPT ![s] = r] /\ r.at \in {"saved", "undoing"}
                 /\ r.want = q.want /\ r.rev = q.rev /\ r.cfg = q.cfg /\ r.changed = q.changed
                 /\ r.errors = q.errors
    <3>1. CASE SaverGoes(s, "saved")
      BY <1>7, <3>1
    <3>2. CASE saver' = [saver EXCEPT ![s].at = "undoing", ![s].failing = "recreate"]
      <4>1. PICK r : r = [q EXCEPT !.at = "undoing", !.failing = "recreate", !.errors = q.errors]
            /\ saver' = [saver EXCEPT ![s] = r]
        BY <1>0, <3>2 DEF q
      <4>2. r.at = "undoing" /\ r.want = q.want /\ r.rev = q.rev /\ r.cfg = q.cfg
            /\ r.changed = q.changed /\ r.errors = q.errors
        BY <1>0, <4>1 DEF q
      <4> QED
        BY <4>1, <4>2
    <3> QED
      BY <1>14, <3>1, <3>2 DEF RecreateVm
  <2>3. SaveDone(r, s, cfgFile', cfgTemp', yml') /\ Unwritten(r, s, cfgFile')
    BY <1>1, <1>8, <2>1, <2>2 DEF SaveDone, Unwritten, NotBegun, SaveSteps, UndoSteps
  <2> QED
    BY <1>1, <2>1, <2>2, <2>3, OthersDone
<1>15. CASE RestoreConfig(s)
  <2>0. q.at \in {"undoing", "recreated", "refilled"} /\ UNCHANGED <<yml, pref>> /\ HoldsVm(s)
        /\ q.cfg # Empty
    BY <1>1, <1>15, <1>9 DEF RestoreConfig, q, SaveSteps, UndoSteps, SaveDone
  <2>1. CASE q.at = "undoing" /\ CreateTemp(<<s, "restore">>) /\ SaverGoes(s, "recreated")
    <3>1. PICK r : /\ saver' = [saver EXCEPT ![s] = r] /\ r.at = "recreated"
                   /\ r.want = q.want /\ r.rev = q.rev /\ r.cfg = q.cfg /\ r.changed = q.changed
                   /\ r.errors = q.errors
      BY <1>7, <2>1
    <3>2. cfgFile' = cfgFile /\ cfgTemp'.by = <<s, "restore">>
      BY <2>1 DEF CreateTemp
    <3>3. SaveDone(r, s, cfgFile', cfgTemp', yml') /\ Unwritten(r, s, cfgFile')
      BY <1>1, <1>8, <2>0, <2>1, <3>1, <3>2 DEF SaveDone, Unwritten, NotBegun, SaveSteps, UndoSteps
    <3> QED
      BY <1>1, <2>0, <3>1, <3>2, <3>3, OthersDone
  <2>2. CASE q.at = "recreated" /\ FillTemp(<<s, "restore">>, q.cfg) /\ SaverGoes(s, "refilled")
    <3>1. PICK r : /\ saver' = [saver EXCEPT ![s] = r] /\ r.at = "refilled"
                   /\ r.want = q.want /\ r.rev = q.rev /\ r.cfg = q.cfg /\ r.changed = q.changed
                   /\ r.errors = q.errors
      BY <1>7, <2>2
    <3>2. cfgFile.by # <<s, "restore">> /\ cfgTemp.by = <<s, "restore">>
      BY <1>1, <2>2 DEF SaveDone, Unwritten, SaveSteps, UndoSteps
    <3>3. cfgFile' = cfgFile /\ cfgTemp' = [by |-> <<s, "restore">>, data |-> q.cfg]
      BY <1>0, <2>2, <3>2 DEF FillTemp, FileType
    <3>4. SaveDone(r, s, cfgFile', cfgTemp', yml') /\ Unwritten(r, s, cfgFile')
      BY <1>1, <1>8, <2>0, <2>2, <3>1, <3>3 DEF SaveDone, Unwritten, NotBegun, SaveSteps, UndoSteps
    <3> QED
      BY <1>1, <2>0, <3>1, <3>3, <3>4, OthersDone
  <2>3. CASE q.at = "refilled" /\ RenameTemp /\ SaverGoes(s, "restored")
    <3>1. PICK r : /\ saver' = [saver EXCEPT ![s] = r] /\ r.at = "restored"
                   /\ r.want = q.want /\ r.rev = q.rev /\ r.cfg = q.cfg /\ r.changed = q.changed
                   /\ r.errors = q.errors
      BY <1>7, <2>3
    <3>2. cfgFile' = [by |-> <<s, "restore">>, data |-> q.cfg]
      BY <1>1, <2>3 DEF SaveDone, RenameTemp
    <3>4. SaveDone(r, s, cfgFile', cfgTemp', yml') /\ Unwritten(r, s, cfgFile')
      BY <1>1, <1>8, <2>0, <2>3, <3>1, <3>2 DEF SaveDone, Unwritten, NotBegun, SaveSteps, UndoSteps
    <3> QED
      BY <1>1, <2>0, <3>1, <3>2, <3>4, OthersDone
  <2>4. CASE DropTemp /\ saver' = [saver EXCEPT ![s].at = "restored", ![s].errors = TRUE]
    <3>1. PICK r : r = [q EXCEPT !.at = "restored", !.failing = q.failing, !.errors = TRUE]
          /\ saver' = [saver EXCEPT ![s] = r]
      BY <1>0, <2>4 DEF q
    <3>2. /\ saver' = [saver EXCEPT ![s] = r] /\ r.at = "restored"
          /\ r.want = q.want /\ r.rev = q.rev /\ r.cfg = q.cfg /\ r.changed = q.changed
          /\ r.errors = TRUE
      BY <1>0, <3>1 DEF q
    <3>3. cfgFile' = cfgFile
      BY <2>4 DEF DropTemp
    <3>4. SaveDone(r, s, cfgFile', cfgTemp', yml') /\ Unwritten(r, s, cfgFile')
      BY <1>1, <1>8, <2>0, <3>2, <3>3 DEF SaveDone, Unwritten, NotBegun, SaveSteps, UndoSteps
    <3> QED
      BY <1>1, <2>0, <3>2, <3>3, <3>4, OthersDone
  <2> QED
    BY <1>15, <2>1, <2>2, <2>3, <2>4 DEF RestoreConfig, q
<1>16. CASE VerifyRestore(s)
  <2>1. q.at = "restored" /\ UNCHANGED <<cfgFile, cfgTemp, yml, pref>>
    BY <1>16 DEF VerifyRestore, SaverOnly, q
  <2>2. CASE ~q.changed /\ SaverGoes(s, "unmounted")
    <3>1. PICK r : /\ saver' = [saver EXCEPT ![s] = r] /\ r.at = "unmounted"
                   /\ r.want = q.want /\ r.rev = q.rev /\ r.cfg = q.cfg /\ r.changed = q.changed
                   /\ r.errors = q.errors
      BY <1>7, <2>2
    <3>2. SaveDone(r, s, cfgFile', cfgTemp', yml') /\ Unwritten(r, s, cfgFile')
      BY <1>1, <1>8, <2>1, <2>2, <3>1 DEF SaveDone, Unwritten, NotBegun, SaveSteps, UndoSteps
    <3> QED
      BY <1>1, <2>1, <3>1, <3>2, OthersDone
  <2>3. CASE SaverGoes(s, "reverting")
    <3>1. PICK r : /\ saver' = [saver EXCEPT ![s] = r] /\ r.at = "reverting"
                   /\ r.want = q.want /\ r.rev = q.rev /\ r.cfg = q.cfg /\ r.changed = q.changed
                   /\ r.errors = q.errors
      BY <1>7, <2>3
    <3>2. SaveDone(r, s, cfgFile', cfgTemp', yml') /\ Unwritten(r, s, cfgFile')
      BY <1>1, <1>8, <2>1, <3>1 DEF SaveDone, Unwritten, NotBegun, SaveSteps, UndoSteps
    <3> QED
      BY <1>1, <2>1, <3>1, <3>2, OthersDone
  <2>4. CASE saver' = [saver EXCEPT ![s].at = "failed", ![s].errors = TRUE]
    <3>1. PICK r : r = [q EXCEPT !.at = "failed", !.failing = q.failing, !.errors = TRUE]
          /\ saver' = [saver EXCEPT ![s] = r]
      BY <1>0, <2>4 DEF q
    <3>2. /\ saver' = [saver EXCEPT ![s] = r] /\ r.at = "failed"
          /\ r.want = q.want /\ r.rev = q.rev /\ r.cfg = q.cfg /\ r.changed = q.changed
          /\ r.errors = TRUE
      BY <1>0, <3>1 DEF q
    <3>3. SaveDone(r, s, cfgFile', cfgTemp', yml') /\ Unwritten(r, s, cfgFile')
      BY <1>1, <1>8, <2>1, <3>2 DEF SaveDone, Unwritten, NotBegun, SaveSteps, UndoSteps
    <3> QED
      BY <1>1, <2>1, <3>2, <3>3, OthersDone
  <2> QED
    BY <1>16, <2>2, <2>3, <2>4 DEF VerifyRestore, q
<1>17. CASE RestoreCompose(s)
  <2>1. /\ q.at = "reverting" /\ UNCHANGED <<cfgFile, cfgTemp, pref>> /\ yml' = q.rev
        /\ SaverGoes(s, "unmounted") /\ HoldsVm(s)
    BY <1>17, <1>9 DEF RestoreCompose, q, SaveSteps, UndoSteps
  <2>2. PICK r : /\ saver' = [saver EXCEPT ![s] = r] /\ r.at = "unmounted"
                 /\ r.want = q.want /\ r.rev = q.rev /\ r.cfg = q.cfg /\ r.changed = q.changed
                 /\ r.errors = q.errors
    BY <1>7, <2>1
  <2>3. SaveDone(r, s, cfgFile', cfgTemp', yml') /\ Unwritten(r, s, cfgFile')
    BY <1>1, <1>8, <2>1, <2>2 DEF SaveDone, Unwritten, NotBegun, SaveSteps, UndoSteps
  <2> QED
    BY <1>1, <2>1, <2>2, <2>3, OthersDone
<1>18. CASE RecreatePrevious(s)
  <2>1. q.at = "unmounted" /\ UNCHANGED <<cfgFile, cfgTemp, yml, pref>> /\ SaverGoes(s, "failed")
    BY <1>18 DEF RecreatePrevious, q
  <2>2. PICK r : /\ saver' = [saver EXCEPT ![s] = r] /\ r.at = "failed"
                 /\ r.want = q.want /\ r.rev = q.rev /\ r.cfg = q.cfg /\ r.changed = q.changed
                 /\ r.errors = q.errors
    BY <1>7, <2>1
  <2>3. SaveDone(r, s, cfgFile', cfgTemp', yml') /\ Unwritten(r, s, cfgFile')
    BY <1>1, <1>8, <2>1, <2>2 DEF SaveDone, Unwritten, NotBegun, SaveSteps, UndoSteps
  <2> QED
    BY <1>1, <2>1, <2>2, <2>3, OthersDone
<1> QED
  BY <1>3, <1>4, <1>5, <1>10, <1>11, <1>12, <1>13, <1>14, <1>15, <1>16, <1>17, <1>18
    DEF SaveStep, UndoStep

\* So does a command that is the one writer.
LEMMA PrefsWrite ==
  ASSUME SettingsTypeOK, Written, ~Overlaps, NEW p \in Prefs, LoadPref(p) \/ WritePref(p)
  PROVE  Written'
<1> DEFINE w == <<p, "persist">>
<1>0. /\ DOMAIN pref = Prefs /\ pref[p].cfg \in Settings /\ DOMAIN pref[p] = {"at", "cfg"}
      /\ cfgFile \in FileType /\ cfgTemp \in FileType
      /\ pref[p] = [at |-> pref[p].at, cfg |-> pref[p].cfg]
  BY DEF SettingsTypeOK
<1>1. PrefDone(pref[p], p, cfgFile, cfgTemp) /\ cfgFile.data # Empty /\ UNCHANGED <<saver, yml>>
  BY DEF Written, LoadPref, WritePref
\* What is left to show for each of its steps.
<1>2. ASSUME NEW r, pref' = [pref EXCEPT ![p] = r], PrefDone(r, p, cfgFile', cfgTemp'),
      cfgFile'.data # Empty,
             UNCHANGED <<cfgFile, cfgTemp>>
               \/ (UnderWay(p) /\ (cfgFile'.by = cfgFile.by \/ cfgFile'.by = w))
      PROVE  Written'
  <2>1. ASSUME NEW s \in Savers
        PROVE SaveDone(saver[s], s, cfgFile', cfgTemp', yml') /\ Unwritten(saver[s], s, cfgFile')
    <3>1. SaveDone(saver[s], s, cfgFile, cfgTemp, yml) /\ Unwritten(saver[s], s, cfgFile)
      BY DEF Written
    <3>2. CASE UNCHANGED <<cfgFile, cfgTemp>>
      BY <1>1, <3>1, <3>2
    <3>3. CASE UnderWay(p) /\ (cfgFile'.by = cfgFile.by \/ cfgFile'.by = w)
      <4>1. saver[s].at \notin SaveSteps
        BY <3>3 DEF Overlaps, HoldsVm
      <4>2. SaveDone(saver[s], s, cfgFile', cfgTemp', yml')
        BY <4>1 DEF SaveDone, SaveSteps, UndoSteps
      <4>3. cfgFile'.by = cfgFile.by \/ cfgFile'.by \notin {<<s, "persist">>, <<s, "restore">>}
        BY <3>3, SettingsAssumption
      <4> QED
        BY <3>1, <4>2, <4>3 DEF Unwritten
    <3> QED
      BY <1>2, <3>2, <3>3
  <2>2. ASSUME NEW q \in Prefs PROVE PrefDone(pref'[q], q, cfgFile', cfgTemp')
    <3>1. CASE q = p
      BY <1>0, <1>2, <3>1
    <3>2. CASE q # p
      <4>1. pref'[q] = pref[q] /\ PrefDone(pref[q], q, cfgFile, cfgTemp)
        BY <1>0, <1>2, <3>2 DEF Written
      <4>2. CASE UNCHANGED <<cfgFile, cfgTemp>>
        BY <4>1, <4>2
      <4>3. CASE UnderWay(p) /\ (cfgFile'.by = cfgFile.by \/ cfgFile'.by = w)
        <5>1. ~UnderWay(q) /\ (cfgFile'.by = cfgFile.by \/ cfgFile'.by # <<q, "persist">>)
          BY <3>2, <4>3 DEF Overlaps
        <5> QED
          BY <4>1, <5>1 DEF PrefDone, UnderWay
      <4> QED
        BY <1>2, <4>2, <4>3
    <3> QED
      BY <3>1, <3>2
  <2> QED
    BY <1>1, <1>2, <2>1, <2>2 DEF Written
<1>3. CASE LoadPref(p)
  <2>1. PICK r : pref' = [pref EXCEPT ![p] = r] /\ r.at \in {"loaded", "done"}
    <3>1. CASE pref' = [pref EXCEPT ![p].at = "done"]
      <4> DEFINE r == [pref[p] EXCEPT !.at = "done"]
      <4>1. pref' = [pref EXCEPT ![p] = r] /\ r.at = "done"
        BY <1>0, <3>1
      <4> HIDE DEF r
      <4> QED
        BY <4>1
    <3>2. CASE pref' = [pref EXCEPT ![p] = [at |-> "loaded",
          cfg |-> [cfgFile.data EXCEPT !.lang = "ko"]]]
      <4> DEFINE r == [at |-> "loaded", cfg |-> [cfgFile.data EXCEPT !.lang = "ko"]]
      <4>1. pref' = [pref EXCEPT ![p] = r] /\ r.at = "loaded"
        BY <3>2
      <4> HIDE DEF r
      <4> QED
        BY <4>1
    <3> QED
      BY <1>3, <3>1, <3>2 DEF LoadPref
  <2>2. UNCHANGED <<cfgFile, cfgTemp>> /\ pref[p].at = "idle"
    BY <1>3 DEF LoadPref
  <2>3. PrefDone(r, p, cfgFile', cfgTemp')
    BY <1>1, <2>1, <2>2 DEF PrefDone
  <2> QED
    BY <1>1, <1>2, <2>1, <2>2, <2>3
<1>4. CASE WritePref(p)
  <2>1. UnderWay(p)
    BY <1>4 DEF WritePref, UnderWay
  <2>2. ASSUME NEW step, SetPref(p, step)
        PROVE  \E r : pref' = [pref EXCEPT ![p] = r] /\ r.at = step /\ r.cfg = pref[p].cfg
    <3> DEFINE r == [pref[p] EXCEPT !.at = step]
    <3>1. pref' = [pref EXCEPT ![p] = r] /\ r.at = step /\ r.cfg = pref[p].cfg
      BY <1>0, <2>2 DEF SetPref
    <3> HIDE DEF r
    <3> QED
      BY <3>1
  <2>3. CASE EndPref(p) /\ cfgFile'.data # Empty /\ (cfgFile'.by = cfgFile.by \/ cfgFile'.by = w)
    <3>1. PrefDone([at |-> "done", cfg |-> FirstConfig], p, cfgFile', cfgTemp')
      BY DEF PrefDone
    <3> QED
      BY <1>2, <2>1, <2>3, <3>1 DEF EndPref
  <2>4. CASE pref[p].at = "loaded" /\ CreateTemp(w) /\ SetPref(p, "created")
    <3>1. PICK r : pref' = [pref EXCEPT ![p] = r] /\ r.at = "created" /\ r.cfg = pref[p].cfg
      BY <2>2, <2>4
    <3>2. cfgFile' = cfgFile /\ cfgTemp'.by = w
      BY <2>4 DEF CreateTemp
    <3>3. PrefDone(r, p, cfgFile', cfgTemp')
      BY <1>1, <2>4, <3>1, <3>2 DEF PrefDone
    <3> QED
      BY <1>1, <1>2, <2>1, <3>1, <3>2, <3>3
  <2>5. CASE pref[p].at = "created" /\ FillTemp(w, pref[p].cfg) /\ SetPref(p, "filled")
    <3>1. PICK r : pref' = [pref EXCEPT ![p] = r] /\ r.at = "filled" /\ r.cfg = pref[p].cfg
      BY <2>2, <2>5
    <3>2. cfgFile.by # w /\ cfgTemp.by = w
      BY <1>1, <2>5 DEF PrefDone
    <3>3. cfgFile' = cfgFile /\ cfgTemp' = [by |-> w, data |-> pref[p].cfg]
      BY <1>0, <2>5, <3>2 DEF FillTemp, FileType
    <3>4. PrefDone(r, p, cfgFile', cfgTemp')
      BY <1>1, <2>5, <3>1, <3>3 DEF PrefDone
    <3> QED
      BY <1>1, <1>2, <2>1, <3>1, <3>3, <3>4
  <2>6. CASE pref[p].at = "filled" /\ RenameTemp /\ EndPref(p)
    <3>1. cfgFile' = [by |-> w, data |-> pref[p].cfg]
      BY <1>1, <2>6 DEF RenameTemp, PrefDone
    <3>2. pref[p].cfg # Empty
      BY <1>0 DEF Settings, Mounts, Empty
    <3> QED
      BY <2>3, <2>6, <3>1, <3>2
  <2>7. CASE DropTemp /\ EndPref(p)
    BY <1>1, <2>3, <2>7 DEF DropTemp
  <2> QED
    BY <1>4, <2>4, <2>5, <2>6, <2>7 DEF WritePref
<1> QED
  BY <1>3, <1>4

LEMMA SettingsStep == SettingsInv /\ [SettingsNext]_settingsVars => SettingsInv'
<1>1. ASSUME SettingsInv, UNCHANGED settingsVars PROVE SettingsInv'
  BY <1>1 DEF settingsVars, SettingsInv, SettingsTypeOK, OneSave, HoldsVm, Overlaps, UnderWay, Written
<1>2. ASSUME SettingsInv, SettingsNext PROVE SettingsInv'
  <2>1. SettingsTypeOK' /\ OneSave' /\ (Overlaps' => overlap')
    BY <1>2, SaveTypes, SavesAlone DEF SettingsInv, SettingsNext
  <2>2. CASE overlap
    <3>1. overlap'
      BY <1>2, <2>2 DEF SettingsNext
    <3> QED
      BY <2>1, <3>1 DEF SettingsInv
  <2>3. CASE ~overlap
    <3>1. SettingsTypeOK /\ OneSave /\ ~Overlaps /\ Written
      BY <1>2, <2>3 DEF SettingsInv
    <3>2. CASE UserEdits
      <4>1. yml'.mount = yml.mount /\ UNCHANGED <<cfgFile, cfgTemp, saver, pref>>
        BY <3>1, <3>2 DEF UserEdits, SettingsTypeOK, Ymls
      <4>2. Written'
        BY <3>1, <4>1 DEF Written, SaveDone, Unwritten, PrefDone
      <4> QED
        BY <2>1, <4>2 DEF SettingsInv
    <3> QED
      BY <1>2, <2>1, <3>1, <3>2, SavesWrite, PrefsWrite DEF SettingsNext, SettingsInv
  <2> QED
    BY <2>2, <2>3
<1> QED
  BY <1>1, <1>2

\* For any number of saves and of commands that rewrite the configuration alone, with kills and
\* failures between any two steps, both files are saved or neither, or an error says so, as long
\* as no such command overlaps another writer (settings.rs rollback_files, config/store.rs).
THEOREM BothFilesOrNeither == SettingsSpec => []BothOrNeither
  BY SettingsStart, SettingsStep, SettingsSafe, PTL DEF SettingsSpec

\* Files, VM, saves and preference commands have their types, and a save that takes anything
\* back knows which of its steps failed.
THEOREM SettingsTypesHold == SettingsSpec => []SettingsTypeOK
  BY SettingsStart, SettingsStep, PTL DEF SettingsSpec, SettingsInv

-----------------------------------------------------------------------------
(***************************************************************************)
(* The installers, for any length of an installer.  The state beside a     *)
(* partial payload names the release of all its bytes, a request that      *)
(* resumes asks for that release, and a payload is discarded before its    *)
(* state is, so none is ever taken for another's.                          *)
(***************************************************************************)

\* Every byte of a payload came from release r.
FromRelease(x, r) == \A i \in 1..Len(x) : x[i] = r

\* What is known of the partial download at each step.
PartialInv ==
  /\ partial # NoPartial => FromRelease(payload, partial.release)
  /\ download.at = "discarding" => payload = Absent
  /\ download.at = "requesting" =>
       \/ download.start = 0 /\ payload = Absent /\ partial = NoPartial
       \/ /\ download.start > 0 /\ Len(payload) = download.start
          /\ partial # NoPartial /\ partial.release = download.release
  /\ download.at = "discarding" /\ download.then = "requesting" => download.start = 0
  /\ download.at = "opening" => download.start <= Len(payload)
  /\ download.at = "discarding" /\ download.then = "opening" =>
       download.start = 0 /\ download.release \in Releases
  /\ download.at \in {"opening", "receiving"} =>
       /\ download.release \in Releases
       /\ FromRelease(payload, download.release)
       /\ partial # NoPartial => partial.release = download.release
  /\ download.at \in {"committing", "moving"} =>
       payload \in Whole /\ payload = download.sha /\ FromRelease(payload, download.release)

\* What carries a digest is one release, from the commit on the installer too.
DigestInv ==
  /\ metadata # Absent => metadata \in Whole
  /\ download.at = "naming" /\ download.oldMetadata # Absent => download.oldMetadata \in Whole
  /\ download.at \in {"committing", "moving", "backing", "naming", "staging", "installed"}
     => download.sha \in Whole
  /\ download.at = "discarding" /\ download.then = "staging" => download.sha \in Whole
  /\ download.at \in {"backing", "naming"} => installer = download.sha
  /\ download.at = "discarding"
     => download.then \in {"loading", "requesting", "opening", "failed", "staging"}

\* A redownload can put back the valid installer that it found.
BackupInv ==
  download.force /\ download.had =>
    /\ download.at \in {"checking", "discarding", "loading", "requesting", "opening", "receiving",
       "committing", "staging", "failed"}
         => Valid
    /\ download.at \in {"moving", "backing"} => metadata # Absent /\ download.oldInstaller = metadata
    /\ download.at = "naming" => download.oldMetadata # Absent
       /\ download.oldInstaller = download.oldMetadata

InstallerInv == InstallerTypeOK /\ PartialInv /\ DigestInv /\ BackupInv

\* Payloads are the short sequences of releases, whole ones have one release.
LEMMA PayloadIs == ASSUME NEW x \in Payloads
                   PROVE x \in Seq(Releases) /\ Len(x) \in Nat /\ Len(x) <= Total
<1>1. PICK n \in 0..Total : x \in [1..n -> Releases]
  BY DEF Payloads
<1> QED
  BY <1>1, InstallerAssumption

LEMMA IsPayload == ASSUME NEW x \in Seq(Releases), Len(x) <= Total PROVE x \in Payloads
<1>1. x \in [1..Len(x) -> Releases] /\ Len(x) \in 0..Total
  BY InstallerAssumption
<1> QED
  BY <1>1 DEF Payloads

LEMMA WholeIs == ASSUME NEW x \in Payloads, NEW r \in Releases, Len(x) = Total, FromRelease(x, r)
                 PROVE x \in Whole
<1>1. x \in Seq(Releases)
  BY PayloadIs
<1>2. x \in [1..Total -> Releases] /\ \A i \in 1..Total : x[i] = r
  BY <1>1 DEF FromRelease
<1>3. x = [i \in 1..Total |-> r]
  BY <1>2
<1> QED
  BY <1>3 DEF Whole

LEMMA WholePayloads == ASSUME NEW x \in Whole PROVE x \in Payloads /\ x # Absent
<1>1. PICK r \in Releases : x = [i \in 1..Total |-> r]
  BY DEF Whole
<1>2. x \in [1..Total -> Releases] /\ Total \in 0..Total /\ Total > 0
  BY <1>1, InstallerAssumption
<1>3. x \in Payloads
  BY <1>2 DEF Payloads
<1>4. x \in Seq(Releases) /\ Len(x) = Total
  BY <1>2
<1> QED
  BY <1>2, <1>3, <1>4 DEF Absent

LEMMA AbsentPayload == Absent \in Payloads /\ \A r : FromRelease(Absent, r)
<1>1. Absent \in Seq(Releases) /\ Len(Absent) = 0
  BY DEF Absent
<1>2. Len(Absent) <= Total
  BY <1>1, InstallerAssumption
<1>3. Absent \in Payloads
  BY <1>1, <1>2, IsPayload, Zenon
<1> QED
  BY <1>1, <1>3 DEF FromRelease

LEMMA PayloadGrows ==
  ASSUME NEW x \in Payloads, NEW r \in Releases, Len(x) < Total
  PROVE  Append(x, r) \in Payloads /\ (FromRelease(x, r) => FromRelease(Append(x, r), r))
<1>1. x \in Seq(Releases) /\ Len(x) \in Nat
  BY PayloadIs
<1>2. Append(x, r) \in Seq(Releases) /\ Len(Append(x, r)) = Len(x) + 1
  BY <1>1
<1>5. Len(Append(x, r)) <= Total
  BY <1>1, <1>2, InstallerAssumption
<1>3. Append(x, r) \in Payloads
  BY <1>2, <1>5, IsPayload, Zenon
<1>4. ASSUME FromRelease(x, r), NEW i \in 1..Len(Append(x, r)) PROVE Append(x, r)[i] = r
  BY <1>1, <1>2, <1>4 DEF FromRelease
<1> QED
  BY <1>3, <1>4 DEF FromRelease

LEMMA PayloadCut ==
  ASSUME NEW x \in Payloads, NEW n \in 0..Len(x)
  PROVE  /\ SubSeq(x, 1, n) \in Payloads
         /\ \A r : FromRelease(x, r) => FromRelease(SubSeq(x, 1, n), r)
<1>1. x \in Seq(Releases) /\ Len(x) \in Nat /\ Len(x) <= Total
  BY PayloadIs
<1>2. SubSeq(x, 1, n) \in Seq(Releases) /\ Len(SubSeq(x, 1, n)) = n
  BY <1>1
<1>5. Len(SubSeq(x, 1, n)) <= Total
  BY <1>1, <1>2, InstallerAssumption
<1>3. SubSeq(x, 1, n) \in Payloads
  BY <1>2, <1>5, IsPayload, Zenon
<1>4. ASSUME NEW r, FromRelease(x, r), NEW i \in 1..n PROVE SubSeq(x, 1, n)[i] = r
  BY <1>1, <1>4 DEF FromRelease
<1> QED
  BY <1>2, <1>3, <1>4 DEF FromRelease

\* The cache is empty at first.
LEMMA InstallerStart == InstallerInit => InstallerInv
<1> SUFFICES ASSUME InstallerInit PROVE InstallerInv
  OBVIOUS
<1> USE InstallerAssumption DEF InstallerInit
<1>1. InstallerTypeOK
  BY AbsentPayload DEF InstallerTypeOK, Releases, NoDownload, DownloadSteps
<1>2. PartialInv /\ DigestInv /\ BackupInv
  BY DEF PartialInv, DigestInv, BackupInv, NoDownload
<1> QED
  BY <1>1, <1>2 DEF InstallerInv

\* The three promises follow.
LEMMA InstallerSafe == InstallerInv => OneReleaseOnDisk
<1> SUFFICES ASSUME InstallerInv PROVE OneReleaseOnDisk
  OBVIOUS
<1>1. InstalledIsWhole
  BY DEF InstallerInv, DigestInv, InstalledIsWhole
<1>2. PartialTells
  BY DEF InstallerInv, PartialInv, PartialTells, Resumable, FromRelease
<1>3. PreviousSurvives
  BY DEF InstallerInv, BackupInv, PreviousSurvives
<1> QED
  BY <1>1, <1>2, <1>3 DEF OneReleaseOnDisk

DownloadType ==
  [at : DownloadSteps, then : DownloadSteps, force : BOOLEAN, start : 0..Total,
   release : Releases \cup {"none"}, sha : Payloads,
   oldInstaller : Payloads, oldMetadata : Payloads, had : BOOLEAN]

\* A step of the command that changes only where it is.
LEMMA JustGoes ==
  ASSUME InstallerTypeOK, NEW step \in DownloadSteps, DownloadGoes(step)
  PROVE  /\ download' \in DownloadType /\ download'.at = step /\ download'.then = download.then
         /\ download'.force = download.force /\ download'.had = download.had
         /\ download'.start = download.start /\ download'.release = download.release
         /\ download'.sha = download.sha /\ download'.oldInstaller = download.oldInstaller
         /\ download'.oldMetadata = download.oldMetadata
  BY DEF InstallerTypeOK, DownloadGoes, DownloadType

LEMMA DiscardsThen ==
  ASSUME NEW d \in DownloadType, NEW step \in DownloadSteps, DiscardThen(d, step)
  PROVE  /\ download' \in DownloadType /\ payload' = Absent
         /\ download'.at = "discarding" /\ download'.then = step
         /\ download'.force = d.force /\ download'.had = d.had /\ download'.start = d.start
         /\ download'.release = d.release /\ download'.sha = d.sha
         /\ download'.oldInstaller = d.oldInstaller /\ download'.oldMetadata = d.oldMetadata
  BY DEF DiscardThen, DownloadType, DownloadSteps

LEMMA DownloadsKeep == InstallerInv /\ DownloadStep => InstallerInv'
<1> SUFFICES ASSUME InstallerInv, DownloadStep PROVE InstallerInv'
  OBVIOUS
<1> DEFINE d == download
<1>0. /\ d \in DownloadType /\ payload \in Payloads /\ installer \in Payloads /\ metadata \in Payloads
      /\ partial \in [release : Releases, size : 1..Total] \cup {NoPartial}
      /\ origin \in [release : Releases, changes : 0..MaxReplacements] /\ InstallerTypeOK
      /\ PartialInv /\ DigestInv /\ BackupInv
      /\ Absent \in Payloads /\ \A r : FromRelease(Absent, r)
  BY AbsentPayload DEF InstallerInv, InstallerTypeOK, DownloadType
<1>00. 0 \in 0..Total /\ \A n \in 1..Total : n \in 0..Total
  BY InstallerAssumption
<1>1. CASE DiscardState
  <2>1. /\ d.at = "discarding" /\ DownloadGoes(d.then) /\ partial' = NoPartial /\ payload = Absent
        /\ UNCHANGED <<origin, payload, installer, metadata>>
        /\ d.then \in {"loading", "requesting", "opening", "failed", "staging"}
    BY <1>0, <1>1 DEF DiscardState, installedVars, PartialInv, DigestInv
  <2>2. /\ download' \in DownloadType /\ download'.at = d.then
        /\ download'.force = d.force /\ download'.had = d.had /\ download'.start = d.start
        /\ download'.sha = d.sha /\ download'.release = d.release
    BY <1>0, <2>1, JustGoes DEF DownloadType
  <2>3. InstallerTypeOK'
    BY <1>0, <2>1, <2>2 DEF InstallerTypeOK, DownloadType
  <2>4. PartialInv'
    BY <1>0, <2>1, <2>2 DEF PartialInv, Absent
  <2>5. DigestInv'
    BY <1>0, <2>1, <2>2 DEF DigestInv
  <2>6. BackupInv'
    BY <1>0, <2>1, <2>2 DEF BackupInv, Valid
  <2> QED
    BY <2>3, <2>4, <2>5, <2>6 DEF InstallerInv
<1>2. CASE BeginDownload
  <2>1. PICK force \in BOOLEAN : download' = [NoDownload EXCEPT !.at = "checking", !.force = force,
        !.had = Valid]
    BY <1>2 DEF BeginDownload
  <2>2. UNCHANGED <<origin, payload, partial, installer, metadata>> /\ Valid \in BOOLEAN
    BY <1>2 DEF BeginDownload, partialVars, installedVars, Valid
  <2>6. PICK had \in BOOLEAN : had = Valid
    BY <2>2
  <2>3. download' \in DownloadType /\ download'.at = "checking" /\ download'.had = had
    BY <1>0, <1>00, <2>1, <2>6 DEF DownloadType, NoDownload, DownloadSteps
  <2>4. InstallerTypeOK'
    BY <1>0, <2>2, <2>3 DEF InstallerTypeOK, DownloadType
  <2>5. PartialInv' /\ DigestInv' /\ BackupInv'
    BY <1>0, <2>2, <2>3, <2>6 DEF PartialInv, DigestInv, BackupInv, Valid
  <2> QED
    BY <2>4, <2>5 DEF InstallerInv
<1>3. CASE Inspect
  <2>1. d.at = "checking" /\ UNCHANGED <<origin, partial>>
    BY <1>3 DEF Inspect
  <2>2. CASE d.force /\ DiscardThen(d, "loading") /\ UNCHANGED <<installer, metadata>>
    <3>1. /\ download' \in DownloadType /\ payload' = Absent
          /\ download'.at = "discarding" /\ download'.then = "loading"
          /\ download'.force = d.force /\ download'.had = d.had
      BY <1>0, <2>2, DiscardsThen DEF DownloadSteps
    <3>2. InstallerTypeOK'
      BY <1>0, <2>1, <2>2, <3>1 DEF InstallerTypeOK, DownloadType
    <3>3. PartialInv' /\ DigestInv' /\ BackupInv'
      BY <1>0, <2>1, <2>2, <3>1 DEF PartialInv, DigestInv, BackupInv, Valid
    <3> QED
      BY <3>2, <3>3 DEF InstallerInv
  <2>3. CASE ~d.force /\ Valid /\ DiscardThen([d EXCEPT !.sha = metadata], "staging")
        /\ UNCHANGED <<installer, metadata>>
    <3>0. [d EXCEPT !.sha = metadata] \in DownloadType /\ [d EXCEPT !.sha = metadata].sha = metadata
          /\ [d EXCEPT !.sha = metadata].force = d.force
      BY <1>0 DEF DownloadType
    <3>1. /\ download' \in DownloadType /\ payload' = Absent
          /\ download'.at = "discarding" /\ download'.then = "staging"
          /\ download'.force = d.force /\ download'.sha = metadata
      BY <1>0, <2>3, <3>0, DiscardsThen DEF DownloadSteps
    <3>2. InstallerTypeOK'
      BY <1>0, <2>1, <2>3, <3>1 DEF InstallerTypeOK, DownloadType
    <3>3. PartialInv' /\ DigestInv' /\ BackupInv'
      BY <1>0, <2>1, <2>3, <3>1 DEF PartialInv, DigestInv, BackupInv, Valid
    <3> QED
      BY <3>2, <3>3 DEF InstallerInv
  <2>4. CASE ~d.force /\ ~Valid /\ installer' = Absent /\ metadata' = Absent /\ DownloadGoes("loading")
        /\ UNCHANGED payload
    <3>1. download' \in DownloadType /\ download'.at = "loading" /\ download'.force = d.force
      BY <1>0, <2>4, JustGoes DEF DownloadSteps
    <3>2. InstallerTypeOK'
      BY <1>0, <2>1, <2>4, <3>1 DEF InstallerTypeOK, DownloadType
    <3>3. PartialInv' /\ DigestInv' /\ BackupInv'
      BY <1>0, <2>1, <2>4, <3>1 DEF PartialInv, DigestInv, BackupInv
    <3> QED
      BY <3>2, <3>3 DEF InstallerInv
  <2> QED
    BY <1>3, <2>2, <2>3, <2>4 DEF Inspect, installedVars
<1>4. CASE LoadPartial
  <2>1. d.at = "loading" /\ UNCHANGED <<origin, partial, installer, metadata>>
    BY <1>4 DEF LoadPartial, installedVars
  <2>2. CASE Resumable
        /\ download' = [d EXCEPT !.at = "requesting", !.start = partial.size,
           !.release = partial.release] /\ UNCHANGED payload
    <3>1. partial \in [release : Releases, size : 1..Total] /\ Len(payload) = partial.size
      BY <1>0, <2>2 DEF Resumable
    <3>2. /\ download' \in DownloadType /\ download'.at = "requesting" /\ download'.start = partial.size
          /\ download'.release = partial.release /\ download'.force = d.force /\ download'.had = d.had
      BY <1>0, <1>00, <2>2, <3>1 DEF DownloadType, DownloadSteps
    <3>3. InstallerTypeOK'
      BY <1>0, <2>1, <2>2, <3>2 DEF InstallerTypeOK, DownloadType
    <3>4. PartialInv'
      BY <1>0, <2>1, <2>2, <3>1, <3>2 DEF PartialInv, Resumable
    <3>5. DigestInv' /\ BackupInv'
      BY <1>0, <2>1, <2>2, <3>2 DEF DigestInv, BackupInv, Valid
    <3> QED
      BY <3>3, <3>4, <3>5 DEF InstallerInv
  <2>3. CASE DiscardThen([d EXCEPT !.start = 0, !.release = "none"], "requesting")
    <3>0. /\ [d EXCEPT !.start = 0, !.release = "none"] \in DownloadType
          /\ [d EXCEPT !.start = 0, !.release = "none"].start = 0
          /\ [d EXCEPT !.start = 0, !.release = "none"].force = d.force
          /\ [d EXCEPT !.start = 0, !.release = "none"].had = d.had
      BY <1>0, <1>00 DEF DownloadType
    <3>1. /\ download' \in DownloadType /\ payload' = Absent
          /\ download'.at = "discarding" /\ download'.then = "requesting" /\ download'.start = 0
          /\ download'.force = d.force /\ download'.had = d.had
      BY <1>0, <2>3, <3>0, DiscardsThen DEF DownloadSteps
    <3>2. InstallerTypeOK'
      BY <1>0, <2>1, <3>1 DEF InstallerTypeOK, DownloadType
    <3>3. PartialInv' /\ DigestInv' /\ BackupInv'
      BY <1>0, <2>1, <3>1 DEF PartialInv, DigestInv, BackupInv, Valid
    <3> QED
      BY <3>2, <3>3 DEF InstallerInv
  <2> QED
    BY <1>4, <2>2, <2>3 DEF LoadPartial
<1>5. CASE Respond
  <2>1. d.at = "requesting" /\ UNCHANGED <<origin, partial, installer, metadata>>
    BY <1>5 DEF Respond, installedVars
  <2>2. ASSUME NEW n \in 0..Total
        PROVE  /\ Answer(n) \in DownloadType /\ Answer(n).at = "opening" /\ Answer(n).start = n
               /\ Answer(n).release = origin.release /\ Answer(n).force = d.force
               /\ Answer(n).had = d.had
    BY <1>0 DEF Answer, DownloadType, DownloadSteps
  <2>3. ASSUME NEW n \in 0..d.start, download' = Answer(n), UNCHANGED payload, d.start = 0
        \/ d.release = origin.release
        PROVE  InstallerInv'
    <3>0. n \in 0..Total
      BY <1>0, InstallerAssumption DEF DownloadType
    <3>1. /\ download' \in DownloadType /\ download'.at = "opening" /\ download'.start = n
          /\ download'.release = origin.release /\ download'.force = d.force /\ download'.had = d.had
      BY <2>2, <2>3, <3>0
    <3>2. InstallerTypeOK'
      BY <1>0, <2>1, <2>3, <3>1 DEF InstallerTypeOK, DownloadType
    <3>3. PartialInv'
      <4>1. CASE d.start = 0
        <5>1. payload = Absent /\ partial = NoPartial /\ Len(payload) = 0
          BY <1>0, <2>1, <4>1 DEF PartialInv, Absent
        <5> QED
          BY <1>0, <2>1, <2>3, <3>1, <4>1, <5>1 DEF PartialInv
      <4>2. CASE d.start # 0
        <5>1. d.release = origin.release /\ Len(payload) = d.start /\ partial # NoPartial
              /\ partial.release = d.release
          BY <1>0, <2>1, <2>3, <4>2 DEF PartialInv
        <5>2. FromRelease(payload, origin.release)
          BY <1>0, <5>1 DEF PartialInv
        <5>3. n <= Len(payload)
          BY <1>0, <5>1 DEF DownloadType
        <5> QED
          BY <1>0, <2>1, <2>3, <3>1, <5>1, <5>2, <5>3 DEF PartialInv
      <4> QED
        BY <4>1, <4>2
    <3>4. DigestInv' /\ BackupInv'
      BY <1>0, <2>1, <3>1 DEF DigestInv, BackupInv, Valid
    <3> QED
      BY <3>2, <3>3, <3>4 DEF InstallerInv
  <2>4. CASE d.start > 0 /\ DiscardThen(d, "loading")
    <3>1. /\ download' \in DownloadType /\ payload' = Absent
          /\ download'.at = "discarding" /\ download'.then = "loading"
          /\ download'.force = d.force /\ download'.had = d.had
      BY <1>0, <2>4, DiscardsThen DEF DownloadSteps
    <3>2. InstallerTypeOK'
      BY <1>0, <2>1, <3>1 DEF InstallerTypeOK, DownloadType
    <3>3. PartialInv' /\ DigestInv' /\ BackupInv'
      BY <1>0, <2>1, <3>1 DEF PartialInv, DigestInv, BackupInv, Valid
    <3> QED
      BY <3>2, <3>3 DEF InstallerInv
  <2>5. CASE DiscardThen(Answer(0), "opening")
    <3>0. /\ Answer(0) \in DownloadType /\ Answer(0).start = 0 /\ Answer(0).release \in Releases
          /\ Answer(0).force = d.force /\ Answer(0).had = d.had
      BY <1>0, <1>00, <2>2
    <3>1. /\ download' \in DownloadType /\ payload' = Absent
          /\ download'.at = "discarding" /\ download'.then = "opening" /\ download'.start = 0
          /\ download'.release \in Releases /\ download'.force = d.force /\ download'.had = d.had
      BY <2>5, <3>0, DiscardsThen DEF DownloadSteps
    <3>2. InstallerTypeOK'
      BY <1>0, <2>1, <3>1 DEF InstallerTypeOK, DownloadType
    <3>3. PartialInv' /\ DigestInv' /\ BackupInv'
      BY <1>0, <2>1, <3>1 DEF PartialInv, DigestInv, BackupInv, Valid
    <3> QED
      BY <3>2, <3>3 DEF InstallerInv
  <2>6. 0 \in 0..d.start
    BY <1>0, InstallerAssumption DEF DownloadType
  <2> QED
    BY <1>5, <2>3, <2>4, <2>5, <2>6 DEF Respond
<1>6. CASE OpenPayload
  <2>1. /\ d.at = "opening" /\ DownloadGoes("receiving") /\ payload' = SubSeq(payload, 1, d.start)
        /\ UNCHANGED <<origin, partial, installer, metadata>>
    BY <1>6 DEF OpenPayload, installedVars
  <2>2. /\ download' \in DownloadType /\ download'.at = "receiving" /\ download'.release = d.release
        /\ download'.force = d.force /\ download'.had = d.had
    BY <1>0, <2>1, JustGoes DEF DownloadSteps
  <2>3. d.start \in 0..Len(payload)
    BY <1>0, <2>1, PayloadIs DEF PartialInv, DownloadType
  <2>4. payload' \in Payloads /\ \A r : FromRelease(payload, r) => FromRelease(payload', r)
    BY <1>0, <2>1, <2>3, PayloadCut
  <2>5. InstallerTypeOK'
    BY <1>0, <2>1, <2>2, <2>4 DEF InstallerTypeOK, DownloadType
  <2>6. PartialInv'
    BY <1>0, <2>1, <2>2, <2>4 DEF PartialInv
  <2>7. DigestInv' /\ BackupInv'
    BY <1>0, <2>1, <2>2 DEF DigestInv, BackupInv, Valid
  <2> QED
    BY <2>5, <2>6, <2>7 DEF InstallerInv
<1>7. CASE Receive
  <2>1. /\ d.at = "receiving" /\ Len(payload) < Total /\ payload' = Append(payload, d.release)
        /\ UNCHANGED <<origin, partial, installer, metadata, download>>
    BY <1>7 DEF Receive, installedVars
  <2>2. d.release \in Releases
    BY <1>0, <2>1 DEF PartialInv
  <2>3. payload' \in Payloads /\ (FromRelease(payload, d.release) => FromRelease(payload', d.release))
    BY <1>0, <2>1, <2>2, PayloadGrows
  <2>4. InstallerTypeOK'
    BY <1>0, <2>1, <2>3 DEF InstallerTypeOK
  <2>5. PartialInv'
    BY <1>0, <2>1, <2>3 DEF PartialInv
  <2>6. DigestInv' /\ BackupInv'
    BY <1>0, <2>1 DEF DigestInv, BackupInv, Valid
  <2> QED
    BY <2>4, <2>5, <2>6 DEF InstallerInv
<1>8. CASE Interrupted
  <2>1. d.at = "receiving" /\ UNCHANGED <<origin, installer, metadata>>
    BY <1>8 DEF Interrupted, installedVars
  <2>2. CASE /\ payload # Absent /\ partial' = [release |-> d.release, size |-> Len(payload)]
             /\ DownloadGoes("failed") /\ UNCHANGED payload
    <3>1. /\ download' \in DownloadType /\ download'.at = "failed" /\ download'.release = d.release
          /\ download'.force = d.force /\ download'.had = d.had
      BY <1>0, <2>2, JustGoes DEF DownloadSteps
    <3>2. d.release \in Releases
      BY <1>0, <2>1 DEF PartialInv
    <3>3. Len(payload) \in 1..Total
      BY <1>0, <2>2, PayloadIs, InstallerAssumption DEF Absent
    <3>4. partial' \in [release : Releases, size : 1..Total] /\ partial'.release = d.release
      BY <2>2, <3>2, <3>3
    <3>5. InstallerTypeOK'
      BY <1>0, <2>1, <2>2, <3>1, <3>4 DEF InstallerTypeOK, DownloadType
    <3>6. FromRelease(payload, d.release)
      BY <1>0, <2>1 DEF PartialInv
    <3>7. PartialInv'
      BY <2>2, <3>1, <3>4, <3>6 DEF PartialInv
    <3>8. DigestInv' /\ BackupInv'
      BY <1>0, <2>1, <3>1 DEF DigestInv, BackupInv, Valid
    <3> QED
      BY <3>5, <3>7, <3>8 DEF InstallerInv
  <2>3. CASE DiscardThen(d, "failed") /\ UNCHANGED partial
    <3>1. /\ download' \in DownloadType /\ payload' = Absent
          /\ download'.at = "discarding" /\ download'.then = "failed"
          /\ download'.force = d.force /\ download'.had = d.had
      BY <1>0, <2>3, DiscardsThen DEF DownloadSteps
    <3>2. InstallerTypeOK'
      BY <1>0, <2>1, <2>3, <3>1 DEF InstallerTypeOK, DownloadType
    <3>3. PartialInv' /\ DigestInv' /\ BackupInv'
      BY <1>0, <2>1, <2>3, <3>1 DEF PartialInv, DigestInv, BackupInv, Valid
    <3> QED
      BY <3>2, <3>3 DEF InstallerInv
  <2> QED
    BY <1>8, <2>2, <2>3 DEF Interrupted
<1>9. CASE Received
  <2>1. /\ d.at = "receiving" /\ Len(payload) = Total
        /\ UNCHANGED <<origin, partial, installer, metadata>>
        /\ FromRelease(payload, d.release)
    BY <1>0, <1>9 DEF Received, installedVars, PartialInv
  <2>2. CASE download' = [d EXCEPT !.at = "committing", !.sha = payload] /\ UNCHANGED payload
    <3>1. /\ download' \in DownloadType /\ download'.at = "committing" /\ download'.sha = payload
          /\ download'.release = d.release /\ download'.force = d.force /\ download'.had = d.had
      BY <1>0, <2>2 DEF DownloadType, DownloadSteps
    <3>2. d.release \in Releases
      BY <1>0, <2>1 DEF PartialInv
    <3>3. payload \in Whole
      BY <1>0, <2>1, <3>2, WholeIs
    <3>4. InstallerTypeOK'
      BY <1>0, <2>1, <2>2, <3>1 DEF InstallerTypeOK, DownloadType
    <3>5. PartialInv'
      BY <1>0, <2>1, <2>2, <3>1, <3>3 DEF PartialInv
    <3>6. DigestInv' /\ BackupInv'
      BY <1>0, <2>1, <3>1, <3>3 DEF DigestInv, BackupInv, Valid
    <3> QED
      BY <3>4, <3>5, <3>6 DEF InstallerInv
  <2>3. CASE DiscardThen(d, "failed")
    <3>1. /\ download' \in DownloadType /\ payload' = Absent
          /\ download'.at = "discarding" /\ download'.then = "failed"
          /\ download'.force = d.force /\ download'.had = d.had
      BY <1>0, <2>3, DiscardsThen DEF DownloadSteps
    <3>2. InstallerTypeOK'
      BY <1>0, <2>1, <3>1 DEF InstallerTypeOK, DownloadType
    <3>3. PartialInv' /\ DigestInv' /\ BackupInv'
      BY <1>0, <2>1, <3>1 DEF PartialInv, DigestInv, BackupInv, Valid
    <3> QED
      BY <3>2, <3>3 DEF InstallerInv
  <2> QED
    BY <1>9, <2>2, <2>3 DEF Received
<1>10. CASE DownloadFails
  <2>1. /\ d.at \in {"checking", "loading", "requesting", "opening", "staging"}
        /\ DownloadGoes("failed")
        /\ UNCHANGED <<origin, payload, partial, installer, metadata>>
    BY <1>10 DEF DownloadFails, installedVars, partialVars
  <2>2. download' \in DownloadType /\ download'.at = "failed" /\ download'.force = d.force
        /\ download'.had = d.had
    BY <1>0, <2>1, JustGoes DEF DownloadSteps
  <2>3. InstallerTypeOK'
    BY <1>0, <2>1, <2>2 DEF InstallerTypeOK, DownloadType
  <2>4. PartialInv' /\ DigestInv' /\ BackupInv'
    BY <1>0, <2>1, <2>2 DEF PartialInv, DigestInv, BackupInv, Valid
  <2> QED
    BY <2>3, <2>4 DEF InstallerInv
<1>11. CASE EndDownload
  <2>1. download' = NoDownload /\ UNCHANGED <<origin, payload, partial, installer, metadata>>
    BY <1>11 DEF EndDownload, installedVars, partialVars
  <2>2. download' \in DownloadType /\ download'.at = "idle" /\ download'.force = FALSE
    BY <1>0, <1>00, <2>1 DEF NoDownload, DownloadType, DownloadSteps
  <2>3. InstallerTypeOK'
    BY <1>0, <2>1, <2>2 DEF InstallerTypeOK, DownloadType
  <2>4. PartialInv' /\ DigestInv' /\ BackupInv'
    BY <1>0, <2>1, <2>2 DEF PartialInv, DigestInv, BackupInv
  <2> QED
    BY <2>3, <2>4 DEF InstallerInv
<1> QED
  BY <1>1, <1>2, <1>3, <1>4, <1>5, <1>6, <1>7, <1>8, <1>9, <1>10, <1>11 DEF DownloadStep

LEMMA CommitSteps == InstallerInv /\ CommitStep => InstallerInv'
<1> SUFFICES ASSUME InstallerInv, CommitStep PROVE InstallerInv'
  OBVIOUS
<1> DEFINE d == download
<1>0. /\ d \in DownloadType /\ payload \in Payloads /\ installer \in Payloads /\ metadata \in Payloads
      /\ partial \in [release : Releases, size : 1..Total] \cup {NoPartial}
      /\ origin \in [release : Releases, changes : 0..MaxReplacements] /\ InstallerTypeOK
      /\ PartialInv /\ DigestInv /\ BackupInv
      /\ Absent \in Payloads /\ \A r : FromRelease(Absent, r)
  BY AbsentPayload DEF InstallerInv, InstallerTypeOK, DownloadType
<1>1. CASE BackUpInstaller
  <2>1. /\ d.at = "committing" /\ download' = [d EXCEPT !.at = "moving", !.oldInstaller = installer]
        /\ installer' = Absent /\ UNCHANGED <<origin, payload, partial, metadata>>
    BY <1>1 DEF BackUpInstaller, partialVars
  <2>2. /\ download' \in DownloadType /\ download'.at = "moving" /\ download'.oldInstaller = installer
        /\ download'.force = d.force /\ download'.had = d.had /\ download'.sha = d.sha
        /\ download'.release = d.release
    BY <1>0, <2>1 DEF DownloadType, DownloadSteps
  <2>3. InstallerTypeOK'
    BY <1>0, <2>1, <2>2 DEF InstallerTypeOK, DownloadType
  <2>4. PartialInv' /\ DigestInv' /\ BackupInv'
    BY <1>0, <2>1, <2>2 DEF PartialInv, DigestInv, BackupInv, Valid
  <2> QED
    BY <2>3, <2>4 DEF InstallerInv
<1>2. CASE MovePayload
  <2>1. /\ d.at = "moving" /\ DownloadGoes("backing") /\ installer' = payload /\ payload' = Absent
        /\ UNCHANGED <<origin, partial, metadata>>
    BY <1>2 DEF MovePayload
  <2>2. /\ download' \in DownloadType /\ download'.at = "backing"
        /\ download'.oldInstaller = d.oldInstaller
        /\ download'.force = d.force /\ download'.had = d.had /\ download'.sha = d.sha
    BY <1>0, <2>1, JustGoes DEF DownloadSteps
  <2>3. InstallerTypeOK'
    BY <1>0, <2>1, <2>2 DEF InstallerTypeOK, DownloadType
  <2>4. PartialInv' /\ DigestInv' /\ BackupInv'
    BY <1>0, <2>1, <2>2 DEF PartialInv, DigestInv, BackupInv
  <2> QED
    BY <2>3, <2>4 DEF InstallerInv
<1>3. CASE BackUpMetadata
  <2>1. /\ d.at = "backing" /\ download' = [d EXCEPT !.at = "naming", !.oldMetadata = metadata]
        /\ metadata' = Absent /\ UNCHANGED <<origin, payload, partial, installer>>
    BY <1>3 DEF BackUpMetadata, partialVars
  <2>2. /\ download' \in DownloadType /\ download'.at = "naming"
        /\ download'.oldInstaller = d.oldInstaller
        /\ download'.oldMetadata = metadata
        /\ download'.force = d.force /\ download'.had = d.had /\ download'.sha = d.sha
    BY <1>0, <2>1 DEF DownloadType, DownloadSteps
  <2>3. InstallerTypeOK'
    BY <1>0, <2>1, <2>2 DEF InstallerTypeOK, DownloadType
  <2>4. PartialInv' /\ DigestInv' /\ BackupInv'
    BY <1>0, <2>1, <2>2 DEF PartialInv, DigestInv, BackupInv
  <2> QED
    BY <2>3, <2>4 DEF InstallerInv
<1>4. CASE NameMetadata
  <2>1. /\ d.at = "naming" /\ metadata' = d.sha /\ UNCHANGED <<origin, partial, installer>>
        /\ installer = d.sha /\ d.sha \in Whole
    BY <1>0, <1>4 DEF NameMetadata, DigestInv
  <2>2. d.sha \in Payloads /\ d.sha # Absent
    BY <2>1, WholePayloads
  <2>3. CASE DiscardThen(d, "staging")
    <3>1. /\ download' \in DownloadType /\ payload' = Absent
          /\ download'.at = "discarding" /\ download'.then = "staging"
          /\ download'.force = d.force /\ download'.had = d.had /\ download'.sha = d.sha
      BY <1>0, <2>3, DiscardsThen DEF DownloadSteps
    <3>2. InstallerTypeOK'
      BY <1>0, <2>1, <2>2, <3>1 DEF InstallerTypeOK, DownloadType
    <3>3. PartialInv' /\ DigestInv' /\ BackupInv'
      BY <1>0, <2>1, <2>2, <3>1 DEF PartialInv, DigestInv, BackupInv, Valid
    <3> QED
      BY <3>2, <3>3 DEF InstallerInv
  <2>4. CASE DownloadGoes("failed") /\ UNCHANGED payload
    <3>1. /\ download' \in DownloadType /\ download'.at = "failed"
          /\ download'.force = d.force /\ download'.had = d.had /\ download'.sha = d.sha
      BY <1>0, <2>4, JustGoes DEF DownloadSteps
    <3>2. InstallerTypeOK'
      BY <1>0, <2>1, <2>2, <2>4, <3>1 DEF InstallerTypeOK, DownloadType
    <3>3. PartialInv' /\ DigestInv' /\ BackupInv'
      BY <1>0, <2>1, <2>2, <2>4, <3>1 DEF PartialInv, DigestInv, BackupInv, Valid
    <3> QED
      BY <3>2, <3>3 DEF InstallerInv
  <2> QED
    BY <1>4, <2>3, <2>4 DEF NameMetadata
<1>5. CASE CommitFails
  <2>1. /\ d.at \in {"committing", "moving", "backing", "naming"} /\ DownloadGoes("failed")
        /\ installer' = IF d.at = "committing" THEN installer ELSE d.oldInstaller
        /\ metadata' = IF d.at = "naming" THEN d.oldMetadata ELSE metadata
        /\ UNCHANGED <<origin, payload, partial>>
    BY <1>5 DEF CommitFails, partialVars
  <2>2. /\ download' \in DownloadType /\ download'.at = "failed"
        /\ download'.force = d.force /\ download'.had = d.had
    BY <1>0, <2>1, JustGoes DEF DownloadSteps
  <2>3. installer' \in Payloads /\ metadata' \in Payloads
    BY <1>0, <2>1 DEF DownloadType
  <2>4. InstallerTypeOK'
    BY <1>0, <2>1, <2>2, <2>3 DEF InstallerTypeOK, DownloadType
  <2>5. PartialInv' /\ DigestInv' /\ BackupInv'
    BY <1>0, <2>1, <2>2 DEF PartialInv, DigestInv, BackupInv, Valid
  <2> QED
    BY <2>4, <2>5 DEF InstallerInv
<1>6. CASE Stage
  <2>1. /\ d.at = "staging" /\ DownloadGoes(IF installer = d.sha THEN "installed" ELSE "failed")
        /\ UNCHANGED <<origin, payload, partial, installer, metadata>>
    BY <1>6 DEF Stage, partialVars, installedVars
  <2>2. /\ download' \in DownloadType /\ download'.at \in {"installed", "failed"}
        /\ download'.sha = d.sha
        /\ download'.force = d.force /\ download'.had = d.had
    BY <1>0, <2>1, JustGoes DEF DownloadSteps
  <2>3. InstallerTypeOK'
    BY <1>0, <2>1, <2>2 DEF InstallerTypeOK, DownloadType
  <2>4. PartialInv' /\ DigestInv' /\ BackupInv'
    BY <1>0, <2>1, <2>2 DEF PartialInv, DigestInv, BackupInv, Valid
  <2> QED
    BY <2>3, <2>4 DEF InstallerInv
<1> QED
  BY <1>1, <1>2, <1>3, <1>4, <1>5, <1>6 DEF CommitStep

LEMMA InstallerStep == InstallerInv /\ [InstallerNext]_installerVars => InstallerInv'
<1>1. InstallerInv /\ UNCHANGED installerVars => InstallerInv'
  BY DEF installerVars, InstallerInv, InstallerTypeOK, PartialInv, DigestInv, BackupInv, Valid
<1>2. ASSUME InstallerInv, ReplaceOrigin PROVE InstallerInv'
  <2>1. /\ UNCHANGED <<payload, partial, installer, metadata, download>>
        /\ origin' \in [release : Releases, changes : 0..MaxReplacements]
    BY <1>2, InstallerAssumption
      DEF ReplaceOrigin, partialVars, installedVars, InstallerInv, InstallerTypeOK
  <2> QED
    BY <1>2, <2>1 DEF InstallerInv, InstallerTypeOK, PartialInv, DigestInv, BackupInv, Valid
<1> QED
  BY <1>1, <1>2, DownloadsKeep, CommitSteps DEF InstallerNext

\* However often a download is interrupted or killed and its origin replaced, what is installed is
\* one release, a resumed payload continues the release its state names, and a redownload that
\* fails leaves the installer it found (downloads.rs, downloads/cache.rs commit_named).
THEOREM OneReleaseStays == InstallerSpec => []OneReleaseOnDisk
  BY InstallerStart, InstallerStep, InstallerSafe, PTL DEF InstallerSpec

\* Whatever a server sends and whenever a download is killed: its files are of one of the forms
\* that the next download can read, and none is longer than the release.
THEOREM InstallerTypesHold == InstallerSpec => []InstallerTypeOK
  BY InstallerStart, InstallerStep, PTL DEF InstallerSpec, InstallerInv

-----------------------------------------------------------------------------
(***************************************************************************)
(* The list of versions, for any number of refreshes, installations and    *)
(* seeds: what was answered is as new as the last change announced by      *)
(* then.  The argument is about the generation: an answer of the current   *)
(* generation was read after the last announcement.                        *)
(***************************************************************************)

\* The types the argument needs, without the bound on the changes.
WeakTypes ==
  /\ installed \in Nat /\ announced \in [done : Nat, generation : Nat]
  /\ cached \in [list : Nat, source : {"none", "guest", "disk"}, fresh : BOOLEAN]
  /\ completed \in [answers : SUBSET Nat, waiting : SUBSET Refreshers]
  /\ disk \in SUBSET Nat
  /\ refresher \in [Refreshers -> [at : {"idle", "waiting", "detecting", "detected", "answered", "ended"},
                                   generation : Nat, answers : SUBSET Nat, owed : Nat]]
  /\ seeder \in [Seeders -> [at : {"idle", "loaded", "ended"}, lists : SUBSET Nat]]

\* The inductive invariant: nobody knows a generation to come, and what was
\* read in the current one is new enough.
VersionInv ==
  /\ WeakTypes
  /\ announced.done <= installed
  /\ \A r \in Refreshers :
       /\ refresher[r].generation <= announced.generation
       /\ refresher[r].at = "detected" /\ refresher[r].generation = announced.generation
            => \A list \in refresher[r].answers : list >= announced.done
  /\ \A list \in completed.answers : list >= announced.done
  /\ AnswerIsCurrent /\ GuestListIsCurrent

LEMMA VersionInvInit == VersionInit => VersionInv
BY DEF VersionInit, VersionInv, WeakTypes, NotCached, NotCompleted, NotRefreshing, AnswerIsCurrent,
       GuestListIsCurrent, Lists

\* A step of one refresh that leaves the caches alone keeps the invariant if what
\* the refresh has become satisfies it.
LEMMA OneRefresherKeeps ==
  ASSUME VersionInv, NEW r \in Refreshers,
         NEW new \in [at : {"idle", "waiting", "detecting", "detected", "answered", "ended"},
                      generation : Nat, answers : SUBSET Nat, owed : Nat],
         refresher' = [refresher EXCEPT ![r] = new],
         UNCHANGED <<installed, announced, cached, completed, disk, seeder>>,
         new.generation <= announced.generation,
         new.at = "detected" => \A list \in new.answers : list >= announced.done,
         new.at = "answered" => \A list \in new.answers : list >= new.owed
  PROVE  VersionInv'
<1>. USE DEF VersionInv, WeakTypes, AnswerIsCurrent, GuestListIsCurrent
<1>1. WeakTypes'
  OBVIOUS
<1>2. \A q \in Refreshers : refresher'[q] = IF q = r THEN new ELSE refresher[q]
  OBVIOUS
<1>3. AnswerIsCurrent' /\ GuestListIsCurrent'
  BY <1>2
<1>. QED  BY <1>1, <1>2, <1>3

\* A refresh answers with what it read in the current generation, or with what
\* another one read in it.
LEMMA RefreshKeeps ==
  ASSUME VersionInv, NEW r \in Refreshers, RefreshStep(r)
  PROVE  VersionInv'
<1>. USE DEF VersionInv, WeakTypes, AnswerIsCurrent, GuestListIsCurrent, changeVars
<1>0. /\ refresher[r] \in [at : {"idle", "waiting", "detecting", "detected", "answered", "ended"},
                         generation : Nat, answers : SUBSET Nat, owed : Nat]
      /\ refresher[r].generation <= announced.generation
      /\ installed \in Nat /\ announced.done \in Nat /\ announced.generation \in Nat
      /\ announced.done <= installed /\ completed.answers \in SUBSET Nat
      /\ \A list \in completed.answers : list >= announced.done
  OBVIOUS
<1>1. CASE AskForVersions(r)
  <2>1. PICK step \in {"ended", "waiting"} : refresher' = [refresher EXCEPT ![r].at = step]
    BY <1>1 DEF AskForVersions
  <2>2. UNCHANGED <<installed, announced, cached, completed, disk, seeder>>
    BY <1>1 DEF AskForVersions
  <2>. QED  BY <2>1, <2>2
<1>2. CASE TakeTurn(r)
  <2>1. UNCHANGED <<installed, announced, cached, completed, disk, seeder>>
    BY <1>2 DEF TakeTurn
  <2>2. CASE r \in completed.waiting
    <3>. DEFINE new == [refresher[r] EXCEPT !.at = "answered", !.answers = completed.answers,
                                            !.owed = announced.done]
    <3>1. refresher' = [refresher EXCEPT ![r] = new]
      BY <1>2, <2>2 DEF TakeTurn, RefresherGoes
    <3>2. new \in [at : {"idle", "waiting", "detecting", "detected", "answered", "ended"},
                   generation : Nat, answers : SUBSET Nat, owed : Nat]
      BY <1>0
    <3>3. new.at = "answered" /\ new.generation <= announced.generation
      BY <1>0
    <3>4. \A list \in new.answers : list >= new.owed
      BY <1>0
    <3>. HIDE DEF new
    <3>. QED  BY <2>1, <3>1, <3>2, <3>3, <3>4, OneRefresherKeeps
  <2>3. CASE r \notin completed.waiting
    <3>. DEFINE new == [refresher[r] EXCEPT !.at = "detecting", !.generation = announced.generation]
    <3>1. refresher' = [refresher EXCEPT ![r] = new]
      BY <1>2, <2>3 DEF TakeTurn
    <3>2. /\ new.at = "detecting" /\ new.generation <= announced.generation
      BY <1>0
    <3>3. new \in [at : {"idle", "waiting", "detecting", "detected", "answered", "ended"},
                   generation : Nat, answers : SUBSET Nat, owed : Nat]
      BY <1>0
    <3>. HIDE DEF new
    <3>. QED  BY <2>1, <3>1, <3>2, <3>3, OneRefresherKeeps
  <2>. QED  BY <2>2, <2>3
<1>3. CASE Detect(r)
  <2>1. PICK answers \in {{installed}, {}} :
          refresher' = [refresher EXCEPT ![r].at = "detected", ![r].answers = answers]
    BY <1>3 DEF Detect
  <2>. DEFINE new == [refresher[r] EXCEPT !.at = "detected", !.answers = answers]
  <2>2. refresher' = [refresher EXCEPT ![r] = new]
    BY <2>1
  <2>3. new \in [at : {"idle", "waiting", "detecting", "detected", "answered", "ended"},
                 generation : Nat, answers : SUBSET Nat, owed : Nat]
    BY <1>0
  <2>5. new.at = "detected" /\ new.generation <= announced.generation
    BY <1>0
  <2>6. \A list \in new.answers : list >= announced.done
    BY <1>0
  <2>4. UNCHANGED <<installed, announced, cached, completed, disk, seeder>>
    BY <1>3 DEF Detect
  <2>. HIDE DEF new
  <2>. QED  BY <2>2, <2>3, <2>4, <2>5, <2>6, OneRefresherKeeps
<1>4. CASE CompleteRefresh(r)
  <2>1. CASE refresher[r].generation # announced.generation
    BY <1>4, <2>1 DEF CompleteRefresh
  <2>2. CASE refresher[r].generation = announced.generation
    <3>1. \A list \in refresher[r].answers : list \in Nat /\ list >= announced.done
      BY <1>4, <2>2 DEF CompleteRefresh
    <3>2. UNCHANGED changeVars
      BY <1>4 DEF CompleteRefresh
    <3>3. refresher' = [refresher EXCEPT ![r].at = "answered", ![r].answers = refresher[r].answers,
                                         ![r].owed = announced.done]
      BY <1>4, <2>2 DEF CompleteRefresh, RefresherGoes
    <3>4. /\ completed' \in [answers : SUBSET Nat, waiting : SUBSET Refreshers]
          /\ completed'.answers = refresher[r].answers
      BY <1>4, <2>2 DEF CompleteRefresh
    <3>5. /\ cached' \in [list : Nat, source : {"none", "guest", "disk"}, fresh : BOOLEAN]
          /\ cached'.source = "guest" => cached'.list >= announced.done
      <4>1. CASE refresher[r].answers = {}
        BY <1>4, <2>2, <4>1 DEF CompleteRefresh
      <4>2. CASE refresher[r].answers # {}
        <5>. DEFINE n == CHOOSE n \in refresher[r].answers : TRUE
        <5>1. n \in refresher[r].answers
          BY <4>2
        <5>2. cached' = [list |-> n, source |-> "guest", fresh |-> TRUE]
          BY <1>4, <2>2, <4>2 DEF CompleteRefresh
        <5>. QED  BY <3>1, <5>1, <5>2
      <4>. QED  BY <4>1, <4>2
    <3>. QED  BY <1>4, <3>1, <3>2, <3>3, <3>4, <3>5 DEF CompleteRefresh
  <2>. QED  BY <2>1, <2>2
<1>5. CASE SaveVersions(r)
  BY <1>5 DEF SaveVersions, NotRefreshing
<1>. QED  BY <1>1, <1>2, <1>3, <1>4, <1>5 DEF RefreshStep

\* An announcement ends the generation of every detection under way.
LEMMA InstallKeeps ==
  ASSUME VersionInv, NEW i \in Installers, InstallStep(i)
  PROVE  VersionInv'
<1>. USE DEF VersionInv, WeakTypes, AnswerIsCurrent, GuestListIsCurrent
<1>1. CASE Install(i)
  BY <1>1 DEF Install
<1>2. CASE Invalidate(i)
  BY <1>2 DEF Invalidate, NotCached, NotCompleted
<1>3. CASE InvalidateDisk(i)
  BY <1>3 DEF InvalidateDisk
<1>. QED  BY <1>1, <1>2, <1>3 DEF InstallStep

\* A seed is never taken for an answer of the guest.
LEMMA SeedKeeps ==
  ASSUME VersionInv, NEW s \in Seeders, LoadDisk(s) \/ Seed(s)
  PROVE  VersionInv'
<1>. USE DEF VersionInv, WeakTypes, AnswerIsCurrent, GuestListIsCurrent, changeVars
<1>1. CASE LoadDisk(s)
  BY <1>1 DEF LoadDisk
<1>2. CASE Seed(s)
  <2>1. seeder' \in [Seeders -> [at : {"idle", "loaded", "ended"}, lists : SUBSET Nat]]
    BY <1>2 DEF Seed
  <2>2. /\ cached' \in [list : Nat, source : {"none", "guest", "disk"}, fresh : BOOLEAN]
        /\ cached'.source = "guest" => cached' = cached
    <3>1. CASE cached.source = "guest"
      BY <1>2, <3>1 DEF Seed
    <3>2. CASE cached.source # "guest" /\ seeder[s].lists = {}
      BY <1>2, <3>2 DEF Seed, NotCached
    <3>3. CASE cached.source # "guest" /\ seeder[s].lists # {}
      <4>. DEFINE n == CHOOSE n \in seeder[s].lists : TRUE
      <4>1. n \in seeder[s].lists
        BY <3>3
      <4>2. cached' = [list |-> n, source |-> "disk", fresh |-> TRUE]
        BY <1>2, <3>3 DEF Seed
      <4>. QED  BY <4>1, <4>2
    <3>. QED  BY <3>1, <3>2, <3>3
  <2>. QED  BY <1>2, <2>1, <2>2 DEF Seed
<1>. QED  BY <1>1, <1>2

LEMMA VersionInvStep == VersionInv /\ [VersionNext]_versionVars => VersionInv'
<1>. SUFFICES ASSUME VersionInv, [VersionNext]_versionVars PROVE VersionInv'
  OBVIOUS
<1>1. CASE \E r \in Refreshers : RefreshStep(r)
  BY <1>1, RefreshKeeps
<1>2. CASE \E i \in Installers : InstallStep(i)
  BY <1>2, InstallKeeps
<1>3. CASE \E s \in Seeders : LoadDisk(s) \/ Seed(s)
  BY <1>3, SeedKeeps
<1>4. CASE Expire
  BY <1>4 DEF Expire, VersionInv, WeakTypes, AnswerIsCurrent, GuestListIsCurrent, changeVars
<1>5. CASE UNCHANGED versionVars
  BY <1>5 DEF versionVars, VersionInv, WeakTypes, AnswerIsCurrent, GuestListIsCurrent
<1>. QED  BY <1>1, <1>2, <1>3, <1>4, <1>5 DEF VersionNext

\* Neither a refresh nor the cache in memory gives a list older than the last
\* change announced (version_cache.rs: refresh, complete_refresh, seed).
THEOREM ListsAreCurrent == VersionSpec => []NoStaleList
<1>1. VersionInv => NoStaleList
  BY DEF VersionInv, NoStaleList
<1>. QED  BY <1>1, VersionInvInit, VersionInvStep, PTL DEF VersionSpec

\* The types, for finitely many installations: there are no more lists than changes.
Single(lists) == \A m, n \in lists : m = n
RefresherType ==
  [at : {"idle", "waiting", "detecting", "detected", "answered", "ended"},
   generation : Lists, answers : SUBSET Lists, owed : Lists]
VersionTypes ==
  /\ installed \in Lists /\ announced \in [done : Lists, generation : Lists]
  /\ cached \in [list : Lists, source : {"none", "guest", "disk"}, fresh : BOOLEAN]
  /\ completed \in [answers : SUBSET Lists, waiting : SUBSET Refreshers]
  /\ disk \in SUBSET Lists
  /\ refresher \in [Refreshers -> RefresherType]
  /\ change \in [Installers -> {"idle", "changed", "forgotten", "ended"}]
  /\ seeder \in [Seeders -> [at : {"idle", "loaded", "ended"}, lists : SUBSET Lists]]

\* Each installation changes the guest once, and announces that once.
Changed == {i \in Installers : change[i] # "idle"}
Told == {i \in Installers : change[i] \in {"forgotten", "ended"}}
ChangesCount == installed = Cardinality(Changed) /\ announced.generation = Cardinality(Told)

\* One list at most is answered or saved, and one command at most asks the guest.
AnswersAreSingle ==
  /\ Single(disk) /\ Single(completed.answers)
  /\ \A r \in Refreshers : Single(refresher[r].answers)
OneRefreshes == \A r, s \in Refreshers : Refreshing(r) /\ Refreshing(s) => r = s

VersionTypeInv == VersionTypes /\ ChangesCount /\ AnswersAreSingle /\ OneRefreshes

LEMMA ListsKnown ==
  ASSUME IsFiniteSet(Installers)
  PROVE  /\ Cardinality(Installers) \in Nat /\ 0 \in Lists
         /\ \A S \in SUBSET Installers : IsFiniteSet(S) /\ Cardinality(S) \in Lists
<1>1. Cardinality(Installers) \in Nat
  BY FS_CardinalityType
<1>2. ASSUME NEW S \in SUBSET Installers PROVE IsFiniteSet(S) /\ Cardinality(S) \in Lists
  <2>1. IsFiniteSet(S) /\ Cardinality(S) <= Cardinality(Installers)
    BY FS_Subset
  <2>2. Cardinality(S) \in Nat
    BY <2>1, FS_CardinalityType
  <2> QED
    BY <1>1, <2>1, <2>2 DEF Lists
<1> QED
  BY <1>1, <1>2 DEF Lists

LEMMA VersionTypesStart == ASSUME IsFiniteSet(Installers), VersionInit PROVE VersionTypeInv
<1>1. 0 \in Lists
  BY ListsKnown
<1>2. VersionTypes
  BY <1>1 DEF VersionInit, VersionTypes, RefresherType, NotCached, NotCompleted, NotRefreshing
<1>3. ChangesCount
  <2>1. Changed = {} /\ Told = {}
    BY DEF VersionInit, Changed, Told
  <2> QED
    BY <2>1, FS_EmptySet DEF VersionInit, ChangesCount
<1>4. AnswersAreSingle /\ OneRefreshes
  BY DEF VersionInit, AnswersAreSingle, Single, OneRefreshes, Refreshing, NotCompleted, NotRefreshing
<1> QED
  BY <1>2, <1>3, <1>4 DEF VersionTypeInv

\* What a step of one refresh does that leaves the changes alone.
LEMMA RefresherTyped ==
  ASSUME VersionTypeInv, NEW r \in Refreshers, NEW new \in RefresherType,
         refresher' = [refresher EXCEPT ![r] = new], UNCHANGED <<installed, announced, change, seeder>>,
         cached' \in [list : Lists, source : {"none", "guest", "disk"}, fresh : BOOLEAN],
         completed' \in [answers : SUBSET Lists, waiting : SUBSET Refreshers],
         disk' \in SUBSET Lists, Single(disk'), Single(completed'.answers), Single(new.answers),
         new.at \in {"detecting", "detected"} => Refreshing(r) \/ \A s \in Refreshers : ~Refreshing(s)
  PROVE  VersionTypeInv'
<1>1. VersionTypes'
  BY DEF VersionTypeInv, VersionTypes
<1>2. ChangesCount'
  BY DEF VersionTypeInv, ChangesCount, Changed, Told
<1>3. \A q \in Refreshers : refresher'[q] = IF q = r THEN new ELSE refresher[q]
  BY DEF VersionTypeInv, VersionTypes
<1>4. AnswersAreSingle'
  BY <1>3 DEF VersionTypeInv, AnswersAreSingle
<1>5. OneRefreshes'
  BY <1>3 DEF VersionTypeInv, OneRefreshes, Refreshing
<1> QED
  BY <1>1, <1>2, <1>4, <1>5 DEF VersionTypeInv

LEMMA RefreshTyped == ASSUME IsFiniteSet(Installers), VersionTypeInv, NEW r \in Refreshers, RefreshStep(r) PROVE VersionTypeInv'
<1>1. /\ refresher[r] \in RefresherType /\ refresher \in [Refreshers -> RefresherType]
      /\ Single(refresher[r].answers) /\ 0 \in Lists
      /\ installed \in Lists /\ announced.done \in Lists /\ announced.generation \in Lists
      /\ Single(disk) /\ Single(completed.answers) /\ disk \in SUBSET Lists
      /\ cached \in [list : Lists, source : {"none", "guest", "disk"}, fresh : BOOLEAN]
      /\ completed \in [answers : SUBSET Lists, waiting : SUBSET Refreshers]
      /\ completed.answers \in SUBSET Lists
  BY ListsKnown DEF VersionTypeInv, VersionTypes, AnswersAreSingle
<1>2. CASE AskForVersions(r)
  <2>1. PICK step \in {"ended", "waiting"} : refresher' = [refresher EXCEPT ![r].at = step]
    BY <1>2 DEF AskForVersions
  <2> DEFINE new == [refresher[r] EXCEPT !.at = step]
  <2>2. refresher' = [refresher EXCEPT ![r] = new]
    BY <2>1
  <2>3. new \in RefresherType /\ new.answers = refresher[r].answers /\ new.at = step
    BY <1>1 DEF RefresherType
  <2>4. UNCHANGED <<installed, announced, change, seeder, cached, completed, disk>>
    BY <1>2 DEF AskForVersions, changeVars
  <2> HIDE DEF new
  <2> QED
    BY <1>1, <2>2, <2>3, <2>4, RefresherTyped
<1>3. CASE TakeTurn(r)
  <2>1. /\ UNCHANGED <<installed, announced, change, seeder, cached, completed, disk>>
        /\ \A s \in Refreshers : ~Refreshing(s)
    BY <1>3 DEF TakeTurn, changeVars
  <2>2. CASE r \in completed.waiting
    <3> DEFINE new == [refresher[r] EXCEPT !.at = "answered", !.answers = completed.answers,
                                           !.owed = announced.done]
    <3>1. refresher' = [refresher EXCEPT ![r] = new]
      BY <1>3, <2>2 DEF TakeTurn, RefresherGoes
    <3>2. new \in RefresherType /\ new.answers = completed.answers /\ new.at = "answered"
      BY <1>1 DEF RefresherType
    <3> HIDE DEF new
    <3> QED
      BY <1>1, <2>1, <3>1, <3>2, RefresherTyped
  <2>3. CASE r \notin completed.waiting
    <3> DEFINE new == [refresher[r] EXCEPT !.at = "detecting", !.generation = announced.generation]
    <3>1. refresher' = [refresher EXCEPT ![r] = new]
      BY <1>3, <2>3 DEF TakeTurn
    <3>2. new \in RefresherType /\ new.answers = refresher[r].answers
      BY <1>1 DEF RefresherType
    <3> HIDE DEF new
    <3> QED
      BY <1>1, <2>1, <3>1, <3>2, RefresherTyped
  <2> QED
    BY <2>2, <2>3
<1>4. CASE Detect(r)
  <2>1. PICK answers \in {{installed}, {}} :
          refresher' = [refresher EXCEPT ![r].at = "detected", ![r].answers = answers]
    BY <1>4 DEF Detect
  <2> DEFINE new == [refresher[r] EXCEPT !.at = "detected", !.answers = answers]
  <2>2. refresher' = [refresher EXCEPT ![r] = new]
    BY <2>1
  <2>3. answers \in SUBSET Lists /\ Single(answers)
    BY <1>1 DEF Single
  <2>4. new \in RefresherType /\ new.answers = answers
    BY <1>1, <2>3 DEF RefresherType
  <2>5. UNCHANGED <<installed, announced, change, seeder, cached, completed, disk>> /\ Refreshing(r)
    BY <1>4 DEF Detect, changeVars, Refreshing
  <2> HIDE DEF new
  <2> QED
    BY <1>1, <2>2, <2>3, <2>4, <2>5, RefresherTyped
<1>5. CASE CompleteRefresh(r)
  <2>1. UNCHANGED <<installed, announced, change, seeder, disk>> /\ Refreshing(r)
    BY <1>5 DEF CompleteRefresh, changeVars, Refreshing
  <2>2. CASE refresher[r].generation # announced.generation
    <3> DEFINE new == [refresher[r] EXCEPT !.at = "detecting", !.answers = {},
                                           !.generation = announced.generation]
    <3>1. refresher' = [refresher EXCEPT ![r] = new] /\ UNCHANGED <<cached, completed>>
      BY <1>5, <2>2 DEF CompleteRefresh
    <3>2. new \in RefresherType /\ new.answers = {}
      BY <1>1 DEF RefresherType
    <3>3. Single({})
      BY DEF Single
    <3> HIDE DEF new
    <3> QED
      BY <1>1, <2>1, <3>1, <3>2, <3>3, RefresherTyped
  <2>3. CASE refresher[r].generation = announced.generation
    <3> DEFINE new == [refresher[r] EXCEPT !.at = "answered", !.answers = refresher[r].answers,
                                           !.owed = announced.done]
    <3>1. refresher' = [refresher EXCEPT ![r] = new]
      BY <1>5, <2>3 DEF CompleteRefresh, RefresherGoes
    <3>2. new \in RefresherType /\ new.answers = refresher[r].answers /\ new.at = "answered"
      BY <1>1 DEF RefresherType
    <3>3. completed' \in [answers : SUBSET Lists, waiting : SUBSET Refreshers]
      <4>1. refresher[r].answers \in SUBSET Lists
        BY <1>1 DEF RefresherType
      <4> QED
        BY <1>5, <2>3, <4>1 DEF CompleteRefresh
    <3>4. completed'.answers = refresher[r].answers
      BY <1>5, <2>3 DEF CompleteRefresh
    <3>5. cached' \in [list : Lists, source : {"none", "guest", "disk"}, fresh : BOOLEAN]
      <4>1. CASE refresher[r].answers = {}
        BY <1>1, <1>5, <2>3, <4>1 DEF CompleteRefresh
      <4>2. CASE refresher[r].answers # {}
        <5> DEFINE n == CHOOSE n \in refresher[r].answers : TRUE
        <5>1. n \in refresher[r].answers /\ refresher[r].answers \in SUBSET Lists
          BY <1>1, <4>2 DEF RefresherType
        <5>2. cached' = [list |-> n, source |-> "guest", fresh |-> TRUE]
          BY <1>5, <2>3, <4>2 DEF CompleteRefresh
        <5> HIDE DEF n
        <5> QED
          BY <5>1, <5>2
      <4> QED
        BY <4>1, <4>2
    <3> HIDE DEF new
    <3> QED
      BY <1>1, <2>1, <3>1, <3>2, <3>3, <3>4, <3>5, RefresherTyped
  <2> QED
    BY <2>2, <2>3
<1>6. CASE SaveVersions(r)
  <2> DEFINE new == [NotRefreshing EXCEPT !.at = "ended"]
  <2>1. /\ refresher' = [refresher EXCEPT ![r] = new]
        /\ UNCHANGED <<installed, announced, change, seeder, cached, completed>>
        /\ disk' = disk \/ disk' = refresher[r].answers
    BY <1>6 DEF SaveVersions, changeVars
  <2>2. new \in RefresherType /\ new.answers = {} /\ new.at = "ended"
    BY <1>1 DEF RefresherType, NotRefreshing
  <2>3. Single({}) /\ Single(disk') /\ disk' \in SUBSET Lists
    <3>1. refresher[r].answers \in SUBSET Lists
      BY <1>1 DEF RefresherType
    <3> QED
      BY <1>1, <2>1, <3>1 DEF Single
  <2> HIDE DEF new
  <2> QED
    BY <1>1, <2>1, <2>2, <2>3, RefresherTyped
<1> QED
  BY <1>2, <1>3, <1>4, <1>5, <1>6 DEF RefreshStep

\* A change is counted when it is made, and again when it is announced.
LEMMA InstallTyped ==
  ASSUME IsFiniteSet(Installers), VersionTypeInv, NEW i \in Installers, InstallStep(i)
  PROVE  VersionTypeInv'
<1>1. /\ VersionTypes /\ ChangesCount /\ AnswersAreSingle /\ OneRefreshes
      /\ change \in [Installers -> {"idle", "changed", "forgotten", "ended"}] /\ 0 \in Lists
      /\ announced \in [done : Lists, generation : Lists] /\ installed \in Lists
  BY ListsKnown DEF VersionTypeInv, VersionTypes
<1>2. \A S \in SUBSET Installers : IsFiniteSet(S) /\ Cardinality(S) \in Lists
  BY ListsKnown
<1>3. Changed \in SUBSET Installers /\ Told \in SUBSET Installers
  BY DEF Changed, Told
<1>4. CASE Install(i)
  <2>1. /\ change[i] = "idle" /\ change' = [change EXCEPT ![i] = "changed"] /\ installed' = installed + 1
        /\ UNCHANGED <<announced, cached, completed, disk, refresher, seeder>>
    BY <1>4 DEF Install
  <2>2. Changed' = Changed \union {i} /\ i \notin Changed /\ Told' = Told
    BY <1>1, <2>1 DEF Changed, Told
  <2>3. Cardinality(Changed') = Cardinality(Changed) + 1 /\ Changed' \in SUBSET Installers
    BY <1>2, <1>3, <2>2, FS_AddElement
  <2>4. ChangesCount'
    BY <1>1, <2>1, <2>2, <2>3 DEF ChangesCount
  <2>5. installed' \in Lists
    BY <1>1, <1>2, <2>1, <2>3 DEF ChangesCount
  <2>6. change' \in [Installers -> {"idle", "changed", "forgotten", "ended"}]
    BY <1>1, <2>1
  <2> QED
    BY <1>1, <2>1, <2>4, <2>5, <2>6
       DEF VersionTypeInv, VersionTypes, AnswersAreSingle, OneRefreshes, Refreshing
<1>5. CASE Invalidate(i)
  <2>1. /\ change[i] = "changed" /\ change' = [change EXCEPT ![i] = "forgotten"]
        /\ announced' = [done |-> installed, generation |-> announced.generation + 1]
        /\ cached' = NotCached /\ completed' = NotCompleted
        /\ UNCHANGED <<installed, disk, refresher, seeder>>
    BY <1>5 DEF Invalidate
  <2>2. Changed' = Changed /\ Told' = Told \union {i} /\ i \notin Told
    BY <1>1, <2>1 DEF Changed, Told
  <2>3. Cardinality(Told') = Cardinality(Told) + 1 /\ Told' \in SUBSET Installers
    BY <1>2, <1>3, <2>2, FS_AddElement
  <2>4. ChangesCount'
    BY <1>1, <2>1, <2>2, <2>3 DEF ChangesCount
  <2>5. announced' \in [done : Lists, generation : Lists]
    <3>1. announced.generation + 1 \in Lists
      BY <1>1, <1>2, <2>3 DEF ChangesCount
    <3> QED
      BY <1>1, <2>1, <3>1
  <2>6. /\ change' \in [Installers -> {"idle", "changed", "forgotten", "ended"}]
        /\ cached' \in [list : Lists, source : {"none", "guest", "disk"}, fresh : BOOLEAN]
        /\ completed' \in [answers : SUBSET Lists, waiting : SUBSET Refreshers]
        /\ Single(completed'.answers)
    BY <1>1, <2>1 DEF NotCached, NotCompleted, Single
  <2> QED
    BY <1>1, <2>1, <2>4, <2>5, <2>6
       DEF VersionTypeInv, VersionTypes, AnswersAreSingle, OneRefreshes, Refreshing
<1>6. CASE InvalidateDisk(i)
  <2>1. /\ change[i] = "forgotten" /\ change' = [change EXCEPT ![i] = "ended"] /\ disk' = {}
        /\ UNCHANGED <<installed, announced, cached, completed, refresher, seeder>>
    BY <1>6 DEF InvalidateDisk
  <2>2. Changed' = Changed /\ Told' = Told
    BY <1>1, <2>1 DEF Changed, Told
  <2>3. change' \in [Installers -> {"idle", "changed", "forgotten", "ended"}]
    BY <1>1, <2>1
  <2>4. Single(disk') /\ disk' \in SUBSET Lists
    BY <2>1 DEF Single
  <2> QED
    BY <1>1, <2>1, <2>2, <2>3, <2>4
       DEF VersionTypeInv, VersionTypes, ChangesCount, AnswersAreSingle, OneRefreshes, Refreshing
<1> QED
  BY <1>4, <1>5, <1>6 DEF InstallStep

LEMMA SeedTyped ==
  ASSUME IsFiniteSet(Installers), VersionTypeInv, NEW s \in Seeders, LoadDisk(s) \/ Seed(s)
  PROVE  VersionTypeInv'
<1>1. /\ VersionTypes /\ ChangesCount /\ AnswersAreSingle /\ OneRefreshes /\ 0 \in Lists
      /\ UNCHANGED <<installed, announced, change, completed, disk, refresher>>
  BY ListsKnown DEF VersionTypeInv, LoadDisk, Seed, changeVars
<1>2. seeder' \in [Seeders -> [at : {"idle", "loaded", "ended"}, lists : SUBSET Lists]]
  <2>1. PICK new \in [at : {"idle", "loaded", "ended"}, lists : SUBSET Lists] :
          seeder' = [seeder EXCEPT ![s] = new]
    <3>1. CASE LoadDisk(s)
      BY <1>1, <3>1 DEF LoadDisk, VersionTypes
    <3>2. CASE Seed(s)
      BY <3>2 DEF Seed
    <3> QED
      BY <3>1, <3>2
  <2> QED
    BY <1>1, <2>1 DEF VersionTypes
<1>3. cached' \in [list : Lists, source : {"none", "guest", "disk"}, fresh : BOOLEAN]
  <2>1. CASE cached' = cached
    BY <1>1, <2>1 DEF VersionTypes
  <2>2. CASE cached' = NotCached
    BY <1>1, <2>2 DEF NotCached
  <2>3. CASE Seed(s) /\ cached.source # "guest" /\ seeder[s].lists # {}
    <3> DEFINE n == CHOOSE n \in seeder[s].lists : TRUE
    <3>1. n \in seeder[s].lists /\ seeder[s].lists \in SUBSET Lists
      BY <1>1, <2>3 DEF VersionTypes
    <3>2. cached' = [list |-> n, source |-> "disk", fresh |-> TRUE]
      BY <2>3 DEF Seed
    <3> HIDE DEF n
    <3> QED
      BY <3>1, <3>2
  <2> QED
    BY <2>1, <2>2, <2>3 DEF LoadDisk, Seed
<1> QED
  BY <1>1, <1>2, <1>3
     DEF VersionTypeInv, VersionTypes, ChangesCount, Changed, Told, AnswersAreSingle, OneRefreshes, Refreshing

LEMMA VersionTypesStep ==
  ASSUME IsFiniteSet(Installers), VersionTypeInv, [VersionNext]_versionVars PROVE VersionTypeInv'
<1>1. CASE \E r \in Refreshers : RefreshStep(r)
  BY <1>1, RefreshTyped
<1>2. CASE \E i \in Installers : InstallStep(i)
  BY <1>2, InstallTyped
<1>3. CASE \E s \in Seeders : LoadDisk(s) \/ Seed(s)
  BY <1>3, SeedTyped
<1>4. CASE Expire
  <2>1. cached' \in [list : Lists, source : {"none", "guest", "disk"}, fresh : BOOLEAN]
    BY <1>4 DEF Expire, VersionTypeInv, VersionTypes
  <2> QED
    BY <1>4, <2>1 DEF Expire, changeVars, VersionTypeInv, VersionTypes, ChangesCount, Changed, Told,
         AnswersAreSingle, OneRefreshes, Refreshing
<1>5. CASE UNCHANGED versionVars
  BY <1>5 DEF versionVars, VersionTypeInv, VersionTypes, ChangesCount, Changed, Told, AnswersAreSingle,
       OneRefreshes, Refreshing
<1> QED
  BY <1>1, <1>2, <1>3, <1>4, <1>5 DEF VersionNext

\* With finitely many installations, lists and generations stay within their number, the cache on
\* disk holds one list at most, and one refresh at most asks the guest.
THEOREM VersionTypesHold == ASSUME IsFiniteSet(Installers) PROVE VersionSpec => []VersionTypeOK
<1>1. VersionTypeInv /\ [VersionNext]_versionVars => VersionTypeInv'
  BY VersionTypesStep
<1>2. VersionInit => VersionTypeInv
  BY VersionTypesStart
<1>3. VersionTypeInv => VersionTypeOK
  <2> SUFFICES ASSUME VersionTypeInv PROVE VersionTypeOK
    OBVIOUS
  <2>1. Cardinality(disk) <= 1
    <3>1. CASE disk = {}
      BY <3>1, FS_EmptySet
    <3>2. CASE disk # {}
      <4>1. PICK n : disk = {n}
        BY <3>2 DEF VersionTypeInv, AnswersAreSingle, Single
      <4>2. Cardinality({n}) = 1
        BY FS_Singleton
      <4> QED
        BY <4>1, <4>2
    <3> QED
      BY <3>1, <3>2
  <2> QED
    BY <2>1 DEF VersionTypeInv, VersionTypes, RefresherType, OneRefreshes, VersionTypeOK
<1> QED
  BY <1>1, <1>2, <1>3, PTL DEF VersionSpec

-----------------------------------------------------------------------------
(***************************************************************************)
(* The firmware variables, for any number of plans: a store that was taken *)
(* from the VM stays known.  That a new preview or a dropped plan loses    *)
(* nothing rests on what memory knows: a plan whose original is out of the *)
(* way is in replaced, from the rename until the original is back.         *)
(***************************************************************************)

\* A plan that was not made has retired nothing, and nobody has it.
PlansAreFresh ==
  /\ \A p \in PlanIds : p > previews => retired[p] = "none"
  /\ pending <= previews /\ recovery.plan <= previews

\* A plan in memory that has retired its original is one to roll back.
PendingIsDue ==
  pending # 0 => (retired[pending] # "none" => pending \in replaced)

\* The plan of a command is not in memory; up to the copy it has retired
\* nothing, from the copy on its backup holds, from the rename on it is due.
CommandHasPlan ==
  recovery.at # "idle" =>
    /\ pending = 0 /\ recovery.plan \in PlanIds
    /\ recovery.at \in {"begun", "copied"} => retired[recovery.plan] = "none"
    /\ recovery.at # "begun" => backup[recovery.plan] = "erased"
    /\ recovery.at \notin {"begun", "copied"} => recovery.plan \in replaced

RecoveryInv == UefiTypeOK /\ RetiredIsKnown /\ PlansAreFresh /\ PendingIsDue /\ CommandHasPlan

-----------------------------------------------------------------------------
\* The first state: an erased store and no plan.
LEMMA RecoveryInit == UefiInit => RecoveryInv
<1> SUFFICES ASSUME UefiInit PROVE RecoveryInv
  OBVIOUS
<1>1. recovery.at = "idle" /\ recovery.plan = 0
  BY DEF UefiInit, NoCommand
<1>2. UefiTypeOK
  <2>1. vmRuns \in BOOLEAN
    BY DEF UefiInit
  <2>2. recovery \in [plan : 0..MaxPlans, at : {"idle", "begun", "copied", "retired", "booting", "stopping",
                                                "restoring", "putAside"}]
    BY UefiAssumption DEF UefiInit, NoCommand
  <2>3. QED
    BY <2>1, <2>2, UefiAssumption DEF UefiInit, UefiTypeOK, PlanIds, Stores
<1>3. QED
  BY <1>1, <1>2, UefiAssumption DEF UefiInit, RecoveryInv, RetiredIsKnown, PlansAreFresh, PendingIsDue, CommandHasPlan

\* No step of the recovery, the VM or the end of the application loses a store.
LEMMA RecoveryStep == RecoveryInv /\ [UefiNext]_uefiVars => RecoveryInv'
<1> SUFFICES ASSUME RecoveryInv, [UefiNext]_uefiVars PROVE RecoveryInv'
  OBVIOUS
<1> USE UefiAssumption DEF RecoveryInv, UefiTypeOK, RetiredIsKnown, PlansAreFresh, PendingIsDue, CommandHasPlan,
     PlanIds, Stores, NoCommand, storeVars
<1>1. CASE PreviewUefi
  BY <1>1 DEF PreviewUefi
<1>2. CASE BeginRecover
  BY <1>2 DEF BeginRecover
<1>3. CASE BackUpStore
  <2>1. CASE recovery' = NoCommand /\ UNCHANGED backup
    BY <1>3, <2>1 DEF BackUpStore
  <2>2. CASE target = "erased" /\ backup' = [backup EXCEPT ![recovery.plan] = target] /\ UefiGoes("copied")
    <3>1. recovery'.plan = recovery.plan /\ recovery'.at = "copied"
      BY <2>2 DEF UefiGoes
    <3>2. QED
      BY <1>3, <2>2, <3>1 DEF BackUpStore, UefiGoes
  <2>3. QED
    BY <1>3, <2>1, <2>2 DEF BackUpStore
<1>4. CASE RetireStore
  <2>1. CASE recovery' = NoCommand /\ UNCHANGED <<target, retired, replaced>>
    BY <1>4, <2>1 DEF RetireStore
  <2>2. CASE /\ target # "none" /\ retired' = [retired EXCEPT ![recovery.plan] = target] /\ target' = "none"
             /\ replaced' = replaced \cup {recovery.plan} /\ UefiGoes("retired")
    <3>1. recovery'.plan = recovery.plan /\ recovery'.at = "retired" /\ recovery.at = "copied"
      BY <1>4, <2>2 DEF RetireStore, UefiGoes
    <3>2. UefiTypeOK'
      BY <1>4, <2>2, <3>1 DEF RetireStore, UefiGoes
    <3>3. RetiredIsKnown' /\ PlansAreFresh'
      BY <1>4, <2>2, <3>1 DEF RetireStore
    <3>4. PendingIsDue' /\ CommandHasPlan'
      BY <1>4, <2>2, <3>1 DEF RetireStore
    <3>5. QED
      BY <3>2, <3>3, <3>4
  <2>3. QED
    BY <1>4, <2>1, <2>2 DEF RetireStore
<1>5. CASE BootVm
  <2>1. /\ recovery.at = "retired" /\ target' \in Stores /\ vmRuns' \in BOOLEAN
        /\ UNCHANGED <<backup, retired, aside, pending, replaced, previews, succeeded, forgotten>>
    BY <1>5 DEF BootVm
  <2>2. PICK step \in {"booting", "stopping"} : recovery' = [recovery EXCEPT !.at = step]
    BY <1>5 DEF BootVm, UefiGoes
  <2>3. recovery' \in [plan : 0..MaxPlans, at : {"idle", "begun", "copied", "retired", "booting", "stopping",
                                                "restoring", "putAside"}]
        /\ recovery'.plan = recovery.plan /\ recovery'.at = step
    BY <2>2
  <2>4. QED
    BY <2>1, <2>3
<1>6. CASE BootEnds
  BY <1>6 DEF BootEnds, UefiGoes
<1>7. CASE StopForRollback
  <2>1. vmRuns' \in BOOLEAN
    BY <1>7 DEF StopForRollback
  <2>2. CASE UefiGoes("restoring") /\ UNCHANGED pending
    BY <1>7, <2>1, <2>2 DEF StopForRollback, UefiGoes
  <2>3. CASE KeepPlan
    BY <1>7, <2>1, <2>3 DEF StopForRollback, KeepPlan
  <2>4. QED
    BY <1>7, <2>2, <2>3 DEF StopForRollback
<1>8. CASE BeginRestore
  BY <1>8 DEF BeginRestore
<1>9. CASE PutAside
  <2>1. CASE KeepPlan /\ UNCHANGED <<target, aside>>
    BY <1>9, <2>1 DEF PutAside, KeepPlan
  <2>2. CASE UefiGoes("putAside") /\ UNCHANGED pending
    <3>1. recovery'.plan = recovery.plan /\ recovery'.at = "putAside"
      BY <2>2 DEF UefiGoes
    <3>2. /\ target' \in {target, "none"}
          /\ aside' \in {aside, [aside EXCEPT ![recovery.plan] = target]}
      BY <1>9, <2>2 DEF PutAside
    <3>4. target' \in Stores /\ aside' \in [PlanIds -> Stores]
      BY <3>2
    <3>3. QED
      BY <1>9, <2>2, <3>1, <3>4 DEF PutAside, UefiGoes
  <2>3. QED
    BY <1>9, <2>1, <2>2 DEF PutAside
<1>10. CASE RestoreStore
  <2>1. CASE KeepPlan /\ UNCHANGED <<target, retired, replaced>>
    BY <1>10, <2>1 DEF RestoreStore, KeepPlan
  <2>2. CASE /\ target = "none" /\ target' = retired[recovery.plan]
             /\ retired' = [retired EXCEPT ![recovery.plan] = "none"]
             /\ replaced' = replaced \ {recovery.plan} /\ recovery' = NoCommand /\ UNCHANGED pending
    <3>1. recovery'.at = "idle" /\ pending = 0 /\ pending' = 0 /\ recovery.plan \in PlanIds
      BY <1>10, <2>2 DEF RestoreStore
    <3>2. UefiTypeOK'
      BY <1>10, <2>2, <3>1 DEF RestoreStore
    <3>3. RetiredIsKnown'
      BY <1>10, <2>2, <3>1 DEF RestoreStore
    <3>4. PlansAreFresh'
      BY <1>10, <2>2, <3>1 DEF RestoreStore
    <3>5. QED
      BY <3>1, <3>2, <3>3, <3>4
  <2>3. QED
    BY <1>10, <2>1, <2>2 DEF RestoreStore
<1>11. CASE VmIsStarted
  BY <1>11 DEF VmIsStarted
<1>12. CASE VmIsStopped
  BY <1>12 DEF VmIsStopped
<1>13. CASE UefiKilled
  <2>1. recovery'.at = "idle" /\ recovery'.plan = 0 /\ pending' = 0
    BY <1>13 DEF UefiKilled
  <2>2. recovery' \in [plan : 0..MaxPlans, at : {"idle", "begun", "copied", "retired", "booting", "stopping",
                                                 "restoring", "putAside"}]
    BY <1>13 DEF UefiKilled
  <2>3. forgotten' \subseteq PlanIds
    <3>1. \A p \in {pending, recovery.plan} \ {0} : p \in PlanIds
      OBVIOUS
    <3>2. forgotten' = forgotten \cup ({pending, recovery.plan} \ {0})
      BY <1>13 DEF UefiKilled
    <3>3. QED
      BY <3>1, <3>2
  <2>4. UefiTypeOK'
    BY <1>13, <2>1, <2>2, <2>3 DEF UefiKilled
  <2>5. RetiredIsKnown'
    BY <1>13, <2>1 DEF UefiKilled
  <2>6. PlansAreFresh'
    BY <1>13, <2>1 DEF UefiKilled
  <2>7. QED
    BY <2>1, <2>4, <2>5, <2>6
<1>14. CASE UNCHANGED uefiVars
  BY <1>14 DEF uefiVars
<1>15. QED
  BY <1>1, <1>2, <1>3, <1>4, <1>5, <1>6, <1>7, <1>8, <1>9, <1>10, <1>11, <1>12, <1>13, <1>14
  DEF UefiNext, RecoverStep, RestoreStep

-----------------------------------------------------------------------------
Kept(names) == {p \in PlanIds : names[p] # "none"}

\* A name that is given to a store adds one, a name that is taken away removes one.
LEMMA NamesCount ==
  ASSUME NEW names \in [PlanIds -> Stores], NEW others \in [PlanIds -> Stores], NEW q \in PlanIds,
         \A p \in PlanIds \ {q} : others[p] = names[p]
  PROVE  /\ Cardinality(Kept(names)) \in Nat /\ Cardinality(Kept(others)) \in Nat
         /\ Cardinality(Kept(others)) + (IF names[q] = "none" THEN 0 ELSE 1)
              = Cardinality(Kept(names)) + (IF others[q] = "none" THEN 0 ELSE 1)
<1> DEFINE rest == {p \in PlanIds \ {q} : names[p] # "none"}
<1>1. IsFiniteSet(rest)
  <2>1. IsFiniteSet(PlanIds)
    BY FS_Interval, UefiAssumption DEF PlanIds
  <2>2. QED
    BY <2>1, FS_Subset
<1>2. q \notin rest /\ Cardinality(rest) \in Nat
  BY <1>1, FS_CardinalityType
<1>3. Kept(names) = (IF names[q] = "none" THEN rest ELSE rest \cup {q})
  BY DEF Kept
<1>4. Kept(others) = (IF others[q] = "none" THEN rest ELSE rest \cup {q})
  BY DEF Kept
<1>5. Cardinality(rest \cup {q}) = Cardinality(rest) + 1
  BY <1>1, <1>2, FS_AddElement
<1> HIDE DEF rest
<1>6. QED
  BY <1>2, <1>3, <1>4, <1>5

\* The stores by their names.
LEMMA CountByName ==
  ASSUME UefiTypeOK
  PROVE  /\ StoreCount = Cardinality(Kept(backup)) + Cardinality(Kept(retired)) + Cardinality(Kept(aside))
                         + (IF target = "none" THEN 0 ELSE 1)
         /\ Cardinality(Kept(backup)) \in Nat /\ Cardinality(Kept(retired)) \in Nat
         /\ Cardinality(Kept(aside)) \in Nat
<1>1. IsFiniteSet(PlanIds)
  BY FS_Interval, UefiAssumption DEF PlanIds
<1>2. IsFiniteSet(Kept(backup)) /\ IsFiniteSet(Kept(retired)) /\ IsFiniteSet(Kept(aside))
  BY <1>1, FS_Subset DEF Kept
<1>3. QED
  BY <1>2, FS_CardinalityType DEF StoreCount, Kept

\* A rename moves a store to a name that is free, a boot fills what was empty.
LEMMA StoresStay == RecoveryInv /\ RecoveryInv' /\ [UefiNext]_uefiVars => StoreCount' >= StoreCount
<1> SUFFICES ASSUME RecoveryInv, RecoveryInv', [UefiNext]_uefiVars PROVE StoreCount' >= StoreCount
  OBVIOUS
<1> DEFINE Count(b, r, a, t) == Cardinality(Kept(b)) + Cardinality(Kept(r)) + Cardinality(Kept(a))
                                + (IF t = "none" THEN 0 ELSE 1)
<1>1. /\ StoreCount = Count(backup, retired, aside, target)
      /\ Cardinality(Kept(backup)) \in Nat /\ Cardinality(Kept(retired)) \in Nat
      /\ Cardinality(Kept(aside)) \in Nat
  BY CountByName DEF RecoveryInv
<1>2. StoreCount' = Count(backup', retired', aside', target')
  BY DEF StoreCount, Kept
<1>3. CASE UNCHANGED <<backup, retired, aside>> /\ (target # "none" => target' # "none")
  BY <1>1, <1>2, <1>3
<1>4. CASE BackUpStore
  <2>1. CASE UNCHANGED backup
    BY <1>3, <1>4, <2>1 DEF BackUpStore
  <2>2. CASE target = "erased" /\ backup' = [backup EXCEPT ![recovery.plan] = target]
    <3>1. recovery.plan \in PlanIds /\ UNCHANGED <<retired, aside, target>>
      BY <1>4 DEF BackUpStore, RecoveryInv, CommandHasPlan
    <3>2. Cardinality(Kept(backup')) \in Nat /\ Cardinality(Kept(backup')) >= Cardinality(Kept(backup))
      <4>1. backup \in [PlanIds -> Stores] /\ backup' \in [PlanIds -> Stores]
        BY DEF RecoveryInv, UefiTypeOK
      <4>2. \A p \in PlanIds \ {recovery.plan} : backup'[p] = backup[p]
        BY <2>2, <4>1
      <4>3. backup'[recovery.plan] # "none"
        BY <2>2, <3>1, <4>1
      <4>4. QED
        BY <3>1, <4>1, <4>2, <4>3, NamesCount
    <3>3. QED
      BY <1>1, <1>2, <3>1, <3>2
  <2>3. QED
    BY <1>4, <2>1, <2>2 DEF BackUpStore
<1>5. CASE RetireStore
  <2>1. CASE UNCHANGED <<target, retired>>
    BY <1>3, <1>5, <2>1 DEF RetireStore
  <2>2. CASE target # "none" /\ retired' = [retired EXCEPT ![recovery.plan] = target] /\ target' = "none"
    <3>1. recovery.plan \in PlanIds /\ retired[recovery.plan] = "none" /\ UNCHANGED <<backup, aside>>
      BY <1>5 DEF RetireStore, RecoveryInv, CommandHasPlan
    <3>2. Cardinality(Kept(retired')) = Cardinality(Kept(retired)) + 1
      <4>1. retired \in [PlanIds -> Stores] /\ retired' \in [PlanIds -> Stores]
        BY DEF RecoveryInv, UefiTypeOK
      <4>2. \A p \in PlanIds \ {recovery.plan} : retired'[p] = retired[p]
        BY <2>2, <4>1
      <4>3. retired[recovery.plan] = "none" /\ retired'[recovery.plan] # "none"
        BY <2>2, <3>1, <4>1
      <4>4. QED
        BY <3>1, <4>1, <4>2, <4>3, NamesCount
    <3>3. QED
      BY <1>1, <1>2, <2>2, <3>1, <3>2
  <2>3. QED
    BY <1>5, <2>1, <2>2 DEF RetireStore
<1>6. CASE PutAside
  <2>1. CASE UNCHANGED <<target, aside>>
    BY <1>3, <1>6, <2>1 DEF PutAside
  <2>2. CASE /\ target # "none" /\ aside[recovery.plan] = "none"
             /\ aside' = [aside EXCEPT ![recovery.plan] = target] /\ target' = "none"
    <3>1. recovery.plan \in PlanIds /\ UNCHANGED <<backup, retired>>
      BY <1>6 DEF PutAside, RecoveryInv, CommandHasPlan
    <3>2. Cardinality(Kept(aside')) = Cardinality(Kept(aside)) + 1
      <4>1. aside \in [PlanIds -> Stores] /\ aside' \in [PlanIds -> Stores]
        BY DEF RecoveryInv, UefiTypeOK
      <4>2. \A p \in PlanIds \ {recovery.plan} : aside'[p] = aside[p]
        BY <2>2, <4>1
      <4>3. aside[recovery.plan] = "none" /\ aside'[recovery.plan] # "none"
        BY <2>2, <3>1, <4>1
      <4>4. QED
        BY <3>1, <4>1, <4>2, <4>3, NamesCount
    <3>3. QED
      BY <1>1, <1>2, <2>2, <3>1, <3>2
  <2>3. QED
    BY <1>6, <2>1, <2>2 DEF PutAside
<1>7. CASE RestoreStore
  <2>1. CASE UNCHANGED <<target, retired>>
    BY <1>3, <1>7, <2>1 DEF RestoreStore
  <2>2. CASE /\ target = "none" /\ target' = retired[recovery.plan]
             /\ retired' = [retired EXCEPT ![recovery.plan] = "none"]
    <3>1. recovery.plan \in PlanIds /\ UNCHANGED <<backup, aside>>
      BY <1>7 DEF RestoreStore, RecoveryInv, CommandHasPlan
    <3>2. /\ Cardinality(Kept(retired')) \in Nat
          /\ Cardinality(Kept(retired)) = Cardinality(Kept(retired')) + (IF retired[recovery.plan] = "none" THEN 0 ELSE 1)
      <4>1. retired \in [PlanIds -> Stores] /\ retired' \in [PlanIds -> Stores]
        BY DEF RecoveryInv, UefiTypeOK
      <4>2. \A p \in PlanIds \ {recovery.plan} : retired'[p] = retired[p]
        BY <2>2, <4>1
      <4>3. retired'[recovery.plan] = "none"
        BY <2>2, <3>1, <4>1
      <4>4. QED
        BY <3>1, <4>1, <4>2, <4>3, NamesCount
    <3>3. QED
      BY <1>1, <1>2, <2>2, <3>1, <3>2
  <2>3. QED
    BY <1>7, <2>1, <2>2 DEF RestoreStore
<1>8. CASE VmIsStarted
  BY <1>3, <1>8 DEF VmIsStarted
<1>9. CASE BootVm
  BY <1>3, <1>9 DEF BootVm
<1>10. CASE PreviewUefi \/ BeginRecover \/ BootEnds \/ StopForRollback \/ BeginRestore \/ VmIsStopped \/ UefiKilled
            \/ UNCHANGED uefiVars
  BY <1>3, <1>10 DEF PreviewUefi, BeginRecover, BootEnds, StopForRollback, BeginRestore, VmIsStopped,
     UefiKilled, uefiVars, storeVars
<1>11. QED
  BY <1>4, <1>5, <1>6, <1>7, <1>8, <1>9, <1>10 DEF UefiNext, RecoverStep, RestoreStep

-----------------------------------------------------------------------------
\* The recovery's state has its types.
THEOREM RecoveryTypes == UefiSpec => []UefiTypeOK
  BY RecoveryInit, RecoveryStep, PTL DEF UefiSpec, RecoveryInv

\* Whatever the user previews, recovers, restores and boots, however often the
\* application is killed: an original that is out of the way is one of a
\* recovery that succeeded or of a plan at work, in memory or lost with memory.
THEOREM StoresStayKnown == UefiSpec => []RetiredIsKnown
  BY RecoveryInit, RecoveryStep, PTL DEF UefiSpec, RecoveryInv

\* No step removes or overwrites a store: the renames go to names that are
\* free, because a plan retires an original only once.
THEOREM NoStoreIsLost == UefiSpec => StoresAreKept
  BY RecoveryInit, RecoveryStep, StoresStay, PTL DEF UefiSpec, StoresAreKept

(***************************************************************************)
(* The history of operations, for any number of processes, tasks and       *)
(* records, when no two processes use it at the same time.  First what is  *)
(* left of a file of which some records are kept, then what a task and the *)
(* file say of each other.                                                 *)
(***************************************************************************)

\* The number of elements of k up to i, in the terms of Only.
UpTo(k, i) == {j \in k : j <= i}

\* A set of numbers has a least one.
LEMMA LeastOf ==
  ASSUME NEW T, T \subseteq Nat, T # {}
  PROVE  \E i \in T : \A j \in T : i <= j
<1> DEFINE R == {p \in Nat \X Nat : p[1] < p[2]}
<1>1. IsWellFoundedOn(R, Nat)
  BY NatLessThanWellFounded DEF OpToRel
<1> HIDE DEF R
<1>2. PICK i \in T : \A j \in T : <<j, i>> \notin R
  BY <1>1, WFMin
<1>3. ASSUME NEW j \in T PROVE i <= j
  <2>1. ~ j < i
    BY <1>2 DEF R
  <2> QED
    BY <2>1
<1> QED
  BY <1>3

\* The numbers in k are counted one by one.
LEMMA Counted ==
  ASSUME NEW m \in Nat, NEW k, k \subseteq 1..m
  PROVE  /\ IsFiniteSet(k) /\ Cardinality(k) \in 0..m
         /\ \A i \in k : Cardinality(UpTo(k, i)) \in 1..Cardinality(k)
         /\ \A i, j \in k : Cardinality(UpTo(k, i)) = Cardinality(UpTo(k, j)) => i = j
         /\ \A n \in 1..Cardinality(k) : \E i \in k : Cardinality(UpTo(k, i)) = n
<1>0. \A j \in k : j \in Nat /\ 1 <= j /\ j <= m
  OBVIOUS
<1>1. IsFiniteSet(1..m) /\ Cardinality(1..m) = m
  BY FS_Interval
<1>2. IsFiniteSet(k) /\ Cardinality(k) \in Nat /\ Cardinality(k) <= m
  BY <1>1, FS_Subset, FS_CardinalityType
<1>3. \A i \in Nat : IsFiniteSet(UpTo(k, i)) /\ Cardinality(UpTo(k, i)) \in 0..Cardinality(k)
  <2> TAKE i \in Nat
  <2>1. UpTo(k, i) \subseteq k
    BY DEF UpTo
  <2> QED
    BY <1>2, <2>1, FS_Subset, FS_CardinalityType
<1>4. ASSUME NEW i \in k PROVE
        /\ i \in Nat /\ i - 1 \in Nat
        /\ Cardinality(UpTo(k, i)) = Cardinality(UpTo(k, i - 1)) + 1
  <2>1. i \in 1..m /\ i - 1 \in Nat
    OBVIOUS
  <2>2. \A j \in k : j <= i <=> (j <= i - 1 \/ j = i)
    BY <1>0, <2>1
  <2>3. UpTo(k, i) = UpTo(k, i - 1) \union {i}
    BY <2>2 DEF UpTo
  <2>4. i \notin UpTo(k, i - 1)
    BY <2>1 DEF UpTo
  <2> QED
    <3>1. IsFiniteSet(UpTo(k, i - 1))
      BY <1>3, <2>1
    <3>2. Cardinality(UpTo(k, i - 1) \union {i}) = Cardinality(UpTo(k, i - 1)) + 1
      BY <2>4, <3>1, FS_AddElement
    <3> QED
      BY <2>1, <2>3, <3>2
<1>5. ASSUME NEW i \in 1..m, i \notin k
      PROVE  UpTo(k, i) = UpTo(k, i - 1)
  <2>1. \A j \in k : j <= i <=> j <= i - 1
    BY <1>0, <1>5
  <2> QED
    BY <2>1 DEF UpTo
<1>6. UpTo(k, 0) = {} /\ UpTo(k, m) = k /\ Cardinality(UpTo(k, 0)) = 0
  <2>1. \A j \in k : ~(j <= 0) /\ j <= m
    BY <1>0
  <2>2. UpTo(k, 0) = {}
    BY <2>1 DEF UpTo
  <2>3. UpTo(k, m) = k
    BY <2>1 DEF UpTo
  <2> QED
    BY <2>2, <2>3, FS_EmptySet
<1>7. ASSUME NEW i \in k PROVE Cardinality(UpTo(k, i)) \in 1..Cardinality(k)
  BY <1>2, <1>3, <1>4
<1>8. ASSUME NEW i \in k, NEW j \in k, i < j
      PROVE  Cardinality(UpTo(k, i)) < Cardinality(UpTo(k, j))
  <2>1. UpTo(k, i) \subseteq UpTo(k, j - 1) /\ j - 1 \in Nat /\ i \in Nat
    <3>1. \A l \in k : l <= i => l <= j - 1
      BY <1>0, <1>8
    <3>2. UpTo(k, i) \subseteq UpTo(k, j - 1)
      BY <3>1 DEF UpTo
    <3> QED
      BY <1>0, <3>2
  <2>2. Cardinality(UpTo(k, i)) <= Cardinality(UpTo(k, j - 1))
    BY <1>3, <2>1, FS_Subset
  <2> QED
    BY <1>2, <1>3, <1>4, <2>1, <2>2
<1>9. ASSUME NEW i \in k, NEW j \in k, Cardinality(UpTo(k, i)) = Cardinality(UpTo(k, j))
      PROVE  i = j
  <2>1. i \in Nat /\ j \in Nat
    BY <1>4
  <2>2. Cardinality(UpTo(k, i)) \in Nat /\ Cardinality(UpTo(k, j)) \in Nat
    BY <1>2, <1>3, <2>1
  <2> QED
    BY <1>8, <1>9, <2>1, <2>2
<1>10. ASSUME NEW n \in 1..Cardinality(k)
       PROVE  \E i \in k : Cardinality(UpTo(k, i)) = n
  <2> DEFINE T == {i \in 1..m : n <= Cardinality(UpTo(k, i))}
  <2>1. m \in T
    BY <1>2, <1>6, <1>10
  <2>2. PICK i \in T : \A j \in T : i <= j
    <3>1. T \subseteq Nat /\ T # {}
      BY <2>1
    <3> HIDE DEF T
    <3> QED
      BY <3>1, LeastOf
  <2>3. i \in 1..m /\ i - 1 \in Nat /\ n <= Cardinality(UpTo(k, i))
    OBVIOUS
  <2>4. Cardinality(UpTo(k, i - 1)) < n
    <3>1. Cardinality(UpTo(k, i - 1)) \in Nat
      BY <1>2, <1>3, <2>3
    <3>2. CASE i - 1 = 0
      BY <1>6, <3>2
    <3>3. CASE i - 1 # 0
      <4>1. i - 1 \notin T /\ i - 1 \in 1..m
        BY <2>2, <2>3, <3>3
      <4> QED
        BY <3>1, <4>1
    <3> QED
      BY <3>2, <3>3
  <2>5. i \in k
    BY <1>2, <1>3, <1>5, <2>3, <2>4
  <2> QED
    BY <1>2, <1>3, <1>4, <2>3, <2>4, <2>5
<1> QED
  BY <1>2, <1>7, <1>9, <1>10

\* The records of a file.
Recs(file) == {file[i] : i \in DOMAIN file}

\* What is kept of a list is a list of it, with everything that was to be kept.
LEMMA KeptOnly ==
  ASSUME NEW S, NEW file \in Seq(S), NEW k, k \subseteq DOMAIN file
  PROVE  /\ Only(file, k) \in Seq(S) /\ Len(Only(file, k)) = Cardinality(k)
         /\ Cardinality(k) <= Len(file)
         /\ Recs(Only(file, k)) = {file[i] : i \in k}
<1>1. Len(file) \in Nat /\ DOMAIN file = 1..Len(file) /\ \A i \in DOMAIN file : file[i] \in S
  OBVIOUS
<1> DEFINE c == Cardinality(k)
           at(n) == CHOOSE i \in k : Cardinality(UpTo(k, i)) = n
<1>2. /\ c \in Nat /\ c <= Len(file)
      /\ \A i \in k : Cardinality(UpTo(k, i)) \in 1..c
      /\ \A i, j \in k : Cardinality(UpTo(k, i)) = Cardinality(UpTo(k, j)) => i = j
      /\ \A n \in 1..c : \E i \in k : Cardinality(UpTo(k, i)) = n
  BY <1>1, Counted
<1>3. \A n \in 1..c : at(n) \in k /\ Cardinality(UpTo(k, at(n))) = n
  BY <1>2
<1>4. Only(file, k) = [n \in 1..c |-> file[at(n)]]
  BY DEF Only, UpTo
<1> HIDE DEF at, c
<1>5. Only(file, k) \in [1..c -> S]
  BY <1>1, <1>3, <1>4
<1>6. Only(file, k) \in Seq(S) /\ Len(Only(file, k)) = c
  BY <1>2, <1>5
<1>7. \A n \in 1..c : Only(file, k)[n] = file[at(n)]
  BY <1>4
<1>8. Recs(Only(file, k)) \subseteq {file[i] : i \in k}
  BY <1>3, <1>5, <1>7 DEF Recs
<1>9. ASSUME NEW i \in k PROVE file[i] \in Recs(Only(file, k))
  <2> DEFINE n == Cardinality(UpTo(k, i))
  <2>1. n \in 1..c
    BY <1>2
  <2>2. at(n) = i
    BY <1>2, <1>3, <2>1
  <2> QED
    BY <1>5, <1>7, <2>1, <2>2 DEF Recs
<1> QED
  BY <1>2, <1>6, <1>8, <1>9 DEF c

-----------------------------------------------------------------------------
(* The history, for processes that do not use it at the same time. *)

Inside == {"beginning", "finishing", "undoing"}
Past == {"releasing", "undoing", "ended"}
TaskRecords ==
  [at : {"idle", "beginning", "live", "finishing", "releasing", "chosen", "undoing", "ended"},
   proc : Procs \union {None}, kind : Kinds \union {None}, retries : Tasks \union {None}]

HistoryTypes ==
  /\ history \in Seq(RecordSet) /\ Len(history) <= MaxRecords
  /\ store \in [Procs -> [task : Tasks \union {None}, file : Seq(RecordSet)]]
  /\ active \in [Procs -> SUBSET Tasks]
  /\ task \in [Tasks -> TaskRecords]

\* What step and kind of a task go together.
StepsFit ==
  \A t \in Tasks :
    /\ task[t].at # "idle" => task[t].proc \in Procs
    /\ task[t].at = "live" => task[t].kind \in OperationKinds \union {"session"}
    /\ task[t].at \in {"finishing", "releasing", "chosen"} => task[t].kind \in OperationKinds
    /\ task[t].at = "undoing" => task[t].kind = "launch"

OneIsBusy == \A p, q \in Procs : Busy(p) /\ Busy(q) => p = q

\* A transaction works on the file as it is, and its task is in it.
Transactions ==
  /\ \A p \in Procs : store[p].task # None =>
       /\ store[p].file = history
       /\ task[store[p].task].at \in Inside /\ task[store[p].task].proc = p
  /\ \A t \in Tasks : task[t].at \in Inside => store[task[t].proc].task = t

\* A process knows what it runs.
ActiveIsRun ==
  \A p \in Procs : active[p] = {t \in Tasks : task[t].proc = p
                                             /\ task[t].at \in {"live", "finishing", "releasing"}}

\* Who has a record has begun an operation; one that is recorded as over is over.
RecordsFit ==
  \A r \in Recs(history) :
    /\ task[r.id].at \in {"live", "finishing"} \union Past
    /\ task[r.id].kind \in OperationKinds \union {None}
    /\ Terminal(r) => task[r.id].at \in Past

RunIsRecorded ==
  \A t \in Tasks : Running(t) /\ task[t].kind \in OperationKinds =>
    [id |-> t, kind |-> task[t].kind, state |-> "running"] \in Recs(history)

RetriesArePast ==
  \A t \in Tasks : task[t].retries # None => task[task[t].retries].at \in Past

HistoryInv ==
  /\ HistoryTypes /\ StepsFit /\ OneIsBusy /\ Transactions /\ ActiveIsRun
  /\ RecordsFit /\ RunIsRecorded /\ RetriesArePast /\ MutationAlone

-----------------------------------------------------------------------------
(* What the transactions do to the file. *)

LEMMA Trimmed ==
  ASSUME NEW file \in Seq(RecordSet)
  PROVE  /\ Trim(file) \in Seq(RecordSet) /\ Len(Trim(file)) <= Len(file)
         /\ Recs(Trim(file)) \subseteq Recs(file)
         /\ \A r \in Recs(file) : ~Terminal(r) => r \in Recs(Trim(file))
<1> DEFINE ended(i) == {j \in 1..i : Terminal(file[j])}
           goes == {i \in DOMAIN file :
                      Terminal(file[i]) /\ Cardinality(ended(i)) <= Len(file) - MaxRecords}
           k == DOMAIN file \ goes
<1>1. Trim(file) = Only(file, k)
  BY DEF Trim
<1>2. \A i \in DOMAIN file : ~Terminal(file[i]) => i \in k
  OBVIOUS
<1>3. k \subseteq DOMAIN file
  OBVIOUS
<1> HIDE DEF k
<1>4. /\ Only(file, k) \in Seq(RecordSet) /\ Len(Only(file, k)) = Cardinality(k)
      /\ Cardinality(k) <= Len(file) /\ Recs(Only(file, k)) = {file[i] : i \in k}
  BY <1>3, KeptOnly
<1>5. Recs(Only(file, k)) \subseteq Recs(file)
  BY <1>3, <1>4 DEF Recs
<1>6. \A r \in Recs(file) : ~Terminal(r) => r \in Recs(Only(file, k))
  BY <1>2, <1>4 DEF Recs
<1> QED
  BY <1>1, <1>4, <1>5, <1>6

LEMMA Reconciled ==
  ASSUME NEW file \in Seq(RecordSet), NEW p
  PROVE  /\ Reconcile(p, file) \in Seq(RecordSet) /\ Len(Reconcile(p, file)) = Len(file)
         /\ \A r \in Recs(Reconcile(p, file)) : \E o \in Recs(file) :
              o.id = r.id /\ (Terminal(r) => Terminal(o) \/ r.id \notin active[p])
         /\ \A o \in Recs(file) : ~Terminal(o) /\ o.id \in active[p] => o \in Recs(Reconcile(p, file))
<1> DEFINE g == Reconcile(p, file)
<1>1. /\ Len(file) \in Nat /\ DOMAIN file = 1..Len(file) /\ \A i \in 1..Len(file) : file[i] \in RecordSet
  OBVIOUS
<1>2. /\ g = [i \in 1..Len(file) |-> g[i]]
      /\ \A i \in 1..Len(file) :
           g[i] = IF file[i].state = "running" /\ file[i].id \notin active[p]
                    THEN [file[i] EXCEPT !.state = "interrupted"] ELSE file[i]
  BY <1>1 DEF Reconcile
<1> HIDE DEF g
<1>3. \A i \in 1..Len(file) : g[i] \in RecordSet
  BY <1>1, <1>2 DEF RecordSet
<1>4. g \in Seq(RecordSet) /\ Len(g) = Len(file) /\ DOMAIN g = 1..Len(file)
  BY <1>1, <1>2, <1>3
<1>5. ASSUME NEW r \in Recs(g)
      PROVE  \E o \in Recs(file) : o.id = r.id /\ (Terminal(r) => Terminal(o) \/ r.id \notin active[p])
  <2>1. PICK i \in 1..Len(file) : r = g[i]
    BY <1>4 DEF Recs
  <2>2. file[i] \in Recs(file) /\ file[i] \in RecordSet
    BY <1>1 DEF Recs
  <2> QED
    BY <1>2, <2>1, <2>2 DEF Terminal, RecordSet
<1>6. ASSUME NEW o \in Recs(file), ~Terminal(o), o.id \in active[p] PROVE o \in Recs(g)
  <2>1. PICK i \in 1..Len(file) : o = file[i]
    BY <1>1 DEF Recs
  <2>2. g[i] = o
    BY <1>2, <1>6, <2>1
  <2> QED
    BY <1>4, <2>2 DEF Recs
<1> QED
  BY <1>4, <1>5, <1>6 DEF g

LEMMA StateSet ==
  ASSUME NEW file \in Seq(RecordSet), NEW t \in Tasks,
         NEW state \in {"succeeded", "failed", "interrupted"}
  PROVE  /\ WithState(file, t, state) \in Seq(RecordSet) /\ Len(WithState(file, t, state)) = Len(file)
         /\ \A r \in Recs(WithState(file, t, state)) :
              (\E o \in Recs(file) : o.id = r.id) /\ (r.id # t => r \in Recs(file))
         /\ \A o \in Recs(file) : o.id # t => o \in Recs(WithState(file, t, state))
<1> DEFINE g == WithState(file, t, state)
<1>1. /\ Len(file) \in Nat /\ DOMAIN file = 1..Len(file) /\ \A i \in 1..Len(file) : file[i] \in RecordSet
  OBVIOUS
<1>2. /\ g = [i \in 1..Len(file) |-> g[i]]
      /\ \A i \in 1..Len(file) :
           g[i] = IF file[i].id = t THEN [file[i] EXCEPT !.state = state] ELSE file[i]
  BY <1>1 DEF WithState
<1> HIDE DEF g
<1>3. \A i \in 1..Len(file) : g[i] \in RecordSet /\ g[i].id = file[i].id
  BY <1>1, <1>2 DEF RecordSet
<1>4. g \in Seq(RecordSet) /\ Len(g) = Len(file) /\ DOMAIN g = 1..Len(file)
  BY <1>1, <1>2, <1>3
<1>5. ASSUME NEW r \in Recs(g)
      PROVE  (\E o \in Recs(file) : o.id = r.id) /\ (r.id # t => r \in Recs(file))
  <2>1. PICK i \in 1..Len(file) : r = g[i]
    BY <1>4 DEF Recs
  <2>2. file[i] \in Recs(file)
    BY <1>1 DEF Recs
  <2> QED
    BY <1>2, <1>3, <2>1, <2>2
<1>6. ASSUME NEW o \in Recs(file), o.id # t PROVE o \in Recs(g)
  <2>1. PICK i \in 1..Len(file) : o = file[i]
    BY <1>1 DEF Recs
  <2>2. g[i] = o
    BY <1>2, <1>6, <2>1
  <2> QED
    BY <1>4, <2>2 DEF Recs
<1> QED
  BY <1>4, <1>5, <1>6 DEF g

\* A new record at the end.
LEMMA Appended ==
  ASSUME NEW file \in Seq(RecordSet), NEW r \in RecordSet
  PROVE  /\ Append(file, r) \in Seq(RecordSet)
         /\ Recs(Append(file, r)) = Recs(file) \union {r}
<1>1. /\ Len(file) \in Nat /\ Append(file, r) \in Seq(RecordSet)
      /\ DOMAIN file = 1..Len(file) /\ DOMAIN Append(file, r) = 1..(Len(file) + 1)
      /\ \A i \in 1..Len(file) : Append(file, r)[i] = file[i]
      /\ Append(file, r)[Len(file) + 1] = r
  OBVIOUS
<1>2. 1..(Len(file) + 1) = 1..Len(file) \union {Len(file) + 1}
  BY <1>1
<1> QED
  BY <1>1, <1>2 DEF Recs

-----------------------------------------------------------------------------
(* A step of a task. *)

LEMMA HistoryStart == HistoryInit => HistoryInv
<1> SUFFICES ASSUME HistoryInit PROVE HistoryInv
  OBVIOUS
<1> USE DEF HistoryInit
<1>1. history \in Seq(RecordSet) /\ Len(history) <= MaxRecords /\ Recs(history) = {}
  BY HistoryAssumption DEF Recs
<1>2. store \in [Procs -> [task : Tasks \union {None}, file : Seq(RecordSet)]]
  BY DEF NoStore
<1>3. /\ active \in [Procs -> SUBSET Tasks] /\ task \in [Tasks -> TaskRecords]
      /\ \A t \in Tasks : task[t].at = "idle" /\ task[t].retries = None
  BY DEF TaskRecords
<1>4. HistoryTypes
  BY <1>1, <1>2, <1>3 DEF HistoryTypes
<1>5. StepsFit /\ OneIsBusy /\ RetriesArePast
  BY <1>3 DEF StepsFit, OneIsBusy, Busy, RetriesArePast
<1>6. Transactions /\ ActiveIsRun
  BY <1>3 DEF Transactions, Inside, ActiveIsRun, NoStore
<1>7. RecordsFit /\ RunIsRecorded /\ MutationAlone
  BY <1>1, <1>3 DEF RecordsFit, RunIsRecorded, Running, MutationAlone
<1> QED
  BY <1>4, <1>5, <1>6, <1>7 DEF HistoryInv

\* A task that is somewhere is in a process, and no other one is busy.
LEMMA OthersAreIdle ==
  ASSUME HistoryInv, NEW t \in Tasks, task[t].at \notin {"idle", "ended"}
  PROVE  task[t].proc \in Procs /\ \A q \in Procs \ {task[t].proc} : ~Busy(q)
  BY DEF HistoryInv, StepsFit, OneIsBusy, Busy

\* Task t of process p, which is then e, in what it leaves in file, store and active set.
Fits(t, p, e) ==
  /\ e \in TaskRecords /\ e.proc = p /\ p \in Procs
  /\ task[t].proc = p \/ task[t].at = "idle"
  /\ \A q \in Procs \ {p} : ~Busy(q)
  /\ e.at # "idle" /\ (task[t].at \in Past => e.at \in Past)
  /\ e.at = "live" => e.kind \in OperationKinds \union {"session"}
  /\ e.at \in {"finishing", "releasing", "chosen"} => e.kind \in OperationKinds
  /\ e.at = "undoing" => e.kind = "launch"
  /\ \/ e.retries = task[t].retries
     \/ e.retries \in Tasks /\ task[e.retries].at \in Past

\* The transaction of p is begun, ended, or not touched.
StoreFits(t, p, e) ==
  \/ /\ store' = [store EXCEPT ![p] = [task |-> t, file |-> history]] /\ store[p].task = None
     /\ e.at \in Inside /\ history' = history
  \/ /\ store' = [store EXCEPT ![p] = NoStore] /\ store[p].task \in {t, None}
     /\ e.at \notin Inside
  \/ /\ store' = store /\ e.at \notin Inside /\ task[t].at \notin Inside /\ history' = history

ActiveFits(t, p, e) ==
  active' = [active EXCEPT ![p] = IF e.at \in {"live", "finishing", "releasing"}
                                  THEN active[p] \union {t} ELSE active[p] \ {t}]

\* The records that are saved: of t what fits, of others what was there, and all that run.
FileFits(t, p, e) ==
  /\ history' \in Seq(RecordSet) /\ Len(history') <= MaxRecords
  /\ \A r \in Recs(history') :
       IF r.id = t THEN /\ e.at \in {"live", "finishing"} \union Past
                        /\ e.kind \in OperationKinds \union {None}
                        /\ Terminal(r) => e.at \in Past
       ELSE \E o \in Recs(history) :
              o.id = r.id /\ (Terminal(r) => Terminal(o) \/ r.id \notin active[p])
  /\ \A o \in Recs(history) :
       ~Terminal(o) /\ o.id # t /\ o.id \in active[p] => o \in Recs(history')
  /\ e.at \in {"live", "finishing"} /\ e.kind \in OperationKinds =>
       [id |-> t, kind |-> e.kind, state |-> "running"] \in Recs(history')

RunsAlone(t, e) ==
  e.at \in {"live", "finishing"} =>
    \/ Running(t) /\ e.kind = task[t].kind
    \/ \A s \in Tasks \ {t} : Running(s) => ~IsMutation(task[s].kind) /\ ~IsMutation(e.kind)

LEMMA TaskStepKeeps ==
  ASSUME HistoryInv, NEW t \in Tasks, NEW p, NEW e,
         task' = [task EXCEPT ![t] = e], Fits(t, p, e), StoreFits(t, p, e),
         ActiveFits(t, p, e), FileFits(t, p, e), RunsAlone(t, e)
  PROVE  HistoryInv'
<1>1. /\ HistoryTypes /\ StepsFit /\ OneIsBusy /\ Transactions /\ ActiveIsRun
      /\ RecordsFit /\ RunIsRecorded /\ RetriesArePast /\ MutationAlone
  BY DEF HistoryInv
<1>2. /\ store \in [Procs -> [task : Tasks \union {None}, file : Seq(RecordSet)]]
      /\ active \in [Procs -> SUBSET Tasks] /\ task \in [Tasks -> TaskRecords]
      /\ history \in Seq(RecordSet) /\ None \notin Tasks /\ None \notin Procs
  BY <1>1, HistoryAssumption DEF HistoryTypes
<1>3. e \in TaskRecords /\ e.proc = p /\ p \in Procs /\ e.at # "idle"
      /\ (task[t].proc = p \/ task[t].at = "idle")
  BY DEF Fits
<1>4. task' \in [Tasks -> TaskRecords] /\ \A s \in Tasks : task'[s] = IF s = t THEN e ELSE task[s]
  BY <1>2, <1>3
<1>5. \A s \in Tasks : task[s].at \notin {"idle", "ended"} => task[s].proc = p
  BY <1>1, <1>3 DEF Fits, Busy, StepsFit
<1>6. HistoryTypes'
  <2>1. store' \in [Procs -> [task : Tasks \union {None}, file : Seq(RecordSet)]]
    <3>1. NoStore \in [task : Tasks \union {None}, file : Seq(RecordSet)]
      BY DEF NoStore
    <3>2. [task |-> t, file |-> history] \in [task : Tasks \union {None}, file : Seq(RecordSet)]
      BY <1>2
    <3> QED
      BY <1>2, <1>3, <3>1, <3>2 DEF StoreFits
  <2>2. active' \in [Procs -> SUBSET Tasks]
    BY <1>2, <1>3 DEF ActiveFits
  <2> QED
    BY <1>4, <2>1, <2>2 DEF HistoryTypes, FileFits
<1>7. StepsFit'
  BY <1>1, <1>3, <1>4 DEF StepsFit, Fits
<1>8. OneIsBusy'
  BY <1>3, <1>4, <1>5 DEF OneIsBusy, Busy
<1>9. Transactions'
  <2>1. \A q \in Procs \ {p} : store[q].task = None
    BY <1>1, <1>2, <1>5 DEF Transactions, Inside
  <2>2. \A s \in Tasks \ {t} : task[s].at \in Inside => store[p].task = s
    BY <1>1, <1>5 DEF Transactions, Inside
  <2>3. \A q \in Procs \ {p} : store'[q].task = None
    BY <1>2, <1>3, <2>1 DEF StoreFits
  <2>4. CASE /\ store' = [store EXCEPT ![p] = [task |-> t, file |-> history]] /\ store[p].task = None
             /\ e.at \in Inside /\ history' = history
    <3>1. store'[p] = [task |-> t, file |-> history']
      BY <1>2, <1>3, <2>4
    <3>2. \A s \in Tasks \ {t} : task[s].at \notin Inside
      BY <1>2, <2>2, <2>4
    <3> QED
      BY <1>3, <1>4, <2>3, <2>4, <3>1, <3>2 DEF Transactions
  <2>5. CASE /\ store' = [store EXCEPT ![p] = NoStore] /\ store[p].task \in {t, None}
             /\ e.at \notin Inside
    <3>1. store'[p].task = None
      BY <1>2, <1>3, <2>5 DEF NoStore
    <3>2. \A s \in Tasks \ {t} : task[s].at \notin Inside
      BY <1>2, <2>2, <2>5
    <3> QED
      BY <1>3, <1>4, <2>3, <2>5, <3>1, <3>2 DEF Transactions
  <2>6. CASE store' = store /\ e.at \notin Inside /\ task[t].at \notin Inside /\ history' = history
    <3>1. \A q \in Procs : store[q].task # None => store[q].task \in Tasks \ {t}
      BY <1>1, <1>2, <2>6 DEF Transactions
    <3> QED
      BY <1>1, <1>4, <2>6, <3>1 DEF Transactions
  <2> QED
    BY <2>4, <2>5, <2>6 DEF StoreFits
<1>10. ActiveIsRun'
  <2>1. \A q \in Procs : active'[q] = IF q # p THEN active[q]
          ELSE IF e.at \in {"live", "finishing", "releasing"} THEN active[p] \union {t} ELSE active[p] \ {t}
    BY <1>2, <1>3 DEF ActiveFits
  <2>2. \A q \in Procs \ {p} : t \notin active[q]
    BY <1>1, <1>3 DEF ActiveIsRun
  <2>3. ASSUME NEW q \in Procs, NEW s \in Tasks
        PROVE  s \in active'[q] <=> task'[s].proc = q /\ task'[s].at \in {"live", "finishing", "releasing"}
    <3>1. s \in active[q] <=> task[s].proc = q /\ task[s].at \in {"live", "finishing", "releasing"}
      BY <1>1 DEF ActiveIsRun
    <3>2. CASE s = t
      BY <1>3, <1>4, <2>1, <2>2, <3>2
    <3>3. CASE s # t
      BY <1>4, <2>1, <3>1, <3>3
    <3> QED
      BY <3>2, <3>3
  <2>4. \A q \in Procs : active'[q] \subseteq Tasks
    BY <1>6 DEF HistoryTypes
  <2> QED
    BY <2>3, <2>4 DEF ActiveIsRun
<1>11. \A s \in Tasks : task[s].at \in {"live", "finishing", "releasing"} => s \in active[p]
  BY <1>1, <1>3, <1>5 DEF ActiveIsRun
<1>12. RecordsFit'
  <2> SUFFICES ASSUME NEW r \in Recs(history')
               PROVE  /\ task'[r.id].at \in {"live", "finishing"} \union Past
                      /\ task'[r.id].kind \in OperationKinds \union {None}
                      /\ Terminal(r) => task'[r.id].at \in Past
    BY DEF RecordsFit
  <2>1. r \in RecordSet /\ r.id \in Tasks
    <3>1. history' \in Seq(RecordSet)
      BY DEF FileFits
    <3>2. \A i \in DOMAIN history' : history'[i] \in RecordSet
      BY <3>1
    <3>3. r \in RecordSet
      BY <3>2 DEF Recs
    <3> QED
      BY <3>3 DEF RecordSet
  <2>2. CASE r.id = t
    BY <1>4, <2>1, <2>2 DEF FileFits
  <2>3. CASE r.id # t
    <3>1. PICK o \in Recs(history) :
             o.id = r.id /\ (Terminal(r) => Terminal(o) \/ r.id \notin active[p])
      BY <2>3 DEF FileFits
    <3>2. /\ task[o.id].at \in {"live", "finishing"} \union Past
          /\ task[o.id].kind \in OperationKinds \union {None}
          /\ Terminal(o) => task[o.id].at \in Past
      BY <1>1, <3>1 DEF RecordsFit
    <3> QED
      BY <1>4, <1>11, <2>1, <2>3, <3>1, <3>2
  <2> QED
    BY <2>2, <2>3
<1>13. RunIsRecorded'
  <2> SUFFICES ASSUME NEW s \in Tasks, Running(s)', task'[s].kind \in OperationKinds
               PROVE  [id |-> s, kind |-> task'[s].kind, state |-> "running"] \in Recs(history')
    BY DEF RunIsRecorded
  <2>1. CASE s = t
    BY <1>4, <2>1 DEF Running, FileFits
  <2>2. CASE s # t
    <3> DEFINE o == [id |-> s, kind |-> task[s].kind, state |-> "running"]
    <3>1. o \in Recs(history) /\ s \in active[p]
      BY <1>1, <1>4, <1>11, <2>2 DEF Running, RunIsRecorded
    <3>2. o.id = s /\ ~Terminal(o)
      BY DEF Terminal
    <3> HIDE DEF o
    <3>3. o \in Recs(history')
      BY <2>2, <3>1, <3>2 DEF FileFits
    <3> QED
      BY <1>4, <2>2, <3>3 DEF o
  <2> QED
    BY <2>1, <2>2
<1>14. RetriesArePast'
  <2>1. \A s \in Tasks : task[s].at \in Past => task'[s].at \in Past
    BY <1>4 DEF Fits
  <2>2. \A s \in Tasks : task'[s].retries \in Tasks \union {None}
    BY <1>4 DEF TaskRecords
  <2> QED
    BY <1>1, <1>4, <2>1, <2>2 DEF RetriesArePast, Fits
<1>15. MutationAlone'
  <2> SUFFICES ASSUME NEW s \in Tasks, NEW u \in Tasks, Running(s)', Running(u)', s # u
               PROVE  ~IsMutation(task'[s].kind)
    BY DEF MutationAlone
  <2>1. CASE s # t /\ u # t
    BY <1>1, <1>4, <2>1 DEF MutationAlone, Running
  <2>2. CASE s = t
    BY <1>1, <1>4, <2>2 DEF MutationAlone, Running, RunsAlone
  <2>3. CASE u = t
    BY <1>1, <1>4, <2>3 DEF MutationAlone, Running, RunsAlone
  <2> QED
    BY <2>1, <2>2, <2>3
<1> QED
  BY <1>6, <1>7, <1>8, <1>9, <1>10, <1>12, <1>13, <1>14, <1>15 DEF HistoryInv

\* A task in a transaction has the file of its process.
LEMMA InTransaction ==
  ASSUME HistoryInv, NEW t \in Tasks, task[t].at \in Inside
  PROVE  /\ task[t].proc \in Procs /\ \A q \in Procs \ {task[t].proc} : ~Busy(q)
         /\ store[task[t].proc].task = t /\ store[task[t].proc].file = history
         /\ task[t] \in TaskRecords /\ active \in [Procs -> SUBSET Tasks]
         /\ history \in Seq(RecordSet) /\ Len(history) <= MaxRecords
<1>1. task[t].proc \in Procs /\ \A q \in Procs \ {task[t].proc} : ~Busy(q)
  BY OthersAreIdle DEF Inside
<1>2. store[task[t].proc].task = t /\ None \notin Tasks
  BY HistoryAssumption DEF HistoryInv, Transactions
<1>3. store[task[t].proc].file = history
  BY <1>1, <1>2 DEF HistoryInv, Transactions
<1> QED
  BY <1>1, <1>2, <1>3 DEF HistoryInv, HistoryTypes

\* A step of t that leaves the file alone, and has no record that does not fit.
LEMMA FileStays ==
  ASSUME HistoryInv, NEW t \in Tasks, NEW p, NEW e, history' = history,
         \A r \in Recs(history) : r.id = t =>
           /\ e.at \in {"live", "finishing"} \union Past /\ e.kind \in OperationKinds \union {None}
           /\ Terminal(r) => e.at \in Past,
         e.at \in {"live", "finishing"} /\ e.kind \in OperationKinds =>
           [id |-> t, kind |-> e.kind, state |-> "running"] \in Recs(history)
  PROVE  FileFits(t, p, e)
<1>1. history \in Seq(RecordSet) /\ Len(history) <= MaxRecords
  BY DEF HistoryInv, HistoryTypes
<1>2. \A r \in Recs(history) : \E o \in Recs(history) :
        o.id = r.id /\ (Terminal(r) => Terminal(o) \/ r.id \notin active[p])
  OBVIOUS
<1> QED
  BY <1>1, <1>2 DEF FileFits

LEMMA NothingBegins ==
  ASSUME HistoryInv, NEW t \in Tasks,
         task[t].at \in {"idle", "chosen", "beginning"}
         \/ task[t].kind \in {"session", "list", "clear", "retry"}
  PROVE  \A r \in Recs(history) : r.id # t
  BY DEF HistoryInv, RecordsFit, Past, OperationKinds, None

LEMMA BeginKeeps == ASSUME ~Concurrent, HistoryInv, NEW t \in Tasks, Begin(t) PROVE HistoryInv'
<1>1. PICK p \in Procs, k \in Kinds :
        /\ task[t].at = "idle" \/ (task[t].at = "chosen" /\ p = task[t].proc /\ k = task[t].kind)
        /\ OpenStore(t, p)
        /\ task' = [task EXCEPT ![t].at = "beginning", ![t].proc = p, ![t].kind = k]
  BY DEF Begin
<1> DEFINE e == [task[t] EXCEPT !.at = "beginning", !.proc = p, !.kind = k]
<1>2. /\ task[t] \in TaskRecords /\ history' = history /\ active' = active
      /\ active \in [Procs -> SUBSET Tasks] /\ task \in [Tasks -> TaskRecords]
  BY DEF HistoryInv, HistoryTypes, Begin
<1>3. /\ e \in TaskRecords /\ e.at = "beginning" /\ e.proc = p /\ e.retries = task[t].retries
      /\ task' = [task EXCEPT ![t] = e]
  BY <1>1, <1>2 DEF TaskRecords
<1> HIDE DEF e
<1>4. /\ store[p].task = None /\ store' = [store EXCEPT ![p] = [task |-> t, file |-> history]]
      /\ \A q \in Procs \ {p} : ~Busy(q)
  BY <1>1 DEF OpenStore
<1>5. Fits(t, p, e)
  BY <1>1, <1>3, <1>4 DEF Fits, Past
<1>6. StoreFits(t, p, e)
  BY <1>2, <1>3, <1>4 DEF StoreFits, Inside
<1>7. t \notin active[p]
  BY <1>1 DEF HistoryInv, ActiveIsRun
<1>8. ActiveFits(t, p, e)
  <2>1. active[p] \ {t} = active[p]
    BY <1>7
  <2> QED
    BY <1>2, <1>3, <2>1 DEF ActiveFits
<1>9. FileFits(t, p, e)
  <2>1. \A r \in Recs(history) : r.id # t
    BY <1>1, NothingBegins
  <2> QED
    BY <1>2, <1>3, <2>1, FileStays
<1>10. RunsAlone(t, e)
  BY <1>3 DEF RunsAlone
<1> QED
  BY <1>3, <1>5, <1>6, <1>8, <1>9, <1>10, TaskStepKeeps

\* What a task that begins saves: nothing new, the reconciled list, or what has not ended of it.
LEMMA LoadedKeeps ==
  ASSUME HistoryInv, NEW t \in Tasks, task[t].at = "beginning",
         \/ history' = history
         \/ history' = Trim(Loaded(t))
         \/ history' = Only(Loaded(t), {i \in DOMAIN Loaded(t) : ~Terminal(Loaded(t)[i])})
  PROVE  /\ history' \in Seq(RecordSet) /\ Len(history') <= MaxRecords
         /\ \A r \in Recs(history') : r.id # t /\ \E o \in Recs(history) :
              o.id = r.id /\ (Terminal(r) => Terminal(o) \/ r.id \notin active[task[t].proc])
         /\ \A o \in Recs(history) :
              ~Terminal(o) /\ o.id \in active[task[t].proc] => o \in Recs(history')
<1> DEFINE p == task[t].proc
           f == Loaded(t)
           k == {i \in DOMAIN f : ~Terminal(f[i])}
<1>1. history \in Seq(RecordSet) /\ Len(history) <= MaxRecords /\ f = Reconcile(p, history)
  BY InTransaction DEF Inside, Loaded
<1>2. \A r \in Recs(history) : r.id # t
  BY NothingBegins
<1>3. /\ f \in Seq(RecordSet) /\ Len(f) = Len(history)
      /\ \A r \in Recs(f) : \E o \in Recs(history) :
           o.id = r.id /\ (Terminal(r) => Terminal(o) \/ r.id \notin active[p])
      /\ \A o \in Recs(history) : ~Terminal(o) /\ o.id \in active[p] => o \in Recs(f)
  BY <1>1, Reconciled
<1> HIDE DEF f, p
<1>4. CASE history' = history
  BY <1>1, <1>2, <1>4 DEF p
<1>5. ASSUME NEW g, history' = g, g \in Seq(RecordSet), Len(g) <= Len(f), Recs(g) \subseteq Recs(f),
             \A r \in Recs(f) : ~Terminal(r) => r \in Recs(g)
      PROVE  /\ history' \in Seq(RecordSet) /\ Len(history') <= MaxRecords
             /\ \A r \in Recs(history') : r.id # t /\ \E o \in Recs(history) :
                  o.id = r.id /\ (Terminal(r) => Terminal(o) \/ r.id \notin active[p])
             /\ \A o \in Recs(history) : ~Terminal(o) /\ o.id \in active[p] => o \in Recs(history')
  <2>1. Len(g) \in Nat /\ Len(f) \in Nat
    BY <1>3, <1>5
  <2>2. Len(g) <= MaxRecords
    BY <1>1, <1>3, <1>5, <2>1, HistoryAssumption
  <2> QED
    BY <1>2, <1>3, <1>5, <2>2
<1>6. CASE history' = Trim(f)
  <2>1. /\ Trim(f) \in Seq(RecordSet) /\ Len(Trim(f)) <= Len(f)
        /\ Recs(Trim(f)) \subseteq Recs(f)
        /\ \A r \in Recs(f) : ~Terminal(r) => r \in Recs(Trim(f))
    BY <1>3, Trimmed
  <2> QED
    BY <1>5, <1>6, <2>1 DEF p
<1>7. CASE history' = Only(f, k)
  <2>1. k \subseteq DOMAIN f
    OBVIOUS
  <2>2. \A i \in DOMAIN f : ~Terminal(f[i]) => i \in k
    OBVIOUS
  <2> HIDE DEF k
  <2>3. /\ Only(f, k) \in Seq(RecordSet) /\ Len(Only(f, k)) = Cardinality(k)
        /\ Cardinality(k) <= Len(f) /\ Recs(Only(f, k)) = {f[i] : i \in k}
    BY <1>3, <2>1, KeptOnly
  <2>4. Recs(Only(f, k)) \subseteq Recs(f) /\ \A r \in Recs(f) : ~Terminal(r) => r \in Recs(Only(f, k))
    BY <2>1, <2>2, <2>3 DEF Recs
  <2> QED
    BY <1>5, <1>7, <2>3, <2>4 DEF p
<1> QED
  BY <1>4, <1>6, <1>7 DEF f, k

\* A command of the history, or a refused one, ends or chooses what to retry.
LEMMA CommandKeeps ==
  ASSUME HistoryInv, NEW t \in Tasks, task[t].at = "beginning", NEW e,
         task' = [task EXCEPT ![t] = e], e \in TaskRecords, e.proc = task[t].proc,
         \/ e.at = "ended"
         \/ e.at = "chosen" /\ e.kind \in OperationKinds
         \/ e.at = "live" /\ e.kind = "session" /\ \A s \in Tasks : Running(s) => ~IsMutation(task[s].kind),
         e.retries = task[t].retries \/ (e.retries \in Tasks /\ task[e.retries].at \in Past),
         CloseStore(task[t].proc),
         active' = IF e.at = "live" THEN [active EXCEPT ![task[t].proc] = @ \union {t}] ELSE active,
         \/ history' = history
         \/ history' = Trim(Loaded(t))
         \/ history' = Only(Loaded(t), {i \in DOMAIN Loaded(t) : ~Terminal(Loaded(t)[i])})
  PROVE  HistoryInv'
<1> DEFINE p == task[t].proc
<1>1. /\ p \in Procs /\ \A q \in Procs \ {p} : ~Busy(q)
      /\ store[p].task = t /\ active \in [Procs -> SUBSET Tasks]
  BY InTransaction DEF Inside
<1>2. /\ history' \in Seq(RecordSet) /\ Len(history') <= MaxRecords
      /\ \A r \in Recs(history') : r.id # t /\ \E o \in Recs(history) :
           o.id = r.id /\ (Terminal(r) => Terminal(o) \/ r.id \notin active[p])
      /\ \A o \in Recs(history) : ~Terminal(o) /\ o.id \in active[p] => o \in Recs(history')
  BY LoadedKeeps
<1>3. t \notin active[p]
  BY <1>1 DEF HistoryInv, ActiveIsRun
<1>4. Fits(t, p, e)
  BY <1>1 DEF Fits, Past
<1>5. StoreFits(t, p, e)
  BY <1>1 DEF StoreFits, CloseStore, Inside
<1>6. ActiveFits(t, p, e)
  <2>1. active[p] \ {t} = active[p] /\ active = [active EXCEPT ![p] = active[p]]
    BY <1>1, <1>3
  <2> QED
    BY <1>1, <2>1 DEF ActiveFits
<1>7. FileFits(t, p, e)
  BY <1>2 DEF FileFits, OperationKinds
<1>8. RunsAlone(t, e)
  BY DEF RunsAlone, IsMutation
<1> QED
  BY <1>4, <1>5, <1>6, <1>7, <1>8, TaskStepKeeps

LEMMA EndsHere ==
  ASSUME HistoryInv, NEW t \in Tasks, SetTask(t, "ended"), task[t].at = "beginning",
         CloseStore(task[t].proc), active' = active,
         \/ history' = history
         \/ history' = Trim(Loaded(t))
         \/ history' = Only(Loaded(t), {i \in DOMAIN Loaded(t) : ~Terminal(Loaded(t)[i])})
  PROVE  HistoryInv'
<1> DEFINE e == [task[t] EXCEPT !.at = "ended"]
<1>1. task[t] \in TaskRecords /\ task \in [Tasks -> TaskRecords]
  BY DEF HistoryInv, HistoryTypes
<1>2. /\ e \in TaskRecords /\ e.at = "ended" /\ e.proc = task[t].proc /\ e.retries = task[t].retries
      /\ task' = [task EXCEPT ![t] = e]
  BY <1>1 DEF TaskRecords, SetTask
<1> HIDE DEF e
<1> QED
  BY <1>2, CommandKeeps

LEMMA ListKeeps == ASSUME HistoryInv, NEW t \in Tasks, List(t) PROVE HistoryInv'
  BY EndsHere DEF List, BeginWith, Saves

LEMMA ClearKeeps == ASSUME HistoryInv, NEW t \in Tasks, ClearCompleted(t) PROVE HistoryInv'
  BY EndsHere DEF ClearCompleted, BeginWith, Saves

\* What is retried has ended, and stays so.
LEMMA RetryKeeps == ASSUME HistoryInv, NEW t \in Tasks, RetrySource(t) PROVE HistoryInv'
<1> DEFINE f == Loaded(t)
<1>1. /\ task[t].at = "beginning" /\ CloseStore(task[t].proc) /\ active' = active
      /\ history' = history \/ history' = Trim(f)
      /\ \/ SetTask(t, "ended")
         \/ \E i \in DOMAIN f :
              /\ f[i].state \in {"failed", "interrupted"}
              /\ task' = [task EXCEPT ![t].at = "chosen", ![t].kind = f[i].kind, ![t].retries = f[i].id]
  BY DEF RetrySource, BeginWith, Saves
<1>2. CASE SetTask(t, "ended")
  BY <1>1, <1>2, EndsHere
<1>3. ASSUME NEW i \in DOMAIN f, f[i].state \in {"failed", "interrupted"},
             task' = [task EXCEPT ![t].at = "chosen", ![t].kind = f[i].kind, ![t].retries = f[i].id]
      PROVE  HistoryInv'
  <2> DEFINE e == [task[t] EXCEPT !.at = "chosen", !.kind = f[i].kind, !.retries = f[i].id]
  <2>1. /\ task[t] \in TaskRecords /\ task \in [Tasks -> TaskRecords] /\ history \in Seq(RecordSet)
        /\ f = Reconcile(task[t].proc, history) /\ task[t].proc \in Procs
    BY <1>1, InTransaction DEF HistoryInv, HistoryTypes, Inside, Loaded
  <2>2. /\ f \in Seq(RecordSet)
        /\ \A r \in Recs(f) : \E o \in Recs(history) :
             o.id = r.id /\ (Terminal(r) => Terminal(o) \/ r.id \notin active[task[t].proc])
    BY <2>1, Reconciled
  <2> HIDE DEF f
  <2>3. f[i] \in Recs(f) /\ f[i] \in RecordSet /\ Terminal(f[i])
    BY <1>3, <2>2 DEF Recs, Terminal
  <2>4. PICK o \in Recs(history) :
          o.id = f[i].id /\ (Terminal(o) \/ f[i].id \notin active[task[t].proc])
    BY <2>2, <2>3
  <2>5. f[i].id \in Tasks /\ f[i].kind \in OperationKinds
    BY <2>3 DEF RecordSet
  <2>6. task[f[i].id].at \in Past
    <3>1. task[o.id].at \in {"live", "finishing"} \union Past /\ (Terminal(o) => task[o.id].at \in Past)
      BY DEF HistoryInv, RecordsFit
    <3>2. ASSUME task[f[i].id].at \in {"live", "finishing"} PROVE f[i].id \in active[task[t].proc]
      <4>1. task[f[i].id].proc = task[t].proc
        BY <1>1, <2>1, <2>5, <3>2 DEF HistoryInv, OneIsBusy, Busy, StepsFit
      <4> QED
        BY <2>1, <2>5, <3>2, <4>1 DEF HistoryInv, ActiveIsRun
    <3> QED
      BY <2>4, <3>1, <3>2
  <2>7. /\ e \in TaskRecords /\ e.at = "chosen" /\ e.kind = f[i].kind /\ e.retries = f[i].id
        /\ e.proc = task[t].proc /\ task' = [task EXCEPT ![t] = e]
    BY <1>3, <2>1, <2>5 DEF TaskRecords, Kinds
  <2> HIDE DEF e
  <2> QED
    BY <1>1, <2>5, <2>6, <2>7, CommandKeeps DEF f
<1> QED
  BY <1>1, <1>2, <1>3

\* Who starts next to operations that run finds them in the file.
LEMMA RunsAreLoaded ==
  ASSUME HistoryInv, NEW t \in Tasks, task[t].at = "beginning", NEW s \in Tasks, Running(s)
  PROVE  /\ s \in active[task[t].proc]
         /\ task[s].kind \in OperationKinds =>
              \E i \in DOMAIN Loaded(t) :
                Loaded(t)[i].state = "running" /\ Loaded(t)[i].kind = task[s].kind
<1> DEFINE p == task[t].proc
           f == Loaded(t)
<1>1. history \in Seq(RecordSet) /\ f = Reconcile(p, history) /\ p \in Procs
  BY InTransaction DEF Inside, Loaded
<1>2. s \in active[p]
  <2>1. task[s].proc = p
    BY <1>1 DEF HistoryInv, OneIsBusy, Busy, StepsFit, Running
  <2> QED
    BY <1>1, <2>1 DEF HistoryInv, ActiveIsRun, Running
<1> HIDE DEF f, p
<1>3. ASSUME task[s].kind \in OperationKinds
      PROVE  \E i \in DOMAIN f : f[i].state = "running" /\ f[i].kind = task[s].kind
  <2> DEFINE o == [id |-> s, kind |-> task[s].kind, state |-> "running"]
  <2>1. o \in Recs(history)
    BY <1>3 DEF HistoryInv, RunIsRecorded
  <2>2. o \in Recs(f)
    BY <1>1, <1>2, <2>1, Reconciled DEF Terminal
  <2> QED
    BY <2>2 DEF Recs
<1> QED
  BY <1>2, <1>3 DEF f, p

\* A new record is the only one of its task, and all that runs stays recorded.
LEMMA StartKeeps ==
  ASSUME HistoryInv, NEW t \in Tasks, task[t].at = "beginning", NEW kind \in OperationKinds,
         task[t].kind = kind, CloseStore(task[t].proc), StartRecordOf(t, kind),
         \A s \in Tasks : Running(s) => ~IsMutation(task[s].kind) /\ ~IsMutation(kind)
  PROVE  HistoryInv'
<1> DEFINE p == task[t].proc
           f == Loaded(t)
           n == [id |-> t, kind |-> kind, state |-> "running"]
           e == [task[t] EXCEPT !.at = "live"]
<1>1. /\ p \in Procs /\ \A q \in Procs \ {p} : ~Busy(q)
      /\ store[p].task = t /\ active \in [Procs -> SUBSET Tasks]
      /\ history \in Seq(RecordSet) /\ f = Reconcile(p, history)
      /\ task[t] \in TaskRecords /\ task \in [Tasks -> TaskRecords]
  BY InTransaction DEF Inside, Loaded, HistoryInv, HistoryTypes
<1>2. /\ history' = Trim(Append(f, n)) /\ Len(Trim(Append(f, n))) <= MaxRecords
      /\ active' = [active EXCEPT ![p] = @ \union {t}] /\ SetTask(t, "live")
  BY DEF StartRecordOf, Saves
<1>3. /\ e \in TaskRecords /\ e.at = "live" /\ e.kind = kind /\ e.proc = p
      /\ e.retries = task[t].retries /\ task' = [task EXCEPT ![t] = e]
  BY <1>1, <1>2 DEF TaskRecords, SetTask
<1>4. n \in RecordSet /\ ~Terminal(n) /\ n.id = t
  BY DEF RecordSet, Terminal
<1> HIDE DEF n, e, f
<1>5. /\ f \in Seq(RecordSet)
      /\ \A r \in Recs(f) : \E o \in Recs(history) :
           o.id = r.id /\ (Terminal(r) => Terminal(o) \/ r.id \notin active[p])
      /\ \A o \in Recs(history) : ~Terminal(o) /\ o.id \in active[p] => o \in Recs(f)
  BY <1>1, Reconciled
<1>6. Append(f, n) \in Seq(RecordSet) /\ Recs(Append(f, n)) = Recs(f) \union {n}
  BY <1>4, <1>5, Appended
<1>7. /\ history' \in Seq(RecordSet) /\ Recs(history') \subseteq Recs(f) \union {n}
      /\ \A r \in Recs(f) \union {n} : ~Terminal(r) => r \in Recs(history')
  BY <1>2, <1>6, Trimmed
<1>8. \A r \in Recs(history) : r.id # t
  BY NothingBegins
<1>9. FileFits(t, p, e)
  <2>1. \A r \in Recs(f) : r.id # t
    BY <1>5, <1>8
  <2>2. \A r \in Recs(history') : IF r.id = t THEN r = n ELSE r \in Recs(f)
    BY <1>4, <1>7, <2>1
  <2>3. [id |-> t, kind |-> e.kind, state |-> "running"] \in Recs(history')
    BY <1>3, <1>4, <1>7 DEF n
  <2>4. \A o \in Recs(history) : ~Terminal(o) /\ o.id \in active[p] => o \in Recs(history')
    BY <1>5, <1>7
  <2>5. Len(history') <= MaxRecords
    BY <1>2
  <2> QED
    BY <1>3, <1>4, <1>5, <1>7, <2>2, <2>3, <2>4, <2>5 DEF FileFits
<1>10. Fits(t, p, e)
  BY <1>1, <1>3 DEF Fits, Past
<1>11. StoreFits(t, p, e)
  BY <1>1, <1>3 DEF StoreFits, CloseStore, Inside
<1>12. ActiveFits(t, p, e)
  BY <1>2, <1>3 DEF ActiveFits
<1>13. RunsAlone(t, e)
  BY <1>3 DEF RunsAlone
<1> QED
  BY <1>3, <1>9, <1>10, <1>11, <1>12, <1>13, TaskStepKeeps

LEMMA OperationBegins == ASSUME HistoryInv, NEW t \in Tasks, BeginOperation(t) PROVE HistoryInv'
<1>1. PICK kind \in OperationKinds :
        /\ BeginWith(t, kind)
        /\ \/ SetTask(t, "ended") /\ UNCHANGED <<history, active>>
           \/ /\ ~OperationConflicts(t, kind) /\ ~(IsMutation(kind) /\ SessionActive(t))
              /\ StartRecordOf(t, kind)
  BY DEF BeginOperation
<1>2. task[t].at = "beginning" /\ task[t].kind = kind /\ CloseStore(task[t].proc)
  BY <1>1 DEF BeginWith
<1>3. CASE SetTask(t, "ended") /\ UNCHANGED <<history, active>>
  BY <1>2, <1>3, EndsHere
<1>4. CASE /\ ~OperationConflicts(t, kind) /\ ~(IsMutation(kind) /\ SessionActive(t))
           /\ StartRecordOf(t, kind)
  <2>1. ASSUME NEW s \in Tasks, Running(s)
        PROVE  ~IsMutation(task[s].kind) /\ ~IsMutation(kind)
    <3>1. /\ s \in active[task[t].proc]
          /\ task[s].kind \in OperationKinds =>
               \E i \in DOMAIN Loaded(t) :
                 Loaded(t)[i].state = "running" /\ Loaded(t)[i].kind = task[s].kind
      BY <1>2, <2>1, RunsAreLoaded
    <3>2. task[s].kind \in OperationKinds \union {"session"}
      BY <2>1 DEF HistoryInv, StepsFit, Running
    <3>3. CASE task[s].kind \in OperationKinds
      BY <1>4, <3>1, <3>3 DEF OperationConflicts, Conflict
    <3>4. CASE task[s].kind = "session"
      BY <1>4, <3>1, <3>4 DEF SessionActive, IsMutation
    <3> QED
      BY <3>2, <3>3, <3>4
  <2> QED
    BY <1>2, <1>4, <2>1, StartKeeps
<1> QED
  BY <1>1, <1>3, <1>4

LEMMA SessionBegins == ASSUME HistoryInv, NEW t \in Tasks, BeginSession(t) PROVE HistoryInv'
<1> DEFINE p == task[t].proc
           f == Loaded(t)
           refused == \/ \E i \in DOMAIN f : f[i].state = "running" /\ IsMutation(f[i].kind)
                      \/ SessionActive(t)
           e == [task[t] EXCEPT !.at = "live"]
<1>1. task[t].at = "beginning" /\ task[t].kind = "session" /\ CloseStore(p)
  BY DEF BeginSession, BeginWith
<1>2. \/ SetTask(t, "ended") /\ history' = history /\ active' = active
      \/ /\ history' = history \/ history' = Trim(f)
         /\ \/ SetTask(t, "ended") /\ active' = active
            \/ ~refused /\ active' = [active EXCEPT ![p] = @ \union {t}] /\ SetTask(t, "live")
  BY DEF BeginSession, Saves
<1>3. CASE SetTask(t, "ended") /\ active' = active /\ (history' = history \/ history' = Trim(f))
  BY <1>1, <1>3, EndsHere
<1>4. CASE /\ ~refused /\ active' = [active EXCEPT ![p] = @ \union {t}] /\ SetTask(t, "live")
           /\ history' = history \/ history' = Trim(f)
  <2>1. /\ e \in TaskRecords /\ e.at = "live" /\ e.kind = "session" /\ e.proc = p
        /\ e.retries = task[t].retries /\ task' = [task EXCEPT ![t] = e]
    BY <1>1, <1>4 DEF TaskRecords, SetTask, HistoryInv, HistoryTypes
  <2>2. ASSUME NEW s \in Tasks, Running(s) PROVE ~IsMutation(task[s].kind)
    <3>1. task[s].kind \in OperationKinds =>
            \E i \in DOMAIN f : f[i].state = "running" /\ f[i].kind = task[s].kind
      BY <1>1, <2>2, RunsAreLoaded
    <3>2. task[s].kind \in OperationKinds \union {"session"}
      BY <2>2 DEF HistoryInv, StepsFit, Running
    <3> QED
      BY <1>4, <3>1, <3>2 DEF IsMutation
  <2> HIDE DEF e
  <2> QED
    BY <1>1, <1>4, <2>1, <2>2, CommandKeeps
<1> QED
  BY <1>2, <1>3, <1>4

LEMMA FinishOpens == ASSUME ~Concurrent, HistoryInv, NEW t \in Tasks, OpenFinish(t) PROVE HistoryInv'
<1> DEFINE p == task[t].proc
           e == [task[t] EXCEPT !.at = "finishing"]
<1>1. /\ task[t].at = "live" /\ task[t].kind \in OperationKinds
      /\ store[p].task = None /\ store' = [store EXCEPT ![p] = [task |-> t, file |-> history]]
      /\ history' = history /\ active' = active /\ SetTask(t, "finishing")
  BY DEF OpenFinish, OpenStore
<1>2. p \in Procs /\ \A q \in Procs \ {p} : ~Busy(q)
  BY <1>1, OthersAreIdle
<1>3. /\ e \in TaskRecords /\ e.at = "finishing" /\ e.kind = task[t].kind /\ e.proc = p
      /\ e.retries = task[t].retries /\ task' = [task EXCEPT ![t] = e]
      /\ active \in [Procs -> SUBSET Tasks]
  BY <1>1 DEF TaskRecords, SetTask, HistoryInv, HistoryTypes
<1> HIDE DEF e
<1>4. Fits(t, p, e)
  BY <1>1, <1>2, <1>3 DEF Fits, Past
<1>5. StoreFits(t, p, e)
  BY <1>1, <1>3 DEF StoreFits, Inside
<1>6. ActiveFits(t, p, e)
  <2>1. active[p] \union {t} = active[p]
    BY <1>1, <1>2 DEF HistoryInv, ActiveIsRun
  <2> QED
    BY <1>1, <1>2, <1>3, <2>1 DEF ActiveFits
<1>7. FileFits(t, p, e)
  <2>1. \A r \in Recs(history) : r.id = t => ~Terminal(r)
    BY <1>1 DEF HistoryInv, RecordsFit, Past
  <2>2. [id |-> t, kind |-> e.kind, state |-> "running"] \in Recs(history)
    BY <1>1, <1>3 DEF HistoryInv, RunIsRecorded, Running
  <2> QED
    BY <1>1, <1>3, <2>1, <2>2, FileStays
<1>8. RunsAlone(t, e)
  BY <1>1, <1>3 DEF RunsAlone, Running
<1> QED
  BY <1>3, <1>4, <1>5, <1>6, <1>7, <1>8, TaskStepKeeps

\* Nothing is saved, or another state of what t did.
EndIsSaved(t) ==
  \/ history' = history
  \/ \E state \in {"succeeded", "failed", "interrupted"} : history' = WithState(history, t, state)

\* An end, or the undoing of a launch, changes only the records of its own task, which is past.
LEMMA EndFits ==
  ASSUME HistoryInv, NEW t \in Tasks, NEW e, task[t].at \in {"finishing", "undoing"},
         e \in TaskRecords, e.proc = task[t].proc,
         e.retries = task[t].retries, e.kind \in OperationKinds \union {None},
         \/ task[t].at = "finishing" /\ e.at = "releasing" /\ e.kind \in OperationKinds
         \/ task[t].at = "undoing" /\ e.at = "ended",
         CloseStore(task[t].proc), active' = active, EndIsSaved(t)
  PROVE  /\ Fits(t, task[t].proc, e) /\ StoreFits(t, task[t].proc, e) /\ ActiveFits(t, task[t].proc, e)
         /\ FileFits(t, task[t].proc, e) /\ RunsAlone(t, e) /\ task[t].proc \in Procs
         /\ \A q \in Procs \ {task[t].proc} : ~Busy(q)
<1> DEFINE p == task[t].proc
<1>1. /\ p \in Procs /\ \A q \in Procs \ {p} : ~Busy(q)
      /\ store[p].task = t /\ active \in [Procs -> SUBSET Tasks]
      /\ history \in Seq(RecordSet) /\ Len(history) <= MaxRecords
  BY InTransaction DEF Inside
<1>2. Fits(t, p, e)
  BY <1>1 DEF Fits, Past
<1>3. StoreFits(t, p, e)
  BY <1>1 DEF StoreFits, CloseStore, Inside
<1>4. ActiveFits(t, p, e)
  <2>1. t \in active[p] <=> e.at = "releasing"
    BY <1>1 DEF HistoryInv, ActiveIsRun
  <2>2. active[p] = IF e.at \in {"live", "finishing", "releasing"} THEN active[p] \union {t} ELSE active[p] \ {t}
    BY <2>1
  <2> QED
    BY <1>1, <2>2 DEF ActiveFits
<1>5. FileFits(t, p, e)
  <2>1. e.at \in Past /\ e.at \notin {"live", "finishing"}
    BY DEF Past
  <2>2. CASE history' = history
    BY <2>1, <2>2, FileStays
  <2>3. ASSUME NEW state \in {"succeeded", "failed", "interrupted"},
               history' = WithState(history, t, state)
        PROVE  FileFits(t, p, e)
    <3>1. /\ history' \in Seq(RecordSet) /\ Len(history') = Len(history)
          /\ \A r \in Recs(history') :
               (\E o \in Recs(history) : o.id = r.id) /\ (r.id # t => r \in Recs(history))
          /\ \A o \in Recs(history) : o.id # t => o \in Recs(history')
      BY <1>1, <2>3, StateSet
    <3> QED
      BY <1>1, <2>1, <3>1 DEF FileFits
  <2> QED
    BY <2>2, <2>3 DEF EndIsSaved
<1>6. RunsAlone(t, e)
  BY DEF RunsAlone
<1> QED
  BY <1>1, <1>2, <1>3, <1>4, <1>5, <1>6

LEMMA FinishKeeps == ASSUME HistoryInv, NEW t \in Tasks, FinishOperation(t) PROVE HistoryInv'
<1> DEFINE e == [task[t] EXCEPT !.at = "releasing"]
<1>1. /\ task[t].at = "finishing" /\ CloseStore(task[t].proc) /\ active' = active
      /\ SetTask(t, "releasing")
      /\ \/ history' = history
         \/ \E state \in {"succeeded", "failed", "interrupted"} :
              history' = WithState(store[task[t].proc].file, t, state)
  BY DEF FinishOperation, Saves
<1>2. store[task[t].proc].file = history
  BY <1>1, InTransaction DEF Inside
<1>3. /\ e \in TaskRecords /\ e.at = "releasing" /\ e.proc = task[t].proc /\ e.kind = task[t].kind
      /\ e.retries = task[t].retries /\ task' = [task EXCEPT ![t] = e]
      /\ e.kind \in OperationKinds
  BY <1>1 DEF TaskRecords, SetTask, HistoryInv, HistoryTypes, StepsFit
<1> HIDE DEF e
<1> QED
  <2>1. EndIsSaved(t)
    BY <1>1, <1>2 DEF EndIsSaved
  <2>2. /\ task[t].at \in {"finishing", "undoing"} /\ e.kind \in OperationKinds \union {None}
        /\ \/ task[t].at = "finishing" /\ e.at = "releasing" /\ e.kind \in OperationKinds
           \/ task[t].at = "undoing" /\ e.at = "ended"
    BY <1>1, <1>3
  <2>3. /\ e \in TaskRecords /\ e.proc = task[t].proc
        /\ e.retries = task[t].retries /\ CloseStore(task[t].proc) /\ active' = active
    BY <1>1, <1>3
  <2>4. /\ Fits(t, task[t].proc, e) /\ StoreFits(t, task[t].proc, e) /\ ActiveFits(t, task[t].proc, e)
        /\ FileFits(t, task[t].proc, e) /\ RunsAlone(t, e) /\ task[t].proc \in Procs
        /\ \A q \in Procs \ {task[t].proc} : ~Busy(q)
    BY <2>1, <2>2, <2>3, EndFits
  <2> QED
    BY <1>3, <2>4, TaskStepKeeps

LEMMA UndoKeeps == ASSUME HistoryInv, NEW t \in Tasks, UndoLaunch(t) PROVE HistoryInv'
<1> DEFINE e == [task[t] EXCEPT !.at = "ended", !.kind = None]
<1>1. /\ task[t].at = "undoing" /\ CloseStore(task[t].proc) /\ active' = active
      /\ task' = [task EXCEPT ![t].at = "ended", ![t].kind = None]
      /\ history' = history \/ history' = WithState(store[task[t].proc].file, t, "interrupted")
  BY DEF UndoLaunch, Saves
<1>2. store[task[t].proc].file = history
  BY <1>1, InTransaction DEF Inside
<1>3. /\ e \in TaskRecords /\ e.at = "ended" /\ e.proc = task[t].proc /\ e.kind = None
      /\ e.retries = task[t].retries /\ task' = [task EXCEPT ![t] = e]
  BY <1>1 DEF TaskRecords, HistoryInv, HistoryTypes
<1> HIDE DEF e
<1> QED
  <2>1. EndIsSaved(t)
    BY <1>1, <1>2 DEF EndIsSaved
  <2>2. /\ task[t].at \in {"finishing", "undoing"} /\ e.kind \in OperationKinds \union {None}
        /\ \/ task[t].at = "finishing" /\ e.at = "releasing" /\ e.kind \in OperationKinds
           \/ task[t].at = "undoing" /\ e.at = "ended"
    BY <1>1, <1>3
  <2>3. /\ e \in TaskRecords /\ e.proc = task[t].proc
        /\ e.retries = task[t].retries /\ CloseStore(task[t].proc) /\ active' = active
    BY <1>1, <1>3
  <2>4. /\ Fits(t, task[t].proc, e) /\ StoreFits(t, task[t].proc, e) /\ ActiveFits(t, task[t].proc, e)
        /\ FileFits(t, task[t].proc, e) /\ RunsAlone(t, e) /\ task[t].proc \in Procs
        /\ \A q \in Procs \ {task[t].proc} : ~Busy(q)
    BY <2>1, <2>2, <2>3, EndFits
  <2> QED
    BY <1>3, <2>4, TaskStepKeeps

LEMMA UndoOpens == ASSUME ~Concurrent, HistoryInv, NEW t \in Tasks, OpenUndo(t) PROVE HistoryInv'
<1> DEFINE p == task[t].proc
           e == [task[t] EXCEPT !.at = "undoing"]
<1>1. /\ task[t].at = "ended" /\ task[t].kind = "launch"
      /\ store[p].task = None /\ store' = [store EXCEPT ![p] = [task |-> t, file |-> history]]
      /\ \A q \in Procs \ {p} : ~Busy(q)
      /\ history' = history /\ active' = active /\ SetTask(t, "undoing")
  BY DEF OpenUndo, OpenStore
<1>2. /\ e \in TaskRecords /\ e.at = "undoing" /\ e.kind = "launch" /\ e.proc = p /\ p \in Procs
      /\ e.retries = task[t].retries /\ task' = [task EXCEPT ![t] = e]
      /\ active \in [Procs -> SUBSET Tasks]
  BY <1>1 DEF TaskRecords, SetTask, HistoryInv, HistoryTypes, StepsFit
<1> HIDE DEF e
<1>3. Fits(t, p, e)
  BY <1>1, <1>2 DEF Fits, Past
<1>4. StoreFits(t, p, e)
  BY <1>1, <1>2 DEF StoreFits, Inside
<1>5. ActiveFits(t, p, e)
  <2>1. active[p] \ {t} = active[p]
    BY <1>1, <1>2 DEF HistoryInv, ActiveIsRun
  <2> QED
    BY <1>1, <1>2, <2>1 DEF ActiveFits
<1>6. FileFits(t, p, e)
  BY <1>1, <1>2, FileStays DEF Past, OperationKinds
<1>7. RunsAlone(t, e)
  BY <1>2 DEF RunsAlone
<1> QED
  BY <1>2, <1>3, <1>4, <1>5, <1>6, <1>7, TaskStepKeeps

LEMMA ReleaseKeeps == ASSUME HistoryInv, NEW t \in Tasks, RemoveActive(t) PROVE HistoryInv'
<1> DEFINE p == task[t].proc
           e == [task[t] EXCEPT !.at = "ended"]
<1>1. /\ task[t].at = "releasing" \/ (task[t].at = "live" /\ task[t].kind = "session")
      /\ active' = [active EXCEPT ![p] = @ \ {t}] /\ SetTask(t, "ended")
      /\ history' = history /\ store' = store
  BY DEF RemoveActive
<1>2. p \in Procs /\ \A q \in Procs \ {p} : ~Busy(q)
  BY <1>1, OthersAreIdle
<1>3. /\ e \in TaskRecords /\ e.at = "ended" /\ e.kind = task[t].kind /\ e.proc = p
      /\ e.retries = task[t].retries /\ task' = [task EXCEPT ![t] = e]
  BY <1>1 DEF TaskRecords, SetTask, HistoryInv, HistoryTypes
<1> HIDE DEF e
<1>4. Fits(t, p, e)
  BY <1>2, <1>3 DEF Fits, Past
<1>5. StoreFits(t, p, e)
  BY <1>1, <1>3 DEF StoreFits, Inside
<1>6. ActiveFits(t, p, e)
  BY <1>1, <1>3 DEF ActiveFits
<1>7. FileFits(t, p, e)
  <2>1. \A r \in Recs(history) : r.id = t => e.kind \in OperationKinds \union {None}
    BY <1>3 DEF HistoryInv, RecordsFit
  <2> QED
    BY <1>1, <1>3, <2>1, FileStays DEF Past
<1>8. RunsAlone(t, e)
  BY <1>3 DEF RunsAlone
<1> QED
  BY <1>3, <1>4, <1>5, <1>6, <1>7, <1>8, TaskStepKeeps

\* What a process ran is over with it; its records say so only when somebody loads them.
LEMMA EndOfProcess == ASSUME HistoryInv, NEW p \in Procs, ProcessEnds(p) PROVE HistoryInv'
<1>1. /\ HistoryTypes /\ StepsFit /\ OneIsBusy /\ Transactions /\ ActiveIsRun
      /\ RecordsFit /\ RunIsRecorded /\ RetriesArePast /\ MutationAlone
  BY DEF HistoryInv
<1>2. /\ store \in [Procs -> [task : Tasks \union {None}, file : Seq(RecordSet)]]
      /\ active \in [Procs -> SUBSET Tasks] /\ task \in [Tasks -> TaskRecords]
  BY <1>1 DEF HistoryTypes
<1>3. /\ Busy(p) /\ history' = history /\ store' = [store EXCEPT ![p] = NoStore]
      /\ active' = [active EXCEPT ![p] = {}]
      /\ task' = [t \in Tasks |-> IF task[t].proc = p THEN [task[t] EXCEPT !.at = "ended", !.kind = None]
                                                       ELSE task[t]]
  BY DEF ProcessEnds, CloseStore
<1>4. \A t \in Tasks :
        IF task[t].proc = p
        THEN task'[t].at = "ended" /\ task'[t].kind = None /\ task'[t].proc = p
             /\ task'[t].retries = task[t].retries /\ task'[t] \in TaskRecords
        ELSE task'[t] = task[t]
  BY <1>2, <1>3 DEF TaskRecords
<1>5. HistoryTypes'
  <2>1. task' \in [Tasks -> TaskRecords]
    BY <1>2, <1>3, <1>4
  <2>2. store' \in [Procs -> [task : Tasks \union {None}, file : Seq(RecordSet)]]
    <3>1. NoStore \in [task : Tasks \union {None}, file : Seq(RecordSet)]
      BY DEF NoStore
    <3> QED
      BY <1>2, <1>3, <3>1
  <2> QED
    BY <1>1, <1>2, <1>3, <2>1, <2>2 DEF HistoryTypes
<1>6. StepsFit'
  BY <1>1, <1>4 DEF StepsFit
<1>7. \A t \in Tasks : task'[t].at \notin {"idle", "ended"} => FALSE
  BY <1>1, <1>3, <1>4 DEF StepsFit, OneIsBusy, Busy
<1>8. OneIsBusy' /\ MutationAlone' /\ RunIsRecorded'
  BY <1>7 DEF OneIsBusy, Busy, MutationAlone, RunIsRecorded, Running
<1>9. Transactions'
  <2>1. ASSUME NEW q \in Procs PROVE store'[q].task = None
    <3>1. CASE q = p
      BY <1>2, <1>3, <3>1 DEF NoStore
    <3>2. CASE q # p
      <4>1. store[q].task # None => Busy(q)
        <5>1. store[q].task \in Tasks \union {None}
          BY <1>2
        <5> QED
          BY <1>1, <5>1 DEF Transactions, Inside, Busy
      <4> QED
        BY <1>1, <1>2, <1>3, <3>2, <4>1 DEF OneIsBusy
    <3> QED
      BY <3>1, <3>2
  <2> QED
    BY <1>7, <2>1 DEF Transactions, Inside
<1>10. ActiveIsRun'
  <2>1. ASSUME NEW q \in Procs PROVE active'[q] = {}
    <3>1. CASE q = p
      BY <1>2, <1>3, <3>1
    <3>2. CASE q # p
      <4>1. active[q] # {} => Busy(q)
        BY <1>1 DEF ActiveIsRun, Busy
      <4> QED
        BY <1>1, <1>2, <1>3, <3>2, <4>1 DEF OneIsBusy
    <3> QED
      BY <3>1, <3>2
  <2> QED
    BY <1>7, <2>1 DEF ActiveIsRun
<1>11. RecordsFit'
  <2>1. \A r \in Recs(history) : r.id \in Tasks
    <3>1. history \in Seq(RecordSet)
      BY <1>1 DEF HistoryTypes
    <3>2. \A i \in DOMAIN history : history[i] \in RecordSet
      BY <3>1
    <3> QED
      BY <3>2 DEF Recs, RecordSet
  <2> QED
    BY <1>1, <1>3, <1>4, <2>1 DEF RecordsFit, Past
<1>12. RetriesArePast'
  <2>1. \A t \in Tasks : task[t].retries \in Tasks \union {None}
    BY <1>2 DEF TaskRecords
  <2> QED
    BY <1>1, <1>4, <2>1 DEF RetriesArePast, Past
<1> QED
  BY <1>5, <1>6, <1>8, <1>9, <1>10, <1>11, <1>12 DEF HistoryInv

LEMMA HistoryStep ==
  ASSUME ~Concurrent, HistoryInv, [HistoryNext]_historyVars PROVE HistoryInv'
<1>1. ASSUME NEW t \in Tasks, Begin(t) PROVE HistoryInv'
  BY <1>1, BeginKeeps
<1>2. ASSUME NEW t \in Tasks, BeginOperation(t) \/ BeginSession(t) PROVE HistoryInv'
  BY <1>2, OperationBegins, SessionBegins
<1>3. ASSUME NEW t \in Tasks, OpenFinish(t) \/ FinishOperation(t) PROVE HistoryInv'
  BY <1>3, FinishOpens, FinishKeeps
<1>4. ASSUME NEW t \in Tasks, RemoveActive(t) PROVE HistoryInv'
  BY <1>4, ReleaseKeeps
<1>5. ASSUME NEW t \in Tasks, OpenUndo(t) \/ UndoLaunch(t) PROVE HistoryInv'
  BY <1>5, UndoOpens, UndoKeeps
<1>6. ASSUME NEW t \in Tasks, HistoryCommand(t) PROVE HistoryInv'
  BY <1>6, ListKeeps, ClearKeeps, RetryKeeps DEF HistoryCommand
<1>7. ASSUME NEW p \in Procs, ProcessEnds(p) PROVE HistoryInv'
  BY <1>7, EndOfProcess
<1>8. CASE UNCHANGED historyVars
  BY <1>8 DEF historyVars, HistoryInv, HistoryTypes, StepsFit, OneIsBusy, Busy, Transactions,
       ActiveIsRun, RecordsFit, RunIsRecorded, RetriesArePast, MutationAlone, Running
<1> QED
  BY <1>1, <1>2, <1>3, <1>4, <1>5, <1>6, <1>7, <1>8 DEF HistoryNext, TaskStep

\* As long as no two processes use the history at the same time, it never lets an installation run
\* beside anything, keeps the record of what runs, says of nothing that runs that it is over, and
\* offers nothing for a retry that is not over.
THEOREM HistoryTells == ASSUME ~Concurrent PROVE HistorySpec => []HistoryIsTrue
<1>1. HistoryInv /\ [HistoryNext]_historyVars => HistoryInv'
  BY HistoryStep
<1>2. HistoryInv => HistoryIsTrue
  <2> SUFFICES ASSUME HistoryInv PROVE HistoryIsTrue
    OBVIOUS
  <2>1. RunningIsRecorded
    <3> SUFFICES ASSUME NEW t \in Tasks, Running(t), task[t].kind \in OperationKinds
                 PROVE  \E i \in RecordOf(t) : history[i].state = "running"
      BY DEF RunningIsRecorded
    <3>1. [id |-> t, kind |-> task[t].kind, state |-> "running"] \in Recs(history)
      BY DEF HistoryInv, RunIsRecorded
    <3> QED
      BY <3>1 DEF Recs, RecordOf
  <2>2. RetryAfterEnd
    BY DEF HistoryInv, RetriesArePast, RetryAfterEnd, Running, Past
  <2>3. InterruptedIsOver
    BY DEF HistoryInv, RecordsFit, Recs, Terminal, InterruptedIsOver, Running, Past
  <2> QED
    BY <2>1, <2>2, <2>3 DEF HistoryInv, HistoryIsTrue
<1> QED
  BY HistoryStart, <1>1, <1>2, PTL DEF HistorySpec

\* File, stores, active sets and tasks have their types, and the file stays within its limit.
THEOREM HistoryTypesHold == ASSUME ~Concurrent PROVE HistorySpec => []HistoryTypeOK
<1>1. HistoryInv /\ [HistoryNext]_historyVars => HistoryInv'
  BY HistoryStep
<1>2. HistoryInv => HistoryTypeOK
  BY DEF HistoryInv, HistoryTypes, HistoryTypeOK, TaskRecords
<1> QED
  BY HistoryStart, <1>1, <1>2, PTL DEF HistorySpec
==============================================================================

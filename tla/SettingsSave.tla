----------------------------- MODULE SettingsSave -----------------------------
(***************************************************************************)
(* Saving the settings (settings.rs): two files, the configuration and the *)
(* Compose file of the VM, and the VM created from the latter.  Saves hold *)
(* the VM exclusively; the user edits the Compose file at any time; the    *)
(* commands that set the language or note a pending setup rewrite the      *)
(* configuration without any lock.                                         *)
(*                                                                         *)
(* The configuration is written through one temporary file of fixed name   *)
(* (config/store.rs): a writer creates it, fills it and renames it, and    *)
(* what it fills may have been renamed, or replaced, by another.  All      *)
(* saves name the same VM.                                                 *)
(***************************************************************************)
EXTENDS Naturals, FiniteSets

CONSTANTS Savers,         \* save commands
          Prefs,          \* commands that rewrite the configuration alone
          MaxUserEdits    \* bound on the user's edits of the Compose file

ASSUME SettingsAssumption == Savers \cap Prefs = {} /\ MaxUserEdits \in Nat

VARIABLES
  cfgFile,   \* the configuration: its content and the write it comes from
  cfgTemp,   \* the temporary file, in the same way
  yml,       \* the Compose file: the shared mount and everything else
  vmMount,   \* the mount the VM was created with
  saver,     \* per save its step and what it remembers
  pref,      \* per other command its step and what it loaded
  overlap    \* such a command has been under way during a save, or during another

settingsVars == <<cfgFile, cfgTemp, yml, vmMount, saver, pref, overlap>>

Mounts == {"old", "new"}
Settings == [mount : Mounts, lang : {"en", "ko"}]
Empty == [mount |-> "none", lang |-> "none"]
NoWrite == <<"none", "none">>
NoTempFile == [by |-> NoWrite, data |-> Empty]
Ymls == [mount : Mounts, rest : 0..MaxUserEdits]
Writes == ((Savers \cup Prefs) \X {"persist", "restore"}) \cup {NoWrite}
FileType == [by : Writes, data : Settings \cup {Empty}]

FirstConfig == [mount |-> "old", lang |-> "en"]
FirstYml == [mount |-> "old", rest |-> 0]

NotBegun == {"idle", "previewed"}
UndoSteps == {"undoing", "recreated", "refilled", "restored", "reverting", "unmounted", "failed"}
SaveSteps == {"planned", "verified", "applied", "created", "filled", "persisted", "saved"} \cup UndoSteps

SettingsTypeOK ==
  /\ cfgFile \in FileType /\ cfgTemp \in FileType
  /\ yml \in Ymls /\ vmMount \in Mounts \cup {"none"}
  /\ saver \in [Savers -> [at : NotBegun \cup SaveSteps \cup {"ended"}, want : Mounts, apply : BOOLEAN,
                           rev : Ymls, cfg : Settings \cup {Empty}, changed : BOOLEAN,
                           failing : {"none", "persist", "recreate"}, errors : BOOLEAN]]
  /\ pref \in [Prefs -> [at : {"idle", "loaded", "created", "filled", "done"}, cfg : Settings]]
  /\ overlap \in BOOLEAN
  /\ \A s \in Savers : saver[s].at \in UndoSteps => saver[s].failing # "none"

\* A save that has ended is forgotten.
NoSave(step) == [at |-> step, want |-> "old", apply |-> FALSE, rev |-> FirstYml,
                 cfg |-> FirstConfig, changed |-> FALSE, failing |-> "none", errors |-> FALSE]
EndSave(s) == saver' = [saver EXCEPT ![s] = NoSave("ended")]

SettingsInit ==
  /\ cfgFile = [by |-> NoWrite, data |-> FirstConfig] /\ cfgTemp = NoTempFile
  /\ yml = FirstYml /\ vmMount = "old"
  /\ saver = [s \in Savers |-> NoSave("idle")]
  /\ pref = [p \in Prefs |-> [at |-> "idle", cfg |-> FirstConfig]]
  /\ overlap = FALSE

HoldsVm(s) == saver[s].at \in SaveSteps
SaverGoes(s, step) == saver' = [saver EXCEPT ![s].at = step]
SaverOnly == UNCHANGED <<cfgFile, cfgTemp, yml, vmMount, pref>>

-----------------------------------------------------------------------------
(* atomic_write of the configuration. *)

CreateTemp(w) == cfgTemp' = [by |-> w, data |-> Empty] /\ UNCHANGED cfgFile

\* A write goes to the file that was created, wherever its name is now.
FillTemp(w, data) ==
  /\ cfgTemp' = IF cfgTemp.by = w THEN [cfgTemp EXCEPT !.data = data] ELSE cfgTemp
  /\ cfgFile' = IF cfgFile.by = w THEN [cfgFile EXCEPT !.data = data] ELSE cfgFile

\* The rename takes whatever bears the name.
RenameTemp == cfgTemp # NoTempFile /\ cfgFile' = cfgTemp /\ cfgTemp' = NoTempFile

\* Creation, writing or renaming fails: the temporary file is removed.
DropTemp == cfgTemp' = NoTempFile /\ UNCHANGED cfgFile

-----------------------------------------------------------------------------
(* A save. *)

\* The user looks at a preview, which notes the revision of the Compose file.
PreviewSave(s) ==
  /\ saver[s].at = "idle"
  /\ \E want \in Mounts, apply \in BOOLEAN :
       saver' = [saver EXCEPT ![s].at = "previewed", ![s].want = want, ![s].apply = apply, ![s].rev = yml]
  /\ SaverOnly

\* Mutant: the lease of the VM is not taken.
BeginSaveUnleased(s) ==
  /\ saver[s].at = "previewed"
  /\ IF yml # saver[s].rev THEN EndSave(s)
     ELSE saver' = [saver EXCEPT ![s].at = "planned", ![s].cfg = cfgFile.data,
                                 ![s].changed = yml.mount # saver[s].want]
  /\ SaverOnly

\* Under the lease: the configuration is remembered, the plan made again, the
\* revision compared.
BeginSave(s) ==
  /\ saver[s].at = "previewed" /\ ~\E t \in Savers : HoldsVm(t)
  /\ IF yml # saver[s].rev THEN EndSave(s)
     ELSE saver' = [saver EXCEPT ![s].at = "planned", ![s].cfg = cfgFile.data,
                                 ![s].changed = yml.mount # saver[s].want]
  /\ SaverOnly

\* The VM is busy, or something before the first write fails.
SaveRefused(s) ==
  /\ saver[s].at \in {"previewed", "planned", "verified"} /\ EndSave(s)
  /\ SaverOnly

\* apply_shared_mount: once more the revision, then the rename.
VerifyCompose(s) ==
  /\ saver[s].at = "planned"
  /\ IF yml # saver[s].rev THEN EndSave(s)
     ELSE SaverGoes(s, IF saver[s].changed THEN "verified" ELSE "applied")
  /\ SaverOnly

ApplyMount(s) ==
  /\ saver[s].at = "verified" /\ SaverGoes(s, "applied")
  /\ yml' = [saver[s].rev EXCEPT !.mount = saver[s].want]
  /\ UNCHANGED <<cfgFile, cfgTemp, vmMount, pref>>

Asked(s) == [mount |-> saver[s].want, lang |-> "en"]

PersistConfig(s) ==
  /\ \/ saver[s].at = "applied" /\ CreateTemp(<<s, "persist">>) /\ SaverGoes(s, "created")
     \/ saver[s].at = "created" /\ FillTemp(<<s, "persist">>, Asked(s)) /\ SaverGoes(s, "filled")
     \/ saver[s].at = "filled" /\ RenameTemp /\ SaverGoes(s, "persisted")
  /\ UNCHANGED <<yml, vmMount, pref>>

PersistFails(s) ==
  /\ saver[s].at \in {"applied", "created", "filled"} /\ DropTemp
  /\ saver' = [saver EXCEPT ![s].at = "undoing", ![s].failing = "persist"]
  /\ UNCHANGED <<yml, vmMount, pref>>

\* Docker creates the VM anew from the file as it is, or fails halfway.
RecreateVm(s) ==
  /\ saver[s].at = "persisted"
  /\ \/ ~(saver[s].changed /\ saver[s].apply) /\ SaverGoes(s, "saved") /\ UNCHANGED vmMount
     \/ /\ saver[s].changed /\ saver[s].apply
        /\ \/ vmMount' = yml.mount /\ SaverGoes(s, "saved")
           \/ /\ vmMount' \in {vmMount, "none"}
              /\ saver' = [saver EXCEPT ![s].at = "undoing", ![s].failing = "recreate"]
  /\ UNCHANGED <<cfgFile, cfgTemp, yml, pref>>

-----------------------------------------------------------------------------
(* rollback_files *)

\* The Compose file comes next, whether or not this worked.
RestoreConfig(s) ==
  /\ \/ saver[s].at = "undoing" /\ CreateTemp(<<s, "restore">>) /\ SaverGoes(s, "recreated")
     \/ saver[s].at = "recreated" /\ FillTemp(<<s, "restore">>, saver[s].cfg) /\ SaverGoes(s, "refilled")
     \/ saver[s].at = "refilled" /\ RenameTemp /\ SaverGoes(s, "restored")
     \/ /\ saver[s].at \in {"undoing", "recreated", "refilled"} /\ DropTemp
        /\ saver' = [saver EXCEPT ![s].at = "restored", ![s].errors = TRUE]
  /\ UNCHANGED <<yml, vmMount, pref>>

\* Mutant: the Compose file is left when the configuration was not restored.
VerifyRestoreHalf(s) ==
  /\ saver[s].at = "restored"
  /\ IF ~saver[s].changed \/ saver[s].failing = "persist" THEN SaverGoes(s, "unmounted")
     ELSE \/ yml = [saver[s].rev EXCEPT !.mount = saver[s].want] /\ SaverGoes(s, "reverting")
          \/ saver' = [saver EXCEPT ![s].at = "failed", ![s].errors = TRUE]
  /\ SaverOnly

\* Only the revision that was applied is replaced.
VerifyRestore(s) ==
  /\ saver[s].at = "restored"
  /\ IF ~saver[s].changed THEN SaverGoes(s, "unmounted")
     ELSE \/ yml = [saver[s].rev EXCEPT !.mount = saver[s].want] /\ SaverGoes(s, "reverting")
          \/ saver' = [saver EXCEPT ![s].at = "failed", ![s].errors = TRUE]
  /\ SaverOnly

RestoreCompose(s) ==
  /\ saver[s].at = "reverting" /\ SaverGoes(s, "unmounted") /\ yml' = saver[s].rev
  /\ UNCHANGED <<cfgFile, cfgTemp, vmMount, pref>>

\* After a recreation that failed, the VM is created from the restored file; of
\* another failure nobody hears.
RecreatePrevious(s) ==
  /\ saver[s].at = "unmounted" /\ SaverGoes(s, "failed")
  /\ IF saver[s].failing = "recreate" THEN vmMount' \in {yml.mount, vmMount, "none"}
                                      ELSE UNCHANGED vmMount
  /\ UNCHANGED <<cfgFile, cfgTemp, yml, pref>>

SaveEnds(s) ==
  /\ saver[s].at \in {"saved", "failed"} /\ EndSave(s)
  /\ SaverOnly

\* The process is killed, and the lease is free.
SaverKilled(s) ==
  /\ saver[s].at \in SaveSteps \ {"saved", "failed"} /\ EndSave(s)
  /\ SaverOnly

-----------------------------------------------------------------------------
(* The other writers: set_language_preference and begin_winboat_setup. *)

SetPref(p, step) == pref' = [pref EXCEPT ![p].at = step]
EndPref(p) == pref' = [pref EXCEPT ![p] = [at |-> "done", cfg |-> FirstConfig]]

\* A configuration that cannot be read fails the command.
LoadPref(p) ==
  /\ pref[p].at = "idle"
  /\ pref' = IF cfgFile.data = Empty THEN [pref EXCEPT ![p].at = "done"]
             ELSE [pref EXCEPT ![p] = [at |-> "loaded", cfg |-> [cfgFile.data EXCEPT !.lang = "ko"]]]
  /\ UNCHANGED <<cfgFile, cfgTemp, yml, vmMount, saver>>

WritePref(p) ==
  /\ \/ pref[p].at = "loaded" /\ CreateTemp(<<p, "persist">>) /\ SetPref(p, "created")
     \/ pref[p].at = "created" /\ FillTemp(<<p, "persist">>, pref[p].cfg) /\ SetPref(p, "filled")
     \/ pref[p].at = "filled" /\ RenameTemp /\ EndPref(p)
     \/ pref[p].at \in {"loaded", "created", "filled"} /\ DropTemp /\ EndPref(p)
  /\ UNCHANGED <<yml, vmMount, saver>>

UserEdits ==
  /\ yml.rest < MaxUserEdits /\ yml' = [yml EXCEPT !.rest = @ + 1]
  /\ UNCHANGED <<cfgFile, cfgTemp, vmMount, saver, pref>>

-----------------------------------------------------------------------------
SaveStep(s) == \/ PreviewSave(s) \/ BeginSave(s) \/ SaveRefused(s) \/ VerifyCompose(s) \/ ApplyMount(s)
               \/ PersistConfig(s) \/ PersistFails(s) \/ RecreateVm(s)
UndoStep(s) == \/ RestoreConfig(s) \/ VerifyRestore(s) \/ RestoreCompose(s) \/ RecreatePrevious(s)
               \/ SaveEnds(s) \/ SaverKilled(s)

UnderWay(p) == pref[p].at \in {"loaded", "created", "filled"}

\* Two write the configuration at a time.
Overlaps == \E p \in Prefs : UnderWay(p) /\ \/ \E s \in Savers : HoldsVm(s)
                                            \/ \E q \in Prefs \ {p} : UnderWay(q)

SettingsNext ==
  /\ \/ \E s \in Savers : SaveStep(s) \/ UndoStep(s)
     \/ \E p \in Prefs : LoadPref(p) \/ WritePref(p)
     \/ UserEdits
  /\ overlap' = (overlap \/ Overlaps')

SettingsSpec == SettingsInit /\ [][SettingsNext]_settingsVars

-----------------------------------------------------------------------------
(* What is checked.  All of it fails once such a command overlaps another   *)
(* writer.                                                                  *)

\* The configuration can be read at every moment, whoever is killed: the next
\* save removes what a writer left behind.
ConfigWhole == overlap \/ cfgFile.data # Empty

\* When a save reports success, both files hold what was asked.
SavedTogether ==
  overlap \/ \A s \in Savers : saver[s].at = "saved"
    => cfgFile.data = Asked(s) /\ yml.mount = saver[s].want

\* When a save reports a failure and names no error of its rollback, both files
\* hold what they held before it.
FailedTogether ==
  overlap \/ \A s \in Savers : saver[s].at = "failed" /\ ~saver[s].errors
    => cfgFile.data = saver[s].cfg /\ yml.mount = saver[s].rev.mount

\* Both files are saved, or neither, or an error says otherwise.
BothOrNeither == ConfigWhole /\ SavedTogether /\ FailedTogether
=============================================================================

---------------------------- MODULE InstallerCache ----------------------------
(***************************************************************************)
(* The download of one installer (downloads.rs) and its cache              *)
(* (downloads/cache.rs).  Four files: the payload of a download that was   *)
(* interrupted with the state that describes it, and the finished          *)
(* installer with its metadata.  The process may be killed between any two *)
(* operations on them.  A later command of the same version starts from    *)
(* what it finds; it never runs beside the first.                          *)
(*                                                                         *)
(* A file is the sequence of its chunks, a chunk is known by the release   *)
(* of the origin it came from, a digest is the content it was taken of.    *)
(* The origin may replace the file under the same address, and take that   *)
(* back.                                                                   *)
(***************************************************************************)
EXTENDS Naturals, Sequences

CONSTANTS Total,            \* chunks of the installer
          MaxReplacements   \* bound on the changes of the origin

ASSUME InstallerAssumption == Total \in Nat \ {0} /\ MaxReplacements \in Nat

VARIABLES
  origin,      \* the release the origin serves, and how often it changed
  payload,     \* the .partial file, <<>> when empty or absent
  partial,     \* the .partial.json file
  installer,   \* the installer in the cache
  metadata,    \* its metadata: the digest
  download     \* the running command

installerVars == <<origin, payload, partial, installer, metadata, download>>

Releases == {"a", "b"}
Payloads == UNION {[1..n -> Releases] : n \in 0..Total}
Whole == {[i \in 1..Total |-> r] : r \in Releases}
NoPartial == [release |-> "none", size |-> 0]
Absent == <<>>
DownloadSteps == {"idle", "checking", "discarding", "loading", "requesting", "opening", "receiving",
          "committing", "moving", "backing", "naming", "staging", "installed", "failed"}
NoDownload == [at |-> "idle", then |-> "idle", force |-> FALSE, start |-> 0, release |-> "none", sha |-> Absent,
               oldInstaller |-> Absent, oldMetadata |-> Absent, had |-> FALSE]

\* What inspect accepts.
Valid == metadata # Absent /\ installer = metadata

InstallerTypeOK ==
  /\ origin \in [release : Releases, changes : 0..MaxReplacements]
  /\ payload \in Payloads /\ installer \in Payloads /\ metadata \in Payloads
  /\ partial \in [release : Releases, size : 1..Total] \cup {NoPartial}
  /\ download \in [at : DownloadSteps, then : DownloadSteps, force : BOOLEAN, start : 0..Total,
                   release : Releases \cup {"none"}, sha : Payloads,
                   oldInstaller : Payloads, oldMetadata : Payloads, had : BOOLEAN]

InstallerInit ==
  /\ origin = [release |-> "a", changes |-> 0]
  /\ payload = Absent /\ partial = NoPartial
  /\ installer = Absent /\ metadata = Absent
  /\ download = NoDownload

partialVars == <<payload, partial>>
installedVars == <<installer, metadata>>
DownloadGoes(step) == download' = [download EXCEPT !.at = step]

\* discard_partial: the payload first, then its state.
DiscardThen(d, step) ==
  payload' = Absent /\ download' = [d EXCEPT !.at = "discarding", !.then = step]

DiscardState ==
  /\ download.at = "discarding" /\ DownloadGoes(download.then) /\ partial' = NoPartial
  /\ UNCHANGED <<origin, payload, installedVars>>

-----------------------------------------------------------------------------
BeginDownload ==
  /\ download.at = "idle"
  /\ \E force \in BOOLEAN :
       download' = [NoDownload EXCEPT !.at = "checking", !.force = force, !.had = Valid]
  /\ UNCHANGED <<origin, partialVars, installedVars>>

\* A valid installer is used, and what is left of a download is discarded; an
\* invalid one is removed.
Inspect ==
  /\ download.at = "checking" /\ UNCHANGED <<origin, partial>>
  /\ \/ /\ download.force /\ DiscardThen(download, "loading") /\ UNCHANGED installedVars
     \/ /\ ~download.force /\ Valid
        /\ DiscardThen([download EXCEPT !.sha = metadata], "staging") /\ UNCHANGED installedVars
     \/ /\ ~download.force /\ ~Valid
        /\ installer' = Absent /\ metadata' = Absent /\ DownloadGoes("loading") /\ UNCHANGED payload

\* load_partial
Resumable == /\ partial # NoPartial /\ Len(payload) = partial.size
             /\ partial.size < Total

\* Mutant: what cannot be resumed is not removed first.
LoadPartialKeeps ==
  /\ download.at = "loading"
  /\ download' = [download EXCEPT !.at = "requesting", !.start = IF Resumable THEN partial.size ELSE 0,
                                  !.release = IF Resumable THEN partial.release ELSE "none"]
  /\ UNCHANGED <<origin, partialVars, installedVars>>

LoadPartial ==
  /\ download.at = "loading"
  /\ IF Resumable
       THEN /\ download' = [download EXCEPT !.at = "requesting", !.start = partial.size, !.release = partial.release]
            /\ UNCHANGED payload
       ELSE DiscardThen([download EXCEPT !.start = 0, !.release = "none"], "requesting")
  /\ UNCHANGED <<origin, partial, installedVars>>

Answer(start) == [download EXCEPT !.at = "opening", !.start = start, !.release = origin.release]

\* Mutant: the request names no validator.
RespondUnconditionally ==
  /\ download.at = "requesting"
  /\ download' = Answer(download.start)
  /\ UNCHANGED <<origin, partialVars, installedVars>>

\* If-Range: the rest is sent only of the release the download began with, and
\* from no later than what was asked.  An unusable range starts over; the whole
\* file replaces what was there.
Respond ==
  /\ download.at = "requesting" /\ UNCHANGED <<origin, partial, installedVars>>
  /\ \/ download.start = 0 /\ download' = Answer(0) /\ UNCHANGED payload
     \/ /\ download.start > 0 /\ download.release = origin.release
        /\ \/ \E n \in 0..download.start : download' = Answer(n) /\ UNCHANGED payload
           \/ DiscardThen(download, "loading")
     \/ download.start > 0 /\ DiscardThen(Answer(0), "opening")

\* The payload is cut to where the answer begins; it is never shorter.
OpenPayload ==
  /\ download.at = "opening" /\ DownloadGoes("receiving")
  /\ payload' = SubSeq(payload, 1, download.start)
  /\ UNCHANGED <<origin, partial, installedVars>>

Receive ==
  /\ download.at = "receiving" /\ Len(payload) < Total
  /\ payload' = Append(payload, download.release)
  /\ UNCHANGED <<origin, partial, installedVars, download>>

\* persist_partial, after an error or a cancellation; a payload without bytes
\* or without a validator is discarded, so is one the user does not want.
Interrupted ==
  /\ download.at = "receiving" /\ UNCHANGED <<origin, installedVars>>
  /\ \/ /\ payload # Absent /\ partial' = [release |-> download.release, size |-> Len(payload)]
        /\ DownloadGoes("failed") /\ UNCHANGED payload
     \/ DiscardThen(download, "failed") /\ UNCHANGED partial

\* The answer is complete; validate_partial_payload takes the digest, or finds
\* that this is no installer.
Received ==
  /\ download.at = "receiving" /\ Len(payload) = Total /\ UNCHANGED <<origin, partial, installedVars>>
  /\ \/ download' = [download EXCEPT !.at = "committing", !.sha = payload] /\ UNCHANGED payload
     \/ DiscardThen(download, "failed")

-----------------------------------------------------------------------------
(* commit_named: four renames, undone in the opposite order. *)

BackUpInstaller ==
  /\ download.at = "committing"
  /\ download' = [download EXCEPT !.at = "moving", !.oldInstaller = installer]
  /\ installer' = Absent
  /\ UNCHANGED <<origin, partialVars, metadata>>

MovePayload ==
  /\ download.at = "moving" /\ DownloadGoes("backing")
  /\ installer' = payload /\ payload' = Absent
  /\ UNCHANGED <<origin, partial, metadata>>

BackUpMetadata ==
  /\ download.at = "backing"
  /\ download' = [download EXCEPT !.at = "naming", !.oldMetadata = metadata]
  /\ metadata' = Absent
  /\ UNCHANGED <<origin, partialVars, installer>>

\* Then the backups are removed; if that fails, so does the command.
NameMetadata ==
  /\ download.at = "naming" /\ metadata' = download.sha /\ UNCHANGED <<origin, partial, installer>>
  /\ \/ DiscardThen(download, "staging")
     \/ DownloadGoes("failed") /\ UNCHANGED payload

\* Mutant: the metadata of the previous installer is not put back.
CommitFailsHalf ==
  /\ download.at \in {"committing", "moving", "backing", "naming"} /\ DownloadGoes("failed")
  /\ installer' = IF download.at = "committing" THEN installer ELSE download.oldInstaller
  /\ UNCHANGED <<origin, partialVars, metadata>>

CommitFails ==
  /\ download.at \in {"committing", "moving", "backing", "naming"} /\ DownloadGoes("failed")
  /\ installer' = IF download.at = "committing" THEN installer ELSE download.oldInstaller
  /\ metadata' = IF download.at = "naming" THEN download.oldMetadata ELSE metadata
  /\ UNCHANGED <<origin, partialVars>>

\* The copy on the share is checked against the digest before it runs.
Stage ==
  /\ download.at = "staging"
  /\ DownloadGoes(IF installer = download.sha THEN "installed" ELSE "failed")
  /\ UNCHANGED <<origin, partialVars, installedVars>>

\* A step before the payload is received fails.
DownloadFails ==
  /\ download.at \in {"checking", "loading", "requesting", "opening", "staging"}
  /\ DownloadGoes("failed")
  /\ UNCHANGED <<origin, partialVars, installedVars>>

\* The command ends, or is killed.
EndDownload ==
  /\ download.at # "idle" /\ download' = NoDownload
  /\ UNCHANGED <<origin, partialVars, installedVars>>

ReplaceOrigin ==
  /\ origin.changes < MaxReplacements
  /\ \E r \in Releases \ {origin.release} : origin' = [release |-> r, changes |-> origin.changes + 1]
  /\ UNCHANGED <<partialVars, installedVars, download>>

-----------------------------------------------------------------------------
DownloadStep == DiscardState \/ BeginDownload \/ Inspect \/ LoadPartial \/ Respond \/ OpenPayload \/ Receive
                \/ Interrupted \/ Received \/ DownloadFails \/ EndDownload
CommitStep == BackUpInstaller \/ MovePayload \/ BackUpMetadata \/ NameMetadata \/ CommitFails \/ Stage

InstallerNext == DownloadStep \/ CommitStep \/ ReplaceOrigin

InstallerSpec == InstallerInit /\ [][InstallerNext]_installerVars

-----------------------------------------------------------------------------
(* What is checked. *)

\* What is installed is one release from the first byte to the last, however
\* often the download was interrupted and the origin replaced: no digest
\* published by the origin would tell.
InstalledIsWhole == download.at = "installed" => download.sha \in Whole

\* A state that describes the payload by its length tells the release of every
\* byte in it: one left behind by a kill is never taken for that of another
\* download.
PartialTells ==
  Resumable => \A i \in 1..Len(payload) : payload[i] = partial.release

\* A redownload that fails leaves the installer it was to replace usable.
PreviousSurvives == download.at = "failed" /\ download.force /\ download.had => Valid

\* One release on disk, and always one that works.
OneReleaseOnDisk == InstalledIsWhole /\ PartialTells /\ PreviousSurvives
=============================================================================

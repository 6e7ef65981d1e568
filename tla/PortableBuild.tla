---------------------------- MODULE PortableBuild ----------------------------
(***************************************************************************)
(* The package cache of one project (portable_runtime/mod.rs) and what a   *)
(* start of the Runtime does with it (supervisor.rs).  Commands build the  *)
(* project, each under the project's lock, and then start the package they *)
(* were given; the user edits the project meanwhile.  The digest of the    *)
(* project is taken before the lock is, MxBuild reads the project later,   *)
(* and a start reads the cache without the lock.                           *)
(*                                                                         *)
(* Builds of other versions, toolchains or systems have other keys and     *)
(* other entries; here the key is the digest.  Edits never bring an        *)
(* earlier content back, so that contents are ordered by age.              *)
(***************************************************************************)
EXTENDS Naturals, FiniteSets

CONSTANTS Builders,    \* commands that build and then start
          MaxChanges,    \* bound on the user's edits
          MaxBuilds    \* bound on the packages built

ASSUME BuildAssumption == MaxChanges \in Nat /\ MaxBuilds \in Nat

VARIABLES
  project,     \* the content of the project
  entries,     \* the cache: per key what is in its directory
  registry,    \* registered package artifacts: identifier and key
  lockedBy,    \* the commands that hold the project's lock
  command,     \* the step of each command, the key and artifact it works on
  made,        \* how many packages were built
  cleaning     \* some command was asked to clean

buildVars == <<project, entries, registry, lockedBy, command, made, cleaning>>

Contents == 0..MaxChanges
Parts == {"record", "files", "lib", "app"}   \* lib and app: the template
NoEntry == [id |-> 0, success |-> FALSE, of |-> 0, parts |-> {}]
EntryType == [id : 0..MaxBuilds, success : BOOLEAN, of : Contents, parts : SUBSET Parts]
Steps == {"idle", "digested", "cleaning", "locked", "discarding", "building",
          "staged", "published", "built", "read", "halfway", "started", "ended"}

BuildTypeOK ==
  /\ project \in Contents /\ made \in 0..MaxBuilds
  /\ entries \in [Contents -> EntryType]
  /\ registry \subseteq [id : 1..MaxBuilds, key : Contents]
  /\ lockedBy \subseteq Builders /\ Cardinality(lockedBy) <= 1 /\ cleaning \in BOOLEAN
  /\ command \in [Builders -> [at : Steps, key : Contents, id : 0..MaxBuilds,
                               of : Contents, success : BOOLEAN, copied : SUBSET Parts]]

BuildInit ==
  /\ project = 0 /\ made = 0 /\ cleaning = FALSE
  /\ entries = [k \in Contents |-> NoEntry]
  /\ registry = {} /\ lockedBy = {}
  /\ command = [b \in Builders |-> [at |-> "idle", key |-> 0, id |-> 0, of |-> 0,
                                    success |-> FALSE, copied |-> {}]]

At(b, step) == command[b].at = step
GoesTo(b, step) == command' = [command EXCEPT ![b].at = step]
cacheVars == <<entries, registry>>
frame == <<project, made>>

-----------------------------------------------------------------------------
(* build *)

EditProject ==
  /\ project < MaxChanges /\ project' = project + 1
  /\ UNCHANGED <<cacheVars, lockedBy, command, made, cleaning>>

Digest(b) ==
  /\ At(b, "idle")
  /\ command' = [command EXCEPT ![b].at = "digested", ![b].key = project]
  /\ UNCHANGED <<frame, cacheVars, lockedBy, cleaning>>

\* Mutant: the lock is not waited for.
AcquireNoLock(b) ==
  /\ At(b, "digested")
  /\ lockedBy' = lockedBy \cup {b}
  /\ GoesTo(b, "locked") /\ UNCHANGED cleaning
  /\ UNCHANGED <<frame, cacheVars>>

\* acquire_lock polls for as long as it takes; --clean then empties the cache.
AcquireLock(b) ==
  /\ At(b, "digested") /\ lockedBy = {}
  /\ lockedBy' = {b}
  /\ \/ GoesTo(b, "locked") /\ UNCHANGED cleaning
     \/ GoesTo(b, "cleaning") /\ cleaning' = TRUE
  /\ UNCHANGED <<frame, cacheVars>>

\* remove_dir_all removes the files of a directory one by one, in any order.
RemovePart(k, p) ==
  /\ p \in entries[k].parts
  /\ entries' = [entries EXCEPT ![k] =
       IF @.parts = {p} THEN NoEntry ELSE [entries[k] EXCEPT !.parts = @ \ {p}]]

CleanBuilds(b) ==
  /\ At(b, "cleaning")
  /\ \/ /\ \E k \in Contents, p \in Parts : RemovePart(k, p)
        /\ UNCHANGED command
     \/ /\ \A k \in Contents : entries[k] = NoEntry
        /\ GoesTo(b, "locked") /\ UNCHANGED entries
  /\ UNCHANGED <<frame, registry, lockedBy, cleaning>>

\* cached_build.  Of the template it looks for the directory only.
IsCached(k) ==
  /\ {"record", "files"} \subseteq entries[k].parts /\ entries[k].success
  /\ entries[k].parts \cap {"lib", "app"} # {}
  /\ [id |-> entries[k].id, key |-> k] \in registry

\* Mutant: the newest package of the project is taken, whatever its digest.
LookupAny(b) ==
  /\ At(b, "locked")
  /\ \/ \E k \in Contents :
          /\ IsCached(k)
          /\ command' = [command EXCEPT ![b].at = "built", ![b].id = entries[k].id,
                                        ![b].of = entries[k].of]
          /\ lockedBy' = {}
     \/ (\A k \in Contents : ~IsCached(k)) /\ GoesTo(b, "discarding") /\ UNCHANGED lockedBy
  /\ UNCHANGED <<frame, cacheVars, cleaning>>

Lookup(b) ==
  /\ At(b, "locked")
  /\ LET k == command[b].key
     IN IF IsCached(k)
          THEN /\ command' = [command EXCEPT ![b].at = "built", ![b].id = entries[k].id,
                                             ![b].of = entries[k].of]
               /\ lockedBy' = {}
          ELSE GoesTo(b, "discarding") /\ UNCHANGED lockedBy
  /\ UNCHANGED <<frame, cacheVars, cleaning>>

\* What is left under the key is removed before the build.
Discard(b) ==
  /\ At(b, "discarding")
  /\ LET k == command[b].key
     IN \/ (\E p \in Parts : RemovePart(k, p)) /\ UNCHANGED command
        \/ entries[k] = NoEntry /\ GoesTo(b, "building") /\ UNCHANGED entries
  /\ UNCHANGED <<frame, registry, lockedBy, cleaning>>

\* run_mxbuild reads the project as it is now, into a staging directory; a
\* failed build leaves a record too.
RunMxbuild(b) ==
  /\ At(b, "building") /\ made < MaxBuilds
  /\ made' = made + 1
  /\ \E ok \in BOOLEAN :
       command' = [command EXCEPT ![b].at = "staged", ![b].id = made', ![b].of = project,
                                  ![b].success = ok]
  /\ UNCHANGED <<project, cacheVars, lockedBy, cleaning>>

\* Mutant: the build is published while its template is being extracted.
PublishBuildEarly(b) ==
  /\ At(b, "staged")
  /\ entries' = [entries EXCEPT ![command[b].key] =
       [id |-> command[b].id, success |-> command[b].success, of |-> command[b].of,
        parts |-> Parts \ {"app"}]]
  /\ GoesTo(b, "published")
  /\ UNCHANGED <<frame, registry, lockedBy, cleaning>>

\* The staging directory, record included, is renamed into place.
PublishBuild(b) ==
  /\ At(b, "staged")
  /\ entries' = [entries EXCEPT ![command[b].key] =
       [id |-> command[b].id, success |-> command[b].success, of |-> command[b].of,
        parts |-> IF command[b].success THEN Parts ELSE {"record", "files"}]]
  /\ GoesTo(b, "published")
  /\ UNCHANGED <<frame, registry, lockedBy, cleaning>>

\* Only then is the artifact registered; a failed build returns its error.
RegisterArtifact(b) ==
  /\ At(b, "published")
  /\ IF command[b].success
       THEN /\ registry' = registry \cup {[id |-> command[b].id, key |-> command[b].key]}
            /\ GoesTo(b, "built")
       ELSE UNCHANGED registry /\ GoesTo(b, "ended")
  /\ lockedBy' = {}
  /\ UNCHANGED <<frame, entries, cleaning>>

\* A command that fails or dies anywhere loses its lock; a directory it was
\* removing stays as it is.
Ends(b) ==
  /\ command[b].at \notin {"idle", "started", "ended"}
  /\ GoesTo(b, "ended") /\ lockedBy' = lockedBy \ {b}
  /\ UNCHANGED <<frame, cacheVars, cleaning>>

-----------------------------------------------------------------------------
(* The start of the package, without the lock. *)

\* The artifact's registration leads to the entry, whose record must name it.
ReadBuild(b) ==
  /\ At(b, "built")
  /\ LET k == command[b].key
     IN GoesTo(b, IF /\ [id |-> command[b].id, key |-> k] \in registry
                   /\ "record" \in entries[k].parts /\ entries[k].success
                   /\ entries[k].id = command[b].id
                THEN "read" ELSE "ended")
  /\ UNCHANGED <<frame, cacheVars, lockedBy, cleaning>>

\* copy_deployment walks the template; what is not there when its directory is
\* listed is not missed, a template that is gone is.
CopyPart(b, part, from, to) ==
  /\ At(b, from)
  /\ LET there == entries[command[b].key].parts
     IN command' = [command EXCEPT
          ![b].at = IF there \cap {"lib", "app"} = {} THEN "ended" ELSE to,
          ![b].copied = @ \cup ({part} \cap there)]
  /\ UNCHANGED <<frame, cacheVars, lockedBy, cleaning>>

CopyDeployment(b) == CopyPart(b, "lib", "read", "halfway") \/ CopyPart(b, "app", "halfway", "started")

-----------------------------------------------------------------------------
BuildStep(b) == Digest(b) \/ AcquireLock(b) \/ CleanBuilds(b) \/ Lookup(b) \/ Discard(b)
                \/ RunMxbuild(b) \/ PublishBuild(b) \/ RegisterArtifact(b)
BuildNext == EditProject \/ \E b \in Builders : BuildStep(b) \/ Ends(b) \/ ReadBuild(b) \/ CopyDeployment(b)

BuildSpec == BuildInit /\ [][BuildNext]_buildVars

-----------------------------------------------------------------------------
(* What is checked. *)

InUseBy(b) == command[b].at \in {"built", "read", "halfway"}

\* As long as nobody cleans, a package a command was given stays whole until it
\* has been copied: builders of the same key find it in the cache, and none of
\* them removes what it finds.
InUseStaysWhole ==
  cleaning \/ \A b \in Builders : InUseBy(b)
    => entries[command[b].key].id = command[b].id /\ entries[command[b].key].parts = Parts

\* ... and what was started is the whole deployment.
StartedIsWhole ==
  cleaning \/ \A b \in Builders : At(b, "started") => command[b].copied = {"lib", "app"}

\* A package a command was given holds everything the project held when the
\* command began, whoever built it and whenever.
NotOlderThanAsked ==
  \A b \in Builders : InUseBy(b) => command[b].of >= command[b].key

\* Whatever died on the way, a package in the registry that is still there was
\* published whole: its entry, if nobody has started to remove it, is complete.
RegisteredWasPublished ==
  cleaning \/ \A r \in registry : entries[r.key].id = r.id => entries[r.key].parts = Parts

\* What a command starts is what it asked for, whole.
StartsWhatWasAsked == InUseStaysWhole /\ StartedIsWhole /\ NotOlderThanAsked /\ RegisteredWasPublished
=============================================================================

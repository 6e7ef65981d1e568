----------------------------- MODULE VersionCache -----------------------------
(***************************************************************************)
(* The list of installed Studio versions: in memory                        *)
(* (winboat/version_cache.rs) and on disk (studio_cache.rs).  Commands     *)
(* that want the list refresh it one at a time, and one that waited takes  *)
(* the answer its predecessor got meanwhile; an installation changes the   *)
(* guest and announces that to both caches afterwards; the start page      *)
(* seeds the memory from the disk.                                         *)
(*                                                                         *)
(* A list is known by the number of changes of the guest it reflects.      *)
(***************************************************************************)
EXTENDS Naturals, FiniteSets

CONSTANTS Refreshers,   \* commands that refresh, and save what they got
          Installers,   \* installations and uninstallations
          Seeders       \* commands that show the disk cache first

VARIABLES
  installed,   \* changes made in the guest
  announced,   \* of these, the changes known to be over: the generation
  cached,      \* the cache in memory
  completed,   \* the last refresh: its answer, and who was waiting by then
  disk,        \* the cache on disk: {} or the list saved
  refresher,   \* per refresher its step, its generation, its list, what it owes
  change,      \* the step of each installation
  seeder       \* what each seeder has read

versionVars == <<installed, announced, cached, completed, disk, refresher, change, seeder>>

Lists == 0..Cardinality(Installers)
NotCached == [list |-> 0, source |-> "none", fresh |-> FALSE]
NotCompleted == [answers |-> {}, waiting |-> {}]
NotRefreshing == [at |-> "idle", generation |-> 0, answers |-> {}, owed |-> 0]

\* A refresh holds the lock while the guest is asked.
Refreshing(r) == refresher[r].at \in {"detecting", "detected"}

VersionTypeOK ==
  /\ installed \in Lists /\ announced \in [done : Lists, generation : Lists]
  /\ cached \in [list : Lists, source : {"none", "guest", "disk"}, fresh : BOOLEAN]
  /\ completed \in [answers : SUBSET Lists, waiting : SUBSET Refreshers]
  /\ disk \subseteq Lists /\ Cardinality(disk) <= 1
  /\ refresher \in [Refreshers -> [at : {"idle", "waiting", "detecting", "detected", "answered", "ended"},
                                   generation : Lists, answers : SUBSET Lists, owed : Lists]]
  /\ change \in [Installers -> {"idle", "changed", "forgotten", "ended"}]
  /\ seeder \in [Seeders -> [at : {"idle", "loaded", "ended"}, lists : SUBSET Lists]]
  /\ \A r, s \in Refreshers : Refreshing(r) /\ Refreshing(s) => r = s

VersionInit ==
  /\ installed = 0 /\ announced = [done |-> 0, generation |-> 0]
  /\ cached = NotCached /\ completed = NotCompleted /\ disk \in {{}, {0}}
  /\ refresher = [r \in Refreshers |-> NotRefreshing]
  /\ change = [i \in Installers |-> "idle"]
  /\ seeder = [s \in Seeders |-> [at |-> "idle", lists |-> {}]]

changeVars == <<installed, announced, change>>

-----------------------------------------------------------------------------
(* refresh *)

RefresherGoes(r, step, answers) ==
  refresher' = [refresher EXCEPT ![r].at = step, ![r].answers = answers, ![r].owed = announced.done]

\* A list that is cached and fresh is the answer.
AskForVersions(r) ==
  /\ refresher[r].at = "idle"
  /\ IF cached.source # "none" /\ cached.fresh
       THEN refresher' = [refresher EXCEPT ![r].at = "ended"]
       ELSE refresher' = [refresher EXCEPT ![r].at = "waiting"]
  /\ UNCHANGED <<changeVars, cached, completed, disk, seeder>>

\* The lock is free: an answer that came while this one waited is taken.
TakeTurn(r) ==
  /\ refresher[r].at = "waiting" /\ ~\E s \in Refreshers : Refreshing(s)
  /\ IF r \in completed.waiting THEN RefresherGoes(r, "answered", completed.answers)
     ELSE refresher' = [refresher EXCEPT ![r].at = "detecting", ![r].generation = announced.generation]
  /\ UNCHANGED <<changeVars, cached, completed, disk, seeder>>

\* The guest is asked, and may fail to answer.
Detect(r) ==
  /\ refresher[r].at = "detecting"
  /\ \E answers \in {{installed}, {}} :
       refresher' = [refresher EXCEPT ![r].at = "detected", ![r].answers = answers]
  /\ UNCHANGED <<changeVars, cached, completed, disk, seeder>>

\* complete_refresh: an answer of an older generation is dropped, and the guest
\* is asked again.
CompleteRefresh(r) ==
  /\ refresher[r].at = "detected"
  /\ IF refresher[r].generation # announced.generation
       THEN /\ refresher' = [refresher EXCEPT ![r].at = "detecting", ![r].answers = {},
                                              ![r].generation = announced.generation]
            /\ UNCHANGED <<cached, completed>>
       ELSE /\ RefresherGoes(r, "answered", refresher[r].answers)
            /\ completed' = [answers |-> refresher[r].answers,
                             waiting |-> {s \in Refreshers : refresher[s].at = "waiting"}]
            /\ cached' = IF refresher[r].answers = {} THEN cached
                         ELSE [list |-> CHOOSE n \in refresher[r].answers : TRUE,
                               source |-> "guest", fresh |-> TRUE]
  /\ UNCHANGED <<changeVars, disk, seeder>>

\* The command keeps what it was answered on disk.
SaveVersions(r) ==
  /\ refresher[r].at = "answered"
  /\ refresher' = [refresher EXCEPT ![r] = [NotRefreshing EXCEPT !.at = "ended"]]
  /\ disk' = IF refresher[r].answers = {} THEN disk ELSE refresher[r].answers
  /\ UNCHANGED <<changeVars, cached, completed, seeder>>

-----------------------------------------------------------------------------
(* An installation, and the two invalidations. *)

Install(i) ==
  /\ change[i] = "idle"
  /\ change' = [change EXCEPT ![i] = "changed"] /\ installed' = installed + 1
  /\ UNCHANGED <<announced, cached, completed, disk, refresher, seeder>>

\* Mutant: the answer that others wait for is kept.
InvalidateCacheOnly(i) ==
  /\ change[i] = "changed"
  /\ change' = [change EXCEPT ![i] = "forgotten"]
  /\ announced' = [done |-> installed, generation |-> announced.generation + 1]
  /\ cached' = NotCached
  /\ UNCHANGED <<installed, completed, disk, refresher, seeder>>

Invalidate(i) ==
  /\ change[i] = "changed"
  /\ change' = [change EXCEPT ![i] = "forgotten"]
  /\ announced' = [done |-> installed, generation |-> announced.generation + 1]
  /\ cached' = NotCached /\ completed' = NotCompleted
  /\ UNCHANGED <<installed, disk, refresher, seeder>>

InvalidateDisk(i) ==
  /\ change[i] = "forgotten"
  /\ change' = [change EXCEPT ![i] = "ended"] /\ disk' = {}
  /\ UNCHANGED <<installed, announced, cached, completed, refresher, seeder>>

-----------------------------------------------------------------------------
(* The start page, and time. *)

LoadDisk(s) ==
  /\ seeder[s].at = "idle" /\ seeder' = [seeder EXCEPT ![s] = [at |-> "loaded", lists |-> disk]]
  /\ UNCHANGED <<changeVars, cached, completed, disk, refresher>>

\* Mutant: a seed replaces what the guest answered.
SeedAnyway(s) ==
  /\ seeder[s].at = "loaded" /\ seeder' = [seeder EXCEPT ![s] = [at |-> "ended", lists |-> {}]]
  /\ cached' = IF seeder[s].lists = {} THEN NotCached
               ELSE [list |-> CHOOSE n \in seeder[s].lists : TRUE, source |-> cached.source, fresh |-> TRUE]
  /\ UNCHANGED <<changeVars, completed, disk, refresher>>

\* seed: what the guest answered is never replaced, not even when it is old.
Seed(s) ==
  /\ seeder[s].at = "loaded" /\ seeder' = [seeder EXCEPT ![s] = [at |-> "ended", lists |-> {}]]
  /\ cached' = IF cached.source = "guest" THEN cached
               ELSE IF seeder[s].lists = {} THEN NotCached
               ELSE [list |-> CHOOSE n \in seeder[s].lists : TRUE, source |-> "disk", fresh |-> TRUE]
  /\ UNCHANGED <<changeVars, completed, disk, refresher>>

\* A minute passes.
Expire ==
  /\ cached.fresh /\ cached' = [cached EXCEPT !.fresh = FALSE]
  /\ UNCHANGED <<changeVars, completed, disk, refresher, seeder>>

-----------------------------------------------------------------------------
RefreshStep(r) == AskForVersions(r) \/ TakeTurn(r) \/ Detect(r) \/ CompleteRefresh(r) \/ SaveVersions(r)
InstallStep(i) == Install(i) \/ Invalidate(i) \/ InvalidateDisk(i)

VersionNext ==
  \/ \E r \in Refreshers : RefreshStep(r)
  \/ \E i \in Installers : InstallStep(i)
  \/ \E s \in Seeders : LoadDisk(s) \/ Seed(s)
  \/ Expire

VersionSpec == VersionInit /\ [][VersionNext]_versionVars

-----------------------------------------------------------------------------
(* What is checked.  A list from the disk may be older: a refresh that was     *)
(* answered before an installation may be saved after it.                      *)

\* A refresh is never answered with a list older than the last installation
\* that was announced when it was answered, neither its own nor the one it took
\* over from the refresh it waited for.
AnswerIsCurrent ==
  \A r \in Refreshers : refresher[r].at = "answered"
    => \A list \in refresher[r].answers : list >= refresher[r].owed

\* What the guest answered stays in memory only while nothing newer is
\* announced: a detection under way during an invalidation does not bring the
\* old list back, nor does a seed pass for an answer.
GuestListIsCurrent == cached.source = "guest" => cached.list >= announced.done

\* Neither an answer nor the memory is older than an announced change.
NoStaleList == AnswerIsCurrent /\ GuestListIsCurrent
=============================================================================

--------------------------- MODULE ProjectWorkspace ---------------------------
(***************************************************************************)
(* The list of projects in the window: the hook that asks for it           *)
(* (useProjects.ts), the scans of the workspace (commands/projects.rs),    *)
(* the watcher of its directory (project_watcher.rs) and the favourites    *)
(* (project_launches.rs), which a scan prunes.                             *)
(*                                                                         *)
(* A project is known by its directory and a name, and a list by the       *)
(* projects in it.  Left out are the rest of a record (version, pending    *)
(* launch), the limit of 256 records, a configuration or store that cannot *)
(* be read or written, the stars in the list, and the moment before the    *)
(* window listens to events.                                               *)
(***************************************************************************)
EXTENDS Naturals, Sequences

CONSTANTS
  Directories,     \* directories that are, one after the other, the workspace
  Projects,        \* projects that may be there, as pairs of directory and name
  MaxScans,        \* bound on the scans that are asked for
  MaxFileChanges,  \* bound on the projects that come and go
  MaxMoves,        \* bound on the changes of the workspace
  Nowhere

ASSUME WorkspaceAssumption ==
  Nowhere \notin Directories /\ MaxScans \in Nat \ {0} /\ {MaxFileChanges, MaxMoves} \subseteq Nat

In(d) == {p \in Projects : p[1] = d}

VARIABLES
  workspace,   \* the projects that exist, the directory that is configured, how often each changed
  watcher,     \* the directory that is watched, whether an event is on its way, and the scans whose
               \* directory was watched when they walked it, and has been since but for failures
  scans,       \* what was asked for, in order, and the scan that began last
  favorites,   \* the favourites, and those among them that nothing may take away
  hook         \* the state of the hook

workspaceVars == <<workspace, watcher, scans, favorites, hook>>

Numbers == 1..Len(scans.asked)
Scan(r) == scans.asked[r]

ScanRecord ==
  [source : Directories, root : Directories \union {Nowhere},
   at : {"asked", "loaded", "begun", "watched", "walked", "answered", "over"},
   sees : SUBSET Projects, whole : BOOLEAN, ok : BOOLEAN]

WorkspaceTypeOK ==
  /\ workspace \in [files : SUBSET Projects, changes : 0..MaxFileChanges,
                    root : Directories, moves : 0..MaxMoves]
  /\ watcher \in [on : Directories \union {Nowhere}, due : BOOLEAN, through : SUBSET (1..MaxScans)]
  /\ Len(scans.asked) <= MaxScans /\ \A r \in Numbers : Scan(r) \in ScanRecord
  /\ scans.latest \in 0..Len(scans.asked)
  /\ favorites \in [kept : SUBSET Projects, safe : SUBSET Projects]
  /\ hook \in [source : Directories, inFlight : Directories \union {Nowhere},
               timer : BOOLEAN, queued : BOOLEAN, missed : BOOLEAN,
               status : {"loading", "stale", "ready", "error"},
               shown : SUBSET Projects, whole : BOOLEAN]

NewScan(d) == [source |-> d, root |-> Nowhere, at |-> "asked", sees |-> {},
               whole |-> TRUE, ok |-> FALSE]

\* The window has just asked for the first list.
WorkspaceInit ==
  /\ workspace \in [files : SUBSET Projects, changes : {0}, root : Directories, moves : {0}]
  /\ watcher = [on |-> Nowhere, due |-> FALSE, through |-> {}]
  /\ scans = [asked |-> <<NewScan(workspace.root)>>, latest |-> 0]
  /\ favorites = [kept |-> {}, safe |-> {}]
  /\ hook = [source |-> workspace.root, inFlight |-> workspace.root, timer |-> FALSE,
             queued |-> FALSE, missed |-> FALSE, status |-> "loading", shown |-> {},
             whole |-> TRUE]

-----------------------------------------------------------------------------
(* The workspace and its watcher *)

ChangeFiles ==
  /\ workspace.changes < MaxFileChanges
  /\ \E p \in Projects :
       LET gone == p \in workspace.files
       IN /\ workspace' = [workspace EXCEPT !.changes = @ + 1,
                             !.files = IF gone THEN @ \ {p} ELSE @ \union {p}]
          /\ watcher' = [watcher EXCEPT !.due = @ \/ p \in In(watcher.on)]
          /\ favorites' = [favorites EXCEPT !.safe = @ \ {p}]
  /\ UNCHANGED <<scans, hook>>

\* The settings are saved; the hook hears of it later.
SaveDirectory ==
  /\ workspace.moves < MaxMoves
  /\ \E d \in Directories \ {workspace.root} :
       workspace' = [workspace EXCEPT !.root = d, !.moves = @ + 1]
  /\ UNCHANGED <<watcher, scans, favorites, hook>>

\* A watcher that fails is taken away, then the window is told.
WatcherFails ==
  /\ watcher.on # Nowhere /\ watcher' = [watcher EXCEPT !.on = Nowhere, !.due = TRUE]
  /\ UNCHANGED <<workspace, scans, favorites, hook>>

\* debounce_events, and the timer that the hook starts for its event.
EmitChange ==
  /\ watcher.due /\ watcher' = [watcher EXCEPT !.due = FALSE]
  /\ hook' = [hook EXCEPT !.timer = TRUE]
  /\ UNCHANGED <<workspace, scans, favorites>>

-----------------------------------------------------------------------------
(* The hook *)

\* refresh: whoever asks while the same source is being scanned gets that answer.
Refresh(l, asked) ==
  IF l.inFlight = l.source
  THEN hook' = l /\ scans' = [scans EXCEPT !.asked = asked]
  ELSE /\ Len(asked) < MaxScans
       /\ hook' = [l EXCEPT !.inFlight = l.source, !.queued = FALSE, !.missed = FALSE,
                            !.status = IF @ \in {"ready", "stale"} THEN @ ELSE "loading"]
       /\ scans' = [scans EXCEPT !.asked = Append(asked, NewScan(l.source))]

\* Mutant: a change during a scan is not remembered.
TimerFiresUnqueued ==
  /\ hook.timer
  /\ Refresh([hook EXCEPT !.timer = FALSE], scans.asked)
  /\ UNCHANGED <<workspace, watcher, favorites>>

TimerFires ==
  /\ hook.timer
  /\ Refresh([hook EXCEPT !.timer = FALSE, !.queued = @ \/ hook.inFlight = hook.source],
             scans.asked)
  /\ UNCHANGED <<workspace, watcher, favorites>>

\* The interval does not run while the list is loading or after an error.
Tick ==
  /\ hook.status \in {"ready", "stale"}
  /\ Refresh([hook EXCEPT !.queued = TRUE], scans.asked)
  /\ UNCHANGED <<workspace, watcher, favorites>>

UserRefreshes ==
  /\ hook.inFlight # hook.source /\ Refresh(hook, scans.asked)
  /\ UNCHANGED <<workspace, watcher, favorites>>

MoveSource ==
  /\ hook.source # workspace.root
  /\ Refresh([hook EXCEPT !.source = workspace.root, !.inFlight = Nowhere, !.status = "stale"],
             scans.asked)
  /\ UNCHANGED <<workspace, watcher, favorites>>

\* Mutant: whatever is answered is shown.
CountsAlways(r) == Scan(r).ok
\* An answer counts only for the request made last.
CountsNow(r) == r = Len(scans.asked) /\ Scan(r).source = hook.source

Over(r) == [scans.asked EXCEPT ![r] = [NewScan(@.source) EXCEPT !.at = "over"]]
\* setState
ListAfter(r) ==
  IF ~CountsNow(r) THEN hook
  ELSE IF Scan(r).ok
  THEN [hook EXCEPT !.status = "ready", !.shown = Scan(r).sees, !.whole = Scan(r).whole]
  ELSE [hook EXCEPT !.status = "error"]
\* The request in flight is over if it has the source of this one.
Freed(r) == [ListAfter(r) EXCEPT !.inFlight = IF @ = Scan(r).source THEN Nowhere ELSE @]

\* Mutant: the last refresh is taken for the queued one.
AnswerArrivesLast(r) ==
  /\ Scan(r).at = "answered"
  /\ hook' = [Freed(r) EXCEPT !.queued = FALSE]
  /\ scans' = [scans EXCEPT !.asked = Over(r)]
  /\ UNCHANGED <<workspace, watcher, favorites>>

\* An answer, then the queued refresh.  If a request of an earlier source ends last, that is given
\* to the one in flight, which may have walked already: the refresh is missed.
AnswerArrives(r) ==
  /\ Scan(r).at = "answered"
  /\ IF hook.queued
     THEN Refresh([Freed(r) EXCEPT !.queued = FALSE,
                                   !.missed = @ \/ hook.inFlight # Scan(r).source], Over(r))
     ELSE hook' = Freed(r) /\ scans' = [scans EXCEPT !.asked = Over(r)]
  /\ UNCHANGED <<workspace, watcher, favorites>>

HookNext ==
  TimerFires \/ Tick \/ UserRefreshes \/ MoveSource \/ \E r \in Numbers : AnswerArrives(r)

-----------------------------------------------------------------------------
(* get_projects *)

ScanGoes(r, from, to) ==
  Scan(r).at = from /\ scans' = [scans EXCEPT !.asked[r] = to]

LoadConfig(r) ==
  /\ ScanGoes(r, "asked", [Scan(r) EXCEPT !.at = "loaded", !.root = workspace.root])
  /\ UNCHANGED <<workspace, watcher, favorites, hook>>

\* begin_project_scan: all that began before are cancelled.
BeginScan(r) ==
  /\ Scan(r).at = "loaded"
  /\ scans' = [scans EXCEPT !.asked[r].at = "begun", !.latest = r]
  /\ UNCHANGED <<workspace, watcher, favorites, hook>>

\* project_watcher::refresh, before the walk.  Without a new one, the old one stays.
WatchRoot(r) ==
  /\ \E d \in {watcher.on, Scan(r).root} :
       /\ watcher' = [watcher EXCEPT !.on = d,
                                     !.through = IF watcher.on \in {d, Nowhere} THEN @ ELSE {}]
       /\ ScanGoes(r, "begun", [Scan(r) EXCEPT !.at = "watched"])
  /\ UNCHANGED <<workspace, favorites, hook>>

\* A walk that reaches a limit has seen a part.
WalkWorkspace(r) ==
  /\ \E found \in SUBSET (In(Scan(r).root) \intersect workspace.files), whole \in BOOLEAN :
       /\ whole => found = In(Scan(r).root) \intersect workspace.files
       /\ ScanGoes(r, "watched", [Scan(r) EXCEPT !.at = "walked", !.sees = found,
                                                 !.whole = whole])
  /\ watcher' = [watcher EXCEPT !.through = IF watcher.on = Scan(r).root THEN @ \union {r} ELSE @]
  /\ UNCHANGED <<workspace, favorites, hook>>

Fails(r) == ScanGoes(r, "walked", [NewScan(Scan(r).source) EXCEPT !.at = "answered"])
            /\ UNCHANGED favorites

\* apply_preferences for what scan r saw: favourites that are not there are dropped.
Applies(r) ==
  IF Scan(r).sees \subseteq workspace.files
  THEN LET kept == favorites.kept \intersect Scan(r).sees
           due == IF Scan(r).whole THEN favorites.safe \intersect In(Scan(r).root) ELSE {}
       IN /\ ScanGoes(r, "walked", [Scan(r) EXCEPT !.at = "answered", !.ok = TRUE])
          /\ favorites' = [kept |-> kept, safe |-> kept \union due]
  ELSE Fails(r)

\* Mutant: a scan that was superseded applies what it saw.
ApplyPreferencesLate(r) == Applies(r) /\ UNCHANGED <<workspace, watcher, hook>>

\* apply_preferences_if_current: only for the scan that began last.
ApplyPreferences(r) ==
  /\ IF scans.latest = r THEN Applies(r) ELSE Fails(r)
  /\ UNCHANGED <<workspace, watcher, hook>>

ScanNext ==
  \E r \in Numbers : \/ LoadConfig(r) \/ BeginScan(r) \/ WatchRoot(r)
                   \/ WalkWorkspace(r) \/ ApplyPreferences(r)

-----------------------------------------------------------------------------
(* The favourites *)

Scanning == \E r \in Numbers : r = scans.latest /\ Scan(r).at \in {"begun", "watched", "walked"}

\* A star is set while no scan is under way, or on what one may still miss.
SetFavorite ==
  /\ \E p \in hook.shown \intersect workspace.files :
       \/ favorites' = [kept |-> favorites.kept \union {p},
                        safe |-> IF Scanning THEN favorites.safe ELSE favorites.safe \union {p}]
       \/ favorites' = [kept |-> favorites.kept \ {p}, safe |-> favorites.safe \ {p}]
  /\ UNCHANGED <<workspace, watcher, scans, hook>>

\* inspect_external_selection applies the preferences to the project it was given, and so drops
\* all other favourites; a project outside the workspace has no key.
ChooseProject ==
  /\ \E p \in workspace.files \intersect In(workspace.root) :
       favorites' = [kept |-> favorites.kept \intersect {p},
                     safe |-> favorites.safe \intersect {p}]
  /\ UNCHANGED <<workspace, watcher, scans, hook>>

WorkspaceNext ==
  \/ ChangeFiles \/ SaveDirectory \/ WatcherFails \/ EmitChange
  \/ HookNext \/ ScanNext \/ SetFavorite \/ ChooseProject

WorkspaceSpec == WorkspaceInit /\ [][WorkspaceNext]_workspaceVars

-----------------------------------------------------------------------------
(* Properties *)

\* A favourite that was set while nothing was scanned, or that a scan has seen, stays as long as
\* its project is in the workspace: no late scan takes it away.  A scan cut short, one of
\* another directory, and the choice of a project may.
FavoritesStay == favorites.safe \subseteq favorites.kept

NothingUnderWay ==
  ~watcher.due /\ ~hook.timer /\ ~hook.queued /\ Scan(Len(scans.asked)).at = "over"

\* Once nothing is on its way any more, the window shows the projects that are there, whenever
\* they came or went and whatever was answered late.  Excepted are a scan that failed or was cut
\* short, a directory from which a scan of another one has taken the watcher since it was
\* walked, and the refresh that AnswerArrives loses.
ShownIsThere ==
  /\ NothingUnderWay /\ ~hook.missed /\ hook.status = "ready" /\ hook.whole
  /\ watcher.on = hook.source /\ Len(scans.asked) \in watcher.through
  => hook.shown = In(hook.source) \intersect workspace.files

ListIsCurrent == FavoritesStay /\ ShownIsThere
=============================================================================

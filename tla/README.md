# A verification of Mendimaru's shared state

Mendimaru runs Mendix Studio Pro, and the Mendix Runtime of local projects,
inside a WinBoat Windows VM. Several Mendimaru processes of one user (the
desktop application, CLI commands, the keepers behind running Studio sessions,
an installed older version) act on one VM without a daemon between them. What
they share is files: advisory locks, the VM's Compose file, a port registry, one
record per Runtime session. Inside a process, commands and background tasks
share queues under a mutex and outlive each other's futures.

This directory holds TLA+ modules of the parts where that sharing happens, TLC
configurations for small instances, and TLAPS proofs for all instances of what
matters most. All source paths below are relative to `src-tauri/src/`, all
`docs/` paths to the repository.

## Inventory

### Modelled

| part | state | operations | shared with | what makes it hard | what makes it correct |
|---|---|---|---|---|---|
| VM coordination locks: `winboat/vm_use.rs`, `winboat/maintenance.rs`, `winboat/runtime/stop_lock.rs` | kernel locks on five files, two of them older versions' | shared and exclusive lease, nested reuse, maintenance guards, stop lock, probes | every command of every process | opposite orders, polling and refusing locks mixed, nested scopes, kills, older versions | exclusion; no descriptor outlives its command; no circular wait; waits end |
| VM Runtime sessions: `winboat/runtime.rs`; port registry: `winboat/vm_ports.rs`; Compose mappings: `config/compose.rs` | record files, registry, Compose file, saved originals, the VM | start, prepare, status, wait, stop, forget | sessions of all caches, Docker, the user | a dozen writes per command, each of which can fail; rollback; deferred cleanup; status and forget beside the lease | one active session per port; nobody loses a VM; the user's forwarding comes back |
| Install queue: `downloads/queue.rs` | items, store, watch channel, cancellation, the worker flag | enqueue, cancel, retry, remove, move, restore, worker, wait | commands, worker tasks, restarts | the flag is outside the mutex; snapshots are published after it; saves fail | one installation; no lost wakeup; nothing lost at a restart |
| UI job coordination: `ui_automation/coordination.rs`, `cli/ui.rs`, keeper loop in `cli.rs` | gate with its waiters, turns, desktop lock, lease, history | reserve, enqueue, admit, finish, give up, drain | callers, keepers, other sessions | a turn is sent while its receiver goes away; drops in the right order, outside the mutex | one turn, in accept order, never lost |
| Shared browser test sessions: `winboat/test_session.rs`, its callers in `application.rs` | record file, one lock file per worker, finalize lock | prepare, attach, detach, status, finalize | owner, workers, finalizers, status; the VM lease | attach races finalize; every process may die at every step | nobody is attached to a finalized session; its policy is applied once |
| Portable Runtime: `portable_runtime/supervisor.rs`, `process.rs` | record, stop request, two pipes, process group | start, status, stop, the supervisor's own steps | starter, supervisor, status and stop commands | one record with four kinds of writers and no lock | an ended record has no process; a start that failed leaves nothing |
| Portable builds: `portable_runtime/mod.rs` | cache entries, registry, project lock | build, clean, the copy of a start | builds and starts of a project, its editor | digest before the lock, copy without it | what was asked for is what is started, whole |
| Operation history: `operations.rs` | history file, active sets of each process | begin, finish, session action, retry, list, clear, undo of a launch | tasks of a process, processes | decisions in one transaction, used in the next | a mutation is alone; what runs is recorded so |
| Studio session keeper: `winboat/sessions.rs`, `cli.rs` | registry of clients, "stopping" entries, monitors in the guest | launch, observe, stop, reconnect, retire, end | callers of the keeper's socket, the guest | a client is outside the registry while it is stopped or connected again | the keeper holds the client of its Studio until that is gone; neither it nor the Runtime ends before |
| Studio launch: `winboat/studio.rs`, `winboat/project_access.rs`, two scripts in the guest | step of the command, its connection, client, Runtime, drive record; report, processes and locks in the guest | run, retry, abort, answer, register, link, verify, clean up after a late failure | the keeper, the guest's scripts, Studio's user | two nested retries; each attempt's script goes on; Studio ends between two steps; the cleanup fails too | a repeatable failure left nothing of its own; a Studio that is open keeps lock, client and Runtime |
| Host relay: `winboat/host_service.rs` | record, flock, socket of each relay | start, keeper, stop, status, list | starts, status and stop commands, Studio | overlapping starts; a stop inside a request | one relay per Runtime; it is gone with Runtime and Studio |
| Settings: `settings.rs`, `config/store.rs`, `config/compose.rs` | configuration, its temporary file, Compose file, the VM | preview, save, rollback | saves, commands that write the configuration alone, the user | two files and a VM, each may fail, also in the rollback | both files or neither, or an error says so |
| Installer cache: `downloads.rs`, `downloads/cache.rs` | partial file and its state, installer and metadata | inspect, resume, verify, stage, commit | later commands, the server | kills between two writes, a server that changes the file | one release from first to last byte |
| Version lists: `winboat/version_cache.rs`, `studio_cache.rs` | cache with its generation, queue of refreshes, copy on disk | get, refresh, invalidate, seed | commands of a process | a detection under way during an installation | no answer older than the last announced change |
| Firmware recovery: `winboat/nvram.rs` | plan in memory, variable store, backup and retired files | preview, recover, rollback, restore | the VM, which makes a store when it has none | renames that fail, a rollback that fails | no store is lost, and a retired one stays known |
| Browser tests: `browser.rs`, `browser/environment.rs`, `winboat/test_session.rs` 411-433, the repository's `scripts/browser-*.mjs` | app lock, lanes of a runner, environment report, store of runs with its lock | test, list a run | other commands of the VM, its users | lanes share one application; a page goes on after its test was told to end; the environment changes and changes back; pruning is killed midway | no test beside a write it could observe; a pass is of one environment; what is listed is whole |
| Commands: `process.rs` | process group, two pipes with readers, deadline, cancellation token | run, read, cancel, terminate, reap, drain | the caller, a thread that cancels, the processes started | children keep pipes, ignore signals or leave; a pipe is full; the cancellation comes first | whole output or an error; a command given up runs nothing more; all in the caller's time |
| Project list: `useProjects.ts` of the window, `commands/projects.rs`, `projects.rs`, `project_watcher.rs`, `project_launches.rs` | list, request in flight, timer and queue of the hook; scans; watcher; favourites | refresh, scan, watch, apply preferences, set a favourite | window, watcher thread, scans, settings | files and directory change during a scan; answers come late; scans prune favourites | what is shown is there, once nothing is on its way; favourites stay |
| Guest operations and RDP trust: `winboat/operation.rs`, `operation/runner.rs`, `rdp_trust.rs`, `security.rs` | report file, last report seen, trust anchor, pins per port | attempt, retry, read report, second answer, confirm certificate | the script in the guest, operations of other processes | the first attempt's script goes on beside the second; ports move; first use happens twice at once | an answer is of the attempt that waits, newer than the one before, and from the trusted server |

How they meet: a Runtime start or stop is a job of the locks and then the owner
of the registry and the file. A keeper's UI job takes its turn, then the desktop,
then the lease of the VM. The end of a Studio session stops the Runtime sessions
linked to it. The worker of the install queue runs an installation, which takes
the exclusive lease as a tracked launch does. The stop of a host relay asks the
Studio keeper, then stops the Runtime under the exclusive lease; a test session
holds the VM shared while a suite runs; an installation invalidates the version
lists. Each module models its neighbour by the answers it can give.

### Not modelled

Left out, one table row of `PROJECT.json` each, with the reason: VM start and
readiness (`winboat/container.rs`, `startup.rs`, `clock.rs`, `rdp_probe.rs`: bounded
waits for external services); project staging, asset mirror and normalizer (files
copied by one command); the UI bridge (external: a request that ends by its
deadline); the marketplace (an external program driven by one caller); the Windows
backend; parsing, dispatch and contracts; diagnostics and localization; the frontend
but for the hook of the project list.

## Modules

### `VmCoordination`

A command is a job: the list of lock requests of its call chain (`Programs`, one
row per chain). The actions grant (`TryLock`), reuse (`Reuse`: the task-local
list `HELD`) or refuse (`RefuseUpgrade`, `RefuseBusy`) the next request; `Finish`,
`Cancel` and `Crash` close every descriptor. `try` requests fail at once, `poll`
requests have a deadline, which may pass at any time while the file is busy. A
grant is one step because `flock` is. Older versions (`OldProcs`) know the
legacy files only. Left out: trust checks of the lock files; the desktop lock
(it is in `UiCoordination`).

### `VmRuntime` and `RuntimeOwnership`

`op` is the program counter and the local variables of the one command that
holds the exclusive lease (`VmCoordination` shows that there is one). Each file
write, registry update, Docker call and destructor is a step of its own, so a
kill or a failure can come between any two. `Load`/`Write` are status and wait,
which refresh a record under the shared lease; `ForgetCheck`/`ForgetRename` take
no lease. A port's forwarding is the set of its mappings, `exact` for
Mendimaru's own and `user` for any other; the bytes of the file are its
forwarding and a counter for everything else. Refreshes return any state the
observation can give. `Hazards` switches what the environment does, so that a
run asks one question.

`RuntimeOwnership` is the promise of these commands in three variables: owner of
a port, who is leaving, what the VM forwards. A port is claimed only when free and
forwarded, and the VM recreated only while nobody but the leaving session owns
a port. `VmRuntime!OwnershipKept` checks that the commands implement it, with the
owner of a port defined as the session whose record is active on it.

### `InstallQueue`

One action per command, with its save (`Commit`), and the two steps after the
mutex is released (`Publish`, `Ensure`); one action per step of the worker task
between two of its locks. `Restart` is a kill with what `restore` makes of the
store. The installation is external: it reports progress, ends, fails or is
cancelled. `Watched` switches the watch channel, which only waiting commands
read. With `disk`, saves fail; with `history`, so does the record of a success.

### `UiCoordination`

`entry`, `chan` and `busy` are the gate of each session: slots of the waiters, the
one-shot channels, and whether the turn is out. `Pump` is `SessionGate::pump`;
`orphan` is a turn that could not be delivered and is dropped after the mutex
was released (`Unwind`). A job runs through `reserved`, `queued`, `desktop`,
`entered`, `running`, and releases desktop, turn and lease in three steps.
`GiveUp` is a deadline or a caller that closed its end; `Vanish` is a dropped
future, possible only where the application owns the session itself. A keeper
drains for three seconds (`Drained`, `TimedOut`) or dies (`Crash`). Arrival
numbers are left out: the order is that of joining the waiters, which a keeper
does in its one accept loop.

### `TestSession`

`record` is the state in the descriptor, `files` the lock files in the
participants' directory. A worker creates its file (`Open`), locks it (`Lock`) and
reads the record again (`Reread`); a finalizer takes its lock and changes the
record (`Enter`), then lists the files and tries each lock (`ListFiles`, `Try`,
`Unlock`). The status command does the same without the lock, so that its
probing can make a finalizer count somebody in use. `Finalizing` and `HoldsOwn`
say who holds which lock, `SharesVm` who holds the VM.

### `PortableRuntime` and `PortableBuild`

`PortableRuntime` is one session. The record is written whole by starter,
supervisor, status and stop, so each write carries what its writer had read.
`KillSupervisor` and `KillGroup` are the two ways a stop ends the processes;
`RuntimeForks` makes a child that outlives the first one, `SupervisorKilled` is a
kill from outside. `PortableBuild` is the cache of one project: an entry is known
by its digest, and a package by its number; removal and copy take two steps, so
that a kill or another command comes between. `cleaning` tells that `--clean` has
run, `Contents` of the project are ordered by age. `PortableApp` puts both side by side,
since what a user asks of them is one thing (`PortableIsKept`).

### `OperationHistory`

`history` is the file, `store` the transaction of each process under its mutex
(`OpenStore` to `CloseStore`); `Reconcile` and `Trim` belong to the transaction.
A task is an operation, a session action or a retry. A process may end at any
time, and its tasks with it; with `Concurrent = FALSE` one begins when the other
has ended.

### `SessionKeeper`

`clients` is the registry with the transport and report of one monitor, `Held` the
client a stop has taken out of it. Every connection starts a monitor in the guest
(`StartMonitor`), which follows Studio, reports its exit and takes the control of a
stop. A transport can be lost at any time. `Refreshed` is what the registry makes
of a client before each use. The keeper ends in steps: an observed exit
(`Observe`, `ObservedCleans`), an answered stop (`StopCleans`) or a launch nobody
accepted (`NotAccepted`, `UnacceptedCleaned`) each call `cleanup_linked_runtimes`,
`CleanUpRuntime`, which may leave the Runtime as it is: paths or configuration that
cannot be read end it early, and the error of the stop, for one that of a busy VM, is
thrown away (`cli.rs` 2090-2098). The keeper goes on to its end all the same, so that
a Runtime whose Studio is gone may stay, until it is stopped by its own command; no property
says otherwise. `KeeperLost` is a keeper that is killed or whose listener fails.

### `HostRelay`

A start lists the relays, spawns a keeper and waits for its offer (`StartLists`,
`StartAccepts`); the keeper takes the flock (`KeeperLocks`), prepares, offers and is
accepted. A relay serves one request at a time, so that a question to a relay
that stops waits. `StudioConfirms` and `StudioRefuses` are what the Studio keeper
answers, `RuntimeBusy` the three seconds that end while a status command holds
the VM. A Runtime record that cannot be read counts as stopped, as it does for the
relay's poll; a stop of a relay whose record says stopped, or whose socket nobody
serves, is answered as done without it ("over").

### `SettingsSave`

`saver` is the program counter and the memory of each save: `rev`, the Compose file
it planned with, and `cfg`, the previous configuration. The temporary file has one
name, so `RenameTemp` installs what is there. `overlap` remembers that a command
without a lease has written during a save, or during another one.

### `InstallerCache`

A file is the sequence of its chunks, each known by the release it came from, so
that a mixed file can be told. `Respond` is the answer to a request with or without
`If-Range`; `Interrupted` and the kills leave what is on disk by then. The commit
renames four files (`BackUpInstaller` to `NameMetadata`) and undoes them
(`CommitFails`).

### `VersionCache`

A list is the number of changes it reflects, `announced.done` the changes that the
generation covers. `TakeTurn` is the mutex of the refreshes with the answer of the
predecessor, `CompleteRefresh` drops an answer of an older generation. The copy on
disk is saved and removed outside of both.

### `UefiRecovery`

Each plan has a backup, a retired original and a store put aside. `BackUpStore`,
`RetireStore`, `PutAside` and `RestoreStore` are the renames, each of which may fail
(`KeepPlan`); `BootVm` and `VmIsStarted` make a store where there is none.
`UefiKilled` forgets the plan.

### `WindowsOperation`

`call` is `run_windows_operation`, step by step, with the certificate that FreeRDP
must see (`required`) or has seen (`accepted`) and the report seen last; `share` is
what outlives an attempt, the report file and the scripts in the guest
(`WriteReport`). A report carries the attempt whose key authenticates it. `GiveUp`
is every way in which a wait ends without an answer, rejected certificates
included. `prepare_for` reads the anchor and then the pins, `confirm` looks for an
anchor and then creates one, in two steps each. Pins may be there from older
versions; `legacy` remembers them. A port can be mapped anew before each attempt,
and what listens on it can be another server. The second wait of a Studio launch
(`FollowUp`) goes on with the sequence of the first.

### `StudioLaunch`

`studioCall` is `launch_studio_with_lease` from the Runtime it prepares to its
answer, then `recover_post_success_failure`, step by step (`StopRegistered` to
`WriteCleanupReport`). `ConnectGuest` to `AbortIncompleteLaunch` are its two runs of
two connections. `GuestOfLaunch` is the script of each connection, alive or given
up, with the Studio it started: `HandOver` leaves the window to a child, `StudioEnds`
is its user or a crash. `retry` is the answer that the launch may be repeated.

### `BrowserTests`

`testing` is one command: its suite with the state of each test, what the runner has seen
of the environment and what it has not, and the runs it is about to prune.
`AcquireAppUse` is the lock of the application under test, shared by suites that only
read. `AdmitTest` to `CloseContext` are the lanes of the runner (`runBounded` with its
`ResourceScheduler`): a test that was told to end is `failing` until its page is closed.
`ChangeEnvironment` may also take a change back. The store is `runDirs`, with
`changedSince` for the times of change: of each run, those that were changed since;
`CommitRun` and `PruneRun` hold its lock, and a directory is removed in two steps, which
makes it the newest one in between. `ListRun` is another command. The runner that a
killed command leaves is left out.

### `CommandExecution`

`running` is the step of `output`, its result and the time it may have taken by
then, `member` the processes with the pipes they hold. `SelectCompletion` is the
`select!`; `TerminateGroup` to `ReapDescendants` are `terminate_and_reap`, in which
every wait may take all of its time, and `DrainPipes` waits for the readers. Time is
counted in steps of 50 ms for a policy of `within_budget`: 400 ms are reserved.
`NotifyWaiters` tells who has registered by then, `AwaitCancel` registers first and
looks at the flag next. A process may leave the group, or ignore what is not
SIGKILL.

### `ProjectWorkspace`

`hook` is the state of `useProjects`: the request in flight with its directory, the
timer of a change, the queued refresh and what is shown. `scans` has every
request in order with the steps of `get_projects`; the last one asked for is the one
whose answer counts in the window, the last one begun the one that may apply its
preferences. `favorites.safe` are those that the property protects: set while no
scan was under way, or seen by one. `missed` tells that `AnswerArrives` gave a queued
refresh to a request of another directory.
`watcher.through` is history, which no step reads: the scans whose directory was watched
when they walked it, and from which no scan of another directory has taken the watcher
since. Only of what such a scan saw does anybody hear a change.

### `MCHostProtocols` and `MCRuntimes`

`MCHostProtocols` puts nine modules side by side that share no state
(`OperationHistory`, `SettingsSave`, `InstallerCache`, `WindowsOperation`,
`SessionKeeper`, `HostRelay`, `BrowserTests`, `CommandExecution`,
`ProjectWorkspace`), `MCRuntimes` seven around the VM and its Runtimes (`VmRuntime`,
`TestSession`, `PortableRuntime`, `PortableBuild`, `StudioLaunch`, `UefiRecovery`,
`VersionCache`).
`part` says which one a behaviour follows, and the others stay in their first
states. The state space is the sum, in one run; states are told apart by the
variables of their part (`MCView`), since no other variable changes.

## Runs

Bounds are the constants of each `.cfg`; every run explores all of its states.

| run | instance | question |
|---|---|---|
| `coordination` | two current processes, one older, two VMs | do the open locks match the running commands (`LocksMatch`), do recovery and changes work alone (`WorksAlone`), is there a circular or an hour's wait (`WaitsAreBounded`), does every command end (`EveryJobEnds`) |
| `runtime_safe` | two sessions, two ports, two caches (which are alike: `MCSymmetry`), one reader, every failure and kill, one edit of the user | one active session per port, do records and registry agree (`PortsOwned`), is a reservation refused for a failed session only (`ConflictsAreFailed`), is stopped final |
| `runtimes` | `VmRuntime` with four sessions, two ports, one prepared by the user, one edit of the user, no failures; six modules more, see below | `VmRuntime`: does anyone lose the VM, is the user's forwarding restored (`VmIsSharedSafely`), are deferred cleanups done, is `RuntimeOwnership` implemented; `TestSession`: is anybody left in a finalized session (`FinalizedAlone`), is the policy applied once (`StoppedOnce`), who reopens it; `PortableRuntime`, `PortableBuild`: has an ended record a process, does a stop stop, does a failed start end, is a package whole while it is used, and no older than asked (`PortableIsKept`); `StudioLaunch`: does a repeatable failure leave anything, does an open Studio keep its lock, client and Runtime (`LaunchAnswersForItsStudio`); `VersionCache`: is a list current (`NoStaleList`); `UefiRecovery`: is a store lost or forgotten (`RetiredIsKnown`, `StoresAreKept`) |
| `queue_safe` | two commands, two tasks, two items, failing saves, kills | one installation; cancellation hits the right one; saved outcomes are final |
| `queue_live` | one command, two tasks, two items, one retry | no lost wakeup and a store that is never behind (`NothingGetsLost`), everything queued is taken up |
| `ui_queue` | two jobs at a keeper, two at the application, desktop contention | one turn, in order, never lost; the desktop is held within the turn and the drain's count is right (`LineIsKept`); every job ends |
| `host_protocols` | per module, see below | `OperationHistory`: is a mutation alone, is what runs recorded, is what is retried over; `SettingsSave`: both files or neither; `InstallerCache`: one release per file, does the previous installer survive; `WindowsOperation`: is an answer the one waited for, from the trusted server; `SessionKeeper`: is Studio's client held until the end, is any transport stray, do Runtime and keeper outlive Studio (`SessionIsKept`); `HostRelay`: one relay, gone with its Runtime (`OneRelayToTheEnd`); `BrowserTests`: does a test run beside a write, is a change of the environment told, is what is listed whole (`EvidenceIsSound`); `CommandExecution`: is the output whole, does anything run on, is a cancellation heard, is the cleanup in time (`CommandsEndCleanly`); `ProjectWorkspace`: is the list the one of the files, do favourites stay (`ListIsCurrent`) |

The other five runs find a counterexample; see below.

Why the bounds are enough: two commands on one VM already show every pair of
lock orders, the third actor closes cycles of three, and two VMs are what a
settings save names. A port conflict, a deferred cleanup and its successor need
two sessions; adoption, deferral and reuse of the same port need four. Two worker
tasks are the one that goes idle and the one spawned meanwhile, two items one
that is installed and one that arrives. In a gate, two jobs show every race
between a holder and a waiter; chains of three are covered by the proof of
`TurnAccounted`, which knows no bound.

`runtimes` and `host_protocols` use, per module: two workers, two finalizers and a status
command (a second finalizer enters after, or instead of, the first; a third adds nothing
the proofs leave open); two status and two stop commands on one portable session, so that
a write of each kind can be late; two builds and three packages with one edit (a hit, a
stale entry and its replacement); three tasks in a history of two records, so that
trimming meets what runs, and one process that is restarted; two stops and two
reconnections with three monitors (the first one and one of each reconnection); two
starts, one status and one stop of a relay; two saves, one other writer and one edit of
the user; three chunks and two changes of the server, so that it can take one back; two
refreshes, two installations and one seed; three plans; two operations, one a launch with
two answers and two attempts, the other of one attempt that reports once, two ports, two
certificates and two reports of the launch in all, from any pins of an older version; two
connections of a launch, the second one of the first run or the first one of the second
run (a run that gets no connection fails); two commands with suites of up to three tests
and two lanes, so that the third test finds a lane taken or overtakes, and one earlier
run in a store that keeps one, so that pruning removes two; one child of a command, two
writes to a pipe that holds one and of which one is kept, so that a writer waits and
something is cut off; two directories, one project, two scans, two changes of the files
and one of the directory, so that an answer is late and a refresh queued (three scans,
which take 2.1 million states alone, find nothing more). Every count that a property
compares (`stops`, stores, plans) stays below its bound in some behaviour and reaches it
in another.

What the fairness says, and why the code justifies it:

- `VmCoordination!FairSpec`: a command that can go on does. Every poll has a
  deadline and every other lock is tried once, so refusing is a step of the
  command itself. Nobody is assumed to release a lock early.
- `InstallQueue!FairSpec`: spawned tasks and called commands are run (weak), and
  an installation ends however often it reports progress (strong fairness of
  `Finish`: the process has a timeout). No command is assumed to be called.
- `UiCoordination!FairSpec`: while some task or drop can go on, one does. No
  deadline, caller or keeper is assumed to act, so `EveryJobEnds` says that the
  three locks need no timeout. The guest request is bounded by its deadline,
  which is why `End` belongs to the task.
- `runtime_safe`, `runtimes` and `host_protocols` check safety only and assume no fairness.

`CHECK_DEADLOCK FALSE` is set where the system may really stop: all commands have
been made, all jobs done.

A property is the conjunction of the parts that make one promise; the parts are
named and commented next to it. Every part has a mutant: a definition of the same
module, marked `Mutant`, that changes one action or helper the way a plausible bug
would, and under which the run finds the property violated.

## Proofs

Proved for any number of processes, VMs, commands, tasks, items, jobs, sessions, ports,
caches, readers, workers, relays, saves, refreshes, installations, plans, operations,
requests, connections, builds, suites and stored runs, from the named assumptions on the
constants only (`ActorsAssumption`, `VMsAssumption`, `UiAssumption`,
`TestSessionAssumption`, `RuntimeAssumption`, `CommandAssumption`, `SettingsAssumption`,
`InstallerAssumption`, `UefiAssumption`, `KeeperAssumption`, `WinAssumption`,
`LaunchAssumption`, `WorkspaceAssumption`, `HistoryAssumption`, `PortableAssumption`,
`BuildAssumption`, `BrowserTestsAssumption`; the others need none). `Processes_proofs`,
`Stores_proofs`, `Guest_proofs`, `TestSession_proofs` and `UiCoordination_proofs` hold
the theorems of several components, which share no state; each component has an invariant
of its own. Some theorems assume, besides, that the environment spares the program
something (`Calm`, `Undisturbed`, a disk that can be written, `~Concurrent`), and two
that a history is long enough (`NoneForgotten`, `Ample`); each says what, and what goes
wrong otherwise. `RuntimeAssumption` has at least one cache directory: every process has
one (`MENDIMARU_CACHE_DIR` or its default). `UiAssumption` has finitely many jobs, which
may be as many as one likes: the code numbers them one after the other.
`PortableAssumption` has no command that is both a status and a stop;
`BrowserTestsAssumption` has finitely many runs, new and stored, and a retention of at
least one, which the code checks for its configuration.

- `VmCoordination_proofs!LocksMatchJobs`: `TypeOK` and `LocksMatch`. The inductive
  invariant `IndInv` adds `NoConflict`, no two descriptors of a file unless both are
  shared: without it, a granted request says nothing about others.
- `VmCoordination_proofs!WorkIsExclusive`: `WorksAlone`. From `IndInv` two commands
  at work have all their requests granted and no two of these conflict
  (`Exclusion`); the rest is what the programs request (`MaintRequest`,
  `UseRequest`, `RecoveryRequest`). So the exclusions hold whichever lock is taken
  first.
- `VmCoordination_proofs!WaitsStayBounded`: `WaitsAreBounded`. No program polls for
  what is not above all it has taken (`ProgramsClimb`): the leases in the order of the
  VMs, then the stop lock, then the older one; a lease it holds already is reused. So
  who is waited for waits for something higher (`WaitsClimb`), which excludes circles
  of any length; `maint`, which recovery and launches take in opposite orders, is
  never waited for. Whoever is at the stop lock, but for a probe, has the exclusive
  lease of its VM (`StopAfterUse`), so no two stops meet there.
- `VmRuntime_proofs!OnePortOneRuntime`: `PortsOwned`, by `PortInv`, under every
  failure, kill, forgotten record, second stop and edit that the module has. No
  two live entries have one port, because a reservation looks through a registry
  that was reconciled with the records; an entry is live as long as its record is
  active, because an entry is only dropped by a step that knows the record to be
  out of use (`SeenAgrees`, `StopAgrees`), and no reader refreshes a record while a
  command is on its way (`ReadersAgree`). `PortsOwned` alone says nothing of a
  start between its reservation and its record. `StoppedSessionsStay`:
  `StoppedIsFinal`, since whoever writes an active state has a record that is
  registered and not stopped. `RuntimeTypes`: `TypeOK`, where the types of file
  contents (`FileTypes`) rest on the registry's: what a stop puts back on a port is what
  the first of its sessions remembers. `ReservationsAreFree`:
  `ConflictsAreFailed`, by `PortFree`, which follows the port from the request of a start to
  its reservation: the lease keeps readers from writing, and the one live entry left is
  that of the failed session a preparation has refreshed.
- `VmRuntime_proofs!PortsAreOwned`: `OwnershipKept`, the refinement of
  `RuntimeOwnership`, step by step, and `SessionsAreServed`: `LiveAreServed`, both with
  `Calm`: no container command, registry or record write fails and no process dies
  (records may be forgotten, stops repeated and files edited). By `CalmInv`, which adds
  to `PortInv` and the types: the VM forwards what the file says but for the change
  under way (`Mirrored`); both serve every registered session (`RegisteredServed`);
  who is about to recreate saw nobody else live (`ChangesAlone`), and what it saw is
  what is registered (`SeenIsRegistered`), because nobody reserves while it holds the
  lease. `Calm` is needed: a failing inspection recreates the VM under a live session
  (`runtime_silent_recreation`).
- `VmRuntime_proofs!SharedSafely`: `VmIsSharedSafely`, and `PutOffForwardingGoes`:
  `DeferredForwardingRemoved`, with `Undisturbed`: `Calm`, and no record is forgotten and
  no stopped session stopped again. By `QuietInv`: the first registered session of a
  port remembers what the user had there (`Remembered`), identifiers are given out in
  order (`InOrder`), a cleanup is put off for a session that is live (`PutOffForOthers`),
  and each saved original differs from the managed file in the session's own port only
  (`OriginalsSaved`). A forgotten record takes that memory along, and a repeated stop
  takes the user's mapping for its own (`runtime_second_stop`).
- `InstallQueue_proofs!OneInstallation`: `OneInstall`, by the token invariant
  `TokenInv`: a task between its spawn and the moment it clears the flag holds the
  flag, it is the only one, and the flag is up. `OneInstall` alone is not
  inductive: a task about to begin is no installation yet. `QueueTypes`: `TypeOK`, and
  `CurrentIsRight`: `CurrentIsInstalling`, by `QueueInv`, which adds the types and what
  is remembered of the current item (`CurrentInv`). Commands change items in three ways
  and tasks in four (`ByUser`, `ByTask`), so most steps are lemmas about these.
- `InstallQueue_proofs!NothingLost`: `NothingGetsLost`, while the queue file can be
  written: what is queued has a task, or a command that is about to wake one (`Alive`),
  and the store has every item and outcome that a later start must find. With a full
  disk the code keeps going and says so, and a kill loses what was not saved.
  `OutcomesAreFinal`: `OutcomeIsFinal`, while the history can be written: otherwise a
  success whose history record fails is turned into a failure after it was saved.
- `UiCoordination_proofs!TurnsAccounted`: `TurnAccounted`, by `Inv`: the
  turn of a session is with one job, on its way home, or at home, and a job in
  line does not hold it. The lemma `PumpKeeps` carries the argument; a pump
  is only done with the turn at home (`UpdateKeeps`). `TurnsInOrder`: `LineMoves` and
  the half of `AdmittedAreKnown` about the desktop. `LineMoves` says nothing of a turn
  that is passed on, so `LineInv` adds that places grow with the line, that who has the
  turn has a smaller place than everybody in line, and that nobody in front is ready
  while the turn is at home (`Places`, `InTurn`, `Stalls`). `UiTypes`: `TypeOK`.
- `UiCoordination_proofs!LinesAreKept`: `LineIsKept`, as long as no history forgets a job
  that waits or works (`NoneForgotten`): `UiInv` counts the jobs shown as running
  (`Tallied`), and with that hypothesis these are the ones at work. Without it the count
  is wrong for good: what a full history evicted is never counted down, and a drain
  waits until its three seconds are over. `RoomSuffices`: a history with room for every
  job of a session forgets none, as in the run.
- `UiCoordination_proofs!ListsAreTrue`: `ListIsCurrent`, by `WorkInv`. While the directory
  of the scan asked for last has been watched since its walk, what that scan saw is there,
  or word of a change is on its way: an event, the timer, a queued refresh, or one that was
  lost (`Announced`). Only a new request takes that word away, and it sees the change. A
  favourite that must stay is seen by the scan that may drop it (`SafeIsSeen`), or a scan
  is under way when it is set, which then does not protect it. An earlier form of the
  property asked only whether the watcher is where the scan was: it held in the run, and
  for larger bounds TLC refuted it, with a late scan of another directory that took the
  watcher away and a third one that brought it back. `WorkspaceTypesHold`:
  `WorkspaceTypeOK`. `WorkspaceAssumption` has at least one scan, the one the window
  begins with.
- `TestSession_proofs!NobodyIsLeftBehind`: `FinalizedAlone`, by `TestInv`. A worker
  creates its file before it reads the record under its lock, a finalizer changes
  the record before it lists the files: so every worker that is attached is among
  the files still to try or among those found in use (`ListCovers`), as long as
  files are not removed (`FilesHold`).
- `TestSession_proofs!PolicyAppliedOnce`: `StoppedOnce`. A stop is counted against
  the one finalizer at work, against a record that is final, or against a
  finalizer that died (`StopsCounted`). `OnlyItsFinalizerReopens`:
  `ReopenedByItsFinalizer`, because finalizers exclude each other and the record
  says that one is at work (`OneFinalizer`, `Marked`).
- `Processes_proofs!OneRelayAtATime`: `OneRelayToTheEnd`, by `RelayInv`. The flock
  makes the keeper that lives unique (`OneAlive`); a keeper whose start failed was
  killed before it was accepted (`StartsTell`); what a stop records and answers
  follows from the step it was taken in (`StopsTell`).
- `Processes_proofs!CommandsEnd`: `CommandsEndCleanly`, by `CommandInv`. How much of the
  budget is spent and how the command ends follow from the step it is at (`Spending`);
  a reader ends only when its pipe is empty and nobody holds it, which stays so
  (`Reading`); the group is empty from its kill on, because only the living start others
  (`Living`). The steps of the command only take away from what lives (`OnlyFewer`).
  `CommandTypesHold`: `CommandTypeOK`.
- `Processes_proofs!PortableKept`: `PortableIsKept`, from the two that follow.
- `Processes_proofs!SessionsEnd`: `EndIsTheEnd`, by `PortableInv`. The starter's step says
  how far the supervisor is (`StartFits`), and the first process lives only while a
  supervisor cares for it (`TreeFits`). An ended record, whoever of its four kinds of
  writers wrote it, means that this process is gone and none can follow (`RecordFits`). A
  command carries what it read long after the record changed: what it read still names the
  supervisor, and if it was an end, that is still true (`CommandsFit`).
  `PortableTypesHold`: `PortableTypeOK`, with both identities in the record of a session
  that runs.
- `Processes_proofs!StartsAreWhole`: `StartsWhatWasAsked`, by `BuildInv`. One command at
  most has the lock of the project (`OneLocks`); what is under a key is at least as new as
  the key, which was taken before the lock (`NewEnough`); a package that is being built has
  a number the registry does not know (`NumbersFresh`), and its builder knows the entry it
  writes (`EntryFits`). As long as nobody cleans the cache, what is registered and in use
  is whole, and what is discarded is not registered (`CacheFits`). `BuildTypesHold`:
  `BuildTypeOK`.
- `TestSession_proofs!EvidenceHolds`: `EvidenceIsSound`, by `BrowserInv`. Who shares the
  application only reads it, and who writes it has it alone (`AppIsShared`, `AppFits`);
  tests beside each other in a runner's lanes do not conflict, and none overtakes a test
  of the VM that waits (`LanesFit`); a suite in whose last test the environment was
  another one, for good, does not pass (`VerdictFits`). For the store the invariant has
  the order of the changes (`InOrder`), what a pruning command is about to remove
  (`RunFits`) and what a reader has found (`ListingFits`). That no more runs stay than
  are to be kept is counted in `FewStay`: of those that stay, each has a number of newer
  ones of its own, below the retention. `BrowserTypesHold`: `BrowserTypeOK`.
- `Guest_proofs!SessionsAreKept`: `SessionIsKept`, by `KeeperInv`. A stop that was sent
  holds the client it took out of the registry until it is answered (`SentHolds`), so
  Studio's client is in one of two places; an end that a monitor, the registry or a stop
  knows of has happened (`EndsAreReal`), and in the guest things only end
  (`GuestOnlyEnds`). So no stop is answered as done, no Runtime is stopped and no keeper
  ends while Studio runs, an unaccepted launch excepted. That a Runtime is stopped once
  Studio is gone is not claimed: the code attempts it. `KeeperTypes`: `KeeperTypeOK`.
- `Guest_proofs!AnswersTrusted`: `AnswersAreTrusted`, by `WinInv`. An operation uses the
  anchor and the pins long after it read them. What stays true of the old values: until
  there is an anchor, the pins are the old ones (`PinsFit`); what an operation requires or
  accepted is none that these speak against (`AcceptedFits`), as long as its handshake is
  to come; and what was confirmed is the anchor (`ConfirmedIsAnchor`), which nobody
  replaces. A report of the attempt before does not have the number of this one
  (`ScriptsKnown`, `AnswersInOrder`). `WinTypesHold`: `WinTypeOK`. `WinAssumption` has a
  port, a certificate and a report, and no certificate that looks like none.
- `Guest_proofs!LaunchAnswers`: `LaunchAnswersForItsStudio`, by `LaunchInv`: every step of
  the command has its account of connection, client, record and Runtime (`HeldByStep`),
  and of what an answer that allows a repetition needs from there on (`CleanByStep`).
  What the command learned of the guest stays true while the guest goes on, because a
  Studio never goes back (`GoesOn`); the abort of a first run only promises that its
  process is out of reach (`OutOfReach`). `LaunchTypesHold`: `LaunchTypeOK`.
- `Stores_proofs!BothFilesOrNeither`: `BothOrNeither`, by `SettingsInv`. Up to the first
  overlap one writer is at work, so the files follow from the step it is at (`SaveDone`,
  `PrefDone`); a save that is to write yet has not written (`Unwritten`), which tells the
  previous configuration from the new one. TLC refuted the first form of it: two
  preference commands overlap each other as well. `SettingsTypesHold`:
  `SettingsTypeOK`.
- `Stores_proofs!OneReleaseStays`: `OneReleaseOnDisk`, by `InstallerInv`. The state of a
  partial payload names the release of all its bytes, and what is being received is of the
  release asked for (`PartialInv`); a payload is discarded before its state, so between
  the two there is nothing to resume. A redownload knows the installer it found
  (`BackupInv`), and every digest was taken of one release (`DigestInv`).
  `InstallerTypesHold`: `InstallerTypeOK`.
- `Stores_proofs!ListsAreCurrent`: `NoStaleList`, by `VersionInv`: nobody
  knows a generation to come, and what was read in the current one is as new as
  the last announced change. The proof does not use the bound on the changes.
  `VersionTypesHold`: `VersionTypeOK` for finitely many installations, by counting those that
  have changed the guest and those that have announced it (`ChangesCount`).
- `Stores_proofs!StoresStayKnown`: `RetiredIsKnown`, by `RecoveryInv`: a plan whose
  original is out of the way is due in memory from the rename until it is back,
  and a new plan has retired nothing (`PlansAreFresh`). `NoStoreIsLost`:
  `StoresAreKept`, by counting the names that are taken (`NamesCount`): the
  invariant says that a plan's name for the original is free when it is retired.
- `Stores_proofs!HistoryTells`: `HistoryIsTrue`, by `HistoryInv`, under `~Concurrent`.
  One process is busy at a time (`OneIsBusy`), so a transaction works on the file as it is
  (`Transactions`) and the set of the busy process is what runs (`ActiveIsRun`). What the
  records say is then no more than what their tasks did (`RecordsFit`, `RunIsRecorded`),
  and what a retry refers to stays past (`RetriesArePast`). The invariant is the same for
  every step of a task, so it is proved once from what such a step may change
  (`TaskStepKeeps`). A file of which some records are removed keeps all that run
  (`Counted`, `Trimmed`), by counting the indices that stay. When two processes are busy
  the claim is wrong: each reconciles the records of the other, whose sets it does not
  see. `HistoryTypesHold`: `HistoryTypeOK`, with the limit of the file.
  `HistoryAssumption` has a limit of at least one record, the code's is 250, and no task or
  process that looks like none.

Only model-checked: every liveness property (outside this prover's reach under fairness),
and `HostTypeOK` and `RuntimesTypeOK`, which put together the type invariants of
components: each of their parts is a theorem about its own component's specification
(that of the history under `~Concurrent`, as in the run, and that of the version lists
for finitely many installations), but no module extends all of their proofs at once.
Every other invariant and every action property of a run is stated by a theorem.

## Where code and documents disagree

Shown by a run:

- `runtime_second_stop` (`SecondStopQuiet`): docs/winboat-regression-matrix.md
  121-122 "A second stop must succeed without another recreation." A second stop
  that finds nobody else live computes the cleanup again from the saved original
  and recreates the VM, taking the user's restored mapping out.
- `runtime_adopted_mapping` (`AdoptedForwardingRestored`):
  docs/winboat-multi-runtime.md 49-50 "restores what was there before when
  ownership ends". A mapping the user had prepared is removed.
- `runtime_silent_recreation` (`RecreationsAlone`, a part of what
  `VmIsSharedSafely` says where no inspection fails):
  docs/winboat-multi-runtime.md 79 "Mendimaru never recreates the VM silently."
  A start that changed nothing rolls back with a recreation, under live sessions.
- `runtime_forget_active` (`ForgetSparesActive`): docs/headless-cli.md 110-111
  says active records are rejected; forget looks once and then renames without a
  lease.
- `queue_wait` (`WaitEnds`): docs/install-queue.md 66-68; a command's older
  snapshot can overwrite the worker's last one, and a waiting command then waits
  for ever.

Met while modelling, without a run:

- docs/winboat-multi-runtime.md 52-53: "rollback and stop rewrites are
  revision-checked and refuse to clobber a concurrent external edit".
  `restore_file` (`config/compose.rs`) writes without a look at the revision.
- docs/winboat-run-locally.md 91-93: a rollback "recreates the original WinBoat
  configuration". It recreates from the baseline, which lacks the user's other
  mappings of the port; only the file gets them back.
- docs/headless-cli.md 111-112: a forgotten record is "preserved as an auditable
  invalidation"; a command that loaded it before writes it back.
- docs/winboat-multi-runtime.md 62-64: the forwarding of deferred sessions is
  removed by the last stop. Forgetting a deferred session evicts the entry
  that remembers it.
- `winboat/runtime.rs` 989: after a stop that died before releasing its entry, the
  folded cleanup replaces the mapping the start has just added; the start fails,
  and its successor succeeds.
- `winboat/runtime.rs` 813-817: a preparation that finds the port's Runtime failed goes on
  to a new session, but the failed one still is a live entry, and the registry refuses
  the reservation (`vm_ports.rs` 186-196) until it is stopped or forgotten
  (`ConflictsAreFailed` says that nothing else is ever refused there).
- `downloads/queue.rs` 88 refuses a version that is "already queued or running";
  a retry does not look, so a version can be queued twice.
- `downloads/queue.rs` 121: an enqueue whose save fails returns an error, yet its
  item stays and is installed at the next wake-up. And an item is shown as
  succeeded before the operation history is written, which can still fail it.
- `ui_automation/coordination.rs`: "waiting never depends on this history", yet
  the count that the drain waits for does; a running job evicted from the
  history is never counted down. "Both waits honour [...] the caller's
  cancellation"; the wait for the desktop does not. Entries "keep strict arrival
  order"; callers inside the application take a number and join in two steps.

- Operation history. README.md 39 and docs/headless-cli.md 275-278 give every
  process the same history; each of them marks as interrupted what it does not run
  itself (`operations.rs` 534-560). With `Procs = {p1, p2}` and `Concurrent = TRUE`
  `InterruptedIsOver` fails in five states: an operation of another process is
  recorded as over, and a conflicting one is let in.
- Portable builds. docs/portable-runtime.md 106 and 109-110: the digest is taken
  before the lock and before MxBuild reads the project, so an edit that is taken
  back leaves a package of the edited project under the digest of the first; a
  `--clean` killed midway can leave a deployment that a later build takes for
  complete; and a `--clean` next to a start lets it copy a part.
- Studio keeper. A reconnection registered while a stop waits is thrown away when
  that stop fails; the first of two overlapping stops to end removes the shared
  "stopping" entry; an accept error ends the keeper without its cleanup; one that
  was not accepted leaves Studio running if its stop is refused. A cleanup that
  fails is reported to nobody (`cli.rs` 2090-2098): the Runtime then outlives its
  Studio and its keeper.
- Host relay. `status`, `wait` and `start` hold the VM while they ask every relay (up
  to 180 s each); a relay that stops wants the VM exclusively and answers nobody
  meanwhile. The cycle ends with the relay's three seconds: the stop is refused
  after Studio is gone, and later stops are refused because no keeper is left to
  confirm. `stop_dependency` reads the state of the Runtime before the Studio
  keeper stops it, and then stops it again (see `runtime_second_stop`).
- Settings. The commands that set the language and note a pending setup write
  `config.json` without a lease and through the same `config.json.tmp`: one that
  overlaps a save can install an empty file, the other's file, or revert it. An
  edit between the revision check and the rename is overwritten. A kill between
  the two files leaves them different. The previous configuration is loaded before
  the leases are taken, and saves of two VMs share none.
- Installers. Two processes that download one version share its partial file
  without a lock; the signature check in the guest is then what is left. A kill
  during the commit can leave only the backups of the previous installer.
- Version lists. A list answered before an installation can be saved to disk after
  its invalidation, and be seeded for up to a minute; an authoritative entry that
  has expired still blocks seeds.
- Firmware variables. When only the `fsync` after the last rename fails, the plan
  says that a rollback is due though the store is back; a VM started between check
  and rename makes the retired file not the original, and the rollback refuses for
  good, as it does when the file put aside is there already. A kill forgets the
  plan.
- Guest operations. An attempt that brought no answer is followed by another run of
  the same script, also of the one that starts Studio (`winboat/operation.rs`
  179); `winboat/studio.rs` aborts only the session that was reported last.
- Browser tests. docs/shared-winboat-testing.md: "A write cannot overlap a reader
  through a second CLI". The lock is that of the command; the runner of a command that
  is killed goes on until it misses the observer, while another command takes the
  lock. A run of which pruning removed a part is the newest by its time of change, and
  is kept in the place of a whole one. Nothing removes the staging directory of a
  killed command.
- Studio launch. `abort_studio_launch.ps1` knows the process that the script
  started, not the child it may have handed over to, so the second run can start a
  second Studio. The script of a connection that was given up reports its failure to
  the file of the next, which then ends at a report it cannot authenticate. A
  failed launch stops the Runtime session it uses, also one it found.

- Project list. A queued refresh is given to whatever is in flight: if the request of an
  earlier directory ends last, the queued refresh goes to the scan of the new one,
  which may have walked already (`useProjects.ts` 131-138). A late scan of the earlier
  directory moves the watcher back. After a failed scan no interval runs (187-201),
  though README.md 146 says that "unsupported watchers fall back to a 30-second
  refresh". The choice of a project in the workspace by the dialog applies the
  preferences to that project alone, and so drops every other favourite
  (`commands/projects.rs` 152); a scan that was cut short drops those it missed. One
  project deleted between walk and preferences fails the whole scan.
- Commands. The descendants of a command that succeeded are adopted by the application
  (it is a subreaper) and never reaped when they end; a caller that drops the command
  kills its process, not its group.

## Plan

What is left, in this order:

1. Compositions: the keeper of `SessionKeeper` with the drain of `UiCoordination`,
   the stop of `HostRelay` with both, `TestSession` with the lease of
   `VmCoordination`.
2. Liveness of the protocols in `MCHostProtocols` and `MCRuntimes`, one after the other: every
   command of the portable Runtime ends, the stop of a relay is answered.
3. Parts not modelled yet: the start of the VM with its readiness, the browser of the
   marketplace.

Runs stay few: the runs of one component are merged before another is added.

## Running

    tlc -workers 2 -config VmCoordination.cfg MCVmCoordination
    tlc -workers 2 -config HostProtocols.cfg MCHostProtocols
    tlc -workers 2 -config Runtimes.cfg MCRuntimes
    tlapm VmCoordination_proofs.tla

The other configurations start with the name of the module they belong to. The longest
runs (`ui_queue`, `queue_live`, `queue_safe`, `host_protocols`) take two to three minutes
on two cores.

------------------------------ MODULE VmRuntime ------------------------------
(***************************************************************************)
(* The Runtime sessions of one WinBoat VM (winboat/runtime.rs), the port   *)
(* registry through which sessions of different caches see each other      *)
(* (winboat/vm_ports.rs) and the VM's Compose file (config/compose.rs).    *)
(*                                                                         *)
(* Start, Studio preparation and stop run under the exclusive VM lease, so *)
(* at most one of them is on its way at a time: op is its control state    *)
(* and its local variables.  Status and wait refresh a record under the    *)
(* shared lease; forget takes no lease at all.  VmCoordination shows that  *)
(* the lease excludes as assumed here.                                     *)
(*                                                                         *)
(* A port's forwarding is the set of its mappings: "exact" is the loopback *)
(* mapping 127.0.0.1:P:P/tcp that Mendimaru uses, "user" stands for any    *)
(* other mapping of the port.  Session identifiers are numbered in the     *)
(* order in which they are created, so they also order started_at.         *)
(***************************************************************************)
EXTENDS Naturals, FiniteSets

CONSTANTS MaxSessions, \* how many sessions are ever created
          Ports,       \* the guest ports the projects are configured for
          Caches,      \* cache directories (MENDIMARU_CACHE_DIR)
          Readers,     \* commands without the exclusive lease
          InitFwd,     \* the user's forwarding before Mendimaru's first start
          MaxEdits,    \* how many times the user edits the Compose file
          Hazards      \* what the environment does, see HazardKinds

HazardKinds == {"docker",   \* an inspection, a recreation or the guest fails
                "rollback", \* so does the recreation of a rollback
                "io",       \* a registry update or a record write fails
                "crash",    \* a process is killed
                "forget",   \* records are forgotten
                "retry",    \* stopped sessions are stopped again
                "edit"}     \* the user edits other parts of the Compose file

ASSUME RuntimeAssumption ==
  /\ MaxSessions \in Nat /\ MaxEdits \in Nat
  /\ Ports \subseteq Nat \ {0}
  /\ Caches # {}
  /\ InitFwd \in [Ports -> SUBSET {"exact", "user"}]
  /\ Hazards \subseteq HazardKinds

VARIABLES
  compose,  \* the Compose file: forwarding and everything else
  vm,       \* the forwarding the running container was created with
  entry,    \* registry entries: "none", "live" or "stopped" (stopped_at set)
  pre,      \* pre_existing of the registry entry
  port,     \* guest port of a session, NoPort for an unused identifier
  home,     \* the cache that holds the session's record
  state,    \* the record file: "none" or its RuntimeState
  kept,     \* session.invalidated.json exists
  orig,     \* compose.original.yml
  managed,  \* the Compose content behind managed_compose_sha256
  op,       \* the operation that holds the exclusive lease
  aux       \* what each reader is doing

identity == <<pre, port, home, orig, managed>>
vars == <<compose, vm, entry, state, kept, identity, op, aux>>

Sessions == 1..MaxSessions
Fwd == SUBSET {"exact", "user"}
Compose == [fwd : [Ports -> Fwd], rest : 0..MaxEdits]
NoPort == 0
Expected == {"exact"}
ActiveStates == {"starting", "ready", "failed"}

NoForwarding == [p \in Ports |-> {}]
NoFile == [fwd |-> NoForwarding, rest |-> 0]
NoEntries == [s \in Sessions |-> "none"]
SomeCache == CHOOSE c \in Caches : TRUE

NoOp == [pc |-> "idle", call |-> "none", me |-> 0, want |-> NoPort, cache |-> SomeCache,
         seen |-> NoEntries, previous |-> NoFile, baseline |-> NoFile,
         changed |-> FALSE, loaded |-> "none"]
NoAux == [kind |-> "idle", s |-> 0]

Init ==
  /\ compose = [fwd |-> InitFwd, rest |-> 0]
  /\ vm = InitFwd
  /\ entry = NoEntries
  /\ pre = [s \in Sessions |-> {}]
  /\ port = [s \in Sessions |-> NoPort]
  /\ home = [s \in Sessions |-> SomeCache]
  /\ state = [s \in Sessions |-> "none"]
  /\ kept = [s \in Sessions |-> FALSE]
  /\ orig = [s \in Sessions |-> NoFile]
  /\ managed = [s \in Sessions |-> NoFile]
  /\ op = NoOp
  /\ aux = [r \in Readers |-> NoAux]

-----------------------------------------------------------------------------
(* Registry and record helpers.                                            *)

Least(S) == CHOOSE s \in S : \A t \in S : s <= t
Active(s) == state[s] \in ActiveStates
Unused == {s \in Sessions : port[s] = NoPort}

\* Mutant: the registry trusts its own entries over missing records.
ReconciledTrusting ==
  [s \in Sessions |-> IF entry[s] = "live" /\ state[s] = "stopped" THEN "stopped"
                      ELSE entry[s]]

\* Mutant: an entry takes over whatever its record says.
ReconciledCopying ==
  [s \in Sessions |-> IF entry[s] = "none" THEN "none" ELSE state[s]]

\* vm_ports::reconcile: evict entries without a record, note stopped records.
Reconciled ==
  [s \in Sessions |-> IF entry[s] = "none" \/ state[s] = "none" THEN "none"
                      ELSE IF state[s] = "stopped" THEN "stopped"
                      ELSE entry[s]]

\* active_runtime_session: what the registry, or else the scan of the own
\* cache, finds active on a port.
ActiveOn(p, c) ==
  LET registered == {s \in Sessions : Reconciled[s] = "live" /\ port[s] = p /\ Active(s)}
      scanned    == {s \in Sessions : home[s] = c /\ port[s] = p /\ Active(s)}
  IN  IF registered # {} THEN registered ELSE scanned

\* forwarding_cleanup_targets: the earliest owner of a port knows what was
\* there before; a port without an entry falls back to the saved original.
Owners(p) == {s \in Sessions : op.seen[s] # "none" /\ port[s] = p}
Owned == {p \in Ports : Owners(p) # {}}

\* Mutant: the latest owner's pre-existing forwarding is restored.
RestoredLatest(p) ==
  IF p \in Owned THEN pre[CHOOSE s \in Owners(p) : \A t \in Owners(p) : t <= s]
  ELSE orig[op.me].fwd[p]

Restored(p) == IF p \in Owned THEN pre[Least(Owners(p))] ELSE orig[op.me].fwd[p]

Replace(file, ps) ==
  [file EXCEPT !.fwd = [p \in Ports |-> IF p \in ps THEN Restored(p) ELSE file.fwd[p]]]

\* The outcomes of refresh: without the exact live binding the session is
\* failed; with it, the guest and the HTTP probe decide.
RefreshStates(s) == IF vm[port[s]] = Expected THEN ActiveStates ELSE {"failed"}

\* Mutant: an exclusive operation does not wait for readers.
LeaseFreeIgnored == op.pc = "idle"

LeaseFree == op.pc = "idle" /\ \A r \in Readers : aux[r].kind # "refresh"

Goto(label) == op' = [op EXCEPT !.pc = label]
Return == op' = NoOp
May(hazard) == hazard \in Hazards

-----------------------------------------------------------------------------
(* start and prepare_studio_session.                                       *)

Request(k, p, c) ==
  LET call == [NoOp EXCEPT !.call = k, !.want = p, !.cache = c] IN
  /\ LeaseFree
  /\ entry' = Reconciled
  /\ IF ActiveOn(p, c) = {}
     THEN op' = [call EXCEPT !.pc = "create"]
     ELSE \/ \* linked to another Studio session
             op' = NoOp
          \/ \E s \in ActiveOn(p, c) :
               op' = [call EXCEPT !.pc = "refresh", !.me = s]
  /\ UNCHANGED <<compose, vm, state, kept, identity, aux>>

\* The call fails before it touches anything (guest offline, bad settings).
Refuse ==
  /\ op.pc \in {"create", "refresh", "stop"}
  /\ Return
  /\ UNCHANGED <<compose, vm, entry, state, kept, identity, aux>>

\* The record is written back as it was loaded, then with what refresh found;
\* a preparation goes on to a new session when the old one has failed.
Refresh ==
  /\ op.pc = "refresh"
  /\ \E st \in RefreshStates(op.me) :
       /\ state' = [state EXCEPT ![op.me] = st]
       /\ IF op.call = "prepare" /\ st = "failed"
          THEN op' = [op EXCEPT !.pc = "create", !.me = 0]
          ELSE Return
  /\ UNCHANGED <<compose, vm, entry, kept, identity, aux>>

\* create_session: a change of the forwarding is refused while others live.
Blocked == /\ \E s \in Sessions : Reconciled[s] = "live"
           /\ compose.fwd[op.want] # Expected

\* Mutant: the file is changed whoever is live.
CheckUnguarded ==
  /\ op.pc = "create"
  /\ entry' = Reconciled
  /\ IF Unused = {} THEN Return
     ELSE op' = [op EXCEPT !.pc = "baseline", !.seen = Reconciled]
  /\ UNCHANGED <<compose, vm, state, kept, identity, aux>>

Check ==
  /\ op.pc = "create"
  /\ entry' = Reconciled
  /\ IF Blocked \/ Unused = {} THEN Return
     ELSE op' = [op EXCEPT !.pc = "baseline", !.seen = Reconciled]
  /\ UNCHANGED <<compose, vm, state, kept, identity, aux>>

\* prepare_runtime_compose_baseline: the port's other mappings are removed
\* and remembered; what is left is this session's original.
Baseline ==
  /\ op.pc = "baseline"
  /\ LET p    == op.want
         s    == Least(Unused)
         file == [compose EXCEPT !.fwd[p] = @ \cap Expected]
     IN  /\ compose' = file
         /\ pre' = [pre EXCEPT ![s] = compose.fwd[p] \ Expected]
         /\ port' = [port EXCEPT ![s] = p]
         /\ home' = [home EXCEPT ![s] = op.cache]
         /\ orig' = [orig EXCEPT ![s] = file]
         /\ op' = [op EXCEPT !.pc = "reserve", !.me = s,
                             !.previous = compose, !.baseline = file]
  /\ UNCHANGED <<vm, entry, state, kept, managed, aux>>

\* Mutant: the reservation does not look for a conflict.
ReserveBlindly ==
  /\ op.pc = "reserve"
  /\ Goto("ensure") /\ entry' = [Reconciled EXCEPT ![op.me] = "live"]
  /\ UNCHANGED <<compose, vm, state, kept, identity, aux>>

\* vm_ports::reserve; a live entry on the port is a conflict.
Reserve ==
  /\ op.pc = "reserve"
  /\ IF \E s \in Sessions : Reconciled[s] = "live" /\ port[s] = op.want
     THEN Goto("undo") /\ UNCHANGED entry
     ELSE Goto("ensure") /\ entry' = [Reconciled EXCEPT ![op.me] = "live"]
  /\ UNCHANGED <<compose, vm, state, kept, identity, aux>>

\* ensure_runtime_port_mapping, with the deferred cleanup folded in.
Ensure ==
  /\ op.pc = "ensure"
  /\ IF compose.fwd[op.want] = Expected
     THEN Goto("verify") /\ UNCHANGED compose
     ELSE /\ compose' = Replace([compose EXCEPT !.fwd[op.want] = Expected], Owned)
          /\ op' = [op EXCEPT !.pc = "recreate", !.changed = TRUE]
  /\ UNCHANGED <<vm, entry, state, kept, identity, aux>>

Recreate ==
  /\ op.pc = "recreate"
  /\ vm' = compose.fwd
  /\ Goto(IF \E s \in Sessions : op.seen[s] = "stopped" THEN "fold" ELSE "verify")
  /\ UNCHANGED <<compose, entry, state, kept, identity, aux>>

\* The recreation or the guest's start fails: the container is the old one,
\* gone, or the new one.
RecreateFails ==
  /\ May("docker") /\ op.pc = "recreate"
  /\ vm' \in {vm, NoForwarding, compose.fwd}
  /\ Goto("rollback")
  /\ UNCHANGED <<compose, entry, state, kept, identity, aux>>

\* The entries whose forwarding the recreation removed are dropped.
Fold ==
  /\ op.pc = "fold"
  /\ entry' = [s \in Sessions |-> IF op.seen[s] = "stopped" THEN "none" ELSE entry[s]]
  /\ Goto("verify")
  /\ UNCHANGED <<compose, vm, state, kept, identity, aux>>

\* Storage identity and host binding are as expected.
Verify ==
  /\ op.pc = "verify"
  /\ vm[op.want] = Expected
  /\ managed' = [managed EXCEPT ![op.me] = compose]
  /\ Goto("record")
  /\ UNCHANGED <<compose, vm, entry, state, kept, pre, port, home, orig, aux>>

\* A failed storage check rolls back in any case, a missing binding only what
\* this start changed, a binding to another host port in any case.
VerifyFails ==
  /\ op.pc = "verify"
  /\ \/ May("docker") /\ Goto("rollback")
     \/ /\ vm[op.want] # Expected \/ May("docker")
        /\ Goto(IF op.changed THEN "rollback" ELSE "undo")
     \/ vm[op.want] = {"user"} /\ Goto("rollback")
  /\ UNCHANGED <<compose, vm, entry, state, kept, identity, aux>>

\* rollback_compose: the baseline is restored and the container recreated.
Rollback ==
  /\ op.pc = "rollback"
  /\ compose' = op.baseline
  /\ \/ vm' = op.baseline.fwd
     \/ May("rollback") /\ vm' \in {vm, NoForwarding}
  /\ Goto("undo")
  /\ UNCHANGED <<entry, state, kept, identity, aux>>

\* write_record and the commits; a start then refreshes the new record.
Record ==
  /\ op.pc = "record"
  /\ state' = [state EXCEPT ![op.me] = "starting"]
  /\ IF op.call = "start" THEN Goto("refresh") ELSE Return
  /\ UNCHANGED <<compose, vm, entry, kept, identity, aux>>

\* A registry or file operation of the start fails.
StartFails ==
  /\ May("io") /\ op.pc \in {"reserve", "ensure", "fold", "record"}
  /\ Goto("undo")
  /\ UNCHANGED <<compose, vm, entry, state, kept, identity, aux>>

\* The error return drops the reservation, the transaction and the baseline
\* guard, in this order: the file is again the one the start found.
Undo ==
  /\ op.pc = "undo"
  /\ entry' = [entry EXCEPT ![op.me] = "none"]
  /\ compose' = op.previous
  /\ Return
  /\ UNCHANGED <<vm, state, kept, identity, aux>>

-----------------------------------------------------------------------------
(* stop.                                                                   *)

StopRequest(s) ==
  /\ LeaseFree
  /\ Active(s) \/ (May("retry") /\ state[s] = "stopped")
  /\ op' = [NoOp EXCEPT !.pc = "stop", !.call = "stop", !.me = s, !.want = port[s]]
  /\ UNCHANGED <<compose, vm, entry, state, kept, identity, aux>>

\* Mutant: every stop cleans up at once.
StopCheckNoDefer ==
  /\ op.pc = "stop"
  /\ state[op.me] # "none"
  /\ entry' = Reconciled
  /\ op' = [op EXCEPT !.pc = "cleanup", !.seen = Reconciled, !.loaded = state[op.me]]
  /\ UNCHANGED <<compose, vm, state, kept, identity, aux>>

\* The record is loaded again and the registry reconciled; while others are
\* live only the record and the entry are marked stopped.
StopCheck ==
  /\ op.pc = "stop"
  /\ state[op.me] # "none"
  /\ entry' = Reconciled
  /\ IF \A s \in Sessions \ {op.me} : Reconciled[s] # "live"
     THEN /\ op' = [op EXCEPT !.pc = "cleanup", !.seen = Reconciled,
                              !.loaded = state[op.me]]
          /\ UNCHANGED state
     ELSE /\ state' = [state EXCEPT ![op.me] = "stopped"]
          /\ IF state[op.me] = "stopped" THEN Return ELSE Goto("mark")
  /\ UNCHANGED <<compose, vm, kept, identity, aux>>

MarkStopped ==
  /\ op.pc = "mark"
  /\ entry' = [entry EXCEPT ![op.me] = IF @ = "live" THEN "stopped" ELSE @]
  /\ Return
  /\ UNCHANGED <<compose, vm, state, kept, identity, aux>>

\* Mutant: only the forwarding of the stopping session is removed.
TargetsOwn == {op.want}

Targets == Owned \cup {op.want}

\* The saved bytes may be restored when no cleanup was deferred and the file
\* is the one Mendimaru wrote.
ByteExact ==
  /\ \A s \in Sessions : op.seen[s] # "stopped"
  /\ Targets = {op.want}
  /\ compose \in {managed[op.me], orig[op.me]}
  /\ orig[op.me].fwd[op.want] = Restored(op.want)

Cleaned == IF ByteExact THEN orig[op.me] ELSE Replace(compose, Targets)

\* A mapping that is put back moves to the end of the list, so the file may
\* count as changed although it holds the same mappings.
Reordered == ~ByteExact /\ \E p \in Targets : Restored(p) # {}

\* Mutant: the VM is left as it is.
CleanupInPlace ==
  /\ op.pc = "cleanup"
  /\ compose' = Cleaned
  /\ op' = [op EXCEPT !.pc = "finish", !.previous = compose]
  /\ UNCHANGED <<vm, entry, state, kept, identity, aux>>

Cleanup ==
  /\ op.pc = "cleanup"
  /\ compose' = Cleaned
  /\ \E changed \in {Cleaned # compose, Cleaned # compose \/ Reordered} :
       op' = [op EXCEPT !.pc = IF changed THEN "stopRecreate" ELSE "finish",
                        !.previous = compose]
  /\ UNCHANGED <<vm, entry, state, kept, identity, aux>>

StopRecreate ==
  /\ op.pc = "stopRecreate"
  /\ vm' = compose.fwd
  /\ Goto("stopVerify")
  /\ UNCHANGED <<compose, entry, state, kept, identity, aux>>

\* The transaction puts the file back; the container is not recreated again.
StopRecreateFails ==
  /\ May("docker") /\ op.pc = "stopRecreate"
  /\ vm' \in {vm, NoForwarding, compose.fwd}
  /\ compose' = op.previous
  /\ Return
  /\ UNCHANGED <<entry, state, kept, identity, aux>>

StopVerify ==
  /\ op.pc = "stopVerify"
  /\ \A p \in Targets : compose.fwd[p] = Restored(p)
  /\ Goto("finish")
  /\ UNCHANGED <<compose, vm, entry, state, kept, identity, aux>>

StopVerifyFails ==
  /\ op.pc = "stopVerify"
  /\ May("docker") \/ \E p \in Targets : compose.fwd[p] # Restored(p)
  /\ compose' = op.previous
  /\ Return
  /\ UNCHANGED <<vm, entry, state, kept, identity, aux>>

\* Mutant: the entries are released before the record says stopped.
FinishUnrecorded ==
  /\ op.pc = "finish"
  /\ Goto("release")
  /\ UNCHANGED <<compose, vm, entry, state, kept, identity, aux>>

\* A record that was loaded as stopped is terminal and not written again.
Finish ==
  /\ op.pc = "finish"
  /\ state' = IF op.loaded = "stopped" THEN state ELSE [state EXCEPT ![op.me] = "stopped"]
  /\ Goto("release")
  /\ UNCHANGED <<compose, vm, entry, kept, identity, aux>>

Release ==
  /\ op.pc = "release"
  /\ entry' = [s \in Sessions |-> IF op.seen[s] = "stopped" \/ s = op.me THEN "none"
                                  ELSE entry[s]]
  /\ Return
  /\ UNCHANGED <<compose, vm, state, kept, identity, aux>>

\* A registry update or the record write fails; no transaction is open.
StopFails ==
  /\ May("io") /\ op.pc \in {"mark", "finish", "release"}
  /\ Return
  /\ UNCHANGED <<compose, vm, entry, state, kept, identity, aux>>

-----------------------------------------------------------------------------
(* Readers: status and wait load a record, observe the guest and write the *)
(* record; forget reads the state and then renames the file.               *)

Load(r, s) ==
  /\ op.pc = "idle" /\ aux[r] = NoAux
  /\ Active(s)
  /\ aux' = [aux EXCEPT ![r] = [kind |-> "refresh", s |-> s]]
  /\ UNCHANGED <<compose, vm, entry, state, kept, identity, op>>

\* status writes once, wait writes again and again.
Write(r) ==
  /\ aux[r].kind = "refresh"
  /\ \E st \in RefreshStates(aux[r].s) : state' = [state EXCEPT ![aux[r].s] = st]
  /\ aux' \in {aux, [aux EXCEPT ![r] = NoAux]}
  /\ UNCHANGED <<compose, vm, entry, kept, identity, op>>

\* A record that was preserved before counts as forgotten already.
ForgetCheck(r, s) ==
  /\ May("forget") /\ aux[r] = NoAux
  /\ state[s] \in {"stopped", "failed"} /\ ~kept[s]
  /\ aux' = [aux EXCEPT ![r] = [kind |-> "forget", s |-> s]]
  /\ UNCHANGED <<compose, vm, entry, state, kept, identity, op>>

\* quarantine_runtime_record: rename the record, or remove it when an earlier
\* rename left a preserved copy.
ForgetRename(r) ==
  /\ aux[r].kind = "forget" /\ state[aux[r].s] # "none"
  /\ state' = [state EXCEPT ![aux[r].s] = "none"]
  /\ kept' = [kept EXCEPT ![aux[r].s] = TRUE]
  /\ aux' = [aux EXCEPT ![r] = NoAux]
  /\ UNCHANGED <<compose, vm, entry, identity, op>>

\* The reader fails or is cancelled.
Quit(r) ==
  /\ aux[r] # NoAux
  /\ aux' = [aux EXCEPT ![r] = NoAux]
  /\ UNCHANGED <<compose, vm, entry, state, kept, identity, op>>

-----------------------------------------------------------------------------
(* The environment.                                                        *)

\* The process is killed: no destructor runs, the kernel drops the lease.
Crash ==
  /\ May("crash") /\ op.pc # "idle"
  /\ Return
  /\ UNCHANGED <<compose, vm, entry, state, kept, identity, aux>>

Edit ==
  /\ May("edit") /\ compose.rest < MaxEdits
  /\ compose' = [compose EXCEPT !.rest = @ + 1]
  /\ UNCHANGED <<vm, entry, state, kept, identity, op, aux>>

Start == Check \/ Baseline \/ Reserve \/ Ensure \/ Recreate \/ RecreateFails \/ Fold
         \/ Verify \/ VerifyFails \/ Rollback \/ Record \/ Refresh \/ StartFails \/ Undo

Stop == StopCheck \/ MarkStopped \/ Cleanup \/ StopRecreate \/ StopRecreateFails
        \/ StopVerify \/ StopVerifyFails \/ Finish \/ Release \/ StopFails

Read(r) == \/ \E s \in Sessions : Load(r, s) \/ ForgetCheck(r, s)
           \/ Write(r) \/ ForgetRename(r) \/ Quit(r)

Next ==
  \/ \E k \in {"start", "prepare"}, p \in Ports, c \in Caches : Request(k, p, c)
  \/ \E s \in Sessions : StopRequest(s)
  \/ Refuse \/ Start \/ Stop
  \/ \E r \in Readers : Read(r)
  \/ Crash \/ Edit

Spec == Init /\ [][Next]_vars

-----------------------------------------------------------------------------
(* Properties.                                                             *)

Labels == {"idle", "create", "refresh", "baseline", "reserve", "ensure", "recreate",
           "fold", "verify", "rollback", "record", "undo", "stop", "mark", "cleanup",
           "stopRecreate", "stopVerify", "finish", "release"}
Entries == [Sessions -> {"none", "live", "stopped"}]
States == {"none", "stopped"} \cup ActiveStates

\* Every file, registry entry and local variable holds a value of its kind.
TypeOK ==
  /\ compose \in Compose
  /\ vm \in [Ports -> Fwd]
  /\ entry \in Entries
  /\ pre \in [Sessions -> Fwd]
  /\ port \in [Sessions -> Ports \cup {NoPort}]
  /\ home \in [Sessions -> Caches]
  /\ state \in [Sessions -> States]
  /\ kept \in [Sessions -> BOOLEAN]
  /\ orig \in [Sessions -> Compose]
  /\ managed \in [Sessions -> Compose]
  /\ op \in [pc : Labels, call : {"none", "start", "prepare", "stop"},
             me : Sessions \cup {0}, want : Ports \cup {NoPort}, cache : Caches,
             seen : Entries, previous : Compose, baseline : Compose,
             changed : BOOLEAN, loaded : States]
  /\ aux \in [Readers -> [kind : {"idle", "refresh", "forget"}, s : Sessions \cup {0}]]

\* A guest port has one active Runtime on the VM, whichever caches the
\* commands use and wherever they fail or die: what vm_ports::reserve and
\* active_runtime_session exist for.
OnePerPort ==
  \A s, t \in Sessions : Active(s) /\ Active(t) /\ port[s] = port[t] => s = t

\* Between two commands every active record is registered as live, so other
\* caches see it: no status, stop, crash or failed write hides a session.
ActiveOwns == op.pc = "idle" => \A s \in Sessions : Active(s) => entry[s] = "live"

\* A port has one active session, and the registry names it to every cache.
PortsOwned == OnePerPort /\ ActiveOwns

\* Between the look at the registry that a request begins with and its reservation no one can take
\* the port: what is left to conflict with is the failed Runtime that a preparation wants to
\* replace.  What a crashed or failed command left in the registry, a late refresh of another cache
\* or a record forgotten on the way makes no reservation fail.
ConflictsAreFailed ==
  op.pc = "reserve" =>
    \A s \in Sessions :
      Reconciled[s] = "live" /\ port[s] = op.want => op.call = "prepare" /\ state[s] = "failed"

\* The VM is recreated only while nobody but the acting session is active.
RecreationsAlone ==
  op.pc \in {"recreate", "rollback", "stopRecreate"} =>
    \A s \in Sessions : Active(s) => s = op.me

\* Whatever starts and stops do to the Compose file, an active session that
\* is not being stopped keeps its own loopback mapping in it.
FileServesActive ==
  \A s \in Sessions :
    Active(s) /\ ~(op.call = "stop" /\ op.me = s) => compose.fwd[port[s]] = Expected

\* Nobody live loses the VM under it, or its forwarding at the next recreation.
LiveAreServed == RecreationsAlone /\ FileServesActive

\* A stopped record is final: no late refresh makes the session active again.
StoppedIsFinal ==
  [][\A s \in Sessions : state[s] = "stopped" => state'[s] \in {"stopped", "none"}]_vars

AtRest == op.pc = "idle" /\ \A s \in Sessions : entry[s] = "none" /\ ~Active(s)

\* When the last session is gone, every port Mendimaru took over forwards what
\* the user had configured before the first start.
UserForwardingRestored ==
  AtRest => \A p \in Ports : InitFwd[p] # Expected => compose.fwd[p] = InitFwd[p]

\* So does a port that the user had prepared the way Mendimaru needs it.
AdoptedForwardingRestored ==
  AtRest => \A p \in Ports : InitFwd[p] = Expected => compose.fwd[p] = InitFwd[p]

\* The container that runs then is the one the Compose file describes.
VmMatchesFile == AtRest => vm = compose.fwd

\* Mendimaru leaves file and VM as the user had them.
LeftAsFound == UserForwardingRestored /\ VmMatchesFile

\* Sessions share the VM with each other and with the user: nobody who is live loses it, and in
\* the end it is as it was.
VmIsSharedSafely == LiveAreServed /\ LeftAsFound

\* The commands keep the promise of RuntimeOwnership: a port belongs to the
\* session with the active record on it.
Owner(p) ==
  IF \E s \in Sessions : Active(s) /\ port[s] = p
  THEN CHOOSE s \in Sessions : Active(s) /\ port[s] = p
  ELSE 0

Ownership == INSTANCE RuntimeOwnership
  WITH Free <- 0, Forwarding <- Fwd,
       owner <- [p \in Ports |-> Owner(p)], running <- vm,
       leaving <- {s \in Sessions : op.call = "stop" /\ op.me = s}

OwnershipKept == Ownership!Spec

\* A stop that finds its session stopped recreates the VM only to finish the
\* cleanup of registered sessions.
SecondStopQuiet ==
  op.pc = "stopRecreate" /\ op.loaded = "stopped" =>
    \E s \in Sessions : op.seen[s] # "none"

\* The registry drops a deferred session only when its forwarding has left the
\* Compose file or serves another registered session.
DeferredForwardingRemoved ==
  [][\A s \in Sessions :
       entry[s] = "stopped" /\ entry'[s] = "none" /\ compose'.fwd[port[s]] = Expected =>
         \/ InitFwd[port[s]] = Expected
         \/ \E t \in Sessions : entry'[t] # "none" /\ port[t] = port[s]]_vars

\* Forgetting takes away stopped and failed records only.
ForgetSparesActive ==
  [][\A s \in Sessions : state'[s] = "none" => state[s] \notin {"starting", "ready"}]_vars

=============================================================================

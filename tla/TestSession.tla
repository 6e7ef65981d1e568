----------------------------- MODULE TestSession -----------------------------
(***************************************************************************)
(* Shared browser test sessions: winboat/test_session.rs and its callers   *)
(* in application.rs.  One process prepares a session of a Runtime, others *)
(* attach to it as workers, others still finalize it.  They share a record *)
(* file, one lock file per worker and the finalize lock; the lease of the  *)
(* VM is held shared by a worker and exclusively by the stop of a Runtime. *)
(*                                                                         *)
(* The steps of a command between two looks at these files are actions of  *)
(* their own.  An identifier becomes known when prepare returns it, or     *)
(* from the file a prepare that died left behind.  The week after which a  *)
(* finalized record is discarded does not pass.                            *)
(***************************************************************************)
EXTENDS Naturals, FiniteSets

CONSTANTS Workers,      \* processes that run a suite in the session
          Finalizers,   \* processes that finalize it
          Status        \* a process that reports its status

ASSUME TestSessionAssumption == Status \notin Finalizers /\ IsFiniteSet(Finalizers)

Probers == Finalizers \cup {Status}

VARIABLES
  record,     \* the state of the session in its record, or "absent"
  policy,     \* what finalize does to the Runtime: "keep" or "stop"
  owner,      \* the step of prepare
  worker,     \* the step of each worker
  files,      \* the workers whose lock file exists
  fin,        \* the step of each finalizer
  probe,      \* each prober: files left to try, the one it locked, those in use
  stops,      \* how often the Runtime was stopped
  lost        \* the finalizers that died after a stop, before the record said so

testVars == <<record, policy, owner, worker, files, fin, probe, stops, lost>>

OwnerSteps == {"idle", "created", "ready", "published", "ended"}
WorkerSteps == {"idle", "loaded", "opened", "locked", "attached", "ended"}
FinSteps == {"idle", "loaded", "entered", "listed", "drained", "stopping",
             "stopped", "finalized", "ended"}
NoProbe == [todo |-> {}, on |-> {}, live |-> {}]

TestTypeOK ==
  /\ record \in {"absent", "preparing", "ready", "finalizing", "finalized"}
  /\ policy \in {"keep", "stop"}
  /\ owner \in OwnerSteps
  /\ worker \in [Workers -> WorkerSteps]
  /\ files \subseteq Workers
  /\ fin \in [Finalizers -> FinSteps]
  /\ probe \in [Probers -> [todo : SUBSET Workers, on : SUBSET Workers, live : SUBSET Workers]]
  /\ stops \in Nat /\ lost \subseteq Finalizers

TestInit ==
  /\ record = "absent" /\ policy \in {"keep", "stop"}
  /\ owner = "idle"
  /\ worker = [w \in Workers |-> "idle"]
  /\ files = {}
  /\ fin = [f \in Finalizers |-> "idle"]
  /\ probe = [x \in Probers |-> NoProbe]
  /\ stops = 0 /\ lost = {}

(***************************************************************************)
(* Locks.  A lock lasts as long as the step that needs it, so the locks of *)
(* a process that died are free.                                           *)
(***************************************************************************)
HoldsOwn(w) == worker[w] \in {"locked", "attached"}
InUse(w, x) == HoldsOwn(w) \/ \E y \in Probers \ {x} : w \in probe[y].on
Finalizing(f) == fin[f] \notin {"idle", "loaded", "ended"}
SharesVm(w) == worker[w] \notin {"idle", "ended"}
Known == owner \in {"published", "ended"} /\ record # "absent"

SetWorker(w, step) == worker' = [worker EXCEPT ![w] = step]
SetFin(f, step) == fin' = [fin EXCEPT ![f] = step]
SetProbe(x, p) == probe' = [probe EXCEPT ![x] = p]
workerVars == <<worker, files>>
finVars == <<fin, probe, stops, lost>>
ownerVars == <<policy, owner>>

-----------------------------------------------------------------------------
(* Prepare. *)

\* test_session::create: the record exists before anything is verified.
Create ==
  /\ owner = "idle"
  /\ owner' = "created" /\ record' = "preparing"
  /\ UNCHANGED <<policy, workerVars, finVars>>

\* The Runtime was verified and its environment observed: mark_ready.
MarkReady ==
  /\ owner = "created" /\ record = "preparing"
  /\ owner' = "ready" /\ record' = "ready"
  /\ UNCHANGED <<policy, workerVars, finVars>>

\* save_preparation, after which prepare returns the identifier.
Publish ==
  /\ owner = "ready" /\ record = "ready"
  /\ owner' = "published"
  /\ UNCHANGED <<record, policy, workerVars, finVars>>

\* A prepare that fails discards its record, unless it is marked ready.
PrepareFails ==
  /\ owner \in {"created", "ready"}
  /\ owner' = "ended"
  /\ record' = IF record = "preparing" THEN "absent" ELSE record
  /\ UNCHANGED <<policy, workerVars, finVars>>

OwnerDies ==
  /\ owner \in {"created", "ready"}
  /\ owner' = "ended"
  /\ UNCHANGED <<record, policy, workerVars, finVars>>

-----------------------------------------------------------------------------
(* Workers. *)

\* Under the shared lease, the record is read a first time.
LoadSession(w) ==
  /\ worker[w] = "idle" /\ Known
  /\ \A f \in Finalizers : fin[f] # "stopping"
  /\ SetWorker(w, IF record = "ready" THEN "loaded" ELSE "ended")
  /\ UNCHANGED <<record, ownerVars, files, finVars>>

Open(w) ==
  /\ worker[w] = "loaded"
  /\ SetWorker(w, "opened") /\ files' = files \cup {w}
  /\ UNCHANGED <<record, ownerVars, finVars>>

\* A prober that tries the new file at this moment makes the worker give up.
Lock(w) ==
  /\ worker[w] = "opened"
  /\ \/ /\ ~InUse(w, w) /\ SetWorker(w, "locked") /\ UNCHANGED files
     \/ /\ InUse(w, w) /\ SetWorker(w, "ended") /\ files' = files \ {w}
  /\ UNCHANGED <<record, ownerVars, finVars>>

\* Mutant: the state read before the lock is believed.
RereadNothing(w) ==
  /\ worker[w] = "locked" /\ SetWorker(w, "attached")
  /\ UNCHANGED <<record, files, ownerVars, finVars>>

\* The state is read again under the worker's own lock.
Reread(w) ==
  /\ worker[w] = "locked"
  /\ \/ /\ record = "ready" /\ SetWorker(w, "attached") /\ UNCHANGED files
     \/ /\ record # "ready" /\ SetWorker(w, "ended") /\ files' = files \ {w}
  /\ UNCHANGED <<record, ownerVars, finVars>>

\* The suite is over, or the record turned out to hold no environment.
Detach(w) ==
  /\ worker[w] = "attached"
  /\ SetWorker(w, "ended") /\ files' = files \ {w}
  /\ UNCHANGED <<record, ownerVars, finVars>>

WorkerDies(w) ==
  /\ SharesVm(w)
  /\ SetWorker(w, "ended")
  /\ UNCHANGED <<record, ownerVars, files, finVars>>

-----------------------------------------------------------------------------
(* Counting the workers that are alive: live_participants. *)

ListFiles(x) == SetProbe(x, [todo |-> files, on |-> {}, live |-> {}])

\* A file that vanished meanwhile is created anew by the attempt to open it.
Try(x, w) ==
  /\ w \in probe[x].todo /\ probe[x].on = {}
  /\ files' = files \cup {w}
  /\ SetProbe(x, [todo |-> probe[x].todo \ {w},
                  on |-> IF InUse(w, x) THEN {} ELSE {w},
                  live |-> IF InUse(w, x) THEN probe[x].live \cup {w} ELSE probe[x].live])
  /\ UNCHANGED <<record, ownerVars, worker, fin, stops, lost>>

Unlock(x) ==
  /\ probe[x].on # {}
  /\ SetProbe(x, [probe[x] EXCEPT !.on = {}])
  /\ UNCHANGED <<record, ownerVars, workerVars, fin, stops, lost>>

Counted(x) == probe[x].todo = {} /\ probe[x].on = {}

\* The status command lists and tries the same files.
Report ==
  /\ Known /\ Counted(Status)
  /\ ListFiles(Status)
  /\ UNCHANGED <<record, ownerVars, workerVars, fin, stops, lost>>

-----------------------------------------------------------------------------
(* Finalize. *)

EndFin(f) == SetFin(f, "ended") /\ SetProbe(f, NoProbe)

FinLoad(f) ==
  /\ fin[f] = "idle" /\ Known
  /\ SetFin(f, IF record = "finalized" THEN "ended" ELSE "loaded")
  /\ UNCHANGED <<record, ownerVars, workerVars, probe, stops, lost>>

\* Mutant: a finalizer that gives up makes the session ready again.
FinBusyReopens(f) ==
  /\ fin[f] = "loaded" /\ \E g \in Finalizers : Finalizing(g)
  /\ EndFin(f) /\ record' = "ready"
  /\ UNCHANGED <<ownerVars, workerVars, stops, lost>>

\* Another finalizer holds the lock for longer than this one waits.
FinBusy(f) ==
  /\ fin[f] = "loaded" /\ \E g \in Finalizers : Finalizing(g)
  /\ EndFin(f)
  /\ UNCHANGED <<record, ownerVars, workerVars, stops, lost>>

\* Mutant: the workers are counted before the record says finalizing.
EnterUnmarked(f) ==
  /\ fin[f] = "loaded" /\ \A g \in Finalizers : ~Finalizing(g)
  /\ \/ record \in {"ready", "finalizing"} /\ SetFin(f, "entered") /\ UNCHANGED <<record, probe>>
     \/ record = "preparing" /\ record' = "finalized" /\ EndFin(f)
     \/ record = "finalized" /\ UNCHANGED record /\ EndFin(f)
  /\ UNCHANGED <<ownerVars, workerVars, stops, lost>>

\* Mutant: finalizers do not exclude each other.
EnterUnlocked(f) ==
  /\ fin[f] = "loaded"
  /\ \/ /\ record \in {"ready", "finalizing"}
        /\ record' = "finalizing" /\ SetFin(f, "entered") /\ UNCHANGED probe
     \/ record = "preparing" /\ record' = "finalized" /\ EndFin(f)
     \/ record = "finalized" /\ UNCHANGED record /\ EndFin(f)
  /\ UNCHANGED <<ownerVars, workerVars, stops, lost>>

\* Under the lock the record is loaded again.  A session that never became
\* ready is finalized at once.
Enter(f) ==
  /\ fin[f] = "loaded" /\ \A g \in Finalizers : ~Finalizing(g)
  /\ \/ /\ record \in {"ready", "finalizing"}
        /\ record' = "finalizing" /\ SetFin(f, "entered") /\ UNCHANGED probe
     \/ /\ record = "preparing" /\ record' = "finalized" /\ EndFin(f)
     \/ /\ record = "finalized" /\ UNCHANGED record /\ EndFin(f)
  /\ UNCHANGED <<ownerVars, workerVars, stops, lost>>

Drain(f) ==
  /\ fin[f] = "entered"
  /\ SetFin(f, "listed") /\ ListFiles(f)
  /\ UNCHANGED <<record, ownerVars, workerVars, stops, lost>>

\* With nobody alive the policy applies; with somebody alive the files are
\* listed again, until the deadline makes the session ready for all again.
Drained(f) ==
  /\ fin[f] = "listed" /\ Counted(f)
  /\ \/ probe[f].live = {} /\ SetFin(f, "drained") /\ UNCHANGED <<record, probe>>
     \/ probe[f].live # {} /\ SetFin(f, "entered") /\ UNCHANGED <<record, probe>>
     \/ probe[f].live # {} /\ record' = "ready" /\ EndFin(f)
  /\ UNCHANGED <<ownerVars, workerVars, stops, lost>>

\* runtime_stop takes the exclusive lease of the VM.
BeginStop(f) ==
  /\ fin[f] = "drained" /\ policy = "stop"
  /\ \A w \in Workers : ~SharesVm(w)
  /\ SetFin(f, "stopping")
  /\ UNCHANGED <<record, ownerVars, workerVars, probe, stops, lost>>

EndStop(f) ==
  /\ fin[f] = "stopping"
  /\ SetFin(f, "stopped") /\ stops' = stops + 1
  /\ UNCHANGED <<record, ownerVars, workerVars, probe, lost>>

\* The VM is busy, or the stop fails: the session stays as it is.
RuntimeStopFails(f) ==
  /\ \/ fin[f] = "drained" /\ policy = "stop"
     \/ fin[f] = "stopping"
  /\ EndFin(f)
  /\ UNCHANGED <<record, ownerVars, workerVars, stops, lost>>

Finalize(f) ==
  /\ \/ fin[f] = "drained" /\ policy = "keep"
     \/ fin[f] = "stopped"
  /\ record' = "finalized" /\ SetFin(f, "finalized")
  /\ UNCHANGED <<ownerVars, workerVars, probe, stops, lost>>

\* Files nobody has locked are removed, in one step.
Prune(f) ==
  /\ fin[f] = "finalized"
  /\ files' = {w \in files : InUse(w, f)}
  /\ EndFin(f)
  /\ UNCHANGED <<record, ownerVars, worker, stops, lost>>

FinDies(f) ==
  /\ Finalizing(f)
  /\ EndFin(f)
  /\ lost' = IF fin[f] = "stopped" THEN lost \cup {f} ELSE lost
  /\ UNCHANGED <<record, ownerVars, workerVars, stops>>

-----------------------------------------------------------------------------
Prepare == Create \/ MarkReady \/ Publish \/ PrepareFails
WorkerStep(w) == LoadSession(w) \/ Open(w) \/ Lock(w) \/ Reread(w) \/ Detach(w)
ProbeStep(x) == Unlock(x) \/ \E w \in Workers : Try(x, w)
FinalizeStep(f) ==
  \/ FinLoad(f) \/ FinBusy(f) \/ Enter(f) \/ Drain(f) \/ Drained(f)
  \/ BeginStop(f) \/ EndStop(f) \/ RuntimeStopFails(f) \/ Finalize(f) \/ Prune(f)

TestNext ==
  \/ Prepare \/ OwnerDies
  \/ \E w \in Workers : WorkerStep(w) \/ WorkerDies(w)
  \/ \E x \in Probers : ProbeStep(x)
  \/ Report
  \/ \E f \in Finalizers : FinalizeStep(f) \/ FinDies(f)

TestSpec == TestInit /\ [][TestNext]_testVars

-----------------------------------------------------------------------------
(* What is checked. *)

\* A finalized session has no worker left in it, whoever died or gave up on
\* the way: register_participant reads the state again under its own lock,
\* finalize counts locks only after it has changed the state.
NobodyLeftBehind ==
  record = "finalized" => \A w \in Workers : worker[w] # "attached"

\* The recorded policy is applied once: the Runtime is stopped a second time
\* only for a finalizer that died between its stop and the record of it.
StoppedOnce == stops <= 1 + Cardinality(lost)

\* A drain counts nobody who is gone and misses nobody: a finalizer that has
\* drained the session never finds a worker attached when it goes on.
DrainIsComplete ==
  \A f \in Finalizers : fin[f] \in {"drained", "stopping", "stopped"}
    => \A w \in Workers : worker[w] # "attached"

\* From the drain on nobody is attached, and nobody comes back.
FinalizedAlone == DrainIsComplete /\ NobodyLeftBehind

\* Nobody but a finalizer that holds the lock moves a session that is
\* finalizing, and a finalized session is never reopened.
ReopenedByItsFinalizer ==
  [][/\ record = "finalized" => record' = "finalized"
     /\ (record = "finalizing" /\ record' # "finalizing")
          => \E f \in Finalizers : fin[f] \in {"listed", "drained", "stopped"} /\ fin'[f] # fin[f]]_testVars
=============================================================================

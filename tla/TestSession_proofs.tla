-------------------------- MODULE TestSession_proofs --------------------------
(***************************************************************************)
(* Browser tests: the sessions that several of them share (TestSession),   *)
(* and the tests of one command with what it stores (BrowserTests).        *)
(***************************************************************************)
EXTENDS TestSession, BrowserTests, FiniteSetTheorems, TLAPS

(***************************************************************************)
(* A finalized session has no worker left in it, for any number of workers *)
(* and finalizers.  The argument is the order of two writes and two reads: *)
(* a worker creates its file before it reads the record under its lock, a  *)
(* finalizer changes the record before it lists the files.                 *)
(***************************************************************************)

\* Finalizers exclude each other, and the record says that one is at work.
OneFinalizer == \A f, g \in Finalizers : Finalizing(f) /\ Finalizing(g) => f = g
Marked ==
  \A f \in Finalizers :
    /\ fin[f] \in {"entered", "listed", "drained", "stopping", "stopped"} => record = "finalizing"
    /\ fin[f] = "finalized" => record = "finalized"

\* Who may be attached has a file, as long as files are not removed.
FilesHold ==
  record # "finalized" => \A w \in Workers : worker[w] \in {"opened", "locked", "attached"} => w \in files

\* Nobody is attached to a session that has not been ready.
NotYetAttached ==
  /\ owner = "idle" => record = "absent"
  /\ record \in {"absent", "preparing"} => \A w \in Workers : worker[w] # "attached"

\* A finalizer that counts has every attached worker before it or has met it.
ListCovers ==
  \A f \in Finalizers : fin[f] = "listed"
    => \A w \in Workers : worker[w] = "attached" => w \in probe[f].todo \cup probe[f].live

TestInv ==
  /\ TestTypeOK /\ OneFinalizer /\ Marked /\ FilesHold /\ NotYetAttached /\ ListCovers
  /\ DrainIsComplete /\ NobodyLeftBehind

LEMMA TestInvInit == TestInit => TestInv
BY DEF TestInit, TestInv, TestTypeOK, OneFinalizer, Marked, FilesHold, NotYetAttached, ListCovers,
       DrainIsComplete, NobodyLeftBehind, Finalizing, OwnerSteps, WorkerSteps, FinSteps, NoProbe, Probers

\* The owner leaves workers and finalizers alone, and changes the record only
\* before it is ready.
LEMMA OwnerKeeps ==
  ASSUME TestInv, Prepare \/ OwnerDies
  PROVE  TestInv'
<1>1. /\ UNCHANGED <<policy, worker, files, fin, probe, stops, lost>>
      /\ owner' \in OwnerSteps
      /\ owner' # "idle"
      /\ record' \in {"absent", "preparing", "ready", "finalizing", "finalized"}
      /\ record' # record => record \in {"absent", "preparing"} /\ record' \in {"absent", "preparing", "ready"}
  BY DEF TestInv, TestTypeOK, NotYetAttached, Prepare, Create, MarkReady, Publish, PrepareFails, OwnerDies,
         OwnerSteps, workerVars, finVars
<1>2. TestTypeOK' /\ OneFinalizer' /\ Marked'
  BY <1>1 DEF TestInv, TestTypeOK, OneFinalizer, Marked, Finalizing
<1>3. FilesHold' /\ NotYetAttached' /\ ListCovers' /\ DrainIsComplete' /\ NobodyLeftBehind'
  BY <1>1 DEF TestInv, FilesHold, NotYetAttached, ListCovers, DrainIsComplete, NobodyLeftBehind
<1>. QED  BY <1>2, <1>3 DEF TestInv

\* A worker attaches only to a session that is ready under its own lock.
LEMMA WorkerKeeps ==
  ASSUME TestInv, NEW w \in Workers, WorkerStep(w) \/ WorkerDies(w)
  PROVE  TestInv'
<1>1. PICK step \in WorkerSteps : worker' = [worker EXCEPT ![w] = step]
  BY DEF WorkerStep, LoadSession, Open, Lock, Reread, Detach, WorkerDies, SetWorker, WorkerSteps
<1>2. UNCHANGED <<record, policy, owner, fin, probe, stops, lost>>
  BY DEF WorkerStep, LoadSession, Open, Lock, Reread, Detach, WorkerDies, ownerVars, finVars
<1>3. /\ step = "attached" => record = "ready" /\ worker[w] = "locked"
      /\ step = "locked" => worker[w] = "opened"
  BY <1>1 DEF WorkerStep, LoadSession, Open, Lock, Reread, Detach, WorkerDies, SetWorker, TestInv, TestTypeOK
<1>4. /\ files' \subseteq Workers
      /\ \A v \in Workers \ {w} : v \in files => v \in files'
      /\ step = "opened" => w \in files'
      /\ step \in {"locked", "attached"} => files' = files
  BY <1>1 DEF WorkerStep, LoadSession, Open, Lock, Reread, Detach, WorkerDies, SetWorker, TestInv, TestTypeOK
<1>5. \A v \in Workers : worker'[v] = IF v = w THEN step ELSE worker[v]
  BY <1>1 DEF TestInv, TestTypeOK
<1>6. TestTypeOK' /\ OneFinalizer' /\ Marked'
  BY <1>1, <1>2, <1>4 DEF TestInv, TestTypeOK, OneFinalizer, Marked, Finalizing
<1>7. FilesHold'
  BY <1>2, <1>3, <1>4, <1>5 DEF TestInv, FilesHold
<1>8. NotYetAttached' /\ NobodyLeftBehind'
  BY <1>2, <1>3, <1>5 DEF TestInv, NotYetAttached, NobodyLeftBehind
<1>9. ListCovers' /\ DrainIsComplete'
  BY <1>2, <1>3, <1>5 DEF TestInv, ListCovers, DrainIsComplete, Marked
<1>. QED  BY <1>6, <1>7, <1>8, <1>9 DEF TestInv

\* A prober finds an attached worker's lock taken, and counts it.
LEMMA ProbeKeeps ==
  ASSUME TestInv, NEW x \in Probers, ProbeStep(x) \/ (x = Status /\ Report)
  PROVE  TestInv'
<1>1. /\ UNCHANGED <<record, policy, owner, worker, fin, stops, lost>>
      /\ files' \subseteq Workers /\ files \subseteq files'
  BY DEF ProbeStep, Unlock, Try, Report, ownerVars, workerVars, TestInv, TestTypeOK
<1>2. PICK p \in [todo : SUBSET Workers, on : SUBSET Workers, live : SUBSET Workers] :
        /\ probe' = [probe EXCEPT ![x] = p]
        /\ x # Status => \A w \in Workers : worker[w] = "attached" /\ w \in probe[x].todo \cup probe[x].live
                           => w \in p.todo \cup p.live
  <2>1. CASE Unlock(x)
    <3>. DEFINE p == [probe[x] EXCEPT !.on = {}]
    <3>1. probe' = [probe EXCEPT ![x] = p]
      BY <2>1 DEF Unlock, SetProbe
    <3>2. p \in [todo : SUBSET Workers, on : SUBSET Workers, live : SUBSET Workers]
      BY DEF TestInv, TestTypeOK
    <3>3. p.todo = probe[x].todo /\ p.live = probe[x].live
      BY DEF TestInv, TestTypeOK
    <3>. HIDE DEF p
    <3>. QED  BY <3>1, <3>2, <3>3
  <2>2. CASE x = Status /\ Report
    <3>. DEFINE p == [todo |-> files, on |-> {}, live |-> {}]
    <3>1. probe' = [probe EXCEPT ![x] = p]
      BY <2>2 DEF Report, ListFiles, SetProbe
    <3>2. p \in [todo : SUBSET Workers, on : SUBSET Workers, live : SUBSET Workers]
      BY DEF TestInv, TestTypeOK
    <3>. QED  BY <2>2, <3>1, <3>2
  <2>3. ASSUME NEW w \in Workers, Try(x, w)
        PROVE  \E p \in [todo : SUBSET Workers, on : SUBSET Workers, live : SUBSET Workers] :
                 /\ probe' = [probe EXCEPT ![x] = p]
                 /\ x # Status => \A v \in Workers :
                      worker[v] = "attached" /\ v \in probe[x].todo \cup probe[x].live
                        => v \in p.todo \cup p.live
    <3>. DEFINE p == [todo |-> probe[x].todo \ {w}, on |-> IF InUse(w, x) THEN {} ELSE {w},
                      live |-> IF InUse(w, x) THEN probe[x].live \cup {w} ELSE probe[x].live]
    <3>1. probe' = [probe EXCEPT ![x] = p]
      BY <2>3 DEF Try, SetProbe
    <3>2. p \in [todo : SUBSET Workers, on : SUBSET Workers, live : SUBSET Workers]
      BY DEF TestInv, TestTypeOK
    <3>3. worker[w] = "attached" => InUse(w, x)
      BY DEF InUse, HoldsOwn
    <3>4. \A v \in Workers : worker[v] = "attached" /\ v \in probe[x].todo \cup probe[x].live
            => v \in p.todo \cup p.live
      BY <3>3
    <3>. HIDE DEF p
    <3>. QED  BY <3>1, <3>2, <3>4
  <2>. QED  BY <2>1, <2>2, <2>3 DEF ProbeStep
<1>3. TestTypeOK' /\ OneFinalizer' /\ Marked'
  BY <1>1, <1>2 DEF TestInv, TestTypeOK, OneFinalizer, Marked, Finalizing
<1>4. FilesHold' /\ NotYetAttached' /\ NobodyLeftBehind' /\ DrainIsComplete'
  BY <1>1 DEF TestInv, FilesHold, NotYetAttached, NobodyLeftBehind, DrainIsComplete
<1>5. ListCovers'
  BY <1>1, <1>2, TestSessionAssumption DEF TestInv, TestTypeOK, ListCovers, Probers
<1>. QED  BY <1>3, <1>4, <1>5 DEF TestInv

\* What a step of one finalizer has to establish.
LEMMA FinKeeps ==
  ASSUME TestInv, NEW f \in Finalizers, FinalizeStep(f) \/ FinDies(f)
  PROVE  TestInv'
<1>. USE TestSessionAssumption DEF Probers
<1>1. PICK step \in FinSteps : fin' = [fin EXCEPT ![f] = step]
  BY DEF FinalizeStep, FinLoad, FinBusy, Enter, Drain, Drained, BeginStop, EndStop, RuntimeStopFails,
         Finalize, Prune, FinDies, SetFin, EndFin, FinSteps
<1>2. \A g \in Finalizers : fin'[g] = IF g = f THEN step ELSE fin[g]
  BY <1>1 DEF TestInv, TestTypeOK
<1>3. PICK p \in [todo : SUBSET Workers, on : SUBSET Workers, live : SUBSET Workers] :
        /\ probe' = [probe EXCEPT ![f] = p]
        /\ step = "listed" => p.todo = files
  <2>1. CASE Drain(f)
    <3>. DEFINE p == [todo |-> files, on |-> {}, live |-> {}]
    <3>1. probe' = [probe EXCEPT ![f] = p]
      BY <2>1 DEF Drain, ListFiles, SetProbe
    <3>2. p \in [todo : SUBSET Workers, on : SUBSET Workers, live : SUBSET Workers] /\ p.todo = files
      BY DEF TestInv, TestTypeOK
    <3>. HIDE DEF p
    <3>. QED  BY <3>1, <3>2
  <2>2. CASE probe' = probe /\ step # "listed"
    <3>1. probe' = [probe EXCEPT ![f] = probe[f]]
      BY <2>2 DEF TestInv, TestTypeOK
    <3>. QED  BY <2>2, <3>1 DEF TestInv, TestTypeOK
  <2>3. CASE probe' = [probe EXCEPT ![f] = NoProbe] /\ step # "listed"
    BY <2>3 DEF NoProbe
  <2>4. CASE FinBusy(f) \/ RuntimeStopFails(f) \/ Prune(f) \/ FinDies(f)
    <3>1. fin' = [fin EXCEPT ![f] = "ended"] /\ probe' = [probe EXCEPT ![f] = NoProbe]
      BY <2>4 DEF FinBusy, RuntimeStopFails, Prune, FinDies, EndFin, SetFin, SetProbe
    <3>. QED  BY <1>2, <2>3, <3>1 DEF TestInv, TestTypeOK
  <2>5. CASE FinLoad(f) \/ BeginStop(f) \/ EndStop(f) \/ Finalize(f)
    <3>1. /\ \E s \in FinSteps \ {"listed"} : fin' = [fin EXCEPT ![f] = s]
          /\ probe' = probe
      BY <2>5 DEF FinLoad, BeginStop, EndStop, Finalize, SetFin, FinSteps
    <3>. QED  BY <1>2, <2>2, <3>1 DEF TestInv, TestTypeOK
  <2>6. CASE Enter(f) \/ Drained(f)
    <3>1. /\ \E s \in FinSteps \ {"listed"} : fin' = [fin EXCEPT ![f] = s]
          /\ probe' = probe \/ probe' = [probe EXCEPT ![f] = NoProbe]
      BY <2>6 DEF Enter, Drained, EndFin, SetFin, SetProbe, FinSteps
    <3>. QED  BY <1>2, <2>2, <2>3, <3>1 DEF TestInv, TestTypeOK
  <2>. QED  BY <2>1, <2>4, <2>5, <2>6 DEF FinalizeStep
<1>4. /\ UNCHANGED <<policy, owner, worker>>
      /\ files' \subseteq files
      /\ files' = files \/ record = "finalized"
      /\ stops' \in Nat /\ lost' \subseteq Finalizers
  BY DEF FinalizeStep, FinLoad, FinBusy, Enter, Drain, Drained, BeginStop, EndStop, RuntimeStopFails,
         Finalize, Prune, FinDies, ownerVars, workerVars, TestInv, TestTypeOK, Marked
<1>5. /\ record' \in {"absent", "preparing", "ready", "finalizing", "finalized"}
      /\ record' # record =>
           \/ Finalizing(f) /\ record # "finalized"
           \/ /\ \A g \in Finalizers : ~Finalizing(g)
              /\ \/ record = "ready" /\ record' = "finalizing"
                 \/ record = "preparing" /\ record' = "finalized"
      /\ record' = "finalized" => record = "finalized" \/ record = "preparing" \/ fin[f] \in {"drained", "stopped"}
      /\ record' \in {"absent", "preparing"} => record' = record
      /\ Finalizing(f) /\ record = "finalizing" /\ step \notin {"ended", "finalized"} => record' = "finalizing"
  BY <1>2 DEF FinalizeStep, FinLoad, FinBusy, Enter, Drain, Drained, BeginStop, EndStop, RuntimeStopFails,
         Finalize, Prune, FinDies, SetFin, EndFin, TestInv, TestTypeOK, Marked, Finalizing
<1>6. /\ step \in {"entered", "listed", "drained", "stopping", "stopped"} => record' = "finalizing"
      /\ step = "finalized" => record' = "finalized"
      /\ step \notin {"idle", "loaded", "ended"} =>
           Finalizing(f) \/ \A g \in Finalizers : ~Finalizing(g)
  BY <1>2 DEF FinalizeStep, FinLoad, FinBusy, Enter, Drain, Drained, BeginStop, EndStop, RuntimeStopFails,
         Finalize, Prune, FinDies, SetFin, EndFin, TestInv, TestTypeOK, Marked, Finalizing
<1>7. /\ step = "drained" => fin[f] = "listed" /\ probe[f].todo = {} /\ probe[f].live = {}
      /\ step \in {"stopping", "stopped"} => fin[f] \in {"drained", "stopping"}
  BY <1>2 DEF FinalizeStep, FinLoad, FinBusy, Enter, Drain, Drained, BeginStop, EndStop, RuntimeStopFails,
         Finalize, Prune, FinDies, SetFin, EndFin, Counted, TestInv, TestTypeOK
<1>8. TestTypeOK'
  BY <1>1, <1>3, <1>4, <1>5 DEF TestInv, TestTypeOK
<1>9. OneFinalizer'
  BY <1>2, <1>6 DEF TestInv, OneFinalizer, Finalizing
<1>10. Marked'
  BY <1>2, <1>5, <1>6 DEF TestInv, Marked, OneFinalizer, Finalizing
<1>11. FilesHold' /\ NotYetAttached'
  <2>1. record \in {"absent", "finalized"} => record' = record
    BY <1>5 DEF TestInv, TestTypeOK, Marked, Finalizing, FinSteps
  <2>2. FilesHold'
    BY <1>4, <2>1 DEF TestInv, FilesHold
  <2>3. NotYetAttached'
    BY <1>4, <1>5, <2>1 DEF TestInv, NotYetAttached
  <2>. QED  BY <2>2, <2>3
<1>12. ListCovers'
  <2>1. \A g \in Finalizers : probe'[g] = IF g = f THEN p ELSE probe[g]
    BY <1>3 DEF TestInv, TestTypeOK
  <2>2. step = "listed" => \A w \in Workers : worker[w] = "attached" => w \in p.todo
    BY <1>3, <1>5, <1>6 DEF TestInv, FilesHold, Marked
  <2>. QED  BY <1>2, <1>4, <2>1, <2>2 DEF TestInv, ListCovers
<1>13. DrainIsComplete'
  BY <1>2, <1>4, <1>7 DEF TestInv, DrainIsComplete, ListCovers
<1>14. NobodyLeftBehind'
  BY <1>4, <1>5 DEF TestInv, NobodyLeftBehind, DrainIsComplete, NotYetAttached
<1>. QED  BY <1>8, <1>9, <1>10, <1>11, <1>12, <1>13, <1>14 DEF TestInv

LEMMA TestInvStep == TestInv /\ [TestNext]_testVars => TestInv'
<1>. SUFFICES ASSUME TestInv, [TestNext]_testVars PROVE TestInv'
  OBVIOUS
<1>1. CASE Prepare \/ OwnerDies
  BY <1>1, OwnerKeeps
<1>2. CASE \E w \in Workers : WorkerStep(w) \/ WorkerDies(w)
  BY <1>2, WorkerKeeps
<1>3. CASE (\E x \in Probers : ProbeStep(x)) \/ Report
  BY <1>3, ProbeKeeps DEF Probers
<1>4. CASE \E f \in Finalizers : FinalizeStep(f) \/ FinDies(f)
  BY <1>4, FinKeeps
<1>5. CASE UNCHANGED testVars
  BY <1>5 DEF testVars, TestInv, TestTypeOK, OneFinalizer, Marked, FilesHold, NotYetAttached, ListCovers,
              DrainIsComplete, NobodyLeftBehind, Finalizing
<1>. QED  BY <1>1, <1>2, <1>3, <1>4, <1>5 DEF TestNext

-----------------------------------------------------------------------------
(* How often the Runtime is stopped. *)

\* A stop that the record does not show yet is the stop of a finalizer that is
\* still there, or of one that is lost.
StopsCounted ==
  /\ \A f \in lost : fin[f] = "ended"
  /\ stops <= Cardinality(lost) + 1
  /\ record # "finalized" /\ (\A f \in Finalizers : fin[f] # "stopped") => stops <= Cardinality(lost)

LEMMA LostIsFinite ==
  ASSUME TestTypeOK
  PROVE  IsFiniteSet(lost) /\ Cardinality(lost) \in Nat
BY TestSessionAssumption, FS_Subset, FS_CardinalityType DEF TestTypeOK

LEMMA FinKeepsCount ==
  ASSUME TestInv, StopsCounted, NEW f \in Finalizers, FinalizeStep(f) \/ FinDies(f)
  PROVE  StopsCounted'
<1>1. TestTypeOK /\ stops \in Nat /\ Cardinality(lost) \in Nat /\ IsFiniteSet(lost)
  BY LostIsFinite DEF TestInv, TestTypeOK
<1>2. CASE EndStop(f)
  <2>1. \A g \in Finalizers : fin[g] # "stopped"
    BY <1>2 DEF EndStop, TestInv, OneFinalizer, Finalizing
  <2>2. record = "finalizing"
    BY <1>2 DEF EndStop, TestInv, Marked
  <2>3. stops <= Cardinality(lost)
    BY <2>1, <2>2 DEF StopsCounted
  <2>4. lost' = lost /\ stops' = stops + 1 /\ fin' = [fin EXCEPT ![f] = "stopped"] /\ fin[f] = "stopping"
    BY <1>2 DEF EndStop, SetFin
  <2>5. fin'[f] = "stopped" /\ \A g \in lost' : fin'[g] = "ended"
    BY <1>1, <2>4 DEF StopsCounted, TestTypeOK
  <2>6. stops' <= Cardinality(lost') + 1
    BY <1>1, <2>3, <2>4
  <2>. QED  BY <2>5, <2>6 DEF StopsCounted
<1>3. CASE FinDies(f) /\ fin[f] = "stopped"
  <2>1. lost' = lost \cup {f} /\ stops' = stops /\ fin' = [fin EXCEPT ![f] = "ended"]
    BY <1>3 DEF FinDies, EndFin, SetFin
  <2>2. f \notin lost
    BY <1>3 DEF StopsCounted
  <2>3. Cardinality(lost') = Cardinality(lost) + 1
    BY <1>1, <2>1, <2>2, FS_AddElement
  <2>4. stops' <= Cardinality(lost')
    BY <2>1, <2>3 DEF StopsCounted
  <2>5. \A g \in lost' : fin'[g] = "ended"
    BY <1>1, <2>1 DEF StopsCounted, TestTypeOK
  <2>6. Cardinality(lost') \in Nat /\ stops' \in Nat
    BY <1>1, <2>1, <2>3
  <2>. QED  BY <2>4, <2>5, <2>6 DEF StopsCounted
<1>4. CASE ~EndStop(f) /\ ~(FinDies(f) /\ fin[f] = "stopped")
  <2>1. lost' = lost /\ stops' = stops
    BY <1>4 DEF FinalizeStep, FinLoad, FinBusy, Enter, Drain, Drained, BeginStop, RuntimeStopFails,
                Finalize, Prune, FinDies
  <2>2. PICK step \in FinSteps \ {"stopped"} : fin' = [fin EXCEPT ![f] = step]
    BY <1>4 DEF FinalizeStep, FinLoad, FinBusy, Enter, Drain, Drained, BeginStop, RuntimeStopFails,
                Finalize, Prune, FinDies, SetFin, EndFin, FinSteps
  <2>3. fin[f] # "ended"
    BY DEF FinalizeStep, FinLoad, FinBusy, Enter, Drain, Drained, BeginStop, EndStop, RuntimeStopFails,
           Finalize, Prune, FinDies, Finalizing
  <2>4. /\ fin[f] = "stopped" => record' = "finalized"
        /\ record = "finalized" => record' = "finalized"
    BY <1>4 DEF FinalizeStep, FinLoad, FinBusy, Enter, Drain, Drained, BeginStop, RuntimeStopFails,
                Finalize, Prune, FinDies, TestInv, Marked
  <2>5. \A g \in Finalizers : fin'[g] = IF g = f THEN step ELSE fin[g]
    BY <1>1, <2>2 DEF TestTypeOK
  <2>6. \A g \in lost' : fin'[g] = "ended"
    BY <1>1, <2>1, <2>3, <2>5 DEF StopsCounted, TestTypeOK
  <2>. QED  BY <2>1, <2>2, <2>4, <2>5, <2>6 DEF StopsCounted
<1>. QED  BY <1>2, <1>3, <1>4

LEMMA StopsCountedStep == TestInv /\ StopsCounted /\ [TestNext]_testVars => StopsCounted'
<1>. SUFFICES ASSUME TestInv, StopsCounted, [TestNext]_testVars PROVE StopsCounted'
  OBVIOUS
<1>1. CASE \E f \in Finalizers : FinalizeStep(f) \/ FinDies(f)
  BY <1>1, FinKeepsCount
<1>2. CASE ~(\E f \in Finalizers : FinalizeStep(f) \/ FinDies(f))
  <2>1. fin' = fin /\ stops' = stops /\ lost' = lost
    BY <1>2 DEF TestNext, testVars, Prepare, Create, MarkReady, Publish, PrepareFails, OwnerDies, WorkerStep,
         LoadSession, Open, Lock, Reread, Detach, WorkerDies, ProbeStep, Unlock, Try, Report, finVars
  <2>2. record = "finalized" => record' = "finalized"
    BY <1>2 DEF TestNext, testVars, Prepare, Create, MarkReady, Publish, PrepareFails, OwnerDies, WorkerStep,
         LoadSession, Open, Lock, Reread, Detach, WorkerDies, ProbeStep, Unlock, Try, Report, TestInv,
         NotYetAttached
  <2>. QED  BY <2>1, <2>2 DEF StopsCounted
<1>. QED  BY <1>1, <1>2

-----------------------------------------------------------------------------
\* The drain of a finalizer is complete, and a finalized session has no worker
\* left in it (test_session.rs: register_participant, live_participants).
THEOREM NobodyIsLeftBehind == TestSpec => [](TestTypeOK /\ FinalizedAlone)
<1>1. TestInv => TestTypeOK /\ FinalizedAlone
  BY DEF TestInv, FinalizedAlone
<1>. QED  BY <1>1, TestInvInit, TestInvStep, PTL DEF TestSpec

\* The recorded policy is applied once, but for the finalizers that died between
\* the stop of the Runtime and the record of it (application.rs, finalize).
THEOREM PolicyAppliedOnce == TestSpec => []StoppedOnce
<1>1. TestInit => StopsCounted
  BY FS_EmptySet DEF TestInit, StopsCounted
<1>2. TestInv /\ StopsCounted => StoppedOnce
  <2>. SUFFICES ASSUME TestInv, StopsCounted PROVE StoppedOnce
    OBVIOUS
  <2>1. stops \in Nat /\ Cardinality(lost) \in Nat
    BY LostIsFinite DEF TestInv, TestTypeOK
  <2>. QED  BY <2>1 DEF StopsCounted, StoppedOnce
<1>. QED  BY <1>1, <1>2, TestInvInit, TestInvStep, StopsCountedStep, PTL DEF TestSpec

\* Only the finalizer that holds the lock takes a session out of finalizing, and
\* nobody reopens a finalized one.
THEOREM OnlyItsFinalizerReopens == TestSpec => ReopenedByItsFinalizer
<1>. DEFINE Kept == /\ record = "finalized" => record' = "finalized"
                    /\ (record = "finalizing" /\ record' # "finalizing")
                         => \E f \in Finalizers : fin[f] \in {"listed", "drained", "stopped"}
                                                  /\ fin'[f] # fin[f]
<1>1. TestInv /\ TestNext => Kept
  <2>. SUFFICES ASSUME TestInv, TestNext PROVE Kept
    OBVIOUS
  <2>1. CASE \E f \in Finalizers : FinalizeStep(f) \/ FinDies(f)
    <3>1. PICK f \in Finalizers : FinalizeStep(f) \/ FinDies(f)
      BY <2>1
    <3>2. record = "finalized" => record' = "finalized"
      BY <3>1 DEF FinalizeStep, FinLoad, FinBusy, Enter, Drain, Drained, BeginStop, EndStop,
           RuntimeStopFails, Finalize, Prune, FinDies, TestInv, Marked
    <3>3. record = "finalizing" /\ record' # "finalizing" =>
            fin[f] \in {"listed", "drained", "stopped"} /\ fin'[f] \in {"ended", "finalized"}
      BY <3>1 DEF FinalizeStep, FinLoad, FinBusy, Enter, Drain, Drained, BeginStop, EndStop,
           RuntimeStopFails, Finalize, Prune, FinDies, SetFin, EndFin, TestInv, TestTypeOK, Marked
    <3>. QED  BY <3>2, <3>3
  <2>2. CASE ~(\E f \in Finalizers : FinalizeStep(f) \/ FinDies(f))
    BY <2>2 DEF TestNext, Prepare, Create, MarkReady, Publish, PrepareFails, OwnerDies, WorkerStep,
         LoadSession, Open, Lock, Reread, Detach, WorkerDies, ProbeStep, Unlock, Try, Report, TestInv,
         NotYetAttached
  <2>. QED  BY <2>1, <2>2
<1>2. TestInv /\ [TestNext]_testVars => [Kept]_testVars
  BY <1>1
<1>. HIDE DEF Kept
<1>3. TestSpec => [][Kept]_testVars
  BY <1>2, TestInvInit, TestInvStep, PTL DEF TestSpec
<1>. QED  BY <1>3 DEF ReopenedByItsFinalizer, Kept

-----------------------------------------------------------------------------
(***************************************************************************)
(* The evidence of browser tests, for any number of commands, suites,      *)
(* lanes and stored runs.  Who is at work holds the app as far as it needs *)
(* it; the lanes of a runner hold what may meet; what was not seen lasts;  *)
(* and who prunes holds the store, with a run for every number of newer    *)
(* ones.                                                                   *)
(***************************************************************************)

CommandSteps == {"idle", "wait", "stage", "run", "check", "commit", "prune", "answered", "failed",
                 "killed"}
GivenSuites == Suites \union {<<>>}
SuiteType == [at : CommandSteps, suite : GivenSuites,
              tests : UNION {[DOMAIN s -> TestStates] : s \in GivenSuites},
              changed : BOOLEAN, seen : BOOLEAN, unseen : BOOLEAN, passed : BOOLEAN,
              victims : SUBSET StoredRuns]

StoreTypes ==
  /\ appShared \subseteq TestCommands /\ appAlone \subseteq TestCommands
  /\ runDirs \in [StoredRuns -> {"none", "staging", "whole", "half"}]
  /\ changedSince \in [StoredRuns -> SUBSET StoredRuns]
  /\ storeLock \in TestCommands \union {"listing", "free"}
  /\ listing \in [at : {"idle", "index", "verify", "listed"}, run : StoredRuns \union {NoRun}]

BrowserTypes ==
  /\ testing \in [TestCommands -> SuiteType]
  /\ \A c \in TestCommands : testing[c].tests \in [DOMAIN testing[c].suite -> TestStates]
  /\ StoreTypes

\* The app is shared by commands that only read, or one has it alone.
AppIsShared ==
  /\ \A c, d \in appAlone : c = d
  /\ appAlone = {} \/ appShared = {}

\* What a command may do with the app.
AppFits(c) ==
  testing[c].at \in {"stage", "run", "check", "commit", "prune"}
    => c \in appAlone \/ (c \in appShared /\ ReadsOnly(c))

\* Only a runner has tests in its lanes, none of them beside one it must not meet, and none
\* passed a test of the VM that waits.
InLanes(c, i) == i \in DOMAIN testing[c].tests /\ testing[c].tests[i] \in InLane
LanesFit(c) ==
  /\ testing[c].at # "run" => \A i \in DOMAIN testing[c].tests : ~InLanes(c, i)
  /\ \A i, j \in DOMAIN testing[c].tests : InLanes(c, i) /\ InLanes(c, j) /\ i # j => Beside(Uses(c, i), Uses(c, j))
  /\ \A i, j \in DOMAIN testing[c].tests :
       /\ testing[c].tests[i] = "pending" /\ Uses(c, i) = "vm-lifecycle"
       /\ InLanes(c, j) \/ testing[c].tests[j] \in {"passed", "failed"}
       => j <= i

\* What was not seen lasts.
VerdictFits(c) ==
  /\ testing[c].passed => ~testing[c].unseen
  /\ testing[c].at \in {"idle", "wait", "stage", "run"} =>
       ~testing[c].passed /\ (testing[c].unseen => testing[c].changed)

\* The runs are in one order, that of their last changes, and every run of the store is in it.
Ordered ==
  /\ \A r, s \in StoredRuns : s \in changedSince[r] =>
       /\ r \in changedSince[r] /\ s \in changedSince[s] /\ changedSince[s] \subseteq changedSince[r]
       /\ s # r => r \notin changedSince[s]
  /\ \A r, s \in StoredRuns : r \in changedSince[r] /\ s \in changedSince[s] =>
       s \in changedSince[r] \/ r \in changedSince[s]
InOrder ==
  /\ Ordered
  /\ \A r \in StoredRuns : runDirs[r] \in {"whole", "half"} => r \in changedSince[r]

Stored == {r \in StoredRuns : runDirs[r] \in {"whole", "half"}}

\* A command that prunes holds the store, has its run in it, and will leave no more than to keep.
RunFits(c) ==
  /\ testing[c].at = "commit" => c \in changedSince[c]
  /\ testing[c].at = "prune" =>
       /\ storeLock = c /\ runDirs[c] = "whole" /\ c \notin testing[c].victims
       /\ testing[c].victims \subseteq Stored
       /\ Cardinality(Stored \ testing[c].victims) <= Retention
  /\ testing[c].at = "failed" => runDirs[c] = "none"
  /\ runDirs[c] \in {"whole", "half"} => testing[c].at \in {"prune", "answered", "killed"}

ListingFits ==
  /\ listing.at # "idle" => storeLock = "listing" /\ listing.run \in StoredRuns
  /\ listing.at = "listed" => runDirs[listing.run] = "whole"

CommandFits(c) == AppFits(c) /\ LanesFit(c) /\ VerdictFits(c) /\ RunFits(c)

BrowserInv ==
  /\ BrowserTypes /\ AppIsShared /\ InOrder /\ ListingFits
  /\ \A c \in TestCommands : CommandFits(c)

\* As much of a command's record as its tests and the app need.
LEMMA Suited ==
  ASSUME BrowserTypes, NEW c \in TestCommands
  PROVE  /\ testing[c] \in SuiteType
         /\ testing[c].at \in CommandSteps /\ testing[c].suite \in GivenSuites
         /\ testing[c].tests \in [DOMAIN testing[c].suite -> TestStates]
         /\ DOMAIN testing[c].tests = DOMAIN testing[c].suite
         /\ testing[c].changed \in BOOLEAN /\ testing[c].seen \in BOOLEAN
         /\ testing[c].unseen \in BOOLEAN /\ testing[c].passed \in BOOLEAN
         /\ testing[c].victims \subseteq StoredRuns
<1>1. testing[c] \in SuiteType /\ testing[c].tests \in [DOMAIN testing[c].suite -> TestStates]
  BY DEF BrowserTypes
<1> QED
  BY <1>1 DEF SuiteType

\* Tests are numbered.
LEMMA Numbered == \A s \in GivenSuites : DOMAIN s \subseteq Nat \ {0}
<1>1. \A s \in Seq(Resources) : DOMAIN s \subseteq Nat \ {0}
  OBVIOUS
<1>2. GivenSuites \subseteq Seq(Resources)
  <2>1. <<>> \in Seq(Resources)
    OBVIOUS
  <2> QED
    BY <2>1, BrowserTestsAssumption DEF GivenSuites
<1> QED
  BY <1>1, <1>2

LEMMA NoSuiteFits ==
  /\ NoSuite \in SuiteType /\ NoSuite.tests \in [DOMAIN NoSuite.suite -> TestStates]
  /\ NoSuite.at = "idle" /\ NoSuite.suite = <<>> /\ NoSuite.tests = <<>> /\ NoSuite.victims = {}
  /\ ~NoSuite.changed /\ ~NoSuite.seen /\ ~NoSuite.unseen /\ ~NoSuite.passed
<1>1. <<>> \in [DOMAIN <<>> -> TestStates] /\ <<>> \in GivenSuites
  BY DEF GivenSuites
<1>2. /\ NoSuite.at = "idle" /\ NoSuite.suite = <<>> /\ NoSuite.tests = <<>> /\ NoSuite.victims = {}
      /\ ~NoSuite.changed /\ ~NoSuite.seen /\ ~NoSuite.unseen /\ ~NoSuite.passed
  BY DEF NoSuite
<1>3. <<>> \in UNION {[DOMAIN s -> TestStates] : s \in GivenSuites}
  BY <1>1
<1>4. NoSuite \in SuiteType
  BY <1>1, <1>3 DEF NoSuite, SuiteType, CommandSteps
<1> QED
  BY <1>1, <1>2, <1>4

\* A record that differs from no suite in its step, its verdict and what it prunes.
Ended(at, unseen, passed, victims) ==
  [NoSuite EXCEPT !.at = at, !.unseen = unseen, !.passed = passed, !.victims = victims]

LEMMA EndedFits ==
  ASSUME NEW at \in CommandSteps, NEW unseen \in BOOLEAN, NEW passed \in BOOLEAN,
         NEW victims \in SUBSET StoredRuns
  PROVE  LET r == Ended(at, unseen, passed, victims)
         IN
         /\ r \in SuiteType /\ r.tests \in [DOMAIN r.suite -> TestStates]
         /\ r.at = at /\ r.suite = <<>> /\ r.tests = <<>> /\ r.victims = victims
         /\ r.unseen = unseen /\ r.passed = passed
<1> DEFINE r == Ended(at, unseen, passed, victims)
<1>1. r \in SuiteType
  BY NoSuiteFits DEF SuiteType, Ended
<1>2. /\ r.at = at /\ r.suite = <<>> /\ r.tests = <<>> /\ r.victims = victims
      /\ r.unseen = unseen /\ r.passed = passed
  BY NoSuiteFits DEF SuiteType, Ended
<1>3. r.tests \in [DOMAIN r.suite -> TestStates]
  BY <1>2, NoSuiteFits
<1> HIDE DEF r
<1>4. /\ r \in SuiteType /\ r.tests \in [DOMAIN r.suite -> TestStates]
      /\ r.at = at /\ r.suite = <<>> /\ r.tests = <<>> /\ r.victims = victims
      /\ r.unseen = unseen /\ r.passed = passed
  BY <1>1, <1>2, <1>3
<1> QED
  BY <1>4 DEF r

\* What a step of one command must show; the others keep what is theirs.
LEMMA OneCommandGoes ==
  ASSUME BrowserInv, NEW c \in TestCommands, NEW r \in SuiteType,
         r.tests \in [DOMAIN r.suite -> TestStates],
         testing' = [testing EXCEPT ![c] = r],
         StoreTypes', AppIsShared', InOrder', ListingFits', CommandFits(c)',
         \A d \in TestCommands \ {c} : /\ d \in appAlone => d \in appAlone'
                                       /\ d \in appShared => d \in appShared'
                                       /\ RunFits(d)'
  PROVE  BrowserInv'
<1>1. testing \in [TestCommands -> SuiteType]
  BY DEF BrowserInv, BrowserTypes
<1>2. testing' \in [TestCommands -> SuiteType] /\ testing'[c] = r
      /\ \A d \in TestCommands \ {c} : testing'[d] = testing[d]
  BY <1>1
<1>3. BrowserTypes'
  <2>1. \A d \in TestCommands : testing'[d].tests \in [DOMAIN testing'[d].suite -> TestStates]
    BY <1>2 DEF BrowserInv, BrowserTypes
  <2> QED
    BY <1>2, <2>1 DEF BrowserTypes
<1>4. ASSUME NEW d \in TestCommands \ {c} PROVE CommandFits(d)'
  <2>1. CommandFits(d) /\ testing'[d] = testing[d]
    BY <1>2 DEF BrowserInv
  <2>2. AppFits(d)'
    BY <2>1 DEF CommandFits, AppFits, ReadsOnly
  <2>3. LanesFit(d)' /\ VerdictFits(d)'
    BY <2>1 DEF CommandFits, LanesFit, InLanes, VerdictFits, Uses
  <2> QED
    BY <2>2, <2>3 DEF CommandFits
<1> QED
  BY <1>3, <1>4 DEF BrowserInv

LEMMA BrowserStart == BrowserInit => BrowserInv
<1> SUFFICES ASSUME BrowserInit PROVE BrowserInv
  OBVIOUS
<1>1. BrowserTypes
  BY NoSuiteFits, BrowserTestsAssumption DEF BrowserInit, BrowserTypes, StoreTypes, StoredRuns
<1>2. AppIsShared /\ ListingFits
  BY DEF BrowserInit, AppIsShared, ListingFits
<1>3. InOrder
  BY BrowserTestsAssumption DEF BrowserInit, InOrder, Ordered, StoredRuns
<1>4. ASSUME NEW c \in TestCommands PROVE CommandFits(c)
  <2>1. testing[c] = NoSuite /\ runDirs[c] = "none"
    BY BrowserTestsAssumption DEF BrowserInit, StoredRuns
  <2> QED
    BY <2>1, NoSuiteFits DEF CommandFits, AppFits, LanesFit, InLanes, VerdictFits, RunFits
<1> QED
  BY <1>1, <1>2, <1>3, <1>4 DEF BrowserInv

\* What happens to the order of the runs.
LEMMA ForgottenKeeps ==
  ASSUME StoreTypes, InOrder, NEW r \in StoredRuns, Forgotten(r)
  PROVE  /\ changedSince' \in [StoredRuns -> SUBSET StoredRuns] /\ Ordered'
         /\ \A s \in StoredRuns \ {r} : s \in changedSince[s] => s \in changedSince'[s]
<1>1. /\ changedSince \in [StoredRuns -> SUBSET StoredRuns]
      /\ \A s \in StoredRuns \ {r} : changedSince'[s] = changedSince[s] \ {r}
      /\ changedSince'[r] = {}
  BY DEF StoreTypes, Forgotten
<1>2. changedSince' \in [StoredRuns -> SUBSET StoredRuns]
  BY <1>1 DEF Forgotten
<1>3. Ordered'
  <2>1. ASSUME NEW s \in StoredRuns, NEW t \in StoredRuns, t \in changedSince'[s]
        PROVE  /\ s \in changedSince'[s] /\ t \in changedSince'[t]
               /\ changedSince'[t] \subseteq changedSince'[s] /\ (t # s => s \notin changedSince'[t])
    <3>1. s # r /\ t # r /\ t \in changedSince[s]
      BY <1>1, <2>1
    <3>2. /\ s \in changedSince[s] /\ t \in changedSince[t]
          /\ changedSince[t] \subseteq changedSince[s] /\ (t # s => s \notin changedSince[t])
      BY <3>1 DEF InOrder, Ordered
    <3> QED
      BY <1>1, <3>1, <3>2
  <2>2. ASSUME NEW s \in StoredRuns, NEW t \in StoredRuns, s \in changedSince'[s], t \in changedSince'[t]
        PROVE  t \in changedSince'[s] \/ s \in changedSince'[t]
    <3>1. s # r /\ t # r /\ s \in changedSince[s] /\ t \in changedSince[t]
      BY <1>1, <2>2
    <3> QED
      BY <1>1, <3>1 DEF InOrder, Ordered
  <2> QED
    BY <2>1, <2>2 DEF Ordered
<1> QED
  BY <1>1, <1>2, <1>3

LEMMA ChangedLastKeeps ==
  ASSUME StoreTypes, InOrder, NEW r \in StoredRuns, ChangedLast(r)
  PROVE  /\ changedSince' \in [StoredRuns -> SUBSET StoredRuns] /\ Ordered'
         /\ \A s \in StoredRuns : s \in changedSince[s] \/ s = r => s \in changedSince'[s]
<1>1. /\ changedSince \in [StoredRuns -> SUBSET StoredRuns]
      /\ \A s \in StoredRuns \ {r} :
           changedSince'[s] = IF changedSince[s] = {} THEN {} ELSE changedSince[s] \union {r}
      /\ changedSince'[r] = {r}
  BY DEF StoreTypes, ChangedLast
<1>2. changedSince' \in [StoredRuns -> SUBSET StoredRuns]
  BY <1>1 DEF ChangedLast
<1>3. Ordered'
  <2>1. ASSUME NEW s \in StoredRuns, NEW t \in StoredRuns, t \in changedSince'[s]
        PROVE  /\ s \in changedSince'[s] /\ t \in changedSince'[t]
               /\ changedSince'[t] \subseteq changedSince'[s] /\ (t # s => s \notin changedSince'[t])
    <3>1. CASE s = r
      BY <1>1, <2>1, <3>1
    <3>2. CASE s # r /\ t = r
      <4>1. changedSince[s] # {} /\ changedSince'[s] = changedSince[s] \union {r}
        BY <1>1, <2>1, <3>2
      <4>2. PICK u \in StoredRuns : u \in changedSince[s]
        BY <1>1, <4>1
      <4>3. s \in changedSince[s]
        BY <4>2 DEF InOrder, Ordered
      <4> QED
        BY <1>1, <3>2, <4>1, <4>3
    <3>3. CASE s # r /\ t # r
      <4>1. t \in changedSince[s]
        BY <1>1, <2>1, <3>3
      <4>2. /\ s \in changedSince[s] /\ t \in changedSince[t]
            /\ changedSince[t] \subseteq changedSince[s] /\ (t # s => s \notin changedSince[t])
        BY <4>1 DEF InOrder, Ordered
      <4>3. changedSince'[s] = changedSince[s] \union {r} /\ changedSince'[t] = changedSince[t] \union {r}
        BY <1>1, <3>3, <4>2
      <4> QED
        BY <3>3, <4>2, <4>3
    <3> QED
      BY <3>1, <3>2, <3>3
  <2>2. ASSUME NEW s \in StoredRuns, NEW t \in StoredRuns, s \in changedSince'[s], t \in changedSince'[t]
        PROVE  t \in changedSince'[s] \/ s \in changedSince'[t]
    <3>1. CASE s # r /\ t # r
      <4>1. s \in changedSince[s] /\ t \in changedSince[t]
        BY <1>1, <2>2, <3>1
      <4>2. t \in changedSince[s] \/ s \in changedSince[t]
        BY <4>1 DEF InOrder, Ordered
      <4> QED
        BY <1>1, <3>1, <4>1, <4>2
    <3>2. CASE s = r \/ t = r
      BY <1>1, <2>2, <3>2
    <3> QED
      BY <3>1, <3>2
  <2> QED
    BY <2>1, <2>2 DEF Ordered
<1>4. \A s \in StoredRuns : s \in changedSince[s] \/ s = r => s \in changedSince'[s]
  BY <1>1
<1> QED
  BY <1>2, <1>3, <1>4

\* Of the other runs in the store fewer stay than are to be kept: each has a number of newer
\* ones of its own.
LEMMA FewStay ==
  ASSUME StoreTypes, InOrder, NEW c \in TestCommands
  PROVE  LET kept == (InStore(c) \ {c}) \ Surplus(c)
         IN IsFiniteSet(kept) /\ Cardinality(kept) <= Retention - 1
<1> DEFINE others == InStore(c) \ {c}
           New(r) == {s \in others : Newer(s, r)}
           kept == others \ Surplus(c)
           number == [r \in kept |-> Cardinality(New(r))]
<1>1. IsFiniteSet(StoredRuns) /\ Retention \in Nat \ {0}
  BY BrowserTestsAssumption
<1>2. others \subseteq StoredRuns /\ kept \subseteq others
  BY DEF InStore
<1>3. \A r \in others : IsFiniteSet(New(r)) /\ Cardinality(New(r)) \in Nat
  <2> SUFFICES ASSUME NEW r \in others PROVE IsFiniteSet(New(r)) /\ Cardinality(New(r)) \in Nat
    OBVIOUS
  <2>1. New(r) \in SUBSET StoredRuns
    BY <1>2
  <2>2. IsFiniteSet(New(r))
    BY <1>1, <2>1, FS_Subset
  <2> QED
    BY <2>2, FS_CardinalityType
<1>4. \A r \in kept : Cardinality(New(r)) + 1 < Retention
  <2> SUFFICES ASSUME NEW r \in kept PROVE Cardinality(New(r)) + 1 < Retention
    OBVIOUS
  <2>1. r \in InStore(c) \ {c} /\ r \notin Surplus(c)
    OBVIOUS
  <2>2. ~(Cardinality({s \in InStore(c) \ {c} : Newer(s, r)}) + 1 >= Retention)
    BY <2>1 DEF Surplus
  <2>3. ~(Cardinality(New(r)) + 1 >= Retention)
    BY <2>2
  <2>4. Cardinality(New(r)) \in Nat
    BY <1>2, <1>3
  <2> HIDE DEF New
  <2> QED
    BY <1>1, <2>3, <2>4
<1>5. ASSUME NEW r \in others, NEW s \in others, s \in changedSince[r], r # s
      PROVE  Cardinality(New(s)) < Cardinality(New(r))
  <2>0. r \in StoredRuns /\ s \in StoredRuns
    BY <1>2
  <2>1. changedSince[s] \subseteq changedSince[r] /\ r \notin changedSince[s]
    BY <1>5, <2>0 DEF InOrder, Ordered
  <2>2. New(s) \in SUBSET New(r) /\ s \in New(r) /\ s \notin New(s)
    BY <1>5, <2>1 DEF Newer
  <2>3. /\ IsFiniteSet(New(r)) /\ Cardinality(New(r)) \in Nat /\ Cardinality(New(s)) \in Nat
    BY <1>3
  <2> HIDE DEF New
  <2>4. Cardinality(New(s)) <= Cardinality(New(r)) /\ Cardinality(New(s)) # Cardinality(New(r))
    BY <2>2, <2>3, FS_Subset
  <2> QED
    BY <2>3, <2>4
<1>6. ASSUME NEW r \in others, NEW s \in others, r # s
      PROVE  Cardinality(New(r)) # Cardinality(New(s))
  <2>0. r \in StoredRuns /\ s \in StoredRuns /\ r # c /\ s # c
    BY <1>2
  <2>1. r \in changedSince[r] /\ s \in changedSince[s]
    BY <2>0 DEF InOrder, InStore
  <2>2. s \in changedSince[r] \/ r \in changedSince[s]
    BY <2>0, <2>1 DEF InOrder, Ordered
  <2>3. Cardinality(New(s)) \in Nat /\ Cardinality(New(r)) \in Nat
    BY <1>3
  <2>4. Cardinality(New(s)) < Cardinality(New(r)) \/ Cardinality(New(r)) < Cardinality(New(s))
    BY <1>5, <1>6, <2>2
  <2> HIDE DEF New
  <2> QED
    BY <2>3, <2>4
<1>7. number \in Injection(kept, 0..(Retention - 2))
  <2>1. \A r \in kept : Cardinality(New(r)) \in 0..(Retention - 2)
    <3> SUFFICES ASSUME NEW r \in kept PROVE Cardinality(New(r)) \in 0..(Retention - 2)
      OBVIOUS
    <3>1. Cardinality(New(r)) \in Nat /\ Cardinality(New(r)) + 1 < Retention
      BY <1>2, <1>3, <1>4
    <3> HIDE DEF New
    <3> QED
      BY <1>1, <3>1
  <2>2. \A r, s \in kept : r # s => Cardinality(New(r)) # Cardinality(New(s))
    BY <1>2, <1>6
  <2> HIDE DEF kept, New
  <2>3. number \in [kept -> 0..(Retention - 2)]
    BY <2>1
  <2>4. \A r, s \in kept : number[r] = number[s] => r = s
    BY <2>2
  <2> HIDE DEF number
  <2> QED
    BY <2>3, <2>4 DEF Injection, IsInjective
<1>8. IsFiniteSet(0..(Retention - 2)) /\ Cardinality(0..(Retention - 2)) = Retention - 1
  <2>1. Retention - 2 \in Int /\ 0 \in Int
    BY <1>1
  <2>2. /\ IsFiniteSet(0..(Retention - 2))
        /\ Cardinality(0..(Retention - 2)) =
             IF 0 > Retention - 2 THEN 0 ELSE Retention - 2 - 0 + 1
    BY <2>1, FS_Interval
  <2> QED
    BY <1>1, <2>2
<1> HIDE DEF kept, number
<1>9. IsFiniteSet(kept) /\ Cardinality(kept) <= Cardinality(0..(Retention - 2))
  BY <1>7, <1>8, FS_Injection
<1>10. IsFiniteSet(kept) /\ Cardinality(kept) <= Retention - 1
  BY <1>8, <1>9
<1> QED
  BY <1>10 DEF kept

\* A step that leaves the store as it is.
LEMMA StoreIsLeft ==
  ASSUME BrowserInv, NEW c \in TestCommands, UNCHANGED <<runStoreVars, listing>>,
         testing' = [testing EXCEPT ![c] = testing'[c]]
  PROVE  /\ InOrder' /\ ListingFits' /\ \A d \in TestCommands \ {c} : RunFits(d)'
         /\ StoreTypes' <=> appShared' \subseteq TestCommands /\ appAlone' \subseteq TestCommands
<1>1. /\ runDirs' = runDirs /\ changedSince' = changedSince /\ storeLock' = storeLock
      /\ listing' = listing /\ StoreTypes /\ InOrder /\ ListingFits
      /\ testing \in [TestCommands -> SuiteType]
  BY DEF BrowserInv, BrowserTypes, runStoreVars
<1>2. InOrder' /\ ListingFits'
  BY <1>1 DEF InOrder, Ordered, ListingFits
<1>3. \A d \in TestCommands \ {c} : RunFits(d)'
  <2> SUFFICES ASSUME NEW d \in TestCommands \ {c} PROVE RunFits(d)'
    OBVIOUS
  <2>1. testing'[d] = testing[d] /\ RunFits(d)
    BY <1>1 DEF BrowserInv, CommandFits
  <2>2. Stored' = Stored
    BY <1>1 DEF Stored
  <2> QED
    BY <1>1, <2>1, <2>2 DEF RunFits
<1>4. StoreTypes' <=> appShared' \subseteq TestCommands /\ appAlone' \subseteq TestCommands
  BY <1>1 DEF StoreTypes
<1> QED
  BY <1>2, <1>3, <1>4

\* A step of a command, or of its runner, that leaves the app and the store as they are.
LEMMA RecordGoes ==
  ASSUME BrowserInv, NEW c \in TestCommands, NEW r \in SuiteType,
         r.tests \in [DOMAIN r.suite -> TestStates],
         testing' = [testing EXCEPT ![c] = r], RunnerLeaves, CommandFits(c)'
  PROVE  BrowserInv'
<1>1. /\ appShared' = appShared /\ appAlone' = appAlone /\ UNCHANGED <<runStoreVars, listing>>
  BY DEF RunnerLeaves, appVars
<1>2. testing' = [testing EXCEPT ![c] = testing'[c]]
  BY DEF BrowserInv, BrowserTypes
<1>3. /\ InOrder' /\ ListingFits' /\ \A d \in TestCommands \ {c} : RunFits(d)'
      /\ StoreTypes' <=> appShared' \subseteq TestCommands /\ appAlone' \subseteq TestCommands
  BY <1>1, <1>2, StoreIsLeft
<1>4. StoreTypes' /\ AppIsShared'
  BY <1>1, <1>3 DEF BrowserInv, BrowserTypes, StoreTypes, AppIsShared
<1> QED
  BY <1>1, <1>3, <1>4, OneCommandGoes

LEMMA BeginTestsKeeps == ASSUME BrowserInv, NEW c \in TestCommands, BeginTests(c) PROVE BrowserInv'
<1>1. PICK s \in Suites : testing' = [testing EXCEPT ![c].at = "wait", ![c].suite = s,
                                                     ![c].tests = [i \in DOMAIN s |-> "pending"]]
  BY DEF BeginTests
<1> DEFINE r == [testing[c] EXCEPT !.at = "wait", !.suite = s, !.tests = [i \in DOMAIN s |-> "pending"]]
<1>2. BrowserTypes /\ CommandFits(c) /\ testing[c].at = "idle"
  BY DEF BrowserInv, BeginTests, StepOf
<1>3. testing[c] \in SuiteType
  BY <1>2, Suited
<1>4. [i \in DOMAIN s |-> "pending"] \in [DOMAIN s -> TestStates] /\ s \in GivenSuites
  BY DEF TestStates, GivenSuites
<1>5. /\ r \in SuiteType /\ r.at = "wait" /\ r.suite = s /\ r.tests = [i \in DOMAIN s |-> "pending"]
      /\ r.changed = testing[c].changed /\ r.unseen = testing[c].unseen
      /\ r.passed = testing[c].passed /\ r.victims = testing[c].victims
  <2>1. [i \in DOMAIN s |-> "pending"] \in UNION {[DOMAIN t -> TestStates] : t \in GivenSuites}
    BY <1>4
  <2> QED
    BY <1>3, <1>4, <2>1 DEF SuiteType, CommandSteps
<1>6. testing' = [testing EXCEPT ![c] = r]
  BY <1>1, <1>2 DEF BrowserTypes
<1> HIDE DEF r
<1>7. testing'[c] = r
  BY <1>2, <1>6 DEF BrowserTypes
<1>8. RunnerLeaves /\ runDirs' = runDirs
  BY DEF BeginTests, RunnerLeaves, runStoreVars
<1>9. CommandFits(c)'
  <2>1. AppFits(c)' /\ RunFits(c)'
    BY <1>2, <1>5, <1>7, <1>8 DEF AppFits, RunFits, CommandFits
  <2>2. LanesFit(c)'
    BY <1>5, <1>7 DEF LanesFit, InLanes, InLane
  <2>3. VerdictFits(c)'
    BY <1>2, <1>5, <1>7 DEF CommandFits, VerdictFits
  <2> QED
    BY <2>1, <2>2, <2>3 DEF CommandFits
<1> QED
  BY <1>4, <1>5, <1>6, <1>8, <1>9, RecordGoes

LEMMA AcquireKeeps == ASSUME BrowserInv, NEW c \in TestCommands, AcquireAppUse(c) PROVE BrowserInv'
<1> DEFINE r == [testing[c] EXCEPT !.at = "stage"]
<1>1. /\ BrowserTypes /\ CommandFits(c) /\ AppIsShared /\ testing[c].at = "wait" /\ appAlone = {}
      /\ StoreTypes
  BY DEF BrowserInv, AcquireAppUse, StepOf, BrowserTypes
<1>2. testing[c] \in SuiteType /\ testing[c].tests \in [DOMAIN testing[c].suite -> TestStates]
  BY <1>1, Suited
<1>3. /\ r \in SuiteType /\ r.at = "stage" /\ r.suite = testing[c].suite /\ r.tests = testing[c].tests
      /\ r.changed = testing[c].changed /\ r.unseen = testing[c].unseen
      /\ r.passed = testing[c].passed /\ r.victims = testing[c].victims
  BY <1>2 DEF SuiteType, CommandSteps
<1>4. testing' = [testing EXCEPT ![c] = r]
  BY <1>1 DEF BrowserTypes, AcquireAppUse, CommandGoes
<1> HIDE DEF r
<1>5. testing'[c] = r
  BY <1>1, <1>4 DEF BrowserTypes
<1>6. UNCHANGED <<runStoreVars, listing>> /\ runDirs' = runDirs
  BY DEF AcquireAppUse, runStoreVars
<1>7. testing' = [testing EXCEPT ![c] = testing'[c]]
  BY <1>4, <1>5
<1>8. /\ InOrder' /\ ListingFits' /\ \A d \in TestCommands \ {c} : RunFits(d)'
      /\ StoreTypes' <=> appShared' \subseteq TestCommands /\ appAlone' \subseteq TestCommands
  BY <1>6, <1>7, StoreIsLeft
<1>9. /\ StoreTypes' /\ AppIsShared'
      /\ \A d \in TestCommands : d \in appShared => d \in appShared'
      /\ c \in appAlone' \/ (c \in appShared' /\ ReadsOnly(c))
  BY <1>1, <1>8 DEF AcquireAppUse, AppIsShared, StoreTypes
<1>10. CommandFits(c)'
  <2>1. AppFits(c)'
    BY <1>3, <1>5, <1>9 DEF AppFits, ReadsOnly
  <2>2. RunFits(c)'
    BY <1>1, <1>3, <1>5, <1>6 DEF RunFits, CommandFits
  <2>3. LanesFit(c)' /\ VerdictFits(c)'
    BY <1>1, <1>3, <1>5 DEF LanesFit, InLanes, Uses, CommandFits, VerdictFits
  <2> QED
    BY <2>1, <2>2, <2>3 DEF CommandFits
<1> QED
  BY <1>1, <1>2, <1>3, <1>4, <1>8, <1>9, <1>10, OneCommandGoes

\* A step of a runner.
LEMMA RunnerGoes ==
  ASSUME BrowserInv, NEW c \in TestCommands, testing[c].at = "run",
         NEW r \in SuiteType, r.at = "run", r.suite = testing[c].suite,
         r.victims = testing[c].victims, r.tests \in [DOMAIN testing[c].suite -> TestStates],
         testing' = [testing EXCEPT ![c] = r], RunnerLeaves, LanesFit(c)', VerdictFits(c)'
  PROVE  BrowserInv'
<1>1. CommandFits(c) /\ testing'[c] = r
  BY DEF BrowserInv, BrowserTypes
<1>2. /\ appShared' = appShared /\ appAlone' = appAlone /\ runDirs' = runDirs
  BY DEF RunnerLeaves, appVars, runStoreVars
<1>3. AppFits(c)' /\ RunFits(c)'
  BY <1>1, <1>2 DEF CommandFits, AppFits, ReadsOnly, RunFits
<1> QED
  BY <1>3, RecordGoes DEF CommandFits

\* Where no test begins, the lanes stay as good as they are.
LEMMA NobodyBegins ==
  ASSUME NEW c \in TestCommands, LanesFit(c), testing[c].at = "run", testing'[c].at = "run",
         testing'[c].suite = testing[c].suite,
         DOMAIN testing'[c].tests = DOMAIN testing[c].tests,
         \A i \in DOMAIN testing[c].tests :
           /\ testing'[c].tests[i] \in InLane => testing[c].tests[i] \in InLane
           /\ testing'[c].tests[i] = "pending" => testing[c].tests[i] = "pending"
           /\ testing'[c].tests[i] \in {"passed", "failed"} =>
                testing[c].tests[i] \in InLane \union {"passed", "failed"}
  PROVE  LanesFit(c)'
<1>1. \A i \in DOMAIN testing[c].tests : InLanes(c, i)' => InLanes(c, i)
  BY DEF InLanes
<1>2. \A i, j \in DOMAIN testing'[c].tests :
        InLanes(c, i)' /\ InLanes(c, j)' /\ i # j => Beside(Uses(c, i), Uses(c, j))'
  BY <1>1 DEF LanesFit, Uses, Beside, IsRead
<1>3. \A i, j \in DOMAIN testing'[c].tests :
        /\ testing'[c].tests[i] = "pending" /\ Uses(c, i)' = "vm-lifecycle"
        /\ InLanes(c, j)' \/ testing'[c].tests[j] \in {"passed", "failed"}
        => j <= i
  <2> SUFFICES ASSUME NEW i \in DOMAIN testing'[c].tests, NEW j \in DOMAIN testing'[c].tests,
                      testing'[c].tests[i] = "pending", Uses(c, i)' = "vm-lifecycle",
                      InLanes(c, j)' \/ testing'[c].tests[j] \in {"passed", "failed"}
               PROVE  j <= i
    OBVIOUS
  <2>1. testing[c].tests[i] = "pending" /\ Uses(c, i) = "vm-lifecycle"
    BY DEF Uses
  <2>2. InLanes(c, j) \/ testing[c].tests[j] \in {"passed", "failed"}
    BY DEF InLanes
  <2> QED
    BY <2>1, <2>2 DEF LanesFit
<1> QED
  BY <1>2, <1>3 DEF LanesFit

\* The record of a runner whose test i comes to a state.
WithTest(c, i, state, unseen) ==
  [testing[c] EXCEPT !.tests = [testing[c].tests EXCEPT ![i] = state], !.unseen = unseen]

LEMMA TestGoes ==
  ASSUME BrowserTypes, NEW c \in TestCommands, NEW i \in DOMAIN testing[c].tests,
         NEW state \in TestStates, NEW unseen \in BOOLEAN
  PROVE  LET r == WithTest(c, i, state, unseen)
         IN
         /\ r \in SuiteType /\ r.at = testing[c].at /\ r.suite = testing[c].suite
         /\ r.victims = testing[c].victims /\ r.tests \in [DOMAIN testing[c].suite -> TestStates]
         /\ r.changed = testing[c].changed /\ r.unseen = unseen /\ r.passed = testing[c].passed
         /\ DOMAIN r.tests = DOMAIN testing[c].tests /\ r.tests[i] = state
         /\ \A j \in DOMAIN testing[c].tests : j # i => r.tests[j] = testing[c].tests[j]
<1>1. /\ testing[c] \in SuiteType /\ testing[c].tests \in [DOMAIN testing[c].suite -> TestStates]
      /\ testing[c].suite \in GivenSuites
  BY Suited
<1> DEFINE r == WithTest(c, i, state, unseen)
           tests == [testing[c].tests EXCEPT ![i] = state]
<1>2. /\ tests \in [DOMAIN testing[c].suite -> TestStates] /\ tests[i] = state
      /\ \A j \in DOMAIN testing[c].tests : j # i => tests[j] = testing[c].tests[j]
  BY <1>1
<1>3. tests \in UNION {[DOMAIN s -> TestStates] : s \in GivenSuites}
  BY <1>1, <1>2
<1>4. r = [testing[c] EXCEPT !.tests = tests, !.unseen = unseen]
  BY DEF WithTest
<1> HIDE DEF tests, r
<1>5. /\ r \in SuiteType /\ r.at = testing[c].at /\ r.suite = testing[c].suite
      /\ r.victims = testing[c].victims /\ r.tests = tests
      /\ r.changed = testing[c].changed /\ r.unseen = unseen /\ r.passed = testing[c].passed
  BY <1>1, <1>3, <1>4 DEF SuiteType
<1> QED
  BY <1>1, <1>2, <1>5 DEF r

LEMMA AdmitKeeps == ASSUME BrowserInv, NEW c \in TestCommands, AdmitTest(c) PROVE BrowserInv'
<1>1. /\ BrowserTypes /\ CommandFits(c) /\ testing[c].at = "run"
  BY DEF BrowserInv, AdmitTest, StepOf
<1>2. PICK i \in Admissible(c) : TestBecomes(c, i, "running")
  BY DEF AdmitTest
<1>3. /\ i \in DOMAIN testing[c].tests /\ testing[c].tests[i] = "pending" /\ Admits(c, i)
      /\ \A j \in TestsIn(c, {"pending"}) : j < i => Uses(c, j) # "vm-lifecycle"
  BY <1>2 DEF Admissible, TestsIn
<1> DEFINE r == WithTest(c, i, "running", testing[c].unseen)
<1>4. /\ testing[c].unseen \in BOOLEAN /\ "running" \in TestStates /\ testing[c] \in SuiteType
      /\ DOMAIN testing[c].tests = DOMAIN testing[c].suite /\ testing[c].suite \in GivenSuites
  BY <1>1, Suited DEF TestStates
<1>5. /\ r \in SuiteType /\ r.at = "run" /\ r.suite = testing[c].suite
      /\ r.victims = testing[c].victims /\ r.tests \in [DOMAIN testing[c].suite -> TestStates]
      /\ r.changed = testing[c].changed /\ r.unseen = testing[c].unseen
      /\ r.passed = testing[c].passed
      /\ DOMAIN r.tests = DOMAIN testing[c].tests /\ r.tests[i] = "running"
      /\ \A j \in DOMAIN testing[c].tests : j # i => r.tests[j] = testing[c].tests[j]
  BY <1>1, <1>3, <1>4, TestGoes
<1>6. testing' = [testing EXCEPT ![c] = r]
  <2>1. r = [testing[c] EXCEPT !.tests = [testing[c].tests EXCEPT ![i] = "running"]]
    BY <1>4 DEF SuiteType, WithTest
  <2> HIDE DEF r
  <2> QED
    BY <1>1, <1>2, <2>1 DEF TestBecomes, BrowserTypes
<1> HIDE DEF r
<1>7. testing'[c] = r
  BY <1>1, <1>6 DEF BrowserTypes
<1>8. VerdictFits(c)'
  BY <1>1, <1>5, <1>7 DEF CommandFits, VerdictFits
<1>9. \A j \in DOMAIN testing[c].tests :
        /\ Uses(c, j)' = Uses(c, j)
        /\ InLanes(c, j)' => j = i \/ InLanes(c, j)
  BY <1>5, <1>7 DEF Uses, InLanes
<1>10. \A j \in DOMAIN testing[c].tests : InLanes(c, j) =>
         Beside(Uses(c, i), Uses(c, j)) /\ Beside(Uses(c, j), Uses(c, i))
  <2>1. \A j \in DOMAIN testing[c].tests : InLanes(c, j) => Beside(Uses(c, i), Uses(c, j))
    BY <1>3 DEF Admits, TestsIn, InLanes
  <2> QED
    BY <2>1 DEF Beside, IsRead
<1>11. \A j, k \in DOMAIN testing[c].tests :
         InLanes(c, j)' /\ InLanes(c, k)' /\ j # k => Beside(Uses(c, j), Uses(c, k))
  BY <1>1, <1>9, <1>10 DEF CommandFits, LanesFit
<1>12. \A j, k \in DOMAIN testing[c].tests :
         /\ testing'[c].tests[j] = "pending" /\ Uses(c, j) = "vm-lifecycle"
         /\ InLanes(c, k)' \/ testing'[c].tests[k] \in {"passed", "failed"}
         => k <= j
  <2> SUFFICES ASSUME NEW j \in DOMAIN testing[c].tests, NEW k \in DOMAIN testing[c].tests,
                      testing'[c].tests[j] = "pending", Uses(c, j) = "vm-lifecycle",
                      InLanes(c, k)' \/ testing'[c].tests[k] \in {"passed", "failed"}
               PROVE  k <= j
    OBVIOUS
  <2>1. j # i /\ testing[c].tests[j] = "pending"
    BY <1>5, <1>7
  <2>2. CASE k = i
    <3>1. ~(j < i)
      BY <1>3, <2>1 DEF TestsIn
    <3>2. i \in Nat /\ j \in Nat
      BY <1>3, <1>4, Numbered
    <3> QED
      BY <2>2, <3>1, <3>2
  <2>3. CASE k # i
    <3>1. InLanes(c, k) \/ testing[c].tests[k] \in {"passed", "failed"}
      BY <1>5, <1>7, <1>9, <2>3
    <3> QED
      BY <1>1, <2>1, <3>1 DEF CommandFits, LanesFit
  <2> QED
    BY <2>2, <2>3
<1>13. LanesFit(c)'
  <2>1. testing'[c].at = "run" /\ DOMAIN testing'[c].tests = DOMAIN testing[c].tests
    BY <1>5, <1>7
  <2>2. \A j, k \in DOMAIN testing[c].tests :
          InLanes(c, j)' /\ InLanes(c, k)' /\ j # k => Beside(Uses(c, j), Uses(c, k))'
    BY <1>9, <1>11 DEF Beside, IsRead
  <2>3. \A j, k \in DOMAIN testing[c].tests :
         /\ testing'[c].tests[j] = "pending" /\ Uses(c, j)' = "vm-lifecycle"
         /\ InLanes(c, k)' \/ testing'[c].tests[k] \in {"passed", "failed"}
         => k <= j
    BY <1>9, <1>12
  <2> QED
    BY <2>1, <2>2, <2>3 DEF LanesFit
<1>14. RunnerLeaves
  BY DEF AdmitTest
<1> QED
  BY <1>1, <1>5, <1>6, <1>8, <1>13, <1>14, RunnerGoes

LEMMA DecideKeeps == ASSUME BrowserInv, NEW c \in TestCommands, DecideTest(c) PROVE BrowserInv'
<1>1. /\ BrowserTypes /\ CommandFits(c) /\ testing[c].at = "run" /\ RunnerLeaves
  BY DEF BrowserInv, DecideTest, StepOf
<1>2. PICK i \in TestsIn(c, {"running"}), state \in {"passing", "failing"} : TestBecomes(c, i, state)
  BY DEF DecideTest
<1>3. /\ i \in DOMAIN testing[c].tests /\ testing[c].tests[i] = "running"
  BY <1>2 DEF TestsIn
<1>4. /\ testing[c].unseen \in BOOLEAN /\ state \in TestStates /\ testing[c] \in SuiteType
  BY <1>1, Suited DEF TestStates
<1> DEFINE r == WithTest(c, i, state, testing[c].unseen)
<1>5. testing' = [testing EXCEPT ![c] = r]
  <2>1. r = [testing[c] EXCEPT !.tests = [testing[c].tests EXCEPT ![i] = state]]
    BY <1>4 DEF SuiteType, WithTest
  <2> HIDE DEF r
  <2> QED
    BY <1>1, <1>2, <2>1 DEF TestBecomes, BrowserTypes
<1>7. /\ r \in SuiteType /\ r.at = "run" /\ r.suite = testing[c].suite
      /\ r.victims = testing[c].victims /\ r.tests \in [DOMAIN testing[c].suite -> TestStates]
      /\ r.changed = testing[c].changed /\ r.unseen = testing[c].unseen
      /\ r.passed = testing[c].passed
      /\ DOMAIN r.tests = DOMAIN testing[c].tests /\ r.tests[i] = state
      /\ \A j \in DOMAIN testing[c].tests : j # i => r.tests[j] = testing[c].tests[j]
  BY <1>1, <1>3, <1>4, TestGoes
<1> HIDE DEF r
<1>8. testing'[c] = r
  BY <1>1, <1>5 DEF BrowserTypes
<1>9. VerdictFits(c)'
  BY <1>1, <1>7, <1>8 DEF CommandFits, VerdictFits
<1>10. LanesFit(c) /\ testing'[c].at = "run" /\ testing'[c].suite = testing[c].suite
       /\ DOMAIN testing'[c].tests = DOMAIN testing[c].tests
  BY <1>1, <1>7, <1>8 DEF CommandFits
<1>11. \A j \in DOMAIN testing[c].tests :
         /\ testing'[c].tests[j] \in InLane => testing[c].tests[j] \in InLane
         /\ testing'[c].tests[j] = "pending" => testing[c].tests[j] = "pending"
         /\ testing'[c].tests[j] \in {"passed", "failed"} =>
              testing[c].tests[j] \in InLane \union {"passed", "failed"}
  BY <1>2, <1>3, <1>7, <1>8 DEF InLane
<1>12. LanesFit(c)'
  BY <1>1, <1>10, <1>11, NobodyBegins
<1> QED
  BY <1>1, <1>5, <1>7, <1>9, <1>12, RunnerGoes

LEMMA CloseKeeps == ASSUME BrowserInv, NEW c \in TestCommands, CloseContext(c) PROVE BrowserInv'
<1>1. /\ BrowserTypes /\ CommandFits(c) /\ testing[c].at = "run" /\ RunnerLeaves
  BY DEF BrowserInv, CloseContext, StepOf
<1>2. PICK i \in TestsIn(c, {"passing", "failing"}) :
        testing' = [testing EXCEPT
          ![c].tests[i] = IF testing[c].tests[i] = "passing" THEN "passed" ELSE "failed",
          ![c].unseen = testing[c].changed]
  BY DEF CloseContext
<1>3. PICK state \in {"passed", "failed"} :
        state = IF testing[c].tests[i] = "passing" THEN "passed" ELSE "failed"
  OBVIOUS
<1>4. /\ i \in DOMAIN testing[c].tests /\ testing[c].tests[i] \in InLane
      /\ testing[c].changed \in BOOLEAN /\ state \in TestStates /\ testing[c] \in SuiteType
  BY <1>1, <1>2, Suited DEF TestStates, TestsIn, InLane
<1> DEFINE r == WithTest(c, i, state, testing[c].changed)
<1>5. testing' = [testing EXCEPT ![c] = r]
  <2>1. testing' = [testing EXCEPT ![c].tests[i] = state, ![c].unseen = testing[c].changed]
    BY <1>2, <1>3
  <2> QED
    BY <1>1, <1>4, <2>1 DEF BrowserTypes, SuiteType, WithTest
<1>7. /\ r \in SuiteType /\ r.at = "run" /\ r.suite = testing[c].suite
      /\ r.victims = testing[c].victims /\ r.tests \in [DOMAIN testing[c].suite -> TestStates]
      /\ r.changed = testing[c].changed /\ r.unseen = testing[c].changed
      /\ r.passed = testing[c].passed
      /\ DOMAIN r.tests = DOMAIN testing[c].tests /\ r.tests[i] = state
      /\ \A j \in DOMAIN testing[c].tests : j # i => r.tests[j] = testing[c].tests[j]
  BY <1>1, <1>4, TestGoes
<1> HIDE DEF r
<1>8. testing'[c] = r
  BY <1>1, <1>5 DEF BrowserTypes
<1>9. VerdictFits(c)'
  BY <1>1, <1>7, <1>8 DEF CommandFits, VerdictFits
<1>10. LanesFit(c) /\ testing'[c].at = "run" /\ testing'[c].suite = testing[c].suite
       /\ DOMAIN testing'[c].tests = DOMAIN testing[c].tests
  BY <1>1, <1>7, <1>8 DEF CommandFits
<1>11. \A j \in DOMAIN testing[c].tests :
         /\ testing'[c].tests[j] \in InLane => testing[c].tests[j] \in InLane
         /\ testing'[c].tests[j] = "pending" => testing[c].tests[j] = "pending"
         /\ testing'[c].tests[j] \in {"passed", "failed"} =>
              testing[c].tests[j] \in InLane \union {"passed", "failed"}
  BY <1>3, <1>4, <1>7, <1>8 DEF InLane
<1>12. LanesFit(c)'
  BY <1>1, <1>10, <1>11, NobodyBegins
<1> QED
  BY <1>1, <1>5, <1>7, <1>9, <1>12, RunnerGoes

LEMMA SampleKeeps == ASSUME BrowserInv, NEW c \in TestCommands, SampleEnvironment(c) PROVE BrowserInv'
<1> DEFINE r == [testing[c] EXCEPT !.seen = TRUE]
<1>1. /\ BrowserTypes /\ CommandFits(c) /\ testing[c].at = "run" /\ RunnerLeaves
  BY DEF BrowserInv, SampleEnvironment, StepOf
<1>2. testing[c] \in SuiteType /\ testing[c].tests \in [DOMAIN testing[c].suite -> TestStates]
  BY <1>1, Suited
<1>3. /\ r \in SuiteType /\ r.at = "run" /\ r.suite = testing[c].suite /\ r.tests = testing[c].tests
      /\ r.changed = testing[c].changed /\ r.unseen = testing[c].unseen
      /\ r.passed = testing[c].passed /\ r.victims = testing[c].victims
  BY <1>1, <1>2 DEF SuiteType
<1>4. testing' = [testing EXCEPT ![c] = r]
  BY <1>1 DEF BrowserTypes, SampleEnvironment
<1> HIDE DEF r
<1>5. testing'[c] = r
  BY <1>1, <1>4 DEF BrowserTypes
<1>6. LanesFit(c)' /\ VerdictFits(c)'
  BY <1>1, <1>3, <1>5 DEF CommandFits, LanesFit, InLanes, Uses, VerdictFits
<1> QED
  BY <1>1, <1>2, <1>3, <1>4, <1>6, RunnerGoes

LEMMA InterruptKeeps == ASSUME BrowserInv, NEW c \in TestCommands, InterruptTests(c) PROVE BrowserInv'
<1> DEFINE tests == [i \in DOMAIN testing[c].tests |->
                       IF testing[c].tests[i] = "pending" THEN "skipped" ELSE testing[c].tests[i]]
           r == [testing[c] EXCEPT !.tests = tests]
<1>1. /\ BrowserTypes /\ CommandFits(c) /\ testing[c].at = "run" /\ RunnerLeaves
  BY DEF BrowserInv, InterruptTests, StepOf
<1>2. /\ testing[c] \in SuiteType /\ testing[c].tests \in [DOMAIN testing[c].suite -> TestStates]
      /\ testing[c].suite \in GivenSuites
  BY <1>1, Suited
<1>3. /\ tests \in [DOMAIN testing[c].suite -> TestStates]
      /\ DOMAIN tests = DOMAIN testing[c].tests
      /\ \A i \in DOMAIN testing[c].tests : tests[i] # "pending" /\ tests[i] \in {"skipped", testing[c].tests[i]}
  BY <1>2 DEF TestStates
<1>4. testing' = [testing EXCEPT ![c] = r]
  BY <1>1 DEF BrowserTypes, InterruptTests
<1> HIDE DEF tests
<1>5. /\ r \in SuiteType /\ r.at = "run" /\ r.suite = testing[c].suite /\ r.tests = tests
      /\ r.changed = testing[c].changed /\ r.unseen = testing[c].unseen
      /\ r.passed = testing[c].passed /\ r.victims = testing[c].victims
  <2>1. tests \in UNION {[DOMAIN s -> TestStates] : s \in GivenSuites}
    BY <1>2, <1>3
  <2> QED
    BY <1>1, <1>2, <2>1 DEF SuiteType
<1> HIDE DEF r
<1>6. testing'[c] = r
  BY <1>1, <1>4 DEF BrowserTypes
<1>7. VerdictFits(c)'
  BY <1>1, <1>5, <1>6 DEF CommandFits, VerdictFits
<1>8. LanesFit(c) /\ testing'[c].at = "run" /\ testing'[c].suite = testing[c].suite
      /\ DOMAIN testing'[c].tests = DOMAIN testing[c].tests
  BY <1>1, <1>3, <1>5, <1>6 DEF CommandFits
<1>9. \A j \in DOMAIN testing[c].tests :
        /\ testing'[c].tests[j] \in InLane => testing[c].tests[j] \in InLane
        /\ testing'[c].tests[j] = "pending" => testing[c].tests[j] = "pending"
        /\ testing'[c].tests[j] \in {"passed", "failed"} =>
             testing[c].tests[j] \in InLane \union {"passed", "failed"}
  BY <1>3, <1>5, <1>6 DEF InLane
<1>10. LanesFit(c)'
  BY <1>1, <1>8, <1>9, NobodyBegins
<1> QED
  BY <1>1, <1>3, <1>4, <1>5, <1>7, <1>10, RunnerGoes

\* The runner is over: of its suite nothing but the verdict is left.
LEMMA FinishKeeps == ASSUME BrowserInv, NEW c \in TestCommands, FinishTests(c) PROVE BrowserInv'
<1>1. /\ BrowserTypes /\ CommandFits(c) /\ testing[c].at = "run" /\ RunnerLeaves
  BY DEF BrowserInv, FinishTests, TestsOver, StepOf
<1>2. PICK missed \in BOOLEAN : Summary(c, testing[c].seen \/ missed \/ testing[c].changed)
  BY DEF FinishTests
<1>3. PICK passed \in BOOLEAN :
        passed = (Verdict(c) /\ ~(testing[c].seen \/ missed \/ testing[c].changed))
  OBVIOUS
<1>4. /\ testing[c].unseen \in BOOLEAN /\ testing[c] \in SuiteType
  BY <1>1, Suited
<1> DEFINE r == Ended("check", testing[c].unseen, passed, {})
<1>5. testing' = [testing EXCEPT ![c] = r]
  <2>1. testing' = [testing EXCEPT ![c] = [NoSuite EXCEPT !.at = "check", !.unseen = testing[c].unseen,
                                                          !.passed = passed]]
    BY <1>2, <1>3 DEF Summary
  <2>2. r = [NoSuite EXCEPT !.at = "check", !.unseen = testing[c].unseen, !.passed = passed]
    BY NoSuiteFits DEF SuiteType, Ended
  <2> QED
    BY <2>1, <2>2
<1>7. /\ r \in SuiteType /\ r.tests \in [DOMAIN r.suite -> TestStates]
      /\ r.at = "check" /\ r.suite = <<>> /\ r.tests = <<>> /\ r.victims = {}
      /\ r.unseen = testing[c].unseen /\ r.passed = passed
  <2>1. "check" \in CommandSteps /\ {} \in SUBSET StoredRuns
    BY DEF CommandSteps
  <2> QED
    BY <1>4, <2>1, EndedFits
<1> HIDE DEF r
<1>8. testing'[c] = r
  BY <1>1, <1>5 DEF BrowserTypes
<1>9. passed => ~testing[c].unseen
  BY <1>1, <1>3 DEF CommandFits, VerdictFits
<1>10. VerdictFits(c)' /\ LanesFit(c)'
  BY <1>7, <1>8, <1>9 DEF VerdictFits, LanesFit, InLanes
<1>11. AppFits(c)' /\ RunFits(c)'
  <2>1. appShared' = appShared /\ appAlone' = appAlone /\ runDirs' = runDirs
    BY <1>1 DEF RunnerLeaves, appVars, runStoreVars
  <2> QED
    BY <1>1, <1>7, <1>8, <2>1 DEF CommandFits, AppFits, ReadsOnly, RunFits
<1> QED
  BY <1>1, <1>5, <1>7, <1>10, <1>11, RecordGoes DEF CommandFits

\* What another command's run needs of a step.
LEMMA OthersRun ==
  ASSUME BrowserInv, NEW d \in TestCommands, testing'[d] = testing[d], runDirs'[d] = runDirs[d],
         d \in changedSince[d] => d \in changedSince'[d],
         testing[d].at = "prune" => storeLock' = d /\ Stored' = Stored
  PROVE  RunFits(d)'
<1>1. RunFits(d)
  BY DEF BrowserInv, CommandFits
<1>2. CASE testing[d].at = "prune"
  <2>1. testing'[d].victims \subseteq Stored' /\ Cardinality(Stored' \ testing'[d].victims) <= Retention
    BY <1>1, <1>2 DEF RunFits
  <2> QED
    BY <1>1, <1>2, <2>1 DEF RunFits
<1>3. CASE testing[d].at # "prune"
  BY <1>1, <1>3 DEF RunFits
<1> QED
  BY <1>2, <1>3

\* The directory of a run that is not in the store is nobody else's business.
LEMMA AsideStays ==
  ASSUME BrowserInv, NEW c \in TestCommands,
         testing[c].at \notin {"prune", "answered", "killed"},
         NEW dir \in {"none", "staging"}, runDirs' = [runDirs EXCEPT ![c] = dir],
         storeLock' = storeLock, listing' = listing,
         \A d \in TestCommands \ {c} : testing'[d] = testing[d],
         \A s \in StoredRuns \ {c} : s \in changedSince[s] => s \in changedSince'[s]
  PROVE  /\ runDirs' \in [StoredRuns -> {"none", "staging", "whole", "half"}]
         /\ runDirs'[c] = dir
         /\ \A s \in StoredRuns : runDirs'[s] \in {"whole", "half"} => s \in changedSince'[s]
         /\ ListingFits' /\ \A d \in TestCommands \ {c} : RunFits(d)'
<1>1. /\ runDirs \in [StoredRuns -> {"none", "staging", "whole", "half"}]
      /\ InOrder /\ ListingFits /\ RunFits(c)
  BY DEF BrowserInv, BrowserTypes, StoreTypes, CommandFits
<1>2. c \in StoredRuns
  BY DEF StoredRuns
<1>3. /\ runDirs' \in [StoredRuns -> {"none", "staging", "whole", "half"}] /\ runDirs'[c] = dir
      /\ \A s \in StoredRuns \ {c} : runDirs'[s] = runDirs[s]
  BY <1>1, <1>2
<1>4. runDirs[c] \notin {"whole", "half"}
  BY <1>1 DEF RunFits
<1>5. Stored' = Stored
  BY <1>3, <1>4 DEF Stored
<1>6. \A s \in StoredRuns : runDirs'[s] \in {"whole", "half"} => s \in changedSince'[s]
  BY <1>1, <1>3 DEF InOrder
<1>7. ListingFits'
  BY <1>1, <1>3, <1>4 DEF ListingFits
<1>8. ASSUME NEW d \in TestCommands \ {c} PROVE RunFits(d)'
  <2>1. testing[d].at = "prune" => storeLock' = d /\ Stored' = Stored
    BY <1>5 DEF BrowserInv, CommandFits, RunFits
  <2>2. /\ testing'[d] = testing[d] /\ runDirs'[d] = runDirs[d]
        /\ d \in changedSince[d] => d \in changedSince'[d]
    BY <1>3 DEF StoredRuns
  <2> QED
    BY <2>1, <2>2, OthersRun
<1> QED
  BY <1>3, <1>6, <1>7, <1>8

LEMMA StageKeeps == ASSUME BrowserInv, NEW c \in TestCommands, StageAndRun(c) PROVE BrowserInv'
<1> DEFINE r == [testing[c] EXCEPT !.at = "run", !.seen = testing[c].changed]
<1>1. /\ BrowserTypes /\ CommandFits(c) /\ testing[c].at = "stage" /\ InOrder /\ AppIsShared
      /\ StoreTypes
  BY DEF BrowserInv, StageAndRun, StepOf, BrowserTypes
<1>2. /\ testing[c] \in SuiteType /\ testing[c].tests \in [DOMAIN testing[c].suite -> TestStates]
      /\ testing[c].changed \in BOOLEAN
  BY <1>1, Suited
<1>3. /\ r \in SuiteType /\ r.at = "run" /\ r.suite = testing[c].suite /\ r.tests = testing[c].tests
      /\ r.changed = testing[c].changed /\ r.unseen = testing[c].unseen
      /\ r.passed = testing[c].passed /\ r.victims = testing[c].victims
  BY <1>2 DEF SuiteType, CommandSteps
<1>4. testing' = [testing EXCEPT ![c] = r]
  BY <1>1 DEF BrowserTypes, StageAndRun
<1> HIDE DEF r
<1>5. testing'[c] = r /\ \A d \in TestCommands \ {c} : testing'[d] = testing[d]
  BY <1>1, <1>4 DEF BrowserTypes
<1>6. /\ runDirs' = [runDirs EXCEPT ![c] = "staging"] /\ changedSince' = changedSince
      /\ storeLock' = storeLock /\ listing' = listing
      /\ appShared' = appShared /\ appAlone' = appAlone
  BY DEF StageAndRun, appVars
<1>7. /\ runDirs' \in [StoredRuns -> {"none", "staging", "whole", "half"}]
      /\ runDirs'[c] = "staging"
      /\ \A s \in StoredRuns : runDirs'[s] \in {"whole", "half"} => s \in changedSince'[s]
      /\ ListingFits' /\ \A d \in TestCommands \ {c} : RunFits(d)'
  BY <1>1, <1>5, <1>6, AsideStays
<1>8. StoreTypes' /\ AppIsShared'
  BY <1>1, <1>6, <1>7 DEF StoreTypes, AppIsShared
<1>9. InOrder'
  BY <1>1, <1>6, <1>7 DEF InOrder, Ordered
<1>10. CommandFits(c)'
  <2>1. AppFits(c)'
    BY <1>1, <1>3, <1>5, <1>6 DEF CommandFits, AppFits, ReadsOnly
  <2>2. LanesFit(c)' /\ VerdictFits(c)'
    BY <1>1, <1>3, <1>5 DEF CommandFits, LanesFit, InLanes, Uses, VerdictFits
  <2>3. RunFits(c)'
    BY <1>3, <1>5, <1>7 DEF RunFits
  <2> QED
    BY <2>1, <2>2, <2>3 DEF CommandFits
<1> QED
  BY <1>2, <1>3, <1>4, <1>6, <1>7, <1>8, <1>9, <1>10, OneCommandGoes

\* A command that ends leaves the app to the others.
LEMMA AppIsLeft ==
  ASSUME BrowserInv, NEW c \in TestCommands, LeavesApp(c)
  PROVE  /\ AppIsShared' /\ appShared' \subseteq TestCommands /\ appAlone' \subseteq TestCommands
         /\ \A d \in TestCommands \ {c} : /\ d \in appAlone => d \in appAlone'
                                          /\ d \in appShared => d \in appShared'
  BY DEF BrowserInv, BrowserTypes, StoreTypes, AppIsShared, LeavesApp

\* The record of a command that is over.
LEMMA OverFits ==
  ASSUME BrowserTypes, NEW c \in TestCommands, NEW step \in {"failed", "killed"}, EndsAs(c, step)
  PROVE  \E r :
            /\ testing' = [testing EXCEPT ![c] = r] /\ testing'[c] = r
            /\ r \in SuiteType /\ r.tests \in [DOMAIN r.suite -> TestStates] /\ r.at = step
            /\ AppFits(c)' /\ LanesFit(c)' /\ VerdictFits(c)'
            /\ \A d \in TestCommands \ {c} : testing'[d] = testing[d]
<1>0. PICK no \in BOOLEAN : no = FALSE
  OBVIOUS
<1> DEFINE r == Ended(step, no, no, {})
<1>1. [NoSuite EXCEPT !.at = step] = r
  BY <1>0, NoSuiteFits DEF SuiteType, Ended
<1>2. /\ r \in SuiteType /\ r.tests \in [DOMAIN r.suite -> TestStates]
      /\ r.at = step /\ r.suite = <<>> /\ r.tests = <<>> /\ r.victims = {}
      /\ r.unseen = no /\ r.passed = no
  <2>1. step \in CommandSteps /\ {} \in SUBSET StoredRuns
    BY DEF CommandSteps
  <2> QED
    BY <2>1, EndedFits
<1>3. testing' = [testing EXCEPT ![c] = r]
  BY <1>1 DEF EndsAs
<1> HIDE DEF r
<1>4. testing'[c] = r /\ \A d \in TestCommands \ {c} : testing'[d] = testing[d]
  BY <1>3 DEF BrowserTypes
<1>5. AppFits(c)' /\ LanesFit(c)' /\ VerdictFits(c)'
  BY <1>0, <1>2, <1>4 DEF AppFits, LanesFit, InLanes, VerdictFits
<1>6. /\ testing' = [testing EXCEPT ![c] = r] /\ testing'[c] = r
      /\ r \in SuiteType /\ r.tests \in [DOMAIN r.suite -> TestStates] /\ r.at = step
      /\ AppFits(c)' /\ LanesFit(c)' /\ VerdictFits(c)'
      /\ \A d \in TestCommands \ {c} : testing'[d] = testing[d]
  BY <1>2, <1>3, <1>4, <1>5
<1> QED
  BY <1>6

LEMMA FailKeeps == ASSUME BrowserInv, NEW c \in TestCommands, TestsFail(c) PROVE BrowserInv'
<1>1. /\ BrowserTypes /\ InOrder /\ StoreTypes
      /\ testing[c].at \in {"wait", "stage", "run", "check", "commit"}
      /\ runDirs' = [runDirs EXCEPT ![c] = "none"] /\ storeLock' = storeLock /\ listing' = listing
      /\ EndsAs(c, "failed") /\ Forgotten(c) /\ LeavesApp(c) /\ c \in StoredRuns
  BY DEF BrowserInv, BrowserTypes, TestsFail, StoredRuns
<1>2. PICK r : /\ testing' = [testing EXCEPT ![c] = r] /\ testing'[c] = r
               /\ r \in SuiteType /\ r.tests \in [DOMAIN r.suite -> TestStates] /\ r.at = "failed"
               /\ AppFits(c)' /\ LanesFit(c)' /\ VerdictFits(c)'
               /\ \A d \in TestCommands \ {c} : testing'[d] = testing[d]
  BY <1>1, OverFits
<1>3. /\ changedSince' \in [StoredRuns -> SUBSET StoredRuns] /\ Ordered'
      /\ \A s \in StoredRuns \ {c} : s \in changedSince[s] => s \in changedSince'[s]
  BY <1>1, ForgottenKeeps
<1>4. /\ runDirs' \in [StoredRuns -> {"none", "staging", "whole", "half"}]
      /\ runDirs'[c] = "none"
      /\ \A s \in StoredRuns : runDirs'[s] \in {"whole", "half"} => s \in changedSince'[s]
      /\ ListingFits' /\ \A d \in TestCommands \ {c} : RunFits(d)'
  BY <1>1, <1>2, <1>3, AsideStays
<1>5. /\ AppIsShared' /\ appShared' \subseteq TestCommands /\ appAlone' \subseteq TestCommands
      /\ \A d \in TestCommands \ {c} : /\ d \in appAlone => d \in appAlone'
                                       /\ d \in appShared => d \in appShared'
  BY <1>1, AppIsLeft
<1>6. StoreTypes'
  BY <1>1, <1>3, <1>4, <1>5 DEF StoreTypes
<1>7. InOrder'
  BY <1>3, <1>4 DEF InOrder
<1>8. RunFits(c)'
  BY <1>2, <1>4 DEF RunFits
<1>9. CommandFits(c)'
  BY <1>2, <1>8 DEF CommandFits
<1> QED
  BY <1>2, <1>4, <1>5, <1>6, <1>7, <1>9, OneCommandGoes

LEMMA KillKeeps == ASSUME BrowserInv, NEW c \in TestCommands, KillTests(c) PROVE BrowserInv'
<1>1. /\ BrowserTypes /\ InOrder /\ StoreTypes /\ ListingFits /\ CommandFits(c)
      /\ storeLock' = (IF storeLock = c THEN "free" ELSE storeLock)
      /\ listing' = listing /\ runDirs' = runDirs /\ changedSince' = changedSince
      /\ EndsAs(c, "killed") /\ LeavesApp(c) /\ c \in StoredRuns
  BY DEF BrowserInv, BrowserTypes, KillTests, StoredRuns
<1>2. PICK r : /\ testing' = [testing EXCEPT ![c] = r] /\ testing'[c] = r
               /\ r \in SuiteType /\ r.tests \in [DOMAIN r.suite -> TestStates] /\ r.at = "killed"
               /\ AppFits(c)' /\ LanesFit(c)' /\ VerdictFits(c)'
               /\ \A d \in TestCommands \ {c} : testing'[d] = testing[d]
  BY <1>1, OverFits
<1>3. /\ AppIsShared' /\ appShared' \subseteq TestCommands /\ appAlone' \subseteq TestCommands
      /\ \A d \in TestCommands \ {c} : /\ d \in appAlone => d \in appAlone'
                                       /\ d \in appShared => d \in appShared'
  BY <1>1, AppIsLeft
<1>4. StoreTypes'
  BY <1>1, <1>3 DEF StoreTypes
<1>5. InOrder'
  BY <1>1 DEF InOrder, Ordered
<1>6. ListingFits'
  BY <1>1, BrowserTestsAssumption DEF ListingFits
<1>7. ASSUME NEW d \in TestCommands \ {c} PROVE RunFits(d)'
  <2>1. testing[d].at = "prune" => storeLock' = d
    BY <1>1 DEF BrowserInv, CommandFits, RunFits
  <2>2. Stored' = Stored
    BY <1>1 DEF Stored
  <2> QED
    BY <1>1, <1>2, <2>1, <2>2, OthersRun
<1>8. RunFits(c)'
  BY <1>1, <1>2 DEF RunFits
<1>9. CommandFits(c)'
  BY <1>2, <1>8 DEF CommandFits
<1> QED
  BY <1>2, <1>3, <1>4, <1>5, <1>6, <1>7, <1>9, OneCommandGoes

LEMMA AnswerKeeps == ASSUME BrowserInv, NEW c \in TestCommands, AnswerTests(c) PROVE BrowserInv'
<1> DEFINE r == [testing[c] EXCEPT !.at = "answered"]
<1>1. /\ BrowserTypes /\ InOrder /\ StoreTypes /\ ListingFits /\ CommandFits(c)
      /\ testing[c].at = "prune" /\ storeLock' = (IF storeLock = c THEN "free" ELSE storeLock)
      /\ listing' = listing /\ runDirs' = runDirs /\ changedSince' = changedSince
      /\ LeavesApp(c) /\ c \in StoredRuns
  BY DEF BrowserInv, BrowserTypes, AnswerTests, StepOf, StoredRuns
<1>2. testing[c] \in SuiteType /\ testing[c].tests \in [DOMAIN testing[c].suite -> TestStates]
  BY <1>1, Suited
<1>3. /\ r \in SuiteType /\ r.at = "answered" /\ r.suite = testing[c].suite
      /\ r.tests = testing[c].tests /\ r.changed = testing[c].changed
      /\ r.unseen = testing[c].unseen /\ r.passed = testing[c].passed
  BY <1>2 DEF SuiteType, CommandSteps
<1>4. testing' = [testing EXCEPT ![c] = r]
  BY <1>1 DEF BrowserTypes, AnswerTests, CommandGoes
<1> HIDE DEF r
<1>5. testing'[c] = r /\ \A d \in TestCommands \ {c} : testing'[d] = testing[d]
  BY <1>1, <1>4 DEF BrowserTypes
<1>6. /\ AppIsShared' /\ appShared' \subseteq TestCommands /\ appAlone' \subseteq TestCommands
      /\ \A d \in TestCommands \ {c} : /\ d \in appAlone => d \in appAlone'
                                       /\ d \in appShared => d \in appShared'
  BY <1>1, AppIsLeft
<1>7. StoreTypes'
  BY <1>1, <1>6 DEF StoreTypes
<1>8. InOrder'
  BY <1>1 DEF InOrder, Ordered
<1>9. ListingFits'
  BY <1>1, BrowserTestsAssumption DEF ListingFits
<1>10. ASSUME NEW d \in TestCommands \ {c} PROVE RunFits(d)'
  <2>1. testing[d].at = "prune" => storeLock' = d
    BY <1>1 DEF BrowserInv, CommandFits, RunFits
  <2>2. Stored' = Stored
    BY <1>1 DEF Stored
  <2> QED
    BY <1>1, <1>5, <2>1, <2>2, OthersRun
<1>11. CommandFits(c)'
  <2>1. AppFits(c)' /\ RunFits(c)'
    BY <1>1, <1>3, <1>5 DEF AppFits, RunFits
  <2>2. LanesFit(c)' /\ VerdictFits(c)'
    BY <1>1, <1>3, <1>5 DEF CommandFits, LanesFit, InLanes, Uses, VerdictFits
  <2> QED
    BY <2>1, <2>2 DEF CommandFits
<1> QED
  BY <1>2, <1>3, <1>4, <1>6, <1>7, <1>8, <1>9, <1>10, <1>11, OneCommandGoes

LEMMA IndexKeeps == ASSUME BrowserInv, NEW c \in TestCommands, WriteIndex(c) PROVE BrowserInv'
<1> DEFINE r == [testing[c] EXCEPT !.at = "commit"]
<1>1. /\ BrowserTypes /\ InOrder /\ StoreTypes /\ ListingFits /\ CommandFits(c) /\ AppIsShared
      /\ testing[c].at = "check" /\ listing' = listing /\ runDirs' = runDirs
      /\ storeLock' = storeLock /\ appShared' = appShared /\ appAlone' = appAlone
      /\ ChangedLast(c) /\ c \in StoredRuns
  BY DEF BrowserInv, BrowserTypes, WriteIndex, StepOf, StoredRuns, appVars
<1>2. testing[c] \in SuiteType /\ testing[c].tests \in [DOMAIN testing[c].suite -> TestStates]
  BY <1>1, Suited
<1>3. /\ r \in SuiteType /\ r.at = "commit" /\ r.suite = testing[c].suite
      /\ r.tests = testing[c].tests /\ r.changed = testing[c].changed
      /\ r.unseen = testing[c].unseen /\ r.passed = testing[c].passed
  BY <1>2 DEF SuiteType, CommandSteps
<1>4. testing' = [testing EXCEPT ![c] = r]
  BY <1>1 DEF BrowserTypes, WriteIndex, CommandGoes
<1> HIDE DEF r
<1>5. testing'[c] = r /\ \A d \in TestCommands \ {c} : testing'[d] = testing[d]
  BY <1>1, <1>4 DEF BrowserTypes
<1>6. /\ changedSince' \in [StoredRuns -> SUBSET StoredRuns] /\ Ordered'
      /\ \A s \in StoredRuns : s \in changedSince[s] \/ s = c => s \in changedSince'[s]
  BY <1>1, ChangedLastKeeps
<1>7. StoreTypes' /\ AppIsShared' /\ ListingFits'
  BY <1>1, <1>6 DEF StoreTypes, AppIsShared, ListingFits
<1>8. InOrder'
  BY <1>1, <1>6 DEF InOrder
<1>9. ASSUME NEW d \in TestCommands \ {c} PROVE RunFits(d)'
  <2>1. testing[d].at = "prune" => storeLock' = d
    BY <1>1 DEF BrowserInv, CommandFits, RunFits
  <2>2. Stored' = Stored
    BY <1>1 DEF Stored
  <2>3. d \in changedSince[d] => d \in changedSince'[d]
    BY <1>6 DEF StoredRuns
  <2> QED
    BY <1>1, <1>5, <2>1, <2>2, <2>3, OthersRun
<1>10. CommandFits(c)'
  <2>1. AppFits(c)'
    BY <1>1, <1>3, <1>5 DEF CommandFits, AppFits, ReadsOnly
  <2>2. LanesFit(c)' /\ VerdictFits(c)'
    BY <1>1, <1>3, <1>5 DEF CommandFits, LanesFit, InLanes, Uses, VerdictFits
  <2>3. RunFits(c)'
    BY <1>1, <1>3, <1>5, <1>6 DEF CommandFits, RunFits
  <2> QED
    BY <2>1, <2>2, <2>3 DEF CommandFits
<1> QED
  BY <1>1, <1>2, <1>3, <1>4, <1>7, <1>8, <1>9, <1>10, OneCommandGoes

LEMMA CommitKeeps == ASSUME BrowserInv, NEW c \in TestCommands, CommitRun(c) PROVE BrowserInv'
<1>1. /\ BrowserTypes /\ InOrder /\ StoreTypes /\ ListingFits /\ CommandFits(c) /\ AppIsShared
      /\ testing[c].at = "commit" /\ storeLock = "free" /\ storeLock' = c /\ listing' = listing
      /\ runDirs' = [runDirs EXCEPT ![c] = "whole"] /\ changedSince' = changedSince
      /\ appShared' = appShared /\ appAlone' = appAlone /\ c \in StoredRuns
  BY DEF BrowserInv, BrowserTypes, CommitRun, StepOf, StoredRuns, appVars
<1>2. /\ Surplus(c) \in SUBSET StoredRuns /\ c \notin Surplus(c)
  BY DEF Surplus, InStore
<1>3. PICK no \in BOOLEAN : no = FALSE
  OBVIOUS
<1> DEFINE r == Ended("prune", no, no, Surplus(c))
<1>4. testing' = [testing EXCEPT ![c] = r]
  <2>1. [NoSuite EXCEPT !.at = "prune", !.victims = Surplus(c)] = r
    BY <1>3, NoSuiteFits DEF SuiteType, Ended
  <2> QED
    BY <2>1 DEF CommitRun
<1>5. /\ r \in SuiteType /\ r.tests \in [DOMAIN r.suite -> TestStates]
      /\ r.at = "prune" /\ r.suite = <<>> /\ r.tests = <<>> /\ r.victims = Surplus(c)
      /\ r.unseen = no /\ r.passed = no
  <2>1. "prune" \in CommandSteps
    BY DEF CommandSteps
  <2> QED
    BY <1>2, <2>1, EndedFits
<1> HIDE DEF r
<1>6. testing'[c] = r /\ \A d \in TestCommands \ {c} : testing'[d] = testing[d]
  BY <1>1, <1>4 DEF BrowserTypes
<1>7. /\ runDirs' \in [StoredRuns -> {"none", "staging", "whole", "half"}] /\ runDirs'[c] = "whole"
      /\ \A s \in StoredRuns \ {c} : runDirs'[s] = runDirs[s]
  BY <1>1 DEF StoreTypes
<1>8. StoreTypes' /\ AppIsShared'
  BY <1>1, <1>7 DEF StoreTypes, AppIsShared
<1>9. InOrder'
  BY <1>1, <1>7 DEF InOrder, Ordered, CommandFits, RunFits
<1>10. ListingFits'
  BY <1>1 DEF ListingFits
<1>11. ASSUME NEW d \in TestCommands \ {c} PROVE RunFits(d)'
  <2>1. testing[d].at # "prune"
    BY <1>1, BrowserTestsAssumption DEF BrowserInv, CommandFits, RunFits
  <2>2. runDirs'[d] = runDirs[d]
    BY <1>7 DEF StoredRuns
  <2> QED
    BY <1>1, <1>6, <2>1, <2>2, OthersRun
<1>12. Surplus(c) \subseteq Stored' /\ Cardinality(Stored' \ Surplus(c)) <= Retention
  <2> DEFINE kept == (InStore(c) \ {c}) \ Surplus(c)
  <2>1. IsFiniteSet(kept) /\ Cardinality(kept) <= Retention - 1
    BY <1>1, FewStay
  <2>2. Stored' = InStore(c)
    BY <1>1, <1>7 DEF Stored, InStore
  <2>3. Stored' \ Surplus(c) = kept \union {c}
    BY <1>1, <1>2, <2>2 DEF InStore
  <2>4. c \notin kept
    OBVIOUS
  <2> HIDE DEF kept
  <2>5. Cardinality(kept \union {c}) = Cardinality(kept) + 1 /\ Cardinality(kept) \in Nat
    BY <2>1, <2>4, FS_AddElement, FS_CardinalityType
  <2>6. Cardinality(Stored' \ Surplus(c)) = Cardinality(kept) + 1
    BY <2>3, <2>5
  <2>7. Surplus(c) \subseteq Stored'
    BY <2>2 DEF Surplus
  <2> QED
    BY <2>1, <2>5, <2>6, <2>7, BrowserTestsAssumption
<1>13. CommandFits(c)'
  <2>1. AppFits(c)'
    BY <1>1, <1>5, <1>6 DEF CommandFits, AppFits, ReadsOnly
  <2>2. LanesFit(c)' /\ VerdictFits(c)'
    BY <1>3, <1>5, <1>6 DEF LanesFit, InLanes, VerdictFits
  <2>3. RunFits(c)'
    BY <1>1, <1>2, <1>5, <1>6, <1>7, <1>12 DEF RunFits
  <2> QED
    BY <2>1, <2>2, <2>3 DEF CommandFits
<1> QED
  BY <1>1, <1>4, <1>5, <1>8, <1>9, <1>10, <1>11, <1>13, OneCommandGoes

\* Only the holder of the store prunes, so nobody else's run is about to be counted.
LEMMA PruneKeeps == ASSUME BrowserInv, NEW c \in TestCommands, PruneRun(c) PROVE BrowserInv'
<1>1. /\ BrowserTypes /\ InOrder /\ StoreTypes /\ ListingFits /\ CommandFits(c) /\ AppIsShared
      /\ testing[c].at = "prune" /\ storeLock' = storeLock /\ listing' = listing
      /\ appShared' = appShared /\ appAlone' = appAlone /\ c \in StoredRuns
      /\ storeLock = c /\ runDirs[c] = "whole" /\ c \notin testing[c].victims
      /\ testing[c].victims \subseteq Stored
  BY DEF BrowserInv, BrowserTypes, PruneRun, StepOf, StoredRuns, appVars, CommandFits, RunFits
<1>2. PICK v \in testing[c].victims :
        IF runDirs[v] = "whole"
        THEN /\ runDirs' = [runDirs EXCEPT ![v] = "half"]
             /\ ChangedLast(v) /\ UNCHANGED testing
        ELSE /\ runDirs' = [runDirs EXCEPT ![v] = "none"]
             /\ Forgotten(v)
             /\ testing' = [testing EXCEPT ![c].victims = testing[c].victims \ {v}]
  BY DEF PruneRun
<1>3. /\ testing[c] \in SuiteType /\ testing[c].tests \in [DOMAIN testing[c].suite -> TestStates]
      /\ testing[c].victims \subseteq StoredRuns
  BY <1>1, Suited
<1>4. v \in StoredRuns /\ v # c
  BY <1>1, <1>3
<1>5. /\ listing.at = "idle" /\ \A d \in TestCommands \ {c} : testing[d].at # "prune"
  BY <1>1, BrowserTestsAssumption DEF ListingFits, BrowserInv, CommandFits, RunFits, StoreTypes
<1>6. \E r : /\ testing' = [testing EXCEPT ![c] = r] /\ testing'[c] = r
             /\ r \in SuiteType /\ r.tests \in [DOMAIN r.suite -> TestStates] /\ r.at = "prune"
             /\ r.suite = testing[c].suite /\ r.tests = testing[c].tests
             /\ r.changed = testing[c].changed /\ r.unseen = testing[c].unseen
             /\ r.passed = testing[c].passed
             /\ c \notin r.victims /\ r.victims \subseteq Stored'
             /\ Stored' \ r.victims = Stored \ testing[c].victims
  <2>1. CASE runDirs[v] = "whole"
    <3>1. runDirs' = [runDirs EXCEPT ![v] = "half"] /\ testing' = testing
      BY <1>2, <2>1
    <3>2. Stored' = Stored
      BY <1>1, <1>4, <2>1, <3>1 DEF StoreTypes, Stored
    <3>3. testing' = [testing EXCEPT ![c] = testing[c]] /\ testing'[c] = testing[c]
      BY <1>1, <3>1 DEF BrowserTypes
    <3> QED
      BY <1>1, <1>3, <3>2, <3>3
  <2>2. CASE runDirs[v] # "whole"
    <3> DEFINE r == [testing[c] EXCEPT !.victims = testing[c].victims \ {v}]
    <3>1. /\ runDirs' = [runDirs EXCEPT ![v] = "none"]
          /\ testing' = [testing EXCEPT ![c].victims = testing[c].victims \ {v}]
      BY <1>2, <2>2
    <3>2. testing' = [testing EXCEPT ![c] = r]
      BY <1>1, <3>1 DEF BrowserTypes
    <3>3. /\ r \in SuiteType /\ r.at = "prune" /\ r.suite = testing[c].suite
          /\ r.tests = testing[c].tests /\ r.changed = testing[c].changed
          /\ r.unseen = testing[c].unseen /\ r.passed = testing[c].passed
          /\ r.victims = testing[c].victims \ {v}
      BY <1>1, <1>3 DEF SuiteType
    <3> HIDE DEF r
    <3>4. testing'[c] = r
      BY <1>1, <3>2 DEF BrowserTypes
    <3>5. Stored' = Stored \ {v}
      BY <1>1, <1>4, <3>1 DEF StoreTypes, Stored
    <3>6. /\ Stored' \ r.victims = Stored \ testing[c].victims
          /\ r.victims \subseteq Stored'
      BY <1>1, <3>3, <3>5
    <3> QED
      BY <1>1, <1>3, <3>2, <3>3, <3>4, <3>6
  <2> QED
    BY <2>1, <2>2
<1>7. PICK r : /\ testing' = [testing EXCEPT ![c] = r] /\ testing'[c] = r
               /\ r \in SuiteType /\ r.tests \in [DOMAIN r.suite -> TestStates] /\ r.at = "prune"
               /\ r.suite = testing[c].suite /\ r.tests = testing[c].tests
               /\ r.changed = testing[c].changed /\ r.unseen = testing[c].unseen
               /\ r.passed = testing[c].passed
               /\ c \notin r.victims /\ r.victims \subseteq Stored'
             /\ Stored' \ r.victims = Stored \ testing[c].victims
  BY <1>6
<1>8. \A d \in TestCommands \ {c} : testing'[d] = testing[d]
  BY <1>1, <1>7 DEF BrowserTypes
<1>9. PICK dir \in {"half", "none"} :
        /\ runDirs' = [runDirs EXCEPT ![v] = dir]
        /\ changedSince' \in [StoredRuns -> SUBSET StoredRuns] /\ Ordered'
        /\ \A s \in StoredRuns \ {v} : s \in changedSince[s] => s \in changedSince'[s]
        /\ dir = "half" => v \in changedSince'[v] /\ runDirs[v] = "whole"
  <2>1. CASE runDirs[v] = "whole"
    <3>1. ChangedLast(v) /\ runDirs' = [runDirs EXCEPT ![v] = "half"]
      BY <1>2, <2>1
    <3>2. /\ changedSince' \in [StoredRuns -> SUBSET StoredRuns] /\ Ordered'
          /\ \A s \in StoredRuns : s \in changedSince[s] \/ s = v => s \in changedSince'[s]
      BY <1>1, <1>4, <3>1, ChangedLastKeeps
    <3> QED
      BY <1>4, <2>1, <3>1, <3>2
  <2>2. CASE runDirs[v] # "whole"
    <3>1. Forgotten(v) /\ runDirs' = [runDirs EXCEPT ![v] = "none"]
      BY <1>2, <2>2
    <3>2. /\ changedSince' \in [StoredRuns -> SUBSET StoredRuns] /\ Ordered'
          /\ \A s \in StoredRuns \ {v} : s \in changedSince[s] => s \in changedSince'[s]
      BY <1>1, <1>4, <3>1, ForgottenKeeps
    <3> QED
      BY <3>1, <3>2
  <2> QED
    BY <2>1, <2>2
<1>10. /\ runDirs' \in [StoredRuns -> {"none", "staging", "whole", "half"}]
       /\ runDirs'[v] = dir /\ \A s \in StoredRuns \ {v} : runDirs'[s] = runDirs[s]
  BY <1>1, <1>4, <1>9 DEF StoreTypes
<1>11. StoreTypes' /\ AppIsShared' /\ ListingFits'
  BY <1>1, <1>5, <1>9, <1>10 DEF StoreTypes, AppIsShared, ListingFits
<1>12. InOrder'
  BY <1>1, <1>9, <1>10 DEF InOrder
<1>13. ASSUME NEW d \in TestCommands \ {c} PROVE RunFits(d)'
  <2>1. RunFits(d) /\ d \in StoredRuns /\ testing'[d] = testing[d] /\ testing[d].at # "prune"
    BY <1>5, <1>8 DEF BrowserInv, CommandFits, StoredRuns
  <2>2. CASE d # v
    <3>1. runDirs'[d] = runDirs[d] /\ (d \in changedSince[d] => d \in changedSince'[d])
      BY <1>9, <1>10, <2>1, <2>2
    <3> QED
      BY <2>1, <3>1, OthersRun
  <2>3. CASE d = v
    <3>1. v \in Stored
      BY <1>1
    <3>2. testing[d].at \in {"answered", "killed"}
      BY <2>1, <2>3, <3>1 DEF RunFits, Stored
    <3> QED
      BY <2>1, <3>2 DEF RunFits
  <2> QED
    BY <2>2, <2>3
<1>14. CommandFits(c)'
  <2>1. AppFits(c)'
    BY <1>1, <1>7 DEF CommandFits, AppFits, ReadsOnly
  <2>2. LanesFit(c)' /\ VerdictFits(c)'
    BY <1>1, <1>7 DEF CommandFits, LanesFit, InLanes, Uses, VerdictFits
  <2>3. runDirs'[c] = "whole"
    BY <1>1, <1>4, <1>10
  <2>4. /\ testing'[c].victims \subseteq Stored'
        /\ Cardinality(Stored' \ testing'[c].victims) <= Retention
    BY <1>1, <1>7 DEF CommandFits, RunFits
  <2>5. RunFits(c)'
    BY <1>1, <1>7, <2>3, <2>4 DEF RunFits
  <2> QED
    BY <2>1, <2>2, <2>5 DEF CommandFits
<1> QED
  BY <1>1, <1>7, <1>11, <1>12, <1>13, <1>14, OneCommandGoes

\* The environment changes under whoever has begun: what went unseen so far is not that.
LEMMA ChangeKeeps == ASSUME BrowserInv, ChangeEnvironment PROVE BrowserInv'
<1>1. /\ BrowserTypes /\ InOrder /\ StoreTypes /\ ListingFits /\ AppIsShared
      /\ appShared' = appShared /\ appAlone' = appAlone /\ runDirs' = runDirs
      /\ changedSince' = changedSince /\ storeLock' = storeLock /\ listing' = listing
  BY DEF BrowserInv, BrowserTypes, ChangeEnvironment, appVars, runStoreVars
<1>2. ASSUME NEW c \in TestCommands
      PROVE  /\ testing'[c] \in SuiteType /\ testing'[c].at = testing[c].at
             /\ testing'[c].suite = testing[c].suite /\ testing'[c].tests = testing[c].tests
             /\ testing'[c].victims = testing[c].victims /\ testing'[c].passed = testing[c].passed
             /\ testing'[c].unseen /\ testing[c].at \in {"wait", "stage", "run"} => FALSE
             /\ testing[c].at \notin {"wait", "stage", "run"} => testing'[c] = testing[c]
  <2>1. testing[c] \in SuiteType
    BY <1>1, Suited
  <2>2. CASE testing[c].at \notin {"wait", "stage", "run"}
    <3>1. testing'[c] = testing[c]
      BY <2>2 DEF ChangeEnvironment
    <3> QED
      BY <2>1, <2>2, <3>1
  <2>3. CASE testing[c].at \in {"wait", "stage", "run"}
    <3>0. PICK other \in BOOLEAN : other = ~testing[c].changed
      OBVIOUS
    <3> DEFINE r == [testing[c] EXCEPT !.changed = other, !.unseen = FALSE]
    <3>1. testing'[c] = r
      BY <2>1, <2>3, <3>0 DEF ChangeEnvironment, SuiteType
    <3>2. /\ r \in SuiteType /\ r.at = testing[c].at
          /\ r.suite = testing[c].suite /\ r.tests = testing[c].tests
          /\ r.victims = testing[c].victims /\ r.passed = testing[c].passed /\ ~r.unseen
      BY <2>1 DEF SuiteType
    <3> HIDE DEF r
    <3> QED
      BY <2>3, <3>1, <3>2
  <2> QED
    BY <2>2, <2>3
<1>3. BrowserTypes' /\ StoreTypes'
  <2>1. StoreTypes'
    BY <1>1 DEF StoreTypes
  <2>2. testing' \in [TestCommands -> SuiteType]
    BY <1>2 DEF ChangeEnvironment
  <2>3. \A c \in TestCommands : testing'[c].tests \in [DOMAIN testing'[c].suite -> TestStates]
    BY <1>1, <1>2 DEF BrowserTypes
  <2> QED
    BY <2>1, <2>2, <2>3 DEF BrowserTypes
<1>4. AppIsShared' /\ InOrder' /\ ListingFits'
  BY <1>1 DEF AppIsShared, InOrder, Ordered, ListingFits
<1>5. ASSUME NEW c \in TestCommands PROVE CommandFits(c)'
  <2>1. CommandFits(c)
    BY DEF BrowserInv
  <2>2. AppFits(c)'
    BY <1>1, <1>2, <2>1 DEF CommandFits, AppFits, ReadsOnly
  <2>3. LanesFit(c)'
    BY <1>2, <2>1 DEF CommandFits, LanesFit, InLanes, Uses
  <2>4. VerdictFits(c)'
    <3>1. CASE testing[c].at \in {"wait", "stage", "run"}
      BY <1>2, <2>1, <3>1 DEF CommandFits, VerdictFits
    <3>2. CASE testing[c].at \notin {"wait", "stage", "run"}
      BY <1>2, <2>1, <3>2 DEF CommandFits, VerdictFits
    <3> QED
      BY <3>1, <3>2
  <2>5. RunFits(c)'
    <3>1. Stored' = Stored
      BY <1>1 DEF Stored
    <3> QED
      BY <1>1, <1>2, <2>1, <3>1 DEF CommandFits, RunFits
  <2> QED
    BY <2>2, <2>3, <2>4, <2>5 DEF CommandFits
<1> QED
  BY <1>3, <1>4, <1>5 DEF BrowserInv

LEMMA ListKeeps == ASSUME BrowserInv, ListRun PROVE BrowserInv'
<1>1. /\ BrowserTypes /\ InOrder /\ StoreTypes /\ ListingFits /\ AppIsShared
      /\ appShared' = appShared /\ appAlone' = appAlone /\ runDirs' = runDirs
      /\ changedSince' = changedSince /\ testing' = testing
  BY DEF BrowserInv, BrowserTypes, ListRun, appVars
<1>2. /\ listing' \in [at : {"idle", "index", "verify", "listed"}, run : StoredRuns \union {NoRun}]
      /\ storeLock' \in TestCommands \union {"listing", "free"}
      /\ storeLock' = storeLock \/ storeLock \in {"listing", "free"}
      /\ listing'.at # "idle" => storeLock' = "listing" /\ listing'.run \in StoredRuns
      /\ listing'.at = "listed" => runDirs[listing'.run] = "whole"
  <2>1. CASE /\ listing.at = "idle" /\ storeLock = "free" /\ storeLock' = "listing"
             /\ \E run \in StoredRuns : listing' = [at |-> "index", run |-> run]
    BY <1>1, <2>1
  <2>2. CASE listing.at = "index" /\ ListingGoes("verify") /\ UNCHANGED storeLock
    BY <1>1, <2>2 DEF ListingGoes, StoreTypes, ListingFits
  <2>3. CASE listing.at = "verify" /\ runDirs[listing.run] = "whole" /\ ListingGoes("listed") /\ UNCHANGED storeLock
    BY <1>1, <2>3 DEF ListingGoes, StoreTypes, ListingFits
  <2>4. CASE listing.at # "idle" /\ ListingEnds
    BY <1>1, <2>4 DEF ListingEnds, StoreTypes, ListingFits
  <2> QED
    BY <2>1, <2>2, <2>3, <2>4 DEF ListRun
<1>3. StoreTypes' /\ BrowserTypes'
  BY <1>1, <1>2 DEF StoreTypes, BrowserTypes
<1>4. AppIsShared' /\ InOrder' /\ ListingFits'
  BY <1>1, <1>2 DEF AppIsShared, InOrder, Ordered, ListingFits
<1>5. ASSUME NEW c \in TestCommands PROVE CommandFits(c)'
  <2>1. CommandFits(c)
    BY DEF BrowserInv
  <2>2. testing[c].at = "prune" => storeLock' = c
    BY <1>2, <2>1, BrowserTestsAssumption DEF CommandFits, RunFits
  <2>3. Stored' = Stored
    BY <1>1 DEF Stored
  <2>4. RunFits(c)'
    BY <1>1, <2>2, <2>3, OthersRun
  <2>5. AppFits(c)' /\ LanesFit(c)' /\ VerdictFits(c)'
    BY <1>1, <2>1 DEF CommandFits, AppFits, ReadsOnly, LanesFit, InLanes, Uses, VerdictFits
  <2> QED
    BY <2>4, <2>5 DEF CommandFits
<1> QED
  BY <1>3, <1>4, <1>5 DEF BrowserInv

LEMMA BrowserKeeps == BrowserInv /\ [BrowserNext]_testRunVars => BrowserInv'
<1> SUFFICES ASSUME BrowserInv, [BrowserNext]_testRunVars PROVE BrowserInv'
  OBVIOUS
<1>1. ASSUME NEW c \in TestCommands, BeginTests(c) \/ AcquireAppUse(c) \/ StageAndRun(c)
      PROVE  BrowserInv'
  BY <1>1, BeginTestsKeeps, AcquireKeeps, StageKeeps
<1>2. ASSUME NEW c \in TestCommands,
             AdmitTest(c) \/ DecideTest(c) \/ CloseContext(c) \/ SampleEnvironment(c)
             \/ InterruptTests(c) \/ FinishTests(c)
      PROVE  BrowserInv'
  BY <1>2, AdmitKeeps, DecideKeeps, CloseKeeps, SampleKeeps, InterruptKeeps, FinishKeeps
<1>3. ASSUME NEW c \in TestCommands,
             TestsFail(c) \/ WriteIndex(c) \/ CommitRun(c) \/ PruneRun(c) \/ AnswerTests(c)
             \/ KillTests(c)
      PROVE  BrowserInv'
  BY <1>3, FailKeeps, IndexKeeps, CommitKeeps, PruneKeeps, AnswerKeeps, KillKeeps
<1>4. CASE UNCHANGED testRunVars
  <2>1. /\ testing' = testing /\ appShared' = appShared /\ appAlone' = appAlone /\ runDirs' = runDirs
        /\ changedSince' = changedSince /\ storeLock' = storeLock /\ listing' = listing
    BY <1>4 DEF testRunVars
  <2>2. BrowserTypes' /\ AppIsShared' /\ InOrder' /\ ListingFits'
    BY <2>1 DEF BrowserInv, BrowserTypes, StoreTypes, AppIsShared, InOrder, Ordered, ListingFits
  <2>3. ASSUME NEW c \in TestCommands PROVE CommandFits(c)'
    <3>1. CommandFits(c)
      BY DEF BrowserInv
    <3>2. Stored' = Stored
      BY <2>1 DEF Stored
    <3>3. RunFits(c)'
      BY <2>1, <3>1, <3>2 DEF CommandFits, RunFits
    <3>4. AppFits(c)' /\ LanesFit(c)' /\ VerdictFits(c)'
      BY <2>1, <3>1 DEF CommandFits, AppFits, ReadsOnly, LanesFit, InLanes, Uses, VerdictFits
    <3> QED
      BY <3>3, <3>4 DEF CommandFits
  <2> QED
    BY <2>2, <2>3 DEF BrowserInv
<1> QED
  BY <1>1, <1>2, <1>3, <1>4, ChangeKeeps, ListKeeps DEF BrowserNext

\* What the lanes of two commands may hold together (browser-parallel.mjs, acquire_app_use).
LEMMA LanesAreApart == BrowserInv => NothingBesideAWrite /\ NoneOvertakes
<1> SUFFICES ASSUME BrowserInv PROVE NothingBesideAWrite /\ NoneOvertakes
  OBVIOUS
<1>1. \A c \in TestCommands : AppFits(c) /\ LanesFit(c)
  BY DEF BrowserInv, CommandFits
<1>2. NothingBesideAWrite
  <2> SUFFICES ASSUME NEW s \in TestsRunning, NEW t \in TestsRunning, s # t
               PROVE  IF s[1] = t[1] THEN Beside(Uses(s[1], s[2]), Uses(t[1], t[2]))
                      ELSE IsRead(Uses(s[1], s[2])) /\ IsRead(Uses(t[1], t[2]))
    BY DEF NothingBesideAWrite
  <2>1. PICK c \in TestCommands : \E k \in DOMAIN testing[c].tests : s = <<c, k>> /\ InLanes(c, k)
    BY DEF TestsRunning, TestsIn, InLanes, InLane
  <2>2. PICK i \in DOMAIN testing[c].tests : s = <<c, i>> /\ InLanes(c, i)
    BY <2>1
  <2>3. PICK d \in TestCommands : \E k \in DOMAIN testing[d].tests : t = <<d, k>> /\ InLanes(d, k)
    BY DEF TestsRunning, TestsIn, InLanes, InLane
  <2>4. PICK j \in DOMAIN testing[d].tests : t = <<d, j>> /\ InLanes(d, j)
    BY <2>3
  <2>5. CASE c = d
    <3>1. i # j
      BY <2>2, <2>4, <2>5
    <3>2. Beside(Uses(c, i), Uses(d, j))
      BY <1>1, <2>2, <2>4, <2>5, <3>1 DEF LanesFit
    <3> QED
      BY <2>2, <2>4, <2>5, <3>2
  <2>6. CASE c # d
    <3>1. testing[c].at = "run" /\ testing[d].at = "run"
      BY <1>1, <2>2, <2>4 DEF LanesFit
    <3>2. ReadsOnly(c) /\ ReadsOnly(d)
      BY <1>1, <2>6, <3>1 DEF AppFits, BrowserInv, AppIsShared
    <3>3. DOMAIN testing[c].tests = DOMAIN testing[c].suite /\ DOMAIN testing[d].tests = DOMAIN testing[d].suite
      BY Suited DEF BrowserInv
    <3>4. IsRead(Uses(c, i)) /\ IsRead(Uses(d, j))
      BY <3>2, <3>3 DEF ReadsOnly, Uses
    <3> QED
      BY <2>2, <2>4, <2>6, <3>4
  <2> QED
    BY <2>5, <2>6
<1>3. NoneOvertakes
  <2> SUFFICES ASSUME NEW c \in TestCommands, NEW i \in TestsIn(c, {"pending"}),
                      Uses(c, i) = "vm-lifecycle",
                      NEW j \in TestsIn(c, InLane \union {"passed", "failed"})
               PROVE  j \in 1..i
    BY DEF NoneOvertakes
  <2>1. /\ i \in DOMAIN testing[c].tests /\ testing[c].tests[i] = "pending"
        /\ j \in DOMAIN testing[c].tests
        /\ InLanes(c, j) \/ testing[c].tests[j] \in {"passed", "failed"}
    BY DEF TestsIn, InLanes
  <2>2. j <= i
    BY <1>1, <2>1 DEF LanesFit
  <2>3. DOMAIN testing[c].tests = DOMAIN testing[c].suite /\ testing[c].suite \in GivenSuites
    BY Suited DEF BrowserInv
  <2>4. i \in Nat \ {0} /\ j \in Nat \ {0}
    BY <2>1, <2>3, Numbered
  <2> QED
    BY <2>2, <2>4
<1> QED
  BY <1>2, <1>3

\* What an accepted run says of the environment, and what is in the store.
LEMMA RunsAreTrue == BrowserInv => PassedUnchanged /\ StoreIsTrue
<1> SUFFICES ASSUME BrowserInv PROVE PassedUnchanged /\ StoreIsTrue
  OBVIOUS
<1>1. \A c \in TestCommands : VerdictFits(c) /\ RunFits(c)
  BY DEF BrowserInv, CommandFits
<1>2. PassedUnchanged
  BY <1>1 DEF VerdictFits, PassedUnchanged
<1>3. ASSUME NEW c \in TestCommands, StepOf(c, "prune"), testing[c].victims = {}
      PROVE  Cardinality({r \in StoredRuns : runDirs[r] \in {"whole", "half"}}) <= Retention
  <2>1. Cardinality(Stored \ testing[c].victims) <= Retention
    BY <1>1, <1>3 DEF RunFits, StepOf
  <2>2. Stored \ testing[c].victims = {r \in StoredRuns : runDirs[r] \in {"whole", "half"}}
    BY <1>3 DEF Stored
  <2> QED
    BY <2>1, <2>2
<1>4. StoreIsTrue
  BY <1>1, <1>3 DEF StoreIsTrue, RunFits, StepOf, BrowserInv, ListingFits
<1> QED
  BY <1>2, <1>4

\* For any number of commands, suites, lanes and stored runs, whatever fails or is killed and
\* however the environment changes: no test runs beside a write, none passes a test of the VM
\* that waits, a suite passed only in the environment it was prepared for, and the store holds
\* what was accepted, whole while it is listed, and no more than is to be kept.
THEOREM EvidenceHolds == BrowserSpec => []EvidenceIsSound
<1>1. BrowserInv => EvidenceIsSound
  BY LanesAreApart, RunsAreTrue DEF EvidenceIsSound
<1> QED
  BY BrowserStart, BrowserKeeps, <1>1, PTL DEF BrowserSpec

\* Commands, app lock, runs with their order, store lock and listing have their types.
THEOREM BrowserTypesHold == BrowserSpec => []BrowserTypeOK
<1>1. BrowserInv => BrowserTypeOK
  <2> SUFFICES ASSUME BrowserInv PROVE BrowserTypeOK
    OBVIOUS
  <2>1. StoreTypes
    BY DEF BrowserInv, BrowserTypes
  <2>2. ASSUME NEW c \in TestCommands
        PROVE  /\ testing[c].at \in CommandSteps /\ testing[c].suite \in Suites \union {<<>>}
               /\ DOMAIN testing[c].tests = DOMAIN testing[c].suite
               /\ \A i \in DOMAIN testing[c].tests : testing[c].tests[i] \in TestStates
               /\ {testing[c].changed, testing[c].seen, testing[c].unseen, testing[c].passed}
                    \subseteq BOOLEAN
               /\ testing[c].victims \subseteq StoredRuns
    BY Suited DEF BrowserInv, GivenSuites
  <2> QED
    BY <2>1, <2>2 DEF BrowserTypeOK, StoreTypes, CommandSteps
<1> QED
  BY BrowserStart, BrowserKeeps, <1>1, PTL DEF BrowserSpec
=============================================================================

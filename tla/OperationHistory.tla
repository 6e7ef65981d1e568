--------------------------- MODULE OperationHistory ---------------------------
(***************************************************************************)
(* The operation history (operations.rs): a file of records that several   *)
(* processes share, and in each process the set of operations and session  *)
(* actions that run there.  A mutex of the process makes its own           *)
(* transactions on the file exclusive; nothing keeps processes apart.      *)
(*                                                                         *)
(* All operations are of one version: conflicts are per version.  A task   *)
(* runs at most one operation, whose record bears its name.  Progress and  *)
(* the import of old reports do not matter here.                           *)
(***************************************************************************)
EXTENDS Naturals, Sequences, FiniteSets

CONSTANTS Procs, Tasks,
          MaxRecords,  \* MAX_RECORDS
          Concurrent   \* processes use the history at the same time


VARIABLES
  history,   \* the file: records, oldest first
  store,     \* per process, the transaction under its mutex
  active,    \* per process, ACTIVE_OPERATIONS and ACTIVE_SESSION_ACTIONS
  task       \* per task its step, process, kind and the operation it retries

historyVars == <<history, store, active, task>>

OperationKinds == {"install", "launch"}
Kinds == OperationKinds \cup {"session", "list", "clear", "retry"}
None == "none"

ASSUME HistoryAssumption == MaxRecords \in Nat \ {0} /\ None \notin Tasks \union Procs

RecordSet == [id : Tasks, kind : OperationKinds,
              state : {"running", "succeeded", "failed", "interrupted"}]
NoStore == [task |-> None, file |-> <<>>]

HistoryTypeOK ==
  /\ history \in Seq(RecordSet) /\ Len(history) <= MaxRecords
  /\ \A p \in Procs : /\ store[p].task \in Tasks \cup {None}
                      /\ store[p].file \in Seq(RecordSet)
                      /\ active[p] \subseteq Tasks
  /\ task \in [Tasks -> [at : {"idle", "beginning", "live", "finishing", "releasing",
                               "chosen", "undoing", "ended"},
                         proc : Procs \cup {None}, kind : Kinds \cup {None},
                         retries : Tasks \cup {None}]]

HistoryInit ==
  /\ history = <<>>
  /\ store = [p \in Procs |-> NoStore]
  /\ active = [p \in Procs |-> {}]
  /\ task = [t \in Tasks |-> [at |-> "idle", proc |-> None, kind |-> None, retries |-> None]]

IsMutation(kind) == kind = "install"
Terminal(r) == r.state # "running"
Conflict(kind, other) == IsMutation(kind) \/ IsMutation(other)

\* A process is busy while one of its tasks is.
Busy(p) == \E t \in Tasks : task[t].proc = p /\ task[t].at \notin {"idle", "ended"}

-----------------------------------------------------------------------------
(* Transactions. *)

\* lock_store and load_history.
OpenStore(t, p) ==
  /\ store[p].task = None
  /\ store' = [store EXCEPT ![p] = [task |-> t, file |-> history]]
  /\ Concurrent \/ \A q \in Procs \ {p} : ~Busy(q)

CloseStore(p) == store' = [store EXCEPT ![p] = NoStore]
Saves(file) == history' = file

\* Mutant: whatever is recorded as running is taken for left over.
ReconcileAll(p, file) ==
  [i \in DOMAIN file |-> IF file[i].state = "running" THEN [file[i] EXCEPT !.state = "interrupted"]
                                                    ELSE file[i]]

\* What no task of this process runs, nobody runs.
Reconcile(p, file) ==
  [i \in DOMAIN file |-> IF file[i].state = "running" /\ file[i].id \notin active[p]
                           THEN [file[i] EXCEPT !.state = "interrupted"] ELSE file[i]]

\* Mutant: the oldest records go, whatever they are.
TrimOldest(file) == SubSeq(file, 1 + (IF Len(file) > MaxRecords THEN Len(file) - MaxRecords ELSE 0), Len(file))

\* The records at the indices that are kept, in their order.
Only(file, kept) ==
  [n \in 1..Cardinality(kept) |->
     file[CHOOSE i \in kept : Cardinality({j \in kept : j <= i}) = n]]

\* The oldest records that ended go until the limit is met; what still runs is
\* kept.
Trim(file) ==
  LET ended(i) == {j \in 1..i : Terminal(file[j])}
      goes == {i \in DOMAIN file :
                 Terminal(file[i]) /\ Cardinality(ended(i)) <= Len(file) - MaxRecords}
  IN Only(file, DOMAIN file \ goes)

SetTask(t, step) == task' = [task EXCEPT ![t].at = step]

-----------------------------------------------------------------------------
(* Operations and session actions. *)

\* A task starts in some process, as a command of its own or a retry of what
\* the history offered.
Begin(t) ==
  /\ \E p \in Procs, k \in Kinds :
       /\ \/ task[t].at = "idle"
          \/ task[t].at = "chosen" /\ p = task[t].proc /\ k = task[t].kind
       /\ OpenStore(t, p)
       /\ task' = [task EXCEPT ![t].at = "beginning", ![t].proc = p, ![t].kind = k]
  /\ UNCHANGED <<history, active>>

BeginWith(t, kind) ==
  /\ task[t].at = "beginning" /\ task[t].kind = kind
  /\ CloseStore(task[t].proc)

Loaded(t) == Reconcile(task[t].proc, store[task[t].proc].file)

\* Mutant: the limit is not checked when the file is saved.
StartRecordUnchecked(t, kind) ==
  LET file == Trim(Append(Loaded(t), [id |-> t, kind |-> kind, state |-> "running"]))
  IN /\ Saves(file)
     /\ active' = [active EXCEPT ![task[t].proc] = @ \cup {t}] /\ SetTask(t, "live")

\* A new record is only begun with if the file stays within its limit; a save
\* that fails begins nothing.
StartRecordOf(t, kind) ==
  LET file == Trim(Append(Loaded(t), [id |-> t, kind |-> kind, state |-> "running"]))
  IN /\ Len(file) <= MaxRecords /\ Saves(file)
     /\ active' = [active EXCEPT ![task[t].proc] = @ \cup {t}] /\ SetTask(t, "live")

OperationConflicts(t, kind) ==
  \E i \in DOMAIN Loaded(t) : Loaded(t)[i].state = "running" /\ Conflict(kind, Loaded(t)[i].kind)

SessionActive(t) == \E s \in active[task[t].proc] : task[s].kind = "session"

\* Mutant: only operations are in each other's way.
BeginOperationPastSession(t) ==
  \E kind \in OperationKinds :
    /\ BeginWith(t, kind)
    /\ \/ SetTask(t, "ended") /\ UNCHANGED <<history, active>>
       \/ ~OperationConflicts(t, kind) /\ StartRecordOf(t, kind)

BeginOperation(t) ==
  \E kind \in OperationKinds :
    /\ BeginWith(t, kind)
    /\ \/ SetTask(t, "ended") /\ UNCHANGED <<history, active>>
       \/ /\ ~OperationConflicts(t, kind) /\ ~(IsMutation(kind) /\ SessionActive(t))
          /\ StartRecordOf(t, kind)

BeginSession(t) ==
  /\ BeginWith(t, "session")
  /\ LET p == task[t].proc
         file == Loaded(t)
         refused == \/ \E i \in DOMAIN file : file[i].state = "running" /\ IsMutation(file[i].kind)
                    \/ SessionActive(t)
     IN \/ SetTask(t, "ended") /\ UNCHANGED <<history, active>>
        \/ /\ Saves(IF file = store[p].file THEN history ELSE Trim(file))
           /\ IF refused THEN SetTask(t, "ended") /\ UNCHANGED active
              ELSE active' = [active EXCEPT ![p] = @ \cup {t}] /\ SetTask(t, "live")

\* finish, or the drop of a tracker nobody finished.
OpenFinish(t) ==
  /\ task[t].at = "live" /\ task[t].kind \in OperationKinds
  /\ OpenStore(t, task[t].proc) /\ SetTask(t, "finishing")
  /\ UNCHANGED <<history, active>>

WithState(file, t, state) ==
  [i \in DOMAIN file |-> IF file[i].id = t THEN [file[i] EXCEPT !.state = state] ELSE file[i]]

\* The record may be gone, the save may fail: the tracker is done all the same.
FinishOperation(t) ==
  LET p == task[t].proc
  IN /\ task[t].at = "finishing"
     /\ CloseStore(p) /\ SetTask(t, "releasing")
     /\ \/ \E state \in {"succeeded", "failed", "interrupted"} :
             /\ \E i \in DOMAIN store[p].file : store[p].file[i].id = t
             /\ Saves(WithState(store[p].file, t, state))
        \/ UNCHANGED history
     /\ UNCHANGED active

\* remove_active comes after the mutex was released; the drop of a session
\* action takes the mutex.
RemoveActive(t) ==
  /\ \/ task[t].at = "releasing"
     \/ task[t].at = "live" /\ task[t].kind = "session" /\ store[task[t].proc].task = None
  /\ active' = [active EXCEPT ![task[t].proc] = @ \ {t}] /\ SetTask(t, "ended")
  /\ UNCHANGED <<history, store>>

\* interrupt_completed_launch: the session keeper was not accepted.
OpenUndo(t) ==
  /\ task[t].at = "ended" /\ task[t].kind = "launch"
  /\ OpenStore(t, task[t].proc) /\ SetTask(t, "undoing")
  /\ UNCHANGED <<history, active>>

UndoLaunch(t) ==
  LET p == task[t].proc
      file == store[p].file
  IN /\ task[t].at = "undoing"
     /\ CloseStore(p) /\ task' = [task EXCEPT ![t].at = "ended", ![t].kind = None]
     /\ IF \E i \in DOMAIN file : file[i].id = t /\ file[i].state = "succeeded"
          THEN Saves(WithState(file, t, "interrupted")) ELSE UNCHANGED history
     /\ UNCHANGED active

-----------------------------------------------------------------------------
(* Commands on the history. *)

List(t) ==
  /\ BeginWith(t, "list") /\ SetTask(t, "ended")
  /\ Saves(IF Loaded(t) = store[task[t].proc].file THEN history ELSE Trim(Loaded(t)))
  /\ UNCHANGED active

ClearCompleted(t) ==
  /\ BeginWith(t, "clear") /\ SetTask(t, "ended")
  /\ LET kept == Only(Loaded(t), {i \in DOMAIN Loaded(t) : ~Terminal(Loaded(t)[i])})
     IN Saves(IF kept = store[task[t].proc].file THEN history ELSE kept)
  /\ UNCHANGED active

\* Mutant: what is retried need not have ended.
RetrySourceAny(t) ==
  /\ BeginWith(t, "retry")
  /\ \E i \in DOMAIN Loaded(t) :
       task' = [task EXCEPT ![t].at = "chosen", ![t].kind = Loaded(t)[i].kind,
                            ![t].retries = Loaded(t)[i].id]
  /\ UNCHANGED <<history, active>>

\* The list is read, and reconciled, before the retry begins on its own.
RetrySource(t) ==
  /\ BeginWith(t, "retry")
  /\ LET file == Loaded(t)
     IN /\ Saves(IF file = store[task[t].proc].file THEN history ELSE Trim(file))
        /\ \/ SetTask(t, "ended")
           \/ \E i \in DOMAIN file :
                /\ file[i].state \in {"failed", "interrupted"}
                /\ task' = [task EXCEPT ![t].at = "chosen", ![t].kind = file[i].kind,
                                        ![t].retries = file[i].id]
  /\ UNCHANGED active

\* A process ends: its tasks, its sets and its transaction are gone.
ProcessEnds(p) ==
  /\ Busy(p)
  /\ task' = [t \in Tasks |-> IF task[t].proc = p THEN [task[t] EXCEPT !.at = "ended", !.kind = None]
                                                   ELSE task[t]]
  /\ active' = [active EXCEPT ![p] = {}]
  /\ CloseStore(p) /\ UNCHANGED history

-----------------------------------------------------------------------------
TaskStep(t) == BeginOperation(t) \/ BeginSession(t) \/ OpenFinish(t) \/ FinishOperation(t)
               \/ RemoveActive(t) \/ OpenUndo(t) \/ UndoLaunch(t)
HistoryCommand(t) == List(t) \/ ClearCompleted(t) \/ RetrySource(t)

HistoryNext == \/ \E t \in Tasks : Begin(t) \/ TaskStep(t) \/ HistoryCommand(t)
               \/ \E p \in Procs : ProcessEnds(p)

HistorySpec == HistoryInit /\ [][HistoryNext]_historyVars

-----------------------------------------------------------------------------
(* What is checked.  The first three hold if ~Concurrent. *)

Running(t) == task[t].at = "live" \/ (task[t].at = "finishing")
RecordOf(t) == {i \in DOMAIN history : history[i].id = t}

\* An install never runs beside another operation or a session action of its
\* version, however the earlier ones ended.
MutationAlone ==
  \A s, t \in Tasks :
    Running(s) /\ Running(t) /\ s # t => ~IsMutation(task[s].kind)

\* What runs is in the history as running: reconciling, trimming, clearing and
\* the end of other operations leave its record alone.
RunningIsRecorded ==
  \A t \in Tasks : Running(t) /\ task[t].kind \in OperationKinds
    => \E i \in RecordOf(t) : history[i].state = "running"

\* What is retried is over, though it was looked up before the retry began.
RetryAfterEnd ==
  \A t \in Tasks : task[t].at \in {"chosen", "beginning", "live"} /\ task[t].retries # None
    => ~Running(task[t].retries)

\* An operation recorded as interrupted is over, in every process.
InterruptedIsOver ==
  \A i \in DOMAIN history : history[i].state = "interrupted" => ~Running(history[i].id)

\* The history refuses what must not run together, and what it tells of an
\* operation is so.
HistoryIsTrue == MutationAlone /\ RunningIsRecorded /\ RetryAfterEnd /\ InterruptedIsOver
=============================================================================

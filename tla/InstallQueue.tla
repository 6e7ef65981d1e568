----------------------------- MODULE InstallQueue -----------------------------
(***************************************************************************)
(* The queue of Studio Pro installations of the desktop application        *)
(* (downloads/queue.rs).  Commands change the items under a mutex and save *)
(* the store before they release it; the snapshot they took is published   *)
(* to the watch channel afterwards, and only then the worker is woken.     *)
(* Worker tasks are spawned on demand: the flag running, set by whoever    *)
(* spawns or resumes one, keeps them to one installation at a time.        *)
(***************************************************************************)
EXTENDS Naturals, Sequences, FiniteSets

CONSTANTS Clients,    \* concurrent commands of the application
          Workers,    \* worker tasks that may exist at once (bound)
          Versions,   \* Studio Pro versions
          MaxItems,   \* how many items are ever created (bound)
          Limit,      \* MAX_QUEUE_ITEMS
          MaxRetries, \* how often failed items are retried (bound)
          Watched,    \* whether snapshots are modelled: only waiting reads them
          Hazards     \* "crash", "disk": saving fails, "history": recording a success fails

ASSUME QueueAssumption ==
  /\ MaxItems \in Nat /\ Limit \in Nat /\ MaxRetries \in Nat
  /\ Watched \in BOOLEAN
  /\ Hazards \subseteq {"crash", "disk", "history"}

VARIABLES items,    \* the items in queue order
          store,    \* what install-queue.json holds
          watch,    \* the snapshot in the watch channel
          current,  \* the installation in progress and its cancellation
          running,  \* the flag that a worker task is active
          worker,   \* what each task is doing
          client,   \* what each command is doing
          made,     \* how many items were created
          retries   \* how many retries there were

vars == <<items, store, watch, current, running, worker, client, made, retries>>

Terminal == {"succeeded", "failed", "cancelled"}
Active == {"downloading"}   \* and staging, installing: nothing here tells them apart
Ids == 1..MaxItems

NoInstall == [id |-> 0, cancelled |-> FALSE]
NoTask == [pc |-> "none", view |-> <<>>]
NoCall == [pc |-> "idle", id |-> 0, view |-> <<>>, wakes |-> FALSE]

Init ==
  /\ items = <<>> /\ store = <<>> /\ watch = <<>>
  /\ current = NoInstall
  /\ running = FALSE
  /\ worker = [w \in Workers |-> NoTask]
  /\ client = [c \in Clients |-> NoCall]
  /\ made = 0 /\ retries = 0

-----------------------------------------------------------------------------
(* Items.                                                                  *)

Where(test(_)) == {i \in DOMAIN items : test(items[i])}
At(id) == CHOOSE i \in DOMAIN items : items[i].id = id
Listed(id) == \E i \in DOMAIN items : items[i].id = id
StateOf(id) == items[At(id)].state
Queued == Where(LAMBDA item : item.state = "queued")
First(S) == CHOOSE i \in S : \A j \in S : i <= j

Insert(seq, i, item) == SubSeq(seq, 1, i - 1) \o <<item>> \o SubSeq(seq, i, Len(seq))
Without(seq, i) == SubSeq(seq, 1, i - 1) \o SubSeq(seq, i + 1, Len(seq))
With(id, state) == IF Listed(id) THEN [items EXCEPT ![At(id)].state = state] ELSE items

May(hazard) == hazard \in Hazards
Shot(seq) == IF Watched THEN seq ELSE <<>>

-----------------------------------------------------------------------------
(* Commands.  Each changes the items and saves them under the mutex.       *)

Call(c, id, wakes) ==
  client' = [client EXCEPT ![c] = [pc |-> "publish", id |-> id, view |-> Shot(items'), wakes |-> wakes]]

\* The store is written in the mutex; when that fails the command returns its
\* error, and the items stay as they are now.
Commit(c, id, wakes) ==
  \/ store' = items' /\ Call(c, id, wakes)
  \/ May("disk") /\ UNCHANGED <<store, client>>

\* A retried version goes before everything that is still queued.
Front(retry) == IF retry /\ Queued # {} THEN First(Queued) ELSE Len(items) + 1

Accepts(version) ==
  \A i \in DOMAIN items : items[i].state \notin Terminal => items[i].version # version

\* install_studio_pro and retry_operation then wait for the item.
Enqueue(c, version, retry, waits) ==
  /\ client[c].pc = "idle" /\ made < MaxItems
  /\ waits => Watched
  /\ Len(items) < Limit
  /\ Accepts(version)
  /\ made' = made + 1
  /\ items' = Insert(items, Front(retry), [id |-> made', version |-> version, state |-> "queued"])
  /\ Commit(c, IF waits THEN made' ELSE 0, TRUE)
  /\ UNCHANGED <<watch, current, running, worker, retries>>

\* Mutant: a queued item is cancelled in memory only.
CancelUnsaved(c, id) ==
  /\ client[c].pc = "idle" /\ current.id # id
  /\ Listed(id) /\ StateOf(id) = "queued"
  /\ items' = With(id, "cancelled")
  /\ Call(c, 0, FALSE)
  /\ UNCHANGED <<store, watch, current, running, worker, made, retries>>

Cancel(c, id) ==
  /\ client[c].pc = "idle" /\ current.id # id
  /\ Listed(id) /\ StateOf(id) = "queued"
  /\ items' = With(id, "cancelled")
  /\ Commit(c, 0, FALSE)
  /\ UNCHANGED <<watch, current, running, worker, made, retries>>

\* The running installation is asked to stop.  cancel_current leaves it at
\* that; cancel lists the items again, after it released the mutex.
CancelRunning(c) ==
  /\ client[c].pc = "idle" /\ current # NoInstall /\ ~current.cancelled
  /\ current' = [current EXCEPT !.cancelled = TRUE]
  /\ client' \in {client, [client EXCEPT ![c].pc = "list"]}
  /\ UNCHANGED <<items, store, watch, running, worker, made, retries>>

List(c) ==
  /\ client[c].pc = "list"
  /\ UNCHANGED items /\ Call(c, 0, FALSE)
  /\ UNCHANGED <<store, watch, current, running, worker, made, retries>>

\* Mutant: a retry is a new item.
RetryAppends(c, id) ==
  /\ client[c].pc = "idle" /\ retries < MaxRetries
  /\ Listed(id) /\ StateOf(id) \in {"failed", "cancelled"}
  /\ items' = Append(items, [items[At(id)] EXCEPT !.state = "queued"])
  /\ Commit(c, 0, TRUE)
  /\ retries' = retries + 1
  /\ UNCHANGED <<watch, current, running, worker, made>>

Retry(c, id) ==
  /\ client[c].pc = "idle" /\ retries < MaxRetries
  /\ Listed(id) /\ StateOf(id) \in {"failed", "cancelled"}
  /\ items' = With(id, "queued")
  /\ Commit(c, 0, TRUE)
  /\ retries' = retries + 1
  /\ UNCHANGED <<watch, current, running, worker, made>>

\* Removing what another command has removed only publishes the list again.
Remove(c, id) ==
  /\ client[c].pc = "idle"
  /\ \/ /\ Listed(id) /\ StateOf(id) \in Terminal
        /\ items' = Without(items, At(id))
        /\ Commit(c, 0, FALSE)
     \/ /\ id <= made /\ ~Listed(id)
        /\ UNCHANGED <<items, store>> /\ Call(c, 0, FALSE)
  /\ UNCHANGED <<watch, current, running, worker, made, retries>>

\* Swap a queued item with the next queued one; moving up is the same swap.
Move(c, i, j) ==
  /\ client[c].pc = "idle"
  /\ {i, j} \subseteq Queued /\ i < j /\ \A k \in Queued : k <= i \/ j <= k
  /\ items' = [items EXCEPT ![i] = items[j], ![j] = items[i]]
  /\ Commit(c, 0, FALSE)
  /\ UNCHANGED <<watch, current, running, worker, made, retries>>

Publish(c) ==
  /\ client[c].pc = "publish"
  /\ watch' = client[c].view
  /\ client' = [client EXCEPT ![c] = IF client[c].wakes THEN [NoCall EXCEPT !.pc = "ensure", !.id = client[c].id]
                                     ELSE NoCall]
  /\ UNCHANGED <<items, store, current, running, worker, made, retries>>

Woken(c) ==
  client' = [client EXCEPT ![c].pc = IF client[c].id = 0 THEN "idle" ELSE "wait"]

\* Mutant: a worker is spawned whether or not one is running.
EnsureAlways(c) ==
  /\ client[c].pc = "ensure"
  /\ Woken(c)
  /\ running' = TRUE
  /\ \E w \in Workers : /\ worker[w] = NoTask
                        /\ worker' = [worker EXCEPT ![w].pc = "begin"]
  /\ UNCHANGED <<items, store, watch, current, made, retries>>

\* ensure_worker: whoever turns the flag on spawns a task.
Ensure(c) ==
  /\ client[c].pc = "ensure"
  /\ Woken(c)
  /\ running' = TRUE
  /\ IF running
     THEN UNCHANGED worker
     ELSE \E w \in Workers : /\ worker[w] = NoTask
                             /\ worker' = [worker EXCEPT ![w].pc = "begin"]
  /\ UNCHANGED <<items, store, watch, current, made, retries>>

\* wait_for_terminal: look at the channel now and after every change.
Return(c) ==
  /\ client[c].pc = "wait"
  /\ \E i \in DOMAIN watch : watch[i].id = client[c].id /\ watch[i].state \in Terminal
  /\ client' = [client EXCEPT ![c] = NoCall]
  /\ UNCHANGED <<items, store, watch, current, running, worker, made, retries>>

-----------------------------------------------------------------------------
(* Worker tasks.                                                           *)

Task(w, pc) == worker' = [worker EXCEPT ![w] = [pc |-> pc, view |-> <<>>]]
TaskPublishes(w, pc) == worker' = [worker EXCEPT ![w] = [pc |-> pc, view |-> Shot(items')]]

\* Errors of the worker's own saves are ignored.
Save == store' = items' \/ (May("disk") /\ UNCHANGED store)

Begin(w) ==
  /\ worker[w].pc = "begin" /\ Queued # {}
  /\ items' = [items EXCEPT ![First(Queued)].state = "downloading"]
  /\ current' = [id |-> items[First(Queued)].id, cancelled |-> FALSE]
  /\ Save
  /\ TaskPublishes(w, "begun")
  /\ UNCHANGED <<watch, running, client, made, retries>>

\* Nothing is queued: the task clears the flag, after it left the mutex.
Nothing(w) ==
  /\ worker[w].pc = "begin" /\ Queued = {}
  /\ Task(w, "nothing")
  /\ UNCHANGED <<items, store, watch, current, running, client, made, retries>>

Idle(w) ==
  /\ worker[w].pc = "nothing"
  /\ running' = FALSE
  /\ Task(w, "recheck")
  /\ UNCHANGED <<items, store, watch, current, client, made, retries>>

\* Mutant: the task ends without looking again.
RecheckNever(w) ==
  /\ worker[w].pc = "recheck"
  /\ Task(w, "none")
  /\ UNCHANGED <<items, store, watch, current, running, client, made, retries>>

\* An item queued before the flag was cleared has woken nobody.
Recheck(w) ==
  /\ worker[w].pc = "recheck"
  /\ Task(w, IF Queued = {} THEN "none" ELSE "claim")
  /\ UNCHANGED <<items, store, watch, current, running, client, made, retries>>

\* Mutant: the task turns the flag on and ends all the same.
ClaimOnly(w) ==
  /\ worker[w].pc = "claim"
  /\ running' = TRUE
  /\ Task(w, "none")
  /\ UNCHANGED <<items, store, watch, current, client, made, retries>>

Claim(w) ==
  /\ worker[w].pc = "claim"
  /\ running' = TRUE
  /\ Task(w, IF running THEN "none" ELSE "begin")
  /\ UNCHANGED <<items, store, watch, current, client, made, retries>>

\* The snapshot of begin_next, update_progress or finish_current goes out.
Send(w) ==
  /\ worker[w].pc \in {"begun", "finished"}
  /\ watch' = worker[w].view
  /\ Task(w, IF worker[w].pc = "begun" THEN "work" ELSE "begin")
  /\ UNCHANGED <<items, store, current, running, client, made, retries>>

\* update_progress does not save; the last phase reports success already.
Progress(w) ==
  /\ worker[w].pc = "work"
  /\ Listed(current.id) /\ StateOf(current.id) \in Active
  /\ items' = items \/ items' = With(current.id, "succeeded")
  /\ TaskPublishes(w, "begun")
  /\ UNCHANGED <<store, watch, current, running, client, made, retries>>

Installed == ~Listed(current.id) \/ StateOf(current.id) = "succeeded"

\* Before the guest reports success, anything may end the installation; then
\* only the operation history can still fail it.
Outcomes == IF ~Installed THEN {"failed", "cancelled"}
            ELSE {"succeeded"} \cup (IF May("history") THEN {"failed"} ELSE {})

\* Mutant: a finished installation can still be cancelled.
FinishKeepsCurrent(w) ==
  /\ worker[w].pc = "work"
  /\ \E outcome \in Outcomes : items' = With(current.id, outcome)
  /\ Save
  /\ TaskPublishes(w, "finished")
  /\ UNCHANGED <<watch, current, running, client, made, retries>>

Finish(w) ==
  /\ worker[w].pc = "work"
  /\ \E outcome \in Outcomes : items' = With(current.id, outcome)
  /\ current' = NoInstall
  /\ Save
  /\ TaskPublishes(w, "finished")
  /\ UNCHANGED <<watch, running, client, made, retries>>

-----------------------------------------------------------------------------
\* Mutant: everything the file lists is queued again.
RestoredAll(seq) == [i \in DOMAIN seq |-> [seq[i] EXCEPT !.state = "queued"]]

\* The application is killed and started again: restore queues what was
\* interrupted and saves; only if that works it publishes and wakes a worker.
Restored(seq) ==
  [i \in DOMAIN seq |-> [seq[i] EXCEPT !.state = IF @ \in Terminal THEN @ ELSE "queued"]]

Restart ==
  /\ May("crash")
  /\ items' = Restored(store)
  /\ current' = NoInstall
  /\ client' = [c \in Clients |-> NoCall]
  /\ \/ /\ store' = items' /\ watch' = Shot(items') /\ running' = TRUE
        /\ \E w \in Workers :
             worker' = [v \in Workers |-> IF v = w THEN [NoTask EXCEPT !.pc = "begin"] ELSE NoTask]
     \/ /\ May("disk") /\ UNCHANGED store /\ watch' = <<>> /\ running' = FALSE
        /\ worker' = [w \in Workers |-> NoTask]
  /\ UNCHANGED <<made, retries>>

Command(c) ==
  \/ \E version \in Versions, retry, waits \in BOOLEAN : Enqueue(c, version, retry, waits)
  \/ \E id \in Ids : Cancel(c, id) \/ Retry(c, id) \/ Remove(c, id)
  \/ \E i, j \in DOMAIN items : Move(c, i, j)
  \/ CancelRunning(c)

Go(c) == List(c) \/ Publish(c) \/ Ensure(c) \/ Return(c)

Work(w) == Begin(w) \/ Nothing(w) \/ Idle(w) \/ Recheck(w) \/ Claim(w) \/ Send(w) \/ Progress(w) \/ Finish(w)

Next == \/ \E c \in Clients : Command(c) \/ Go(c)
        \/ \E w \in Workers : Work(w)
        \/ Restart

Spec == Init /\ [][Next]_vars

\* Commands that were called and spawned tasks are run, and an installation
\* ends, however often it reports progress; nothing is asked of the user.
FairSpec ==
  /\ Spec
  /\ \A c \in Clients : WF_vars(Go(c))
  /\ \A w \in Workers : WF_vars(Work(w)) /\ SF_vars(Finish(w))

-----------------------------------------------------------------------------
(* Properties.                                                             *)

Item == [id : Ids, version : Versions, state : {"queued"} \cup Active \cup Terminal]

\* A list of items as the program can hold one.
Lists == {seq \in Seq(Item) : Len(seq) <= Limit}
TaskSteps == {"none", "begin", "begun", "work", "finished", "nothing", "recheck", "claim"}
CallSteps == {"idle", "list", "publish", "ensure", "wait"}

\* Every variable has its type, and no list or snapshot exceeds the limit.
TypeOK ==
  /\ items \in Lists /\ store \in Lists /\ watch \in Lists
  /\ current \in [id : Ids \cup {0}, cancelled : BOOLEAN]
  /\ running \in BOOLEAN
  /\ worker \in [Workers -> [pc : TaskSteps, view : Lists]]
  /\ client \in [Clients -> [pc : CallSteps, id : Ids \cup {0}, view : Lists, wakes : BOOLEAN]]
  /\ made \in 0..MaxItems /\ retries \in 0..MaxRetries

Installing == {w \in Workers : worker[w].pc \in {"begun", "work"}}

\* One task installs at a time: the flag is handed over between commands and
\* tasks without an overlap.
OneInstall == \A v, w \in Installing : v = w

\* The installation that can be cancelled is the one in progress, and nothing
\* else is shown as being installed.
CurrentIsInstalling ==
  /\ (Installing = {}) <=> (current = NoInstall)
  /\ \A i \in DOMAIN items : items[i].state \in Active => items[i].id = current.id

\* Work is never stranded: with something queued, a task runs or is about to,
\* or a command is on its way to wake one.
NoLostWakeup ==
  Queued # {} => \/ \E w \in Workers : worker[w].pc # "none"
                 \/ \E c \in Clients : client[c].pc = "ensure" \/ client[c].wakes

\* A kill loses nothing the queue accepted and no outcome: the store restarts
\* as the queue in memory would, but for a success not yet recorded.
RestartLosesNothing ==
  /\ Len(store) = Len(items)
  /\ \A i \in DOMAIN items :
       /\ store[i].id = items[i].id /\ store[i].version = items[i].version
       /\ \/ Restored(store)[i] = Restored(items)[i]
          \/ items[i].id = current.id /\ items[i].state = "succeeded"

\* What the queue accepted stays in it, in memory and in the store, and is on its way.
NothingGetsLost == NoLostWakeup /\ RestartLosesNothing

\* A saved outcome is final through failing saves and restarts: without a
\* retry a failed or cancelled item stays what it is, and a success always
\* does (while the operation history can be written: see "history").
OutcomeIsFinal ==
  [][\A i \in DOMAIN store, j \in DOMAIN store' :
       store[i].id = store'[j].id /\ store[i].state \in Terminal =>
         \/ store'[j].state = store[i].state
         \/ store[i].state # "succeeded" /\ retries' > 0]_vars

\* Everything that is queued is taken up in the end, or cancelled.
QueueMovesOn ==
  \A id \in Ids : (Listed(id) /\ StateOf(id) = "queued") ~> ~(Listed(id) /\ StateOf(id) = "queued")

\* Whoever waits for an item learns that it has ended.
WaitEnds ==
  \A c \in Clients : client[c].pc = "wait" ~> client[c].pc # "wait"
=============================================================================

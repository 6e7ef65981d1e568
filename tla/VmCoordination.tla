--------------------------- MODULE VmCoordination ---------------------------
(***************************************************************************)
(* The advisory locks through which every Mendimaru process of one user    *)
(* shares a WinBoat VM (winboat/vm_use.rs, winboat/maintenance.rs,         *)
(* winboat/runtime/stop_lock.rs).                                          *)
(*                                                                         *)
(* A command is a job: the sequence of lock requests its call chain makes  *)
(* before its work may start.  All locks are kernel flocks, so a grant is  *)
(* one atomic test of the descriptors that are open on the file, and the   *)
(* kernel closes every descriptor of a process that returns, fails, is     *)
(* cancelled or is killed.  Two kinds of request exist: `try' fails at     *)
(* once when the file is busy, `poll' tries again until its deadline.      *)
(***************************************************************************)
EXTENDS Naturals, Sequences

CONSTANTS Procs,     \* processes (or spawned tasks) of the current version
          OldProcs,  \* processes of a version that knows the legacy files only
          VMs        \* management identities; ordered, as settings.rs sorts them

ASSUME ActorsAssumption == Procs \cap OldProcs = {}
ASSUME VMsAssumption == VMs \subseteq Nat

VARIABLES job,    \* job[a]: the command actor a is running, or NoJob
          pos,    \* pos[a]: how many requests of that command are granted
          locks   \* the locked descriptors of all actors

vars == <<job, pos, locks>>

Actors == Procs \cup OldProcs

-----------------------------------------------------------------------------
(* Lock files.  `use' is the VM use lease; `maint' and `stop' are the       *)
(* private coordination locks; `maintL' and `stopL' are the files older     *)
(* versions use inside the Compose directory, joined by current versions.   *)

Files == {"use", "maint", "maintL", "stop", "stopL"}

Request(f, v, m, w) == [file |-> f, vm |-> v, mode |-> m, wait |-> w]

\* Mutant: the requested mode is ignored.
UseAlwaysShared(v, m) == Request("use", v, "S", "poll")

\* vm_use::acquire: polled for at most three seconds.
Use(v, m) == Request("use", v, m, "poll")

\* Mutant: the maintenance lock is waited for.
MaintPolled(v, m) == Request("maint", v, m, "poll")

\* Mutant: the legacy file is locked shared by everyone.
MaintLShared(v, m) == Request("maintL", v, "S", "try")

\* maintenance::acquire: the private file, then the legacy one; no waiting.
Maint(v, m) == Request("maint", v, m, "try")
MaintL(v, m) == Request("maintL", v, m, "try")

\* maintenance::runtime_stop: both files in order, polled for at most an hour.
Stop(v) == Request("stop", v, "X", "poll")
StopL(v) == Request("stopL", v, "X", "poll")

CurrentOps == {"status", "upgrade", "start", "stop", "recovery", "launch",
               "settings", "probe", "probeStop"}
OldOps == {"oldOperation", "oldRecovery", "oldStop"}

(***************************************************************************)
(* What each call chain requests, in order:                                *)
(*  status    shared use, with a nested status call under the same lease;  *)
(*  upgrade   a lifecycle call made inside a shared scope;                 *)
(*  start     Runtime start and guest startup;                             *)
(*  stop      Runtime stop;                                                *)
(*  recovery  UEFI preview, recover and restore;                           *)
(*  launch    a tracked Studio launch: the tracker's maintenance guard,    *)
(*            the lease, the nested preparation and the nested Runtime     *)
(*            stop of a launch that has to be undone;                      *)
(*  settings  both VM identities in order, then both maintenance guards;   *)
(*  probe, probeStop  the environment diagnostics' lock preflights.        *)
(***************************************************************************)
Programs(v, w) ==
  [status       |-> <<Use(v, "S"), Use(v, "S")>>,
   upgrade      |-> <<Use(v, "S"), Use(v, "X")>>,
   start        |-> <<Use(v, "X"), Maint(v, "S"), MaintL(v, "S")>>,
   stop         |-> <<Use(v, "X"), Maint(v, "S"), MaintL(v, "S"), Stop(v), StopL(v)>>,
   recovery     |-> <<Use(v, "X"), Maint(v, "X"), MaintL(v, "X")>>,
   launch       |-> <<Maint(v, "S"), MaintL(v, "S"), Use(v, "X"), Use(v, "X"),
                      Maint(v, "S"), MaintL(v, "S"), Stop(v), StopL(v)>>,
   settings     |-> <<Use(v, "X"), Use(w, "X"), Maint(w, "S"), MaintL(w, "S"),
                      Maint(v, "S"), MaintL(v, "S")>>,
   probe        |-> <<Maint(v, "S"), MaintL(v, "S")>>,
   probeStop    |-> <<Request("stop", v, "X", "try"), Request("stopL", v, "X", "try")>>,
   oldOperation |-> <<MaintL(v, "S")>>,
   oldRecovery  |-> <<MaintL(v, "X")>>,
   oldStop      |-> <<StopL(v)>>]

\* A table, so that the rows are computed once.
ProgramTable == [v \in VMs |-> [w \in VMs |-> Programs(v, w)]]
Program(j) == ProgramTable[j.vm][j.vm2][j.op]

\* identities are sorted and deduplicated; only settings names a second VM.
Jobs(ops) == {j \in [op : ops, vm : VMs, vm2 : VMs] :
                 /\ j.vm <= j.vm2
                 /\ j.op # "settings" => j.vm = j.vm2}

NoJob == [op |-> "none", vm |-> 0, vm2 |-> 0]

JobsOf(a) == Jobs(IF a \in Procs THEN CurrentOps ELSE OldOps)

Busy(a) == job[a] # NoJob
Working(a) == Busy(a) /\ pos[a] = Len(Program(job[a]))
Waiting(a) == Busy(a) /\ pos[a] < Len(Program(job[a]))
NextRequest(a) == Program(job[a])[pos[a] + 1]

-----------------------------------------------------------------------------
(* flock.  A descriptor conflicts with any other descriptor of the file,    *)
(* the same process's included, unless both are shared.                     *)

Compatible(r) == \A l \in locks :
  l.file = r.file /\ l.vm = r.vm => l.mode = "S" /\ r.mode = "S"

Held(a) == {l \in locks : l.actor = a}

\* Mutant: the held list is visible to every task, not to one call chain.
ReusedByAnyone(a, r) == {l \in locks : r.file = "use" /\ l.file = "use" /\ l.vm = r.vm}

\* The lease a nested vm_use::acquire finds in the task-local HELD list.
Reused(a, r) == {l \in Held(a) : r.file = "use" /\ l.file = "use" /\ l.vm = r.vm}

Descriptor(a, r) == [actor |-> a, pos |-> pos[a] + 1, file |-> r.file,
                     vm |-> r.vm, mode |-> r.mode]

Init ==
  /\ job = [a \in Actors |-> NoJob]
  /\ pos = [a \in Actors |-> 0]
  /\ locks = {}

Begin(a) ==
  /\ ~Busy(a)
  /\ \E j \in JobsOf(a) : job' = [job EXCEPT ![a] = j]
  /\ pos' = [pos EXCEPT ![a] = 0]
  /\ UNCHANGED locks

\* A granted try-lock: the descriptor stays open until the job ends.
TryLock(a) ==
  /\ Waiting(a)
  /\ LET r == NextRequest(a) IN
       /\ Reused(a, r) = {}
       /\ Compatible(r)
       /\ locks' = locks \cup {Descriptor(a, r)}
  /\ pos' = [pos EXCEPT ![a] = @ + 1]
  /\ UNCHANGED job

\* Mutant: an exclusive scope is handed the shared lease of its caller.
ReuseUpgrading(a) ==
  /\ Waiting(a)
  /\ Reused(a, NextRequest(a)) # {}
  /\ pos' = [pos EXCEPT ![a] = @ + 1]
  /\ UNCHANGED <<job, locks>>

\* A nested acquire returns the lease its own call chain already holds.
Reuse(a) ==
  /\ Waiting(a)
  /\ LET r == NextRequest(a) IN
       \E l \in Reused(a, r) : l.mode = "X" \/ r.mode = "S"
  /\ pos' = [pos EXCEPT ![a] = @ + 1]
  /\ UNCHANGED <<job, locks>>

\* Mutant: an error return leaks the descriptors opened before the last one.
LeaveLeaking(a) ==
  /\ job' = [job EXCEPT ![a] = NoJob]
  /\ pos' = [pos EXCEPT ![a] = 0]
  /\ locks' = {l \in locks : l.actor = a => l.pos < pos[a]}

\* Returning from the job drops every descriptor it opened.
Leave(a) ==
  /\ job' = [job EXCEPT ![a] = NoJob]
  /\ pos' = [pos EXCEPT ![a] = 0]
  /\ locks' = locks \ Held(a)

\* A shared lease is never upgraded: the nested exclusive acquire fails.
RefuseUpgrade(a) ==
  /\ Waiting(a)
  /\ LET r == NextRequest(a) IN
       \E l \in Reused(a, r) : l.mode = "S" /\ r.mode = "X"
  /\ Leave(a)

\* Mutant: polling has no deadline.
RefuseBusyNoDeadline(a) ==
  /\ Waiting(a)
  /\ LET r == NextRequest(a) IN
       /\ r.wait = "try"
       /\ Reused(a, r) = {}
       /\ ~Compatible(r)
  /\ Leave(a)

\* An immediate try-lock on a busy file, or a poll whose deadline has passed.
RefuseBusy(a) ==
  /\ Waiting(a)
  /\ LET r == NextRequest(a) IN
       /\ Reused(a, r) = {}
       /\ ~Compatible(r)
  /\ Leave(a)

\* The work is done, or the command fails or is cancelled on the way to it.
Finish(a) == Working(a) /\ Leave(a)
Cancel(a) == Waiting(a) /\ pos[a] > 0 /\ Leave(a)

\* SIGKILL or power loss: the kernel closes the descriptors, nothing else runs.
Crash(a) == Busy(a) /\ Leave(a)

Step(a) == TryLock(a) \/ Reuse(a) \/ RefuseUpgrade(a) \/ RefuseBusy(a) \/ Finish(a)

Next == \E a \in Actors : Begin(a) \/ Step(a) \/ Cancel(a) \/ Crash(a)

(* Every poll has a deadline and every job does a bounded amount of work,   *)
(* so an actor that can go on eventually does.                              *)
Fairness == \A a \in Actors : WF_vars(Step(a))

Spec == Init /\ [][Next]_vars
FairSpec == Spec /\ Fairness

-----------------------------------------------------------------------------
LockType == [actor : Actors, pos : Nat, file : Files, vm : VMs, mode : {"S", "X"}]

TypeOK ==
  /\ job \in [Actors -> Jobs(CurrentOps \cup OldOps) \cup {NoJob}]
  /\ \A a \in Actors : Busy(a) => job[a] \in JobsOf(a)
  /\ pos \in [Actors -> Nat]
  /\ \A a \in Actors : pos[a] <= IF Busy(a) THEN Len(Program(job[a])) ELSE 0
  /\ locks \subseteq LockType

(* No descriptor outlives the job that opened it, and every open one is the *)
(* lock that a granted request of that job asked for (vm_use.rs keeps the   *)
(* file in the lease, maintenance.rs in Lease::_files, until both drop).    *)
DescriptorsMatch ==
  \A l \in locks :
    /\ Busy(l.actor)
    /\ l.pos \in 1..pos[l.actor]
    /\ LET r == Program(job[l.actor])[l.pos] IN
         l.file = r.file /\ l.vm = r.vm /\ l.mode = r.mode

(* The other direction: a job that was granted a request still holds a lock *)
(* at least as strong, through every nested call and until it returns.      *)
GrantsHeld ==
  \A a \in Actors : \A i \in 1..pos[a] :
    LET r == Program(job[a])[i] IN
      \E l \in locks : /\ l.actor = a /\ l.file = r.file /\ l.vm = r.vm
                       /\ l.mode = r.mode \/ l.mode = "X"

(* Both directions: the open descriptors are those of the granted requests. *)
LocksMatch == DescriptorsMatch /\ GrantsHeld

OnVm(a, v) == Busy(a) /\ v \in {job[a].vm, job[a].vm2}

(* While UEFI recovery works on a VM (it stops the container and replaces   *)
(* its firmware variables) nobody else works on that VM: no command of any  *)
(* current process, no operation of an older version, and no tracked launch *)
(* that is between its tracker's guard and the lease (nvram.rs takes the    *)
(* maintenance locks exclusively, everyone else takes them shared, in       *)
(* either order relative to the VM lease).  What may overlap holds no       *)
(* maintenance lock in the code: an older Runtime stop and a stop-lock      *)
(* probe, and shared use next to an older version's recovery, which knows   *)
(* no VM lease.                                                             *)
RecoveryAlone ==
  \A a, b \in Actors :
    /\ a # b
    /\ Working(a) /\ job[a].op \in {"recovery", "oldRecovery"}
    /\ OnVm(b, job[a].vm)
    => /\ Working(b) => \/ job[b].op \in {"oldStop", "probeStop"}
                        \/ job[a].op = "oldRecovery" /\ job[b].op \in {"status", "upgrade"}
       /\ job[b].op = "launch" => pos[b] < 2

(* A change of the VM (a start, a stop, a launch, a settings save) never    *)
(* works next to another change or next to a shared use of the same VM.     *)
Exclusive(a) == job[a].op \in {"start", "stop", "launch", "settings", "recovery"}
LifecycleAlone ==
  \A a, b \in Procs :
    /\ a # b /\ Working(a) /\ Working(b) /\ Exclusive(a)
    /\ job[b].op \notin {"probe", "probeStop"}
    => {job[a].vm, job[a].vm2} \cap {job[b].vm, job[b].vm2} = {}

(* What may work beside what, whichever lock either command takes first.    *)
WorksAlone == RecoveryAlone /\ LifecycleAlone

(* A Runtime stop waits for the private stop lock while it holds the VM     *)
(* lease, for up to an hour.  It never waits for another stop of a current  *)
(* version there: those queue for the lease, where the wait is three        *)
(* seconds.  Only a diagnostics probe can be in its way.                    *)
StopLockFree ==
  \A a \in Procs : Waiting(a) =>
    LET r == NextRequest(a) IN
      r.file = "stop" /\ r.wait = "poll" =>
        \A l \in locks : l.file = "stop" /\ l.vm = r.vm => job[l.actor].op = "probeStop"

(* Who a polling actor is waiting for.                                      *)
Blocks(b, a) ==
  /\ Waiting(a) /\ NextRequest(a).wait = "poll"
  /\ LET r == NextRequest(a) IN
       /\ Reused(a, r) = {}
       /\ \E l \in Held(b) : l.file = r.file /\ l.vm = r.vm /\ ~(l.mode = "S" /\ r.mode = "S")

(* No circular wait, although a tracked launch takes maintenance before the *)
(* VM lease and recovery takes it after: an actor that blocks a poll is     *)
(* never blocked, through at most one other actor, by the poller.           *)
NoWaitCycle ==
  \A a, b \in Actors :
    Blocks(b, a) => ~Blocks(a, b) /\ \A c \in Actors : ~(Blocks(c, b) /\ Blocks(a, c))

(* No command waits for one that waits for it, and a stop never spends its  *)
(* hour at the stop lock behind another stop.                               *)
WaitsAreBounded == NoWaitCycle /\ StopLockFree

(* Every command comes to an end, whatever the other actors do: readers may *)
(* keep a writer out for ever, but the writer's wait is bounded.            *)
EveryJobEnds == \A a \in Actors : Busy(a) ~> ~Busy(a)
=============================================================================

------------------------ MODULE VmCoordination_proofs ------------------------
(***************************************************************************)
(* Proofs about the coordination locks, for any number of processes of     *)
(* either version and any set of VMs.  The inductive invariant says that   *)
(* the open descriptors are exactly the granted requests of the running    *)
(* jobs (DescriptorsMatch, GrantsHeld) and that no two of them conflict    *)
(* (NoConflict); the exclusion properties then follow from what the        *)
(* programs request.  Nobody waits in a circle because every wait is for   *)
(* something above all that the waiting command holds (ProgramsClimb).     *)
(***************************************************************************)
EXTENDS VmCoordination, TLAPS

AllOps == CurrentOps \cup OldOps

RequestType == [file : Files, vm : VMs, mode : {"S", "X"}, wait : {"try", "poll"}]

\* flock never grants two descriptors of one file unless both are shared.
NoConflict ==
  \A l, k \in locks :
    l.file = k.file /\ l.vm = k.vm /\ l # k => l.mode = "S" /\ k.mode = "S"

IndInv == TypeOK /\ DescriptorsMatch /\ GrantsHeld /\ NoConflict

-----------------------------------------------------------------------------
(* What the proofs need to know of the programs, and no more.              *)

\* The table holds the row of every job.
LEMMA ProgramRow ==
  ASSUME NEW j \in Jobs(AllOps)
  PROVE  Program(j) = Programs(j.vm, j.vm2)[j.op]
<1>1. j.vm \in VMs /\ j.vm2 \in VMs
  BY DEF Jobs
<1> QED
  BY <1>1 DEF Program, ProgramTable

\* Every program is a non-empty sequence of lock requests.
LEMMA ProgramType ==
  ASSUME NEW j \in Jobs(AllOps)
  PROVE  /\ Program(j) \in Seq(RequestType)
         /\ Len(Program(j)) > 0
<1> DEFINE v == j.vm
           w == j.vm2
<1>1. v \in VMs /\ w \in VMs /\ j.op \in AllOps
  BY DEF Jobs
<1> HIDE DEF v, w
<1>2. Program(j) = Programs(v, w)[j.op]
  BY ProgramRow DEF v, w
<1>3. \A f \in Files, x \in VMs, m \in {"S", "X"}, t \in {"try", "poll"} :
        Request(f, x, m, t) \in RequestType
  BY DEF Request, RequestType
<1>4. \A x \in VMs, m \in {"S", "X"} :
        /\ Use(x, m) \in RequestType /\ Maint(x, m) \in RequestType
        /\ MaintL(x, m) \in RequestType /\ Stop(x) \in RequestType
        /\ StopL(x) \in RequestType
  BY <1>3 DEF Use, Maint, MaintL, Stop, StopL, Files
<1>5. CASE j.op = "status"
  BY <1>1, <1>2, <1>4, <1>5 DEF Programs
<1>6. CASE j.op = "upgrade"
  BY <1>1, <1>2, <1>4, <1>6 DEF Programs
<1>7. CASE j.op = "start"
  BY <1>1, <1>2, <1>4, <1>7 DEF Programs
<1>8. CASE j.op = "stop"
  BY <1>1, <1>2, <1>4, <1>8 DEF Programs
<1>9. CASE j.op = "recovery"
  BY <1>1, <1>2, <1>4, <1>9 DEF Programs
<1>10. CASE j.op = "launch"
  BY <1>1, <1>2, <1>4, <1>10 DEF Programs
<1>11. CASE j.op = "settings"
  BY <1>1, <1>2, <1>4, <1>11 DEF Programs
<1>12. CASE j.op = "probe"
  BY <1>1, <1>2, <1>4, <1>12 DEF Programs
<1>13. CASE j.op = "probeStop"
  BY <1>1, <1>2, <1>3, <1>13 DEF Programs, Files
<1>14. CASE j.op = "oldOperation"
  BY <1>1, <1>2, <1>4, <1>14 DEF Programs
<1>15. CASE j.op = "oldRecovery"
  BY <1>1, <1>2, <1>4, <1>15 DEF Programs
<1>16. CASE j.op = "oldStop"
  BY <1>1, <1>2, <1>4, <1>16 DEF Programs
<1> QED
  BY <1>1, <1>5, <1>6, <1>7, <1>8, <1>9, <1>10, <1>11, <1>12, <1>13, <1>14, <1>15, <1>16
     DEF AllOps, CurrentOps, OldOps

\* An actor's job is one of the jobs of its version, and NoJob is none of them.
LEMMA JobsType ==
  /\ \A a \in Actors : JobsOf(a) \subseteq Jobs(AllOps)
  /\ NoJob \notin Jobs(AllOps)
<1>1. \A a \in Actors : JobsOf(a) \subseteq Jobs(AllOps)
  BY DEF JobsOf, Jobs, AllOps
<1>2. NoJob \notin Jobs(AllOps)
  BY DEF NoJob, Jobs, AllOps, CurrentOps, OldOps
<1> QED
  BY <1>1, <1>2

\* The request an actor waits for is a request.
LEMMA NextRequestType ==
  ASSUME TypeOK, NEW a \in Actors, Waiting(a)
  PROVE  /\ job[a] \in Jobs(AllOps)
         /\ Program(job[a]) \in Seq(RequestType)
         /\ pos[a] \in Nat /\ pos[a] + 1 \in 1..Len(Program(job[a]))
         /\ NextRequest(a) \in RequestType
<1>1. job[a] \in Jobs(AllOps)
  BY JobsType DEF TypeOK, Waiting
<1>2. Program(job[a]) \in Seq(RequestType)
  BY <1>1, ProgramType
<1>3. pos[a] \in Nat /\ pos[a] < Len(Program(job[a]))
  BY DEF TypeOK, Waiting
<1> QED
  BY <1>1, <1>2, <1>3 DEF NextRequest

-----------------------------------------------------------------------------
(* The inductive invariant.                                                *)

LEMMA InitInd == Init => IndInv
  BY DEF Init, IndInv, TypeOK, DescriptorsMatch, GrantsHeld, NoConflict, Busy

\* Leaving removes exactly the actor's descriptors.
LEMMA LeaveInd ==
  ASSUME IndInv, NEW a \in Actors, Leave(a)
  PROVE  IndInv'
<1> USE DEF IndInv
<1>1. /\ job' \in [Actors -> Jobs(CurrentOps \cup OldOps) \cup {NoJob}]
      /\ pos' \in [Actors -> Nat]
      /\ job'[a] = NoJob /\ pos'[a] = 0
      /\ \A b \in Actors : b # a => job'[b] = job[b] /\ pos'[b] = pos[b]
      /\ \A l \in locks' : l \in locks /\ l.actor # a /\ l.actor \in Actors
      /\ \A l \in locks : l.actor # a => l \in locks'
  BY DEF Leave, TypeOK, Held, LockType
<1>2. TypeOK'
  <2>1. \A b \in Actors : Busy(b)' => b # a /\ Busy(b)
    BY <1>1 DEF Busy
  <2>2. \A b \in Actors : Busy(b)' => job'[b] \in JobsOf(b)
    BY <2>1, <1>1 DEF TypeOK
  <2>3. \A b \in Actors : b # a => (Busy(b)' <=> Busy(b))
    BY <1>1 DEF Busy
  <2>4. ASSUME NEW b \in Actors
        PROVE  pos'[b] <= IF Busy(b)' THEN Len(Program(job'[b])) ELSE 0
    <3>1. CASE b = a
      BY <3>1, <2>1, <1>1
    <3>2. CASE b # a
      BY <3>2, <2>3, <1>1 DEF TypeOK
    <3> QED
      BY <3>1, <3>2
  <2>5. locks' \subseteq LockType
    BY <1>1 DEF TypeOK
  <2> QED
    BY <1>1, <2>2, <2>4, <2>5 DEF TypeOK
<1>3. DescriptorsMatch'
  BY <1>1 DEF DescriptorsMatch, Busy
<1>4. GrantsHeld'
  BY <1>1 DEF GrantsHeld
<1>5. NoConflict'
  BY <1>1 DEF NoConflict
<1> QED
  BY <1>2, <1>3, <1>4, <1>5

LEMMA TryLockInd ==
  ASSUME IndInv, NEW a \in Actors, TryLock(a)
  PROVE  IndInv'
<1> DEFINE r == NextRequest(a)
           d == Descriptor(a, r)
<1> USE DEF IndInv
<1>1. /\ job[a] \in Jobs(AllOps) /\ Busy(a)
      /\ pos[a] \in Nat /\ pos[a] + 1 \in 1..Len(Program(job[a]))
      /\ r \in RequestType /\ r = Program(job[a])[pos[a] + 1]
  BY NextRequestType DEF TryLock, Waiting, NextRequest
<1>2. /\ job' = job /\ locks' = locks \cup {d}
      /\ pos' = [pos EXCEPT ![a] = pos[a] + 1]
      /\ Compatible(r)
  BY DEF TryLock
<1> HIDE DEF r
<1>3. /\ d \in LockType /\ d.actor = a /\ d.pos = pos[a] + 1
      /\ d.file = r.file /\ d.vm = r.vm /\ d.mode = r.mode
  BY <1>1 DEF Descriptor, LockType, RequestType
<1> HIDE DEF d
<1>4. /\ pos \in [Actors -> Nat] /\ pos' \in [Actors -> Nat]
      /\ pos'[a] = pos[a] + 1
      /\ \A b \in Actors : b # a => pos'[b] = pos[b]
  BY <1>1, <1>2 DEF TypeOK
<1>5. TypeOK'
  <2>1. \A b \in Actors : Busy(b)' <=> Busy(b)
    BY <1>2 DEF Busy
  <2>2. pos[a] + 1 <= Len(Program(job[a]))
    BY <1>1, ProgramType
  <2>3. ASSUME NEW b \in Actors
        PROVE  pos'[b] <= IF Busy(b)' THEN Len(Program(job'[b])) ELSE 0
    <3>1. CASE b = a
      BY <3>1, <2>1, <2>2, <1>1, <1>2, <1>4
    <3>2. CASE b # a
      BY <3>2, <2>1, <1>2, <1>4 DEF TypeOK
    <3> QED
      BY <3>1, <3>2
  <2>4. locks' \subseteq LockType
    BY <1>2, <1>3 DEF TypeOK
  <2> QED
    BY <1>2, <1>4, <2>1, <2>3, <2>4 DEF TypeOK
<1>6. DescriptorsMatch'
  <2> SUFFICES ASSUME NEW l \in locks'
               PROVE  /\ Busy(l.actor)
                      /\ l.pos \in 1..pos'[l.actor]
                      /\ l.file = Program(job[l.actor])[l.pos].file
                      /\ l.vm = Program(job[l.actor])[l.pos].vm
                      /\ l.mode = Program(job[l.actor])[l.pos].mode
    BY <1>2 DEF DescriptorsMatch, Busy
  <2>1. CASE l = d
    BY <2>1, <1>1, <1>3, <1>4
  <2>2. CASE l \in locks
    <3>1. l.actor \in Actors /\ pos'[l.actor] >= pos[l.actor]
          /\ pos[l.actor] \in Nat /\ pos'[l.actor] \in Nat
      BY <2>2, <1>4 DEF TypeOK, LockType
    <3> QED
      BY <2>2, <3>1 DEF DescriptorsMatch
  <2> QED
    BY <1>2, <2>1, <2>2
<1>7. GrantsHeld'
  <2> SUFFICES ASSUME NEW b \in Actors, NEW i \in 1..pos'[b]
               PROVE  \E l \in locks' :
                        /\ l.actor = b /\ l.file = Program(job[b])[i].file
                        /\ l.vm = Program(job[b])[i].vm
                        /\ l.mode = Program(job[b])[i].mode \/ l.mode = "X"
    BY <1>2 DEF GrantsHeld
  <2>1. CASE b = a /\ i = pos[a] + 1
    BY <2>1, <1>1, <1>2, <1>3
  <2>2. CASE i \in 1..pos[b]
    BY <2>2, <1>2 DEF GrantsHeld
  <2> QED
    BY <2>1, <2>2, <1>4
<1>8. NoConflict'
  BY <1>2, <1>3 DEF NoConflict, Compatible
<1> QED
  BY <1>5, <1>6, <1>7, <1>8

LEMMA ReuseInd ==
  ASSUME IndInv, NEW a \in Actors, Reuse(a)
  PROVE  IndInv'
<1> DEFINE r == NextRequest(a)
<1> USE DEF IndInv
<1>1. /\ job[a] \in Jobs(AllOps) /\ Busy(a)
      /\ pos[a] \in Nat /\ pos[a] + 1 \in 1..Len(Program(job[a]))
      /\ r \in RequestType /\ r = Program(job[a])[pos[a] + 1]
  BY NextRequestType DEF Reuse, Waiting, NextRequest
<1>2. /\ job' = job /\ locks' = locks
      /\ pos' = [pos EXCEPT ![a] = pos[a] + 1]
  BY DEF Reuse
<1>3. PICK k \in locks : /\ k.actor = a /\ k.file = r.file /\ k.vm = r.vm
                         /\ k.mode = "X" \/ r.mode = "S"
  BY DEF Reuse, Reused, Held
<1> HIDE DEF r
<1>4. k.mode = r.mode \/ k.mode = "X"
  BY <1>1, <1>3 DEF TypeOK, LockType, RequestType
<1>5. /\ pos \in [Actors -> Nat] /\ pos' \in [Actors -> Nat]
      /\ pos'[a] = pos[a] + 1
      /\ \A b \in Actors : b # a => pos'[b] = pos[b]
  BY <1>1, <1>2 DEF TypeOK
<1>6. TypeOK'
  <2>1. \A b \in Actors : Busy(b)' <=> Busy(b)
    BY <1>2 DEF Busy
  <2>2. pos[a] + 1 <= Len(Program(job[a]))
    BY <1>1, ProgramType
  <2>3. ASSUME NEW b \in Actors
        PROVE  pos'[b] <= IF Busy(b)' THEN Len(Program(job'[b])) ELSE 0
    <3>1. CASE b = a
      BY <3>1, <2>1, <2>2, <1>1, <1>2, <1>5
    <3>2. CASE b # a
      BY <3>2, <2>1, <1>2, <1>5 DEF TypeOK
    <3> QED
      BY <3>1, <3>2
  <2>4. locks' \subseteq LockType
    BY <1>2 DEF TypeOK
  <2> QED
    BY <1>2, <1>5, <2>1, <2>3, <2>4 DEF TypeOK
<1>7. DescriptorsMatch'
  <2> SUFFICES ASSUME NEW l \in locks
               PROVE  l.pos \in 1..pos[l.actor] => l.pos \in 1..pos'[l.actor]
    BY <1>2 DEF DescriptorsMatch, Busy
  <2>1. l.actor \in Actors
    BY DEF TypeOK, LockType
  <2> QED
    BY <2>1, <1>5
<1>8. GrantsHeld'
  <2> SUFFICES ASSUME NEW b \in Actors, NEW i \in 1..pos'[b]
               PROVE  \E l \in locks :
                        /\ l.actor = b /\ l.file = Program(job[b])[i].file
                        /\ l.vm = Program(job[b])[i].vm
                        /\ l.mode = Program(job[b])[i].mode \/ l.mode = "X"
    BY <1>2 DEF GrantsHeld
  <2>1. CASE b = a /\ i = pos[a] + 1
    BY <2>1, <1>1, <1>3, <1>4
  <2>2. CASE i \in 1..pos[b]
    BY <2>2 DEF GrantsHeld
  <2> QED
    BY <2>1, <2>2, <1>5
<1>9. NoConflict'
  BY <1>2 DEF NoConflict
<1> QED
  BY <1>6, <1>7, <1>8, <1>9

LEMMA BeginInd ==
  ASSUME IndInv, NEW a \in Actors, Begin(a)
  PROVE  IndInv'
<1> USE DEF IndInv
<1>1. PICK j \in JobsOf(a) : job' = [job EXCEPT ![a] = j]
  BY DEF Begin
<1>2. /\ j \in Jobs(AllOps) /\ j # NoJob /\ Len(Program(j)) \in Nat
  BY <1>1, JobsType, ProgramType
<1>3. /\ job[a] = NoJob /\ pos[a] = 0 /\ pos' = pos /\ locks' = locks
  BY DEF Begin, Busy, TypeOK
<1>4. /\ job' \in [Actors -> Jobs(CurrentOps \cup OldOps) \cup {NoJob}]
      /\ job'[a] = j
      /\ \A b \in Actors : b # a => job'[b] = job[b]
  BY <1>1, <1>2 DEF TypeOK, AllOps
<1>5. TypeOK'
  <2>1. \A b \in Actors : b # a => (Busy(b)' <=> Busy(b))
    BY <1>4 DEF Busy
  <2>2. \A b \in Actors : Busy(b)' => job'[b] \in JobsOf(b)
    BY <2>1, <1>1, <1>4 DEF TypeOK
  <2>3. ASSUME NEW b \in Actors
        PROVE  pos'[b] <= IF Busy(b)' THEN Len(Program(job'[b])) ELSE 0
    <3>1. CASE b = a
      BY <3>1, <1>2, <1>3, <1>4 DEF Busy
    <3>2. CASE b # a
      BY <3>2, <2>1, <1>3, <1>4 DEF TypeOK
    <3> QED
      BY <3>1, <3>2
  <2> QED
    BY <1>3, <1>4, <2>2, <2>3 DEF TypeOK
<1>6. \A l \in locks : l.actor \in Actors /\ l.actor # a
  BY <1>3 DEF DescriptorsMatch, Busy, TypeOK, LockType
<1>7. DescriptorsMatch'
  BY <1>3, <1>4, <1>6 DEF DescriptorsMatch, Busy
<1>8. GrantsHeld'
  <2>1. \A b \in Actors : \A i \in 1..pos'[b] : b # a
    BY <1>3
  <2> QED
    BY <2>1, <1>3, <1>4 DEF GrantsHeld
<1>9. NoConflict'
  BY <1>3 DEF NoConflict
<1> QED
  BY <1>5, <1>7, <1>8, <1>9

LEMMA StepInd == IndInv /\ [Next]_vars => IndInv'
<1> SUFFICES ASSUME IndInv, [Next]_vars
             PROVE  IndInv'
  OBVIOUS
<1>1. CASE UNCHANGED vars
  <2>1. job' = job /\ pos' = pos /\ locks' = locks
    BY <1>1 DEF vars
  <2>2. \A a \in Actors : Busy(a)' <=> Busy(a)
    BY <2>1 DEF Busy
  <2>3. TypeOK'
    BY <2>1, <2>2 DEF TypeOK, IndInv
  <2>4. DescriptorsMatch'
    BY <2>1 DEF DescriptorsMatch, IndInv, Busy
  <2>5. GrantsHeld' /\ NoConflict'
    BY <2>1 DEF GrantsHeld, NoConflict, IndInv
  <2> QED
    BY <2>3, <2>4, <2>5 DEF IndInv
<1>2. CASE Next
  <2>1. PICK a \in Actors : Begin(a) \/ Step(a) \/ Cancel(a) \/ Crash(a)
    BY <1>2 DEF Next
  <2>2. CASE Begin(a)
    BY <2>2, BeginInd
  <2>3. CASE TryLock(a)
    BY <2>3, TryLockInd
  <2>4. CASE Reuse(a)
    BY <2>4, ReuseInd
  <2>5. CASE RefuseUpgrade(a) \/ RefuseBusy(a) \/ Finish(a) \/ Cancel(a) \/ Crash(a)
    BY <2>5, LeaveInd DEF RefuseUpgrade, RefuseBusy, Finish, Cancel, Crash
  <2> QED
    BY <2>1, <2>2, <2>3, <2>4, <2>5 DEF Step
<1> QED
  BY <1>1, <1>2

(* The open descriptors are exactly the granted requests of the running    *)
(* jobs and never conflict: no error path of vm_use.rs or maintenance.rs   *)
(* leaks a lock, and none drops one that a caller still relies on.         *)
THEOREM LocksMatchJobs == Spec => [](TypeOK /\ LocksMatch)
<1>1. IndInv => TypeOK /\ LocksMatch
  BY DEF IndInv, LocksMatch
<1> QED
  BY InitInd, StepInd, <1>1, PTL DEF Spec

-----------------------------------------------------------------------------
(* What the programs request, and the exclusion that follows.              *)

MaintOps == {"start", "stop", "recovery", "launch", "settings", "probe",
             "oldOperation", "oldRecovery"}
UseOps == CurrentOps \ {"probe", "probeStop"}

\* Program(j)[i] asks for the given file of VM x.
Asks(j, i, f, x) == /\ i \in 1..Len(Program(j))
                    /\ Program(j)[i].file = f /\ Program(j)[i].vm = x

\* Only a settings job names two VMs.
LEMMA JobVMs ==
  ASSUME NEW j \in Jobs(AllOps)
  PROVE  /\ j.op \in AllOps /\ j.vm \in VMs /\ j.vm2 \in VMs
         /\ Program(j) = Programs(j.vm, j.vm2)[j.op]
         /\ j.op # "settings" => j.vm = j.vm2
  BY ProgramRow DEF Jobs

\* The program of each job.
LEMMA ProgramIs ==
  ASSUME NEW j \in Jobs(AllOps)
  PROVE
    /\ j.op = "status" =>
         Program(j) = <<Use(j.vm, "S"), Use(j.vm, "S")>>
    /\ j.op = "upgrade" =>
         Program(j) = <<Use(j.vm, "S"), Use(j.vm, "X")>>
    /\ j.op = "start" =>
         Program(j) = <<Use(j.vm, "X"), Maint(j.vm, "S"), MaintL(j.vm, "S")>>
    /\ j.op = "stop" =>
         Program(j) = <<Use(j.vm, "X"), Maint(j.vm, "S"), MaintL(j.vm, "S"), Stop(j.vm), StopL(j.vm)>>
    /\ j.op = "recovery" =>
         Program(j) = <<Use(j.vm, "X"), Maint(j.vm, "X"), MaintL(j.vm, "X")>>
    /\ j.op = "launch" =>
         Program(j) = <<Maint(j.vm, "S"), MaintL(j.vm, "S"), Use(j.vm, "X"), Use(j.vm, "X"),
             Maint(j.vm, "S"), MaintL(j.vm, "S"), Stop(j.vm), StopL(j.vm)>>
    /\ j.op = "settings" =>
         Program(j) = <<Use(j.vm, "X"), Use(j.vm2, "X"), Maint(j.vm2, "S"), MaintL(j.vm2, "S"),
             Maint(j.vm, "S"), MaintL(j.vm, "S")>>
    /\ j.op = "probe" =>
         Program(j) = <<Maint(j.vm, "S"), MaintL(j.vm, "S")>>
    /\ j.op = "probeStop" =>
         Program(j) = <<Request("stop", j.vm, "X", "try"), Request("stopL", j.vm, "X", "try")>>
    /\ j.op = "oldOperation" =>
         Program(j) = <<MaintL(j.vm, "S")>>
    /\ j.op = "oldRecovery" =>
         Program(j) = <<MaintL(j.vm, "X")>>
    /\ j.op = "oldStop" =>
         Program(j) = <<StopL(j.vm)>>
<1>0. Program(j) = Programs(j.vm, j.vm2)[j.op]
  BY ProgramRow
<1>1. j.op = "status" => Program(j) = <<Use(j.vm, "S"), Use(j.vm, "S")>>
  BY <1>0 DEF Programs
<1>2. j.op = "upgrade" => Program(j) = <<Use(j.vm, "S"), Use(j.vm, "X")>>
  BY <1>0 DEF Programs
<1>3. j.op = "start" => Program(j) = <<Use(j.vm, "X"), Maint(j.vm, "S"), MaintL(j.vm, "S")>>
  BY <1>0 DEF Programs
<1>4. j.op = "stop" => Program(j) = <<Use(j.vm, "X"), Maint(j.vm, "S"), MaintL(j.vm, "S"), Stop(j.vm), StopL(j.vm)>>
  BY <1>0 DEF Programs
<1>5. j.op = "recovery" => Program(j) = <<Use(j.vm, "X"), Maint(j.vm, "X"), MaintL(j.vm, "X")>>
  BY <1>0 DEF Programs
<1>6. j.op = "launch" => Program(j) = <<Maint(j.vm, "S"), MaintL(j.vm, "S"), Use(j.vm, "X"), Use(j.vm, "X"),
             Maint(j.vm, "S"), MaintL(j.vm, "S"), Stop(j.vm), StopL(j.vm)>>
  BY <1>0 DEF Programs
<1>7. j.op = "settings" => Program(j) = <<Use(j.vm, "X"), Use(j.vm2, "X"), Maint(j.vm2, "S"), MaintL(j.vm2, "S"),
             Maint(j.vm, "S"), MaintL(j.vm, "S")>>
  BY <1>0 DEF Programs
<1>8. j.op = "probe" => Program(j) = <<Maint(j.vm, "S"), MaintL(j.vm, "S")>>
  BY <1>0 DEF Programs
<1>9. j.op = "probeStop" => Program(j) = <<Request("stop", j.vm, "X", "try"), Request("stopL", j.vm, "X", "try")>>
  BY <1>0 DEF Programs
<1>10. j.op = "oldOperation" => Program(j) = <<MaintL(j.vm, "S")>>
  BY <1>0 DEF Programs
<1>11. j.op = "oldRecovery" => Program(j) = <<MaintL(j.vm, "X")>>
  BY <1>0 DEF Programs
<1>12. j.op = "oldStop" => Program(j) = <<StopL(j.vm)>>
  BY <1>0 DEF Programs
<1> QED
  BY <1>1, <1>2, <1>3, <1>4, <1>5, <1>6, <1>7, <1>8, <1>9, <1>10, <1>11, <1>12

\* What each helper requests.
LEMMA RequestFields ==
  ASSUME NEW x, NEW m
  PROVE  /\ Use(x, m).file = "use" /\ Use(x, m).vm = x /\ Use(x, m).mode = m
         /\ Maint(x, m).file = "maint" /\ Maint(x, m).vm = x /\ Maint(x, m).mode = m
         /\ MaintL(x, m).file = "maintL" /\ MaintL(x, m).vm = x /\ MaintL(x, m).mode = m
         /\ Stop(x).file = "stop" /\ Stop(x).vm = x /\ Stop(x).mode = "X"
         /\ StopL(x).file = "stopL" /\ StopL(x).vm = x /\ StopL(x).mode = "X"
  BY DEF Use, Maint, MaintL, Stop, StopL, Request

\* Every job with a maintenance guard asks for the legacy file of each of its VMs.
LEMMA MaintRequest ==
  ASSUME NEW j \in Jobs(AllOps), j.op \in MaintOps, NEW x \in {j.vm, j.vm2}
  PROVE  \E i \in Nat : Asks(j, i, "maintL", x)
<1> USE JobVMs, RequestFields DEF Asks
<1>1. CASE j.op = "start"
  <2> Program(j) = <<Use(j.vm, "X"), Maint(j.vm, "S"), MaintL(j.vm, "S")>>
    BY <1>1, ProgramIs
  <2>1. Asks(j, 3, "maintL", x)
    BY <1>1
  <2> QED
    BY <2>1
<1>2. CASE j.op = "stop"
  <2> Program(j) = <<Use(j.vm, "X"), Maint(j.vm, "S"), MaintL(j.vm, "S"), Stop(j.vm), StopL(j.vm)>>
    BY <1>2, ProgramIs
  <2>1. Asks(j, 3, "maintL", x)
    BY <1>2
  <2> QED
    BY <2>1
<1>3. CASE j.op = "recovery"
  <2> Program(j) = <<Use(j.vm, "X"), Maint(j.vm, "X"), MaintL(j.vm, "X")>>
    BY <1>3, ProgramIs
  <2>1. Asks(j, 3, "maintL", x)
    BY <1>3
  <2> QED
    BY <2>1
<1>4. CASE j.op = "launch"
  <2> Program(j) = <<Maint(j.vm, "S"), MaintL(j.vm, "S"), Use(j.vm, "X"), Use(j.vm, "X"),
             Maint(j.vm, "S"), MaintL(j.vm, "S"), Stop(j.vm), StopL(j.vm)>>
    BY <1>4, ProgramIs
  <2>1. Asks(j, 2, "maintL", x)
    BY <1>4
  <2> QED
    BY <2>1
<1>5. CASE j.op = "probe"
  <2> Program(j) = <<Maint(j.vm, "S"), MaintL(j.vm, "S")>>
    BY <1>5, ProgramIs
  <2>1. Asks(j, 2, "maintL", x)
    BY <1>5
  <2> QED
    BY <2>1
<1>6. CASE j.op = "oldOperation"
  <2> Program(j) = <<MaintL(j.vm, "S")>>
    BY <1>6, ProgramIs
  <2>1. Asks(j, 1, "maintL", x)
    BY <1>6
  <2> QED
    BY <2>1
<1>7. CASE j.op = "oldRecovery"
  <2> Program(j) = <<MaintL(j.vm, "X")>>
    BY <1>7, ProgramIs
  <2>1. Asks(j, 1, "maintL", x)
    BY <1>7
  <2> QED
    BY <2>1
<1>8. CASE j.op = "settings"
  <2> Program(j) = <<Use(j.vm, "X"), Use(j.vm2, "X"), Maint(j.vm2, "S"), MaintL(j.vm2, "S"),
             Maint(j.vm, "S"), MaintL(j.vm, "S")>>
    BY <1>8, ProgramIs
  <2>1. Asks(j, 4, "maintL", j.vm2) /\ Asks(j, 6, "maintL", j.vm)
    BY <1>8
  <2> QED
    BY <2>1
<1> QED
  BY <1>1, <1>2, <1>3, <1>4, <1>5, <1>6, <1>7, <1>8 DEF MaintOps

\* Every other current job asks for the lease of each of its VMs, a change of
\* the VM asks for it exclusively.
LEMMA UseRequest ==
  ASSUME NEW j \in Jobs(AllOps), j.op \in UseOps, NEW x \in {j.vm, j.vm2}
  PROVE  \E i \in Nat : /\ Asks(j, i, "use", x)
                        /\ j.op \notin {"status", "upgrade"} => Program(j)[i].mode = "X"
<1> DEFINE G(i) == /\ Asks(j, i, "use", x)
                   /\ j.op \notin {"status", "upgrade"} => Program(j)[i].mode = "X"
<1> USE JobVMs, RequestFields DEF Asks
<1>1. CASE j.op = "status"
  <2> Program(j) = <<Use(j.vm, "S"), Use(j.vm, "S")>>
    BY <1>1, ProgramIs
  <2>1. G(1)
    BY <1>1
  <2> QED
    BY <2>1
<1>2. CASE j.op = "upgrade"
  <2> Program(j) = <<Use(j.vm, "S"), Use(j.vm, "X")>>
    BY <1>2, ProgramIs
  <2>1. G(1)
    BY <1>2
  <2> QED
    BY <2>1
<1>3. CASE j.op = "start"
  <2> Program(j) = <<Use(j.vm, "X"), Maint(j.vm, "S"), MaintL(j.vm, "S")>>
    BY <1>3, ProgramIs
  <2>1. G(1)
    BY <1>3
  <2> QED
    BY <2>1
<1>4. CASE j.op = "stop"
  <2> Program(j) = <<Use(j.vm, "X"), Maint(j.vm, "S"), MaintL(j.vm, "S"), Stop(j.vm), StopL(j.vm)>>
    BY <1>4, ProgramIs
  <2>1. G(1)
    BY <1>4
  <2> QED
    BY <2>1
<1>5. CASE j.op = "recovery"
  <2> Program(j) = <<Use(j.vm, "X"), Maint(j.vm, "X"), MaintL(j.vm, "X")>>
    BY <1>5, ProgramIs
  <2>1. G(1)
    BY <1>5
  <2> QED
    BY <2>1
<1>6. CASE j.op = "launch"
  <2> Program(j) = <<Maint(j.vm, "S"), MaintL(j.vm, "S"), Use(j.vm, "X"), Use(j.vm, "X"),
             Maint(j.vm, "S"), MaintL(j.vm, "S"), Stop(j.vm), StopL(j.vm)>>
    BY <1>6, ProgramIs
  <2>1. G(3)
    BY <1>6
  <2> QED
    BY <2>1
<1>7. CASE j.op = "settings"
  <2> Program(j) = <<Use(j.vm, "X"), Use(j.vm2, "X"), Maint(j.vm2, "S"), MaintL(j.vm2, "S"),
             Maint(j.vm, "S"), MaintL(j.vm, "S")>>
    BY <1>7, ProgramIs
  <2>1. x = j.vm => G(1)
    BY <1>7
  <2>2. x = j.vm2 => G(2)
    BY <1>7
  <2> QED
    BY <2>1, <2>2
<1> QED
  BY <1>1, <1>2, <1>3, <1>4, <1>5, <1>6, <1>7 DEF UseOps, CurrentOps

\* Recovery asks for the legacy maintenance file exclusively; a tracked launch
\* has it, shared, after its second request.
LEMMA RecoveryRequest ==
  ASSUME NEW j \in Jobs(AllOps)
  PROVE  /\ j.op \in {"recovery", "oldRecovery"} =>
              \E i \in Nat : Asks(j, i, "maintL", j.vm) /\ Program(j)[i].mode = "X"
         /\ j.op = "launch" => Asks(j, 2, "maintL", j.vm)
<1> USE JobVMs, RequestFields DEF Asks
<1>1. CASE j.op = "recovery"
  <2> Program(j) = <<Use(j.vm, "X"), Maint(j.vm, "X"), MaintL(j.vm, "X")>>
    BY <1>1, ProgramIs
  <2>1. Asks(j, 3, "maintL", j.vm) /\ Program(j)[3].mode = "X"
    BY <1>1
  <2> QED
    BY <1>1, <2>1
<1>2. CASE j.op = "oldRecovery"
  <2> Program(j) = <<MaintL(j.vm, "X")>>
    BY <1>2, ProgramIs
  <2>1. Asks(j, 1, "maintL", j.vm) /\ Program(j)[1].mode = "X"
    BY <1>2
  <2> QED
    BY <1>2, <2>1
<1>3. CASE j.op = "launch"
  <2> Program(j) = <<Maint(j.vm, "S"), MaintL(j.vm, "S"), Use(j.vm, "X"), Use(j.vm, "X"),
             Maint(j.vm, "S"), MaintL(j.vm, "S"), Stop(j.vm), StopL(j.vm)>>
    BY <1>3, ProgramIs
  <2> QED
    BY <1>3
<1> QED
  BY <1>1, <1>2, <1>3

\* Two working requests of different actors never conflict.
LEMMA Exclusion ==
  ASSUME IndInv, NEW a \in Actors, NEW b \in Actors, a # b,
         NEW i \in 1..pos[a], NEW k \in 1..pos[b],
         Program(job[a])[i].mode = "X",
         Program(job[a])[i].file = Program(job[b])[k].file,
         Program(job[a])[i].vm = Program(job[b])[k].vm
  PROVE  FALSE
<1>1. PICK l \in locks : /\ l.actor = a /\ l.file = Program(job[a])[i].file
                         /\ l.vm = Program(job[a])[i].vm /\ l.mode = "X"
  BY DEF IndInv, GrantsHeld
<1>2. PICK m \in locks : /\ m.actor = b /\ m.file = Program(job[b])[k].file
                         /\ m.vm = Program(job[b])[k].vm
  BY DEF IndInv, GrantsHeld
<1>3. l # m /\ l.file = m.file /\ l.vm = m.vm
  BY <1>1, <1>2
<1> QED
  BY <1>1, <1>3 DEF IndInv, NoConflict

\* A working job is one of the model's jobs and has all its requests granted.
LEMMA WorkingJob ==
  ASSUME IndInv, NEW a \in Actors
  PROVE  /\ Busy(a) => job[a] \in Jobs(AllOps)
         /\ pos[a] \in Nat
         /\ Working(a) => pos[a] = Len(Program(job[a]))
  BY JobsType DEF IndInv, TypeOK, Busy, Working

(* UEFI recovery works alone on its VM (see RecoveryAlone): the maintenance *)
(* guards of nvram.rs exclude every other command, whichever lock the other *)
(* command takes first, for any number of processes of either version.      *)
THEOREM RecoveryExclusive == Spec => []RecoveryAlone
<1>1. ASSUME IndInv, NEW a \in Actors, NEW b \in Actors, a # b,
             Working(a), job[a].op \in {"recovery", "oldRecovery"},
             OnVm(b, job[a].vm)
      PROVE  /\ Working(b) => \/ job[b].op \in {"oldStop", "probeStop"}
                              \/ job[a].op = "oldRecovery" /\ job[b].op \in {"status", "upgrade"}
             /\ job[b].op = "launch" => pos[b] < 2
  <2> DEFINE x == job[a].vm
  <2>1. /\ job[a] \in Jobs(AllOps) /\ pos[a] = Len(Program(job[a]))
        /\ job[b] \in Jobs(AllOps) /\ pos[b] \in Nat
        /\ x \in {job[b].vm, job[b].vm2}
    BY <1>1, WorkingJob DEF Working, OnVm
  <2>2. PICK i \in Nat : Asks(job[a], i, "maintL", x) /\ Program(job[a])[i].mode = "X"
    BY <1>1, <2>1, RecoveryRequest
  <2>3. \A k \in 1..pos[b] : ~Asks(job[b], k, "maintL", x)
    BY <1>1, <2>1, <2>2, Exclusion DEF Asks
  <2>4. Working(b) => job[b].op \notin MaintOps
    <3> SUFFICES ASSUME Working(b), job[b].op \in MaintOps
                 PROVE  FALSE
      OBVIOUS
    <3>1. PICK k \in Nat : Asks(job[b], k, "maintL", x)
      BY <2>1, MaintRequest
    <3>2. k \in 1..pos[b]
      BY <3>1, WorkingJob, <1>1 DEF Asks
    <3> QED
      BY <3>1, <3>2, <2>3
  <2>5. Working(b) /\ job[b].op \in {"status", "upgrade"} => job[a].op = "oldRecovery"
    <3> SUFFICES ASSUME Working(b), job[b].op \in {"status", "upgrade"}, job[a].op = "recovery"
                 PROVE  FALSE
      BY <1>1
    <3>1. PICK k \in Nat : Asks(job[b], k, "use", x)
      BY <2>1, UseRequest DEF UseOps, CurrentOps
    <3>2. PICK m \in Nat : Asks(job[a], m, "use", x) /\ Program(job[a])[m].mode = "X"
      BY <2>1, UseRequest DEF UseOps, CurrentOps
    <3>3. k \in 1..pos[b] /\ m \in 1..pos[a]
      BY <3>1, <3>2, <2>1, <1>1, WorkingJob DEF Asks
    <3> QED
      BY <3>1, <3>2, <3>3, <1>1, Exclusion DEF Asks
  <2>6. job[b].op = "launch" => pos[b] < 2
    <3> SUFFICES ASSUME job[b].op = "launch", ~(pos[b] < 2)
                 PROVE  FALSE
      OBVIOUS
    <3>1. 2 \in 1..pos[b]
      BY <2>1
    <3>2. Asks(job[b], 2, "maintL", x)
      BY <2>1, RecoveryRequest, JobVMs
    <3> QED
      BY <3>1, <3>2, <2>3
  <2>7. job[b].op \in AllOps
    BY <2>1, JobVMs
  <2> QED
    BY <1>1, <2>4, <2>5, <2>6, <2>7 DEF AllOps, CurrentOps, OldOps, MaintOps
<1>2. IndInv => RecoveryAlone
  BY <1>1 DEF RecoveryAlone
<1> QED
  BY InitInd, StepInd, <1>2, PTL DEF Spec

(* A start, a stop, a launch and a settings save are exclusive on every VM  *)
(* they touch (see LifecycleAlone), the two-VM settings save included.      *)
THEOREM LifecycleExclusive == Spec => []LifecycleAlone
<1>1. ASSUME IndInv, NEW a \in Procs, NEW b \in Procs, a # b,
             Working(a), Working(b), Exclusive(a),
             job[b].op \notin {"probe", "probeStop"},
             NEW x \in {job[a].vm, job[a].vm2}, x \in {job[b].vm, job[b].vm2}
      PROVE  FALSE
  <2>1. a \in Actors /\ b \in Actors
    BY DEF Actors
  <2>2. /\ job[a] \in Jobs(AllOps) /\ pos[a] = Len(Program(job[a]))
        /\ job[b] \in Jobs(AllOps) /\ pos[b] = Len(Program(job[b]))
    BY <1>1, <2>1, WorkingJob DEF Working
  <2>3. job[b].op \in UseOps
    BY <1>1, <2>1 DEF IndInv, TypeOK, JobsOf, Jobs, UseOps, Working
  <2>4. PICK i \in Nat : Asks(job[a], i, "use", x) /\ Program(job[a])[i].mode = "X"
    BY <1>1, <2>2, UseRequest DEF UseOps, CurrentOps, Exclusive
  <2>5. PICK k \in Nat : Asks(job[b], k, "use", x)
    BY <1>1, <2>2, <2>3, UseRequest
  <2> QED
    BY <1>1, <2>1, <2>2, <2>4, <2>5, Exclusion DEF Asks
<1>2. IndInv => LifecycleAlone
  BY <1>1 DEF LifecycleAlone
<1> QED
  BY InitInd, StepInd, <1>2, PTL DEF Spec

(* Both exclusions, as the runs check them (vm_use.rs, maintenance.rs).      *)
THEOREM WorkIsExclusive == Spec => []WorksAlone
<1>1. RecoveryAlone /\ LifecycleAlone => WorksAlone
  BY DEF WorksAlone
<1> QED
  BY RecoveryExclusive, LifecycleExclusive, <1>1, PTL

-----------------------------------------------------------------------------
(* The order in which locks are waited for, and what follows for waits.    *)

Polled == {"use", "stop", "stopL"}

\* The leases come first, in the order of the VMs, then the stop lock, then the older one.
Above(r, q) ==
  \/ q.file = "use" /\ r.file = "use" /\ q.vm < r.vm
  \/ q.file = "use" /\ r.file \in {"stop", "stopL"}
  \/ q.file = "stop" /\ r.file = "stopL"

\* Nobody waits for what is not above all it holds, but for a lease it holds already.
LEMMA ProgramsClimb ==
  ASSUME NEW j \in Jobs(AllOps), NEW i \in 1..Len(Program(j)), NEW k \in 1..Len(Program(j)), i < k,
         Program(j)[k].wait = "poll", Program(j)[i].file \in Polled,
         ~(Program(j)[i].file = "use" /\ Program(j)[k].file = "use" /\ Program(j)[i].vm = Program(j)[k].vm)
  PROVE  Above(Program(j)[k], Program(j)[i])
<1>1. j.vm \in Nat /\ j.vm2 \in Nat /\ j.vm <= j.vm2 /\ j.op \in AllOps
  BY JobVMs, VMsAssumption DEF Jobs
<1> USE <1>1, ProgramIs DEF Above, Polled, Use, Maint, MaintL, Stop, StopL, Request
<1>2. CASE j.op \in {"status", "upgrade"}
  BY <1>2
<1>3. CASE j.op \in {"start", "recovery"}
  BY <1>3
<1>4. CASE j.op = "stop"
  <2> Program(j) = <<Use(j.vm, "X"), Maint(j.vm, "S"), MaintL(j.vm, "S"), Stop(j.vm), StopL(j.vm)>>
    BY <1>4, ProgramIs
  <2> QED
    OBVIOUS
<1>5. CASE j.op = "launch"
  <2> Program(j) = <<Maint(j.vm, "S"), MaintL(j.vm, "S"), Use(j.vm, "X"), Use(j.vm, "X"),
                     Maint(j.vm, "S"), MaintL(j.vm, "S"), Stop(j.vm), StopL(j.vm)>>
    BY <1>5, ProgramIs
  <2> QED
    OBVIOUS
<1>6. CASE j.op = "settings"
  <2> Program(j) = <<Use(j.vm, "X"), Use(j.vm2, "X"), Maint(j.vm2, "S"), MaintL(j.vm2, "S"),
                     Maint(j.vm, "S"), MaintL(j.vm, "S")>>
    BY <1>6, ProgramIs
  <2> QED
    OBVIOUS
<1>7. CASE j.op \in {"probe", "oldOperation", "oldRecovery", "oldStop"}
  BY <1>7
<1>8. CASE j.op = "probeStop"
  BY <1>8
<1> QED
  BY <1>1, <1>2, <1>3, <1>4, <1>5, <1>6, <1>7, <1>8 DEF AllOps, CurrentOps, OldOps

\* Who has the stop lock, but for a probe, has taken the lease of the VM before, and takes the
\* stop lock once.
LEMMA StopAfterUse ==
  ASSUME NEW j \in Jobs(AllOps), j.op # "probeStop", NEW i \in 1..Len(Program(j)), Program(j)[i].file = "stop"
  PROVE  /\ \E u \in 1..(i - 1) : /\ Program(j)[u].file = "use" /\ Program(j)[u].mode = "X"
                                  /\ Program(j)[u].vm = Program(j)[i].vm
         /\ \A k \in 1..Len(Program(j)) : Program(j)[k].file = "stop" => k = i
<1>1. j.op \in AllOps
  BY JobVMs
<1> USE ProgramIs DEF Use, Maint, MaintL, Stop, StopL, Request
<1>2. CASE j.op = "stop"
  <2>1. Program(j) = <<Use(j.vm, "X"), Maint(j.vm, "S"), MaintL(j.vm, "S"), Stop(j.vm), StopL(j.vm)>>
    BY <1>2, ProgramIs
  <2>2. i = 4 /\ \A k \in 1..Len(Program(j)) : Program(j)[k].file = "stop" => k = 4
    BY <2>1
  <2>3. 1 \in 1..(i - 1) /\ Program(j)[1].file = "use" /\ Program(j)[1].mode = "X" /\ Program(j)[1].vm = Program(j)[i].vm
    BY <2>1, <2>2
  <2> QED
    BY <2>2, <2>3
<1>3. CASE j.op = "launch"
  <2>1. Program(j) = <<Maint(j.vm, "S"), MaintL(j.vm, "S"), Use(j.vm, "X"), Use(j.vm, "X"),
                       Maint(j.vm, "S"), MaintL(j.vm, "S"), Stop(j.vm), StopL(j.vm)>>
    BY <1>3, ProgramIs
  <2>2. i = 7 /\ \A k \in 1..Len(Program(j)) : Program(j)[k].file = "stop" => k = 7
    BY <2>1
  <2>3. 3 \in 1..(i - 1) /\ Program(j)[3].file = "use" /\ Program(j)[3].mode = "X" /\ Program(j)[3].vm = Program(j)[i].vm
    BY <2>1, <2>2
  <2> QED
    BY <2>2, <2>3
<1>4. CASE j.op \in {"status", "upgrade", "start", "recovery"}
  BY <1>4
<1>5. CASE j.op = "settings"
  <2>1. Program(j) = <<Use(j.vm, "X"), Use(j.vm2, "X"), Maint(j.vm2, "S"), MaintL(j.vm2, "S"),
                       Maint(j.vm, "S"), MaintL(j.vm, "S")>>
    BY <1>5, ProgramIs
  <2>2. i \in 1..6
    BY <2>1
  <2> QED
    BY <2>1, <2>2
<1>6. CASE j.op \in {"probe", "oldOperation", "oldRecovery", "oldStop"}
  BY <1>6
<1> QED
  BY <1>1, <1>2, <1>3, <1>4, <1>5, <1>6 DEF AllOps, CurrentOps, OldOps

\* What a poll asks for.
LEMMA PollsAreClassed ==
  ASSUME NEW j \in Jobs(AllOps), NEW i \in 1..Len(Program(j)), Program(j)[i].wait = "poll"
  PROVE  Program(j)[i].file \in Polled /\ Program(j)[i].vm \in Nat
<1>1. Program(j)[i] \in RequestType
  BY ProgramType
<1>2. Program(j)[i].vm \in Nat
  BY <1>1, VMsAssumption DEF RequestType
<1>3. j.op \in AllOps
  BY JobVMs
<1> USE DEF Polled, Use, Maint, MaintL, Stop, StopL, Request
<1>4. CASE j.op = "status"
  <2>1. Program(j) = <<Use(j.vm, "S"), Use(j.vm, "S")>>
    BY <1>4, ProgramIs
  <2>2. i \in 1..2
    BY <2>1
  <2> QED
    BY <1>2, <2>1, <2>2
<1>5. CASE j.op = "upgrade"
  <2>1. Program(j) = <<Use(j.vm, "S"), Use(j.vm, "X")>>
    BY <1>5, ProgramIs
  <2>2. i \in 1..2
    BY <2>1
  <2> QED
    BY <1>2, <2>1, <2>2
<1>6. CASE j.op = "start"
  <2>1. Program(j) = <<Use(j.vm, "X"), Maint(j.vm, "S"), MaintL(j.vm, "S")>>
    BY <1>6, ProgramIs
  <2>2. i \in 1..3
    BY <2>1
  <2> QED
    BY <1>2, <2>1, <2>2
<1>7. CASE j.op = "stop"
  <2>1. Program(j) = <<Use(j.vm, "X"), Maint(j.vm, "S"), MaintL(j.vm, "S"), Stop(j.vm), StopL(j.vm)>>
    BY <1>7, ProgramIs
  <2>2. i \in 1..5
    BY <2>1
  <2> QED
    BY <1>2, <2>1, <2>2
<1>8. CASE j.op = "recovery"
  <2>1. Program(j) = <<Use(j.vm, "X"), Maint(j.vm, "X"), MaintL(j.vm, "X")>>
    BY <1>8, ProgramIs
  <2>2. i \in 1..3
    BY <2>1
  <2> QED
    BY <1>2, <2>1, <2>2
<1>9. CASE j.op = "launch"
  <2>1. Program(j) = <<Maint(j.vm, "S"), MaintL(j.vm, "S"), Use(j.vm, "X"), Use(j.vm, "X"),
                       Maint(j.vm, "S"), MaintL(j.vm, "S"), Stop(j.vm), StopL(j.vm)>>
    BY <1>9, ProgramIs
  <2>2. i \in 1..8
    BY <2>1
  <2> QED
    BY <1>2, <2>1, <2>2
<1>10. CASE j.op = "settings"
  <2>1. Program(j) = <<Use(j.vm, "X"), Use(j.vm2, "X"), Maint(j.vm2, "S"), MaintL(j.vm2, "S"),
                       Maint(j.vm, "S"), MaintL(j.vm, "S")>>
    BY <1>10, ProgramIs
  <2>2. i \in 1..6
    BY <2>1
  <2> QED
    BY <1>2, <2>1, <2>2
<1>11. CASE j.op = "probe"
  <2>1. Program(j) = <<Maint(j.vm, "S"), MaintL(j.vm, "S")>>
    BY <1>11, ProgramIs
  <2>2. i \in 1..2
    BY <2>1
  <2> QED
    BY <1>2, <2>1, <2>2
<1>12. CASE j.op = "probeStop"
  <2>1. Program(j) = <<Request("stop", j.vm, "X", "try"), Request("stopL", j.vm, "X", "try")>>
    BY <1>12, ProgramIs
  <2>2. i \in 1..2
    BY <2>1
  <2> QED
    BY <1>2, <2>1, <2>2
<1>13. CASE j.op = "oldOperation"
  <2>1. Program(j) = <<MaintL(j.vm, "S")>>
    BY <1>13, ProgramIs
  <2>2. i \in 1..1
    BY <2>1
  <2> QED
    BY <1>2, <2>1, <2>2
<1>14. CASE j.op = "oldRecovery"
  <2>1. Program(j) = <<MaintL(j.vm, "X")>>
    BY <1>14, ProgramIs
  <2>2. i \in 1..1
    BY <2>1
  <2> QED
    BY <1>2, <2>1, <2>2
<1>15. CASE j.op = "oldStop"
  <2>1. Program(j) = <<StopL(j.vm)>>
    BY <1>15, ProgramIs
  <2>2. i \in 1..1
    BY <2>1
  <2> QED
    BY <1>2, <2>1, <2>2
<1>16. Program(j)[i].file \in Polled
  BY <1>3, <1>4, <1>5, <1>6, <1>7, <1>8, <1>9, <1>10, <1>11, <1>12, <1>13, <1>14, <1>15 DEF AllOps, CurrentOps, OldOps
<1> QED
  BY <1>2, <1>16

\* So waits climb: who is waited for waits for something above.
LEMMA WaitsClimb ==
  ASSUME IndInv, NEW a \in Actors, NEW b \in Actors, NEW c \in Actors, Blocks(b, a), Blocks(c, b)
  PROVE  Above(NextRequest(b), NextRequest(a))
<1>1. /\ Waiting(a) /\ Waiting(b) /\ NextRequest(a).wait = "poll" /\ NextRequest(b).wait = "poll"
      /\ Reused(b, NextRequest(b)) = {}
  BY DEF Blocks
<1>2. PICK l \in Held(b) : l.file = NextRequest(a).file /\ l.vm = NextRequest(a).vm
  BY DEF Blocks
<1>3. /\ job[a] \in Jobs(AllOps) /\ pos[a] + 1 \in 1..Len(Program(job[a]))
      /\ job[b] \in Jobs(AllOps) /\ pos[b] \in Nat /\ pos[b] + 1 \in 1..Len(Program(job[b]))
  BY <1>1, NextRequestType DEF IndInv
<1>4. /\ l.pos \in 1..pos[b] /\ l.file = Program(job[b])[l.pos].file /\ l.vm = Program(job[b])[l.pos].vm
      /\ l \in locks
  BY DEF IndInv, DescriptorsMatch, Held
<1>5. l.pos \in 1..Len(Program(job[b])) /\ l.pos < pos[b] + 1
  BY <1>3, <1>4
<1>6. NextRequest(a).file \in Polled
  BY <1>1, <1>3, PollsAreClassed DEF NextRequest
<1>7. ~(l.file = "use" /\ NextRequest(b).file = "use" /\ l.vm = NextRequest(b).vm)
  BY <1>1, <1>2 DEF Reused
<1>8. Above(Program(job[b])[pos[b] + 1], Program(job[b])[l.pos])
  BY <1>1, <1>2, <1>3, <1>4, <1>5, <1>6, <1>7, ProgramsClimb DEF NextRequest
<1> QED
  BY <1>2, <1>4, <1>8 DEF Above, NextRequest

\* A climb never comes back to where it started; two steps and three, as the run checks them.
LEMMA NobodyWaitsInACircle == IndInv => NoWaitCycle
<1> SUFFICES ASSUME IndInv, NEW a \in Actors, NEW b \in Actors, Blocks(b, a)
             PROVE  ~Blocks(a, b) /\ \A c \in Actors : ~(Blocks(c, b) /\ Blocks(a, c))
  BY DEF NoWaitCycle
<1>1. ASSUME NEW x \in Actors, NEW y \in Actors, Blocks(y, x)
      PROVE  NextRequest(x).vm \in Nat
  <2>1. Waiting(x) /\ NextRequest(x).wait = "poll"
    BY <1>1 DEF Blocks
  <2> QED
    BY <2>1, NextRequestType, PollsAreClassed DEF IndInv, NextRequest
<1>2. ASSUME Blocks(a, b) PROVE FALSE
  <2>1. Above(NextRequest(b), NextRequest(a)) /\ Above(NextRequest(a), NextRequest(b))
    BY <1>2, WaitsClimb
  <2>2. NextRequest(a).vm \in Nat /\ NextRequest(b).vm \in Nat
    BY <1>1, <1>2
  <2> QED
    BY <2>1, <2>2 DEF Above
<1>3. ASSUME NEW c \in Actors, Blocks(c, b), Blocks(a, c) PROVE FALSE
  <2>1. /\ Above(NextRequest(b), NextRequest(a)) /\ Above(NextRequest(c), NextRequest(b))
        /\ Above(NextRequest(a), NextRequest(c))
    BY <1>3, WaitsClimb
  <2>2. NextRequest(a).vm \in Nat /\ NextRequest(b).vm \in Nat /\ NextRequest(c).vm \in Nat
    BY <1>1, <1>3
  <2> QED
    BY <2>1, <2>2 DEF Above
<1> QED
  BY <1>2, <1>3

\* Two that are after one stop lock both hold the exclusive lease of its VM, so they are one.
LEMMA StopsQueueForTheLease == IndInv => StopLockFree
<1> SUFFICES ASSUME IndInv, NEW a \in Procs, Waiting(a), NextRequest(a).file = "stop", NextRequest(a).wait = "poll",
                    NEW l \in locks, l.file = "stop", l.vm = NextRequest(a).vm
             PROVE  job[l.actor].op = "probeStop"
  BY DEF StopLockFree
<1> SUFFICES ASSUME job[l.actor].op # "probeStop" PROVE FALSE
  OBVIOUS
<1> DEFINE b == l.actor
<1>1. /\ a \in Actors /\ job[a] \in Jobs(AllOps) /\ pos[a] \in Nat /\ pos[a] + 1 \in 1..Len(Program(job[a]))
      /\ NextRequest(a) = Program(job[a])[pos[a] + 1]
  BY NextRequestType DEF IndInv, Actors, NextRequest
<1>2. /\ b \in Actors /\ Busy(b) /\ l.pos \in 1..pos[b]
      /\ Program(job[b])[l.pos].file = "stop" /\ Program(job[b])[l.pos].vm = l.vm
  BY DEF IndInv, TypeOK, LockType, DescriptorsMatch
<1>3. job[b] \in Jobs(AllOps) /\ pos[b] \in Nat /\ pos[b] <= Len(Program(job[b])) /\ Len(Program(job[b])) \in Nat
  BY <1>2, JobsType, ProgramType DEF IndInv, TypeOK
<1>4. l.pos \in 1..Len(Program(job[b]))
  BY <1>2, <1>3
<1>5. job[a].op # "probeStop"
  <2> SUFFICES ASSUME job[a].op = "probeStop" PROVE FALSE
    OBVIOUS
  <2>1. Program(job[a]) = <<Request("stop", job[a].vm, "X", "try"), Request("stopL", job[a].vm, "X", "try")>>
    BY <1>1, ProgramIs
  <2> QED
    BY <1>1, <2>1 DEF Request
<1>6. PICK u \in 1..pos[a] : /\ Program(job[a])[u].file = "use" /\ Program(job[a])[u].mode = "X"
                             /\ Program(job[a])[u].vm = l.vm
  BY <1>1, <1>5, StopAfterUse
<1>7. PICK v \in 1..(l.pos - 1) : /\ Program(job[b])[v].file = "use" /\ Program(job[b])[v].mode = "X"
                                  /\ Program(job[b])[v].vm = l.vm
  BY <1>2, <1>3, <1>4, StopAfterUse
<1>8. v \in 1..pos[b]
  BY <1>2, <1>3, <1>7
<1>9. a = b
  BY <1>1, <1>2, <1>6, <1>7, <1>8, Exclusion
<1>10. l.pos = pos[a] + 1
  <2>1. \A k \in 1..Len(Program(job[a])) : Program(job[a])[k].file = "stop" => k = pos[a] + 1
    BY <1>1, <1>5, StopAfterUse
  <2> QED
    BY <1>2, <1>4, <1>9, <2>1
<1> QED
  BY <1>1, <1>2, <1>9, <1>10

\* Whatever locks the commands take and in which order, nobody waits, through one or two others,
\* for itself (vm_use.rs, maintenance.rs, stop_lock.rs), and a Runtime stop that waits for the stop
\* lock under its lease waits for a probe only, for any number of processes and VMs.
THEOREM WaitsStayBounded == Spec => []WaitsAreBounded
<1>1. IndInv => WaitsAreBounded
  BY NobodyWaitsInACircle, StopsQueueForTheLease DEF WaitsAreBounded
<1> QED
  BY InitInd, StepInd, <1>1, PTL DEF Spec
=============================================================================

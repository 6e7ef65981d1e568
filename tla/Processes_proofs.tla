--------------------------- MODULE Processes_proofs ---------------------------
(***************************************************************************)
(* The promises of what runs a process for another: a command with its     *)
(* time limits (CommandExecution), a host-service relay (HostRelay) and a  *)
(* portable Runtime with the package it starts (PortableApp).              *)
(***************************************************************************)
EXTENDS CommandExecution, HostRelay, PortableApp, FiniteSetTheorems, TLAPS

(***************************************************************************)
(* A command, for any limits.  What has been spent of the budget and how   *)
(* the command will end follow from the step it is at; a pipe whose reader *)
(* ended has nobody left to write to it; and the group is empty once it    *)
(* was killed.                                                             *)
(***************************************************************************)

\* What each step of a command may have taken, and how it will end.
Spending ==
  /\ running.at \in {"idle", "select"} => running.spent = 0 /\ running.kind = "none"
  /\ running.at = "drain" => running.spent = Timeout /\ running.kind = "ok"
  /\ running.at \in {"term", "grace"} => running.spent = Timeout /\ running.kind = "terminated"
  /\ running.at \in {"kill", "reap"} => running.kind \in {"terminated", "undrained"}
  /\ running.at = "kill" => running.spent = Timeout + (IF Exited THEN DrainLimit ELSE Grace)
  /\ running.at = "wait" => running.spent = Timeout + Grace /\ running.kind = "terminated"
  /\ running.at = "reap" =>
       running.spent = Timeout + (IF Exited THEN DrainLimit ELSE Grace + ReapLimit)
  /\ running.at = "settle" =>
       running.spent = Timeout + Grace + 2 * ReapLimit /\ running.kind = "terminated"
  /\ running.at = "done" => running.spent \in 0..Budget /\ running.kind # "none"

\* What was read of a pipe is what is not unread; it is kept as far as the limit goes, and a
\* reader that ended leaves nothing to read and nobody to write.
Reading ==
  \A s \in Pipes :
    /\ pipe[s].unread <= pipe[s].sent
    /\ pipe[s].kept = (IF pipe[s].sent - pipe[s].unread < CaptureLimit
                       THEN pipe[s].sent - pipe[s].unread ELSE CaptureLimit)
    /\ pipe[s].cut <=> pipe[s].sent - pipe[s].unread > CaptureLimit
    /\ pipe[s].reader = "end" => running.at # "idle" /\ EndOf(s)

\* Whose exit was seen is reaped, and nothing of a group survives its kill.
Living ==
  /\ running.at = "idle" => \A p \in Members : member[p].is = "none"
  /\ running.at # "idle" /\ running.kind # "refused" => member["child"].is # "none"
  /\ running.kind = "ok" => member["child"].is = "reaped"
  /\ running.at = "done" /\ running.kind = "ok" => PipesRead
  /\ running.at \in {"wait", "reap", "settle"}
     \/ (running.at = "done" /\ running.kind \in {"terminated", "undrained"})
     => Group = {}

Telling == (token.told => token.flag) /\ (token.waiter = "waits" => ~token.told)

CommandInv == CommandTypeOK /\ Spending /\ Reading /\ Living /\ Telling

\* A command that has not begun satisfies it.
LEMMA CommandStart == CommandInit => CommandInv
<1> SUFFICES ASSUME CommandInit PROVE CommandInv
  OBVIOUS
<1> USE CommandAssumption DEF CommandInit
<1>1. CommandTypeOK
  BY DEF CommandTypeOK, Members, Pipes
<1>2. Spending
  BY DEF Spending
<1>3. Reading
  BY DEF Reading, EndOf, Pipes
<1>4. Living
  BY DEF Living, Members
<1>5. Telling
  BY DEF Telling
<1> QED
  BY <1>1, <1>2, <1>3, <1>4, <1>5 DEF CommandInv

\* What the invariant says of a command that is done.
LEMMA CommandStopsClean == CommandInv => CommandsEndCleanly
<1> SUFFICES ASSUME CommandInv PROVE CommandsEndCleanly
  OBVIOUS
<1> USE CommandAssumption DEF CommandInv
<1>1. OutputIsWhole
  BY DEF OutputIsWhole, OutputAt, Living, Reading, PipesRead, EndOf, CommandTypeOK
<1>2. NobodyGoesOn
  BY DEF NobodyGoesOn, OutputAt, Living
<1>3. CancelIsHeard
  BY DEF CancelIsHeard, Telling
<1>4. WithinBudget
  BY DEF WithinBudget, Spending, CommandTypeOK, Timeout, Grace, ReapLimit, DrainLimit
<1> QED
  BY <1>1, <1>2, <1>3, <1>4 DEF CommandsEndCleanly

\* The processes come and go, write and are read.
LEMMA ProcessesRun == CommandInv /\ ProcessStep => CommandInv'
<1> SUFFICES ASSUME CommandInv, ProcessStep PROVE CommandInv'
  OBVIOUS
<1> USE CommandAssumption DEF CommandInv
<1>1. UNCHANGED <<running, token>>
  BY DEF ProcessStep, StartsKin, LeavesGroup, ClosesPipe, WritesToPipe, MemberEnds, ReadPipe, ReaderEnds
<1>2. Spending' /\ Telling'
  BY <1>1 DEF Spending, Telling, Exited
<1>3. CASE ~OutputAt("done") /\ (StartsKin \/ LeavesGroup \/ MemberEnds)
  <2>1. /\ UNCHANGED pipe /\ member' \in [Members -> [is : {"none", "runs", "away", "ended", "reaped"},
                                                     holds : SUBSET Pipes]]
        /\ \A p \in Members : member[p].is \in {"ended", "reaped"} => member'[p] = member[p]
        /\ member["child"].is \in {"none", "reaped"} => member'["child"] = member["child"]
        /\ \A p \in Members : MemberAlive(p)' =>
             \E q \in Members :
               /\ MemberAlive(q) /\ member'[p].holds = member[q].holds
               /\ member'[p].is = "runs" => member[q].is = "runs"
        /\ member["child"].is # "none" => member'["child"].is # "none"
    <3>1. CASE StartsKin
      <4>1. PICK p \in Members, k \in Kin : MemberAlive(p) /\ member[k].is = "none"
            /\ member' = [member EXCEPT ![k] = member[p]]
        BY <3>1 DEF StartsKin
      <4>2. k # "child" /\ k \in Members /\ "child" \in Members
        BY DEF Members
      <4>3. member' \in [Members -> [is : {"none", "runs", "away", "ended", "reaped"},
            holds : SUBSET Pipes]]
        BY <4>1, <4>2 DEF CommandTypeOK
      <4>4. \A q \in Members : member'[q] = IF q = k THEN member[p] ELSE member[q]
        BY <4>1 DEF CommandTypeOK
      <4> QED
        BY <3>1, <4>1, <4>2, <4>3, <4>4 DEF StartsKin, MemberAlive
    <3>2. CASE LeavesGroup
      <4>1. PICK k \in Kin : member[k].is = "runs" /\ member' = [member EXCEPT ![k].is = "away"]
        BY <3>2 DEF LeavesGroup
      <4>2. k # "child" /\ k \in Members /\ "child" \in Members
        BY DEF Members
      <4>3. member' \in [Members -> [is : {"none", "runs", "away", "ended", "reaped"},
            holds : SUBSET Pipes]]
        BY <4>1, <4>2 DEF CommandTypeOK
      <4>4. \A q \in Members : member'[q] = IF q = k THEN [member[k] EXCEPT !.is = "away"] ELSE member[q]
        BY <4>1 DEF CommandTypeOK
      <4>5. member'[k].is = "away" /\ member'[k].holds = member[k].holds
        BY <4>2, <4>4 DEF CommandTypeOK
      <4> QED
        BY <3>2, <4>1, <4>2, <4>3, <4>4, <4>5 DEF LeavesGroup, MemberAlive
    <3>3. CASE MemberEnds
      <4>1. PICK p \in Members : MemberAlive(p) /\ Kill({p})
        BY <3>3 DEF MemberEnds
      <4>2. member' \in [Members -> [is : {"none", "runs", "away", "ended", "reaped"},
            holds : SUBSET Pipes]]
        BY <4>1 DEF CommandTypeOK, Kill, EndedMember
      <4>3. \A q \in Members : member'[q] = IF q = p THEN EndedMember(p) ELSE member[q]
        BY <4>1 DEF Kill
      <4>4. "child" \in Members
        BY DEF Members
      <4> QED
        BY <3>3, <4>1, <4>2, <4>3, <4>4 DEF MemberEnds, MemberAlive, EndedMember
    <3> QED
      BY <1>3, <3>1, <3>2, <3>3
  <2>2. CommandTypeOK'
    BY <1>1, <2>1 DEF CommandTypeOK
  <2>3. Reading'
    BY <1>1, <2>1 DEF Reading, EndOf, MemberAlive
  <2>4. running.at # "idle"
    BY <1>3, CommandAssumption DEF Living, StartsKin, LeavesGroup, MemberEnds, MemberAlive, Members
  <2>5. Living'
    <3>1. Group = {} => Group' = {}
      <4>1. \A p \in Members : member'[p].is = "runs" => \E q \in Members : member[q].is = "runs"
        BY <2>1 DEF MemberAlive
      <4> QED
        BY <4>1 DEF Group
    <3> QED
      BY <1>1, <1>3, <2>1, <2>4, <3>1 DEF Living, OutputAt
  <2> QED
    BY <1>2, <2>2, <2>3, <2>5
<1>4. CASE running.at \in {"select", "drain"} /\ ClosesPipe
  <2>1. PICK p \in Members, s \in Pipes : MemberAlive(p) /\ s \in member[p].holds
           /\ member' = [member EXCEPT ![p].holds = @ \ {s}] /\ UNCHANGED pipe
    BY <1>4 DEF ClosesPipe
  <2>2. member' \in [Members -> [is : {"none", "runs", "away", "ended", "reaped"},
        holds : SUBSET Pipes]]
    BY <2>1 DEF CommandTypeOK
  <2>3. \A q \in Members : member'[q].is = member[q].is /\ member'[q].holds \subseteq member[q].holds
    BY <2>1 DEF CommandTypeOK
  <2>4. CommandTypeOK'
    BY <1>1, <2>1, <2>2 DEF CommandTypeOK
  <2>5. Reading'
    BY <1>1, <2>1, <2>3 DEF Reading, EndOf, MemberAlive
  <2>6. Living'
    BY <1>1, <1>4, <2>1, <2>3 DEF Living, Members, Group, PipesRead
  <2> QED
    BY <1>2, <2>4, <2>5, <2>6
<1>5. CASE running.at \in {"select", "drain"} /\ WritesToPipe
  <2>1. PICK p \in Members, s \in Pipes : /\ pipe[s].unread < PipeSize /\ pipe[s].sent < MaxWrites
                                          /\ pipe[s].reader = "reads"
           /\ pipe' = [pipe EXCEPT ![s].sent = @ + 1, ![s].unread = @ + 1] /\ UNCHANGED member
    BY <1>5 DEF WritesToPipe
  <2>2. CommandTypeOK'
    BY <1>1, <2>1 DEF CommandTypeOK
  <2>3. Reading'
    BY <1>1, <2>1 DEF Reading, EndOf, MemberAlive, CommandTypeOK
  <2>4. Living'
    BY <1>1, <1>5, <2>1 DEF Living, Group
  <2> QED
    BY <1>2, <2>2, <2>3, <2>4
<1>6. CASE running.at \in {"select", "drain"} /\ ReadPipe
  <2>1. PICK s \in Pipes : /\ pipe[s].reader = "reads" /\ pipe[s].unread > 0 /\ UNCHANGED member
           /\ \E n \in 1..pipe[s].unread :
                LET left == CaptureLimit - pipe[s].kept
                    kept == IF n < left THEN n ELSE left
                IN pipe' = [pipe EXCEPT ![s].unread = @ - n, ![s].kept = @ + kept,
                                        ![s].cut = @ \/ kept < n]
    BY <1>6 DEF ReadPipe
  <2>2. PICK n \in 1..pipe[s].unread :
           LET left == CaptureLimit - pipe[s].kept
               kept == IF n < left THEN n ELSE left
           IN pipe' = [pipe EXCEPT ![s].unread = @ - n, ![s].kept = @ + kept,
                                   ![s].cut = @ \/ kept < n]
    BY <2>1
  <2>3. /\ pipe[s].unread \in 0..PipeSize /\ pipe[s].kept \in 0..CaptureLimit
        /\ pipe[s].sent \in 0..MaxWrites
        /\ pipe[s].cut \in BOOLEAN
        /\ pipe[s].unread - n \in 0..PipeSize
        /\ pipe[s].kept + (IF n < CaptureLimit - pipe[s].kept THEN n ELSE CaptureLimit - pipe[s].kept) \in 0..CaptureLimit
    BY <2>1, <2>2 DEF CommandTypeOK
  <2>9. PICK k \in 0..CaptureLimit, b \in BOOLEAN :
           pipe' = [pipe EXCEPT ![s].unread = pipe[s].unread - n, ![s].kept = k, ![s].cut = b]
    BY <2>2, <2>3
  <2>7. pipe' \in [Pipes -> [sent : 0..MaxWrites, unread : 0..PipeSize, kept : 0..CaptureLimit,
                           cut : BOOLEAN, reader : {"reads", "end"}]]
    <3>1. pipe \in [Pipes -> [sent : 0..MaxWrites, unread : 0..PipeSize, kept : 0..CaptureLimit,
                             cut : BOOLEAN, reader : {"reads", "end"}]]
      BY DEF CommandTypeOK
    <3>2. pipe' = [pipe EXCEPT ![s] = [pipe[s] EXCEPT !.unread = pipe[s].unread - n, !.kept = k,
          !.cut = b]]
      BY <2>9, <3>1
    <3>3. [pipe[s] EXCEPT !.unread = pipe[s].unread - n, !.kept = k, !.cut = b] \in
            [sent : 0..MaxWrites, unread : 0..PipeSize, kept : 0..CaptureLimit,
             cut : BOOLEAN, reader : {"reads", "end"}]
      BY <2>3, <3>1
    <3> QED
      BY <3>1, <3>2, <3>3
  <2>8. CommandTypeOK'
    BY <1>1, <2>1, <2>7 DEF CommandTypeOK
  <2>4. Reading'
    BY <1>1, <2>1, <2>2 DEF Reading, EndOf, MemberAlive, CommandTypeOK
  <2>5. Living'
    BY <1>1, <1>6, <2>1 DEF Living, Group
  <2> QED
    BY <1>2, <2>8, <2>4, <2>5
<1>7. CASE running.at \in {"select", "drain"} /\ ReaderEnds
  <2>1. PICK s \in Pipes : EndOf(s) /\ pipe' = [pipe EXCEPT ![s].reader = "end"] /\ UNCHANGED member
    BY <1>7 DEF ReaderEnds
  <2>2. CommandTypeOK'
    BY <1>1, <2>1 DEF CommandTypeOK
  <2>3. Reading'
    BY <1>1, <1>7, <2>1 DEF Reading, EndOf, MemberAlive, CommandTypeOK
  <2>4. Living'
    BY <1>1, <1>7, <2>1 DEF Living, Group
  <2> QED
    BY <1>2, <2>2, <2>3, <2>4
<1> QED
  BY <1>3, <1>4, <1>5, <1>6, <1>7 DEF ProcessStep

\* The cancellation touches its token only.
LEMMA CancelsTell == CommandInv /\ CancelStep => CommandInv'
<1> SUFFICES ASSUME CommandInv, CancelStep PROVE CommandInv'
  OBVIOUS
<1> USE CommandAssumption DEF CommandInv
<1>1. UNCHANGED <<running, member, pipe>>
  BY DEF CancelStep, SetCancelled, NotifyWaiters, AwaitCancel
<1>2. Spending' /\ Reading' /\ Living'
  BY <1>1 DEF Spending, Reading, Living, EndOf, MemberAlive, PipesRead, Group, Exited
<1>3. (token \in [flag : BOOLEAN, told : BOOLEAN,
      waiter : {"none", "registered", "waits", "woken", "seen"}])' /\ Telling'
  <2>1. token \in [flag : BOOLEAN, told : BOOLEAN,
        waiter : {"none", "registered", "waits", "woken", "seen"}] /\ Telling
    BY DEF CommandTypeOK
  <2>2. CASE SetCancelled
    BY <2>1, <2>2 DEF SetCancelled, Telling
  <2>3. CASE NotifyWaiters
    BY <2>1, <2>3 DEF NotifyWaiters, Telling
  <2>4. CASE AwaitCancel
    BY <2>1, <2>4 DEF AwaitCancel, Telling
  <2> QED
    BY <2>2, <2>3, <2>4 DEF CancelStep
<1>4. CommandTypeOK'
  BY <1>1, <1>3 DEF CommandTypeOK
<1> QED
  BY <1>2, <1>3, <1>4

\* Nobody begins to run: what an end or a reaping does to the processes.
OnlyFewer ==
  /\ member' \in [Members -> [is : {"none", "runs", "away", "ended", "reaped"}, holds : SUBSET Pipes]]
  /\ \A p \in Members : member'[p].is \in {"runs", "away"} => member'[p] = member[p]
  /\ member["child"].is # "none" => member'["child"].is # "none"
  /\ member["child"].is = "reaped" => member'["child"].is = "reaped"

\* A killed group and reaped descendants leave fewer alive.
LEMMA KillsAreFewer == ASSUME CommandTypeOK, NEW ps \in SUBSET Members, Kill(ps),
  \A p \in ps : MemberAlive(p) PROVE OnlyFewer
  BY DEF CommandTypeOK, Kill, EndedMember, OnlyFewer, Members, MemberAlive

LEMMA ReapsAreFewer ==
  ASSUME CommandTypeOK, NEW ps \in SUBSET Members, \A p \in ps : ~MemberAlive(p)
    /\ member[p].is # "none",
         member' = [p \in Members |-> [member[p] EXCEPT !.is = IF p \in ps THEN "reaped" ELSE @]]
  PROVE  OnlyFewer
  BY DEF CommandTypeOK, OnlyFewer, Members, MemberAlive

\* What was read stays so when fewer write, and so does an empty group.
LEMMA FewerRead == ASSUME OnlyFewer, Reading, UNCHANGED pipe, running.at # "idle", running'.at # "idle"
                   PROVE Reading'
  BY DEF OnlyFewer, Reading, EndOf, MemberAlive

LEMMA FewerInGroup == OnlyFewer => (Group = {} => Group' = {})
  BY DEF OnlyFewer, Group

\* The command itself.
LEMMA OutputGoesOn == CommandInv /\ OutputStep => CommandInv'
<1> SUFFICES ASSUME CommandInv, OutputStep PROVE CommandInv'
  OBVIOUS
<1> USE CommandAssumption DEF CommandInv, OutputAt
<1>1. "child" \in Members /\ UNCHANGED pipe
  BY DEF Members, OutputStep, SpawnChild, SelectCompletion, TerminateGroup, AwaitChild, KillAll,
     ReapDescendants, DrainPipes,
         SettleReaders
<1>2. ASSUME OnlyFewer, running.at # "idle", running'.at # "idle", Spending', Living',
      token' \in {token, [token EXCEPT !.waiter = "none"]},
             running'.at \in {"idle", "select", "term", "grace", "kill", "wait", "reap", "drain",
               "settle", "done"},
             running'.kind \in {"none", "ok", "refused", "terminated", "undrained"},
             running' = [running EXCEPT !.at = running'.at, !.kind = running'.kind,
               !.spent = running'.spent]
      PROVE  CommandInv'
  <2>1. running'.spent \in 0..Budget + 8
    BY <1>2 DEF Spending, Timeout, Grace, ReapLimit, DrainLimit, CommandTypeOK, Exited
  <2>2. CommandTypeOK'
    BY <1>1, <1>2, <2>1 DEF CommandTypeOK, OnlyFewer
  <2>3. Reading'
    BY <1>1, <1>2, FewerRead
  <2>4. Telling'
    BY <1>2 DEF Telling, CommandTypeOK
  <2> QED
    BY <1>2, <2>2, <2>3, <2>4
<1>3. CASE SpawnChild
  <2>1. running.at = "idle" /\ UNCHANGED <<pipe, token>> /\ Telling'
    BY <1>3 DEF SpawnChild, Telling
  <2>2. CASE OutputGoes("select")
        /\ member' = [member EXCEPT !["child"] = [is |-> "runs", holds |-> Pipes]]
    <3>1. running' = [running EXCEPT !.at = "select"] /\ Spending'
      BY <2>1, <2>2 DEF OutputGoes, Spending, CommandTypeOK
    <3>2. CommandTypeOK'
      BY <2>1, <2>2, <3>1 DEF CommandTypeOK
    <3>3. Reading'
      BY <2>1, <3>1 DEF Reading
    <3>4. member'["child"].is = "runs" /\ running'.kind = "none" /\ running'.at = "select"
      BY <1>1, <2>1, <2>2, <3>1 DEF CommandTypeOK, Spending
    <3> QED
      BY <2>1, <3>1, <3>2, <3>3, <3>4 DEF Living
  <2>3. CASE OutputEnds("refused") /\ UNCHANGED member
    <3>1. running' = [running EXCEPT !.at = "done", !.kind = "refused"] /\ Spending'
      BY <2>1, <2>3 DEF OutputEnds, Spending, CommandTypeOK
    <3>2. CommandTypeOK'
      BY <2>1, <2>3, <3>1 DEF CommandTypeOK
    <3>3. Reading'
      BY <2>1, <3>1 DEF Reading
    <3>4. running'.kind = "refused" /\ running'.at = "done"
      BY <3>1 DEF CommandTypeOK
    <3> QED
      BY <2>1, <3>1, <3>2, <3>3, <3>4 DEF Living
  <2> QED
    BY <1>3, <2>2, <2>3 DEF SpawnChild
<1>4. CASE SelectCompletion
  <2>1. running.at = "select" /\ token' = [token EXCEPT !.waiter = "none"]
    BY <1>4 DEF SelectCompletion
  <2>2. CASE /\ member["child"].is = "ended"
             /\ member' = [member EXCEPT !["child"].is = "reaped"]
             /\ running' = [running EXCEPT !.at = "drain", !.kind = "ok", !.spent = Timeout]
    <3>1. OnlyFewer
      BY <1>1, <2>2 DEF OnlyFewer, CommandTypeOK
    <3>2. running'.at = "drain" /\ running'.kind = "ok" /\ running'.spent = Timeout
          /\ member'["child"].is = "reaped"
      BY <1>1, <2>2 DEF CommandTypeOK
    <3>3. Spending' /\ Living'
      BY <3>2 DEF Spending, Living
    <3> QED
      BY <1>2, <2>1, <2>2, <3>1, <3>2, <3>3
  <2>3. CASE UNCHANGED member
        /\ running' = [running EXCEPT !.at = "term", !.kind = "terminated", !.spent = Timeout]
    <3>1. OnlyFewer
      BY <1>1, <2>3 DEF OnlyFewer, CommandTypeOK
    <3>2. running'.at = "term" /\ running'.kind = "terminated" /\ running'.spent = Timeout
      BY <2>3 DEF CommandTypeOK
    <3>3. member["child"].is # "none"
      BY <2>1 DEF Living, Spending
    <3>4. Spending' /\ Living'
      BY <2>3, <3>2, <3>3 DEF Spending, Living
    <3> QED
      BY <1>2, <2>1, <2>3, <3>1, <3>2, <3>4
  <2> QED
    BY <1>4, <2>2, <2>3 DEF SelectCompletion
\* At work after the select, the child has been started; this is all that is left to show there.
<1>5. ASSUME running.at \in {"term", "grace", "drain", "kill", "wait", "reap", "settle"}, OnlyFewer,
      UNCHANGED token,
             NEW step \in {"grace", "kill", "wait", "reap", "settle", "done"},
             NEW kind \in {"ok", "terminated", "undrained"}, NEW spent,
             running' = [running EXCEPT !.at = step, !.kind = kind, !.spent = spent],
             Spending',
             kind = "ok" => running.kind = "ok",
             step = "done" /\ kind = "ok" => PipesRead,
             step \in {"wait", "reap", "settle"} \/ (step = "done" /\ kind # "ok") => Group' = {}
      PROVE  CommandInv'
  <2>1. running'.at = step /\ running'.kind = kind /\ running'.spent = spent
    BY <1>5 DEF CommandTypeOK
  <2>2. running.kind # "refused" /\ member'["child"].is # "none"
    BY <1>5 DEF Spending, Living, OnlyFewer
  <2>3. PipesRead => PipesRead'
    BY <1>1 DEF PipesRead
  <2>4. Living'
    BY <1>1, <1>5, <2>1, <2>2, <2>3 DEF Living, OnlyFewer
  <2> QED
    BY <1>2, <1>5, <2>1, <2>4
<1>6. CASE TerminateGroup
  <2>1. PICK ps \in SUBSET Group : Kill(ps)
    BY <1>6 DEF TerminateGroup
  <2>2. OnlyFewer
    BY <2>1, KillsAreFewer DEF Group, MemberAlive
  <2>3. /\ running.at = "term" /\ running' = [running EXCEPT !.at = "grace"] /\ UNCHANGED token
        /\ running.kind = "terminated" /\ running.spent = Timeout
    BY <1>6 DEF TerminateGroup, OutputGoes, Spending
  <2>4. running' = [running EXCEPT !.at = "grace", !.kind = "terminated", !.spent = Timeout]
    BY <2>3 DEF CommandTypeOK
  <2>5. Spending'
    BY <2>4 DEF Spending, CommandTypeOK
  <2> QED
    BY <1>5, <2>2, <2>3, <2>4, <2>5
<1>7. ASSUME NEW step, NEW next, NEW limit, AwaitChild(step, next, limit)
      PROVE  OnlyFewer /\ running.at = step
        /\ running' = [running EXCEPT !.at = next, !.spent = @ + limit] /\ UNCHANGED token
  BY <1>1, <1>7 DEF AwaitChild, Waits, OnlyFewer, CommandTypeOK, MemberAlive
<1>8. CASE AwaitChild("grace", "kill", Grace)
  <2>1. /\ OnlyFewer /\ running.at = "grace"
        /\ running' = [running EXCEPT !.at = "kill", !.spent = @ + Grace] /\ UNCHANGED token
        /\ running.kind = "terminated" /\ running.spent = Timeout
    BY <1>7, <1>8 DEF Spending
  <2>2. running' = [running EXCEPT !.at = "kill", !.kind = "terminated", !.spent = Timeout + Grace]
    BY <2>1 DEF CommandTypeOK
  <2>3. Spending'
    BY <2>2 DEF Spending, CommandTypeOK, Exited
  <2> QED
    BY <1>5, <2>1, <2>2, <2>3
<1>9. CASE KillAll
  <2>1. /\ running.at = "kill" /\ Kill(Group) /\ UNCHANGED token
        /\ running' = [running EXCEPT !.at = IF Exited THEN "reap" ELSE "wait"]
    BY <1>9 DEF KillAll, OutputGoes
  <2>2. OnlyFewer
    BY <2>1, KillsAreFewer DEF Group, MemberAlive
  <2>3. Group' = {}
    BY <2>1 DEF Kill, Group, EndedMember
  <2>4. running' = [running EXCEPT !.at = IF Exited THEN "reap" ELSE "wait", !.kind = running.kind,
        !.spent = running.spent]
    BY <2>1 DEF CommandTypeOK
  <2>5. Spending'
    BY <2>1, <2>4 DEF Spending, CommandTypeOK, Exited
  <2>6. running.kind \in {"terminated", "undrained"}
    BY <2>1 DEF Spending
  <2>7. PICK step \in {"reap", "wait"}, kind \in {"terminated", "undrained"}, spent \in 0..Budget + 8 :
           running' = [running EXCEPT !.at = step, !.kind = kind, !.spent = spent]
    BY <2>4, <2>6 DEF CommandTypeOK
  <2> QED
    BY <1>5, <2>1, <2>2, <2>3, <2>5, <2>7
<1>10. CASE AwaitChild("wait", "reap", ReapLimit)
  <2>1. /\ OnlyFewer /\ running.at = "wait"
        /\ running' = [running EXCEPT !.at = "reap", !.spent = @ + ReapLimit] /\ UNCHANGED token
        /\ running.kind = "terminated" /\ running.spent = Timeout + Grace
    BY <1>7, <1>10 DEF Spending
  <2>2. running' = [running EXCEPT !.at = "reap", !.kind = "terminated",
        !.spent = Timeout + Grace + ReapLimit]
    BY <2>1 DEF CommandTypeOK
  <2>3. Spending'
    BY <2>2 DEF Spending, CommandTypeOK, Exited, Timeout, Grace, ReapLimit
  <2>4. Group' = {}
    BY <2>1, FewerInGroup DEF Living
  <2> QED
    BY <1>5, <2>1, <2>2, <2>3, <2>4
<1>11. CASE ReapDescendants
  <2>1. PICK ps \in SUBSET {p \in Members : member[p].is = "ended"} :
          member' = [p \in Members |-> [member[p] EXCEPT !.is = IF p \in ps THEN "reaped" ELSE @]]
    BY <1>11 DEF ReapDescendants
  <2>2. OnlyFewer
    BY <2>1, ReapsAreFewer DEF MemberAlive
  <2>3. /\ running.at = "reap" /\ UNCHANGED token
        /\ running' = [running EXCEPT !.at = IF Exited THEN "done" ELSE "settle",
           !.spent = @ + ReapLimit]
    BY <1>11 DEF ReapDescendants, Waits
  <2>4. /\ running.kind \in {"terminated", "undrained"}
        /\ running.spent = Timeout + (IF Exited THEN DrainLimit ELSE Grace + ReapLimit)
    BY <2>3 DEF Spending
  <2>5. running' = [running EXCEPT !.at = IF Exited THEN "done" ELSE "settle", !.kind = running.kind,
        !.spent = running.spent + ReapLimit]
    BY <2>3 DEF CommandTypeOK
  <2>6. Spending'
    BY <2>4, <2>5 DEF Spending, CommandTypeOK, Exited, Timeout, Grace, ReapLimit, DrainLimit
  <2>7. Group' = {}
    BY <2>2, <2>3, FewerInGroup DEF Living
  <2> QED
    <3>1. CASE Exited
      BY <1>5, <2>2, <2>3, <2>4, <2>5, <2>6, <2>7, <3>1
    <3>2. CASE ~Exited
      BY <1>5, <2>2, <2>3, <2>4, <2>5, <2>6, <2>7, <3>2
    <3> QED
      BY <3>1, <3>2
<1>12. CASE DrainPipes
  <2>1. running.at = "drain" /\ UNCHANGED <<member, token>> /\ running.kind = "ok"
        /\ running.spent = Timeout
    BY <1>12 DEF DrainPipes, Spending
  <2>2. OnlyFewer
    BY <2>1 DEF OnlyFewer, CommandTypeOK
  <2>3. CASE PipesRead /\ OutputEnds("ok")
    <3>1. running' = [running EXCEPT !.at = "done", !.kind = "ok", !.spent = Timeout]
      BY <2>1, <2>3 DEF OutputEnds, CommandTypeOK
    <3>2. Spending'
      BY <3>1 DEF Spending, CommandTypeOK, Timeout
    <3> QED
      BY <1>5, <2>1, <2>2, <2>3, <3>1, <3>2
  <2>4. CASE running' = [running EXCEPT !.at = "kill", !.kind = "undrained", !.spent = @ + DrainLimit]
    <3>1. running' = [running EXCEPT !.at = "kill", !.kind = "undrained",
          !.spent = Timeout + DrainLimit]
      BY <2>1, <2>4 DEF CommandTypeOK
    <3>2. Spending'
      BY <3>1 DEF Spending, CommandTypeOK, Exited
    <3> QED
      BY <1>5, <2>1, <2>2, <3>1, <3>2
  <2> QED
    BY <1>12, <2>3, <2>4 DEF DrainPipes
<1>13. CASE SettleReaders
  <2>1. /\ running.at = "settle" /\ UNCHANGED <<member, token>> /\ running.kind = "terminated"
        /\ running.spent = Timeout + Grace + 2 * ReapLimit
        /\ running' = [running EXCEPT !.at = "done", !.spent = @ + DrainLimit]
    BY <1>13 DEF SettleReaders, Spending, Waits
  <2>2. OnlyFewer /\ Group' = {}
    BY <2>1 DEF OnlyFewer, CommandTypeOK, Living, Group
  <2>3. running' = [running EXCEPT !.at = "done", !.kind = "terminated",
        !.spent = running.spent + DrainLimit]
    BY <2>1 DEF CommandTypeOK
  <2>4. Spending'
    BY <2>1, <2>3 DEF Spending, CommandTypeOK, Timeout, Grace, ReapLimit, DrainLimit
  <2> QED
    BY <1>5, <2>1, <2>2, <2>3, <2>4
<1> QED
  BY <1>3, <1>4, <1>6, <1>8, <1>9, <1>10, <1>11, <1>12, <1>13 DEF OutputStep

LEMMA ExecutionKeeps == CommandInv /\ [CommandNext]_commandVars => CommandInv'
<1>1. CommandInv /\ UNCHANGED commandVars => CommandInv'
  BY DEF CommandInv, commandVars, CommandTypeOK, Spending, Reading, Living, Telling, EndOf,
     MemberAlive, PipesRead, Group, Exited
<1> QED
  BY <1>1, ProcessesRun, CancelsTell, OutputGoesOn DEF CommandNext

\* Whatever the command does and whatever becomes of its processes, who starts it is told its
\* whole output or that it was terminated, nothing of its group goes on after that, it hears a
\* cancellation, and it is back within the time its caller allows (process.rs output).
THEOREM CommandsEnd == CommandSpec => []CommandsEndCleanly
  BY ExecutionKeeps, CommandStart, CommandStopsClean, PTL DEF CommandSpec

\* What was sent, read and kept stays within the limits of pipe and capture, and the time a
\* command may have taken is never far beyond its budget.
THEOREM CommandTypesHold == CommandSpec => []CommandTypeOK
  BY CommandStart, ExecutionKeeps, PTL DEF CommandSpec, CommandInv

-----------------------------------------------------------------------------
(***************************************************************************)
(* The relay, for any number of starts, keepers and clients.  The flock    *)
(* makes the living keeper unique; a keeper of a start that failed was     *)
(* killed before it was accepted; and what a stop records and answers      *)
(* follows from the step it was taken in.                                  *)
(***************************************************************************)

\* One step of each kind keeps the types.
LEMMA RelayTypeStep == RelayTypeOK /\ [RelayNext]_relayVars => RelayTypeOK'
<1>. SUFFICES ASSUME RelayTypeOK, [RelayNext]_relayVars PROVE RelayTypeOK'
  OBVIOUS
<1>. USE DEF RelayTypeOK, LaunchGoes, RelayGoes, Records, clientVars, LiveSteps, ListeningSteps
<1>1. ASSUME NEW k \in Relays, LaunchStep(k) PROVE RelayTypeOK'
  BY <1>1 DEF LaunchStep, StartLists, StartUnanswered, StartAccepts, StartIsOk, StartEnds, StarterDies, KilledBy
<1>2. ASSUME NEW k \in Relays, RelayStep(k) PROVE RelayTypeOK'
  BY <1>2 DEF RelayStep, KeeperLocks, KeeperPrepares, KeeperOffers, KeeperAccepted,
              KeeperFails, KeeperKilled, KeeperLeaves
<1>3. ASSUME NEW k \in Relays, RelayStopStep(k) PROVE RelayTypeOK'
  <2>. USE DEF RelayClients
  <2>1. ASSUME NEW c \in RelayStops, StopTaken(k, c) PROVE RelayTypeOK'
    BY <2>1 DEF StopTaken, ClientGoes
  <2>2. CASE StudioConfirms(k)
    <3>1. guest' \in [studio : BOOLEAN, active : BOOLEAN]
      <4>1. guest.active \in BOOLEAN
        OBVIOUS
      <4>2. \E a \in BOOLEAN : guest' = [studio |-> FALSE, active |-> a]
        BY <2>2, <4>1 DEF StudioConfirms
      <4>. QED  BY <4>2
    <3>. QED  BY <2>2, <3>1 DEF StudioConfirms
  <2>3. ASSUME NEW step \in {"done", "refused"}, StopAnswered(k, step)
        PROVE  client' \in [RelayClients -> [at : {"idle", "listing", "asking", "taken", "done", "over", "refused"},
                                             of : SUBSET Relays, todo : SUBSET Relays]]
    BY <2>3 DEF StopAnswered
  <2>4. CASE StudioRefuses(k)
    BY <2>3, <2>4 DEF StudioRefuses
  <2>5. CASE RuntimeStops(k)
    BY <2>3, <2>5 DEF RuntimeStops
  <2>6. CASE RuntimeBusy(k)
    BY <2>3, <2>6 DEF RuntimeBusy
  <2>. QED  BY <1>3, <2>1, <2>2, <2>4, <2>5, <2>6 DEF RelayStopStep
<1>4. ASSUME NEW c \in RelayClients, ClientStep(c) PROVE RelayTypeOK'
  BY <1>4 DEF ClientStep, AskBegins, StopBegins, Ask, Answered, ClientGoes, Listed
<1>5. CASE StudioCloses \/ RuntimeIsStopped
  BY <1>5 DEF StudioCloses, RuntimeIsStopped
<1>6. CASE UNCHANGED relayVars
  BY <1>6 DEF relayVars
<1>. QED  BY <1>1, <1>2, <1>3, <1>4, <1>5, <1>6 DEF RelayNext

LEMMA RelayTypeInit == RelayInit => RelayTypeOK
BY DEF RelayInit, RelayTypeOK, NobodyAsked, RelayClients

\* The types, of a relay, its record and its clients (host_service.rs).
THEOREM RelayTypes == RelaySpec => []RelayTypeOK
BY RelayTypeInit, RelayTypeStep, PTL DEF RelaySpec

-----------------------------------------------------------------------------
\* The flock of the Runtime: one living keeper.
OneAlive == \A j, k \in Relays : relay[j] \in LiveSteps /\ relay[k] \in LiveSteps => j = k

\* What the outcome of a start says of its keeper.
StartsTell ==
  \A k \in Relays :
    /\ launch[k] \in {"idle", "reused"} => relay[k] = "none"
    /\ launch[k] = "failed" => relay[k] \notin LiveSteps

\* What a keeper knows of the Runtime and of Studio while it stops them.
StopsTell ==
  \A k \in Relays :
    /\ relay[k] \in {"closing", "leaving"} /\ ~seen[k] => ~guest.active
    /\ relay[k] = "leaving" => ~guest.studio
    /\ relayRec[k] = "stopped" => ~guest.active

\* The inductive invariant.
RelayInv == RelayTypeOK /\ OneAlive /\ StartsTell /\ StopsTell /\ StopSawStudioGo

LEMMA RelayInvInit == RelayInit => RelayInv
BY RelayTypeInit DEF RelayInit, RelayInv, OneAlive, StartsTell, StopsTell, StopSawStudioGo, LiveSteps, NobodyAsked, RelayClients

\* A start moves its own keeper only to its death.
LEMMA LaunchKeeps ==
  ASSUME RelayInv, NEW k \in Relays, LaunchStep(k)
  PROVE  OneAlive' /\ StartsTell' /\ StopsTell' /\ StopSawStudioGo'
<1>. USE DEF RelayInv, RelayTypeOK, OneAlive, StartsTell, StopsTell, StopSawStudioGo, LaunchGoes, RelayGoes,
             clientVars, LiveSteps
<1>1. CASE StartLists(k)
  BY <1>1 DEF StartLists
<1>2. CASE StartUnanswered(k)
  BY <1>2 DEF StartUnanswered
<1>3. CASE StartAccepts(k) \/ StartIsOk(k) \/ StarterDies(k)
  BY <1>3 DEF StartAccepts, StartIsOk, StarterDies
<1>4. CASE StartEnds(k)
  BY <1>4 DEF StartEnds, KilledBy
<1>. QED  BY <1>1, <1>2, <1>3, <1>4 DEF LaunchStep

\* A keeper comes to life only when none is alive.
LEMMA RelayKeeps ==
  ASSUME RelayInv, NEW k \in Relays, RelayStep(k)
  PROVE  OneAlive' /\ StartsTell' /\ StopsTell' /\ StopSawStudioGo'
<1>. USE DEF RelayInv, RelayTypeOK, OneAlive, StartsTell, StopsTell, StopSawStudioGo, RelayGoes, Records,
             clientVars, LiveSteps
<1>1. CASE KeeperLocks(k)
  BY <1>1 DEF KeeperLocks
<1>2. CASE KeeperPrepares(k) \/ KeeperAccepted(k) \/ KeeperFails(k) \/ KeeperKilled(k)
  BY <1>2 DEF KeeperPrepares, KeeperAccepted, KeeperFails, KeeperKilled
<1>3. CASE KeeperOffers(k)
  BY <1>3 DEF KeeperOffers
<1>4. CASE KeeperLeaves(k)
  BY <1>4 DEF KeeperLeaves
<1>. QED  BY <1>1, <1>2, <1>3, <1>4 DEF RelayStep

\* A stop records and answers what its step has seen to.
LEMMA StopKeeps ==
  ASSUME RelayInv, NEW k \in Relays, RelayStopStep(k)
  PROVE  OneAlive' /\ StartsTell' /\ StopsTell' /\ StopSawStudioGo'
<1>. USE DEF RelayInv, RelayTypeOK, OneAlive, StartsTell, StopsTell, StopSawStudioGo, RelayGoes, Records,
             LiveSteps, RelayClients
<1>1. ASSUME NEW c \in RelayStops, StopTaken(k, c) PROVE OneAlive' /\ StartsTell' /\ StopsTell' /\ StopSawStudioGo'
  BY <1>1 DEF StopTaken, ClientGoes
<1>2. CASE StudioConfirms(k)
  BY <1>2 DEF StudioConfirms
<1>3. CASE StudioRefuses(k)
  BY <1>3 DEF StudioRefuses, StopAnswered
<1>4. CASE RuntimeStops(k)
  BY <1>4 DEF RuntimeStops, StopAnswered
<1>5. CASE RuntimeBusy(k)
  BY <1>5 DEF RuntimeBusy, StopAnswered
<1>. QED  BY <1>1, <1>2, <1>3, <1>4, <1>5 DEF RelayStopStep

\* A client changes nothing but itself, and only a status ends as done.
LEMMA ClientKeeps ==
  ASSUME RelayInv, NEW c \in RelayClients, ClientStep(c)
  PROVE  OneAlive' /\ StartsTell' /\ StopsTell' /\ StopSawStudioGo'
<1>. USE DEF RelayInv, RelayTypeOK, OneAlive, StartsTell, StopsTell, StopSawStudioGo, ClientGoes, RelayClients
<1>1. CASE AskBegins(c)
  BY <1>1, RelayAssumption DEF AskBegins
<1>2. ASSUME NEW k \in Relays, StopBegins(c, k) PROVE OneAlive' /\ StartsTell' /\ StopsTell' /\ StopSawStudioGo'
  BY <1>2 DEF StopBegins
<1>3. ASSUME NEW k \in Relays, Ask(c, k) PROVE OneAlive' /\ StartsTell' /\ StopsTell' /\ StopSawStudioGo'
  BY <1>3 DEF Ask
<1>4. CASE Answered(c)
  BY <1>4, RelayAssumption DEF Answered
<1>. QED  BY <1>1, <1>2, <1>3, <1>4 DEF ClientStep

LEMMA RelayInvStep == RelayInv /\ [RelayNext]_relayVars => RelayInv'
<1>. SUFFICES ASSUME RelayInv, [RelayNext]_relayVars PROVE OneAlive' /\ StartsTell' /\ StopsTell' /\ StopSawStudioGo'
  BY RelayTypeStep DEF RelayInv
<1>1. CASE \E k \in Relays : LaunchStep(k) \/ RelayStep(k) \/ RelayStopStep(k)
  BY <1>1, LaunchKeeps, RelayKeeps, StopKeeps
<1>2. CASE \E c \in RelayClients : ClientStep(c)
  BY <1>2, ClientKeeps
<1>3. CASE StudioCloses \/ RuntimeIsStopped
  BY <1>3 DEF StudioCloses, RuntimeIsStopped, RelayInv, RelayTypeOK, OneAlive, StartsTell, StopsTell, StopSawStudioGo
<1>4. CASE UNCHANGED relayVars
  BY <1>4 DEF relayVars, RelayInv, OneAlive, StartsTell, StopsTell, StopSawStudioGo
<1>. QED  BY <1>1, <1>2, <1>3, <1>4 DEF RelayNext

LEMMA RelayInvariant == RelaySpec => []RelayInv
BY RelayInvInit, RelayInvStep, PTL DEF RelaySpec

-----------------------------------------------------------------------------
\* No two keepers of a Runtime listen (the flock in keeper): two starts that
\* both saw no relay leave one.
THEOREM OneRelayServes == RelaySpec => []OneRelay
<1>1. RelayInv => OneRelay
  <2>. SUFFICES ASSUME RelayInv PROVE Cardinality({k \in Relays : relay[k] \in ListeningSteps}) <= 1
    BY DEF OneRelay
  <2>. DEFINE S == {k \in Relays : relay[k] \in ListeningSteps}
  <2>1. S = {} \/ \E k \in Relays : S = {k}
    BY DEF RelayInv, OneAlive, ListeningSteps
  <2>2. Cardinality(S) <= 1
    BY <2>1, FS_EmptySet, FS_Singleton
  <2>. QED  BY <2>2
<1>. QED  BY <1>1, RelayInvariant, PTL

\* A start that reports a failure has no relay that serves (PendingChild).
THEOREM FailedStartIsAlone == RelaySpec => []FailedStartServesNothing
<1>1. RelayInv => FailedStartServesNothing
  BY DEF RelayInv, StartsTell, FailedStartServesNothing, LiveSteps
<1>. QED  BY <1>1, RelayInvariant, PTL

\* A relay is recorded as stopped only for a Runtime that is stopped, and a stop
\* answered as done has seen Studio go (stop_dependency, mark_inactive).
THEOREM StoppedTogether == RelaySpec => [](StoppedWithItsRuntime /\ StopSawStudioGo)
<1>1. RelayInv => StoppedWithItsRuntime /\ StopSawStudioGo
  BY DEF RelayInv, StopsTell, StoppedWithItsRuntime
<1>. QED  BY <1>1, RelayInvariant, PTL

\* All of it together, as the runs check it (host_service.rs).
THEOREM OneRelayAtATime == RelaySpec => []OneRelayToTheEnd
<1>1. OneRelay /\ FailedStartServesNothing /\ StoppedWithItsRuntime /\ StopSawStudioGo => OneRelayToTheEnd
  BY DEF OneRelayToTheEnd
<1>. QED  BY <1>1, OneRelayServes, FailedStartIsAlone, StoppedTogether, PTL

(***************************************************************************)
(* A portable Runtime from its start to its end, for any number of status, *)
(* wait and stop commands.  The first process lives only while a           *)
(* supervisor has it in its care; what the record says of it follows from  *)
(* where its supervisor is; and what a command carries away from a record  *)
(* it read is what the record may still become.                            *)
(***************************************************************************)

\* The supervisor has the Runtime in its care.
InCare == {"spawned", "running", "readied", "responded", "monitor"}
Over == {"exited", "killed"}

PortableTypes ==
  /\ srec \in RecordType
  /\ starter \in {"idle", "recorded", "spawned", "registered", "waiting",
                  "accepting", "ok", "failed", "killed"}
  /\ said \subseteq {"payload", "response", "accept", "accepted"}
  /\ sup \in SupSteps
  /\ tree \subseteq {"first", "descendant"}
  /\ request \in BOOLEAN
  /\ cmd \in [Commands -> [at : {"idle", "loaded", "waiting", "cut", "swept", "done"},
                           rec : RecordType]]

\* How far the starter is says how far the supervisor can be, and what is in the record.
StartFits ==
  /\ starter \in {"idle", "recorded"} => sup = "none"
  /\ starter = "spawned" => sup \in {"payload", "killed"}
  /\ starter \in {"registered", "waiting", "accepting", "ok"} => sup # "none" /\ srec.sup
  /\ starter \in {"idle", "recorded", "spawned", "registered"} => said = {}
  /\ sup \notin {"none", "payload"} \union Over => "payload" \in said
  /\ starter = "ok" => "accepted" \in said
  /\ "accepted" \in said => sup \in {"monitor", "failing", "stopping", "recorded"} \union Over
  /\ starter = "failed" => sup \notin {"monitor", "stopping"}

\* Where the first process can be alive, and where nothing is.
TreeFits ==
  /\ "first" \in tree => sup \in InCare
  /\ sup \in {"none", "payload", "exited"} => tree = {}

\* What the record says of the Runtime, up to the moment it is there.
RecordFits ==
  /\ srec.state \in Ended => "first" \notin tree /\ sup \notin {"none", "payload"}
  /\ srec.state \in {"running", "ready"} => srec.sup /\ srec.run

\* A command has a record of a session that was started.
CommandsFit ==
  \A c \in Commands :
    /\ cmd[c].at # "idle" => starter = "ok" /\ cmd[c].rec.sup
    /\ cmd[c].at # "idle" /\ cmd[c].rec.state \in Ended => "first" \notin tree
    /\ cmd[c].at = "swept" => sup \in Over
    /\ cmd[c].at = "done" /\ c \in Stoppers => "first" \notin tree

PortableInv == PortableTypes /\ StartFits /\ TreeFits /\ RecordFits /\ CommandsFit

\* A step that starts no Runtime and revives no supervisor leaves the commands what they know.
LEMMA CommandsStay ==
  ASSUME PortableInv, cmd' = cmd, starter' = starter \/ starter # "ok",
         starter # "ok" \/ (("first" \in tree' => "first" \in tree) /\ (sup \in Over => sup' \in Over))
  PROVE  CommandsFit'
  BY DEF PortableInv, CommandsFit

\* What a group that was signalled leaves: without its first process it is not reached.
LEMMA Signalled ==
  ASSUME NEW t \in SUBSET {"first", "descendant"}
  PROVE  KillGroup(t) \subseteq t /\ "first" \notin KillGroup(t)
  BY DEF KillGroup

LEMMA SupervisorDies ==
  ASSUME PortableTypes, TreeFits, KillSupervisor
  PROVE  /\ sup' \in SupSteps /\ tree' \subseteq tree /\ "first" \notin tree'
         /\ sup' = (IF SupAlive THEN "killed" ELSE sup)
         /\ sup \in {"none", "exited"} => tree' = {}
  BY DEF KillSupervisor, SupAlive, TreeFits, SupSteps, InCare, PortableTypes

LEMMA StarterKeeps == ASSUME PortableInv, StartStep PROVE PortableInv'
<1> USE DEF PortableInv, PortableTypes, StartFits, TreeFits, RecordFits
<1>1. CASE StartRecord
  BY <1>1, CommandsStay DEF StartRecord, NoRec, RecordType, RecordStates, Ended
<1>2. CASE StartSpawn
  BY <1>2, CommandsStay DEF StartSpawn, SupSteps, InCare, Ended, Over
<1>3. CASE StartRegister
  BY <1>3, CommandsStay DEF StartRegister, RecordType, RecordStates, Ended
<1>4. CASE StartHandshake
  BY <1>4, CommandsStay DEF StartHandshake
<1>5. CASE StartAccept
  BY <1>5, CommandsStay DEF StartAccept
<1>6. CASE StartReturns
  BY <1>6, CommandsStay DEF StartReturns
<1> QED
  BY <1>1, <1>2, <1>3, <1>4, <1>5, <1>6 DEF StartStep

LEMMA SupervisorKeeps == ASSUME PortableInv, SupStep \/ SupSpawnFails \/ SupWriteFails PROVE PortableInv'
<1> USE DEF PortableInv, PortableTypes, StartFits, TreeFits, RecordFits, SupSteps, supRest, InCare,
            Over, Ended
<1>1. CASE SupPayload
  <2>1. CASE "payload" \in said /\ sup' = "spawned" /\ tree' = {"first"} /\ UNCHANGED <<srec, said>>
    BY <1>1, <2>1, CommandsStay DEF SupPayload
  <2>2. CASE StarterGone /\ sup' = "exited" /\ (IF srec.sup THEN SupWrite("failed", FALSE) ELSE UNCHANGED srec)
             /\ UNCHANGED <<said, tree>>
    <3>1. starter \in {"failed", "killed"} /\ tree' = {} /\ said' = said
      BY <1>1, <2>2 DEF SupPayload, StarterGone
    <3>2. /\ srec' \in RecordType
          /\ srec'.state \in {"running", "ready"} => srec'.sup /\ srec'.run
      <4>1. CASE srec.sup
        <5>1. srec' = [state |-> "failed", sup |-> TRUE, run |-> FALSE]
          BY <2>2, <4>1 DEF SupWrite
        <5> QED
          BY <5>1 DEF RecordType, RecordStates
      <4>2. CASE ~srec.sup
        BY <2>2, <4>2
      <4> QED
        BY <4>1, <4>2
    <3>3. CommandsFit'
      BY <1>1, <2>2, <3>1, CommandsStay DEF SupPayload
    <3> QED
      BY <1>1, <2>2, <3>1, <3>2, <3>3 DEF SupPayload
  <2> QED
    BY <1>1, <2>1, <2>2 DEF SupPayload
<1>2. CASE SupRunning
  BY <1>2, CommandsStay DEF SupRunning, SupWrite, RecordType, RecordStates
<1>3. CASE SupReady
  BY <1>3, CommandsStay DEF SupReady, SupWrite, RecordType, RecordStates
<1>4. CASE SupInitFails
  BY <1>4, CommandsStay, Signalled DEF SupInitFails
<1>5. CASE SupRespond
  BY <1>5, CommandsStay DEF SupRespond, StarterGone
<1>6. CASE SupAccepted
  BY <1>6, CommandsStay DEF SupAccepted, StarterGone
<1>7. CASE SupNotAccepted
  BY <1>7, CommandsStay, Signalled DEF SupNotAccepted
<1>8. CASE SupStopRequested
  BY <1>8, CommandsStay, Signalled DEF SupStopRequested
<1>9. CASE SupRuntimeExited
  BY <1>9, CommandsStay DEF SupRuntimeExited
<1>10. CASE SupEnd
  BY <1>10, CommandsStay DEF SupEnd, SupWrite, RecordType, RecordStates
<1>11. CASE SupExit
  BY <1>11, CommandsStay DEF SupExit
<1>12. CASE SupSpawnFails
  BY <1>12, CommandsStay DEF SupSpawnFails, SupWrite, RecordType, RecordStates
<1>13. CASE SupWriteFails
  BY <1>13, CommandsStay DEF SupWriteFails
<1> QED
  BY <1>1, <1>2, <1>3, <1>4, <1>5, <1>6, <1>7, <1>8, <1>9, <1>10, <1>11, <1>12, <1>13 DEF SupStep

LEMMA AccidentKeeps ==
  ASSUME PortableInv,
         StartGivesUp \/ StarterKilled \/ RuntimeForks \/ RuntimeExits \/ SupervisorKilled
  PROVE  PortableInv'
<1> USE DEF PortableInv, PortableTypes, StartFits, TreeFits, RecordFits, SupSteps, InCare, Over, Ended
<1>1. CASE StartGivesUp
  <2>1. /\ starter \notin {"idle", "ok", "failed", "killed"} /\ starter' = "failed"
        /\ srec' = srec /\ said' = said /\ request' = request /\ cmd' = cmd
    BY <1>1 DEF StartGivesUp
  <2>2. CASE starter \in {"recorded", "spawned"}
    BY <1>1, <2>1, <2>2, CommandsStay DEF StartGivesUp
  <2>3. CASE starter \notin {"recorded", "spawned"}
    <3>1. KillSupervisor
      BY <1>1, <2>1, <2>3 DEF StartGivesUp
    <3> QED
      BY <2>1, <3>1, SupervisorDies, CommandsStay DEF SupAlive
  <2> QED
    BY <2>2, <2>3
<1>2. CASE StarterKilled
  BY <1>2, CommandsStay DEF StarterKilled
<1>3. CASE RuntimeForks
  BY <1>3, CommandsStay DEF RuntimeForks
<1>4. CASE RuntimeExits
  BY <1>4, CommandsStay DEF RuntimeExits
<1>5. CASE SupervisorKilled
  BY <1>5, SupervisorDies, CommandsStay DEF SupervisorKilled, SupAlive
<1> QED
  BY <1>1, <1>2, <1>3, <1>4, <1>5

\* A command goes on with what it knows, and writes at most what is so.
Knows(c, at, rec) ==
  /\ cmd' = [cmd EXCEPT ![c] = [at |-> at, rec |-> rec]]
  /\ at \in {"loaded", "waiting", "cut", "swept", "done"} /\ rec \in RecordType /\ rec.sup
  /\ rec.state \in Ended => "first" \notin tree'
  /\ at = "swept" => sup' \in Over
  /\ at = "done" /\ c \in Stoppers => "first" \notin tree'
  /\ srec' = srec \/ (srec' = rec /\ rec.state \in Ended)

LEMMA CommandKeeps == ASSUME PortableInv, NEW c \in Commands, LoadRecord(c) \/ CommandStep(c) PROVE PortableInv'
<1>1. /\ PortableTypes /\ StartFits /\ TreeFits /\ RecordFits /\ CommandsFit
      /\ Observers \intersect Stoppers = {}
  BY PortableAssumption DEF PortableInv
<1>2. starter' = starter /\ said' = said /\ starter = "ok"
  BY <1>1 DEF LoadRecord, CommandStep, StatusSweep, StatusWrite, RequestStop, StopPoll, StopCut, StopWrite,
       CommandsFit
<1>3. sup \notin {"none", "payload"} /\ srec.sup
  BY <1>1, <1>2 DEF StartFits, Over
<1>4. /\ sup' \in {sup, "killed"} /\ (sup' = "killed" => "first" \notin tree')
      /\ tree' \subseteq tree /\ request' \in BOOLEAN
  <2>1. CASE UNCHANGED <<sup, tree>> /\ request' \in {request, TRUE}
    BY <1>1, <2>1 DEF PortableTypes, TreeFits, InCare
  <2>2. CASE StatusSweep(c)
    BY <1>1, <2>2, Signalled DEF PortableTypes, TreeFits, InCare, StatusSweep
  <2>3. CASE StopCut(c)
    BY <1>1, <2>3, Signalled DEF PortableTypes, TreeFits, InCare, StopCut, SupAlive
  <2> QED
    BY <2>1, <2>2, <2>3 DEF LoadRecord, CommandStep, StatusWrite, RequestStop, StopPoll, StopWrite
<1>5. cmd[c] \in [at : {"idle", "loaded", "waiting", "cut", "swept", "done"}, rec : RecordType]
  BY <1>1 DEF PortableTypes
<1>6. \E at, rec : Knows(c, at, rec)
  <2> USE DEF SetCmd, Ended
  <2>1. CASE LoadRecord(c)
    <3>1. Knows(c, "loaded", srec)
      BY <1>1, <1>3, <2>1 DEF LoadRecord, Knows, PortableTypes, RecordFits
    <3> QED
      BY <3>1
  <2>2. CASE StatusSweep(c)
    <3>1. cmd[c].at = "loaded" /\ c \notin Stoppers /\ cmd[c].rec.sup /\ srec' = srec
      BY <1>1, <2>2 DEF StatusSweep, CommandsFit
    <3>2. cmd[c].rec.state \in Ended => "first" \notin tree'
      BY <1>1, <1>4, <3>1 DEF CommandsFit
    <3>3. CASE cmd[c].rec.state \in Live /\ ~Supervised(cmd[c].rec)
      <4>1. cmd' = [cmd EXCEPT ![c] = [at |-> "swept", rec |-> cmd[c].rec]] /\ sup' = sup /\ sup \in Over
        BY <1>1, <1>3, <2>2, <3>1, <3>3 DEF StatusSweep, Supervised, SupAlive, Over
      <4>2. Knows(c, "swept", cmd[c].rec)
        BY <1>5, <3>1, <3>2, <4>1 DEF Knows
      <4> QED
        BY <4>2
    <3>4. CASE ~(cmd[c].rec.state \in Live /\ ~Supervised(cmd[c].rec))
      <4>1. Knows(c, "done", cmd[c].rec)
        BY <1>5, <2>2, <3>1, <3>2, <3>4 DEF Knows, StatusSweep
      <4> QED
        BY <4>1
    <3> QED
      BY <3>3, <3>4
  <2>3. CASE StatusWrite(c) \/ StopWrite(c)
    <3>1. PICK state \in Ended :
            /\ srec' = [cmd[c].rec EXCEPT !.state = state] /\ SetCmd(c, "done", srec')
            /\ cmd[c].at = "swept" /\ tree' = tree /\ sup' = sup
      BY <2>3 DEF StatusWrite, StopWrite
    <3> DEFINE rec == [cmd[c].rec EXCEPT !.state = state]
    <3>2. "first" \notin tree' /\ cmd[c].rec.sup
      BY <1>1, <3>1 DEF CommandsFit, TreeFits, InCare, Over
    <3>3. rec \in RecordType /\ rec.sup /\ rec.state = state
      BY <1>5, <3>1, <3>2 DEF RecordType, RecordStates
    <3>4. Knows(c, "done", rec)
      BY <3>1, <3>2, <3>3 DEF Knows
    <3> QED
      BY <3>4
  <2>4. CASE RequestStop(c)
    <3>1. cmd[c].at = "loaded" /\ cmd[c].rec.sup /\ srec' = srec
      BY <1>1, <2>4 DEF RequestStop, CommandsFit
    <3>2. cmd[c].rec.state \in Ended => "first" \notin tree'
      BY <1>1, <1>4, <3>1 DEF CommandsFit
    <3>3. Knows(c, IF cmd[c].rec.state \in Ended THEN "done" ELSE "waiting", cmd[c].rec)
      BY <1>5, <2>4, <3>1, <3>2 DEF Knows, RequestStop
    <3> QED
      BY <3>3
  <2>5. CASE StopPoll(c)
    <3>1. Knows(c, IF srec.state = "stopped" THEN "done" ELSE "cut", srec)
      BY <1>1, <1>3, <2>5 DEF Knows, StopPoll, PortableTypes, RecordFits
    <3> QED
      BY <3>1
  <2>6. CASE StopCut(c)
    <3>1. /\ cmd[c].at = "cut" /\ cmd[c].rec.sup /\ srec' = srec
          /\ cmd' = [cmd EXCEPT ![c] = [at |-> "swept", rec |-> cmd[c].rec]]
      BY <1>1, <2>6 DEF StopCut, CommandsFit
    <3>2. cmd[c].rec.state \in Ended => "first" \notin tree'
      BY <1>1, <1>4, <3>1 DEF CommandsFit
    <3>3. sup' \in Over
      BY <1>1, <1>3, <2>6, <3>1 DEF StopCut, SupAlive, Over, PortableTypes, SupSteps
    <3>4. Knows(c, "swept", cmd[c].rec)
      BY <1>5, <3>1, <3>2, <3>3 DEF Knows
    <3> QED
      BY <3>4
  <2> QED
    BY <2>1, <2>2, <2>3, <2>4, <2>5, <2>6 DEF CommandStep
<1>7. PICK at, rec : Knows(c, at, rec)
  BY <1>6
<1>8. \A d \in Commands : cmd'[d] = IF d = c THEN [at |-> at, rec |-> rec] ELSE cmd[d]
  BY <1>1, <1>7 DEF Knows, PortableTypes
<1>9. PortableTypes'
  BY <1>1, <1>2, <1>4, <1>7 DEF Knows, PortableTypes, SupSteps
<1>10. StartFits'
  BY <1>1, <1>2, <1>3, <1>4, <1>7 DEF Knows, StartFits, Over
<1>11. TreeFits'
  BY <1>1, <1>3, <1>4 DEF TreeFits
<1>12. RecordFits'
  BY <1>1, <1>3, <1>4, <1>7 DEF RecordFits, Knows, Ended
<1>13. CommandsFit'
  BY <1>1, <1>2, <1>4, <1>7, <1>8 DEF CommandsFit, Knows, Over
<1> QED
  BY <1>9, <1>10, <1>11, <1>12, <1>13 DEF PortableInv

LEMMA PortableStart == PortableInit => PortableInv
<1> SUFFICES ASSUME PortableInit PROVE PortableInv
  OBVIOUS
<1>1. NoRec \in RecordType /\ NoRec.state = "none"
  BY DEF NoRec, RecordType, RecordStates
<1>2. PortableTypes
  BY <1>1 DEF PortableInit, PortableTypes, SupSteps
<1>3. StartFits /\ TreeFits /\ RecordFits
  BY <1>1 DEF PortableInit, StartFits, TreeFits, RecordFits, Ended
<1>4. CommandsFit
  BY DEF PortableInit, CommandsFit
<1> QED
  BY <1>2, <1>3, <1>4 DEF PortableInv

LEMMA PortableStep == PortableInv /\ [PortableNext]_portableVars => PortableInv'
<1> SUFFICES ASSUME PortableInv, [PortableNext]_portableVars PROVE PortableInv'
  OBVIOUS
<1>1. CASE UNCHANGED portableVars
  BY <1>1 DEF portableVars, PortableInv, PortableTypes, StartFits, TreeFits, RecordFits, CommandsFit
<1>2. CASE StartStep \/ SupStep \/ Accident
  BY <1>2, StarterKeeps, SupervisorKeeps, AccidentKeeps DEF Accident
<1>3. CASE \E c \in Commands : LoadRecord(c) \/ CommandStep(c)
  BY <1>3, CommandKeeps
<1> QED
  BY <1>1, <1>2, <1>3 DEF PortableNext

\* For any number of status and stop commands, whoever of starter, supervisor, Runtime and
\* commands is killed or gives up, and whenever: a record that says stopped or failed, a
\* supervisor that came to its end, a stop that returned and a start that failed tell the truth
\* about what is still alive.
THEOREM SessionsEnd == PortableSpec => []EndIsTheEnd
<1>1. PortableInv => EndIsTheEnd
  BY DEF PortableInv, StartFits, TreeFits, RecordFits, CommandsFit, EndIsTheEnd, EndedHasNoRuntime,
     SupervisorCleansUp, StopIsDone, FailedStartEnds, Commands
<1> QED
  BY PortableStart, PortableStep, <1>1, PTL DEF PortableSpec

\* Record, pipes, tree and commands have their types, and a session that runs has both identities
\* in its record.
THEOREM PortableTypesHold == PortableSpec => []PortableTypeOK
<1>1. PortableInv => PortableTypeOK
  BY DEF PortableInv, PortableTypes, RecordFits, PortableTypeOK
<1> QED
  BY PortableStart, PortableStep, <1>1, PTL DEF PortableSpec

(***************************************************************************)
(* The packages of a project, for any number of builds, starts and cleans. *)
(* Only the holder of the lock changes what is under a key; the content of *)
(* a package is no older than what was digested for it; and a package that *)
(* is known has every part, as long as no clean removes one.               *)
(***************************************************************************)

Locking == {"cleaning", "locked", "discarding", "building", "staged", "published"}

CommandType == [at : Steps, key : Contents, id : 0..MaxBuilds, of : Contents, success : BOOLEAN,
                copied : SUBSET Parts]

BuildTypes ==
  /\ project \in Contents /\ made \in 0..MaxBuilds
  /\ entries \in [Contents -> EntryType]
  /\ registry \subseteq [id : 1..MaxBuilds, key : Contents]
  /\ lockedBy \subseteq Builders /\ cleaning \in BOOLEAN
  /\ command \in [Builders -> CommandType]

\* Who holds the lock is at a step under it, and only one is.
OneLocks ==
  /\ \A b \in Builders : b \in lockedBy <=> command[b].at \in Locking
  /\ \A b, c \in lockedBy : b = c

\* Nothing is made of a content before it is there: what is under a key, being built for it or
\* in use is at least as new.
NewEnough ==
  /\ \A b \in Builders :
       /\ command[b].key <= project
       /\ command[b].at \in {"staged", "published"} \/ InUseBy(b) => command[b].of >= command[b].key
  /\ \A k \in Contents : entries[k].parts # {} => entries[k].of >= k

\* A package that is being built has a number nobody knows yet.
NumbersFresh ==
  /\ \A r \in registry : r.id <= made
  /\ \A b \in Builders : command[b].at \in {"staged", "published"} =>
       /\ command[b].id \in 1..made
       /\ \A r \in registry : r.id # command[b].id

\* What the one who holds the lock knows of the entry he works on.
EntryFits ==
  \A b \in Builders :
    LET e == entries[command[b].key]
    IN /\ command[b].at = "cleaning" => cleaning
       /\ command[b].at \in {"building", "staged"} => e.id = 0
       /\ command[b].at = "published" =>
            e.id = command[b].id /\ e.success = command[b].success /\ (e.success => e.parts = Parts)

\* Unless somebody cleans: what is discarded was not registered, and what is in use is registered
\* and there.
CacheFitsFor(b) ==
  LET e == entries[command[b].key]
  IN /\ command[b].at = "discarding" => [id |-> e.id, key |-> command[b].key] \notin registry
     /\ InUseBy(b) =>
          /\ e.id = command[b].id /\ e.parts = Parts /\ e.success
          /\ [id |-> command[b].id, key |-> command[b].key] \in registry
     /\ command[b].at = "halfway" => command[b].copied = {"lib"}
     /\ command[b].at = "started" => command[b].copied = {"lib", "app"}
     /\ command[b].at \notin {"halfway", "started", "ended"} => command[b].copied = {}

\* ... and a registered package that is there is whole.
CacheFits ==
  /\ \A r \in registry :
       entries[r.key].id = r.id => entries[r.key].parts = Parts /\ entries[r.key].success
  /\ \A b \in Builders : CacheFitsFor(b)

BuildInv ==
  /\ BuildTypes /\ OneLocks /\ NewEnough /\ NumbersFresh /\ EntryFits
  /\ cleaning \/ CacheFits

LEMMA NoEntryFits == NoEntry \in EntryType /\ NoEntry.id = 0 /\ NoEntry.parts = {}
  BY BuildAssumption DEF NoEntry, EntryType, Contents

\* A part that is removed takes the number along when it is the last.
LEMMA Removed ==
  ASSUME BuildTypes, NEW k \in Contents, NEW p, RemovePart(k, p)
  PROVE  /\ entries' \in [Contents -> EntryType]
         /\ \A j \in Contents \ {k} : entries'[j] = entries[j]
         /\ entries'[k].id \in {entries[k].id, 0}
         /\ entries'[k].parts # {} => entries[k].parts # {} /\ entries'[k].of = entries[k].of
<1> DEFINE less == [entries[k] EXCEPT !.parts = entries[k].parts \ {p}]
<1>1. entries' = [entries EXCEPT ![k] = IF entries[k].parts = {p} THEN NoEntry ELSE less]
      /\ p \in entries[k].parts
  BY DEF RemovePart
<1>2. /\ less \in EntryType /\ less.id = entries[k].id /\ less.of = entries[k].of
      /\ less.parts = entries[k].parts \ {p}
  BY DEF BuildTypes, EntryType
<1> HIDE DEF less
<1> QED
  BY <1>1, <1>2, NoEntryFits DEF BuildTypes

\* What a step says of the steps of all builders, when one of them goes on.
LEMMA OneGoes ==
  ASSUME BuildTypes, NEW b \in Builders, NEW r \in CommandType, command' = [command EXCEPT ![b] = r]
  PROVE  /\ command' \in [Builders -> CommandType]
         /\ command'[b] = r /\ \A c \in Builders \ {b} : command'[c] = command[c]
  BY DEF BuildTypes

LEMMA BuildStart == BuildInit => BuildInv
<1> SUFFICES ASSUME BuildInit PROVE BuildInv
  OBVIOUS
<1> DEFINE r == [at |-> "idle", key |-> 0, id |-> 0, of |-> 0, success |-> FALSE, copied |-> {}]
<1>1. /\ r \in CommandType /\ r.at = "idle" /\ r.key = 0 /\ r.copied = {}
  BY BuildAssumption DEF CommandType, Steps, Contents
<1>2. command = [b \in Builders |-> r] /\ entries = [k \in Contents |-> NoEntry] /\ project = 0
      /\ made = 0 /\ registry = {} /\ lockedBy = {} /\ cleaning = FALSE
  BY DEF BuildInit
<1> HIDE DEF r
<1>3. BuildTypes
  <2>1. entries \in [Contents -> EntryType] /\ command \in [Builders -> CommandType]
    BY <1>1, <1>2, NoEntryFits
  <2> QED
    <3>1. project \in Contents /\ made \in 0..MaxBuilds
      BY <1>2, BuildAssumption DEF Contents
    <3>2. registry \subseteq [id : 1..MaxBuilds, key : Contents] /\ lockedBy \subseteq Builders
          /\ cleaning \in BOOLEAN
      BY <1>2
    <3> QED
      BY <2>1, <3>1, <3>2 DEF BuildTypes
<1>4. OneLocks /\ NumbersFresh /\ EntryFits /\ CacheFits
  BY <1>1, <1>2 DEF OneLocks, NumbersFresh, EntryFits, CacheFits, CacheFitsFor, Locking, InUseBy
<1>5. NewEnough
  BY <1>1, <1>2, NoEntryFits DEF NewEnough, InUseBy
<1> QED
  BY <1>3, <1>4, <1>5 DEF BuildInv

\* The other builders are as they were when b goes on without the cache.
LEMMA OthersStay ==
  ASSUME BuildInv, NEW b \in Builders, NEW r \in CommandType, command' = [command EXCEPT ![b] = r],
         UNCHANGED <<project, made, entries, registry>>, r.key <= project,
         \/ lockedBy' = lockedBy /\ (r.at \in Locking <=> b \in lockedBy)
         \/ lockedBy' = lockedBy \ {b} /\ r.at \notin Locking
         \/ lockedBy = {} /\ lockedBy' = {b} /\ r.at \in Locking,
         cleaning' \in BOOLEAN, cleaning => cleaning',
         r.at \in {"staged", "published"} => FALSE,
         r.at \in {"built", "read", "halfway"} => r.of >= r.key,
         r.at = "cleaning" => cleaning',
         r.at = "building" => entries[r.key].id = 0,
         cleaning' \/
           /\ r.at = "discarding" => [id |-> entries[r.key].id, key |-> r.key] \notin registry
           /\ r.at \in {"built", "read", "halfway"} =>
                /\ entries[r.key].id = r.id /\ entries[r.key].parts = Parts /\ entries[r.key].success
                /\ [id |-> r.id, key |-> r.key] \in registry
           /\ r.at = "halfway" => r.copied = {"lib"}
           /\ r.at = "started" => r.copied = {"lib", "app"}
           /\ r.at \notin {"halfway", "started", "ended"} => r.copied = {}
  PROVE  BuildInv'
<1>1. BuildTypes /\ OneLocks /\ NewEnough /\ NumbersFresh /\ EntryFits /\ (cleaning \/ CacheFits)
  BY DEF BuildInv
<1>2. /\ command' \in [Builders -> CommandType]
      /\ command'[b] = r /\ \A c \in Builders \ {b} : command'[c] = command[c]
  BY <1>1, OneGoes
<1>3. BuildTypes'
  BY <1>1, <1>2 DEF BuildTypes
<1>4. OneLocks'
  BY <1>1, <1>2 DEF OneLocks, BuildTypes
<1>5. NewEnough'
  BY <1>1, <1>2 DEF NewEnough, InUseBy
<1>6. NumbersFresh'
  BY <1>1, <1>2 DEF NumbersFresh
<1>7. EntryFits'
  BY <1>1, <1>2 DEF EntryFits
<1>8. cleaning' \/ CacheFits'
  BY <1>1, <1>2 DEF CacheFits, CacheFitsFor, InUseBy
<1> QED
  BY <1>3, <1>4, <1>5, <1>6, <1>7, <1>8 DEF BuildInv

LEMMA EditKeeps == ASSUME BuildInv, EditProject PROVE BuildInv'
<1>1. /\ project < MaxChanges /\ project' = project + 1
      /\ UNCHANGED <<entries, registry, lockedBy, command, made, cleaning>>
  BY DEF EditProject, cacheVars
<1>2. BuildTypes'
  BY <1>1, BuildAssumption DEF BuildInv, BuildTypes, Contents
<1>3. NewEnough'
  <2>1. \A b \in Builders : command[b].key \in Nat
    BY DEF BuildInv, BuildTypes, CommandType, Contents
  <2> QED
    BY <1>1, <2>1 DEF BuildInv, BuildTypes, NewEnough, InUseBy, Contents
<1> QED
  BY <1>1, <1>2, <1>3 DEF BuildInv, OneLocks, NumbersFresh, EntryFits, CacheFits, CacheFitsFor, InUseBy

\* What a builder knows before it goes on.
LEMMA Known ==
  ASSUME BuildInv, NEW b \in Builders
  PROVE  /\ BuildTypes /\ command[b] \in CommandType /\ command[b].key \in Contents
         /\ command[b].key <= project /\ project \in Contents
         /\ b \in lockedBy <=> command[b].at \in Locking
  BY DEF BuildInv, BuildTypes, NewEnough, OneLocks, CommandType

LEMMA DigestKeeps == ASSUME BuildInv, NEW b \in Builders, Digest(b) PROVE BuildInv'
<1> DEFINE r == [command[b] EXCEPT !.at = "digested", !.key = project]
<1>1. /\ command[b].at = "idle" /\ command' = [command EXCEPT ![b] = r]
      /\ UNCHANGED <<project, made, entries, registry, lockedBy, cleaning>>
  <2>1. command' = [command EXCEPT ![b].at = "digested", ![b].key = project]
    BY DEF Digest
  <2> QED
    BY <2>1, Known DEF Digest, At, frame, cacheVars, BuildTypes, CommandType
<1>2. /\ r \in CommandType /\ r.at = "digested" /\ r.key = project /\ r.copied = command[b].copied
  BY Known DEF CommandType, Steps
<1> HIDE DEF r
<1>3. cleaning \/ r.copied = {}
  BY <1>1, <1>2 DEF BuildInv, CacheFits, CacheFitsFor
<1>4. r.key <= project /\ (r.at \in Locking <=> b \in lockedBy) /\ cleaning \in BOOLEAN
  BY <1>1, <1>2, Known DEF Locking, Contents, BuildTypes
<1> QED
  BY <1>1, <1>2, <1>3, <1>4, OthersStay

\* A step of b that only goes on, to a step that promises nothing of the cache.
LEMMA GoesOn ==
  ASSUME BuildInv, NEW b \in Builders, NEW step \in Steps, GoesTo(b, step),
         UNCHANGED <<project, made, entries, registry>>,
         \/ lockedBy' = lockedBy /\ (step \in Locking <=> b \in lockedBy)
         \/ lockedBy' = lockedBy \ {b} /\ step \notin Locking
         \/ lockedBy = {} /\ lockedBy' = {b} /\ step \in Locking,
         cleaning' \in BOOLEAN, cleaning => cleaning',
         step \in {"cleaning", "locked", "discarding", "building", "read", "ended"},
         step = "cleaning" => cleaning',
         step = "building" => entries[command[b].key].id = 0,
         step = "discarding" /\ ~cleaning' =>
           [id |-> entries[command[b].key].id, key |-> command[b].key] \notin registry,
         step # "ended" => command[b].at \notin {"halfway", "started", "ended"},
         step = "read" => command[b].at = "built"
  PROVE  BuildInv'
<1> DEFINE r == [command[b] EXCEPT !.at = step]
<1>1. command' = [command EXCEPT ![b] = r]
  BY Known DEF GoesTo, BuildTypes
<1>2. /\ r \in CommandType /\ r.at = step /\ r.key = command[b].key /\ r.id = command[b].id
      /\ r.of = command[b].of /\ r.copied = command[b].copied
  BY Known DEF CommandType
<1> HIDE DEF r
<1>3. r.key <= project
  BY <1>2, Known
<1>4. step = "read" => r.of >= r.key
  BY <1>2 DEF BuildInv, NewEnough, InUseBy
<1>5. cleaning' \/ (step # "ended" => r.copied = {})
  BY <1>2 DEF BuildInv, CacheFits, CacheFitsFor
<1>6. cleaning' \/ (step = "read" =>
        /\ entries[r.key].id = r.id /\ entries[r.key].parts = Parts /\ entries[r.key].success
        /\ [id |-> r.id, key |-> r.key] \in registry)
  BY <1>2 DEF BuildInv, CacheFits, CacheFitsFor, InUseBy
<1> QED
  BY <1>1, <1>2, <1>3, <1>4, <1>5, <1>6, OthersStay

LEMMA AcquireKeeps == ASSUME BuildInv, NEW b \in Builders, AcquireLock(b) PROVE BuildInv'
<1>1. /\ command[b].at = "digested" /\ lockedBy = {} /\ lockedBy' = {b} /\ cleaning \in BOOLEAN
      /\ UNCHANGED <<project, made, entries, registry>>
  BY Known DEF AcquireLock, At, frame, cacheVars, BuildTypes
<1>2. \/ GoesTo(b, "locked") /\ cleaning' = cleaning
      \/ GoesTo(b, "cleaning") /\ cleaning' = TRUE
  BY DEF AcquireLock
<1> QED
  BY <1>1, <1>2, GoesOn DEF Locking, Steps

LEMMA EndsKeeps == ASSUME BuildInv, NEW b \in Builders, Ends(b) PROVE BuildInv'
<1>1. /\ GoesTo(b, "ended") /\ lockedBy' = lockedBy \ {b} /\ cleaning \in BOOLEAN
      /\ UNCHANGED <<project, made, entries, registry, cleaning>>
  BY Known DEF Ends, frame, cacheVars, BuildTypes
<1> QED
  BY <1>1, GoesOn DEF Locking, Steps

LEMMA ReadKeeps == ASSUME BuildInv, NEW b \in Builders, ReadBuild(b) PROVE BuildInv'
<1>1. /\ command[b].at = "built" /\ (GoesTo(b, "read") \/ GoesTo(b, "ended")) /\ lockedBy' = lockedBy
      /\ UNCHANGED <<project, made, entries, registry, cleaning>> /\ cleaning \in BOOLEAN
  BY Known DEF ReadBuild, At, frame, cacheVars, BuildTypes
<1>2. b \notin lockedBy
  BY <1>1, Known DEF Locking
<1> QED
  BY <1>1, <1>2, GoesOn DEF Locking, Steps

LEMMA CopyKeeps == ASSUME BuildInv, NEW b \in Builders, CopyDeployment(b) PROVE BuildInv'
<1>1. PICK part \in {"lib", "app"} :
        LET to == IF part = "lib" THEN "halfway" ELSE "started"
            from == IF part = "lib" THEN "read" ELSE "halfway"
        IN CopyPart(b, part, from, to)
  BY DEF CopyDeployment
<1> DEFINE there == entries[command[b].key].parts
           step == IF there \intersect {"lib", "app"} = {} THEN "ended"
                   ELSE IF part = "lib" THEN "halfway" ELSE "started"
           r == [command[b] EXCEPT !.at = step, !.copied = @ \union ({part} \intersect there)]
<1>2. /\ command[b].at = IF part = "lib" THEN "read" ELSE "halfway"
      /\ UNCHANGED <<project, made, entries, registry, lockedBy, cleaning>>
      /\ command' = [command EXCEPT
           ![b].at = step, ![b].copied = @ \union ({part} \intersect there)]
  BY <1>1 DEF CopyPart, At, frame, cacheVars
<1>3. command' = [command EXCEPT ![b] = r]
  BY <1>2, Known DEF BuildTypes, CommandType
<1>4. /\ r \in CommandType /\ r.at = step /\ r.key = command[b].key /\ r.id = command[b].id
      /\ r.of = command[b].of /\ r.copied = command[b].copied \union ({part} \intersect there)
  BY Known DEF CommandType, Steps, Parts
<1> HIDE DEF r
<1>5. r.key <= project /\ b \notin lockedBy /\ r.at \notin Locking /\ cleaning \in BOOLEAN
  BY <1>2, <1>4, Known DEF Locking, BuildTypes
<1>6. r.of >= r.key
  BY <1>2, <1>4 DEF BuildInv, NewEnough, InUseBy
<1>7. cleaning \/
        /\ entries[r.key].id = r.id /\ there = Parts /\ entries[r.key].success
        /\ [id |-> r.id, key |-> r.key] \in registry
        /\ command[b].copied = IF part = "lib" THEN {} ELSE {"lib"}
  BY <1>2, <1>4 DEF BuildInv, CacheFits, CacheFitsFor, InUseBy
<1>8. cleaning \/
        /\ r.at = "halfway" => r.copied = {"lib"}
        /\ r.at = "started" => r.copied = {"lib", "app"}
        /\ r.at \in {"halfway", "started"}
  BY <1>4, <1>7 DEF Parts
<1>9. r.at \in {"halfway", "started", "ended"}
  BY <1>4
<1> QED
  BY <1>2, <1>3, <1>4, <1>5, <1>6, <1>7, <1>8, <1>9, OthersStay

LEMMA LookupKeeps == ASSUME BuildInv, NEW b \in Builders, Lookup(b) PROVE BuildInv'
<1> DEFINE k == command[b].key
<1>1. /\ command[b].at = "locked" /\ b \in lockedBy /\ cleaning \in BOOLEAN
      /\ UNCHANGED <<project, made, entries, registry, cleaning>>
  BY Known DEF Lookup, At, frame, cacheVars, Locking, BuildTypes
<1>2. lockedBy = {b}
  BY <1>1 DEF BuildInv, OneLocks, BuildTypes
<1>3. CASE IsCached(k)
  <2> DEFINE r == [command[b] EXCEPT !.at = "built", !.id = entries[k].id, !.of = entries[k].of]
  <2>1. lockedBy' = {} /\ command' = [command EXCEPT ![b].at = "built", ![b].id = entries[k].id,
                                                     ![b].of = entries[k].of]
    BY <1>3 DEF Lookup
  <2>2. command' = [command EXCEPT ![b] = r]
    BY <2>1, Known DEF BuildTypes, CommandType
  <2>3. entries[k] \in EntryType
    BY Known DEF BuildTypes
  <2>4. /\ r \in CommandType /\ r.at = "built" /\ r.key = k /\ r.id = entries[k].id
        /\ r.of = entries[k].of /\ r.copied = command[b].copied
    BY <2>3, Known DEF CommandType, Steps, EntryType
  <2> HIDE DEF r
  <2>5. entries[k].of >= k /\ [id |-> r.id, key |-> k] \in registry
    BY <1>3, <2>4, Known DEF IsCached, BuildInv, NewEnough
  <2>6. cleaning \/ (entries[k].parts = Parts /\ entries[k].success /\ r.copied = {})
    BY <1>1, <2>4, <2>5 DEF BuildInv, CacheFits, CacheFitsFor
  <2>7. r.key <= project /\ lockedBy' = lockedBy \ {b} /\ r.at \notin Locking
    BY <1>2, <2>1, <2>4, Known DEF Locking
  <2> QED
    BY <1>1, <2>2, <2>4, <2>5, <2>6, <2>7, OthersStay
<1>4. CASE ~IsCached(k)
  <2>1. GoesTo(b, "discarding") /\ lockedBy' = lockedBy
    BY <1>4 DEF Lookup
  <2>2. ~cleaning => [id |-> entries[k].id, key |-> k] \notin registry
    BY <1>4 DEF IsCached, BuildInv, CacheFits, CacheFitsFor, Parts
  <2> QED
    BY <1>1, <2>1, <2>2, GoesOn DEF Locking, Steps
<1> QED
  BY <1>3, <1>4

\* A part is removed only by who holds the lock, from what nobody uses, or else when asked to clean.
LEMMA RemovalKeeps ==
  ASSUME BuildInv, NEW b \in Builders, NEW k \in Contents, NEW p, RemovePart(k, p),
         UNCHANGED <<project, made, registry, lockedBy, command, cleaning>>,
         \/ command[b].at = "cleaning"
         \/ command[b].at = "discarding" /\ k = command[b].key
  PROVE  BuildInv'
<1>1. BuildTypes /\ OneLocks /\ NewEnough /\ NumbersFresh /\ EntryFits /\ (cleaning \/ CacheFits)
  BY DEF BuildInv
<1>2. /\ entries' \in [Contents -> EntryType]
      /\ \A j \in Contents \ {k} : entries'[j] = entries[j]
      /\ entries'[k].id \in {entries[k].id, 0}
      /\ entries'[k].parts # {} => entries[k].parts # {} /\ entries'[k].of = entries[k].of
  BY <1>1, Removed
<1>3. \A c \in Builders \ {b} : command[c].at \notin Locking
  BY <1>1 DEF OneLocks, Locking
<1>4. \A c \in Builders : command[c].key \in Contents
  BY <1>1 DEF BuildTypes, CommandType
<1>5. BuildTypes'
  BY <1>1, <1>2 DEF BuildTypes
<1>6. NewEnough'
  BY <1>1, <1>2 DEF NewEnough, InUseBy
<1>7. EntryFits'
  BY <1>1, <1>3 DEF EntryFits, Locking
<1>8. ASSUME ~cleaning' PROVE CacheFits'
  <2>1. /\ CacheFits /\ command[b].at = "discarding" /\ k = command[b].key
        /\ [id |-> entries[k].id, key |-> k] \notin registry
    BY <1>1, <1>8 DEF EntryFits, CacheFits, CacheFitsFor
  <2>2. \A r \in registry : r.id # 0 /\ r.key \in Contents /\ r = [id |-> r.id, key |-> r.key]
    BY <1>1 DEF BuildTypes
  <2>3. \A r \in registry : r.key = k => r.id # entries[k].id /\ r.id # entries'[k].id
    BY <1>2, <2>1, <2>2
  <2>4. \A r \in registry :
          entries'[r.key].id = r.id => entries'[r.key].parts = Parts /\ entries'[r.key].success
    BY <1>2, <2>1, <2>2, <2>3 DEF CacheFits, CacheFitsFor
  <2>5. \A c \in Builders : InUseBy(c) => command[c].key # k
    BY <2>1 DEF CacheFits, CacheFitsFor
  <2>6. [id |-> entries'[k].id, key |-> k] \notin registry
    BY <2>3
  <2> QED
    BY <1>2, <1>3, <1>4, <2>1, <2>4, <2>5, <2>6 DEF CacheFits, CacheFitsFor, InUseBy, Locking
<1> QED
  BY <1>1, <1>5, <1>6, <1>7, <1>8 DEF BuildInv, OneLocks, NumbersFresh

LEMMA CleanKeeps == ASSUME BuildInv, NEW b \in Builders, CleanBuilds(b) PROVE BuildInv'
<1>1. /\ command[b].at = "cleaning" /\ cleaning \in BOOLEAN
      /\ UNCHANGED <<project, made, registry, lockedBy, cleaning>>
  BY Known DEF CleanBuilds, At, frame, BuildTypes
<1>2. CASE command' = command /\ \E k \in Contents, p \in Parts : RemovePart(k, p)
  BY <1>1, <1>2, RemovalKeeps
<1>3. CASE GoesTo(b, "locked") /\ entries' = entries
  BY <1>1, <1>3, Known, GoesOn DEF Locking, Steps
<1> QED
  BY <1>2, <1>3 DEF CleanBuilds

LEMMA DiscardKeeps == ASSUME BuildInv, NEW b \in Builders, Discard(b) PROVE BuildInv'
<1>1. /\ command[b].at = "discarding" /\ cleaning \in BOOLEAN
      /\ UNCHANGED <<project, made, registry, lockedBy, cleaning>>
  BY Known DEF Discard, At, frame, BuildTypes
<1>2. CASE command' = command /\ \E p \in Parts : RemovePart(command[b].key, p)
  BY <1>1, <1>2, Known, RemovalKeeps
<1>3. CASE entries[command[b].key] = NoEntry /\ GoesTo(b, "building") /\ entries' = entries
  BY <1>1, <1>3, Known, NoEntryFits, GoesOn DEF Locking, Steps
<1> QED
  BY <1>2, <1>3 DEF Discard

\* Who builds has the lock, and nobody else is at a step under it.
LEMMA AloneUnderLock ==
  ASSUME BuildInv, NEW b \in Builders, command[b].at \in Locking
  PROVE  \A c \in Builders \ {b} : command[c].at \notin Locking
  BY DEF BuildInv, OneLocks

LEMMA MxbuildKeeps == ASSUME BuildInv, NEW b \in Builders, RunMxbuild(b) PROVE BuildInv'
<1>1. PICK ok \in BOOLEAN :
        command' = [command EXCEPT ![b].at = "staged", ![b].id = made', ![b].of = project,
                                   ![b].success = ok]
  BY DEF RunMxbuild
<1>2. /\ command[b].at = "building" /\ made < MaxBuilds /\ made' = made + 1
      /\ UNCHANGED <<project, entries, registry, lockedBy, cleaning>>
  BY DEF RunMxbuild, At, cacheVars
<1>3. PICK n \in 0..MaxBuilds : n = made + 1 /\ n \in 1..MaxBuilds
  BY <1>2, Known, BuildAssumption DEF BuildTypes
<1> DEFINE r == [command[b] EXCEPT !.at = "staged", !.id = n, !.of = project, !.success = ok]
<1>4. command' = [command EXCEPT ![b] = r]
  BY <1>1, <1>2, <1>3, Known DEF BuildTypes, CommandType
<1>5. /\ r \in CommandType /\ r.at = "staged" /\ r.key = command[b].key /\ r.id = n
      /\ r.of = project /\ r.copied = command[b].copied
  <2>1. command[b] \in CommandType /\ project \in Contents /\ ok \in BOOLEAN
    BY Known
  <2> QED
    BY <2>1 DEF CommandType, Steps
<1> HIDE DEF r
<1>6. /\ BuildTypes /\ OneLocks /\ NewEnough /\ NumbersFresh /\ EntryFits /\ (cleaning \/ CacheFits)
  BY DEF BuildInv
<1>7. /\ command' \in [Builders -> CommandType]
      /\ command'[b] = r /\ \A c \in Builders \ {b} : command'[c] = command[c]
  BY <1>4, <1>5, <1>6, OneGoes
<1>8. \A c \in Builders \ {b} : command[c].at \notin Locking
  BY <1>2, AloneUnderLock DEF Locking
<1>9. BuildTypes'
  BY <1>2, <1>3, <1>6, <1>7 DEF BuildTypes
<1>10. OneLocks'
  BY <1>2, <1>5, <1>6, <1>7 DEF OneLocks, BuildTypes, Locking
<1>11. NewEnough'
  BY <1>2, <1>5, <1>6, <1>7, Known DEF NewEnough, InUseBy
<1>12. NumbersFresh'
  <2>1. \A e \in registry : e.id \in Nat /\ e.id <= made
    BY <1>6 DEF NumbersFresh, BuildTypes
  <2> QED
    BY <1>2, <1>3, <1>5, <1>6, <1>7, <1>8, <2>1 DEF NumbersFresh, Locking, BuildTypes
<1>13. EntryFits'
  BY <1>2, <1>5, <1>6, <1>7 DEF EntryFits
<1>14. cleaning' \/ CacheFits'
  <2>1. cleaning \/ (CacheFits /\ r.copied = {})
    BY <1>2, <1>5, <1>6 DEF CacheFits, CacheFitsFor
  <2>2. cleaning \/ \A c \in Builders : CacheFitsFor(c)'
    <3> SUFFICES ASSUME NEW c \in Builders, ~cleaning PROVE CacheFitsFor(c)'
      OBVIOUS
    <3>1. CASE c = b
      BY <1>5, <1>7, <2>1, <3>1 DEF CacheFitsFor, InUseBy
    <3>2. CASE c # b
      <4>1. command'[c] = command[c] /\ CacheFitsFor(c)
        BY <1>6, <1>7, <3>2 DEF CacheFits, CacheFitsFor
      <4> QED
        BY <1>2, <4>1 DEF CacheFitsFor, InUseBy
    <3> QED
      BY <3>1, <3>2
  <2> QED
    BY <1>2, <1>6, <2>2 DEF CacheFits, CacheFitsFor
<1> QED
  BY <1>9, <1>10, <1>11, <1>12, <1>13, <1>14 DEF BuildInv

LEMMA PublishKeeps == ASSUME BuildInv, NEW b \in Builders, PublishBuild(b) PROVE BuildInv'
<1> DEFINE k == command[b].key
           e == [id |-> command[b].id, success |-> command[b].success, of |-> command[b].of,
                 parts |-> IF command[b].success THEN Parts ELSE {"record", "files"}]
           r == [command[b] EXCEPT !.at = "published"]
<1>1. /\ command[b].at = "staged" /\ entries' = [entries EXCEPT ![k] = e]
      /\ GoesTo(b, "published")
      /\ UNCHANGED <<project, made, registry, lockedBy, cleaning>>
  BY DEF PublishBuild, At, frame
<1>2. command' = [command EXCEPT ![b] = r]
  BY <1>1, Known DEF GoesTo, BuildTypes
<1>3. /\ r \in CommandType /\ r.at = "published" /\ r.key = k /\ r.id = command[b].id
      /\ r.of = command[b].of /\ r.success = command[b].success /\ r.copied = command[b].copied
  BY Known DEF CommandType, Steps
<1>4. /\ e \in EntryType /\ e.id = command[b].id /\ e.of = command[b].of
      /\ e.success = command[b].success /\ (e.success => e.parts = Parts)
  BY Known DEF CommandType, EntryType, Parts
<1> HIDE DEF r, e
<1>5. /\ BuildTypes /\ OneLocks /\ NewEnough /\ NumbersFresh /\ EntryFits /\ (cleaning \/ CacheFits)
  BY DEF BuildInv
<1>6. /\ command' \in [Builders -> CommandType]
      /\ command'[b] = r /\ \A c \in Builders \ {b} : command'[c] = command[c]
  BY <1>2, <1>3, <1>5, OneGoes
<1>7. /\ entries' \in [Contents -> EntryType] /\ entries'[k] = e
      /\ \A j \in Contents \ {k} : entries'[j] = entries[j]
  BY <1>1, <1>4, <1>5, Known DEF BuildTypes
<1>8. /\ \A c \in Builders \ {b} : command[c].at \notin Locking
      /\ \A c \in Builders : command[c].key \in Contents
  BY <1>1, <1>5, AloneUnderLock DEF Locking, BuildTypes, CommandType
<1>9. /\ \A n \in registry : n.id # e.id /\ n.key \in Contents /\ n = [id |-> n.id, key |-> n.key]
      /\ entries[k].id = 0
  BY <1>1, <1>4, <1>5 DEF NumbersFresh, EntryFits, BuildTypes
<1>10. BuildTypes'
  BY <1>1, <1>5, <1>6, <1>7 DEF BuildTypes
<1>11. OneLocks'
  BY <1>1, <1>3, <1>5, <1>6 DEF OneLocks, BuildTypes, Locking
<1>12. NewEnough'
  <2>1. command[b].of >= k
    BY <1>1, <1>5 DEF NewEnough
  <2> QED
    BY <1>1, <1>3, <1>4, <1>5, <1>6, <1>7, <1>8, <2>1 DEF NewEnough, InUseBy
<1>13. NumbersFresh'
  BY <1>1, <1>3, <1>5, <1>6 DEF NumbersFresh
<1>14. EntryFits'
  BY <1>1, <1>3, <1>4, <1>5, <1>6, <1>7, <1>8 DEF EntryFits, Locking
<1>15. ASSUME ~cleaning' PROVE CacheFits'
  <2>1. CacheFits
    BY <1>1, <1>5, <1>15
  <2>2. \A n \in registry :
          entries'[n.key].id = n.id => entries'[n.key].parts = Parts /\ entries'[n.key].success
    BY <1>7, <1>9, <2>1 DEF CacheFits, CacheFitsFor
  <2>3. \A c \in Builders : InUseBy(c) => command[c].key # k
    <3> SUFFICES ASSUME NEW c \in Builders, InUseBy(c), command[c].key = k PROVE FALSE
      OBVIOUS
    <3>1. [id |-> 0, key |-> k] \in registry
      BY <1>9, <2>1 DEF CacheFits, CacheFitsFor
    <3> QED
      BY <1>5, <3>1 DEF BuildTypes
  <2>4. \A c \in Builders \ {b} :
          InUseBy(c) => entries'[command[c].key] = entries[command[c].key]
    BY <1>7, <1>8, <2>3
  <2>5. r.copied = {}
    BY <1>1, <1>3, <2>1 DEF CacheFits, CacheFitsFor
  <2> QED
    <3> SUFFICES ASSUME NEW c \in Builders PROVE CacheFitsFor(c)'
      BY <1>1, <2>2 DEF CacheFits, CacheFitsFor
    <3>1. CASE c = b
      BY <1>3, <1>6, <2>5, <3>1 DEF CacheFitsFor, InUseBy
    <3>2. CASE c # b
      <4>1. command'[c] = command[c] /\ command[c].at \notin Locking
        BY <1>6, <1>8, <3>2
      <4>2. CacheFitsFor(c) /\ (InUseBy(c) => entries'[command[c].key] = entries[command[c].key])
        BY <2>1, <2>4, <3>2 DEF CacheFits, CacheFitsFor
      <4> QED
        BY <1>1, <4>1, <4>2 DEF CacheFitsFor, InUseBy, Locking
    <3> QED
      BY <3>1, <3>2
<1> QED
  BY <1>10, <1>11, <1>12, <1>13, <1>14, <1>15 DEF BuildInv

LEMMA RegisterKeeps == ASSUME BuildInv, NEW b \in Builders, RegisterArtifact(b) PROVE BuildInv'
<1> DEFINE n == [id |-> command[b].id, key |-> command[b].key]
           step == IF command[b].success THEN "built" ELSE "ended"
           r == [command[b] EXCEPT !.at = step]
<1>1. /\ command[b].at = "published" /\ GoesTo(b, step) /\ lockedBy' = {}
      /\ registry' = registry \union (IF command[b].success THEN {n} ELSE {})
      /\ UNCHANGED <<project, made, entries, cleaning>>
  BY DEF RegisterArtifact, At, frame
<1>2. command' = [command EXCEPT ![b] = r]
  BY <1>1, Known DEF GoesTo, BuildTypes
<1>3. /\ r \in CommandType /\ r.at = step /\ r.key = command[b].key /\ r.id = command[b].id
      /\ r.of = command[b].of /\ r.copied = command[b].copied
  BY Known DEF CommandType, Steps
<1> HIDE DEF r
<1>4. /\ BuildTypes /\ OneLocks /\ NewEnough /\ NumbersFresh /\ EntryFits /\ (cleaning \/ CacheFits)
  BY DEF BuildInv
<1>5. /\ command' \in [Builders -> CommandType]
      /\ command'[b] = r /\ \A c \in Builders \ {b} : command'[c] = command[c]
  BY <1>2, <1>3, <1>4, OneGoes
<1>6. \A c \in Builders \ {b} : command[c].at \notin Locking
  BY <1>1, AloneUnderLock DEF Locking
<1>7. /\ n \in [id : 1..MaxBuilds, key : Contents] /\ n.id <= made
      /\ n.id = command[b].id /\ n.key = command[b].key
  <2>1. command[b].id \in 1..made /\ made \in 0..MaxBuilds /\ command[b].key \in Contents
    BY <1>1, <1>4, Known DEF NumbersFresh, BuildTypes
  <2>2. command[b].id \in 1..MaxBuilds
    BY <2>1, BuildAssumption
  <2> QED
    BY <2>1, <2>2
<1> HIDE DEF n
<1>8. BuildTypes'
  BY <1>1, <1>4, <1>5, <1>7 DEF BuildTypes
<1>9. OneLocks'
  BY <1>1, <1>3, <1>5, <1>6 DEF OneLocks, Locking
<1>10. NewEnough'
  BY <1>1, <1>3, <1>4, <1>5 DEF NewEnough, InUseBy
<1>11. NumbersFresh'
  BY <1>1, <1>3, <1>4, <1>5, <1>6, <1>7 DEF NumbersFresh, Locking
<1>12. EntryFits'
  BY <1>1, <1>3, <1>4, <1>5 DEF EntryFits
<1>13. ASSUME ~cleaning' PROVE CacheFits'
  <2>1. CacheFits
    BY <1>1, <1>4, <1>13
  <2>2. command[b].success =>
          /\ entries[command[b].key].id = command[b].id /\ entries[command[b].key].success
          /\ entries[command[b].key].parts = Parts
    BY <1>1, <1>4 DEF EntryFits
  <2>3. \A m \in registry' :
          entries[m.key].id = m.id => entries[m.key].parts = Parts /\ entries[m.key].success
    BY <1>1, <1>7, <2>1, <2>2 DEF CacheFits, CacheFitsFor
  <2>4. step = "built" => command[b].success /\ [id |-> r.id, key |-> r.key] \in registry'
    BY <1>1, <1>3 DEF n
  <2>5. command[b].copied = {} /\ registry \subseteq registry'
    BY <1>1, <2>1 DEF CacheFits, CacheFitsFor
  <2> QED
    BY <1>1, <1>3, <1>5, <1>6, <2>1, <2>2, <2>3, <2>4, <2>5 DEF CacheFits, CacheFitsFor, InUseBy, Locking
<1> QED
  BY <1>8, <1>9, <1>10, <1>11, <1>12, <1>13 DEF BuildInv

LEMMA BuildKeeps == BuildInv /\ [BuildNext]_buildVars => BuildInv'
<1> SUFFICES ASSUME BuildInv, [BuildNext]_buildVars PROVE BuildInv'
  OBVIOUS
<1>1. CASE UNCHANGED buildVars
  BY <1>1 DEF buildVars, BuildInv, BuildTypes, OneLocks, NewEnough, NumbersFresh, EntryFits,
     CacheFits, CacheFitsFor, InUseBy
<1>2. CASE EditProject
  BY <1>2, EditKeeps
<1>3. ASSUME NEW b \in Builders, BuildStep(b) PROVE BuildInv'
  BY <1>3, DigestKeeps, AcquireKeeps, CleanKeeps, LookupKeeps, DiscardKeeps, MxbuildKeeps,
     PublishKeeps, RegisterKeeps DEF BuildStep
<1>4. ASSUME NEW b \in Builders, Ends(b) \/ ReadBuild(b) \/ CopyDeployment(b) PROVE BuildInv'
  BY <1>4, EndsKeeps, ReadKeeps, CopyKeeps
<1> QED
  BY <1>1, <1>2, <1>3, <1>4 DEF BuildNext

\* For any number of commands, edits and builds, whatever command ends or is killed at whatever
\* step: a command starts a package that is not older than what it asked for, and, as long as
\* nobody cleans the cache, one that is whole and stays so until it is copied.
THEOREM StartsAreWhole == BuildSpec => []StartsWhatWasAsked
<1>1. BuildInv => StartsWhatWasAsked
  <2> SUFFICES ASSUME BuildInv PROVE StartsWhatWasAsked
    OBVIOUS
  <2>1. NotOlderThanAsked
    BY DEF BuildInv, NewEnough, NotOlderThanAsked
  <2>2. InUseStaysWhole /\ StartedIsWhole /\ RegisteredWasPublished
    BY DEF BuildInv, CacheFits, CacheFitsFor, InUseStaysWhole, StartedIsWhole, RegisteredWasPublished, At
  <2> QED
    BY <2>1, <2>2 DEF StartsWhatWasAsked
<1> QED
  BY BuildStart, BuildKeeps, <1>1, PTL DEF BuildSpec

\* Project, cache, registry and commands have their types, and one command at most has the lock.
THEOREM BuildTypesHold == BuildSpec => []BuildTypeOK
<1>1. BuildInv => BuildTypeOK
  <2> SUFFICES ASSUME BuildInv PROVE BuildTypeOK
    OBVIOUS
  <2>1. Cardinality(lockedBy) <= 1
    <3>1. CASE lockedBy = {}
      BY <3>1, FS_EmptySet
    <3>2. CASE lockedBy # {}
      <4>1. PICK b \in lockedBy : lockedBy = {b}
        BY <3>2 DEF BuildInv, OneLocks
      <4> QED
        <5>1. Cardinality({b}) = 1
          BY FS_Singleton
        <5> QED
          BY <4>1, <5>1
    <3> QED
      BY <3>1, <3>2
  <2> QED
    BY <2>1 DEF BuildInv, BuildTypes, BuildTypeOK, CommandType
<1> QED
  BY BuildStart, BuildKeeps, <1>1, PTL DEF BuildSpec

\* All of it together, as the runs check it (portable_runtime): what was asked for is what is
\* started, and the end of a session leaves nothing.
THEOREM PortableKept == PortableSpec /\ BuildSpec => []PortableIsKept
<1>1. EndIsTheEnd /\ StartsWhatWasAsked => PortableIsKept
  BY DEF PortableIsKept
<1> QED
  BY <1>1, SessionsEnd, StartsAreWhole, PTL
=============================================================================

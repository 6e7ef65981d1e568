--------------------------- MODULE CommandExecution ---------------------------
(***************************************************************************)
(* One run of an external command (process.rs): its process group, the two *)
(* pipes with their readers, a deadline and a cancellation that another    *)
(* thread gives.  The group is the command's process and what it starts,   *)
(* until that leaves the group.  What is written is only counted.          *)
(*                                                                         *)
(* Time is counted in steps of 50 ms, as the longest a wait can take, for  *)
(* a policy made by within_budget.  Left out are the job objects of        *)
(* Windows, a process that SIGKILL cannot end, a host without subreapers,  *)
(* and a caller that drops the command: only its process is killed then.   *)
(***************************************************************************)
EXTENDS Naturals, FiniteSets

CONSTANTS
  Kin,            \* processes that the command's process may start
  CaptureLimit,   \* what is kept of a pipe
  PipeSize,       \* what a pipe holds until it is read
  MaxWrites,      \* writes to a pipe
  Budget          \* what the caller allows in all, in steps of 50 ms

ASSUME CommandAssumption ==
  /\ "child" \notin Kin /\ PipeSize \in Nat \ {0}
  /\ {CaptureLimit, MaxWrites, Budget} \subseteq Nat /\ Budget > 8

Members == {"child"} \union Kin
Pipes == {"stdout", "stderr"}

VARIABLES
  running,    \* the step of output, what its result will be, the time it may have taken
  member,     \* per process: in the group, "away" from it, ended or reaped; the pipes it holds
  pipe,       \* per pipe: written, not yet read, kept, cut off, and its reader
  token       \* the cancellation: its flag, whether it was announced, and the waiter

commandVars == <<running, member, pipe, token>>

CommandTypeOK ==
  /\ running \in [at : {"idle", "select", "term", "grace", "kill", "wait", "reap", "drain",
                        "settle", "done"},
                  kind : {"none", "ok", "refused", "terminated", "undrained"},
                  spent : 0..Budget + 8]
  /\ member \in [Members -> [is : {"none", "runs", "away", "ended", "reaped"},
                             holds : SUBSET Pipes]]
  /\ pipe \in [Pipes -> [sent : 0..MaxWrites, unread : 0..PipeSize, kept : 0..CaptureLimit,
                         cut : BOOLEAN, reader : {"reads", "end"}]]
  /\ token \in [flag : BOOLEAN, told : BOOLEAN,
                waiter : {"none", "registered", "waits", "woken", "seen"}]

CommandInit ==
  /\ running = [at |-> "idle", kind |-> "none", spent |-> 0]
  /\ member = [p \in Members |-> [is |-> "none", holds |-> {}]]
  /\ pipe = [s \in Pipes |-> [sent |-> 0, unread |-> 0, kept |-> 0, cut |-> FALSE,
                              reader |-> "reads"]]
  /\ token = [flag |-> FALSE, told |-> FALSE, waiter |-> "none"]

OutputAt(step) == running.at = step
OutputGoes(step) == running' = [running EXCEPT !.at = step]
OutputEnds(kind) == running' = [running EXCEPT !.at = "done", !.kind = kind]
MemberAlive(p) == member[p].is \in {"runs", "away"}
EndedMember(p) == [is |-> "ended", holds |-> {}]
Kill(ps) == member' = [p \in Members |-> IF p \in ps THEN EndedMember(p) ELSE member[p]]
Group == {p \in Members : member[p].is = "runs"}

-----------------------------------------------------------------------------
(* The processes and the readers of their pipes *)

\* A descendant inherits the pipes that its parent has.
StartsKin ==
  \E p \in Members, k \in Kin :
    /\ MemberAlive(p) /\ member[k].is = "none"
    /\ member' = [member EXCEPT ![k] = member[p]]
    /\ UNCHANGED <<running, pipe, token>>

LeavesGroup ==
  \E k \in Kin : /\ member[k].is = "runs" /\ member' = [member EXCEPT ![k].is = "away"]
                 /\ UNCHANGED <<running, pipe, token>>

ClosesPipe ==
  \E p \in Members, s \in Pipes :
    /\ MemberAlive(p) /\ s \in member[p].holds
    /\ member' = [member EXCEPT ![p].holds = @ \ {s}]
    /\ UNCHANGED <<running, pipe, token>>

WritesToPipe ==
  \E p \in Members, s \in Pipes :
    /\ MemberAlive(p) /\ s \in member[p].holds
    /\ pipe[s].unread < PipeSize /\ pipe[s].sent < MaxWrites /\ pipe[s].reader = "reads"
    /\ pipe' = [pipe EXCEPT ![s].sent = @ + 1, ![s].unread = @ + 1]
    /\ UNCHANGED <<running, member, token>>

MemberEnds ==
  \E p \in Members : MemberAlive(p) /\ Kill({p}) /\ UNCHANGED <<running, pipe, token>>

\* Mutant: a reader stops at its limit.
ReadUntilLimit ==
  \E s \in Pipes :
    /\ pipe[s].reader = "reads" /\ pipe[s].unread > 0
    /\ pipe' = [pipe EXCEPT ![s].kept = @ + 1, ![s].unread = @ - 1,
                            ![s].reader = IF pipe[s].kept + 1 >= CaptureLimit THEN "end" ELSE @]
    /\ UNCHANGED <<running, member, token>>

\* read_bounded goes on at its limit, so that nobody waits for room in the pipe.
ReadPipe ==
  \E s \in Pipes :
    /\ pipe[s].reader = "reads" /\ pipe[s].unread > 0
    /\ \E n \in 1..pipe[s].unread :
         LET left == CaptureLimit - pipe[s].kept
             kept == IF n < left THEN n ELSE left
         IN pipe' = [pipe EXCEPT ![s].unread = @ - n, ![s].kept = @ + kept,
                                 ![s].cut = @ \/ kept < n]
    /\ UNCHANGED <<running, member, token>>

\* The end of a pipe: nothing is unread, and nobody can write any more.
EndOf(s) == pipe[s].unread = 0 /\ \A p \in Members : MemberAlive(p) => s \notin member[p].holds

ReaderEnds ==
  \E s \in Pipes :
    /\ pipe[s].reader = "reads"
    /\ EndOf(s) /\ pipe' = [pipe EXCEPT ![s].reader = "end"]
    /\ UNCHANGED <<running, member, token>>

\* What reaches the pipes of a command that is terminated is thrown away.
ProcessStep ==
  \/ ~OutputAt("done") /\ (StartsKin \/ LeavesGroup \/ MemberEnds)
  \/ running.at \in {"select", "drain"} /\ (ClosesPipe \/ WritesToPipe \/ ReadPipe \/ ReaderEnds)

-----------------------------------------------------------------------------
(* The cancellation *)

\* cancel: the flag, then whoever has registered.
SetCancelled ==
  /\ running.at \in {"idle", "select"} /\ ~token.flag /\ token' = [token EXCEPT !.flag = TRUE]
  /\ UNCHANGED <<running, member, pipe>>
NotifyWaiters ==
  /\ running.at \in {"idle", "select"} /\ token.flag /\ ~token.told
  /\ token' = [token EXCEPT !.told = TRUE,
                            !.waiter = IF @ \in {"registered", "waits"} THEN "woken" ELSE @]
  /\ UNCHANGED <<running, member, pipe>>

\* Mutant: whoever was not there when it was told waits all the same.
AwaitCancelUnchecked ==
  /\ OutputAt("select")
  /\ \/ token.waiter = "none" /\ token' = [token EXCEPT !.waiter = "waits"]
     \/ token.waiter = "woken" /\ token' = [token EXCEPT !.waiter = "seen"]
  /\ UNCHANGED <<running, member, pipe>>

\* cancelled registers, then looks at the flag, then waits, and so again when woken.
AwaitCancel ==
  /\ OutputAt("select")
  /\ \/ token.waiter \in {"none", "woken"} /\ token' = [token EXCEPT !.waiter = "registered"]
     \/ /\ token.waiter = "registered"
        /\ token' = [token EXCEPT !.waiter = IF token.flag THEN "seen" ELSE "waits"]
  /\ UNCHANGED <<running, member, pipe>>

CancelStep == SetCancelled \/ NotifyWaiters \/ AwaitCancel

-----------------------------------------------------------------------------
(* The command *)

\* The process is started in a group of its own.
SpawnChild ==
  /\ OutputAt("idle")
  /\ \/ OutputGoes("select") /\ member' = [member EXCEPT !["child"] = [is |-> "runs", holds |-> Pipes]]
     \/ OutputEnds("refused") /\ UNCHANGED member
  /\ UNCHANGED <<pipe, token>>

\* Mutant: the wait for the descendants is not reserved.
ShortReserve == Budget - 6
\* What within_budget leaves for the command itself
Timeout == Budget - 8
Grace == 1
ReapLimit == 2
DrainLimit == 2
Exited == running.kind = "undrained"
\* Every wait may take all of its time.
Waits(step, limit) == running' = [running EXCEPT !.at = step, !.spent = @ + limit]

\* The select: its exit, an error, the deadline or the cancellation, whichever is seen.
SelectCompletion ==
  /\ OutputAt("select")
  /\ \/ /\ member["child"].is = "ended"
        /\ member' = [member EXCEPT !["child"].is = "reaped"]
        /\ running' = [running EXCEPT !.at = "drain", !.kind = "ok", !.spent = Timeout]
     \/ /\ UNCHANGED member
        /\ running' = [running EXCEPT !.at = "term", !.kind = "terminated", !.spent = Timeout]
  /\ token' = [token EXCEPT !.waiter = "none"]
  /\ UNCHANGED pipe

\* terminate_gracefully: who wants to, goes on.
TerminateGroup ==
  /\ OutputAt("term") /\ OutputGoes("grace")
  /\ \E ps \in SUBSET Group : Kill(ps)
  /\ UNCHANGED <<pipe, token>>

\* child.wait under a timeout; a signal that nobody heeds lets it pass.
AwaitChild(step, next, limit) ==
  /\ OutputAt(step) /\ Waits(next, limit)
  /\ \/ ~MemberAlive("child") /\ member' = [member EXCEPT !["child"].is = "reaped"]
     \/ UNCHANGED member
  /\ UNCHANGED <<pipe, token>>

\* Mutant: only the process that was started is killed.
KillChild ==
  /\ OutputAt("kill") /\ OutputGoes(IF Exited THEN "reap" ELSE "wait")
  /\ Kill(Group \intersect {"child"})
  /\ UNCHANGED <<pipe, token>>

\* terminate
KillAll ==
  /\ OutputAt("kill") /\ OutputGoes(IF Exited THEN "reap" ELSE "wait")
  /\ Kill(Group)
  /\ UNCHANGED <<pipe, token>>

\* reap_descendants: those of the group, as far as its time allows.  This process is the parent
\* of those whose own has ended.
ReapDescendants ==
  /\ OutputAt("reap") /\ Waits(IF Exited THEN "done" ELSE "settle", ReapLimit)
  /\ \E ps \in SUBSET {p \in Members : member[p].is = "ended"} :
       member' = [p \in Members |-> [member[p] EXCEPT !.is = IF p \in ps THEN "reaped" ELSE @]]
  /\ UNCHANGED <<pipe, token>>

PipesRead == \A s \in Pipes : pipe[s].reader = "end"

\* Mutant: what was read by the time the process ended is the output.
DrainUnread ==
  /\ OutputAt("drain") /\ OutputEnds("ok")
  /\ UNCHANGED <<member, pipe, token>>

\* Both readers have to end.  If one fails, or somebody keeps a pipe open for too long, what is
\* left of the group is killed.
DrainPipes ==
  /\ OutputAt("drain")
  /\ \/ PipesRead /\ OutputEnds("ok")
     \/ running' = [running EXCEPT !.at = "kill", !.kind = "undrained", !.spent = @ + DrainLimit]
  /\ UNCHANGED <<member, pipe, token>>

\* drain_after_termination: what was read is thrown away.
SettleReaders ==
  /\ OutputAt("settle") /\ Waits("done", DrainLimit)
  /\ UNCHANGED <<member, pipe, token>>

OutputStep ==
  \/ SpawnChild \/ SelectCompletion
  \/ TerminateGroup \/ AwaitChild("grace", "kill", Grace) \/ KillAll
  \/ AwaitChild("wait", "reap", ReapLimit) \/ ReapDescendants \/ DrainPipes \/ SettleReaders

CommandNext == OutputStep \/ ProcessStep \/ CancelStep
CommandSpec == CommandInit /\ [][CommandNext]_commandVars

-----------------------------------------------------------------------------
(* Properties *)

\* What is reported as the output of a command is all that anybody wrote to its pipes, up to
\* the limit, and what was cut off is told.
OutputIsWhole ==
  OutputAt("done") /\ running.kind = "ok" =>
    /\ member["child"].is = "reaped"
    /\ \A s \in Pipes :
         /\ pipe[s].kept = (IF pipe[s].sent < CaptureLimit THEN pipe[s].sent ELSE CaptureLimit)
         /\ pipe[s].cut <=> pipe[s].sent > CaptureLimit
         /\ \A p \in Members : MemberAlive(p) => s \notin member[p].holds

\* A command that was given up, for whatever reason, runs nothing more in its group.
NobodyGoesOn ==
  OutputAt("done") /\ running.kind \in {"terminated", "undrained"} => Group = {}

\* A cancellation reaches a command that waits, whenever it was given.
CancelIsHeard == token.flag /\ token.told => token.waiter # "waits"

\* A command with its whole cleanup is over within what the caller allows.
WithinBudget == running.spent <= Budget

CommandsEndCleanly == OutputIsWhole /\ NobodyGoesOn /\ CancelIsHeard /\ WithinBudget
=============================================================================

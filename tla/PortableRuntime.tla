--------------------------- MODULE PortableRuntime ---------------------------
(***************************************************************************)
(* One session of the portable Runtime (portable_runtime/supervisor.rs):   *)
(* the command that starts it, the detached supervisor it spawns, the      *)
(* tree of Runtime processes, and the status and stop commands that follow *)
(* the session through its record file.  Nothing is locked.                *)
(*                                                                         *)
(* Starter and supervisor talk over two pipes; the end of one is the end   *)
(* of its pipes.  The first process of the tree dies with the supervisor   *)
(* (process.rs, PR_SET_PDEATHSIG or the job object); processes it started  *)
(* share its group.  The session's identifier is known once start returns. *)
(***************************************************************************)
EXTENDS Naturals, FiniteSets

CONSTANTS Observers,   \* status commands (wait and url are loops of these)
          Stoppers     \* stop commands

ASSUME PortableAssumption == Observers \cap Stoppers = {}

VARIABLES
  srec,      \* the record: its state, and the identities written in it
  starter,   \* the step of the starting command
  said,  \* what starter and supervisor have told each other
  sup,       \* the step of the supervisor
  tree,      \* the Runtime processes alive: the first, and its descendants
  request,   \* the stop request file exists
  cmd        \* status and stop commands: their step and the record they loaded

portableVars == <<srec, starter, said, sup, tree, request, cmd>>

RecordStates == {"none", "starting", "running", "ready", "stopped", "failed"}
RecordType == [state : RecordStates, sup : BOOLEAN, run : BOOLEAN]
Live == {"starting", "running", "ready"}
Ended == {"stopped", "failed"}
NoRec == [state |-> "none", sup |-> FALSE, run |-> FALSE]

Commands == Observers \cup Stoppers
SupSteps == {"none", "payload", "spawned", "running", "readied", "responded",
             "monitor", "failing", "stopping", "refused", "recorded", "exited", "killed"}

PortableTypeOK ==
  /\ srec \in RecordType /\ (srec.state \in {"running", "ready"} => srec.sup /\ srec.run)
  /\ starter \in {"idle", "recorded", "spawned", "registered", "waiting",
                  "accepting", "ok", "failed", "killed"}
  /\ said \subseteq {"payload", "response", "accept", "accepted"}
  /\ sup \in SupSteps
  /\ tree \subseteq {"first", "descendant"}
  /\ request \in BOOLEAN
  /\ cmd \in [Commands -> [at : {"idle", "loaded", "waiting", "cut", "swept", "done"},
                           rec : RecordType]]

PortableInit ==
  /\ srec = NoRec /\ starter = "idle" /\ said = {} /\ sup = "none"
  /\ tree = {} /\ request = FALSE
  /\ cmd = [c \in Commands |-> [at |-> "idle", rec |-> NoRec]]

SupAlive == sup \notin {"none", "exited", "killed"}
StarterGone == starter \in {"ok", "failed", "killed"}

\* A killed supervisor takes the first process with it, not its descendants.
KillSupervisor ==
  IF SupAlive THEN /\ sup' = "killed" /\ tree' = tree \ {"first"}
              ELSE UNCHANGED <<sup, tree>>

\* A group is signalled only while its first process still has the recorded
\* identity.
KillGroup(t) == IF "first" \in t THEN {} ELSE t

-----------------------------------------------------------------------------
(* supervisor::start *)

StartRecord ==
  /\ starter = "idle"
  /\ starter' = "recorded" /\ srec' = [NoRec EXCEPT !.state = "starting"]
  /\ UNCHANGED <<said, sup, tree, request, cmd>>

StartSpawn ==
  /\ starter = "recorded"
  /\ starter' = "spawned" /\ sup' = "payload"
  /\ UNCHANGED <<srec, said, tree, request, cmd>>

\* The supervisor's identity goes into the record before it is told anything.
StartRegister ==
  /\ starter = "spawned"
  /\ starter' = "registered"
  /\ srec' = [srec EXCEPT !.state = "starting", !.sup = TRUE]
  /\ UNCHANGED <<said, sup, tree, request, cmd>>

StartHandshake ==
  /\ starter = "registered"
  /\ starter' = "waiting" /\ said' = said \cup {"payload"}
  /\ UNCHANGED <<srec, sup, tree, request, cmd>>

StartAccept ==
  /\ starter = "waiting" /\ "response" \in said
  /\ starter' = "accepting" /\ said' = said \cup {"accept"}
  /\ UNCHANGED <<srec, sup, tree, request, cmd>>

StartReturns ==
  /\ starter = "accepting" /\ "accepted" \in said
  /\ starter' = "ok"
  /\ UNCHANGED <<srec, said, sup, tree, request, cmd>>

\* Mutant: the guard is disarmed when the acceptance is sent.
StartGivesUpUnguarded ==
  /\ starter \notin {"idle", "ok", "failed", "killed"}
  /\ starter' = "failed"
  /\ IF starter \in {"recorded", "spawned", "accepting"} THEN UNCHANGED <<sup, tree>>
                                                         ELSE KillSupervisor
  /\ UNCHANGED <<srec, said, request, cmd>>

\* An error, a deadline or a cancellation: from the registration on, the
\* guard kills the supervisor.
StartGivesUp ==
  /\ starter \notin {"idle", "ok", "failed", "killed"}
  /\ starter' = "failed"
  /\ IF starter \in {"recorded", "spawned"} THEN UNCHANGED <<sup, tree>>
                                            ELSE KillSupervisor
  /\ UNCHANGED <<srec, said, request, cmd>>

\* SIGKILL, power loss of the terminal: no guard runs.
StarterKilled ==
  /\ starter \notin {"idle", "ok", "failed", "killed"}
  /\ starter' = "killed"
  /\ UNCHANGED <<srec, said, sup, tree, request, cmd>>

-----------------------------------------------------------------------------
(* supervisor_main *)

SupWrite(state, run) == srec' = [state |-> state, sup |-> TRUE, run |-> run]
supRest == <<starter, request, cmd>>

\* The first line or the end of the pipe; an unregistered supervisor ends, and
\* one whose starter is gone reports a failed session.
SupPayload ==
  /\ sup = "payload"
  /\ \/ /\ "payload" \in said /\ srec.sup
        /\ sup' = "spawned" /\ tree' = {"first"}
        /\ UNCHANGED <<srec, said>>
     \/ /\ StarterGone /\ "payload" \notin said
        /\ sup' = "exited"
        /\ IF srec.sup THEN SupWrite("failed", FALSE) ELSE UNCHANGED srec
        /\ UNCHANGED <<said, tree>>
  /\ UNCHANGED supRest

\* Spawning or identifying the Runtime fails.
SupSpawnFails ==
  /\ sup = "spawned"
  /\ sup' = "exited" /\ tree' = {}
  /\ SupWrite("failed", FALSE)
  /\ UNCHANGED <<said, supRest>>

\* The record cannot be written: the Runtime is ended, the record stays.
SupWriteFails ==
  /\ sup \in {"spawned", "running"}
  /\ sup' = "exited" /\ tree' = {}
  /\ UNCHANGED <<srec, said, supRest>>

SupRunning ==
  /\ sup = "spawned"
  /\ sup' = "running" /\ SupWrite("running", TRUE)
  /\ UNCHANGED <<said, tree, supRest>>

\* The Runtime answers: the record says so before the starter hears of it.
SupReady ==
  /\ sup = "running" /\ "first" \in tree
  /\ sup' = "readied" /\ SupWrite("ready", TRUE)
  /\ UNCHANGED <<said, tree, supRest>>

\* The starter is gone, the Runtime exited, or the deadline passed.
SupInitFails ==
  /\ sup = "running"
  /\ sup' = "failing" /\ tree' = KillGroup(tree)
  /\ UNCHANGED <<srec, said, supRest>>

\* The response cannot be written once the starter is gone.
SupRespond ==
  /\ sup = "readied"
  /\ \/ ~StarterGone /\ sup' = "responded" /\ said' = said \cup {"response"} /\ UNCHANGED tree
     \/ StarterGone /\ sup' = "exited" /\ tree' = {} /\ UNCHANGED said
  /\ UNCHANGED <<srec, supRest>>

\* The pipe can be written to as long as the starter is there.
SupAccepted ==
  /\ sup = "responded" /\ "accept" \in said
  /\ \/ ~StarterGone /\ sup' = "monitor" /\ said' = said \cup {"accepted"} /\ UNCHANGED tree
     \/ StarterGone /\ sup' = "exited" /\ tree' = {} /\ UNCHANGED said
  /\ UNCHANGED <<srec, supRest>>

\* No acceptance within its deadline, or the starter ended.
SupNotAccepted ==
  /\ sup = "responded" /\ "accept" \notin said
  /\ sup' = "refused" /\ tree' = KillGroup(tree)
  /\ UNCHANGED <<srec, said, supRest>>

\* Mutant: the session is recorded as stopped before its Runtime is.
SupStopRecordsFirst ==
  /\ sup = "monitor" /\ request
  /\ sup' = "stopping"
  /\ UNCHANGED <<srec, said, tree, supRest>>

SupStopRequested ==
  /\ sup = "monitor" /\ request
  /\ sup' = "stopping" /\ tree' = KillGroup(tree)
  /\ UNCHANGED <<srec, said, supRest>>

SupRuntimeExited ==
  /\ sup = "monitor" /\ "first" \notin tree
  /\ sup' = "failing"
  /\ UNCHANGED <<srec, said, tree, supRest>>

\* Mutant: nothing is dropped at the end.
SupExitLeaving ==
  /\ sup = "recorded"
  /\ sup' = "exited"
  /\ UNCHANGED <<srec, said, tree, supRest>>

\* The record is written once the first process is gone; the drop of the
\* containment then kills what is left of the group.
SupEnd ==
  /\ sup \in {"failing", "refused", "stopping"}
  /\ sup' = "recorded"
  /\ SupWrite(IF sup = "failing" THEN "failed" ELSE "stopped", TRUE)
  /\ UNCHANGED <<said, tree, supRest>>

SupExit ==
  /\ sup = "recorded"
  /\ sup' = "exited" /\ tree' = {}
  /\ UNCHANGED <<srec, said, supRest>>

-----------------------------------------------------------------------------
(* The Runtime and accidents. *)

RuntimeForks ==
  /\ "first" \in tree /\ tree' = tree \cup {"descendant"}
  /\ UNCHANGED <<srec, starter, said, sup, request, cmd>>

RuntimeExits ==
  /\ "first" \in tree /\ tree' = tree \ {"first"}
  /\ UNCHANGED <<srec, starter, said, sup, request, cmd>>

SupervisorKilled ==
  /\ SupAlive /\ KillSupervisor
  /\ UNCHANGED <<srec, starter, said, request, cmd>>

-----------------------------------------------------------------------------
(* status and stop *)

SetCmd(c, at, rec) == cmd' = [cmd EXCEPT ![c] = [at |-> at, rec |-> rec]]
Supervised(rec) == rec.sup /\ SupAlive

LoadRecord(c) ==
  /\ cmd[c].at = "idle" /\ starter = "ok"
  /\ SetCmd(c, "loaded", srec)
  /\ UNCHANGED <<srec, starter, said, sup, tree, request>>

\* A live state whose supervisor is gone: what is left of the group is killed.
StatusSweep(c) ==
  /\ c \in Observers /\ cmd[c].at = "loaded"
  /\ IF cmd[c].rec.state \in Live /\ ~Supervised(cmd[c].rec)
       THEN /\ SetCmd(c, "swept", cmd[c].rec)
            /\ tree' = IF cmd[c].rec.run THEN KillGroup(tree) ELSE tree
       ELSE SetCmd(c, "done", cmd[c].rec) /\ UNCHANGED tree
  /\ UNCHANGED <<srec, starter, said, sup, request>>

StatusWrite(c) ==
  /\ c \in Observers /\ cmd[c].at = "swept"
  /\ srec' = [cmd[c].rec EXCEPT !.state = "failed"]
  /\ SetCmd(c, "done", srec')
  /\ UNCHANGED <<starter, said, sup, tree, request>>

\* Mutant: a request that is already there counts as a stop.
RequestStopOnce(c) ==
  /\ c \in Stoppers /\ cmd[c].at = "loaded"
  /\ IF cmd[c].rec.state \in Ended \/ request
       THEN SetCmd(c, "done", cmd[c].rec) /\ UNCHANGED request
       ELSE SetCmd(c, "waiting", cmd[c].rec) /\ request' = TRUE
  /\ UNCHANGED <<srec, starter, said, sup, tree>>

RequestStop(c) ==
  /\ c \in Stoppers /\ cmd[c].at = "loaded"
  /\ IF cmd[c].rec.state \in Ended
       THEN SetCmd(c, "done", cmd[c].rec) /\ UNCHANGED request
       ELSE SetCmd(c, "waiting", cmd[c].rec) /\ request' = TRUE
  /\ UNCHANGED <<srec, starter, said, sup, tree>>

\* Loads the record again until it says stopped, the supervisor is gone or the
\* grace period has passed.
StopPoll(c) ==
  /\ c \in Stoppers /\ cmd[c].at = "waiting"
  /\ SetCmd(c, IF srec.state = "stopped" THEN "done" ELSE "cut", srec)
  /\ UNCHANGED <<srec, starter, said, sup, tree, request>>

StopCut(c) ==
  /\ c \in Stoppers /\ cmd[c].at = "cut"
  /\ SetCmd(c, "swept", cmd[c].rec)
  /\ LET killed == SupAlive /\ cmd[c].rec.sup
         left == IF killed THEN tree \ {"first"} ELSE tree
     IN /\ sup' = IF killed THEN "killed" ELSE sup
        /\ \/ tree' = IF cmd[c].rec.run THEN KillGroup(left) ELSE left
           \* the first process was not yet reaped and still leads its group
           \/ tree' = IF cmd[c].rec.run THEN KillGroup(tree) ELSE left
  /\ UNCHANGED <<srec, starter, said, request>>

StopWrite(c) ==
  /\ c \in Stoppers /\ cmd[c].at = "swept"
  /\ srec' = [cmd[c].rec EXCEPT !.state = "stopped"]
  /\ SetCmd(c, "done", srec')
  /\ UNCHANGED <<starter, said, sup, tree, request>>

-----------------------------------------------------------------------------
StartStep == StartRecord \/ StartSpawn \/ StartRegister \/ StartHandshake
             \/ StartAccept \/ StartReturns
SupStep == SupPayload \/ SupRunning \/ SupReady \/ SupInitFails \/ SupRespond
           \/ SupAccepted \/ SupNotAccepted \/ SupStopRequested
           \/ SupRuntimeExited \/ SupEnd \/ SupExit
CommandStep(c) == StatusSweep(c) \/ StatusWrite(c) \/ RequestStop(c) \/ StopPoll(c)
                  \/ StopCut(c) \/ StopWrite(c)
Accident == StartGivesUp \/ StarterKilled \/ SupSpawnFails \/ SupWriteFails \/ RuntimeForks
            \/ RuntimeExits \/ SupervisorKilled

PortableNext ==
  \/ StartStep \/ SupStep \/ Accident
  \/ \E c \in Commands : LoadRecord(c) \/ CommandStep(c)

PortableSpec == PortableInit /\ [][PortableNext]_portableVars

-----------------------------------------------------------------------------
(* A record that says stopped or failed has no Runtime left behind it: every *)
(* writer ends the first process before it writes, whoever else writes.      *)
EndedHasNoRuntime == srec.state \in Ended => "first" \notin tree

(* A supervisor that comes to its own end leaves nothing of the group,       *)
(* descendants included.                                                     *)
SupervisorCleansUp == sup = "exited" => tree = {}

(* A stop that returned has ended the Runtime, whatever it found.            *)
StopIsDone == \A c \in Stoppers : cmd[c].at = "done" => "first" \notin tree

(* A start that returned an error or was cancelled leaves no Runtime in the  *)
(* care of a supervisor, except one that is about to end.                    *)
FailedStartEnds == starter = "failed" => sup \notin {"monitor", "stopping"}

\* What the record and the answers say of the end of a session is so: no process
\* of it is left that nobody would look for.
EndIsTheEnd == EndedHasNoRuntime /\ SupervisorCleansUp /\ StopIsDone /\ FailedStartEnds
=============================================================================

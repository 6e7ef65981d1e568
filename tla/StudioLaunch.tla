----------------------------- MODULE StudioLaunch -----------------------------
(***************************************************************************)
(* The launch of Studio by one command (winboat/studio.rs, and the         *)
(* registration in winboat/sessions.rs) with the script that starts it in  *)
(* the guest (scripts/launch_studio.ps1).  The launch holds the VM; it     *)
(* runs the script twice at most, and each run connects twice at most.  A  *)
(* connection that is given up leaves its script, and what that started,   *)
(* in the guest, where it goes on and reports to the same file.            *)
(*                                                                         *)
(* A Studio is the process that the script started; if that hands over to  *)
(* a child and exits, only the child can have the window.  A kill of the   *)
(* command ends it at any step, with its connections, and is left out: it  *)
(* gives no answer that could be wrong.                                    *)
(***************************************************************************)
EXTENDS Naturals, FiniteSets

CONSTANT MaxTries    \* bound: connections of a launch, four in the code

ASSUME LaunchAssumption == MaxTries \in Nat \ {0}

Tries == 1..MaxTries
Runs == 1..2

VARIABLES
  drive,         \* the project comes over a drive of the connection, not from the workspace
  studioCall,    \* the step of the command, its connection, and what it knows
  rdp,           \* the connection that is alive, or 0
  held,          \* the connection in the registry of clients, or 0
  runtimeOf,     \* the Runtime session of the launch
  remembered,    \* the Studio recorded as bound to a drive, or 0
  launched,      \* per connection the Studio that its script started
  scripts,       \* per connection its script
  launchReport,  \* the report file: whose report, and its state
  opened         \* the Studios whose lock is next to the project

launchVars == <<drive, studioCall, rdp, held, runtimeOf, remembered, launched, scripts,
                launchReport, opened>>
hostVarsOfLaunch == <<rdp, held, runtimeOf, remembered>>
guestVarsOfLaunch == <<launched, scripts, launchReport, opened>>

NothingReported == [by |-> 0, state |-> "none"]
Alive(n) == launched[n] \in {"starting", "ready", "handed", "child"}
WithWindow(n) == launched[n] \in {"ready", "child"}

LaunchTypeOK ==
  /\ drive \in BOOLEAN
  /\ studioCall.at \in {"idle", "connect", "wait", "abort", "release", "answered",
                        "register", "link", "verify", "stop_studio", "stop_runtime",
                        "observe", "unlock", "record", "done", "unconfirmed", "failed"}
  /\ studioCall.try \in 0..MaxTries /\ studioCall.run \in Runs /\ studioCall.left \in 0..2
  /\ studioCall.seen \in [Runs -> Tries \union {0}]
  /\ studioCall.answer \in Tries \union {0} /\ studioCall.named \in BOOLEAN
  /\ studioCall.retry \in BOOLEAN
  /\ rdp \in Tries \union {0} /\ held \in Tries \union {0}
  /\ runtimeOf \in {"none", "prepared", "linked", "stopped"}
  /\ remembered \in Tries \union {0}
  /\ launched \in [Tries -> {"none", "starting", "ready", "handed", "child", "gone"}]
  /\ scripts \in [Tries -> {"absent", "begun", "started", "waiting", "monitor", "over"}]
  /\ launchReport \in [by : Tries, state : {"running", "ready", "closed", "failed"}]
                        \union {NothingReported}
  /\ opened \subseteq Tries

\* What kind of project it is makes no difference before the registration.
LaunchInit ==
  /\ drive = FALSE
  /\ studioCall = [at |-> "idle", try |-> 0, run |-> 1, left |-> 2,
                   seen |-> [r \in Runs |-> 0], answer |-> 0, named |-> FALSE, retry |-> FALSE]
  /\ rdp = 0 /\ held = 0 /\ runtimeOf = "none" /\ remembered = 0
  /\ launched = [n \in Tries |-> "none"] /\ scripts = [n \in Tries |-> "absent"]
  /\ launchReport = NothingReported /\ opened = {}

IsAt(step) == studioCall.at = step
Goes(step) == studioCall' = [studioCall EXCEPT !.at = step]
Seen == studioCall.seen[studioCall.run]

-----------------------------------------------------------------------------
(* launch_studio_with_lease: the runs of the script *)

\* Without a Runtime session nothing is started.
PrepareRuntime ==
  /\ IsAt("idle")
  /\ \/ Goes("connect") /\ runtimeOf' = "prepared"
     \/ /\ \E retry \in BOOLEAN : studioCall' = [studioCall EXCEPT !.at = "failed", !.retry = retry]
        /\ UNCHANGED runtimeOf
  /\ UNCHANGED <<drive, rdp, held, remembered, guestVarsOfLaunch>>

\* A run that failed: a Studio that it reported is aborted before anything else, and then
\* the cleanup decides whether the launch may be repeated.
RunFails(retry) ==
  /\ studioCall' = IF Seen = 0 THEN [studioCall EXCEPT !.at = "release", !.retry = retry]
               ELSE [studioCall EXCEPT !.at = "abort"]
  /\ rdp' = 0

\* The file of an earlier connection is removed.
ConnectGuest ==
  /\ IsAt("connect")
  /\ \/ /\ studioCall.try < MaxTries
        /\ studioCall' = [studioCall EXCEPT !.at = "wait", !.try = @ + 1, !.left = @ - 1]
        /\ rdp' = studioCall.try + 1 /\ launchReport' = NothingReported
     \/ (\E retry \in BOOLEAN : RunFails(retry)) /\ UNCHANGED launchReport
  /\ UNCHANGED <<drive, held, runtimeOf, remembered, launched, scripts, opened>>

\* The report of another connection does not authenticate.
ReadLaunchReport ==
  /\ IsAt("wait") /\ launchReport # NothingReported
  /\ \/ /\ launchReport.by # studioCall.try /\ RunFails(FALSE)
     \/ /\ launchReport.by = studioCall.try
        /\ CASE launchReport.state = "running" ->
                  /\ studioCall' = [studioCall EXCEPT !.seen[studioCall.run] = studioCall.try]
                  /\ UNCHANGED rdp
             [] launchReport.state \in {"ready", "closed"} ->
                  /\ studioCall' = [studioCall EXCEPT !.at = "answered", !.answer = studioCall.try,
                                              !.named = launchReport.state = "ready"]
                  /\ UNCHANGED rdp
             [] launchReport.state = "failed" -> RunFails(TRUE)
  /\ UNCHANGED <<drive, held, runtimeOf, remembered, guestVarsOfLaunch>>

\* The time is up, FreeRDP has ended or the certificate is rejected: once more, or the run
\* failed.
GiveUpConnection ==
  /\ IsAt("wait")
  /\ IF studioCall.left > 0 THEN Goes("connect") /\ rdp' = 0
     ELSE \E retry \in BOOLEAN : RunFails(retry)
  /\ UNCHANGED <<drive, held, runtimeOf, remembered, guestVarsOfLaunch>>

\* The process whose start was reported, by its identity; not what it handed over to.
AbortReaches(n) == IF launched[n] \in {"starting", "ready"} THEN "gone" ELSE launched[n]

\* The second run, or after it the answer that the launch may be repeated.
Aborted ==
  studioCall' = IF studioCall.run = 1
                THEN [studioCall EXCEPT !.at = "connect", !.run = 2, !.left = 2]
                ELSE [studioCall EXCEPT !.at = "release", !.retry = TRUE]

\* Mutant: the answer of the cleanup is not waited for.
AbortBlindly ==
  /\ IsAt("abort")
  /\ \/ launched' = [launched EXCEPT ![Seen] = AbortReaches(Seen)]
     \/ UNCHANGED launched
  /\ Aborted
  /\ UNCHANGED <<drive, hostVarsOfLaunch, scripts, launchReport, opened>>

\* abort_incomplete_launch.  Its script reaches the process or not; only its answer allows
\* the second run.
AbortIncompleteLaunch ==
  /\ IsAt("abort")
  /\ \/ /\ launched' = [launched EXCEPT ![Seen] = AbortReaches(Seen)]
        /\ Aborted
     \/ /\ launched' \in {launched, [launched EXCEPT ![Seen] = AbortReaches(Seen)]}
        /\ studioCall' = [studioCall EXCEPT !.at = "release", !.retry = FALSE]
  /\ UNCHANGED <<drive, hostVarsOfLaunch, scripts, launchReport, opened>>

\* Whether this stop succeeds makes no difference to the answer.
ReleaseRuntime ==
  /\ IsAt("release") /\ Goes("failed")
  /\ runtimeOf' \in {"prepared", "stopped"}
  /\ UNCHANGED <<drive, rdp, held, remembered, guestVarsOfLaunch>>

-----------------------------------------------------------------------------
(* After the answer: register_launch_client, link_studio_session and the   *)
(* check of the user interface                                             *)

\* recover_post_success_failure; a connection it is given is ended.  From here "retry"
\* says whether everything was cleaned up so far.
Recover(clean) ==
  studioCall' = [studioCall EXCEPT !.at = "stop_studio", !.retry = clean]

\* The answer lacks something, or the Studio in it closed before it was read.
AnswerUnusable ==
  /\ IsAt("answered")
  /\ \E clean \in BOOLEAN : Recover(clean)
  /\ rdp' = 0
  /\ UNCHANGED <<drive, held, runtimeOf, remembered, guestVarsOfLaunch>>

\* Mutant: a drive is not recorded.
RememberWorkspaceOnly ==
  /\ IsAt("answered") /\ studioCall.named
  /\ Goes("register") /\ drive' \in BOOLEAN
  /\ UNCHANGED <<hostVarsOfLaunch, guestVarsOfLaunch>>

\* remember_protected_session.  A registration that fails takes its connection along.
RememberProtected ==
  /\ IsAt("answered") /\ studioCall.named
  /\ drive' \in BOOLEAN
  /\ \/ /\ Goes("register") /\ remembered' = IF drive' THEN studioCall.answer ELSE remembered
        /\ UNCHANGED rdp
     \/ drive' /\ Recover(TRUE) /\ rdp' = 0 /\ UNCHANGED remembered
  /\ UNCHANGED <<held, runtimeOf, guestVarsOfLaunch>>

RegisterClient ==
  /\ IsAt("register") /\ Goes("link")
  /\ held' = studioCall.answer
  /\ UNCHANGED <<drive, rdp, runtimeOf, remembered, guestVarsOfLaunch>>

LinkRuntime ==
  /\ IsAt("link")
  /\ \/ Goes("verify") /\ runtimeOf' = "linked"
     \/ Recover(TRUE) /\ UNCHANGED runtimeOf
  /\ UNCHANGED <<drive, rdp, held, remembered, guestVarsOfLaunch>>

\* Mutant: a user interface that does not answer is taken for a failed launch.
VerifyOrDrop ==
  /\ IsAt("verify")
  /\ \/ Goes("done") /\ UNCHANGED <<rdp, held>>
     \/ Goes("unconfirmed") /\ rdp' = 0 /\ held' = 0
  /\ UNCHANGED <<drive, runtimeOf, remembered, guestVarsOfLaunch>>

VerifyOwnedSession ==
  /\ IsAt("verify") /\ (Goes("done") \/ Goes("unconfirmed"))
  /\ UNCHANGED <<drive, hostVarsOfLaunch, guestVarsOfLaunch>>

-----------------------------------------------------------------------------
(* recover_post_success_failure, step by step *)

\* stop_registered_client: without a client there is nothing to stop, and Studio stays.  The
\* client goes when Studio has, mostly with the lock; a stop that fails puts it back.
StopRegistered ==
  /\ IsAt("stop_studio")
  /\ \/ /\ held = 0 /\ Goes("stop_runtime")
        /\ UNCHANGED <<rdp, held, remembered, launched, opened>>
     \/ /\ held # 0 /\ Goes("stop_runtime")
        /\ launched' = [launched EXCEPT ![held] = "gone"]
        /\ opened' \in {opened, opened \ {held}}
        /\ rdp' = 0 /\ held' = 0 /\ remembered' = 0
     \/ /\ held # 0 /\ studioCall' = [studioCall EXCEPT !.at = "stop_runtime", !.retry = FALSE]
        /\ UNCHANGED <<rdp, held, remembered, launched, opened>>
  /\ UNCHANGED <<drive, runtimeOf, scripts, launchReport>>

StopRuntimeForRecovery ==
  /\ IsAt("stop_runtime")
  /\ \/ Goes("observe") /\ runtimeOf' = "stopped"
     \/ /\ studioCall' = [studioCall EXCEPT !.at = "observe", !.retry = FALSE]
        /\ UNCHANGED runtimeOf
  /\ UNCHANGED <<drive, rdp, held, remembered, guestVarsOfLaunch>>

\* Mutant: a Studio that nobody could look for is taken to be absent.
ObserveByDefault ==
  /\ IsAt("observe")
  /\ IF held = 0 /\ studioCall.named THEN Goes("unlock")
     ELSE studioCall' = [studioCall EXCEPT !.at = "record", !.retry = FALSE]
  /\ UNCHANGED <<drive, hostVarsOfLaunch, guestVarsOfLaunch>>

\* sessions::list.  A registered client is present, or its end prevents the query; the guest
\* is asked only without one.  The records of Studios that it does not list are dropped.
ObserveSession ==
  /\ IsAt("observe")
  /\ \/ /\ held = 0 /\ studioCall.named /\ ~Alive(studioCall.answer)
        /\ Goes("unlock") /\ remembered' = 0
     \/ /\ studioCall' = [studioCall EXCEPT !.at = "record", !.retry = FALSE]
        /\ UNCHANGED remembered
  /\ UNCHANGED <<drive, rdp, held, runtimeOf, guestVarsOfLaunch>>

\* cleanup_dead_launch_lock, after an absence that was observed
CleanupDeadLock ==
  /\ IsAt("unlock")
  /\ \/ Goes("record") /\ opened' = opened \ {studioCall.answer}
     \/ /\ studioCall' = [studioCall EXCEPT !.at = "record", !.retry = FALSE]
        /\ UNCHANGED opened
  /\ UNCHANGED <<drive, hostVarsOfLaunch, launched, scripts, launchReport>>

WriteCleanupReport ==
  /\ IsAt("record")
  /\ \/ Goes("failed")
     \/ studioCall' = [studioCall EXCEPT !.at = "failed", !.retry = FALSE]
  /\ UNCHANGED <<drive, hostVarsOfLaunch, guestVarsOfLaunch>>

-----------------------------------------------------------------------------
(* The script of a connection, and Studio *)

Reported(n, state) == launchReport' = [by |-> n, state |-> state]
Script(n, from, to) == scripts[n] = from /\ scripts' = [scripts EXCEPT ![n] = to]
Studio(n, from, to) == launched[n] = from /\ launched' = [launched EXCEPT ![n] = to]

BeginScript(n) ==
  /\ rdp = n /\ Script(n, "absent", "begun")
  /\ UNCHANGED <<launched, launchReport, opened>>

StartStudio(n) ==
  /\ Script(n, "begun", "started") /\ Studio(n, "none", "starting")
  /\ UNCHANGED <<launchReport, opened>>

ReportRunning(n) ==
  /\ Script(n, "started", "waiting") /\ Reported(n, "running")
  /\ UNCHANGED <<launched, opened>>

ReportReady(n) ==
  /\ WithWindow(n) /\ Script(n, "waiting", "monitor") /\ Reported(n, "ready")
  /\ UNCHANGED <<launched, opened>>

ReportClosed(n) ==
  /\ launched[n] = "gone" /\ Script(n, "monitor", "over") /\ Reported(n, "closed")
  /\ UNCHANGED <<launched, opened>>

ReportFailure(n) ==
  /\ \E from \in {"begun", "started", "waiting"} : Script(n, from, "over")
  /\ Reported(n, "failed")
  /\ UNCHANGED <<launched, opened>>

\* The launcher leaves the rest to a child.
HandOver(n) == Studio(n, "starting", "handed") /\ UNCHANGED <<scripts, launchReport, opened>>

\* With the window the project is open, and locked.
ShowWindow(n) ==
  /\ Studio(n, "starting", "ready") \/ Studio(n, "handed", "child")
  /\ opened' = opened \union {n}
  /\ UNCHANGED <<scripts, launchReport>>

\* Its user closes it, with its lock; or it crashes and leaves the lock.
StudioEnds(n) ==
  /\ Alive(n) /\ launched' = [launched EXCEPT ![n] = "gone"]
  /\ opened' \in {opened, opened \ {n}}
  /\ UNCHANGED <<scripts, launchReport>>

\* What the guest does after the command has answered is not followed.
GuestOfLaunch ==
  /\ studioCall.at \notin {"done", "unconfirmed", "failed"}
  /\ \E n \in Tries : BeginScript(n) \/ StartStudio(n) \/ ReportRunning(n) \/ ReportReady(n)
                      \/ ReportClosed(n) \/ ReportFailure(n) \/ HandOver(n) \/ ShowWindow(n)
                      \/ StudioEnds(n)
  /\ UNCHANGED <<drive, studioCall, hostVarsOfLaunch>>

LaunchNext ==
  \/ PrepareRuntime \/ ConnectGuest \/ ReadLaunchReport \/ GiveUpConnection
  \/ AbortIncompleteLaunch \/ ReleaseRuntime
  \/ AnswerUnusable \/ RememberProtected \/ RegisterClient \/ LinkRuntime
  \/ VerifyOwnedSession
  \/ StopRegistered \/ StopRuntimeForRecovery \/ ObserveSession \/ CleanupDeadLock
  \/ WriteCleanupReport \/ GuestOfLaunch

LaunchSpec == LaunchInit /\ [][LaunchNext]_launchVars

-----------------------------------------------------------------------------
(* Properties *)

\* A launch that may be repeated left nothing of its own: no connection, no client; the
\* Studio it was told of is gone, with its lock, and its Runtime stopped.  Without an answer
\* the process whose start a run reported last is gone; it can have handed over before.
RetryIsClean ==
  IsAt("failed") /\ studioCall.retry =>
    /\ rdp = 0 /\ held = 0
    /\ IF studioCall.answer # 0
       THEN ~Alive(studioCall.answer) /\ studioCall.answer \notin opened /\ runtimeOf = "stopped"
       ELSE \A r \in Runs : studioCall.seen[r] # 0 =>
              launched[studioCall.seen[r]] \in {"handed", "child", "gone"}

\* The lock next to the project is not taken from a Studio that has it open.
LockedWhileOpen == \A n \in Tries : WithWindow(n) => n \in opened

\* A launch that is not known to have failed keeps its Studio until that ends: connection,
\* client and linked Runtime, and the record of a drive, without which the Studio would be
\* connected again with no drive under its project.
OwnerIsKept ==
  studioCall.at \in {"done", "unconfirmed"} /\ Alive(studioCall.answer) =>
    /\ held = studioCall.answer /\ rdp = studioCall.answer /\ runtimeOf = "linked"
    /\ drive => remembered = studioCall.answer

\* A launch answers for what it leaves behind.
LaunchAnswersForItsStudio == RetryIsClean /\ LockedWhileOpen /\ OwnerIsKept
=============================================================================

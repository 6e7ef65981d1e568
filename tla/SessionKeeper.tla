---------------------------- MODULE SessionKeeper ----------------------------
(***************************************************************************)
(* The keeper of one Studio session: a process that launches Studio in the *)
(* guest, keeps its RemoteApp transport in a registry (winboat/sessions.rs)*)
(* and serves requests on a socket (cli.rs) until Studio is gone.  Every   *)
(* connection to the guest starts a monitor there, which follows Studio    *)
(* through the loss of the transport, takes stop requests and reports the  *)
(* exit; a registered client is the transport and the report of one.       *)
(*                                                                         *)
(* The registry is a mutex that nothing is awaited under; the stop of a    *)
(* session holds its client outside it for up to 45 s.                     *)
(***************************************************************************)
EXTENDS Naturals, FiniteSets

CONSTANTS Stops,          \* requests to stop the session
          Reconnects,     \* reconnections of the session by UI automation
          MaxMonitors     \* bound on the monitors the guest runs

ASSUME KeeperAssumption == MaxMonitors \in Nat \ {0}

VARIABLES
  keeper,      \* where the keeper is in its life
  studio,      \* Studio runs in the guest
  runtime,     \* the Runtime linked to the session, and whether the keeper stopped it
  transport,   \* the monitors whose RDP client is alive
  monitor,     \* per monitor its report, and the stop request it was sent
  clients,     \* the monitor of the registered client, 0 for none, and its state
  stopping,    \* the session is listed as being stopped
  stopCmd,     \* per stop request its step and the client it took out
  reconnect    \* per reconnection its step and the monitor it started

keeperVars == <<keeper, studio, runtime, transport, monitor, clients, stopping, stopCmd, reconnect>>

Monitors == 1..MaxMonitors
NoClient == [of |-> 0, state |-> "none"]
ClientSet == [of : Monitors, state : {"running", "unknown", "stopped"}] \cup {NoClient}

KeeperTypeOK ==
  /\ keeper \in {"launching", "offered", "serving", "closing", "retiring", "ended",
                "cleaning", "abandoned", "lost"}
  /\ studio \in BOOLEAN /\ runtime \in {"none", "active", "stopped"}
  /\ transport \subseteq Monitors
  /\ monitor \in [Monitors -> [report : {"none", "active", "ended"},
                               control : {"none", "file", "taken"}]]
  /\ clients \in ClientSet
  /\ stopping \in BOOLEAN
  /\ stopCmd \in [Stops -> [at : {"idle", "sent", "refused", "answered", "done"},
                            client : ClientSet]]
  /\ reconnect \in [Reconnects -> [at : {"idle", "checked", "confirmed", "done", "failed"},
                                   of : 0..MaxMonitors]]

KeeperInit ==
  /\ keeper = "launching" /\ studio = FALSE /\ runtime = "none"
  /\ transport = {} /\ clients = NoClient
  /\ monitor = [m \in Monitors |-> [report |-> "none", control |-> "none"]]
  /\ stopping = FALSE
  /\ stopCmd = [s \in Stops |-> [at |-> "idle", client |-> NoClient]]
  /\ reconnect = [r \in Reconnects |-> [at |-> "idle", of |-> 0]]

\* The requests that were accepted go on while the keeper is on its way out.
Working == keeper \in {"serving", "closing", "retiring"}
SetStop(s, step) == stopCmd' = [stopCmd EXCEPT ![s] = [at |-> step, client |-> NoClient]]
Held(s) == stopCmd[s].client.of
SetReconnect(r, step, m) == reconnect' = [reconnect EXCEPT ![r] = [at |-> step, of |-> m]]
guestVars == <<studio, monitor>>
requestVars == <<stopCmd, reconnect>>

-----------------------------------------------------------------------------
(* The guest. *)

\* The user closes Studio, or it takes the close it was asked for.
StudioExits ==
  /\ studio /\ studio' = FALSE
  /\ UNCHANGED <<keeper, runtime, transport, monitor, clients, stopping, requestVars>>

\* A monitor takes the stop request; Studio may refuse to close.
TakeControl(m) ==
  /\ monitor[m].report = "active" /\ studio
  /\ monitor[m].control \in {"file", "taken"}
  /\ \/ monitor[m].control = "file" /\ monitor' = [monitor EXCEPT ![m].control = "taken"] /\ UNCHANGED studio
     \/ monitor[m].control = "taken" /\ monitor' = [monitor EXCEPT ![m].control = "none"]
        /\ studio' \in BOOLEAN
  /\ UNCHANGED <<keeper, runtime, transport, clients, stopping, requestVars>>

ReportEnd(m) ==
  /\ monitor[m].report = "active" /\ ~studio
  /\ monitor' = [monitor EXCEPT ![m] = [report |-> "ended", control |-> "none"]]
  /\ UNCHANGED <<keeper, studio, runtime, transport, clients, stopping, requestVars>>

TransportLost(m) ==
  /\ m \in transport /\ transport' = transport \ {m}
  /\ UNCHANGED <<keeper, guestVars, runtime, clients, stopping, requestVars>>

NextMonitor == Cardinality({m \in Monitors : monitor[m].report # "none"}) + 1
StartMonitor == monitor' = [monitor EXCEPT ![NextMonitor].report = "active"]

-----------------------------------------------------------------------------
(* refresh_registered_clients *)

\* Mutant: a lost transport is taken for the end of Studio.
RefreshedByTransport(c) ==
  IF c.of = 0 \/ c.state = "stopped" THEN c
  ELSE [c EXCEPT !.state = IF c.of \in transport THEN "running" ELSE "stopped"]

\* The monitor's report decides; a lost transport or a report that cannot be
\* read leave the state unknown.
Refreshed(c) ==
  IF c.of = 0 \/ c.state = "stopped" THEN c
  ELSE [c EXCEPT !.state = IF monitor[c.of].report = "ended" THEN "stopped"
                           ELSE IF c.of \in transport THEN @ ELSE "unknown"]

\* The transport of a client seen to have stopped is terminated.
Kept(c) == IF c.state = "stopped" THEN transport \ {c.of} ELSE transport

Connected(c) == c.of \in transport /\ c.state # "stopped" /\ c.of # 0

-----------------------------------------------------------------------------
(* The life of the keeper. *)

\* The launch registers the client.
LaunchRegisters ==
  /\ keeper = "launching" /\ keeper' = "offered"
  /\ studio' = TRUE
  /\ StartMonitor /\ transport' = {NextMonitor}
  /\ clients' = [of |-> NextMonitor, state |-> "running"]
  /\ UNCHANGED <<runtime, stopping, requestVars>>

\* A launch, or a start of the Runtime that names the session, links it; the
\* session may be gone by then.
RuntimeIsLinked ==
  /\ keeper # "launching" /\ runtime = "none" /\ runtime' = "active"
  /\ UNCHANGED <<keeper, guestVars, transport, clients, stopping, requestVars>>

Accepted ==
  /\ keeper = "offered" /\ keeper' = "serving"
  /\ UNCHANGED <<guestVars, runtime, transport, clients, stopping, requestVars>>

\* cleanup_linked_runtimes.  The paths or the configuration may not be read, and
\* the VM may be busy or the stop fail: nobody hears of it, and the Runtime stays.
CleanUpRuntime ==
  \/ runtime' = runtime
  \/ runtime = "active" /\ runtime' = "stopped"

\* Nobody accepts: the keeper stops its session and drops its client whatever
\* became of that.
NotAccepted ==
  /\ keeper = "offered" /\ keeper' = "cleaning"
  /\ clients' = NoClient
  /\ IF Refreshed(clients).state = "stopped"
       THEN UNCHANGED monitor
       ELSE monitor' = [monitor EXCEPT ![clients.of].control = "file"]
  /\ UNCHANGED <<studio, runtime, transport, stopping, requestVars>>

\* Then the linked Runtime is stopped, Studio gone or not.
UnacceptedCleaned ==
  /\ keeper = "cleaning" /\ keeper' = "abandoned"
  /\ transport' = {} /\ CleanUpRuntime
  /\ UNCHANGED <<guestVars, clients, stopping, requestVars>>

\* Every second: a session seen to have ended ends the loop that serves.
Observe ==
  /\ keeper = "serving" /\ clients.of # 0
  /\ LET c == Refreshed(clients)
     IN /\ clients' = c /\ transport' = Kept(c)
        /\ keeper' = IF c.state = "stopped" THEN "closing" ELSE keeper
  /\ UNCHANGED <<guestVars, runtime, stopping, requestVars>>

\* The Runtime is stopped, then whatever client is registered by now goes.
ObservedCleans ==
  /\ keeper = "closing" /\ keeper' = "retiring"
  /\ CleanUpRuntime
  /\ clients' = NoClient /\ transport' = transport \ {clients.of}
  /\ UNCHANGED <<guestVars, stopping, requestVars>>

\* The UI jobs were given three seconds.
KeeperEnds ==
  /\ keeper = "retiring" /\ keeper' = "ended"
  /\ transport' = {} /\ clients' = NoClient
  /\ UNCHANGED <<guestVars, runtime, stopping, requestVars>>

\* The keeper is killed, or its listener fails.
KeeperLost ==
  /\ keeper \notin {"ended", "abandoned", "lost"} /\ keeper' = "lost"
  /\ transport' = {} /\ clients' = NoClient
  /\ UNCHANGED <<guestVars, runtime, stopping, requestVars>>

-----------------------------------------------------------------------------
(* stop_registered_client and the request that called it. *)

\* A client seen to have stopped is simply removed; the others are taken out
\* of the registry.  The control file must not exist.
StopTakes(s) ==
  /\ Working /\ stopCmd[s].at = "idle"
  /\ LET c == Refreshed(clients)
     IN \/ c.of = 0 /\ SetStop(s, "refused") /\ UNCHANGED <<clients, stopping, monitor, transport>>
        \/ /\ c.state = "stopped" /\ SetStop(s, "answered")
           /\ clients' = NoClient /\ transport' = Kept(c) /\ UNCHANGED <<stopping, monitor>>
        \/ /\ c.of # 0 /\ c.state # "stopped" /\ monitor[c.of].control = "file"
           /\ SetStop(s, "refused") /\ clients' = c /\ stopping' = FALSE
           /\ UNCHANGED <<monitor, transport>>
        \/ /\ c.of # 0 /\ c.state # "stopped" /\ monitor[c.of].control # "file"
           /\ stopCmd' = [stopCmd EXCEPT ![s] = [at |-> "sent", client |-> c]]
           /\ clients' = NoClient /\ stopping' = TRUE
           /\ monitor' = [monitor EXCEPT ![c.of].control =
                            IF monitor[c.of].report = "active" THEN "file" ELSE @]
           /\ UNCHANGED transport
  /\ UNCHANGED <<keeper, studio, runtime, reconnect>>

\* The monitor reports the exit: the transport ends, the client is dropped.
StopConfirmed(s) ==
  /\ stopCmd[s].at = "sent" /\ Working
  /\ monitor[Held(s)].report = "ended"
  /\ SetStop(s, "answered") /\ transport' = transport \ {Held(s)}
  /\ stopping' = FALSE
  /\ UNCHANGED <<keeper, guestVars, runtime, clients, reconnect>>

\* Mutant: a client whose stop failed is dropped.
StopUnconfirmedDrops(s) ==
  /\ stopCmd[s].at = "sent" /\ Working
  /\ SetStop(s, "refused")
  /\ transport' = transport \ {Held(s)}
  /\ stopping' = FALSE
  /\ UNCHANGED <<keeper, guestVars, runtime, clients, reconnect>>

\* 45 s pass or the transport is lost: the client goes back in its place, and
\* what was registered there meanwhile is terminated.
StopUnconfirmed(s) ==
  /\ stopCmd[s].at = "sent" /\ Working
  /\ SetStop(s, "refused")
  /\ clients' = stopCmd[s].client
  /\ transport' = transport \ (IF clients.of = Held(s) THEN {} ELSE {clients.of})
  /\ stopping' = FALSE
  /\ UNCHANGED <<keeper, guestVars, runtime, reconnect>>

\* Mutant: a keeper that refused a stop is retired without a look into the guest.
RetireUnseen(s) ==
  /\ stopCmd[s].at = "refused" /\ Working
  /\ SetStop(s, "answered")
  /\ clients' = NoClient /\ transport' = transport \ {clients.of}
  /\ UNCHANGED <<keeper, guestVars, runtime, stopping, reconnect>>

\* Refused: the command looks into the guest; if the session is absent there it
\* has the keeper drop the client that is registered, without a close request.
RetireAbsent(s) ==
  /\ stopCmd[s].at = "refused" /\ Working /\ ~studio
  /\ SetStop(s, "answered")
  /\ clients' = NoClient /\ transport' = transport \ {clients.of}
  /\ UNCHANGED <<keeper, guestVars, runtime, stopping, reconnect>>

\* Mutant: the Runtime is stopped before it is known what becomes of the stop.
StopCleansFirst(s) ==
  /\ stopCmd[s].at \in {"sent", "answered"} /\ Working
  /\ CleanUpRuntime
  /\ IF stopCmd[s].at = "sent" THEN UNCHANGED <<keeper, stopCmd>>
     ELSE SetStop(s, "done") /\ keeper' = IF keeper = "serving" THEN "retiring" ELSE keeper
  /\ UNCHANGED <<guestVars, transport, clients, stopping, reconnect>>

\* The command has its answer; now the Runtime is stopped, and the loop ends
\* unless the observation holds it.
StopCleans(s) ==
  /\ stopCmd[s].at = "answered" /\ Working
  /\ SetStop(s, "done") /\ CleanUpRuntime
  /\ keeper' = IF keeper = "serving" THEN "retiring" ELSE keeper
  /\ UNCHANGED <<guestVars, transport, clients, stopping, reconnect>>

-----------------------------------------------------------------------------
(* reconnect and register_client. *)

\* Only a session that is neither connected nor being stopped is reconnected.
ReconnectChecks(r) ==
  /\ Working /\ reconnect[r].at = "idle"
  /\ LET c == Refreshed(clients)
     IN /\ ~Connected(c) /\ ~stopping
        /\ clients' = c /\ transport' = Kept(c)
  /\ SetReconnect(r, "checked", 0)
  /\ UNCHANGED <<keeper, guestVars, runtime, stopping, stopCmd>>

\* The guest confirms the session over a new transport, with a new monitor.
ReconnectConfirms(r) ==
  /\ Working /\ reconnect[r].at = "checked"
  /\ \/ /\ studio /\ NextMonitor \in Monitors
        /\ StartMonitor /\ transport' = transport \cup {NextMonitor}
        /\ SetReconnect(r, "confirmed", NextMonitor)
     \/ SetReconnect(r, "failed", 0) /\ UNCHANGED <<monitor, transport>>
  /\ UNCHANGED <<keeper, studio, runtime, clients, stopping, stopCmd>>

\* Mutant: the transport that is replaced lives on.
RegisterBeside(r) ==
  /\ Working /\ reconnect[r].at = "confirmed"
  /\ clients' = [of |-> reconnect[r].of, state |-> "running"]
  /\ SetReconnect(r, "done", reconnect[r].of)
  /\ UNCHANGED <<keeper, guestVars, runtime, transport, stopping, stopCmd>>

\* The new client replaces the old one, whose transport is terminated.
Register(r) ==
  /\ Working /\ reconnect[r].at = "confirmed"
  /\ clients' = [of |-> reconnect[r].of, state |-> "running"]
  /\ transport' = transport \ (IF clients.of = reconnect[r].of THEN {} ELSE {clients.of})
  /\ SetReconnect(r, "done", reconnect[r].of)
  /\ UNCHANGED <<keeper, guestVars, runtime, stopping, stopCmd>>

\* A reconnection that runs out of time takes its own transport along.
ReconnectCancelled(r) ==
  /\ reconnect[r].at \in {"checked", "confirmed"}
  /\ SetReconnect(r, "failed", 0) /\ transport' = transport \ {reconnect[r].of}
  /\ UNCHANGED <<keeper, guestVars, runtime, clients, stopping, stopCmd>>

-----------------------------------------------------------------------------
GuestStep == StudioExits \/ \E m \in Monitors : TakeControl(m) \/ ReportEnd(m) \/ TransportLost(m)
KeeperStep == LaunchRegisters \/ Accepted \/ NotAccepted \/ UnacceptedCleaned
              \/ Observe \/ ObservedCleans \/ KeeperEnds \/ KeeperLost
StopStep(s) == StopTakes(s) \/ StopConfirmed(s) \/ StopUnconfirmed(s) \/ RetireAbsent(s) \/ StopCleans(s)
ReconnectStep(r) == ReconnectChecks(r) \/ ReconnectConfirms(r) \/ Register(r) \/ ReconnectCancelled(r)

KeeperNext ==
  \/ GuestStep \/ RuntimeIsLinked \/ KeeperStep
  \/ \E s \in Stops : StopStep(s)
  \/ \E r \in Reconnects : ReconnectStep(r)

KeeperSpec == KeeperInit /\ [][KeeperNext]_keeperVars

-----------------------------------------------------------------------------
(* What is checked. *)

\* While Studio runs, the keeper has its client, registered or being stopped:
\* neither a lost transport nor a stop that failed makes it let go.
OwnedUntilExit ==
  Working /\ studio => clients.of # 0 \/ \E s \in Stops : Held(s) # 0

\* Every transport alive belongs to the registered client, to the one being
\* stopped or to a reconnection that is not over: two of them would throw each
\* other out of the guest.
NoStrayTransport ==
  Working \/ keeper = "offered" => \A m \in transport :
    \/ m = clients.of
    \/ \E s \in Stops : m = Held(s)
    \/ \E r \in Reconnects : reconnect[r].at = "confirmed" /\ reconnect[r].of = m

\* Studio has one client, and the keeper has it.
ClientIsKept == OwnedUntilExit /\ NoStrayTransport

\* The Runtime of a session, and the keeper itself, outlive Studio: neither a lost
\* transport nor a stop that failed ends them, only a launch that nobody accepted.
\* (That the Runtime ends then is what the keeper attempts, not what it promises.)
OutliveStudio ==
  \/ keeper \in {"closing", "retiring", "ended"}
  \/ runtime = "stopped" /\ keeper # "abandoned"
  => ~studio

\* A stop is answered as done only when Studio is gone.
StoppedIsGone ==
  \A s \in Stops : stopCmd[s].at \in {"answered", "done"} => ~studio

\* Studio ends first, then the command that stops it, its Runtime and the keeper.
EndsInOrder == OutliveStudio /\ StoppedIsGone

\* A keeper keeps its session, and what belongs to it, until Studio is gone.
SessionIsKept == ClientIsKept /\ EndsInOrder
=============================================================================

---------------------------- MODULE Guest_proofs ----------------------------
(***************************************************************************)
(* The promises of what works with the guest: the keeper of a Studio       *)
(* session (SessionKeeper), an operation over RDP (WindowsOperation) and   *)
(* the launch of Studio (StudioLaunch).                                    *)
(***************************************************************************)
EXTENDS SessionKeeper, WindowsOperation, StudioLaunch, FiniteSetTheorems, TLAPS

(***************************************************************************)
(* A keeper, for any number of connections, stops and reconnections.  What *)
(* makes the invariant inductive is the tie between the requests and the   *)
(* registry: a stop that was sent holds the client it took out until it is *)
(* answered, and an end that anybody knows of has happened.                *)
(***************************************************************************)

\* A monitor, a stop and a reconnection.
MonitorTypes == [report : {"none", "active", "ended"}, control : {"none", "file", "taken"}]
StopTypes == [at : {"idle", "sent", "refused", "answered", "done"}, client : ClientSet]
ReconnectTypes == [at : {"idle", "checked", "confirmed", "done", "failed"}, of : 0..MaxMonitors]

\* Before the launch nothing is there.
NothingYet ==
  keeper = "launching" =>
    /\ clients = NoClient /\ \A m \in Monitors : monitor[m].report = "none"
    /\ \A s \in Stops : stopCmd[s].at = "idle"
    /\ runtime = "none"

\* An end that was reported, or seen, has happened, and an offered keeper has its client.
EndsAreReal ==
  /\ \A m \in Monitors : monitor[m].report = "ended" => ~studio
  /\ clients.state = "stopped" => ~studio
  /\ keeper = "offered" => clients.of # 0

\* A stop holds the client it is to stop from when it was sent until it is answered.
SentHolds ==
  \A s \in Stops :
    /\ stopCmd[s].at = "sent" <=> Held(s) # 0
    /\ stopCmd[s].client.state = "stopped" => ~studio

\* A reconnection that the guest confirmed has its monitor.
ConfirmedByMonitor ==
  \A r \in Reconnects : reconnect[r].at = "confirmed" => reconnect[r].of \in Monitors

KeeperInv ==
  KeeperTypeOK /\ NothingYet /\ EndsAreReal /\ SentHolds /\ ConfirmedByMonitor /\ SessionIsKept

-----------------------------------------------------------------------------
\* A client, by its fields.
LEMMA ClientShape ==
  ASSUME NEW c \in ClientSet
  PROVE  /\ c.of \in 0..MaxMonitors
         /\ c.of # 0 => c \in [of : Monitors, state : {"running", "unknown", "stopped"}]
         /\ c.of = 0 => c = NoClient /\ c.state # "stopped"
         /\ c.of \in Monitors => c.of # 0
BY KeeperAssumption DEF ClientSet, NoClient, Monitors

\* The client as it is refreshed: the same one, and stopped only if Studio is gone.
LEMMA RefreshIs ==
  ASSUME KeeperTypeOK, EndsAreReal
  PROVE  /\ Refreshed(clients) \in ClientSet /\ Refreshed(clients).of = clients.of
         /\ Refreshed(clients).state = "stopped" => ~studio
<1>0. clients \in ClientSet
  BY DEF KeeperTypeOK
<1>1. CASE clients.of = 0 \/ clients.state = "stopped"
  BY <1>1, <1>0, ClientShape DEF Refreshed, EndsAreReal
<1>2. CASE ~(clients.of = 0 \/ clients.state = "stopped")
  <2>1. clients \in [of : Monitors, state : {"running", "unknown", "stopped"}]
    BY <1>2, <1>0, ClientShape
  <2>2. PICK step \in {"running", "unknown", "stopped"} :
          /\ Refreshed(clients) = [clients EXCEPT !.state = step]
          /\ step = "stopped" => monitor[clients.of].report = "ended"
    BY <1>2, <2>1 DEF Refreshed
  <2> QED
    BY <2>1, <2>2 DEF EndsAreReal, ClientSet
<1> QED
  BY <1>1, <1>2

\* A step of a request that leaves the others alone.
LEMMA StopChanges ==
  ASSUME KeeperTypeOK, NEW s \in Stops, NEW c \in ClientSet,
         NEW step \in {"idle", "sent", "refused", "answered", "done"},
         stopCmd' = [stopCmd EXCEPT ![s] = [at |-> step, client |-> c]]
  PROVE  /\ stopCmd' \in [Stops -> [at : {"idle", "sent", "refused", "answered", "done"},
                                    client : ClientSet]]
         /\ stopCmd'[s].at = step /\ stopCmd'[s].client = c
         /\ \A q \in Stops \ {s} : stopCmd'[q] = stopCmd[q]
BY DEF KeeperTypeOK

\* A step of a reconnection that leaves the others alone.
LEMMA ReconnectChanges ==
  ASSUME NEW r \in Reconnects, NEW step \in {"idle", "checked", "confirmed", "done", "failed"},
         NEW m \in 0..MaxMonitors, KeeperTypeOK, SetReconnect(r, step, m)
  PROVE  /\ reconnect' \in [Reconnects -> [at : {"idle", "checked", "confirmed", "done", "failed"},
                                           of : 0..MaxMonitors]]
         /\ reconnect'[r].at = step /\ reconnect'[r].of = m
         /\ \A q \in Reconnects \ {r} : reconnect'[q] = reconnect[q]
BY DEF KeeperTypeOK, SetReconnect

\* The first state.
LEMMA KeeperStart == KeeperInit => KeeperInv
<1> SUFFICES ASSUME KeeperInit PROVE KeeperInv
  OBVIOUS
<1> USE DEF KeeperInit, NoClient
<1>0. NoClient \in ClientSet /\ 0 \in 0..MaxMonitors /\ {} \subseteq Monitors
  BY KeeperAssumption DEF ClientSet
<1>1. KeeperTypeOK
  <2>1. stopCmd \in [Stops -> [at : {"idle", "sent", "refused", "answered", "done"},
                              client : ClientSet]]
    BY <1>0
  <2>2. reconnect \in [Reconnects -> [at : {"idle", "checked", "confirmed", "done", "failed"},
                                     of : 0..MaxMonitors]]
    BY <1>0
  <2> QED
    BY <1>0, <2>1, <2>2 DEF KeeperTypeOK
<1>2. NothingYet /\ EndsAreReal /\ SentHolds /\ ConfirmedByMonitor
  BY DEF NothingYet, EndsAreReal, SentHolds, Held, ConfirmedByMonitor
<1>3. SessionIsKept
  BY DEF SessionIsKept, ClientIsKept, OwnedUntilExit, NoStrayTransport, EndsInOrder,
         OutliveStudio, StoppedIsGone, Working
<1> QED
  BY <1>1, <1>2, <1>3 DEF KeeperInv

-----------------------------------------------------------------------------
\* What a step of the guest does: Studio and its transports only end.
GuestOnlyEnds ==
  /\ studio' \in BOOLEAN /\ (studio' => studio) /\ transport' \subseteq transport
  /\ monitor' \in [Monitors -> MonitorTypes]
  /\ \A m \in Monitors : \/ monitor'[m].report = monitor[m].report
                         \/ monitor[m].report # "none" /\ monitor'[m].report = "ended" /\ ~studio
  /\ UNCHANGED <<keeper, runtime, clients, stopping, stopCmd, reconnect>>

\* In the guest Studio and its monitors only end.
LEMMA GuestEnds == KeeperTypeOK /\ GuestStep => GuestOnlyEnds
<1> SUFFICES ASSUME KeeperTypeOK, GuestStep PROVE GuestOnlyEnds
  OBVIOUS
<1> USE DEF KeeperTypeOK, MonitorTypes, GuestOnlyEnds, requestVars, guestVars
<1>1. CASE StudioExits
  BY <1>1 DEF StudioExits
<1>2. ASSUME NEW m \in Monitors, TakeControl(m) PROVE GuestOnlyEnds
  <2>1. CASE monitor' = [monitor EXCEPT ![m].control = "taken"] /\ UNCHANGED studio
    BY <1>2, <2>1 DEF TakeControl
  <2>2. CASE monitor' = [monitor EXCEPT ![m].control = "none"] /\ studio' \in BOOLEAN
    BY <1>2, <2>2 DEF TakeControl
  <2> QED
    BY <1>2, <2>1, <2>2 DEF TakeControl
<1>3. ASSUME NEW m \in Monitors, ReportEnd(m) PROVE GuestOnlyEnds
  BY <1>3 DEF ReportEnd
<1>4. ASSUME NEW m \in Monitors, TransportLost(m) PROVE GuestOnlyEnds
  BY <1>4 DEF TransportLost
<1> QED
  BY <1>1, <1>2, <1>3, <1>4 DEF GuestStep

\* What happens in the guest.
LEMMA GuestKeeps == KeeperInv /\ GuestStep => KeeperInv'
<1> SUFFICES ASSUME KeeperInv, GuestStep PROVE KeeperInv'
  OBVIOUS
<1>0. GuestOnlyEnds
  BY GuestEnds DEF KeeperInv
<1> USE <1>0 DEF KeeperInv, GuestOnlyEnds
<1>1. KeeperTypeOK'
  BY DEF KeeperTypeOK, MonitorTypes
<1>2. NothingYet'
  BY DEF NothingYet
<1>3. EndsAreReal' /\ SentHolds' /\ ConfirmedByMonitor'
  BY DEF EndsAreReal, SentHolds, Held, ConfirmedByMonitor
<1>4. ClientIsKept'
  BY DEF SessionIsKept, ClientIsKept, OwnedUntilExit, NoStrayTransport, Working, Held
<1>5. EndsInOrder'
  BY DEF SessionIsKept, EndsInOrder, OutliveStudio, StoppedIsGone
<1> QED
  BY <1>1, <1>2, <1>3, <1>4, <1>5 DEF SessionIsKept

\* A Runtime that is linked is not one the keeper stopped.
LEMMA LinkKeeps == KeeperInv /\ RuntimeIsLinked => KeeperInv'
<1> SUFFICES ASSUME KeeperInv, RuntimeIsLinked PROVE KeeperInv'
  OBVIOUS
<1> USE DEF KeeperInv, RuntimeIsLinked, guestVars, requestVars
<1>1. KeeperTypeOK' /\ NothingYet' /\ EndsAreReal' /\ SentHolds' /\ ConfirmedByMonitor'
  BY DEF KeeperTypeOK, NothingYet, EndsAreReal, SentHolds, Held, ConfirmedByMonitor
<1>2. ClientIsKept'
  BY DEF SessionIsKept, ClientIsKept, OwnedUntilExit, NoStrayTransport, Working, Held
<1>3. EndsInOrder'
  BY DEF SessionIsKept, EndsInOrder, OutliveStudio, StoppedIsGone
<1> QED
  BY <1>1, <1>2, <1>3 DEF SessionIsKept

-----------------------------------------------------------------------------
\* The launch registers its client, or fails.
LEMMA LaunchKeeps == KeeperInv /\ LaunchRegisters => KeeperInv'
<1> SUFFICES ASSUME KeeperInv, LaunchRegisters PROVE KeeperInv'
  OBVIOUS
<1> USE DEF KeeperInv, LaunchRegisters, requestVars
<1>1. NextMonitor = 1 /\ NextMonitor \in Monitors
  <2>1. {m \in Monitors : monitor[m].report # "none"} = {}
    BY DEF NothingYet
  <2> QED
    BY <2>1, FS_EmptySet, KeeperAssumption DEF NextMonitor, Monitors
<1>2. /\ monitor' \in [Monitors -> MonitorTypes]
      /\ \A m \in Monitors : monitor'[m].report # "ended"
  BY <1>1 DEF StartMonitor, KeeperTypeOK, NothingYet, MonitorTypes
<1>3. clients' \in [of : Monitors, state : {"running", "unknown", "stopped"}]
      /\ clients'.of = NextMonitor
      /\ clients'.state = "running" /\ clients'.of # 0
  BY <1>1
<1>4. KeeperTypeOK'
  BY <1>1, <1>2, <1>3 DEF KeeperTypeOK, ClientSet, MonitorTypes
<1>5. \A s \in Stops : Held(s) = 0 /\ stopCmd[s].at = "idle"
  BY DEF SentHolds, NothingYet
<1>51. \A s \in Stops : stopCmd[s].client.state # "stopped"
  BY <1>5, ClientShape DEF Held, KeeperTypeOK
<1>6. NothingYet' /\ EndsAreReal'
  BY <1>2, <1>3 DEF NothingYet, EndsAreReal
<1>61. SentHolds' /\ ConfirmedByMonitor'
  BY <1>5, <1>51 DEF SentHolds, Held, ConfirmedByMonitor
<1>7. ClientIsKept'
  BY <1>3 DEF ClientIsKept, OwnedUntilExit, NoStrayTransport, Working
<1>8. EndsInOrder'
  BY <1>5 DEF NothingYet, EndsInOrder, OutliveStudio, StoppedIsGone
<1> QED
  BY <1>4, <1>6, <1>61, <1>7, <1>8 DEF SessionIsKept

\* Observe, and what ends the keeper or drops its client.
LEMMA KeeperKeeps == KeeperInv /\ KeeperStep => KeeperInv'
<1> SUFFICES ASSUME KeeperInv, KeeperStep PROVE KeeperInv'
  OBVIOUS
<1> USE DEF KeeperInv, requestVars, guestVars
<1>0. clients \in ClientSet /\ Refreshed(clients) \in ClientSet
      /\ Refreshed(clients).of = clients.of
      /\ (Refreshed(clients).state = "stopped" => ~studio)
  BY RefreshIs DEF KeeperTypeOK
<1>00. NoClient \in ClientSet /\ NoClient.state # "stopped" /\ NoClient.of = 0
  BY DEF ClientSet, NoClient
<1>1. CASE LaunchRegisters
  BY <1>1, LaunchKeeps
<1>2. CASE Accepted
  <2> USE <1>2 DEF Accepted
  <2>1. KeeperTypeOK' /\ NothingYet' /\ EndsAreReal' /\ SentHolds' /\ ConfirmedByMonitor'
    BY DEF KeeperTypeOK, NothingYet, EndsAreReal, SentHolds, Held, ConfirmedByMonitor
  <2>2. ClientIsKept'
    BY DEF SessionIsKept, ClientIsKept, OwnedUntilExit, NoStrayTransport, Working, EndsAreReal, Held
  <2>3. EndsInOrder'
    BY DEF SessionIsKept, EndsInOrder, OutliveStudio, StoppedIsGone
  <2> QED
    BY <2>1, <2>2, <2>3 DEF SessionIsKept
<1>3. CASE NotAccepted
  <2> USE <1>3 DEF NotAccepted
  <2>0. clients.of \in Monitors
    BY ClientShape, <1>0 DEF EndsAreReal, Monitors
  <2>1. /\ monitor' \in [Monitors -> MonitorTypes]
        /\ \A m \in Monitors : monitor'[m].report = monitor[m].report
    <3>1. monitor' \in {monitor, [monitor EXCEPT ![clients.of].control = "file"]}
      OBVIOUS
    <3> QED
      <4>1. monitor \in [Monitors -> MonitorTypes]
        BY DEF KeeperTypeOK, MonitorTypes
      <4>2. CASE monitor' = [monitor EXCEPT ![clients.of].control = "file"]
        BY <2>0, <4>1, <4>2 DEF MonitorTypes
      <4> QED
        BY <3>1, <4>1, <4>2
  <2>2. KeeperTypeOK'
    BY <2>1, <1>00 DEF KeeperTypeOK, MonitorTypes
  <2>3. NothingYet' /\ EndsAreReal' /\ SentHolds' /\ ConfirmedByMonitor'
    BY <2>1, <1>00 DEF NothingYet, EndsAreReal, SentHolds, Held, ConfirmedByMonitor
  <2>4. SessionIsKept'
    BY DEF SessionIsKept, ClientIsKept, OwnedUntilExit, NoStrayTransport, Working, EndsInOrder,
           OutliveStudio, StoppedIsGone
  <2> QED
    BY <2>2, <2>3, <2>4
<1>4. CASE UnacceptedCleaned
  <2> USE <1>4 DEF UnacceptedCleaned, CleanUpRuntime
  <2>1. KeeperTypeOK' /\ NothingYet' /\ EndsAreReal' /\ SentHolds' /\ ConfirmedByMonitor'
    BY DEF KeeperTypeOK, NothingYet, EndsAreReal, SentHolds, Held, ConfirmedByMonitor
  <2>2. SessionIsKept'
    BY DEF SessionIsKept, ClientIsKept, OwnedUntilExit, NoStrayTransport, Working, EndsInOrder,
           OutliveStudio, StoppedIsGone
  <2> QED
    BY <2>1, <2>2
<1>5. CASE Observe
  <2>0. /\ clients' \in ClientSet /\ clients'.of = clients.of
        /\ (clients'.state = "stopped" => ~studio)
        /\ transport' = Kept(clients')
        /\ keeper = "serving" /\ clients.of # 0
        /\ keeper' = IF clients'.state = "stopped" THEN "closing" ELSE keeper
        /\ UNCHANGED <<runtime, studio, monitor, stopping, stopCmd, reconnect>>
    BY <1>5, <1>0 DEF Observe
  <2>1. transport' \subseteq transport
    BY <2>0 DEF Kept
  <2>2. KeeperTypeOK' /\ NothingYet' /\ EndsAreReal' /\ SentHolds' /\ ConfirmedByMonitor'
    BY <2>0, <2>1 DEF KeeperTypeOK, NothingYet, EndsAreReal, SentHolds, Held, ConfirmedByMonitor
  <2>3. ClientIsKept'
    BY <2>0, <2>1 DEF SessionIsKept, ClientIsKept, OwnedUntilExit, NoStrayTransport, Working, Held
  <2>4. EndsInOrder'
    BY <2>0 DEF SessionIsKept, EndsInOrder, OutliveStudio, StoppedIsGone
  <2> QED
    BY <2>2, <2>3, <2>4 DEF SessionIsKept
<1>7. CASE ObservedCleans
  <2> USE <1>7 DEF ObservedCleans, CleanUpRuntime
  <2>0. ~studio
    BY DEF SessionIsKept, EndsInOrder, OutliveStudio
  <2>1. KeeperTypeOK'
    BY <1>00 DEF KeeperTypeOK
  <2>2. NothingYet' /\ EndsAreReal' /\ SentHolds' /\ ConfirmedByMonitor'
    BY <1>00 DEF NothingYet, EndsAreReal, SentHolds, Held, ConfirmedByMonitor
  <2>3. ClientIsKept'
    BY <2>0 DEF SessionIsKept, ClientIsKept, OwnedUntilExit, NoStrayTransport, Working, Held
  <2>4. EndsInOrder'
    BY <2>0 DEF SessionIsKept, EndsInOrder, OutliveStudio, StoppedIsGone
  <2> QED
    BY <2>1, <2>2, <2>3, <2>4 DEF SessionIsKept
<1>8. CASE KeeperEnds
  <2> USE <1>8 DEF KeeperEnds
  <2>1. KeeperTypeOK' /\ NothingYet' /\ EndsAreReal' /\ SentHolds' /\ ConfirmedByMonitor'
    BY <1>00 DEF KeeperTypeOK, NothingYet, EndsAreReal, SentHolds, Held, ConfirmedByMonitor
  <2>2. SessionIsKept'
    BY DEF SessionIsKept, ClientIsKept, OwnedUntilExit, NoStrayTransport, Working, EndsInOrder,
           OutliveStudio, StoppedIsGone
  <2> QED
    BY <2>1, <2>2
<1>6. CASE KeeperLost
  <2> USE <1>6 DEF KeeperLost
  <2>1. KeeperTypeOK' /\ NothingYet' /\ EndsAreReal' /\ SentHolds' /\ ConfirmedByMonitor'
    BY <1>00 DEF KeeperTypeOK, NothingYet, EndsAreReal, SentHolds, Held, ConfirmedByMonitor
  <2>2. SessionIsKept'
    BY DEF SessionIsKept, ClientIsKept, OwnedUntilExit, NoStrayTransport, Working, EndsInOrder,
           OutliveStudio, StoppedIsGone
  <2> QED
    BY <2>1, <2>2
<1> QED
  BY <1>1, <1>2, <1>3, <1>4, <1>5, <1>6, <1>7, <1>8 DEF KeeperStep

-----------------------------------------------------------------------------
\* What a request leaves behind: it knows of an end only when Studio is gone.
StopsAreSound ==
  /\ stopCmd \in [Stops -> StopTypes] /\ SentHolds /\ StoppedIsGone

\* A step of a request while the keeper works: only after Studio does it end the loop
\* or stop the Runtime.
LEMMA WorkingKeeps ==
  ASSUME KeeperInv, Working, Working', studio' = studio,
         keeper' = keeper \/ ~studio, runtime' = runtime \/ ~studio,
         runtime' \in {"none", "active", "stopped"},
         monitor' \in [Monitors -> MonitorTypes],
         \A m \in Monitors : monitor'[m].report = "ended" => monitor[m].report = "ended",
         clients' \in ClientSet, clients'.state = "stopped" => ~studio,
         transport' \subseteq Monitors, stopping' \in BOOLEAN, StopsAreSound',
         reconnect' \in [Reconnects -> ReconnectTypes], ConfirmedByMonitor', ClientIsKept'
  PROVE  KeeperInv'
<1>1. KeeperTypeOK'
  BY DEF KeeperTypeOK, KeeperInv, MonitorTypes, StopTypes, ReconnectTypes, StopsAreSound, Working
<1>2. NothingYet' /\ EndsAreReal'
  BY DEF NothingYet, EndsAreReal, KeeperInv, Working
<1>3. EndsInOrder'
  BY DEF EndsInOrder, OutliveStudio, StopsAreSound, KeeperInv, SessionIsKept, Working
<1> QED
  BY <1>1, <1>2, <1>3 DEF KeeperInv, SessionIsKept, StopsAreSound

\* A stop request that moves on, with or without the client it holds.
LEMMA StopMoves ==
  ASSUME KeeperInv, studio' = studio, NEW s \in Stops,
         NEW step \in {"idle", "sent", "refused", "answered", "done"}, NEW c \in ClientSet,
         stopCmd' = [stopCmd EXCEPT ![s] = [at |-> step, client |-> c]],
         step = "sent" <=> c.of # 0, c.state = "stopped" => ~studio,
         step \in {"answered", "done"} => ~studio
  PROVE  /\ StopsAreSound' /\ stopCmd'[s].at = step /\ stopCmd'[s].client = c
         /\ \A q \in Stops \ {s} : stopCmd'[q] = stopCmd[q]
<1>1. /\ stopCmd' \in [Stops -> StopTypes]
      /\ stopCmd'[s].at = step /\ stopCmd'[s].client = c
      /\ \A q \in Stops \ {s} : stopCmd'[q] = stopCmd[q]
  BY DEF StopTypes, KeeperTypeOK, KeeperInv
<1>2. SentHolds'
  BY <1>1 DEF SentHolds, Held, KeeperInv
<1>3. StoppedIsGone'
  BY <1>1 DEF StoppedIsGone, KeeperInv, SessionIsKept, EndsInOrder
<1> QED
  BY <1>1, <1>2, <1>3 DEF StopsAreSound

\* The same for one that holds no client afterwards.
LEMMA StopLetsGo ==
  ASSUME NEW s \in Stops, NEW step \in {"idle", "refused", "answered", "done"}, KeeperInv,
         SetStop(s, step), studio' = studio, step \in {"answered", "done"} => ~studio
  PROVE  /\ StopsAreSound' /\ stopCmd'[s].at = step /\ stopCmd'[s].client = NoClient
         /\ \A q \in Stops \ {s} : stopCmd'[q] = stopCmd[q]
<1>1. NoClient \in ClientSet /\ NoClient.of = 0 /\ NoClient.state # "stopped"
  BY DEF ClientSet, NoClient
<1>2. /\ stopCmd' \in [Stops -> StopTypes]
      /\ stopCmd'[s].at = step /\ stopCmd'[s].client = NoClient
      /\ \A q \in Stops \ {s} : stopCmd'[q] = stopCmd[q]
  BY <1>1 DEF SetStop, StopTypes, KeeperTypeOK, KeeperInv
<1>3. SentHolds'
  BY <1>1, <1>2 DEF SentHolds, Held, KeeperInv
<1>4. StoppedIsGone'
  BY <1>2 DEF StoppedIsGone, KeeperInv, SessionIsKept, EndsInOrder
<1> QED
  BY <1>2, <1>3, <1>4 DEF StopsAreSound

\* A step that leaves every stop request as it was.
LEMMA StopsStay ==
  ASSUME KeeperInv, stopCmd' = stopCmd, studio' = studio
  PROVE  StopsAreSound'
BY DEF StopsAreSound, KeeperInv, KeeperTypeOK, StopTypes, SentHolds, Held, SessionIsKept,
       EndsInOrder, StoppedIsGone

\* A stop that holds no client, and leaves at most the registered one without a
\* transport, makes no transport stray.
LEMMA StaysOwned ==
  ASSUME KeeperInv, Working, NEW s \in Stops, Held(s) = 0,
         \A q \in Stops \ {s} : stopCmd'[q] = stopCmd[q], reconnect' = reconnect,
         transport' \subseteq transport, clients'.of = clients.of \/ clients.of \notin transport'
  PROVE  NoStrayTransport'
<1> SUFFICES ASSUME NEW m \in transport'
             PROVE  \/ m = clients'.of
                    \/ \E q \in Stops : m = Held(q)'
                    \/ \E r \in Reconnects : reconnect'[r].at = "confirmed" /\ reconnect'[r].of = m
  BY DEF NoStrayTransport
<1>1. \/ m = clients.of
      \/ \E q \in Stops : m = Held(q)
      \/ \E r \in Reconnects : reconnect[r].at = "confirmed" /\ reconnect[r].of = m
  BY DEF NoStrayTransport, KeeperInv, SessionIsKept, ClientIsKept, Working
<1>2. m # 0
  BY DEF KeeperInv, KeeperTypeOK, Monitors
<1>3. \A q \in Stops : m = Held(q) => Held(q)' = Held(q)
  BY <1>2 DEF Held
<1> QED
  BY <1>1, <1>3

-----------------------------------------------------------------------------
\* A stop that takes the registered client out, or finds nothing to stop.
LEMMA TakingKeeps == ASSUME NEW s \in Stops, KeeperInv, StopTakes(s) PROVE KeeperInv'
<1> DEFINE c == Refreshed(clients)
<1>0. clients \in ClientSet /\ c \in ClientSet /\ c.of = clients.of
      /\ (c.state = "stopped" => ~studio)
  BY RefreshIs DEF KeeperTypeOK, KeeperInv
<1>00. NoClient \in ClientSet /\ NoClient.state # "stopped" /\ NoClient.of = 0
  BY DEF ClientSet, NoClient
<1>01. /\ Working /\ Working' /\ keeper' = keeper /\ stopCmd[s].at = "idle" /\ Held(s) = 0
       /\ studio' = studio /\ runtime' = runtime /\ reconnect' = reconnect
       /\ runtime' \in {"none", "active", "stopped"}
  BY DEF KeeperInv, KeeperTypeOK, StopTakes, SentHolds, Working
<1>02. /\ monitor \in [Monitors -> MonitorTypes] /\ transport \subseteq Monitors
       /\ stopping \in BOOLEAN
       /\ reconnect' \in [Reconnects -> ReconnectTypes] /\ ConfirmedByMonitor'
       /\ OwnedUntilExit /\ NoStrayTransport
  BY <1>01 DEF KeeperInv, KeeperTypeOK, MonitorTypes, ReconnectTypes, SessionIsKept, ClientIsKept,
               ConfirmedByMonitor
<1>03. \/ c.of = 0 /\ SetStop(s, "refused") /\ UNCHANGED <<clients, stopping, monitor, transport>>
       \/ /\ c.state = "stopped" /\ SetStop(s, "answered")
          /\ clients' = NoClient /\ transport' = Kept(c) /\ UNCHANGED <<stopping, monitor>>
       \/ /\ c.of # 0 /\ c.state # "stopped" /\ monitor[c.of].control = "file"
          /\ SetStop(s, "refused") /\ clients' = c /\ stopping' = FALSE
          /\ UNCHANGED <<monitor, transport>>
       \/ /\ c.of # 0 /\ c.state # "stopped" /\ monitor[c.of].control # "file"
          /\ stopCmd' = [stopCmd EXCEPT ![s] = [at |-> "sent", client |-> c]]
          /\ clients' = NoClient /\ stopping' = TRUE
          /\ monitor' = [monitor EXCEPT ![c.of].control =
                           IF monitor[c.of].report = "active" THEN "file" ELSE @]
          /\ UNCHANGED transport
  BY DEF StopTakes
<1> HIDE DEF c
<1>1. CASE c.of = 0 /\ SetStop(s, "refused") /\ UNCHANGED <<clients, stopping, monitor, transport>>
  <2>1. /\ StopsAreSound' /\ stopCmd'[s].at = "refused" /\ stopCmd'[s].client = NoClient
        /\ \A q \in Stops \ {s} : stopCmd'[q] = stopCmd[q]
    BY <1>1, <1>01, StopLetsGo
  <2>2. OwnedUntilExit'
    BY <1>1, <1>01, <1>02, <2>1 DEF OwnedUntilExit, Held
  <2>3. NoStrayTransport'
    <3>1. transport' = transport /\ clients' = clients /\ keeper' = keeper
      BY <1>1, <1>01
    <3>2. \A q \in Stops : Held(q)' = Held(q)
      <4>1. Held(s)' = 0
        BY <2>1, <1>00 DEF Held
      <4>2. \A q \in Stops \ {s} : Held(q)' = Held(q)
        BY <2>1 DEF Held
      <4> QED
        BY <4>1, <4>2, <1>01
    <3> QED
      BY <3>1, <3>2, <1>01, <1>02 DEF NoStrayTransport, Working
  <2> QED
    BY <1>0, <1>1, <1>01, <1>02, <2>1, <2>2, <2>3, WorkingKeeps
       DEF KeeperInv, EndsAreReal, ClientIsKept
<1>2. CASE /\ c.state = "stopped" /\ SetStop(s, "answered")
           /\ clients' = NoClient /\ transport' = Kept(c) /\ UNCHANGED <<stopping, monitor>>
  <2>1. /\ StopsAreSound' /\ stopCmd'[s].at = "answered" /\ stopCmd'[s].client = NoClient
        /\ \A q \in Stops \ {s} : stopCmd'[q] = stopCmd[q]
    BY <1>0, <1>2, <1>01, StopLetsGo
  <2>2. OwnedUntilExit'
    BY <1>0, <1>2, <1>01 DEF OwnedUntilExit
  <2>3. transport' \subseteq transport /\ clients.of \notin transport'
    BY <1>0, <1>2 DEF Kept
  <2>4. NoStrayTransport'
    BY <1>2, <1>01, <2>1, <2>3, StaysOwned
  <2> QED
    BY <1>00, <1>2, <1>01, <1>02, <2>1, <2>2, <2>3, <2>4, WorkingKeeps DEF ClientIsKept
<1>3. CASE /\ c.of # 0 /\ c.state # "stopped" /\ monitor[c.of].control = "file"
           /\ SetStop(s, "refused") /\ clients' = c /\ stopping' = FALSE
           /\ UNCHANGED <<monitor, transport>>
  <2>1. /\ StopsAreSound' /\ stopCmd'[s].at = "refused" /\ stopCmd'[s].client = NoClient
        /\ \A q \in Stops \ {s} : stopCmd'[q] = stopCmd[q]
    BY <1>3, <1>01, StopLetsGo
  <2>2. OwnedUntilExit'
    BY <1>0, <1>3 DEF OwnedUntilExit
  <2>3. NoStrayTransport'
    BY <1>0, <1>3, <1>01, <1>02, <2>1 DEF NoStrayTransport, Held, Working, Monitors
  <2> QED
    BY <1>0, <1>3, <1>01, <1>02, <2>1, <2>2, <2>3, WorkingKeeps DEF ClientIsKept
<1>4. CASE /\ c.of # 0 /\ c.state # "stopped" /\ monitor[c.of].control # "file"
           /\ stopCmd' = [stopCmd EXCEPT ![s] = [at |-> "sent", client |-> c]]
           /\ clients' = NoClient /\ stopping' = TRUE
           /\ monitor' = [monitor EXCEPT ![c.of].control =
                            IF monitor[c.of].report = "active" THEN "file" ELSE @]
           /\ UNCHANGED transport
  <2>1. /\ StopsAreSound' /\ stopCmd'[s].at = "sent" /\ stopCmd'[s].client = c
        /\ \A q \in Stops \ {s} : stopCmd'[q] = stopCmd[q]
    BY <1>0, <1>4, <1>01, StopMoves
  <2>2. OwnedUntilExit'
    BY <1>4, <2>1 DEF OwnedUntilExit, Held
  <2>3. NoStrayTransport'
    BY <1>0, <1>4, <1>01, <1>02, <2>1 DEF NoStrayTransport, Held, Working, Monitors
  <2>4. c.of \in Monitors
    BY <1>0, <1>4, ClientShape DEF Monitors
  <2>5. /\ monitor' \in [Monitors -> MonitorTypes]
        /\ \A m \in Monitors : monitor'[m].report = monitor[m].report
    BY <1>4, <1>02, <2>4 DEF MonitorTypes
  <2> QED
    BY <1>00, <1>4, <1>01, <1>02, <2>1, <2>2, <2>3, <2>5, WorkingKeeps DEF ClientIsKept
<1> QED
  BY <1>03, <1>1, <1>2, <1>3, <1>4

\* Every step of a stop.
LEMMA StopsKeep == ASSUME NEW s \in Stops, KeeperInv, StopStep(s) PROVE KeeperInv'
<1>00. NoClient \in ClientSet /\ NoClient.state # "stopped" /\ NoClient.of = 0
  BY DEF ClientSet, NoClient
<1>02. /\ monitor \in [Monitors -> MonitorTypes] /\ transport \subseteq Monitors
       /\ stopping \in BOOLEAN
       /\ reconnect \in [Reconnects -> ReconnectTypes] /\ clients \in ClientSet
       /\ (clients.state = "stopped" => ~studio)
       /\ OwnedUntilExit /\ NoStrayTransport /\ SentHolds /\ StoppedIsGone
       /\ stopCmd[s].client \in ClientSet
  BY DEF KeeperInv, KeeperTypeOK, EndsAreReal, MonitorTypes, ReconnectTypes, SessionIsKept,
         ClientIsKept, EndsInOrder
<1>03. stopCmd[s].at = "sent" => Held(s) # 0 /\ Held(s) \in Monitors
  BY <1>02, ClientShape DEF SentHolds, Held
<1>04. reconnect' = reconnect => ConfirmedByMonitor'
  BY DEF KeeperInv, ConfirmedByMonitor
<1>05. stopCmd[s].at # "sent" => Held(s) = 0
  BY <1>02 DEF SentHolds
<1>06. /\ runtime \in {"none", "active", "stopped"}
       /\ Working /\ keeper' = keeper => Working'
  BY DEF KeeperInv, KeeperTypeOK, Working
<1>1. CASE StopTakes(s)
  BY <1>1, TakingKeeps
<1>2. CASE StopConfirmed(s)
  <2> USE <1>2 DEF StopConfirmed, guestVars
  <2>0. ~studio
    BY <1>03 DEF KeeperInv, EndsAreReal
  <2>1. /\ StopsAreSound' /\ stopCmd'[s].client = NoClient
        /\ \A q \in Stops \ {s} : stopCmd'[q] = stopCmd[q]
    BY <2>0, StopLetsGo
  <2>2. OwnedUntilExit'
    BY <2>0 DEF OwnedUntilExit
  <2>3. NoStrayTransport'
    BY <1>02, <2>1 DEF NoStrayTransport, Held, Working
  <2> QED
    BY <1>02, <1>04, <1>06, <2>1, <2>2, <2>3, WorkingKeeps DEF ClientIsKept
<1>3. CASE StopUnconfirmed(s)
  <2> USE <1>3 DEF StopUnconfirmed, guestVars
  <2>1. /\ StopsAreSound' /\ stopCmd'[s].client = NoClient
        /\ \A q \in Stops \ {s} : stopCmd'[q] = stopCmd[q]
    BY StopLetsGo
  <2>2. OwnedUntilExit'
    BY <1>02, <1>03 DEF OwnedUntilExit, Held
  <2>3. NoStrayTransport'
    BY <1>02, <1>03, <2>1 DEF NoStrayTransport, Held, Working
  <2>4. clients' \in ClientSet /\ (clients'.state = "stopped" => ~studio)
    BY <1>02 DEF SentHolds
  <2> QED
    BY <1>02, <1>04, <1>06, <2>1, <2>2, <2>3, <2>4, WorkingKeeps DEF ClientIsKept
<1>4. CASE StopCleans(s)
  <2> USE <1>4 DEF StopCleans, CleanUpRuntime, guestVars
  <2>0. ~studio /\ Working' /\ runtime' \in {"none", "active", "stopped"}
    BY <1>02 DEF StoppedIsGone, Working, KeeperInv, KeeperTypeOK
  <2>1. /\ StopsAreSound' /\ stopCmd'[s].client = NoClient
        /\ \A q \in Stops \ {s} : stopCmd'[q] = stopCmd[q]
    BY <2>0, StopLetsGo
  <2>2. OwnedUntilExit'
    BY <2>0 DEF OwnedUntilExit
  <2>3. NoStrayTransport'
    BY <1>05, <2>1, StaysOwned
  <2> QED
    BY <1>02, <1>04, <2>0, <2>1, <2>2, <2>3, WorkingKeeps DEF ClientIsKept
<1>5. CASE RetireAbsent(s)
  <2> USE <1>5 DEF RetireAbsent, guestVars
  <2>1. /\ StopsAreSound' /\ stopCmd'[s].client = NoClient
        /\ \A q \in Stops \ {s} : stopCmd'[q] = stopCmd[q]
    BY StopLetsGo
  <2>2. OwnedUntilExit'
    BY DEF OwnedUntilExit
  <2>3. NoStrayTransport'
    BY <1>05, <2>1, StaysOwned
  <2> QED
    BY <1>00, <1>02, <1>04, <1>06, <2>1, <2>2, <2>3, WorkingKeeps DEF ClientIsKept
<1> QED
  BY <1>1, <1>2, <1>3, <1>4, <1>5 DEF StopStep

-----------------------------------------------------------------------------
\* Every step of a reconnection.
LEMMA ReconnectsKeep == ASSUME NEW r \in Reconnects, KeeperInv, ReconnectStep(r) PROVE KeeperInv'
<1>02. /\ monitor \in [Monitors -> MonitorTypes] /\ transport \subseteq Monitors
       /\ stopping \in BOOLEAN
       /\ clients \in ClientSet /\ (clients.state = "stopped" => ~studio)
       /\ OwnedUntilExit /\ NoStrayTransport /\ KeeperTypeOK /\ reconnect[r] \in ReconnectTypes
  BY DEF KeeperInv, KeeperTypeOK, EndsAreReal, MonitorTypes, ReconnectTypes, SessionIsKept,
         ClientIsKept
<1>03. stopCmd' = stopCmd /\ studio' = studio /\ runtime' = runtime /\ keeper' = keeper
       /\ stopping' = stopping /\ (Working => Working') /\ runtime \in {"none", "active", "stopped"}
  BY <1>02 DEF KeeperTypeOK, Working, ReconnectStep, ReconnectChecks, ReconnectConfirms, Register, ReconnectCancelled, guestVars
<1>04. StopsAreSound'
  BY <1>03, StopsStay
<1>05. /\ ConfirmedByMonitor
       /\ \A f \in [Reconnects -> ReconnectTypes] :
            /\ f[r].at = "confirmed" => f[r].of \in Monitors
            /\ \A q \in Reconnects \ {r} : f[q] = reconnect[q]
            => \A q \in Reconnects : f[q].at = "confirmed" => f[q].of \in Monitors
  BY DEF KeeperInv, ConfirmedByMonitor
<1>1. CASE ReconnectChecks(r)
  <2> DEFINE c == Refreshed(clients)
  <2>0. c \in ClientSet /\ c.of = clients.of /\ (c.state = "stopped" => ~studio)
    BY RefreshIs DEF KeeperInv
  <2>1. /\ clients' = c /\ transport' = Kept(c) /\ Working /\ reconnect[r].at = "idle"
        /\ monitor' = monitor
    BY <1>1 DEF ReconnectChecks, guestVars
  <2>2. /\ reconnect' \in [Reconnects -> ReconnectTypes] /\ reconnect'[r].at = "checked"
        /\ \A q \in Reconnects \ {r} : reconnect'[q] = reconnect[q]
    <3>1. 0 \in 0..MaxMonitors
      BY KeeperAssumption
    <3> QED
      BY <1>1, <1>02, <3>1, ReconnectChanges DEF ReconnectChecks, ReconnectTypes
  <2> HIDE DEF c
  <2>3. OwnedUntilExit'
    BY <1>02, <1>03, <2>0, <2>1 DEF OwnedUntilExit, Held
  <2>4. transport' \subseteq transport
    BY <2>1 DEF Kept
  <2>5. NoStrayTransport'
    BY <1>02, <1>03, <2>0, <2>1, <2>2, <2>4 DEF NoStrayTransport, Held, Working
  <2>6. ConfirmedByMonitor'
    BY <1>05, <2>2 DEF ConfirmedByMonitor
  <2> QED
    BY <1>02, <1>03, <1>04, <2>0, <2>1, <2>2, <2>3, <2>4, <2>5, <2>6, WorkingKeeps DEF ClientIsKept
<1>2. CASE ReconnectConfirms(r)
  <2> USE <1>2 DEF ReconnectConfirms
  <2>0. OwnedUntilExit'
    BY <1>02, <1>03 DEF OwnedUntilExit, Held
  <2>1. CASE /\ studio /\ NextMonitor \in Monitors
             /\ StartMonitor /\ transport' = transport \cup {NextMonitor}
             /\ SetReconnect(r, "confirmed", NextMonitor)
    <3>1. NextMonitor \in 0..MaxMonitors
      BY <2>1, KeeperAssumption DEF Monitors
    <3>2. /\ reconnect' \in [Reconnects -> ReconnectTypes] /\ reconnect'[r].at = "confirmed"
          /\ reconnect'[r].of = NextMonitor
          /\ \A q \in Reconnects \ {r} : reconnect'[q] = reconnect[q]
      BY <2>1, <1>02, <3>1, ReconnectChanges DEF ReconnectTypes
    <3>3. /\ monitor' \in [Monitors -> MonitorTypes]
          /\ \A m \in Monitors : monitor'[m].report = "ended" => monitor[m].report = "ended"
      BY <2>1, <1>02 DEF StartMonitor, MonitorTypes
    <3>4. NoStrayTransport'
      BY <2>1, <1>02, <1>03, <3>2 DEF NoStrayTransport, Held, Working
    <3>5. ConfirmedByMonitor'
      BY <1>05, <2>1, <3>2 DEF ConfirmedByMonitor
    <3> QED
      BY <1>02, <1>03, <1>04, <2>0, <2>1, <3>2, <3>3, <3>4, <3>5, WorkingKeeps DEF ClientIsKept
  <2>2. CASE SetReconnect(r, "failed", 0) /\ UNCHANGED <<monitor, transport>>
    <3>1. /\ reconnect' \in [Reconnects -> ReconnectTypes] /\ reconnect'[r].at = "failed"
          /\ \A q \in Reconnects \ {r} : reconnect'[q] = reconnect[q]
      <4>1. 0 \in 0..MaxMonitors
        BY KeeperAssumption
      <4> QED
        BY <2>2, <1>02, <4>1, ReconnectChanges DEF ReconnectTypes
    <3>2. NoStrayTransport'
      BY <2>2, <1>02, <1>03, <3>1 DEF NoStrayTransport, Held, Working
    <3>3. ConfirmedByMonitor'
      BY <1>05, <3>1 DEF ConfirmedByMonitor
    <3> QED
      BY <1>02, <1>03, <1>04, <2>0, <2>2, <3>1, <3>2, <3>3, WorkingKeeps DEF ClientIsKept
  <2> QED
    BY <2>1, <2>2
<1>3. CASE Register(r)
  <2> USE <1>3 DEF Register, guestVars
  <2>1. /\ reconnect' \in [Reconnects -> ReconnectTypes] /\ reconnect'[r].at = "done"
        /\ \A q \in Reconnects \ {r} : reconnect'[q] = reconnect[q]
    <3>1. reconnect[r].of \in 0..MaxMonitors
      BY <1>02 DEF ReconnectTypes
    <3> QED
      BY <1>02, <3>1, ReconnectChanges DEF ReconnectTypes
  <2>2. reconnect[r].of \in Monitors
    BY <1>05 DEF ConfirmedByMonitor
  <2>3. clients' \in ClientSet /\ clients'.state # "stopped" /\ clients'.of = reconnect[r].of
        /\ clients'.of # 0
    BY <2>2 DEF ClientSet, Monitors
  <2>4. OwnedUntilExit'
    BY <2>3 DEF OwnedUntilExit
  <2>5. NoStrayTransport'
    BY <1>02, <1>03, <2>1, <2>3 DEF NoStrayTransport, Held, Working
  <2>6. ConfirmedByMonitor'
    BY <1>05, <2>1 DEF ConfirmedByMonitor
  <2> QED
    BY <1>02, <1>03, <1>04, <2>1, <2>3, <2>4, <2>5, <2>6, WorkingKeeps DEF ClientIsKept
<1>4. CASE ReconnectCancelled(r)
  <2> USE <1>4 DEF ReconnectCancelled, guestVars
  <2>1. /\ reconnect' \in [Reconnects -> ReconnectTypes] /\ reconnect'[r].at = "failed"
        /\ \A q \in Reconnects \ {r} : reconnect'[q] = reconnect[q]
    <3>1. 0 \in 0..MaxMonitors
      BY KeeperAssumption
    <3> QED
      BY <1>02, <3>1, ReconnectChanges DEF ReconnectTypes
  <2>2. KeeperTypeOK'
    BY <1>02, <2>1 DEF KeeperTypeOK, ReconnectTypes
  <2>3. NothingYet' /\ EndsAreReal' /\ SentHolds'
    BY DEF KeeperInv, NothingYet, EndsAreReal, SentHolds, Held
  <2>4. ConfirmedByMonitor'
    BY <1>05, <2>1 DEF ConfirmedByMonitor
  <2>5. OwnedUntilExit'
    BY <1>02 DEF OwnedUntilExit, Working, Held
  <2>6. NoStrayTransport'
    BY <1>02, <2>1 DEF NoStrayTransport, Held, Working
  <2>7. EndsInOrder'
    BY DEF KeeperInv, SessionIsKept, EndsInOrder, OutliveStudio, StoppedIsGone
  <2> QED
    BY <2>2, <2>3, <2>4, <2>5, <2>6, <2>7 DEF KeeperInv, SessionIsKept, ClientIsKept
<1> QED
  BY <1>1, <1>2, <1>3, <1>4 DEF ReconnectStep

-----------------------------------------------------------------------------
\* A step that changes nothing of the keeper.
LEMMA KeeperStutters == KeeperInv /\ UNCHANGED keeperVars => KeeperInv'
<1> SUFFICES ASSUME KeeperInv, UNCHANGED keeperVars PROVE KeeperInv'
  OBVIOUS
<1> USE DEF KeeperInv, keeperVars
<1>1. KeeperTypeOK' /\ NothingYet' /\ EndsAreReal' /\ SentHolds' /\ ConfirmedByMonitor'
  BY DEF KeeperTypeOK, NothingYet, EndsAreReal, SentHolds, Held, ConfirmedByMonitor
<1>2. SessionIsKept'
  BY DEF SessionIsKept, ClientIsKept, OwnedUntilExit, NoStrayTransport, Working, Held, EndsInOrder,
         OutliveStudio, StoppedIsGone
<1> QED
  BY <1>1, <1>2

\* The inductive invariant of the keeper.
LEMMA KeeperHolds == KeeperSpec => []KeeperInv
<1>1. KeeperInv /\ [KeeperNext]_keeperVars => KeeperInv'
  BY GuestKeeps, LinkKeeps, KeeperKeeps, StopsKeep, ReconnectsKeep, KeeperStutters DEF KeeperNext
<1> QED
  BY <1>1, KeeperStart, PTL DEF KeeperSpec

\* For any number of connections, stops and reconnections, the keeper, its client, the
\* monitors and the requests have their types.
THEOREM KeeperTypes == KeeperSpec => []KeeperTypeOK
BY KeeperHolds, PTL DEF KeeperInv

\* While Studio runs its keeper holds its client, registered or being stopped, and no
\* transport beside it; the keeper leaves its loop, answers a stop as done, or stops the
\* linked Runtime, only when Studio is gone, unless nobody accepted the launch.
THEOREM SessionsAreKept == KeeperSpec => []SessionIsKept
BY KeeperHolds, PTL DEF KeeperInv

(***************************************************************************)
(* An operation, for any number of operations, ports and certificates.     *)
(* Between what an operation reads of the anchor and the pins and what it  *)
(* does with them others go on; the invariant says what remains true of    *)
(* the older values: no pin speaks against what was accepted, and what was *)
(* confirmed is the anchor, which nobody replaces.                         *)
(***************************************************************************)

CallTypes ==
  [at : {"idle", "clear", "anchor", "pins", "wait", "confirm", "create", "sync", "kept", "done",
         "failed"},
   try : Attempts, port : Ports, required : Pinned, accepted : Pinned \union {"rejected"},
   confirmed : BOOLEAN, last : Reports \union {NoReport}, answers : Seq(Reports)]
ScriptTypes == [Attempts -> [state : {"absent", "running", "over"}, sent : 0..MaxReports]]
ShareTypes == [report : Reports \union {NoReport}, script : ScriptTypes]

WinTypes ==
  /\ listening \in [Ports -> Certificates]
  /\ anchor \in Pinned /\ pins \in [Ports -> Pinned] /\ legacy \subseteq Certificates
  /\ call \in [Calls -> CallTypes] /\ share \in [Calls -> ShareTypes]

\* Until there is an anchor the pins are the old ones; later they are none others.
PinsFit ==
  /\ anchor = NotPinned \/ legacy = {} \/ anchor \in legacy
  /\ legacy # {} => /\ \A p \in Ports : pins[p] \in legacy \union {NotPinned}
                    /\ \E p \in Ports : pins[p] # NotPinned

\* What a call requires, and what it accepted, is none that the old pins speak against.
AcceptedFits(q, old) ==
  /\ q.at = "wait" /\ q.accepted = NotPinned => old = {} \/ q.required \in old
  /\ q.accepted \in Certificates => old = {} \/ q.accepted \in old

\* A script runs for an attempt that is over, or for the one that accepted a certificate.
ScriptsKnown(q, s) ==
  \A n \in Attempts :
    /\ s.script[n].state # "absent" => n < q.try \/ (n = q.try /\ q.accepted \in Certificates)
    /\ s.report.by = n => s.script[n].state # "absent"

\* What was confirmed is the anchor.
ConfirmedIsAnchor(q, a) ==
  /\ q.at \in {"sync", "kept"} \/ q.confirmed \/ q.answers # <<>> =>
       q.accepted = a /\ a \in Certificates
  /\ q.at \in {"confirm", "create", "sync"} =>
       q.last # NoReport /\ q.accepted \in Certificates /\ q.answers = <<>>
  /\ q.last # NoReport => q.last.by = q.try

\* The answers are those of the attempt, in order; one that waits for a second knows the first.
AnswersInOrder(q) ==
  /\ Len(q.answers) <= 2
  /\ \A k \in 1..Len(q.answers) : q.answers[k].by = q.try
  /\ Len(q.answers) = 2 => q.answers[1].seq < q.answers[2].seq
  /\ q.answers # <<>> /\ q.at \notin {"done", "failed"} =>
       /\ Len(q.answers) = 1 /\ q.confirmed
       /\ q.last # NoReport /\ q.answers[1].seq <= q.last.seq

Sound(q, s, a, old) ==
  AcceptedFits(q, old) /\ ScriptsKnown(q, s) /\ ConfirmedIsAnchor(q, a) /\ AnswersInOrder(q)

WinInv == WinTypes /\ PinsFit /\ \A c \in Calls : Sound(call[c], share[c], anchor, legacy)

-----------------------------------------------------------------------------
\* The values everything begins with are in their types.
LEMMA FirstValues ==
  /\ NotCalled \in CallTypes /\ NotShared \in ShareTypes
  /\ NotCalled.answers = <<>> /\ NoReport \notin Reports /\ NotPinned \in Pinned
  /\ NoReport.by \notin Attempts
<1>1. FirstPort \in Ports
  BY WinAssumption DEF FirstPort
<1>2. NoReport \notin Reports /\ NoReport.by \notin Attempts
  BY DEF NoReport, Reports, Attempts
<1>3. NotCalled \in CallTypes
  BY <1>1 DEF NotCalled, CallTypes, Pinned, Attempts
<1>4. NotShared \in ShareTypes
  BY WinAssumption DEF NotShared, ShareTypes, ScriptTypes
<1> QED
  BY <1>2, <1>3, <1>4 DEF NotCalled, Pinned

\* The types follow from the invariant.
LEMMA TypesAreTypes == WinInv => WinTypeOK
<1> SUFFICES ASSUME WinInv PROVE WinTypeOK
  OBVIOUS
<1>1. \A c \in Calls :
       /\ call[c].at \in {"idle", "clear", "anchor", "pins", "wait", "confirm",
                          "create", "sync", "kept", "done", "failed"}
       /\ call[c].try \in Attempts /\ call[c].port \in Ports
       /\ call[c].required \in Pinned /\ call[c].accepted \in Pinned \union {"rejected"}
       /\ call[c].confirmed \in BOOLEAN /\ call[c].last \in Reports \union {NoReport}
       /\ call[c].answers \in Seq(Reports)
  BY DEF WinInv, WinTypes, CallTypes
<1>2. \A c \in Calls : Len(call[c].answers) <= 2
  BY DEF WinInv, Sound, AnswersInOrder
<1> QED
  BY <1>1, <1>2 DEF WinInv, WinTypes, WinTypeOK, ShareTypes, ScriptTypes

\* So does what is claimed of the answers.
LEMMA TrustedIsTrusted == WinInv => AnswersAreTrusted
<1> SUFFICES ASSUME WinInv PROVE AnswersAreTrusted
  OBVIOUS
<1>1. ASSUME NEW c \in Calls, NEW k \in 1..2, k <= Len(call[c].answers)
      PROVE  /\ call[c].answers[k].by = call[c].try /\ call[c].accepted = anchor
             /\ k = 2 => call[c].answers[1].seq < call[c].answers[2].seq
  <2>1. Sound(call[c], share[c], anchor, legacy) /\ call[c].answers \in Seq(Reports)
    BY DEF WinInv, WinTypes, CallTypes
  <2>2. call[c].answers # <<>>
    BY <1>1
  <2>3. Len(call[c].answers) \in Nat /\ k \in 1..Len(call[c].answers)
    BY <1>1, <2>1
  <2>4. call[c].accepted = anchor
    BY <2>1, <2>2 DEF Sound, ConfirmedIsAnchor
  <2>5. AnswersInOrder(call[c])
    BY <2>1 DEF Sound
  <2>6. call[c].answers[k].by = call[c].try
    BY <2>3, <2>5 DEF AnswersInOrder
  <2>7. k = 2 => call[c].answers[1].seq < call[c].answers[2].seq
    <3>1. Len(call[c].answers) <= 2
          /\ (Len(call[c].answers) = 2 => call[c].answers[1].seq < call[c].answers[2].seq)
      BY <2>5 DEF AnswersInOrder
    <3>2. PICK n \in Nat : n = Len(call[c].answers)
      BY <2>3
    <3>3. k <= n /\ n <= 2
      BY <1>1, <3>1, <3>2
    <3>4. k = 2 => n = 2
      BY <3>3
    <3> QED
      BY <3>1, <3>2, <3>4
  <2> QED
    BY <2>4, <2>6, <2>7
<1>2. anchor = NotPinned \/ legacy = {} \/ anchor \in legacy
  BY DEF WinInv, PinsFit
<1> QED
  BY <1>1, <1>2 DEF AnswersAreTrusted

\* A call in its first state, or one that ended.
LEMMA FreshIsSound ==
  ASSUME NEW q \in CallTypes, NEW s \in ShareTypes, NEW a, NEW old,
         q.at \notin {"wait", "sync", "kept", "confirm", "create"}, q.accepted = NotPinned,
         q.confirmed = FALSE, q.last = NoReport, q.answers = <<>>, ScriptsKnown(q, s)
  PROVE  Sound(q, s, a, old)
<1>1. AcceptedFits(q, old)
  BY WinAssumption DEF AcceptedFits
<1>2. ConfirmedIsAnchor(q, a)
  BY DEF ConfirmedIsAnchor
<1>3. AnswersInOrder(q)
  BY DEF AnswersInOrder
<1> QED
  BY <1>1, <1>2, <1>3 DEF Sound

\* Before a script was started nothing is said of one.
LEMMA NothingKnown == ASSUME NEW q PROVE ScriptsKnown(q, NotShared)
BY FirstValues DEF ScriptsKnown, NotShared, NoReport

\* The first state.
LEMMA WinStart == WinInit => WinInv
<1> SUFFICES ASSUME WinInit PROVE WinInv
  OBVIOUS
<1> USE DEF WinInit
<1>1. WinTypes
  <2>1. call \in [Calls -> CallTypes] /\ share \in [Calls -> ShareTypes]
    BY FirstValues
  <2>2. legacy \subseteq Certificates
    BY DEF Pinned
  <2> QED
    BY <2>1, <2>2, FirstValues DEF WinTypes
<1>2. PinsFit
  BY DEF PinsFit
<1>3. ASSUME NEW c \in Calls PROVE Sound(call[c], share[c], anchor, legacy)
  BY FirstValues, FreshIsSound, NothingKnown DEF NotCalled
<1> QED
  BY <1>1, <1>2, <1>3 DEF WinInv

-----------------------------------------------------------------------------
\* One operation moves on, and writes what is trusted.
LEMMA OneCallWrites ==
  ASSUME WinInv, NEW c \in Calls, NEW q \in CallTypes, NEW s \in ShareTypes,
         call' = [call EXCEPT ![c] = q], share' = [share EXCEPT ![c] = s],
         listening' = listening, legacy' = legacy, anchor' \in Pinned, pins' \in [Ports -> Pinned],
         PinsFit', Sound(q, s, anchor', legacy),
         \A o \in Calls \ {c} : Sound(call[o], share[o], anchor', legacy)
  PROVE  WinInv'
<1>1. call'[c] = q /\ share'[c] = s 
      /\ \A o \in Calls \ {c} : call'[o] = call[o] /\ share'[o] = share[o]
  BY DEF WinInv, WinTypes
<1>2. WinTypes'
  BY DEF WinInv, WinTypes
<1>4. \A o \in Calls : Sound(call'[o], share'[o], anchor', legacy')
  BY <1>1
<1> QED
  BY <1>2, <1>4 DEF WinInv

\* One operation moves on.
LEMMA OneCallMoves ==
  ASSUME WinInv, NEW c \in Calls, NEW q \in CallTypes, NEW s \in ShareTypes,
         call' = [call EXCEPT ![c] = q], share' = [share EXCEPT ![c] = s],
         UNCHANGED <<listening, trustVars>>, Sound(q, s, anchor, legacy)
  PROVE  WinInv'
<1>1. anchor' = anchor /\ legacy' = legacy /\ pins' = pins /\ listening' = listening
  BY DEF trustVars
<1>2. PinsFit' /\ anchor' \in Pinned /\ pins' \in [Ports -> Pinned]
  BY <1>1 DEF WinInv, WinTypes, PinsFit
<1>3. \A o \in Calls : Sound(call[o], share[o], anchor', legacy)
  BY <1>1 DEF WinInv
<1>4. Sound(q, s, anchor', legacy)
  BY <1>1
<1> QED
  BY <1>1, <1>2, <1>3, <1>4, OneCallWrites

\* An operation that moves on leaves the files of the others.
LEMMA SharesStay ==
  ASSUME WinInv, NEW c \in Calls, share' = share
  PROVE  share[c] \in ShareTypes /\ share' = [share EXCEPT ![c] = share[c]]
BY DEF WinInv, WinTypes

\* What happens to a file leaves the operations.
LEMMA CallsStay ==
  ASSUME WinInv, NEW c \in Calls, call' = call
  PROVE  call[c] \in CallTypes /\ call' = [call EXCEPT ![c] = call[c]]
BY DEF WinInv, WinTypes

\* What ended keeps its answers, and the certificate over which they came.
LEMMA EndedIsSound ==
  ASSUME NEW q \in CallTypes, NEW s, NEW a, NEW old, Sound(q, s, a, old), NEW e \in CallTypes,
         e.at \in {"done", "failed"}, e.try = q.try, e.confirmed = FALSE, e.last = NoReport,
         e.accepted = (IF e.answers = <<>> THEN NotPinned ELSE q.accepted),
         e.answers # <<>> => q.accepted = a /\ a \in Certificates, Len(e.answers) <= 2,
         \A k \in 1..Len(e.answers) : e.answers[k].by = q.try,
         Len(e.answers) = 2 => e.answers[1].seq < e.answers[2].seq
  PROVE  Sound(e, NotShared, a, old)
<1>1. AcceptedFits(e, old)
  BY WinAssumption DEF AcceptedFits, Sound
<1>2. ConfirmedIsAnchor(e, a)
  BY DEF ConfirmedIsAnchor
<1>3. AnswersInOrder(e)
  BY DEF AnswersInOrder
<1> QED
  BY <1>1, <1>2, <1>3, NothingKnown DEF Sound

-----------------------------------------------------------------------------
\* An operation that fails keeps only what it has answered.
LEMMA FailedIsSound ==
  ASSUME NEW c \in Calls, WinInv
  PROVE  \E e \in CallTypes :
           /\ Failed(c) = [call EXCEPT ![c] = e]
           /\ Sound(e, NotShared, anchor, legacy) /\ e.at = "failed"
<1> DEFINE q == call[c]
<1> DEFINE e == [NotCalled EXCEPT !.at = "failed", !.try = q.try, !.answers = q.answers,
                       !.accepted = IF q.answers = <<>> THEN NotPinned ELSE q.accepted]
<1>1. q \in CallTypes /\ Sound(q, share[c], anchor, legacy)
  BY DEF WinInv, WinTypes
<1>2. Failed(c) = [call EXCEPT ![c] = e]
  BY DEF Failed, CallEnded
<1> HIDE DEF q
<1>3. /\ e \in CallTypes /\ e.at = "failed" /\ e.try = q.try /\ e.confirmed = FALSE
      /\ e.last = NoReport /\ e.answers = q.answers
      /\ e.accepted = (IF q.answers = <<>> THEN NotPinned ELSE q.accepted)
  <2>1. /\ q.try \in Attempts /\ q.answers \in Seq(Reports)
        /\ (IF q.answers = <<>> THEN NotPinned ELSE q.accepted) \in Pinned \union {"rejected"}
    BY <1>1, FirstValues DEF CallTypes
  <2>2. e \in CallTypes
    BY <2>1, FirstValues DEF CallTypes
  <2> QED
    BY <2>2 DEF NotCalled
<1> HIDE DEF e
<1>4. q.answers # <<>> => q.accepted = anchor /\ anchor \in Certificates
  BY <1>1 DEF Sound, ConfirmedIsAnchor
<1>5. Len(e.answers) <= 2 /\ (\A k \in 1..Len(e.answers) : e.answers[k].by = q.try)
      /\ (Len(e.answers) = 2 => e.answers[1].seq < e.answers[2].seq)
  BY <1>1, <1>3 DEF Sound, AnswersInOrder
<1>6. Sound(e, NotShared, anchor, legacy)
  BY <1>1, <1>3, <1>4, <1>5, EndedIsSound
<1> QED
  BY <1>2, <1>3, <1>6

\* An operation that fails, is abandoned or ends otherwise.
LEMMA FailingKeeps ==
  ASSUME NEW c \in Calls, WinInv, Becomes(c, Failed(c)), UNCHANGED <<listening, trustVars>>
  PROVE  WinInv'
<1>1. PICK e \in CallTypes :
        /\ Failed(c) = [call EXCEPT ![c] = e]
        /\ Sound(e, NotShared, anchor, legacy) /\ e.at = "failed"
  BY FailedIsSound
<1>2. call' = [call EXCEPT ![c] = e] /\ Failed(c)[c] = e
  BY <1>1 DEF Becomes, WinInv, WinTypes
<1>3. share' = [share EXCEPT ![c] = NotShared]
  BY <1>1, <1>2 DEF Becomes
<1> QED
  BY <1>1, <1>2, <1>3, FirstValues, OneCallMoves

\* An operation that goes on: its record and what it shares.
LEMMA GoingOnKeeps ==
  ASSUME NEW c \in Calls, WinInv, NEW q \in CallTypes, Becomes(c, [call EXCEPT ![c] = q]),
         q.at \notin {"done", "failed"}, UNCHANGED <<listening, trustVars>>,
         Sound(q, share[c], anchor, legacy)
  PROVE  WinInv'
<1>1. call' = [call EXCEPT ![c] = q] /\ [call EXCEPT ![c] = q][c] = q
  BY DEF Becomes, WinInv, WinTypes
<1>2. share' = share
  BY <1>1 DEF Becomes
<1>3. share[c] \in ShareTypes /\ share' = [share EXCEPT ![c] = share[c]]
  BY <1>2, SharesStay
<1> QED
  BY <1>1, <1>3, OneCallMoves

-----------------------------------------------------------------------------
\* An operation that moves on with what it knew.
LEMMA StepIsSound ==
  ASSUME NEW p \in CallTypes, NEW q \in CallTypes, NEW s, NEW t, NEW a, NEW old,
         Sound(p, s, a, old), q.try = p.try, q.accepted = p.accepted, q.confirmed = p.confirmed,
         q.last = p.last, q.answers = p.answers, p.at \notin {"done", "failed"},
         s.script = t.script /\ t.report.by \in {0, s.report.by},
         q.at = "wait" /\ q.accepted = NotPinned => old = {} \/ q.required \in old,
         q.at \in {"sync", "kept"} => q.accepted = a /\ a \in Certificates,
         q.at \in {"confirm", "create", "sync"} => q.last # NoReport /\ q.accepted \in Certificates
           /\ q.answers = <<>>
  PROVE  Sound(q, t, a, old)
<1>1. AcceptedFits(q, old)
  BY DEF Sound, AcceptedFits
<1>2. ScriptsKnown(q, t)
  BY DEF Sound, ScriptsKnown, Attempts
<1>3. ConfirmedIsAnchor(q, a)
  BY DEF Sound, ConfirmedIsAnchor
<1>4. AnswersInOrder(q)
  BY DEF Sound, AnswersInOrder
<1> QED
  BY <1>1, <1>2, <1>3, <1>4 DEF Sound

\* A new attempt.
LEMMA ConnectKeeps == ASSUME NEW c \in Calls, WinInv, Connect(c) PROVE WinInv'
<1>1. PICK port \in Ports : call' = [call EXCEPT ![c].at = "clear", ![c].port = port]
  BY DEF Connect
<1> DEFINE q == [call[c] EXCEPT !.at = "clear", !.port = port]
<1>2. call[c] \in CallTypes /\ Sound(call[c], share[c], anchor, legacy) /\ call[c].at = "idle"
  BY DEF WinInv, WinTypes, Connect
<1>3. call' = [call EXCEPT ![c] = q]
  BY <1>1
<1>4. /\ q \in CallTypes /\ q.at = "clear" /\ q.try = call[c].try /\ q.accepted = call[c].accepted
      /\ q.confirmed = call[c].confirmed /\ q.last = call[c].last /\ q.answers = call[c].answers
  BY <1>1, <1>2 DEF CallTypes
<1> HIDE DEF q
<1>5. Sound(q, share[c], anchor, legacy)
  BY <1>2, <1>4, StepIsSound
<1>6. share[c] \in ShareTypes /\ share' = [share EXCEPT ![c] = share[c]]
  BY SharesStay DEF Connect
<1> QED
  BY <1>3, <1>4, <1>5, <1>6, OneCallMoves DEF Connect

\* The report of an earlier attempt is removed.
LEMMA ClearKeeps == ASSUME NEW c \in Calls, WinInv, ClearReport(c) PROVE WinInv'
<1> DEFINE q == [call[c] EXCEPT !.at = "anchor"]
           t == [share[c] EXCEPT !.report = NoReport]
<1>2. /\ call[c] \in CallTypes /\ Sound(call[c], share[c], anchor, legacy) /\ call[c].at = "clear"
      /\ share[c] \in ShareTypes
  BY DEF WinInv, WinTypes, ClearReport
<1>3. call' = [call EXCEPT ![c] = q] /\ share' = [share EXCEPT ![c] = t]
  BY DEF ClearReport
<1>4. /\ q \in CallTypes /\ q.at = "anchor" /\ q.try = call[c].try /\ q.accepted = call[c].accepted
      /\ q.confirmed = call[c].confirmed /\ q.last = call[c].last /\ q.answers = call[c].answers
  BY <1>2 DEF CallTypes
<1>5. t \in ShareTypes /\ t.script = share[c].script /\ t.report.by = 0
  BY <1>2 DEF ShareTypes, NoReport
<1> HIDE DEF q, t
<1>6. Sound(q, t, anchor, legacy)
  BY <1>2, <1>4, <1>5, StepIsSound
<1> QED
  BY <1>3, <1>4, <1>5, <1>6, OneCallMoves DEF ClearReport

\* What a handshake will require fits the old pins.
LEMMA RequireKeeps ==
  ASSUME NEW c \in Calls, WinInv, NEW pin \in Pinned, Require(c, pin),
         legacy = {} \/ pin \in legacy, call[c].at \notin {"done", "failed"},
         UNCHANGED <<listening, trustVars, share>>
  PROVE  WinInv'
<1> DEFINE q == [call[c] EXCEPT !.at = "wait", !.required = pin]
<1>2. call[c] \in CallTypes /\ Sound(call[c], share[c], anchor, legacy)
  BY DEF WinInv, WinTypes
<1>3. call' = [call EXCEPT ![c] = q]
  BY DEF Require
<1>4. /\ q \in CallTypes /\ q.at = "wait" /\ q.try = call[c].try /\ q.accepted = call[c].accepted
      /\ q.confirmed = call[c].confirmed /\ q.last = call[c].last /\ q.answers = call[c].answers
      /\ q.required = pin
  BY <1>2 DEF CallTypes
<1> HIDE DEF q
<1>5. Sound(q, share[c], anchor, legacy)
  BY <1>2, <1>4, StepIsSound
<1>6. share[c] \in ShareTypes /\ share' = [share EXCEPT ![c] = share[c]]
  BY SharesStay
<1> QED
  BY <1>3, <1>4, <1>5, <1>6, OneCallMoves

\* What is trusted is read: the anchor,
LEMMA AnchorReadKeeps == ASSUME NEW c \in Calls, WinInv, ReadAnchor(c) PROVE WinInv'
<1>1. CASE anchor # NotPinned
  <2>1. anchor \in Pinned /\ (legacy = {} \/ anchor \in legacy)
    BY <1>1 DEF WinInv, WinTypes, PinsFit
  <2> QED
    BY <1>1, <2>1, RequireKeeps DEF ReadAnchor
<1>2. CASE anchor = NotPinned
  <2> DEFINE q == [call[c] EXCEPT !.at = "pins"]
  <2>2. call[c] \in CallTypes /\ Sound(call[c], share[c], anchor, legacy) /\ call[c].at = "anchor"
    BY DEF WinInv, WinTypes, ReadAnchor
  <2>3. call' = [call EXCEPT ![c] = q]
    BY <1>2 DEF ReadAnchor
  <2>4. /\ q \in CallTypes /\ q.at = "pins" /\ q.try = call[c].try /\ q.accepted = call[c].accepted
        /\ q.confirmed = call[c].confirmed /\ q.last = call[c].last /\ q.answers = call[c].answers
    BY <2>2 DEF CallTypes
  <2> HIDE DEF q
  <2>5. Sound(q, share[c], anchor, legacy)
    BY <2>2, <2>4, StepIsSound
  <2>6. share[c] \in ShareTypes /\ share' = [share EXCEPT ![c] = share[c]]
    BY SharesStay DEF ReadAnchor
  <2> QED
    BY <2>3, <2>4, <2>5, <2>6, OneCallMoves DEF ReadAnchor
<1> QED
  BY <1>1, <1>2

\* and the pins of the ports.
LEMMA PinsReadKeep == ASSUME NEW c \in Calls, WinInv, ReadPins(c) PROVE WinInv'
<1>1. PICK pin \in IF LegacyPins(c) = {} THEN {NotPinned} ELSE LegacyPins(c) : Require(c, pin)
  BY DEF ReadPins
<1>2. /\ pins \in [Ports -> Pinned] /\ call[c].port \in Ports /\ legacy \subseteq Certificates
      /\ call[c].at = "pins"
      /\ legacy # {} => /\ \A p \in Ports : pins[p] \in legacy \union {NotPinned}
                        /\ \E p \in Ports : pins[p] # NotPinned
  BY DEF ReadPins, WinInv, WinTypes, CallTypes, PinsFit
<1>3. pin \in Pinned
  BY <1>1, <1>2 DEF LegacyPins, Pinned
<1>4. legacy = {} \/ pin \in legacy
  <2>1. CASE LegacyPins(c) = {}
    BY <1>2, <2>1 DEF LegacyPins
  <2>2. CASE LegacyPins(c) # {}
    BY <1>1, <1>2, <2>2 DEF LegacyPins
  <2> QED
    BY <2>1, <2>2
<1> QED
  BY <1>1, <1>2, <1>3, <1>4, RequireKeeps DEF ReadPins

\* The certificate of the server is compared with what is required.
LEMMA HandshakeKeeps == ASSUME NEW c \in Calls, WinInv, Handshake(c) PROVE WinInv'
<1> DEFINE shown == listening[call[c].port]
<1>1. /\ call[c] \in CallTypes /\ Sound(call[c], share[c], anchor, legacy)
      /\ share[c] \in ShareTypes
      /\ call[c].at = "wait" /\ call[c].accepted = NotPinned /\ call[c].try \in Attempts
      /\ shown \in Certificates
  BY DEF WinInv, WinTypes, Handshake, CallTypes
<1>2. CASE call[c].required \in {NotPinned, shown}
  <2> DEFINE q == [call[c] EXCEPT !.accepted = shown, !.required = NotPinned]
             t == [share[c] EXCEPT !.script[call[c].try].state = "running"]
  <2>1. call' = [call EXCEPT ![c] = q] /\ share' = [share EXCEPT ![c] = t]
    BY <1>2 DEF Handshake
  <2>2. /\ q \in CallTypes /\ q.at = "wait" /\ q.try = call[c].try /\ q.accepted = shown
        /\ q.confirmed = call[c].confirmed /\ q.last = call[c].last /\ q.answers = call[c].answers
    BY <1>1 DEF CallTypes, Pinned
  <2>3. /\ t \in ShareTypes /\ t.report = share[c].report
        /\ t.script[call[c].try].state = "running"
        /\ \A n \in Attempts \ {call[c].try} : t.script[n] = share[c].script[n]
    BY <1>1 DEF ShareTypes, ScriptTypes
  <2> HIDE DEF q, t
  <2>4. AcceptedFits(q, legacy)
    <3>1. legacy = {} \/ call[c].required \in legacy
      BY <1>1 DEF Sound, AcceptedFits
    <3>2. legacy \subseteq Certificates
      BY DEF WinInv, WinTypes
    <3> QED
      BY <1>1, <1>2, <2>2, <3>1, <3>2, WinAssumption DEF AcceptedFits
  <2>5. ScriptsKnown(q, t)
    BY <1>1, <2>2, <2>3 DEF Sound, ScriptsKnown
  <2>6. call[c].confirmed = FALSE /\ call[c].answers = <<>>
    BY <1>1, WinAssumption DEF Sound, ConfirmedIsAnchor, CallTypes
  <2>7. ConfirmedIsAnchor(q, anchor)
    BY <1>1, <2>2, <2>6 DEF Sound, ConfirmedIsAnchor
  <2>8. AnswersInOrder(q)
    BY <1>1, <2>2, <2>6 DEF Sound, AnswersInOrder
  <2> QED
    BY <2>1, <2>2, <2>3, <2>4, <2>5, <2>7, <2>8, OneCallMoves DEF Sound, Handshake
<1>3. CASE call[c].required \notin {NotPinned, shown}
  <2> DEFINE q == [call[c] EXCEPT !.accepted = "rejected"]
  <2>1. call' = [call EXCEPT ![c] = q] /\ share' = share
    BY <1>3 DEF Handshake
  <2>2. /\ q \in CallTypes /\ q.at = "wait" /\ q.try = call[c].try /\ q.accepted = "rejected"
        /\ q.confirmed = call[c].confirmed /\ q.last = call[c].last /\ q.answers = call[c].answers
    BY <1>1 DEF CallTypes, Pinned
  <2> HIDE DEF q
  <2>3. AcceptedFits(q, legacy)
    BY <2>2, WinAssumption DEF AcceptedFits, NotPinned
  <2>4. ScriptsKnown(q, share[c])
    BY <1>1, <2>2, WinAssumption DEF Sound, ScriptsKnown
  <2>6. call[c].confirmed = FALSE /\ call[c].answers = <<>>
    BY <1>1, WinAssumption DEF Sound, ConfirmedIsAnchor, CallTypes
  <2>7. ConfirmedIsAnchor(q, anchor)
    BY <1>1, <2>2, <2>6 DEF Sound, ConfirmedIsAnchor
  <2>8. AnswersInOrder(q)
    BY <1>1, <2>2, <2>6 DEF Sound, AnswersInOrder
  <2>9. share[c] \in ShareTypes /\ share' = [share EXCEPT ![c] = share[c]]
    BY <2>1, SharesStay
  <2> QED
    BY <2>1, <2>2, <2>3, <2>4, <2>7, <2>8, <2>9, OneCallMoves DEF Sound, Handshake
<1> QED
  BY <1>2, <1>3

\* A second answer is waited for.
LEMMA FollowUpKeeps == ASSUME NEW c \in Calls, WinInv, FollowUp(c) PROVE WinInv'
<1> DEFINE q == [call[c] EXCEPT !.at = "wait"]
<1>2. call[c] \in CallTypes /\ Sound(call[c], share[c], anchor, legacy) /\ call[c].at = "kept"
  BY DEF WinInv, WinTypes, FollowUp
<1>3. call' = [call EXCEPT ![c] = q]
  BY DEF FollowUp
<1>4. /\ q \in CallTypes /\ q.at = "wait" /\ q.try = call[c].try /\ q.accepted = call[c].accepted
      /\ q.confirmed = call[c].confirmed /\ q.last = call[c].last /\ q.answers = call[c].answers
  BY <1>2 DEF CallTypes
<1>41. q.accepted \in Certificates
  BY <1>2, <1>4 DEF Sound, ConfirmedIsAnchor
<1> HIDE DEF q
<1>5. Sound(q, share[c], anchor, legacy)
  BY <1>2, <1>4, <1>41, StepIsSound, WinAssumption
<1>6. share[c] \in ShareTypes /\ share' = [share EXCEPT ![c] = share[c]]
  BY SharesStay DEF FollowUp
<1> QED
  BY <1>3, <1>4, <1>5, <1>6, OneCallMoves DEF FollowUp

-----------------------------------------------------------------------------
\* What Becomes leaves shared.
LEMMA BecomesIs ==
  ASSUME NEW c \in Calls, WinInv, NEW q \in CallTypes, Becomes(c, [call EXCEPT ![c] = q])
  PROVE  /\ call' = [call EXCEPT ![c] = q]
         /\ q.at \in {"done", "failed"} => share' = [share EXCEPT ![c] = NotShared]
         /\ q.at \notin {"done", "failed"} => share' = [share EXCEPT ![c] = share[c]]
         /\ share[c] \in ShareTypes
<1>1. call' = [call EXCEPT ![c] = q] /\ [call EXCEPT ![c] = q][c] = q
  BY DEF Becomes, WinInv, WinTypes
<1>2. share[c] \in ShareTypes /\ share = [share EXCEPT ![c] = share[c]]
  BY DEF WinInv, WinTypes
<1> QED
  BY <1>1, <1>2 DEF Becomes

\* One answer more.
LEMMA LastOfTwo ==
  ASSUME NEW u \in Seq(Reports), NEW r \in Reports
  PROVE  /\ Append(u, r) \in Seq(Reports) /\ Len(Append(u, r)) = Len(u) + 1 /\ Append(u, r) # <<>>
         /\ Append(u, r)[Len(u) + 1] = r /\ \A k \in 1..Len(u) : Append(u, r)[k] = u[k]
         /\ Len(u) \in Nat /\ (Len(u) = 0 <=> u = <<>>)
OBVIOUS

\* A report that is there is one.
LEMMA ReportFacts ==
  ASSUME NEW r \in Reports
  PROVE  r # NoReport /\ r.by \in Attempts /\ r.seq \in Nat
BY FirstValues, WinAssumption DEF Reports

\* A new report whose certificate is the anchor settles the operation or leaves it waiting.
LEMMA SettledIsSound ==
  ASSUME NEW c \in Calls, WinInv, NEW r \in Reports, r.by = call[c].try,
         call[c].at \notin {"done", "failed"}, call[c].accepted = anchor, anchor \in Certificates,
         call[c].answers # <<>> => call[c].answers[1].seq < r.seq
  PROVE  \E q \in CallTypes :
           /\ Settled(c, r) = [call EXCEPT ![c] = q]
           /\ q.at \in {"done", "failed"} => Sound(q, NotShared, anchor, legacy)
           /\ q.at \notin {"done", "failed"} => Sound(q, share[c], anchor, legacy)
<1> DEFINE p == call[c]
<1>1. p \in CallTypes /\ Sound(p, share[c], anchor, legacy)
  BY DEF WinInv, WinTypes
<1>2. r # NoReport /\ r.seq \in Nat /\ r.state \in {"running", "succeeded", "failed"}
  BY ReportFacts DEF Reports
<1>21. p.answers \in Seq(Reports) /\ p.try \in Attempts /\ p.accepted \in Pinned \union {"rejected"}
  BY <1>1 DEF CallTypes
<1>22. Len(p.answers) \in {0, 1} /\ (Len(p.answers) = 0 <=> p.answers = <<>>)
  <2>1. p.answers # <<>> => Len(p.answers) = 1
    BY <1>1 DEF Sound, AnswersInOrder
  <2> QED
    BY <1>21, <2>1, LastOfTwo
<1>3. CASE r.state = "failed"
  BY <1>3, FailedIsSound DEF Settled
<1>4. CASE r.state = "running"
  <2> DEFINE q == [call[c] EXCEPT !.at = "wait", !.last = r, !.confirmed = TRUE]
  <2>1. Settled(c, r) = [call EXCEPT ![c] = q]
    BY <1>4 DEF Settled
  <2>2. /\ q \in CallTypes /\ q.at = "wait" /\ q.try = p.try /\ q.accepted = p.accepted
        /\ q.confirmed = TRUE /\ q.last = r /\ q.answers = p.answers
    BY <1>1 DEF CallTypes
  <2> HIDE DEF q, p
  <2>3. AcceptedFits(q, legacy)
    BY <1>1, <2>2, WinAssumption DEF Sound, AcceptedFits, p
  <2>4. ScriptsKnown(q, share[c])
    BY <1>1, <2>2 DEF Sound, ScriptsKnown
  <2>5. ConfirmedIsAnchor(q, anchor)
    BY <2>2, <1>2 DEF ConfirmedIsAnchor, p
  <2>6. AnswersInOrder(q)
    <3>1. \A k \in 1..Len(q.answers) : q.answers[k].by = q.try
      BY <1>1, <2>2 DEF Sound, AnswersInOrder
    <3>2. q.answers # <<>> => q.answers[1].seq <= r.seq
      <4>1. ASSUME p.answers # <<>> PROVE p.answers[1] \in Reports
        BY <4>1, <1>21, <1>22
      <4>2. p.answers # <<>> => p.answers[1].seq \in Nat
        BY <4>1, ReportFacts
      <4> QED
        BY <1>2, <2>2, <4>2 DEF p
    <3> QED
      BY <1>2, <1>22, <2>2, <3>1, <3>2 DEF AnswersInOrder
  <2> QED
    BY <2>1, <2>2, <2>3, <2>4, <2>5, <2>6 DEF Sound
<1>5. CASE r.state = "succeeded" /\ c \in Retained /\ p.answers = <<>>
  <2> DEFINE q == [call[c] EXCEPT !.at = "kept", !.last = r, !.confirmed = TRUE, !.answers = <<r>>]
  <2>1. Settled(c, r) = [call EXCEPT ![c] = q]
    BY <1>5 DEF Settled
  <2>11. <<r>> \in Seq(Reports)
    OBVIOUS
  <2>2. /\ q \in CallTypes /\ q.at = "kept" /\ q.try = p.try /\ q.accepted = p.accepted
        /\ q.confirmed = TRUE /\ q.last = r /\ q.answers = <<r>>
    BY <1>1, <2>11 DEF CallTypes
  <2> HIDE DEF q, p
  <2>3. AcceptedFits(q, legacy)
    BY <1>1, <2>2, WinAssumption DEF Sound, AcceptedFits, p
  <2>4. ScriptsKnown(q, share[c])
    BY <1>1, <2>2 DEF Sound, ScriptsKnown
  <2>5. ConfirmedIsAnchor(q, anchor)
    BY <2>2, <1>2 DEF ConfirmedIsAnchor, p
  <2>6. AnswersInOrder(q)
    BY <1>2, <2>2 DEF AnswersInOrder, p
  <2> QED
    BY <2>1, <2>2, <2>3, <2>4, <2>5, <2>6 DEF Sound
<1>6. CASE r.state = "succeeded" /\ ~(c \in Retained /\ p.answers = <<>>)
  <2> DEFINE u == Append(p.answers, r)
  <2> DEFINE e == [NotCalled EXCEPT !.at = "done", !.try = p.try, !.answers = u,
                         !.accepted = IF u = <<>> THEN NotPinned ELSE p.accepted]
  <2>1. Settled(c, r) = [call EXCEPT ![c] = e]
    BY <1>6 DEF Settled, CallEnded
  <2> HIDE DEF p
  <2>2. u \in Seq(Reports) /\ u # <<>>
    BY <1>21, LastOfTwo
  <2>3. Len(u) = Len(p.answers) + 1 /\ u[Len(p.answers) + 1] = r
        /\ \A k \in 1..Len(p.answers) : u[k] = p.answers[k]
    BY <1>21, LastOfTwo
  <2> HIDE DEF u
  <2>4. e \in CallTypes /\ e.at = "done" /\ e.try = p.try /\ e.confirmed = FALSE
        /\ e.last = NoReport
        /\ e.answers = u /\ e.accepted = p.accepted
    BY <1>21, <2>2, FirstValues DEF CallTypes, NotCalled
  <2> HIDE DEF e
  <2>5. Len(u) <= 2
    BY <1>22, <2>3
  <2>6. \A k \in 1..Len(u) : u[k].by = p.try
    <3>1. \A k \in 1..Len(p.answers) : p.answers[k].by = p.try
      BY <1>1 DEF Sound, AnswersInOrder
    <3>2. r.by = p.try
      BY DEF p
    <3> QED
      BY <1>22, <2>3, <3>1, <3>2
  <2>7. Len(u) = 2 => u[1].seq < u[2].seq
    <3> SUFFICES ASSUME Len(u) = 2 PROVE u[1].seq < u[2].seq
      OBVIOUS
    <3>1. PICK n \in {0, 1} : n = Len(p.answers)
      BY <1>22
    <3>2. n = 1
      <4>1. 2 = n + 1
        BY <2>3, <3>1, Zenon
      <4> QED
        BY <4>1
    <3>3. u[2] = r /\ u[1] = p.answers[1] /\ p.answers # <<>>
      BY <1>22, <2>3, <3>1, <3>2
    <3>4. p.answers # <<>> => p.answers[1].seq < r.seq
      BY DEF p
    <3> QED
      BY <3>3, <3>4
  <2>8. p.accepted = anchor
    BY DEF p
  <2>9. Sound(e, NotShared, anchor, legacy)
    BY <1>1, <2>2, <2>4, <2>5, <2>6, <2>7, <2>8, EndedIsSound
  <2> QED
    BY <2>1, <2>4, <2>9
<1> QED
  BY <1>2, <1>3, <1>4, <1>5, <1>6

\* A report is read.
LEMMA ReportReadKeeps == ASSUME NEW c \in Calls, WinInv, ReadReport(c) PROVE WinInv'
<1> DEFINE r == share[c].report
<1>0. UNCHANGED <<listening, trustVars>>
  BY DEF ReadReport
<1>1. /\ call[c] \in CallTypes /\ Sound(call[c], share[c], anchor, legacy)
      /\ share[c] \in ShareTypes
      /\ call[c].at = "wait" /\ r \in Reports
  BY DEF WinInv, WinTypes, ReadReport, ShareTypes
<1>2. \/ Becomes(c, Failed(c))
      \/ /\ Authentic(c, r) /\ Accepts(c, r)
         /\ Becomes(c, IF call[c].confirmed THEN Settled(c, r)
                       ELSE [call EXCEPT ![c].at = "confirm", ![c].last = r])
  BY DEF ReadReport
<1> HIDE DEF r
<1>3. CASE Becomes(c, Failed(c))
  BY <1>0, <1>3, FailingKeeps
<1>4. ASSUME Authentic(c, r), Accepts(c, r), call[c].confirmed, Becomes(c, Settled(c, r))
      PROVE WinInv'
  <2>1. r.by = call[c].try /\ call[c].accepted = anchor /\ anchor \in Certificates
    BY <1>1, <1>4 DEF Authentic, Sound, ConfirmedIsAnchor
  <2>2. call[c].answers # <<>> => call[c].answers[1].seq < r.seq
    <3> SUFFICES ASSUME call[c].answers # <<>> PROVE call[c].answers[1].seq < r.seq
      OBVIOUS
    <3>1. /\ Len(call[c].answers) = 1 /\ call[c].last # NoReport
          /\ call[c].answers[1].seq <= call[c].last.seq
      BY <1>1 DEF Sound, AnswersInOrder
    <3>2. call[c].answers \in Seq(Reports) /\ call[c].last \in Reports
      BY <1>1, <3>1 DEF CallTypes
    <3>3. call[c].answers[1] \in Reports
      BY <3>1, <3>2
    <3>4. call[c].answers[1].seq \in Nat /\ call[c].last.seq \in Nat /\ r.seq \in Nat
      BY <1>1, <3>2, <3>3, ReportFacts
    <3>5. r.seq > call[c].last.seq
      BY <1>4, <3>1 DEF Accepts
    <3> QED
      BY <3>1, <3>4, <3>5
  <2>3. PICK q \in CallTypes :
          /\ Settled(c, r) = [call EXCEPT ![c] = q]
          /\ q.at \in {"done", "failed"} => Sound(q, NotShared, anchor, legacy)
          /\ q.at \notin {"done", "failed"} => Sound(q, share[c], anchor, legacy)
    BY <1>1, <2>1, <2>2, SettledIsSound
  <2>4. Becomes(c, [call EXCEPT ![c] = q])
    BY <1>4, <2>3
  <2> QED
    BY <1>0, <2>3, <2>4, BecomesIs, FirstValues, OneCallMoves
<1>5. ASSUME Authentic(c, r), ~call[c].confirmed,
      Becomes(c, [call EXCEPT ![c].at = "confirm", ![c].last = r])
      PROVE  WinInv'
  <2> DEFINE q == [call[c] EXCEPT !.at = "confirm", !.last = r]
  <2>1. Becomes(c, [call EXCEPT ![c] = q])
    BY <1>5
  <2>2. /\ q \in CallTypes /\ q.at = "confirm" /\ q.try = call[c].try
        /\ q.accepted = call[c].accepted
        /\ q.confirmed = call[c].confirmed /\ q.last = r /\ q.answers = call[c].answers
    BY <1>1 DEF CallTypes
  <2> HIDE DEF q
  <2>3. r.by = call[c].try /\ r.by \in Attempts /\ r # NoReport
    BY <1>1, <1>5, ReportFacts DEF Authentic
  <2>4. call[c].accepted \in Certificates
    BY <1>1, <2>3 DEF Sound, ScriptsKnown, r, Attempts
  <2>5. call[c].answers = <<>>
    BY <1>1, <1>5 DEF Sound, AnswersInOrder
  <2>6. AcceptedFits(q, legacy)
    BY <1>1, <2>2 DEF Sound, AcceptedFits
  <2>7. ScriptsKnown(q, share[c])
    BY <1>1, <2>2 DEF Sound, ScriptsKnown
  <2>8. ConfirmedIsAnchor(q, anchor)
    BY <1>5, <2>2, <2>3, <2>4, <2>5 DEF ConfirmedIsAnchor
  <2>9. AnswersInOrder(q)
    BY <1>1, <2>2, <2>5 DEF Sound, AnswersInOrder
  <2>10. Sound(q, share[c], anchor, legacy)
    BY <2>6, <2>7, <2>8, <2>9 DEF Sound
  <2> QED
    BY <1>0, <2>1, <2>2, <2>10, GoingOnKeeps
<1> QED
  BY <1>2, <1>3, <1>4, <1>5

\* An attempt that is given up, with another or with none.
LEMMA GivingUpKeeps == ASSUME NEW c \in Calls, WinInv, GiveUp(c) PROVE WinInv'
<1>0. UNCHANGED <<listening, trustVars>> /\ Becomes(c, Retrying(c))
  BY DEF GiveUp
<1>1. CASE call[c].try = 1 /\ call[c].answers = <<>>
  <2> DEFINE q == [NotCalled EXCEPT !.try = 2]
  <2>1. Becomes(c, [call EXCEPT ![c] = q])
    BY <1>0, <1>1 DEF Retrying
  <2>2. /\ q \in CallTypes /\ q.at = "idle" /\ q.try = 2 /\ q.accepted = NotPinned
        /\ q.confirmed = FALSE /\ q.last = NoReport /\ q.answers = <<>>
    <3>1. q \in CallTypes
      BY FirstValues DEF CallTypes, Attempts
    <3>2. /\ q.at = NotCalled.at /\ q.accepted = NotCalled.accepted
          /\ q.confirmed = NotCalled.confirmed
          /\ q.last = NotCalled.last /\ q.answers = NotCalled.answers /\ q.try = 2
      BY FirstValues DEF CallTypes
    <3> QED
      BY <3>1, <3>2 DEF NotCalled
  <2> HIDE DEF q
  <2>3. Sound(call[c], share[c], anchor, legacy) /\ share[c] \in ShareTypes
    BY DEF WinInv, WinTypes
  <2>4. ScriptsKnown(q, share[c])
    BY <1>1, <2>2, <2>3 DEF Sound, ScriptsKnown, Attempts
  <2>5. Sound(q, share[c], anchor, legacy)
    BY <2>2, <2>3, <2>4, FreshIsSound
  <2> QED
    BY <1>0, <2>1, <2>2, <2>5, GoingOnKeeps
<1>2. CASE ~(call[c].try = 1 /\ call[c].answers = <<>>)
  BY <1>0, <1>2, FailingKeeps DEF Retrying
<1> QED
  BY <1>1, <1>2

\* An anchor that is there is compared.
LEMMA ComparingKeeps ==
  ASSUME NEW c \in Calls, WinInv, call[c].at \in {"confirm", "create"}, anchor # NotPinned,
         Becomes(c, Compared(c)), UNCHANGED <<listening, trustVars>>
  PROVE  WinInv'
<1>1. CASE anchor = call[c].accepted
  <2> DEFINE q == [call[c] EXCEPT !.at = "sync"]
  <2>1. Becomes(c, [call EXCEPT ![c] = q])
    BY <1>1 DEF Compared
  <2>2. call[c] \in CallTypes /\ Sound(call[c], share[c], anchor, legacy)
    BY DEF WinInv, WinTypes
  <2>3. /\ q \in CallTypes /\ q.at = "sync" /\ q.try = call[c].try /\ q.accepted = call[c].accepted
        /\ q.confirmed = call[c].confirmed /\ q.last = call[c].last /\ q.answers = call[c].answers
    BY <2>2 DEF CallTypes
  <2> HIDE DEF q
  <2>4. call[c].last # NoReport /\ call[c].accepted \in Certificates /\ call[c].answers = <<>>
    BY <2>2 DEF Sound, ConfirmedIsAnchor
  <2>5. Sound(q, share[c], anchor, legacy)
    BY <1>1, <2>2, <2>3, <2>4, StepIsSound
  <2> QED
    BY <2>1, <2>3, <2>5, GoingOnKeeps
<1>2. CASE anchor # call[c].accepted
  BY <1>2, FailingKeeps DEF Compared
<1> QED
  BY <1>1, <1>2

\* The certificate is to be confirmed.
LEMMA ConfirmKeeps == ASSUME NEW c \in Calls, WinInv, Confirm(c) PROVE WinInv'
<1>0. UNCHANGED <<listening, trustVars>> /\ call[c].at = "confirm"
  BY DEF Confirm
<1>1. CASE anchor # NotPinned
  BY <1>0, <1>1, ComparingKeeps DEF Confirm
<1>2. CASE anchor = NotPinned
  <2> DEFINE q == [call[c] EXCEPT !.at = "create"]
  <2>1. Becomes(c, [call EXCEPT ![c] = q])
    BY <1>2 DEF Confirm
  <2>2. call[c] \in CallTypes /\ Sound(call[c], share[c], anchor, legacy)
    BY DEF WinInv, WinTypes
  <2>3. /\ q \in CallTypes /\ q.at = "create" /\ q.try = call[c].try
        /\ q.accepted = call[c].accepted
        /\ q.confirmed = call[c].confirmed /\ q.last = call[c].last /\ q.answers = call[c].answers
    BY <2>2 DEF CallTypes
  <2> HIDE DEF q
  <2>4. call[c].last # NoReport /\ call[c].accepted \in Certificates /\ call[c].answers = <<>>
    BY <1>0, <2>2 DEF Sound, ConfirmedIsAnchor
  <2>5. Sound(q, share[c], anchor, legacy)
    BY <1>0, <2>2, <2>3, <2>4, StepIsSound
  <2> QED
    BY <1>0, <2>1, <2>3, <2>5, GoingOnKeeps
<1> QED
  BY <1>1, <1>2

\* Before there is an anchor no operation has confirmed anything.
LEMMA UnconfirmedFits ==
  ASSUME NEW q \in CallTypes, NEW s, NEW a, NEW old, Sound(q, s, NotPinned, old)
  PROVE  Sound(q, s, a, old)
<1>1. ~(q.at \in {"sync", "kept"} \/ q.confirmed \/ q.answers # <<>>)
  BY WinAssumption DEF Sound, ConfirmedIsAnchor
<1> QED
  BY <1>1 DEF Sound, ConfirmedIsAnchor

\* The anchor is created.
LEMMA CreateKeeps == ASSUME NEW c \in Calls, WinInv, CreateAnchor(c) PROVE WinInv'
<1>0. UNCHANGED <<listening, pins, legacy>> /\ call[c].at = "create"
  BY DEF CreateAnchor
<1>1. CASE anchor # NotPinned
  BY <1>0, <1>1, ComparingKeeps DEF CreateAnchor, trustVars
<1>2. CASE anchor = NotPinned
  <2> DEFINE q == [call[c] EXCEPT !.at = "sync"]
  <2>1. anchor' = call[c].accepted /\ Becomes(c, [call EXCEPT ![c] = q])
    BY <1>2 DEF CreateAnchor
  <2>2. call[c] \in CallTypes /\ Sound(call[c], share[c], anchor, legacy)
    BY DEF WinInv, WinTypes
  <2>3. /\ q \in CallTypes /\ q.at = "sync" /\ q.try = call[c].try /\ q.accepted = call[c].accepted
        /\ q.confirmed = call[c].confirmed /\ q.last = call[c].last /\ q.answers = call[c].answers
    BY <2>2 DEF CallTypes
  <2> HIDE DEF q
  <2>4. /\ call[c].last # NoReport /\ call[c].accepted \in Certificates /\ call[c].answers = <<>>
        /\ (legacy = {} \/ call[c].accepted \in legacy)
    BY <1>0, <2>2 DEF Sound, ConfirmedIsAnchor, AcceptedFits
  <2>5. PICK a \in Certificates : a = call[c].accepted
    BY <2>4
  <2>6. \A o \in Calls : Sound(call[o], share[o], a, legacy)
    <3> SUFFICES ASSUME NEW o \in Calls PROVE Sound(call[o], share[o], a, legacy)
      OBVIOUS
    <3>1. call[o] \in CallTypes /\ Sound(call[o], share[o], NotPinned, legacy)
      BY <1>2 DEF WinInv, WinTypes
    <3> QED
      BY <3>1, UnconfirmedFits
  <2>7. Sound(q, share[c], a, legacy)
    BY <1>0, <2>2, <2>3, <2>4, <2>5, <2>6, StepIsSound
  <2>8. /\ call' = [call EXCEPT ![c] = q] /\ share' = [share EXCEPT ![c] = share[c]]
        /\ share[c] \in ShareTypes
    BY <2>1, <2>3, BecomesIs
  <2>9. PinsFit' /\ anchor' \in Pinned /\ pins' \in [Ports -> Pinned]
    BY <1>0, <2>1, <2>4 DEF PinsFit, WinInv, WinTypes, Pinned
  <2>10. anchor' = a
    BY <2>1, <2>5
  <2> QED
    BY <1>0, <2>3, <2>6, <2>7, <2>8, <2>9, <2>10, OneCallWrites
<1> QED
  BY <1>1, <1>2

\* The pins follow the anchor.
LEMMA SyncKeeps == ASSUME NEW c \in Calls, WinInv, SyncPortPin(c) PROVE WinInv'
<1>0. UNCHANGED <<listening, anchor, legacy>> /\ call[c].at = "sync"
      /\ pins' = [pins EXCEPT ![call[c].port] = call[c].accepted]
      /\ Becomes(c, Settled(c, call[c].last))
  BY DEF SyncPortPin
<1>1. call[c] \in CallTypes /\ Sound(call[c], share[c], anchor, legacy) /\ share[c] \in ShareTypes
  BY DEF WinInv, WinTypes
<1>2. /\ call[c].last # NoReport /\ call[c].accepted \in Certificates /\ call[c].answers = <<>>
      /\ call[c].accepted = anchor /\ call[c].last.by = call[c].try
  BY <1>0, <1>1 DEF Sound, ConfirmedIsAnchor
<1>3. call[c].last \in Reports /\ call[c].port \in Ports
  BY <1>1, <1>2 DEF CallTypes
<1>4. PICK q \in CallTypes :
        /\ Settled(c, call[c].last) = [call EXCEPT ![c] = q]
        /\ q.at \in {"done", "failed"} => Sound(q, NotShared, anchor, legacy)
        /\ q.at \notin {"done", "failed"} => Sound(q, share[c], anchor, legacy)
  BY <1>0, <1>2, <1>3, SettledIsSound
<1>5. Becomes(c, [call EXCEPT ![c] = q])
  BY <1>0, <1>4
<1>6. /\ call' = [call EXCEPT ![c] = q]
      /\ q.at \in {"done", "failed"} => share' = [share EXCEPT ![c] = NotShared]
      /\ q.at \notin {"done", "failed"} => share' = [share EXCEPT ![c] = share[c]]
  BY <1>5, BecomesIs
<1>7. anchor' = anchor /\ anchor' \in Pinned /\ pins' \in [Ports -> Pinned]
  BY <1>0, <1>2, <1>3 DEF WinInv, WinTypes, Pinned
<1>8. PinsFit'
  <2>1. legacy = {} \/ anchor \in legacy
    BY <1>2, WinAssumption DEF WinInv, PinsFit
  <2>2. pins'[call[c].port] = anchor /\ \A p \in Ports \ {call[c].port} : pins'[p] = pins[p]
    BY <1>0, <1>2, <1>3 DEF WinInv, WinTypes
  <2>3. anchor # NotPinned
    BY <1>2, WinAssumption
  <2> QED
    BY <1>0, <1>3, <1>7, <2>1, <2>2, <2>3 DEF WinInv, PinsFit
<1>9. \A o \in Calls : Sound(call[o], share[o], anchor', legacy)
  BY <1>0 DEF WinInv
<1>10. listening' = listening /\ legacy' = legacy
       /\ \A o \in Calls \ {c} : Sound(call[o], share[o], anchor', legacy)
  BY <1>0, <1>9
<1>11. CASE q.at \in {"done", "failed"}
  <2>1. Sound(q, NotShared, anchor', legacy) /\ share' = [share EXCEPT ![c] = NotShared]
    BY <1>4, <1>6, <1>7, <1>11
  <2> QED
    BY <1>6, <1>7, <1>8, <1>10, <2>1, FirstValues, OneCallWrites
<1>12. CASE q.at \notin {"done", "failed"}
  <2>1. Sound(q, share[c], anchor', legacy) /\ share' = [share EXCEPT ![c] = share[c]]
    BY <1>4, <1>6, <1>7, <1>12
  <2> QED
    BY <1>1, <1>6, <1>7, <1>8, <1>10, <2>1, OneCallWrites
<1> QED
  BY <1>11, <1>12

-----------------------------------------------------------------------------
\* A script of this attempt or of the one before reports.
LEMMA ReportingKeeps == ASSUME NEW c \in Calls, NEW n \in Attempts, WinInv, WriteReport(c, n)
                        PROVE WinInv'
<1> DEFINE s == share[c].script[n]
<1>0. UNCHANGED <<listening, trustVars, call>> /\ s.state = "running"
  BY DEF WriteReport
<1>1. /\ call[c] \in CallTypes /\ Sound(call[c], share[c], anchor, legacy)
      /\ share[c] \in ShareTypes
      /\ share \in [Calls -> ShareTypes]
  BY DEF WinInv, WinTypes
<1>2. PICK state \in {"running", "succeeded", "failed"} :
       share' = [share EXCEPT
         ![c].report = [by |-> n, seq |-> s.sent + 1, state |-> state],
         ![c].script[n].sent = s.sent + 1,
         ![c].script[n].state = IF state = "running" \/ (state = "succeeded" /\ c \in Retained)
                                THEN "running" ELSE "over"]
  BY DEF WriteReport
<1>3. PICK over \in {"running", "over"} :
        over = IF state = "running" \/ (state = "succeeded" /\ c \in Retained)
               THEN "running" ELSE "over"
  OBVIOUS
<1>4. s.sent \in Nat /\ s.sent + 1 \in 1..MaxReports /\ s.sent + 1 \in 0..MaxReports
  <2>1. share[c].script[1].sent \in Nat /\ share[c].script[2].sent \in Nat
    BY <1>1, WinAssumption DEF ShareTypes, ScriptTypes, Attempts
  <2>2. PICK limit \in 1..MaxReports : limit = IF c \in Short THEN 1 ELSE MaxReports
    BY WinAssumption
  <2>3. share[c].script[1].sent + share[c].script[2].sent < limit
    BY <2>2 DEF WriteReport
  <2>4. share[c].script[1].sent + share[c].script[2].sent < MaxReports
    BY <2>1, <2>2, <2>3, WinAssumption
  <2>5. s.sent < MaxReports /\ s.sent \in Nat
    BY <2>1, <2>4, WinAssumption DEF Attempts
  <2> QED
    BY <2>5, WinAssumption
<1> DEFINE r == [by |-> n, seq |-> s.sent + 1, state |-> state]
<1>5. r \in Reports \union {NoReport} /\ r.by = n
  BY <1>4 DEF Reports
<1> HIDE DEF r
<1>6. share' = [share EXCEPT ![c].report = r, ![c].script[n].sent = s.sent + 1,
      ![c].script[n].state = over]
  BY <1>2, <1>3 DEF r
<1>7. /\ share' \in [Calls -> ShareTypes]
      /\ share'[c].report = r /\ share'[c].script[n].state = over
      /\ \A m \in Attempts \ {n} : share'[c].script[m] = share[c].script[m]
      /\ \A d \in Calls \ {c} : share'[d] = share[d]
  <2>1. PICK k \in 0..MaxReports : k = s.sent + 1
    BY <1>4
  <2>2. share' = [share EXCEPT ![c].report = r, ![c].script[n].sent = k,
        ![c].script[n].state = over]
    BY <1>6, <2>1
  <2>3. over \in {"absent", "running", "over"}
    OBVIOUS
  <2> HIDE DEF s
  <2>4. share \in [Calls -> [report : Reports \union {NoReport},
                             script : [Attempts -> [state : {"absent", "running", "over"},
                               sent : 0..MaxReports]]]]
    BY <1>1 DEF ShareTypes, ScriptTypes
  <2>5. /\ share' \in [Calls -> [report : Reports \union {NoReport},
                                 script : [Attempts -> [state : {"absent", "running", "over"},
                                                        sent : 0..MaxReports]]]]
        /\ share'[c].report = r /\ share'[c].script[n].state = over
        /\ \A m \in Attempts \ {n} : share'[c].script[m] = share[c].script[m]
        /\ \A d \in Calls \ {c} : share'[d] = share[d]
    <3> DEFINE R == Reports \union {NoReport}
               O == {"absent", "running", "over"}
               K == 0..MaxReports
    <3>0. PICK f, h : f = share /\ h = share'
      OBVIOUS
    <3>1. /\ r \in R /\ over \in O /\ k \in K
          /\ f \in [Calls -> [report : R, script : [Attempts -> [state : O, sent : K]]]]
      BY <1>5, <2>3, <2>4, <3>0
    <3> HIDE DEF R, O, K
    <3>2. h = [f EXCEPT ![c].report = r, ![c].script[n].sent = k, ![c].script[n].state = over]
      BY <2>2, <3>0
    <3>3. \A d \in Calls \ {c} : h[d] = f[d]
      BY <3>1, <3>2
    <3>4. h[c].report = r
      BY <3>1, <3>2
    <3>5. h[c].script[n].state = over
      BY <3>1, <3>2
    <3>6. \A m \in Attempts \ {n} : h[c].script[m] = f[c].script[m]
      BY <3>1, <3>2
    <3>7. h[c].script \in [Attempts -> [state : O, sent : K]]
      <4>1. PICK g \in [Attempts -> [state : O, sent : K]] : g = f[c].script
        BY <3>1
      <4>2. h[c].script = [g EXCEPT ![n].sent = k, ![n].state = over]
        BY <3>1, <3>2, <4>1
      <4>3. [g EXCEPT ![n].sent = k, ![n].state = over] \in [Attempts -> [state : O, sent : K]]
        BY <3>1
      <4> QED
        BY <4>2, <4>3
    <3>8. h[c] = [report |-> h[c].report, script |-> h[c].script]
      BY <3>1, <3>2
    <3>9. h[c] \in [report : R, script : [Attempts -> [state : O, sent : K]]]
      BY <3>1, <3>4, <3>7, <3>8
    <3>10. h = [d \in Calls |-> h[d]]
      BY <3>1, <3>2
    <3>11. h \in [Calls -> [report : R, script : [Attempts -> [state : O, sent : K]]]]
      BY <3>1, <3>3, <3>9, <3>10
    <3> QED
      BY <3>0, <3>3, <3>4, <3>5, <3>6, <3>11 DEF R, O, K
  <2> QED
    BY <2>5 DEF ShareTypes, ScriptTypes
<1>8. PICK t \in ShareTypes : t = share'[c]
  BY <1>7
<1>9. ScriptsKnown(call[c], t)
  BY <1>0, <1>1, <1>3, <1>5, <1>7, <1>8 DEF Sound, ScriptsKnown
<1>10. Sound(call[c], t, anchor, legacy)
  BY <1>1, <1>9 DEF Sound
<1>11. call' = [call EXCEPT ![c] = call[c]]
  BY <1>0, CallsStay
<1>12. share' = [share EXCEPT ![c] = t]
  BY <1>1, <1>7, <1>8
<1> QED
  BY <1>0, <1>1, <1>10, <1>11, <1>12, OneCallMoves

\* A step that changes nothing.
LEMMA WinStutters == WinInv /\ UNCHANGED winVars => WinInv'
BY DEF WinInv, WinTypes, PinsFit, winVars

\* The inductive invariant of the operations in the guest.
LEMMA WinHolds == WinSpec => []WinInv
<1>1. ASSUME WinInv, NEW c \in Calls, Abandon(c) PROVE WinInv'
  BY <1>1, FailingKeeps DEF Abandon
<1>2. WinInv /\ [WinNext]_winVars => WinInv'
  BY <1>1, ConnectKeeps, ClearKeeps, AnchorReadKeeps, PinsReadKeep, HandshakeKeeps, ReportReadKeeps,
     GivingUpKeeps, ConfirmKeeps, CreateKeeps, SyncKeeps, FollowUpKeeps, ReportingKeeps, WinStutters
     DEF WinNext
<1> QED
  BY <1>2, WinStart, PTL DEF WinSpec

\* For any number of operations, ports and certificates, what is trusted, the operations and
\* the files they share with the guest have their types.
THEOREM WinTypesHold == WinSpec => []WinTypeOK
BY WinHolds, TypesAreTypes, PTL

\* An answer is a report of the attempt that waits for it, over the certificate that is the anchor
\* and that no older pin speaks against, and a second answer is a later report than the first.
THEOREM AnswersTrusted == WinSpec => []AnswersAreTrusted
BY WinHolds, TrustedIsTrusted, PTL

(***************************************************************************)
(* A launch, for any number of connections.  Every step of the command has *)
(* its own account of the connection, the client, the record and the       *)
(* Runtime; what the command knows of the guest is stable there, because a *)
(* Studio only goes on.                                                    *)
(***************************************************************************)

LaunchSteps ==
  {"idle", "connect", "wait", "abort", "release", "answered", "register", "link", "verify",
   "stop_studio", "stop_runtime", "observe", "unlock", "record", "done", "unconfirmed", "failed"}
LaunchCalls ==
  [at : LaunchSteps, try : 0..MaxTries, run : Runs, left : 0..2, seen : [Runs -> Tries \union {0}],
   answer : Tries \union {0}, named : BOOLEAN, retry : BOOLEAN]
StudioStates == {"none", "starting", "ready", "handed", "child", "gone"}
ScriptStates == {"absent", "begun", "started", "waiting", "monitor", "over"}
LaunchReports ==
  [by : Tries, state : {"running", "ready", "closed", "failed"}] \union {NothingReported}

LaunchTypes ==
  /\ studioCall \in LaunchCalls
  /\ drive \in BOOLEAN
  /\ rdp \in Tries \union {0} /\ held \in Tries \union {0} /\ remembered \in Tries \union {0}
  /\ runtimeOf \in {"none", "prepared", "linked", "stopped"}
  /\ launched \in [Tries -> StudioStates] /\ scripts \in [Tries -> ScriptStates]
  /\ launchReport \in LaunchReports /\ opened \subseteq Tries

\* Only the script of a connection starts a Studio, and what it reports has happened.
ScriptsAreTrue ==
  /\ \A n \in Tries : launched[n] = "none" => scripts[n] \in {"absent", "begun", "over"}
  /\ \A n \in Tries : launchReport.by = n =>
       /\ launchReport.state = "running" => launched[n] # "none"
       /\ launchReport.state = "ready" => launched[n] \in {"ready", "child", "gone"}
       /\ launchReport.state = "closed" => launched[n] = "gone"

\* Out of reach of the command: handed over, or gone.
OutOfReach(n) == n # 0 => launched[n] \in {"handed", "child", "gone"}

\* What the command knows has happened.
KnownIsTrue ==
  /\ \A r \in Runs : studioCall.seen[r] # 0 => launched[studioCall.seen[r]] # "none"
  /\ studioCall.answer # 0 => launched[studioCall.answer] \in {"ready", "child", "gone"}
  /\ studioCall.at \in {"idle", "connect", "wait", "abort", "release"} => studioCall.answer = 0
  /\ studioCall.at \notin {"idle", "connect", "wait", "abort", "release", "failed"} =>
       studioCall.answer # 0
  /\ studioCall.run = 1 => studioCall.seen[2] = 0
  /\ studioCall.run = 2 => OutOfReach(studioCall.seen[1])

\* Who has the connection, the client and the Runtime.
HeldByStep ==
  /\ held \in {0, studioCall.answer}
  /\ studioCall.at \in {"idle", "connect", "abort", "release"} => rdp = 0
  /\ studioCall.at = "wait" => rdp = studioCall.try /\ rdp # 0
  /\ studioCall.at \in {"idle", "connect", "wait", "abort", "release", "answered", "register"} =>
       held = 0
  /\ studioCall.at \in {"idle", "connect"} => studioCall.left > 0
  /\ studioCall.at = "abort" => Seen # 0
  /\ studioCall.at = "idle" => \A r \in Runs : studioCall.seen[r] = 0
  /\ studioCall.at \in {"answered", "register", "link", "verify", "done", "unconfirmed"} =>
       rdp = studioCall.answer
  /\ studioCall.at \in {"register", "link", "verify", "done", "unconfirmed"} =>
       (drive => remembered = studioCall.answer)
  /\ studioCall.at \in {"link", "verify", "done", "unconfirmed"} => held = studioCall.answer
  /\ studioCall.at \in {"verify", "done", "unconfirmed"} => runtimeOf = "linked"

\* What an answer that allows a repetition needs, from the step that it is earned in.
CleanByStep ==
  /\ studioCall.at = "stop_studio" /\ held = 0 => rdp = 0
  /\ studioCall.retry /\ studioCall.at \in {"stop_runtime", "observe", "unlock", "record"} =>
       rdp = 0 /\ held = 0
  /\ studioCall.retry /\ studioCall.at \in {"observe", "unlock", "record"} => runtimeOf = "stopped"
  /\ studioCall.at = "unlock" => launched[studioCall.answer] = "gone"
  /\ studioCall.retry /\ studioCall.at = "record" =>
       launched[studioCall.answer] = "gone" /\ studioCall.answer \notin opened
  /\ studioCall.retry /\ studioCall.at = "release" =>
       \A r \in Runs : OutOfReach(studioCall.seen[r])
  /\ studioCall.retry /\ studioCall.at = "failed" =>
       /\ rdp = 0 /\ held = 0
       /\ IF studioCall.answer # 0
            THEN /\ launched[studioCall.answer] = "gone" /\ studioCall.answer \notin opened
                 /\ runtimeOf = "stopped"
            ELSE \A r \in Runs : OutOfReach(studioCall.seen[r])

LaunchInv ==
  LaunchTypes /\ ScriptsAreTrue /\ KnownIsTrue /\ HeldByStep /\ CleanByStep /\ LockedWhileOpen

-----------------------------------------------------------------------------
\* A step of the command, with its place and whether it may be repeated.
LEMMA CallMoves ==
  ASSUME NEW step \in LaunchSteps, studioCall \in LaunchCalls, Goes(step)
  PROVE  /\ studioCall' \in LaunchCalls /\ studioCall'.at = step
         /\ studioCall'.retry = studioCall.retry
         /\ studioCall'.try = studioCall.try /\ studioCall'.run = studioCall.run
         /\ studioCall'.left = studioCall.left /\ studioCall'.seen = studioCall.seen
         /\ studioCall'.answer = studioCall.answer /\ studioCall'.named = studioCall.named
BY DEF LaunchCalls, Goes

\* The same with what is answered.
LEMMA CallDecides ==
  ASSUME NEW step \in LaunchSteps, NEW b \in BOOLEAN, studioCall \in LaunchCalls,
         studioCall' = [studioCall EXCEPT !.at = step, !.retry = b]
  PROVE  /\ studioCall' \in LaunchCalls /\ studioCall'.at = step /\ studioCall'.retry = b
         /\ studioCall'.try = studioCall.try /\ studioCall'.run = studioCall.run
         /\ studioCall'.left = studioCall.left /\ studioCall'.seen = studioCall.seen
         /\ studioCall'.answer = studioCall.answer /\ studioCall'.named = studioCall.named
BY DEF LaunchCalls

\* What the steps need of the invariant.
LEMMA LaunchFacts ==
  LaunchInv =>
    /\ LaunchTypes /\ KnownIsTrue /\ HeldByStep /\ CleanByStep
    /\ studioCall \in LaunchCalls /\ studioCall.seen \in [Runs -> Tries \union {0}]
    /\ studioCall.run \in Runs /\ studioCall.answer \in Tries \union {0}
    /\ studioCall.retry \in BOOLEAN
    /\ drive \in BOOLEAN /\ runtimeOf \in {"none", "prepared", "linked", "stopped"}
    /\ rdp \in Tries \union {0} /\ held \in Tries \union {0} /\ remembered \in Tries \union {0}
BY DEF LaunchInv, LaunchTypes, LaunchCalls

\* The first state.
LEMMA LaunchStart == LaunchInit => LaunchInv
<1> SUFFICES ASSUME LaunchInit PROVE LaunchInv
  OBVIOUS
<1> USE DEF LaunchInit
<1>1. studioCall \in LaunchCalls /\ studioCall.at = "idle" /\ studioCall.left = 2
      /\ studioCall.run = 1
      /\ studioCall.answer = 0 /\ studioCall.retry = FALSE /\ \A r \in Runs : studioCall.seen[r] = 0
  BY LaunchAssumption DEF LaunchCalls, LaunchSteps, Runs
<1>2. LaunchTypes
  BY <1>1 DEF LaunchTypes, StudioStates, ScriptStates, LaunchReports, NothingReported
<1>3. ScriptsAreTrue
  BY DEF ScriptsAreTrue, NothingReported, Tries
<1>4. KnownIsTrue /\ HeldByStep /\ CleanByStep
  BY <1>1 DEF KnownIsTrue, HeldByStep, CleanByStep, Runs, IsAt, OutOfReach
<1>5. LockedWhileOpen
  BY DEF LockedWhileOpen, WithWindow
<1> QED
  BY <1>2, <1>3, <1>4, <1>5 DEF LaunchInv

\* What a step of the command leaves in the guest as it was.
GuestStays == UNCHANGED <<launched, scripts, launchReport, opened>>

\* What is true of the guest stays so.
LEMMA GuestTruthStays ==
  ASSUME LaunchInv, GuestStays
  PROVE  /\ ScriptsAreTrue' /\ LockedWhileOpen' /\ launched' \in [Tries -> StudioStates]
         /\ scripts' \in [Tries -> ScriptStates] /\ launchReport' \in LaunchReports
         /\ opened' \subseteq Tries
         /\ \A n \in Nat : OutOfReach(n)' <=> OutOfReach(n)
<1> USE DEF LaunchInv, GuestStays
<1>1. ScriptsAreTrue'
  BY DEF ScriptsAreTrue
<1>2. LockedWhileOpen'
  BY DEF LockedWhileOpen, WithWindow
<1>3. \A n \in Nat : OutOfReach(n)' <=> OutOfReach(n)
  BY DEF OutOfReach
<1> QED
  BY <1>1, <1>2, <1>3 DEF LaunchTypes

\* The same in one piece: a step of the command that leaves the guest alone.
LEMMA CommandKeeps ==
  ASSUME LaunchInv, GuestStays, studioCall' \in LaunchCalls, drive' \in BOOLEAN,
         rdp' \in Tries \union {0}, held' \in Tries \union {0}, remembered' \in Tries \union {0},
         runtimeOf' \in {"none", "prepared", "linked", "stopped"},
         KnownIsTrue', HeldByStep', CleanByStep'
  PROVE  LaunchInv'
BY GuestTruthStays DEF LaunchInv, LaunchTypes

\* The Runtime is prepared,
LEMMA PrepareGoes ==
  ASSUME LaunchInv, PrepareRuntime, Goes("connect"), runtimeOf' = "prepared"
  PROVE  LaunchInv'
<1>1. /\ studioCall' \in LaunchCalls
      /\ studioCall'.run = studioCall.run /\ studioCall'.left = studioCall.left
      /\ studioCall'.try = studioCall.try /\ studioCall'.seen = studioCall.seen
      /\ studioCall'.answer = studioCall.answer /\ studioCall'.named = studioCall.named
      /\ studioCall'.retry = studioCall.retry
      /\ studioCall.at = "idle" /\ studioCall'.at = "connect"
      /\ runtimeOf' = "prepared"
      /\ GuestStays
      /\ drive' = drive
      /\ rdp' = rdp
      /\ held' = held
      /\ remembered' = remembered
  BY LaunchFacts, CallMoves DEF PrepareRuntime, GuestStays, guestVarsOfLaunch, LaunchSteps, IsAt
<1>21. KnownIsTrue'
  BY LaunchFacts, <1>1 DEF KnownIsTrue, OutOfReach, Runs, GuestStays
<1>22. HeldByStep'
  BY LaunchFacts, <1>1 DEF HeldByStep, KnownIsTrue, Seen, Runs
<1>23. CleanByStep'
  BY LaunchFacts, <1>1 DEF CleanByStep, HeldByStep, KnownIsTrue, OutOfReach, Runs, GuestStays
<1> QED
  BY LaunchFacts, <1>1, <1>21, <1>22, <1>23, CommandKeeps

\* or is not.
LEMMA PrepareFails ==
  ASSUME LaunchInv, PrepareRuntime, NEW b \in BOOLEAN,
         studioCall' = [studioCall EXCEPT !.at = "failed", !.retry = b], runtimeOf' = runtimeOf
  PROVE  LaunchInv'
<1>1. /\ studioCall' \in LaunchCalls
      /\ studioCall'.run = studioCall.run /\ studioCall'.left = studioCall.left
      /\ studioCall'.try = studioCall.try /\ studioCall'.seen = studioCall.seen
      /\ studioCall'.answer = studioCall.answer /\ studioCall'.named = studioCall.named
      /\ studioCall'.retry = b
      /\ studioCall.at = "idle" /\ studioCall'.at = "failed"
      /\ GuestStays
      /\ drive' = drive
      /\ rdp' = rdp
      /\ held' = held
      /\ remembered' = remembered
      /\ runtimeOf' = runtimeOf
  BY LaunchFacts, CallDecides DEF PrepareRuntime, GuestStays, guestVarsOfLaunch, LaunchSteps, IsAt
<1>21. KnownIsTrue'
  BY LaunchFacts, <1>1 DEF KnownIsTrue, OutOfReach, Runs, GuestStays
<1>22. HeldByStep'
  BY LaunchFacts, <1>1 DEF HeldByStep, KnownIsTrue, Seen, Runs
<1>23. CleanByStep'
  BY LaunchFacts, <1>1 DEF CleanByStep, HeldByStep, KnownIsTrue, OutOfReach, Runs, GuestStays
<1> QED
  BY LaunchFacts, <1>1, <1>21, <1>22, <1>23, CommandKeeps

\* A run that failed, with and without a Studio that it reported.
LEMMA FailingReleases ==
  ASSUME LaunchInv, studioCall.at \in {"connect", "wait"}, NEW b \in BOOLEAN, Seen = 0, GuestStays,
         studioCall' = [studioCall EXCEPT !.at = "release", !.retry = b], rdp' = 0,
         UNCHANGED <<drive, held, runtimeOf, remembered>>
  PROVE  LaunchInv'
<1>1. /\ studioCall' \in LaunchCalls
      /\ studioCall'.run = studioCall.run /\ studioCall'.left = studioCall.left
      /\ studioCall'.try = studioCall.try /\ studioCall'.seen = studioCall.seen
      /\ studioCall'.answer = studioCall.answer /\ studioCall'.named = studioCall.named
      /\ studioCall'.retry = b
      /\ studioCall'.at = "release"
      /\ rdp' = 0
      /\ studioCall.seen[studioCall.run] = 0
      /\ GuestStays
      /\ drive' = drive
      /\ held' = held
      /\ remembered' = remembered
      /\ runtimeOf' = runtimeOf
  BY LaunchFacts, CallDecides DEF LaunchSteps, Seen
<1>21. KnownIsTrue'
  BY LaunchFacts, <1>1 DEF KnownIsTrue, OutOfReach, Runs, GuestStays
<1>22. HeldByStep'
  BY LaunchFacts, <1>1 DEF HeldByStep, KnownIsTrue, Seen, Runs
<1>23. CleanByStep'
  BY LaunchFacts, <1>1 DEF CleanByStep, HeldByStep, KnownIsTrue, OutOfReach, Runs, GuestStays
<1> QED
  BY LaunchFacts, <1>1, <1>21, <1>22, <1>23, CommandKeeps

\* With a Studio it is aborted first.
LEMMA FailingAborts ==
  ASSUME LaunchInv, studioCall.at \in {"connect", "wait"}, Seen # 0, GuestStays, Goes("abort"),
         rdp' = 0, UNCHANGED <<drive, held, runtimeOf, remembered>>
  PROVE  LaunchInv'
<1>1. /\ studioCall' \in LaunchCalls
      /\ studioCall'.run = studioCall.run /\ studioCall'.left = studioCall.left
      /\ studioCall'.try = studioCall.try /\ studioCall'.seen = studioCall.seen
      /\ studioCall'.answer = studioCall.answer /\ studioCall'.named = studioCall.named
      /\ studioCall'.retry = studioCall.retry
      /\ studioCall'.at = "abort"
      /\ rdp' = 0
      /\ studioCall.seen[studioCall.run] # 0
      /\ GuestStays
      /\ drive' = drive
      /\ held' = held
      /\ remembered' = remembered
      /\ runtimeOf' = runtimeOf
  BY LaunchFacts, CallMoves DEF LaunchSteps, Seen
<1>21. KnownIsTrue'
  BY LaunchFacts, <1>1 DEF KnownIsTrue, OutOfReach, Runs, GuestStays
<1>22. HeldByStep'
  BY LaunchFacts, <1>1 DEF HeldByStep, KnownIsTrue, Seen, Runs
<1>23. CleanByStep'
  BY LaunchFacts, <1>1 DEF CleanByStep, HeldByStep, KnownIsTrue, OutOfReach, Runs, GuestStays
<1> QED
  BY LaunchFacts, <1>1, <1>21, <1>22, <1>23, CommandKeeps

\* A run that failed, in either case.
LEMMA RunFailing ==
  ASSUME LaunchInv, studioCall.at \in {"connect", "wait"}, NEW b \in BOOLEAN, RunFails(b),
         GuestStays, UNCHANGED <<drive, held, runtimeOf, remembered>>
  PROVE  LaunchInv'
<1>1. CASE Seen = 0
  BY <1>1, FailingReleases DEF RunFails
<1>2. CASE Seen # 0
  BY <1>2, FailingAborts DEF RunFails, Goes
<1> QED
  BY <1>1, <1>2

\* A connection that is given up, with one left.
LEMMA GivenUp ==
  ASSUME LaunchInv, studioCall.at = "wait", studioCall.left > 0, GuestStays, Goes("connect"),
         rdp' = 0, UNCHANGED <<drive, held, runtimeOf, remembered>>
  PROVE  LaunchInv'
<1>1. /\ studioCall' \in LaunchCalls
      /\ studioCall'.run = studioCall.run /\ studioCall'.left = studioCall.left
      /\ studioCall'.try = studioCall.try /\ studioCall'.seen = studioCall.seen
      /\ studioCall'.answer = studioCall.answer /\ studioCall'.named = studioCall.named
      /\ studioCall'.retry = studioCall.retry
      /\ studioCall'.at = "connect"
      /\ rdp' = 0
      /\ GuestStays
      /\ drive' = drive
      /\ held' = held
      /\ remembered' = remembered
      /\ runtimeOf' = runtimeOf
  BY LaunchFacts, CallMoves DEF LaunchSteps
<1>21. KnownIsTrue'
  BY LaunchFacts, <1>1 DEF KnownIsTrue, OutOfReach, Runs, GuestStays
<1>22. HeldByStep'
  BY LaunchFacts, <1>1 DEF HeldByStep, KnownIsTrue, Seen, Runs
<1>23. CleanByStep'
  BY LaunchFacts, <1>1 DEF CleanByStep, HeldByStep, KnownIsTrue, OutOfReach, Runs, GuestStays
<1> QED
  BY LaunchFacts, <1>1, <1>21, <1>22, <1>23, CommandKeeps

\* The time is up.
LEMMA GivingUp == LaunchInv /\ GiveUpConnection => LaunchInv'
<1> SUFFICES ASSUME LaunchInv, GiveUpConnection PROVE LaunchInv'
  OBVIOUS
<1>1. GuestStays /\ UNCHANGED <<drive, held, runtimeOf, remembered>> /\ studioCall.at = "wait"
  BY DEF GiveUpConnection, GuestStays, guestVarsOfLaunch, IsAt
<1>2. CASE studioCall.left > 0
  BY <1>1, <1>2, GivenUp DEF GiveUpConnection
<1>3. CASE ~(studioCall.left > 0)
  <2>1. PICK b \in BOOLEAN : RunFails(b)
    BY <1>3 DEF GiveUpConnection
  <2> QED
    BY <1>1, <2>1, RunFailing
<1> QED
  BY <1>2, <1>3

\* The answer, or word that Studio was started.
LEMMA RunningRead ==
  ASSUME LaunchInv, studioCall.at = "wait", GuestStays, launchReport.by = studioCall.try,
         launchReport.state = "running",
         studioCall' = [studioCall EXCEPT !.seen[studioCall.run] = studioCall.try],
         UNCHANGED <<drive, rdp, held, runtimeOf, remembered>>
  PROVE  LaunchInv'
<1>1. /\ studioCall' \in LaunchCalls
      /\ studioCall'.run = studioCall.run /\ studioCall'.left = studioCall.left
      /\ studioCall'.try = studioCall.try /\ studioCall'.at = "wait"
      /\ studioCall'.seen = [studioCall.seen EXCEPT ![studioCall.run] = studioCall.try]
      /\ studioCall'.answer = studioCall.answer /\ studioCall'.named = studioCall.named
      /\ studioCall'.retry = studioCall.retry
      /\ launched[studioCall.try] # "none" /\ studioCall.try \in Tries
      /\ launched' = launched
      /\ GuestStays
      /\ drive' = drive
      /\ rdp' = rdp
      /\ held' = held
      /\ remembered' = remembered
      /\ runtimeOf' = runtimeOf
  BY LaunchFacts DEF LaunchCalls, LaunchInv, ScriptsAreTrue, HeldByStep, GuestStays
<1>21. KnownIsTrue'
  BY LaunchFacts, <1>1 DEF KnownIsTrue, OutOfReach, Runs, GuestStays
<1>22. HeldByStep'
  BY LaunchFacts, <1>1 DEF HeldByStep, KnownIsTrue, Seen, Runs
<1>23. CleanByStep'
  BY LaunchFacts, <1>1 DEF CleanByStep, HeldByStep, KnownIsTrue, OutOfReach, Runs, GuestStays
<1> QED
  BY LaunchFacts, <1>1, <1>21, <1>22, <1>23, CommandKeeps

\* The answer.
LEMMA AnswerRead ==
  ASSUME LaunchInv, studioCall.at = "wait", GuestStays, launchReport.by = studioCall.try,
         NEW b \in BOOLEAN, launchReport.state \in {"ready", "closed"},
         studioCall' = [studioCall EXCEPT !.at = "answered", !.answer = studioCall.try,
           !.named = b],
         UNCHANGED <<drive, rdp, held, runtimeOf, remembered>>
  PROVE  LaunchInv'
<1>1. /\ studioCall' \in LaunchCalls
      /\ studioCall'.run = studioCall.run /\ studioCall'.left = studioCall.left
      /\ studioCall'.try = studioCall.try /\ studioCall'.at = "answered"
      /\ studioCall'.seen = studioCall.seen
      /\ studioCall'.answer = studioCall.try
      /\ studioCall'.retry = studioCall.retry
      /\ launched[studioCall.try] \in {"ready", "child", "gone"} /\ studioCall.try \in Tries
      /\ studioCall.try # 0
      /\ launched' = launched
      /\ GuestStays
      /\ drive' = drive
      /\ rdp' = rdp
      /\ held' = held
      /\ remembered' = remembered
      /\ runtimeOf' = runtimeOf
  BY LaunchFacts
     DEF LaunchCalls, LaunchSteps, LaunchInv, ScriptsAreTrue, HeldByStep, GuestStays, Tries
<1>21. KnownIsTrue'
  BY LaunchFacts, <1>1 DEF KnownIsTrue, OutOfReach, Runs, GuestStays
<1>22. HeldByStep'
  BY LaunchFacts, <1>1 DEF HeldByStep, KnownIsTrue, Seen, Runs
<1>23. CleanByStep'
  BY LaunchFacts, <1>1 DEF CleanByStep, HeldByStep, KnownIsTrue, OutOfReach, Runs, GuestStays
<1> QED
  BY LaunchFacts, <1>1, <1>21, <1>22, <1>23, CommandKeeps

\* A report is read, whatever it says.
LEMMA ReportRead == LaunchInv /\ ReadLaunchReport => LaunchInv'
<1> SUFFICES ASSUME LaunchInv, ReadLaunchReport PROVE LaunchInv'
  OBVIOUS
<1>1. GuestStays /\ UNCHANGED <<drive, held, runtimeOf, remembered>> /\ studioCall.at = "wait"
  BY DEF ReadLaunchReport, GuestStays, guestVarsOfLaunch, IsAt
<1>2. launchReport.state \in {"running", "ready", "closed", "failed"}
  BY DEF ReadLaunchReport, LaunchInv, LaunchTypes, LaunchReports
<1>3. CASE launchReport.by # studioCall.try
  BY <1>1, <1>3, RunFailing DEF ReadLaunchReport
<1>4. CASE launchReport.by = studioCall.try /\ launchReport.state = "running"
  BY <1>1, <1>4, RunningRead DEF ReadLaunchReport
<1>5. CASE launchReport.by = studioCall.try /\ launchReport.state \in {"ready", "closed"}
  <2>1. /\ studioCall' = [studioCall EXCEPT !.at = "answered", !.answer = studioCall.try,
                                           !.named = launchReport.state = "ready"]
        /\ rdp' = rdp
    BY <1>5 DEF ReadLaunchReport
  <2>2. PICK b \in BOOLEAN : b = (launchReport.state = "ready")
    OBVIOUS
  <2> QED
    BY <1>1, <1>5, <2>1, <2>2, AnswerRead
<1>6. CASE launchReport.by = studioCall.try /\ launchReport.state = "failed"
  BY <1>1, <1>6, RunFailing DEF ReadLaunchReport
<1> QED
  BY <1>2, <1>3, <1>4, <1>5, <1>6

\* The Runtime is released.
LEMMA ReleaseKeeps ==
  ASSUME LaunchInv, ReleaseRuntime
  PROVE  LaunchInv'
<1>1. /\ studioCall' \in LaunchCalls
      /\ studioCall'.run = studioCall.run /\ studioCall'.left = studioCall.left
      /\ studioCall'.try = studioCall.try /\ studioCall'.seen = studioCall.seen
      /\ studioCall'.answer = studioCall.answer /\ studioCall'.named = studioCall.named
      /\ studioCall'.retry = studioCall.retry
      /\ studioCall.at = "release" /\ studioCall'.at = "failed"
      /\ runtimeOf' \in {"prepared", "stopped"}
      /\ GuestStays
      /\ drive' = drive
      /\ rdp' = rdp
      /\ held' = held
      /\ remembered' = remembered
  BY LaunchFacts, CallMoves DEF ReleaseRuntime, GuestStays, guestVarsOfLaunch, LaunchSteps, IsAt
<1>21. KnownIsTrue'
  BY LaunchFacts, <1>1 DEF KnownIsTrue, OutOfReach, Runs, GuestStays
<1>22. HeldByStep'
  BY LaunchFacts, <1>1 DEF HeldByStep, KnownIsTrue, Seen, Runs
<1>23. CleanByStep'
  BY LaunchFacts, <1>1 DEF CleanByStep, HeldByStep, KnownIsTrue, OutOfReach, Runs, GuestStays
<1> QED
  BY LaunchFacts, <1>1, <1>21, <1>22, <1>23, CommandKeeps

-----------------------------------------------------------------------------
\* An answer that cannot be used, or whose Studio cannot be recorded.
LEMMA UnusableKeeps ==
  ASSUME LaunchInv, NEW b \in BOOLEAN, studioCall.at = "answered", Recover(b), rdp' = 0, GuestStays,
         UNCHANGED <<held, runtimeOf, remembered>>, drive' \in BOOLEAN
  PROVE  LaunchInv'
<1>1. /\ studioCall' \in LaunchCalls
      /\ studioCall'.run = studioCall.run /\ studioCall'.left = studioCall.left
      /\ studioCall'.try = studioCall.try /\ studioCall'.seen = studioCall.seen
      /\ studioCall'.answer = studioCall.answer /\ studioCall'.named = studioCall.named
      /\ studioCall'.retry = b
      /\ studioCall'.at = "stop_studio"
      /\ rdp' = 0
      /\ GuestStays
      /\ held' = held
      /\ remembered' = remembered
      /\ runtimeOf' = runtimeOf
  BY LaunchFacts, CallDecides DEF Recover, LaunchSteps
<1>21. KnownIsTrue'
  BY LaunchFacts, <1>1 DEF KnownIsTrue, OutOfReach, Runs, GuestStays
<1>22. HeldByStep'
  BY LaunchFacts, <1>1 DEF HeldByStep, KnownIsTrue, Seen, Runs
<1>23. CleanByStep'
  BY LaunchFacts, <1>1 DEF CleanByStep, HeldByStep, KnownIsTrue, OutOfReach, Runs, GuestStays
<1> QED
  BY LaunchFacts, <1>1, <1>21, <1>22, <1>23, CommandKeeps

\* A drive is recorded,
LEMMA RememberedKeeps ==
  ASSUME LaunchInv, studioCall.at = "answered", Goes("register"), GuestStays, drive' \in BOOLEAN,
         remembered' = (IF drive' THEN studioCall.answer ELSE remembered),
         UNCHANGED <<held, runtimeOf, rdp>>
  PROVE  LaunchInv'
<1>1. /\ studioCall' \in LaunchCalls
      /\ studioCall'.run = studioCall.run /\ studioCall'.left = studioCall.left
      /\ studioCall'.try = studioCall.try /\ studioCall'.seen = studioCall.seen
      /\ studioCall'.answer = studioCall.answer /\ studioCall'.named = studioCall.named
      /\ studioCall'.retry = studioCall.retry
      /\ studioCall'.at = "register"
      /\ drive' => remembered' = studioCall.answer
      /\ remembered' \in Tries \union {0}
      /\ GuestStays
      /\ rdp' = rdp
      /\ held' = held
      /\ runtimeOf' = runtimeOf
  BY LaunchFacts, CallMoves DEF LaunchSteps
<1>21. KnownIsTrue'
  BY LaunchFacts, <1>1 DEF KnownIsTrue, OutOfReach, Runs, GuestStays
<1>22. HeldByStep'
  BY LaunchFacts, <1>1 DEF HeldByStep, KnownIsTrue, Seen, Runs
<1>23. CleanByStep'
  BY LaunchFacts, <1>1 DEF CleanByStep, HeldByStep, KnownIsTrue, OutOfReach, Runs, GuestStays
<1> QED
  BY LaunchFacts, <1>1, <1>21, <1>22, <1>23, CommandKeeps

\* or it cannot be.
LEMMA RememberKeeps == LaunchInv /\ RememberProtected => LaunchInv'
<1> SUFFICES ASSUME LaunchInv, RememberProtected PROVE LaunchInv'
  OBVIOUS
<1>1. GuestStays /\ UNCHANGED <<held, runtimeOf>> /\ studioCall.at = "answered"
      /\ drive' \in BOOLEAN
  BY DEF RememberProtected, GuestStays, guestVarsOfLaunch, IsAt
<1>2. CASE Goes("register") /\ remembered' = (IF drive' THEN studioCall.answer ELSE remembered)
      /\ rdp' = rdp
  BY <1>1, <1>2, RememberedKeeps
<1>3. CASE Recover(TRUE) /\ rdp' = 0 /\ remembered' = remembered
  BY <1>1, <1>3, UnusableKeeps
<1> QED
  BY <1>2, <1>3 DEF RememberProtected

\* The client is registered.
LEMMA RegisterKeeps ==
  ASSUME LaunchInv, RegisterClient
  PROVE  LaunchInv'
<1>1. /\ studioCall' \in LaunchCalls
      /\ studioCall'.run = studioCall.run /\ studioCall'.left = studioCall.left
      /\ studioCall'.try = studioCall.try /\ studioCall'.seen = studioCall.seen
      /\ studioCall'.answer = studioCall.answer /\ studioCall'.named = studioCall.named
      /\ studioCall'.retry = studioCall.retry
      /\ studioCall.at = "register" /\ studioCall'.at = "link"
      /\ held' = studioCall.answer
      /\ GuestStays
      /\ drive' = drive
      /\ rdp' = rdp
      /\ remembered' = remembered
      /\ runtimeOf' = runtimeOf
  BY LaunchFacts, CallMoves DEF RegisterClient, GuestStays, guestVarsOfLaunch, LaunchSteps, IsAt
<1>21. KnownIsTrue'
  BY LaunchFacts, <1>1 DEF KnownIsTrue, OutOfReach, Runs, GuestStays
<1>22. HeldByStep'
  BY LaunchFacts, <1>1 DEF HeldByStep, KnownIsTrue, Seen, Runs
<1>23. CleanByStep'
  BY LaunchFacts, <1>1 DEF CleanByStep, HeldByStep, KnownIsTrue, OutOfReach, Runs, GuestStays
<1> QED
  BY LaunchFacts, <1>1, <1>21, <1>22, <1>23, CommandKeeps

\* The Runtime is linked,
LEMMA LinkGoes ==
  ASSUME LaunchInv, studioCall.at = "link", Goes("verify"), runtimeOf' = "linked", GuestStays,
         UNCHANGED <<drive, rdp, held, remembered>>
  PROVE  LaunchInv'
<1>1. /\ studioCall' \in LaunchCalls
      /\ studioCall'.run = studioCall.run /\ studioCall'.left = studioCall.left
      /\ studioCall'.try = studioCall.try /\ studioCall'.seen = studioCall.seen
      /\ studioCall'.answer = studioCall.answer /\ studioCall'.named = studioCall.named
      /\ studioCall'.retry = studioCall.retry
      /\ studioCall'.at = "verify"
      /\ runtimeOf' = "linked"
      /\ GuestStays
      /\ drive' = drive
      /\ rdp' = rdp
      /\ held' = held
      /\ remembered' = remembered
  BY LaunchFacts, CallMoves DEF LaunchSteps
<1>21. KnownIsTrue'
  BY LaunchFacts, <1>1 DEF KnownIsTrue, OutOfReach, Runs, GuestStays
<1>22. HeldByStep'
  BY LaunchFacts, <1>1 DEF HeldByStep, KnownIsTrue, Seen, Runs
<1>23. CleanByStep'
  BY LaunchFacts, <1>1 DEF CleanByStep, HeldByStep, KnownIsTrue, OutOfReach, Runs, GuestStays
<1> QED
  BY LaunchFacts, <1>1, <1>21, <1>22, <1>23, CommandKeeps

\* or the recovery begins.
LEMMA LinkRecovers ==
  ASSUME LaunchInv, studioCall.at = "link", Recover(TRUE), GuestStays,
         UNCHANGED <<drive, rdp, held, remembered, runtimeOf>>
  PROVE  LaunchInv'
<1>1. /\ studioCall' \in LaunchCalls
      /\ studioCall'.run = studioCall.run /\ studioCall'.left = studioCall.left
      /\ studioCall'.try = studioCall.try /\ studioCall'.seen = studioCall.seen
      /\ studioCall'.answer = studioCall.answer /\ studioCall'.named = studioCall.named
      /\ studioCall'.retry = TRUE
      /\ studioCall'.at = "stop_studio"
      /\ GuestStays
      /\ drive' = drive
      /\ rdp' = rdp
      /\ held' = held
      /\ remembered' = remembered
      /\ runtimeOf' = runtimeOf
  BY LaunchFacts, CallDecides DEF LaunchSteps, Recover
<1>21. KnownIsTrue'
  BY LaunchFacts, <1>1 DEF KnownIsTrue, OutOfReach, Runs, GuestStays
<1>22. HeldByStep'
  BY LaunchFacts, <1>1 DEF HeldByStep, KnownIsTrue, Seen, Runs
<1>23. CleanByStep'
  BY LaunchFacts, <1>1 DEF CleanByStep, HeldByStep, KnownIsTrue, OutOfReach, Runs, GuestStays
<1> QED
  BY LaunchFacts, <1>1, <1>21, <1>22, <1>23, CommandKeeps

\* The user interface answers or not; Studio stays.
LEMMA VerifyGoes ==
  ASSUME LaunchInv, studioCall.at = "verify", NEW step \in {"done", "unconfirmed"}, Goes(step),
         GuestStays, UNCHANGED <<drive, rdp, held, remembered, runtimeOf>>
  PROVE  LaunchInv'
<1>1. /\ studioCall' \in LaunchCalls
      /\ studioCall'.run = studioCall.run /\ studioCall'.left = studioCall.left
      /\ studioCall'.try = studioCall.try /\ studioCall'.seen = studioCall.seen
      /\ studioCall'.answer = studioCall.answer /\ studioCall'.named = studioCall.named
      /\ studioCall'.retry = studioCall.retry
      /\ studioCall'.at = step
      /\ GuestStays
      /\ drive' = drive
      /\ rdp' = rdp
      /\ held' = held
      /\ remembered' = remembered
      /\ runtimeOf' = runtimeOf
  BY LaunchFacts, CallMoves DEF LaunchSteps
<1>21. KnownIsTrue'
  BY LaunchFacts, <1>1 DEF KnownIsTrue, OutOfReach, Runs, GuestStays
<1>22. HeldByStep'
  BY LaunchFacts, <1>1 DEF HeldByStep, KnownIsTrue, Seen, Runs
<1>23. CleanByStep'
  BY LaunchFacts, <1>1 DEF CleanByStep, HeldByStep, KnownIsTrue, OutOfReach, Runs, GuestStays
<1> QED
  BY LaunchFacts, <1>1, <1>21, <1>22, <1>23, CommandKeeps

\* Without a client there is nothing to stop.
LEMMA StopNothing ==
  ASSUME LaunchInv, studioCall.at = "stop_studio", held = 0, Goes("stop_runtime"), GuestStays,
         UNCHANGED <<drive, rdp, held, remembered, runtimeOf>>
  PROVE  LaunchInv'
<1>1. /\ studioCall' \in LaunchCalls
      /\ studioCall'.run = studioCall.run /\ studioCall'.left = studioCall.left
      /\ studioCall'.try = studioCall.try /\ studioCall'.seen = studioCall.seen
      /\ studioCall'.answer = studioCall.answer /\ studioCall'.named = studioCall.named
      /\ studioCall'.retry = studioCall.retry
      /\ studioCall'.at = "stop_runtime"
      /\ held = 0
      /\ GuestStays
      /\ drive' = drive
      /\ rdp' = rdp
      /\ held' = held
      /\ remembered' = remembered
      /\ runtimeOf' = runtimeOf
  BY LaunchFacts, CallMoves DEF LaunchSteps
<1>21. KnownIsTrue'
  BY LaunchFacts, <1>1 DEF KnownIsTrue, OutOfReach, Runs, GuestStays
<1>22. HeldByStep'
  BY LaunchFacts, <1>1 DEF HeldByStep, KnownIsTrue, Seen, Runs
<1>23. CleanByStep'
  BY LaunchFacts, <1>1 DEF CleanByStep, HeldByStep, KnownIsTrue, OutOfReach, Runs, GuestStays
<1> QED
  BY LaunchFacts, <1>1, <1>21, <1>22, <1>23, CommandKeeps

\* A step of the recovery that fails: nothing is clean any more.
LEMMA Uncleaned ==
  ASSUME LaunchInv, NEW step \in {"stop_runtime", "observe", "record", "failed"}, GuestStays,
         studioCall.at \in {"stop_studio", "stop_runtime", "observe", "unlock", "record"},
         studioCall' = [studioCall EXCEPT !.at = step, !.retry = FALSE],
         UNCHANGED <<drive, rdp, held, remembered, runtimeOf>>
  PROVE  LaunchInv'
<1>1. /\ studioCall' \in LaunchCalls
      /\ studioCall'.run = studioCall.run /\ studioCall'.left = studioCall.left
      /\ studioCall'.try = studioCall.try /\ studioCall'.seen = studioCall.seen
      /\ studioCall'.answer = studioCall.answer /\ studioCall'.named = studioCall.named
      /\ studioCall'.retry = FALSE
      /\ studioCall'.at = step
      /\ GuestStays
      /\ drive' = drive
      /\ rdp' = rdp
      /\ held' = held
      /\ remembered' = remembered
      /\ runtimeOf' = runtimeOf
  BY LaunchFacts, CallDecides DEF LaunchSteps
<1>21. KnownIsTrue'
  BY LaunchFacts, <1>1 DEF KnownIsTrue, OutOfReach, Runs, GuestStays
<1>22. HeldByStep'
  BY LaunchFacts, <1>1 DEF HeldByStep, KnownIsTrue, Seen, Runs
<1>23. CleanByStep'
  BY LaunchFacts, <1>1 DEF CleanByStep, HeldByStep, KnownIsTrue, OutOfReach, Runs, GuestStays
<1> QED
  BY LaunchFacts, <1>1, <1>21, <1>22, <1>23, CommandKeeps

\* The Runtime is stopped.
LEMMA RuntimeStopped ==
  ASSUME LaunchInv, studioCall.at = "stop_runtime", Goes("observe"), runtimeOf' = "stopped",
         GuestStays, UNCHANGED <<drive, rdp, held, remembered>>
  PROVE  LaunchInv'
<1>1. /\ studioCall' \in LaunchCalls
      /\ studioCall'.run = studioCall.run /\ studioCall'.left = studioCall.left
      /\ studioCall'.try = studioCall.try /\ studioCall'.seen = studioCall.seen
      /\ studioCall'.answer = studioCall.answer /\ studioCall'.named = studioCall.named
      /\ studioCall'.retry = studioCall.retry
      /\ studioCall'.at = "observe"
      /\ runtimeOf' = "stopped"
      /\ GuestStays
      /\ drive' = drive
      /\ rdp' = rdp
      /\ held' = held
      /\ remembered' = remembered
  BY LaunchFacts, CallMoves DEF LaunchSteps
<1>21. KnownIsTrue'
  BY LaunchFacts, <1>1 DEF KnownIsTrue, OutOfReach, Runs, GuestStays
<1>22. HeldByStep'
  BY LaunchFacts, <1>1 DEF HeldByStep, KnownIsTrue, Seen, Runs
<1>23. CleanByStep'
  BY LaunchFacts, <1>1 DEF CleanByStep, HeldByStep, KnownIsTrue, OutOfReach, Runs, GuestStays
<1> QED
  BY LaunchFacts, <1>1, <1>21, <1>22, <1>23, CommandKeeps

\* The guest does not list Studio.
LEMMA AbsenceObserved ==
  ASSUME LaunchInv, studioCall.at = "observe", ~Alive(studioCall.answer), Goes("unlock"),
         remembered' = 0, GuestStays, UNCHANGED <<drive, rdp, held, runtimeOf>>
  PROVE  LaunchInv'
<1>1. /\ studioCall' \in LaunchCalls
      /\ studioCall'.run = studioCall.run /\ studioCall'.left = studioCall.left
      /\ studioCall'.try = studioCall.try /\ studioCall'.seen = studioCall.seen
      /\ studioCall'.answer = studioCall.answer /\ studioCall'.named = studioCall.named
      /\ studioCall'.retry = studioCall.retry
      /\ studioCall'.at = "unlock"
      /\ remembered' = 0
      /\ launched[studioCall.answer] = "gone" /\ launched' = launched
      /\ GuestStays
      /\ drive' = drive
      /\ rdp' = rdp
      /\ held' = held
      /\ runtimeOf' = runtimeOf
  BY LaunchFacts, CallMoves DEF LaunchSteps, KnownIsTrue, Alive, GuestStays
<1>21. KnownIsTrue'
  BY LaunchFacts, <1>1 DEF KnownIsTrue, OutOfReach, Runs, GuestStays
<1>22. HeldByStep'
  BY LaunchFacts, <1>1 DEF HeldByStep, KnownIsTrue, Seen, Runs
<1>23. CleanByStep'
  BY LaunchFacts, <1>1 DEF CleanByStep, HeldByStep, KnownIsTrue, OutOfReach, Runs, GuestStays
<1> QED
  BY LaunchFacts, <1>1, <1>21, <1>22, <1>23, CommandKeeps

\* The report of the cleanup is written.
LEMMA Recorded ==
  ASSUME LaunchInv, studioCall.at = "record", Goes("failed"), GuestStays,
         UNCHANGED <<drive, rdp, held, remembered, runtimeOf>>
  PROVE  LaunchInv'
<1>1. /\ studioCall' \in LaunchCalls
      /\ studioCall'.run = studioCall.run /\ studioCall'.left = studioCall.left
      /\ studioCall'.try = studioCall.try /\ studioCall'.seen = studioCall.seen
      /\ studioCall'.answer = studioCall.answer /\ studioCall'.named = studioCall.named
      /\ studioCall'.retry = studioCall.retry
      /\ studioCall'.at = "failed" /\ launched' = launched /\ opened' = opened
      /\ GuestStays
      /\ drive' = drive
      /\ rdp' = rdp
      /\ held' = held
      /\ remembered' = remembered
      /\ runtimeOf' = runtimeOf
  BY LaunchFacts, CallMoves DEF LaunchSteps, GuestStays
<1>21. KnownIsTrue'
  BY LaunchFacts, <1>1 DEF KnownIsTrue, OutOfReach, Runs, GuestStays
<1>22. HeldByStep'
  BY LaunchFacts, <1>1 DEF HeldByStep, KnownIsTrue, Seen, Runs
<1>23. CleanByStep'
  BY LaunchFacts, <1>1 DEF CleanByStep, HeldByStep, KnownIsTrue, OutOfReach, Runs, GuestStays
<1> QED
  BY LaunchFacts, <1>1, <1>21, <1>22, <1>23, CommandKeeps

-----------------------------------------------------------------------------
\* What changes the guest.
LEMMA ConnectingKeeps ==
  ASSUME LaunchInv, studioCall.at = "connect", studioCall.try < MaxTries,
         studioCall' = [studioCall EXCEPT !.at = "wait", !.try = @ + 1, !.left = @ - 1],
         rdp' = studioCall.try + 1, launchReport' = NothingReported,
         UNCHANGED <<drive, held, runtimeOf, remembered, launched, scripts, opened>>
  PROVE  LaunchInv'
<1>1. /\ studioCall' \in LaunchCalls /\ studioCall'.at = "wait"
      /\ studioCall'.try = studioCall.try + 1
      /\ studioCall'.run = studioCall.run /\ studioCall'.seen = studioCall.seen
      /\ studioCall'.answer = studioCall.answer /\ studioCall'.retry = studioCall.retry
      /\ rdp' \in Tries /\ rdp' = studioCall'.try /\ rdp' # 0
  <2>1. studioCall.left \in 0..2 /\ studioCall.left > 0 /\ studioCall.try \in 0..MaxTries
    BY LaunchFacts DEF LaunchCalls, HeldByStep
  <2>2. studioCall.left - 1 \in 0..2 /\ studioCall.try + 1 \in 0..MaxTries
        /\ studioCall.try + 1 \in Tries
        /\ studioCall.try + 1 # 0
    BY <2>1, LaunchAssumption DEF Tries
  <2> QED
    BY LaunchFacts, <2>2 DEF LaunchCalls, LaunchSteps
<1>2. LaunchTypes'
  BY LaunchFacts, <1>1 DEF LaunchTypes, LaunchReports
<1>3. ScriptsAreTrue'
  BY DEF LaunchInv, ScriptsAreTrue, NothingReported, Tries
<1>4. KnownIsTrue'
  BY LaunchFacts, <1>1 DEF KnownIsTrue, OutOfReach, Runs
<1>5. HeldByStep'
  BY LaunchFacts, <1>1 DEF HeldByStep
<1>6. CleanByStep' /\ LockedWhileOpen'
  BY LaunchFacts, <1>1 DEF CleanByStep, LockedWhileOpen, WithWindow, LaunchInv
<1> QED
  BY <1>2, <1>3, <1>4, <1>5, <1>6 DEF LaunchInv

\* A connection is made, or cannot be.
LEMMA ConnectKeepsLaunch == LaunchInv /\ ConnectGuest => LaunchInv'
<1> SUFFICES ASSUME LaunchInv, ConnectGuest PROVE LaunchInv'
  OBVIOUS
<1>1. /\ studioCall.at = "connect"
      /\ UNCHANGED <<drive, held, runtimeOf, remembered, launched, scripts, opened>>
  BY DEF ConnectGuest, IsAt
<1>2. CASE /\ studioCall.try < MaxTries
           /\ studioCall' = [studioCall EXCEPT !.at = "wait", !.try = @ + 1, !.left = @ - 1]
           /\ rdp' = studioCall.try + 1 /\ launchReport' = NothingReported
  BY <1>1, <1>2, ConnectingKeeps
<1>3. ASSUME NEW b \in BOOLEAN, RunFails(b), launchReport' = launchReport PROVE LaunchInv'
  <2>1. GuestStays
    BY <1>1, <1>3 DEF GuestStays
  <2> QED
    BY <1>1, <1>3, <2>1, RunFailing
<1> QED
  BY <1>2, <1>3 DEF ConnectGuest

\* A Studio that goes: what was true of those that are gone stays true of more of them.
LEMMA GoneKeeps ==
  ASSUME LaunchInv, NEW n \in Tries, launched[n] # "none",
         launched' = [launched EXCEPT ![n] = "gone"], UNCHANGED <<scripts, launchReport>>,
         opened' \subseteq opened, opened \ {n} \subseteq opened'
  PROVE  /\ ScriptsAreTrue' /\ LockedWhileOpen' /\ launched' \in [Tries -> StudioStates]
         /\ scripts' \in [Tries -> ScriptStates] /\ launchReport' \in LaunchReports
         /\ opened' \subseteq Tries
         /\ launched'[n] = "gone" /\ \A m \in Tries \ {n} : launched'[m] = launched[m]
<1>1. /\ launched' \in [Tries -> StudioStates]
      /\ launched'[n] = "gone" /\ \A m \in Tries \ {n} : launched'[m] = launched[m]
      /\ scripts' \in [Tries -> ScriptStates] /\ launchReport' \in LaunchReports
      /\ opened' \subseteq Tries
  BY DEF LaunchInv, LaunchTypes, StudioStates
<1>2. ScriptsAreTrue'
  BY <1>1 DEF LaunchInv, ScriptsAreTrue
<1>3. LockedWhileOpen'
  BY <1>1 DEF LaunchInv, LockedWhileOpen, WithWindow
<1> QED
  BY <1>1, <1>2, <1>3

\* The Studio that the run reported is told to go, and is gone or had handed over.
LEMMA AbortReaching ==
  ASSUME LaunchInv, studioCall.at = "abort",
         launched' \in {launched, [launched EXCEPT ![Seen] = AbortReaches(Seen)]},
         UNCHANGED <<scripts, launchReport, opened>>
  PROVE  /\ ScriptsAreTrue' /\ LockedWhileOpen' /\ launched' \in [Tries -> StudioStates]
         /\ scripts' \in [Tries -> ScriptStates] /\ launchReport' \in LaunchReports
         /\ opened' \subseteq Tries
         /\ Seen \in Tries
         /\ \A m \in Tries : /\ launched'[m] = launched[m] \/ launched'[m] = "gone"
                             /\ launched[m] # "none" => launched'[m] # "none"
         /\ launched' = [launched EXCEPT ![Seen] = AbortReaches(Seen)] =>
              launched'[Seen] \in {"handed", "child", "gone"}
<1>1. Seen \in Tries /\ launched[Seen] # "none" /\ launched \in [Tries -> StudioStates]
  BY DEF LaunchInv, LaunchTypes, HeldByStep, KnownIsTrue, LaunchCalls, Seen
<1>2. CASE launched' = launched
  <2>1. GuestStays
    BY <1>2 DEF GuestStays
  <2>2. launched' = [launched EXCEPT ![Seen] = AbortReaches(Seen)]
        => launched[Seen] = AbortReaches(Seen)
    BY <1>1, <1>2
  <2> QED
    BY <1>1, <1>2, <2>1, <2>2, GuestTruthStays DEF AbortReaches, StudioStates
<1>3. CASE launched' = [launched EXCEPT ![Seen] = "gone"]
  BY <1>1, <1>3, GoneKeeps
<1>4. CASE launched' = [launched EXCEPT ![Seen] = launched[Seen]]
      /\ launched[Seen] \notin {"starting", "ready"}
  <2>1. launched' = launched
    BY <1>1, <1>4
  <2>2. GuestStays
    BY <2>1 DEF GuestStays
  <2> QED
    BY <1>1, <1>4, <2>1, <2>2, GuestTruthStays DEF StudioStates
<1> QED
  BY <1>2, <1>3, <1>4 DEF AbortReaches

\* A Studio is aborted, with or without an answer.
LEMMA AbortKeeps == LaunchInv /\ AbortIncompleteLaunch => LaunchInv'
<1> SUFFICES ASSUME LaunchInv, AbortIncompleteLaunch PROVE LaunchInv'
  OBVIOUS
<1>1. /\ studioCall.at = "abort" /\ UNCHANGED <<drive, rdp, held, runtimeOf, remembered>>
      /\ launched' \in {launched, [launched EXCEPT ![Seen] = AbortReaches(Seen)]}
      /\ UNCHANGED <<scripts, launchReport, opened>>
  BY DEF AbortIncompleteLaunch, IsAt, hostVarsOfLaunch
<1>2. /\ ScriptsAreTrue' /\ LockedWhileOpen' /\ launched' \in [Tries -> StudioStates]
      /\ scripts' \in [Tries -> ScriptStates] /\ launchReport' \in LaunchReports
      /\ opened' \subseteq Tries
      /\ Seen \in Tries
      /\ \A m \in Tries : /\ launched'[m] = launched[m] \/ launched'[m] = "gone"
                          /\ launched[m] # "none" => launched'[m] # "none"
      /\ launched' = [launched EXCEPT ![Seen] = AbortReaches(Seen)] =>
           launched'[Seen] \in {"handed", "child", "gone"}
  BY <1>1, AbortReaching
<1>3. /\ \A n \in Tries \union {0} : OutOfReach(n)
         => (n # 0 => launched'[n] \in {"handed", "child", "gone"})
      /\ \A r \in Runs : studioCall.seen[r] # 0 => launched'[studioCall.seen[r]] # "none"
  <2>1. \A n \in Tries \union {0} : OutOfReach(n)
        => (n # 0 => launched'[n] \in {"handed", "child", "gone"})
    BY <1>2 DEF OutOfReach
  <2>2. ASSUME NEW r \in Runs, studioCall.seen[r] # 0 PROVE launched'[studioCall.seen[r]] # "none"
    <3>1. PICK n \in Tries : n = studioCall.seen[r]
      BY LaunchFacts, <2>2
    <3>2. launched[n] # "none"
      BY LaunchFacts, <2>2, <3>1 DEF KnownIsTrue
    <3> QED
      BY <1>2, <3>1, <3>2
  <2> QED
    BY <2>1, <2>2
<1>31. PICK seen \in [Runs -> Tries \union {0}] : seen = studioCall.seen
  BY LaunchFacts
<1>32. /\ \A r \in Runs : seen[r] # 0 => launched'[seen[r]] # "none"
       /\ studioCall.run = 1 => Seen = seen[1] /\ seen[2] = 0
       /\ studioCall.run = 2 => Seen = seen[2]
          /\ (seen[1] # 0 => launched'[seen[1]] \in {"handed", "child", "gone"})
       /\ studioCall.answer = 0 /\ 1 \in Runs /\ 2 \in Runs
  <2>1. studioCall.run = 1 => Seen = seen[1] /\ seen[2] = 0
    BY LaunchFacts, <1>31 DEF Seen, KnownIsTrue
  <2>2. studioCall.run = 2 => Seen = seen[2] /\ OutOfReach(seen[1])
    BY LaunchFacts, <1>31 DEF Seen, KnownIsTrue
  <2>3. 1 \in Runs /\ 2 \in Runs /\ studioCall.answer = 0
    BY LaunchFacts, <1>1 DEF KnownIsTrue, Runs
  <2>4. seen[1] \in Tries \union {0}
    BY <2>3
  <2> QED
    BY <1>3, <1>31, <2>1, <2>2, <2>3, <2>4
<1>4. ASSUME launched' = [launched EXCEPT ![Seen] = AbortReaches(Seen)], Aborted PROVE LaunchInv'
  <2>1. CASE studioCall.run = 1
    <3>0. studioCall' = [studioCall EXCEPT !.at = "connect", !.run = 2, !.left = 2]
      BY <1>4, <2>1 DEF Aborted
    <3>1. /\ studioCall' \in LaunchCalls /\ studioCall'.at = "connect" /\ studioCall'.run = 2
          /\ studioCall'.left = 2 /\ studioCall'.seen = seen /\ studioCall'.answer = 0
          /\ studioCall'.retry = studioCall.retry
      <4>1. 2 \in Runs /\ 2 \in 0..2 /\ "connect" \in LaunchSteps /\ studioCall \in LaunchCalls
        BY LaunchFacts DEF Runs, LaunchSteps
      <4>2. /\ studioCall' \in LaunchCalls /\ studioCall'.at = "connect" /\ studioCall'.run = 2
            /\ studioCall'.left = 2 /\ studioCall'.seen = studioCall.seen
            /\ studioCall'.answer = studioCall.answer /\ studioCall'.retry = studioCall.retry
        BY <3>0, <4>1 DEF LaunchCalls
      <4> QED
        BY <1>31, <1>32, <4>2
    <3>2. LaunchTypes'
      BY LaunchFacts, <1>1, <1>2, <3>1 DEF LaunchTypes
    <3>3. KnownIsTrue'
      <4>1. seen[1] # 0 => launched'[seen[1]] \in {"handed", "child", "gone"}
        BY <1>2, <1>32, <1>4, <2>1
      <4> QED
        BY <1>32, <3>1, <4>1 DEF KnownIsTrue, OutOfReach
    <3>4. HeldByStep' /\ CleanByStep'
      BY LaunchFacts, <1>1, <3>1 DEF HeldByStep, CleanByStep
    <3> QED
      BY <1>2, <3>2, <3>3, <3>4 DEF LaunchInv
  <2>2. CASE studioCall.run = 2
    <3>0. studioCall' = [studioCall EXCEPT !.at = "release", !.retry = TRUE]
      BY <1>4, <2>2 DEF Aborted
    <3>1. /\ studioCall' \in LaunchCalls /\ studioCall'.at = "release" /\ studioCall'.run = 2
          /\ studioCall'.seen = seen /\ studioCall'.answer = 0
      BY LaunchFacts, <1>31, <1>32, <2>2, <3>0, CallDecides DEF LaunchSteps
    <3>2. LaunchTypes'
      BY LaunchFacts, <1>1, <1>2, <3>1 DEF LaunchTypes
    <3>3. KnownIsTrue'
      BY <1>32, <2>2, <3>1 DEF KnownIsTrue, OutOfReach
    <3>4. HeldByStep'
      BY LaunchFacts, <1>1, <3>1 DEF HeldByStep
    <3>5. \A r \in Runs : seen[r] # 0 => launched'[seen[r]] \in {"handed", "child", "gone"}
      <4>1. seen[2] # 0 => launched'[seen[2]] \in {"handed", "child", "gone"}
        BY <1>2, <1>32, <1>4, <2>2
      <4> QED
        BY <1>32, <2>2, <4>1 DEF Runs
    <3>6. CleanByStep'
      BY <3>1, <3>5 DEF CleanByStep, OutOfReach
    <3> QED
      BY <1>2, <3>2, <3>3, <3>4, <3>6 DEF LaunchInv
  <2> QED
    BY LaunchFacts, <2>1, <2>2 DEF Runs
<1>5. ASSUME studioCall' = [studioCall EXCEPT !.at = "release", !.retry = FALSE] PROVE LaunchInv'
  <2>1. /\ studioCall' \in LaunchCalls /\ studioCall'.at = "release"
        /\ studioCall'.run = studioCall.run
        /\ studioCall'.seen = studioCall.seen /\ studioCall'.answer = studioCall.answer
        /\ studioCall'.retry = FALSE
    BY LaunchFacts, <1>5, CallDecides DEF LaunchSteps
  <2>2. LaunchTypes'
    BY LaunchFacts, <1>1, <1>2, <2>1 DEF LaunchTypes
  <2>3. KnownIsTrue'
    <3>1. studioCall.run \in {1, 2}
      BY LaunchFacts DEF Runs
    <3> QED
      BY <1>31, <1>32, <2>1, <3>1 DEF KnownIsTrue, OutOfReach
  <2>4. HeldByStep' /\ CleanByStep'
    BY LaunchFacts, <1>1, <2>1 DEF HeldByStep, CleanByStep
  <2> QED
    BY <1>2, <2>2, <2>3, <2>4 DEF LaunchInv
<1> QED
  BY <1>4, <1>5 DEF AbortIncompleteLaunch

-----------------------------------------------------------------------------
\* The recovery stops the Studio of its client, which goes when that has gone.
LEMMA ClientStopped ==
  ASSUME LaunchInv, studioCall.at = "stop_studio", held # 0, Goes("stop_runtime"),
         launched' = [launched EXCEPT ![held] = "gone"], opened' \in {opened, opened \ {held}},
         rdp' = 0, held' = 0, remembered' = 0, UNCHANGED <<drive, runtimeOf, scripts, launchReport>>
  PROVE  LaunchInv'
<1>1. /\ studioCall' \in LaunchCalls /\ studioCall'.at = "stop_runtime"
      /\ studioCall'.run = studioCall.run
      /\ studioCall'.seen = studioCall.seen /\ studioCall'.answer = studioCall.answer
  BY LaunchFacts, CallMoves DEF LaunchSteps
<1>2. held \in Tries /\ launched[held] # "none"
  BY LaunchFacts DEF HeldByStep, KnownIsTrue
<1>3. /\ ScriptsAreTrue' /\ LockedWhileOpen' /\ launched' \in [Tries -> StudioStates]
      /\ scripts' \in [Tries -> ScriptStates] /\ launchReport' \in LaunchReports
      /\ opened' \subseteq Tries
      /\ launched'[held] = "gone" /\ \A m \in Tries \ {held} : launched'[m] = launched[m]
  BY <1>2, GoneKeeps
<1>4. LaunchTypes'
  BY LaunchFacts, <1>1, <1>3 DEF LaunchTypes
<1>5. KnownIsTrue'
  <2>1. \A n \in Tries : launched'[n] = launched[n] \/ launched'[n] = "gone"
    BY <1>3
  <2> QED
    BY LaunchFacts, <1>1, <2>1 DEF KnownIsTrue, OutOfReach, Runs
<1>6. HeldByStep' /\ CleanByStep'
  BY <1>1 DEF HeldByStep, CleanByStep
<1> QED
  BY <1>3, <1>4, <1>5, <1>6 DEF LaunchInv

\* The Studio of the client is stopped, in every case.
LEMMA StoppingKeeps == LaunchInv /\ StopRegistered => LaunchInv'
<1> SUFFICES ASSUME LaunchInv, StopRegistered PROVE LaunchInv'
  OBVIOUS
<1>1. /\ studioCall.at = "stop_studio" /\ UNCHANGED <<drive, runtimeOf, scripts, launchReport>>
  BY DEF StopRegistered, IsAt
<1>2. CASE held = 0 /\ Goes("stop_runtime") /\ UNCHANGED <<rdp, held, remembered, launched, opened>>
  <2>1. GuestStays
    BY <1>1, <1>2 DEF GuestStays
  <2> QED
    BY <1>1, <1>2, <2>1, StopNothing
<1>3. CASE /\ held # 0 /\ Goes("stop_runtime")
           /\ launched' = [launched EXCEPT ![held] = "gone"]
           /\ opened' \in {opened, opened \ {held}}
           /\ rdp' = 0 /\ held' = 0 /\ remembered' = 0
  BY <1>1, <1>3, ClientStopped
<1>4. CASE /\ held # 0 /\ studioCall' = [studioCall EXCEPT !.at = "stop_runtime", !.retry = FALSE]
           /\ UNCHANGED <<rdp, held, remembered, launched, opened>>
  <2>1. GuestStays
    BY <1>1, <1>4 DEF GuestStays
  <2> QED
    BY <1>1, <1>4, <2>1, Uncleaned
<1> QED
  BY <1>2, <1>3, <1>4 DEF StopRegistered

\* The lock of a Studio that is gone is removed,
LEMMA LockCleaned ==
  ASSUME LaunchInv, studioCall.at = "unlock", Goes("record"),
         opened' = opened \ {studioCall.answer},
         UNCHANGED <<drive, rdp, held, remembered, runtimeOf, launched, scripts, launchReport>>
  PROVE  LaunchInv'
<1>1. /\ studioCall' \in LaunchCalls /\ studioCall'.at = "record"
      /\ studioCall'.run = studioCall.run
      /\ studioCall'.seen = studioCall.seen /\ studioCall'.answer = studioCall.answer
      /\ studioCall'.retry = studioCall.retry
  BY LaunchFacts, CallMoves DEF LaunchSteps
<1>2. launched[studioCall.answer] = "gone"
  BY LaunchFacts DEF CleanByStep
<1>3. LaunchTypes'
  BY LaunchFacts, <1>1 DEF LaunchTypes
<1>4. ScriptsAreTrue' /\ LockedWhileOpen'
  BY <1>2 DEF LaunchInv, ScriptsAreTrue, LockedWhileOpen, WithWindow
<1>5. KnownIsTrue'
  BY LaunchFacts, <1>1 DEF KnownIsTrue, OutOfReach, Runs
<1>6. HeldByStep'
  BY LaunchFacts, <1>1 DEF HeldByStep
<1>7. CleanByStep'
  BY LaunchFacts, <1>1, <1>2 DEF CleanByStep
<1> QED
  BY <1>3, <1>4, <1>5, <1>6, <1>7 DEF LaunchInv

\* or cannot be.
LEMMA UnlockKeeps == LaunchInv /\ CleanupDeadLock => LaunchInv'
<1> SUFFICES ASSUME LaunchInv, CleanupDeadLock PROVE LaunchInv'
  OBVIOUS
<1>1. studioCall.at = "unlock"
      /\ UNCHANGED <<drive, rdp, held, remembered, runtimeOf, launched, scripts, launchReport>>
  BY DEF CleanupDeadLock, IsAt, hostVarsOfLaunch
<1>2. CASE Goes("record") /\ opened' = opened \ {studioCall.answer}
  BY <1>1, <1>2, LockCleaned
<1>3. CASE studioCall' = [studioCall EXCEPT !.at = "record", !.retry = FALSE] /\ opened' = opened
  <2>1. GuestStays
    BY <1>1, <1>3 DEF GuestStays
  <2> QED
    BY <1>1, <1>3, <2>1, Uncleaned
<1> QED
  BY <1>2, <1>3 DEF CleanupDeadLock

\* The other steps of the recovery.
LEMMA RecoveryKeeps == LaunchInv /\ (StopRuntimeForRecovery \/ ObserveSession \/ WriteCleanupReport)
  => LaunchInv'
<1> SUFFICES ASSUME LaunchInv, StopRuntimeForRecovery \/ ObserveSession \/ WriteCleanupReport
             PROVE LaunchInv'
  OBVIOUS
<1>0. GuestStays /\ UNCHANGED <<drive, rdp, held>>
  BY DEF StopRuntimeForRecovery, ObserveSession, WriteCleanupReport, GuestStays, guestVarsOfLaunch,
         hostVarsOfLaunch
<1>2. CASE StopRuntimeForRecovery
  <2>1. studioCall.at = "stop_runtime" /\ remembered' = remembered
    BY <1>2 DEF StopRuntimeForRecovery, IsAt
  <2>2. CASE Goes("observe") /\ runtimeOf' = "stopped"
    BY <1>0, <2>1, <2>2, RuntimeStopped
  <2>3. CASE studioCall' = [studioCall EXCEPT !.at = "observe", !.retry = FALSE]
        /\ runtimeOf' = runtimeOf
    BY <1>0, <2>1, <2>3, Uncleaned
  <2> QED
    BY <1>2, <2>2, <2>3 DEF StopRuntimeForRecovery
<1>3. CASE ObserveSession
  <2>1. studioCall.at = "observe" /\ runtimeOf' = runtimeOf
    BY <1>3 DEF ObserveSession, IsAt
  <2>2. CASE ~Alive(studioCall.answer) /\ Goes("unlock") /\ remembered' = 0
    BY <1>0, <2>1, <2>2, AbsenceObserved
  <2>3. CASE studioCall' = [studioCall EXCEPT !.at = "record", !.retry = FALSE]
        /\ remembered' = remembered
    BY <1>0, <2>1, <2>3, Uncleaned
  <2> QED
    BY <1>3, <2>2, <2>3 DEF ObserveSession
<1>4. CASE WriteCleanupReport
  <2>1. studioCall.at = "record" /\ runtimeOf' = runtimeOf /\ remembered' = remembered
    BY <1>4 DEF WriteCleanupReport, IsAt, hostVarsOfLaunch
  <2>2. CASE Goes("failed")
    BY <1>0, <2>1, <2>2, Recorded
  <2>3. CASE studioCall' = [studioCall EXCEPT !.at = "failed", !.retry = FALSE]
    BY <1>0, <2>1, <2>3, Uncleaned
  <2> QED
    BY <1>4, <2>2, <2>3 DEF WriteCleanupReport
<1> QED
  BY <1>2, <1>3, <1>4

\* The Runtime of the launch.
LEMMA PreparingKeeps == LaunchInv /\ PrepareRuntime => LaunchInv'
<1> SUFFICES ASSUME LaunchInv, PrepareRuntime PROVE LaunchInv'
  OBVIOUS
<1>1. CASE Goes("connect") /\ runtimeOf' = "prepared"
  BY <1>1, PrepareGoes
<1>2. ASSUME NEW b \in BOOLEAN, studioCall' = [studioCall EXCEPT !.at = "failed", !.retry = b],
             runtimeOf' = runtimeOf
      PROVE  LaunchInv'
  BY <1>2, PrepareFails
<1> QED
  BY <1>1, <1>2 DEF PrepareRuntime

\* The steps after the answer that need nothing but themselves.
LEMMA AnsweringKeeps == LaunchInv /\ (AnswerUnusable \/ LinkRuntime \/ VerifyOwnedSession)
  => LaunchInv'
<1> SUFFICES ASSUME LaunchInv, AnswerUnusable \/ LinkRuntime \/ VerifyOwnedSession PROVE LaunchInv'
  OBVIOUS
<1>0. GuestStays /\ UNCHANGED <<drive, held, remembered>> /\ drive \in BOOLEAN
  BY DEF AnswerUnusable, LinkRuntime, VerifyOwnedSession, GuestStays, guestVarsOfLaunch,
         hostVarsOfLaunch, LaunchInv, LaunchTypes
<1>1. CASE AnswerUnusable
  <2>1. studioCall.at = "answered" /\ runtimeOf' = runtimeOf /\ rdp' = 0
    BY <1>1 DEF AnswerUnusable, IsAt
  <2>2. PICK b \in BOOLEAN : Recover(b)
    BY <1>1 DEF AnswerUnusable
  <2> QED
    BY <1>0, <2>1, <2>2, UnusableKeeps
<1>2. CASE LinkRuntime
  <2>1. studioCall.at = "link" /\ rdp' = rdp
    BY <1>2 DEF LinkRuntime, IsAt
  <2>2. CASE Goes("verify") /\ runtimeOf' = "linked"
    BY <1>0, <2>1, <2>2, LinkGoes
  <2>3. CASE Recover(TRUE) /\ runtimeOf' = runtimeOf
    BY <1>0, <2>1, <2>3, LinkRecovers
  <2> QED
    BY <1>2, <2>2, <2>3 DEF LinkRuntime
<1>3. CASE VerifyOwnedSession
  <2>1. studioCall.at = "verify" /\ rdp' = rdp /\ runtimeOf' = runtimeOf
    BY <1>3 DEF VerifyOwnedSession, IsAt, hostVarsOfLaunch
  <2>2. CASE Goes("done")
    BY <1>0, <2>1, <2>2, VerifyGoes
  <2>3. CASE Goes("unconfirmed")
    BY <1>0, <2>1, <2>3, VerifyGoes
  <2> QED
    BY <1>3, <2>2, <2>3 DEF VerifyOwnedSession
<1> QED
  BY <1>1, <1>2, <1>3

-----------------------------------------------------------------------------
\* A Studio only goes on: what has a window keeps it or ends, what is out of reach stays so,
\* and only a Studio that shows its window opens the project.
GoesOn(n) ==
  /\ launched[n] # "none" => launched'[n] # "none"
  /\ launched[n] \in {"ready", "child", "gone"} => launched'[n] \in {"ready", "child", "gone"}
  /\ launched[n] \in {"handed", "child", "gone"} => launched'[n] \in {"handed", "child", "gone"}
  /\ launched[n] = "gone" => launched'[n] = "gone"
  /\ n \in opened' => n \in opened \/ launched[n] # "gone"

GuestTypes ==
  /\ launched \in [Tries -> StudioStates] /\ scripts \in [Tries -> ScriptStates]
  /\ launchReport \in LaunchReports /\ opened \subseteq Tries

\* What the command knows stays true while the Studios go on.
LEMMA GuestGoesOn ==
  ASSUME LaunchInv, UNCHANGED <<drive, studioCall, rdp, held, runtimeOf, remembered>>,
         GuestTypes', ScriptsAreTrue', LockedWhileOpen', \A n \in Tries : GoesOn(n)
  PROVE  LaunchInv'
<1>1. LaunchTypes'
  BY LaunchFacts DEF LaunchTypes, GuestTypes
<1>2. PICK known \in LaunchCalls : known = studioCall
  BY LaunchFacts
<1>3. studioCall' = known /\ known.seen \in [Runs -> Tries \union {0}]
      /\ known.answer \in Tries \union {0}
  BY <1>2 DEF LaunchCalls
<1>4. \A n \in Tries \union {0} : OutOfReach(n)
      => (n # 0 => launched'[n] \in {"handed", "child", "gone"})
  BY DEF OutOfReach, GoesOn
<1>5. KnownIsTrue'
  <2>1. \A r \in Runs : known.seen[r] # 0 => launched'[known.seen[r]] # "none"
    <3>1. ASSUME NEW r \in Runs, known.seen[r] # 0 PROVE launched'[known.seen[r]] # "none"
      <4>1. known.seen[r] \in Tries
        BY <1>3, <3>1
      <4> QED
        BY <1>2, <3>1, <4>1, LaunchFacts DEF KnownIsTrue, GoesOn
    <3> QED
      BY <3>1
  <2>2. known.answer # 0 => launched'[known.answer] \in {"ready", "child", "gone"}
    BY <1>2, <1>3, LaunchFacts DEF KnownIsTrue, GoesOn
  <2>3. known.run = 2
        => (known.seen[1] # 0 => launched'[known.seen[1]] \in {"handed", "child", "gone"})
    BY <1>2, <1>3, <1>4, LaunchFacts DEF KnownIsTrue, Runs
  <2>4. /\ known.at \in {"idle", "connect", "wait", "abort", "release"} => known.answer = 0
        /\ known.at \notin {"idle", "connect", "wait", "abort", "release", "failed"}
           => known.answer # 0
        /\ known.run = 1 => known.seen[2] = 0
    BY <1>2, LaunchFacts DEF KnownIsTrue
  <2> QED
    BY <1>3, <2>1, <2>2, <2>3, <2>4 DEF KnownIsTrue, OutOfReach
<1>6. HeldByStep'
  BY LaunchFacts DEF HeldByStep, Seen
<1>7. CleanByStep'
  <2>1. \A r \in Runs : OutOfReach(known.seen[r]) =>
          (known.seen[r] # 0 => launched'[known.seen[r]] \in {"handed", "child", "gone"})
    BY <1>3, <1>4
  <2>2. known.answer # 0 /\ launched[known.answer] = "gone" =>
          /\ launched'[known.answer] = "gone"
          /\ known.answer \notin opened => known.answer \notin opened'
    BY <1>3 DEF GoesOn
  <2>3. known.at \in {"unlock", "record"} => known.answer # 0
    BY <1>2, LaunchFacts DEF KnownIsTrue
  <2> QED
    BY <1>2, <1>3, <2>1, <2>2, <2>3, LaunchFacts DEF CleanByStep, OutOfReach
<1> QED
  BY <1>1, <1>5, <1>6, <1>7 DEF LaunchInv

\* A Studio that did nothing has gone on.
LEMMA NothingDone ==
  ASSUME NEW n \in Tries, launched'[n] = launched[n], opened' \ {n} = opened \ {n},
         n \in opened' => n \in opened
  PROVE  GoesOn(n)
BY DEF GoesOn

\* The script goes on, without Studio.
LEMMA ScriptGoesOn ==
  ASSUME LaunchInv, NEW n \in Tries,
         BeginScript(n) \/ ReportRunning(n) \/ ReportReady(n) \/ ReportClosed(n) \/ ReportFailure(n)
  PROVE  GuestTypes' /\ ScriptsAreTrue' /\ LockedWhileOpen' /\ \A m \in Tries : GoesOn(m)
<1>1. UNCHANGED <<launched, opened>> /\ GuestTypes
  BY DEF BeginScript, ReportRunning, ReportReady, ReportClosed, ReportFailure, LaunchInv,
         LaunchTypes, GuestTypes
<1>2. \A m \in Tries : GoesOn(m)
  BY <1>1 DEF GoesOn
<1>3. LockedWhileOpen'
  BY <1>1 DEF LaunchInv, LockedWhileOpen, WithWindow
<1>4. PICK to \in ScriptStates : /\ scripts' = [scripts EXCEPT ![n] = to]
                                 /\ launched[n] = "none" => to \in {"absent", "begun", "over"}
  <2>1. CASE BeginScript(n)
    BY <2>1 DEF BeginScript, Script, ScriptStates
  <2>2. CASE ReportRunning(n)
    BY <2>2 DEF ReportRunning, Script, ScriptStates, LaunchInv, ScriptsAreTrue
  <2>3. CASE ReportReady(n)
    BY <2>3 DEF ReportReady, Script, ScriptStates, WithWindow
  <2>4. CASE ReportClosed(n)
    BY <2>4 DEF ReportClosed, Script, ScriptStates
  <2>5. CASE ReportFailure(n)
    BY <2>5 DEF ReportFailure, Script, ScriptStates
  <2> QED
    BY <2>1, <2>2, <2>3, <2>4, <2>5
<1>5. /\ scripts' \in [Tries -> ScriptStates]
      /\ \A m \in Tries : launched'[m] = "none" => scripts'[m] \in {"absent", "begun", "over"}
  BY <1>1, <1>4 DEF GuestTypes, LaunchInv, ScriptsAreTrue
<1>6. /\ launchReport' \in LaunchReports
      /\ \A m \in Tries : launchReport'.by = m =>
           /\ launchReport'.state = "running" => launched[m] # "none"
           /\ launchReport'.state = "ready" => launched[m] \in {"ready", "child", "gone"}
           /\ launchReport'.state = "closed" => launched[m] = "gone"
  <2>1. CASE BeginScript(n)
    BY <1>1, <2>1 DEF BeginScript, GuestTypes, LaunchInv, ScriptsAreTrue
  <2>2. CASE ReportRunning(n)
    <3>1. launched[n] # "none" /\ launchReport' = [by |-> n, state |-> "running"]
      BY <2>2 DEF ReportRunning, Reported, Script, LaunchInv, ScriptsAreTrue
    <3> QED
      BY <3>1 DEF LaunchReports
  <2>3. CASE ReportReady(n)
    <3>1. launched[n] \in {"ready", "child"} /\ launchReport' = [by |-> n, state |-> "ready"]
      BY <2>3 DEF ReportReady, Reported, WithWindow
    <3> QED
      BY <3>1 DEF LaunchReports
  <2>4. CASE ReportClosed(n)
    <3>1. launched[n] = "gone" /\ launchReport' = [by |-> n, state |-> "closed"]
      BY <2>4 DEF ReportClosed, Reported
    <3> QED
      BY <3>1 DEF LaunchReports
  <2>5. CASE ReportFailure(n)
    <3>1. launchReport' = [by |-> n, state |-> "failed"]
      BY <2>5 DEF ReportFailure, Reported
    <3> QED
      BY <3>1 DEF LaunchReports
  <2> QED
    BY <2>1, <2>2, <2>3, <2>4, <2>5
<1>7. GuestTypes' /\ ScriptsAreTrue'
  BY <1>1, <1>5, <1>6 DEF GuestTypes, ScriptsAreTrue
<1> QED
  BY <1>2, <1>3, <1>7

\* Studio goes on, started by its script or by itself.
LEMMA StudioGoesOn ==
  ASSUME LaunchInv, NEW n \in Tries, StartStudio(n) \/ HandOver(n) \/ ShowWindow(n)
  PROVE  GuestTypes' /\ ScriptsAreTrue' /\ LockedWhileOpen' /\ \A m \in Tries : GoesOn(m)
<1>1. GuestTypes /\ launchReport' = launchReport
  BY DEF StartStudio, HandOver, ShowWindow, LaunchInv, LaunchTypes, GuestTypes
<1>2. PICK to \in StudioStates :
        /\ launched' = [launched EXCEPT ![n] = to] /\ to # "none"
        /\ <<launched[n], to>> \in {<<"none", "starting">>, <<"starting", "handed">>,
                                    <<"starting", "ready">>, <<"handed", "child">>}
  BY DEF StartStudio, HandOver, ShowWindow, Studio, StudioStates
<1>3. launched' \in [Tries -> StudioStates] /\ launched'[n] = to
      /\ \A m \in Tries \ {n} : launched'[m] = launched[m]
  BY <1>1, <1>2 DEF GuestTypes
<1>4. scripts' \in [Tries -> ScriptStates] /\ \A m \in Tries \ {n} : scripts'[m] = scripts[m]
  BY <1>1 DEF StartStudio, HandOver, ShowWindow, Script, GuestTypes, ScriptStates
<1>5. opened' \subseteq Tries /\ opened \subseteq opened' /\ opened' \subseteq opened \union {n}
      /\ (to \in {"ready", "child"} => n \in opened')
  BY <1>1, <1>2 DEF StartStudio, HandOver, ShowWindow, Studio, GuestTypes
<1>6. GuestTypes'
  BY <1>1, <1>3, <1>4, <1>5 DEF GuestTypes
<1>7. ScriptsAreTrue'
  BY <1>1, <1>2, <1>3, <1>4 DEF LaunchInv, ScriptsAreTrue
<1>8. LockedWhileOpen'
  BY <1>3, <1>5 DEF LaunchInv, LockedWhileOpen, WithWindow
<1>9. \A m \in Tries : GoesOn(m)
  BY <1>2, <1>3, <1>5 DEF GoesOn
<1> QED
  BY <1>6, <1>7, <1>8, <1>9

\* Studio ends, by its user or by a crash.
LEMMA StudioEnding ==
  ASSUME LaunchInv, NEW n \in Tries, StudioEnds(n)
  PROVE  GuestTypes' /\ ScriptsAreTrue' /\ LockedWhileOpen' /\ \A m \in Tries : GoesOn(m)
<1>1. /\ launched[n] # "none" /\ launched' = [launched EXCEPT ![n] = "gone"]
      /\ UNCHANGED <<scripts, launchReport>> /\ opened' \subseteq opened
      /\ opened \ {n} \subseteq opened'
  BY DEF StudioEnds, Alive
<1>2. /\ ScriptsAreTrue' /\ LockedWhileOpen' /\ launched' \in [Tries -> StudioStates]
      /\ scripts' \in [Tries -> ScriptStates] /\ launchReport' \in LaunchReports
      /\ opened' \subseteq Tries
      /\ launched'[n] = "gone" /\ \A m \in Tries \ {n} : launched'[m] = launched[m]
  BY <1>1, GoneKeeps
<1> QED
  BY <1>1, <1>2 DEF GuestTypes, GoesOn

\* Whatever the guest does.
LEMMA GuestKeepsLaunch == LaunchInv /\ GuestOfLaunch => LaunchInv'
<1> SUFFICES ASSUME LaunchInv, GuestOfLaunch PROVE LaunchInv'
  OBVIOUS
<1>1. UNCHANGED <<drive, studioCall, rdp, held, runtimeOf, remembered>>
  BY DEF GuestOfLaunch, hostVarsOfLaunch
<1>2. PICK n \in Tries :
        \/ BeginScript(n) \/ StartStudio(n) \/ ReportRunning(n) \/ ReportReady(n)
        \/ ReportClosed(n) \/ ReportFailure(n) \/ HandOver(n) \/ ShowWindow(n) \/ StudioEnds(n)
  BY DEF GuestOfLaunch
<1>3. GuestTypes' /\ ScriptsAreTrue' /\ LockedWhileOpen' /\ \A m \in Tries : GoesOn(m)
  BY <1>2, ScriptGoesOn, StudioGoesOn, StudioEnding
<1> QED
  BY <1>1, <1>3, GuestGoesOn

\* A step that changes nothing of the launch.
LEMMA LaunchStutters == LaunchInv /\ UNCHANGED launchVars => LaunchInv'
<1> SUFFICES ASSUME LaunchInv, UNCHANGED launchVars PROVE LaunchInv'
  OBVIOUS
<1>1. GuestTypes' /\ ScriptsAreTrue' /\ LockedWhileOpen' /\ \A m \in Tries : GoesOn(m)
  BY DEF launchVars, LaunchInv, LaunchTypes, GuestTypes, ScriptsAreTrue, LockedWhileOpen,
         WithWindow, GoesOn
<1>2. UNCHANGED <<drive, studioCall, rdp, held, runtimeOf, remembered>>
  BY DEF launchVars
<1> QED
  BY <1>1, <1>2, GuestGoesOn

-----------------------------------------------------------------------------
\* The inductive invariant of the launch.
LEMMA LaunchHolds == LaunchSpec => []LaunchInv
<1>1. LaunchInv /\ [LaunchNext]_launchVars => LaunchInv'
  BY PreparingKeeps, ConnectKeepsLaunch, ReportRead, GivingUp, AbortKeeps, ReleaseKeeps,
     AnsweringKeeps, RememberKeeps, RegisterKeeps, StoppingKeeps, RecoveryKeeps, UnlockKeeps,
     GuestKeepsLaunch, LaunchStutters, Zenon
     DEF LaunchNext
<1> QED
  BY <1>1, LaunchStart, PTL DEF LaunchSpec

\* The types of the launch, of its connections and of what it left in the guest.
THEOREM LaunchTypesHold == LaunchSpec => []LaunchTypeOK
<1>1. LaunchInv => LaunchTypeOK
  BY DEF LaunchInv, LaunchTypes, LaunchTypeOK, LaunchCalls, LaunchSteps, LaunchReports,
         StudioStates, ScriptStates
<1> QED
  BY <1>1, LaunchHolds, PTL

\* What a launch answers is true of what it leaves: one that may be repeated has left no
\* connection, client, Studio, lock or Runtime of its own, one that is not known to have failed
\* keeps all of them, and no lock is taken from a Studio that has the project open.
THEOREM LaunchAnswers == LaunchSpec => []LaunchAnswersForItsStudio
<1>1. LaunchInv => RetryIsClean
  <2> SUFFICES ASSUME LaunchInv, IsAt("failed"), studioCall.retry PROVE RetryIsClean
    BY DEF RetryIsClean
  <2>1. CASE studioCall.answer # 0
    BY <2>1, LaunchFacts DEF CleanByStep, RetryIsClean, Alive, IsAt
  <2>2. CASE studioCall.answer = 0
    BY <2>2, LaunchFacts DEF CleanByStep, RetryIsClean, OutOfReach, IsAt
  <2> QED
    BY <2>1, <2>2
<1>2. LaunchInv => OwnerIsKept
  BY LaunchFacts DEF HeldByStep, OwnerIsKept
<1>3. LaunchInv => LaunchAnswersForItsStudio
  BY <1>1, <1>2 DEF LaunchAnswersForItsStudio, LaunchInv
<1> QED
  BY <1>3, LaunchHolds, PTL
=============================================================================

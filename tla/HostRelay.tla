------------------------------ MODULE HostRelay ------------------------------
(***************************************************************************)
(* The host-service relay of one Runtime (winboat/host_service.rs).  Each  *)
(* start command may spawn a keeper, a process that holds the flock of the *)
(* Runtime for its whole life, has a helper launched in the guest by the   *)
(* Studio session, and then serves a socket one request at a time.  Status *)
(* commands of the Runtime hold the VM shared while they ask every relay;  *)
(* the stop of a relay closes Studio and stops the Runtime, which takes    *)
(* the VM exclusively and gives up after three seconds.                    *)
(*                                                                         *)
(* A start and the keeper it may spawn share a name; a relay and its       *)
(* record are known by that name, too.                                     *)
(***************************************************************************)
EXTENDS Naturals, FiniteSets

CONSTANTS Relays,      \* start commands with their keepers
          Askers,      \* status commands of the Runtime
          RelayStops   \* stop commands of a relay

ASSUME RelayAssumption == Askers \cap RelayStops = {}

VARIABLES
  launch,    \* the step of each start command
  relay,     \* the step of each keeper
  seen,      \* the Runtime's recorded state, as the keeper read it for a stop
  relayRec,  \* the record file of each relay
  accepts,   \* the acceptances written to the keepers' pipes
  client,    \* each status and stop command: step, relay asked, relays to ask
  guest      \* Studio runs; the Runtime has a record that can be read and is not stopped

relayVars == <<launch, relay, seen, relayRec, accepts, client, guest>>

RelayClients == Askers \cup RelayStops
LiveSteps == {"locked", "bound", "offered", "serving", "closing", "leaving"}
ListeningSteps == LiveSteps \ {"locked"}
NobodyAsked == [at |-> "idle", of |-> {}, todo |-> {}]

RelayTypeOK ==
  /\ launch \in [Relays -> {"idle", "spawned", "accepting", "ok", "reused", "failed", "died"}]
  /\ relay \in [Relays -> LiveSteps \cup {"none", "ended", "killed"}]
  /\ seen \in [Relays -> BOOLEAN]
  /\ relayRec \in [Relays -> {"none", "ready", "stopped", "interrupted"}]
  /\ accepts \subseteq Relays
  /\ client \in [RelayClients -> [at : {"idle", "listing", "asking", "taken", "done", "over", "refused"},
                             of : SUBSET Relays, todo : SUBSET Relays]]
  /\ guest \in [studio : BOOLEAN, active : BOOLEAN]

RelayInit ==
  /\ launch = [k \in Relays |-> "idle"] /\ relay = [k \in Relays |-> "none"]
  /\ seen = [k \in Relays |-> FALSE]
  /\ relayRec = [k \in Relays |-> "none"] /\ accepts = {}
  /\ client = [c \in RelayClients |-> NobodyAsked]
  /\ guest = [studio |-> TRUE, active |-> TRUE]

RelayGoes(k, step) == relay' = [relay EXCEPT ![k] = step]
LaunchGoes(k, step) == launch' = [launch EXCEPT ![k] = step]
ClientGoes(c, step, of, todo) == client' = [client EXCEPT ![c] = [at |-> step, of |-> of, todo |-> todo]]
Records(k, state) == relayRec' = [relayRec EXCEPT ![k] = state]

\* The VM is held shared by every status command that has begun.
SharedHeld == \E a \in Askers : client[a].at \in {"listing", "asking"}
Listed == {k \in Relays : relayRec[k] # "none"}
clientVars == <<seen, client, guest>>

-----------------------------------------------------------------------------
(* host_service::start *)

\* The list asks every relay, and waits for those that do not serve yet; a
\* relay without a record is not in it.
StartLists(k) ==
  /\ launch[k] = "idle"
  /\ \A j \in Listed : relay[j] \in ListeningSteps => relay[j] = "serving"
  /\ LaunchGoes(k, IF \E j \in Listed : relay[j] = "serving" THEN "reused" ELSE "spawned")
  /\ UNCHANGED <<relay, relayRec, accepts, clientVars>>

\* One relay that does not answer fails the whole start.
StartUnanswered(k) ==
  /\ launch[k] = "idle" /\ \E j \in Listed : relay[j] \in ListeningSteps
  /\ LaunchGoes(k, "failed")
  /\ UNCHANGED <<relay, relayRec, accepts, clientVars>>

StartAccepts(k) ==
  /\ launch[k] = "spawned" /\ relay[k] = "offered"
  /\ LaunchGoes(k, "accepting") /\ accepts' = accepts \cup {k}
  /\ UNCHANGED <<relay, relayRec, clientVars>>

StartIsOk(k) ==
  /\ launch[k] = "accepting" /\ LaunchGoes(k, "ok")
  /\ UNCHANGED <<relay, relayRec, accepts, clientVars>>

KilledBy(k) == IF relay[k] \in LiveSteps \cup {"none"} THEN "killed" ELSE relay[k]

\* Mutant: the keeper is taken for accepted before the write is flushed.
StartEndsEarly(k) ==
  /\ launch[k] \in {"spawned", "accepting"}
  /\ LaunchGoes(k, "failed")
  /\ IF launch[k] = "spawned" THEN RelayGoes(k, KilledBy(k)) ELSE UNCHANGED relay
  /\ UNCHANGED <<relayRec, accepts, clientVars>>

\* The keeper reports an error, the minute passes, the command is cancelled:
\* PendingChild kills the keeper.
StartEnds(k) ==
  /\ launch[k] \in {"spawned", "accepting"}
  /\ LaunchGoes(k, "failed") /\ RelayGoes(k, KilledBy(k))
  /\ UNCHANGED <<relayRec, accepts, clientVars>>

StarterDies(k) ==
  /\ launch[k] \in {"spawned", "accepting"} /\ LaunchGoes(k, "died")
  /\ UNCHANGED <<relay, relayRec, accepts, clientVars>>

-----------------------------------------------------------------------------
(* keeper *)

\* Mutant: the lock is let go of when the relay serves.
KeeperLocksBriefly(k) ==
  /\ launch[k] \in {"spawned", "died"} /\ relay[k] = "none"
  /\ RelayGoes(k, IF guest.active /\ \A j \in Relays : relay[j] \notin LiveSteps \ {"serving"}
                    THEN "locked" ELSE "ended")
  /\ UNCHANGED <<launch, relayRec, accepts, clientVars>>

\* The flock of the Runtime, and a look at the Runtime.
KeeperLocks(k) ==
  /\ launch[k] \in {"spawned", "died"} /\ relay[k] = "none"
  /\ RelayGoes(k, IF guest.active /\ \A j \in Relays : relay[j] \notin LiveSteps
                    THEN "locked" ELSE "ended")
  /\ UNCHANGED <<launch, relayRec, accepts, clientVars>>

\* The socket is bound; the Studio session launches the helper in the guest,
\* which takes the VM exclusively.
KeeperPrepares(k) ==
  /\ relay[k] = "locked" /\ guest.studio /\ guest.active /\ ~SharedHeld
  /\ RelayGoes(k, "bound")
  /\ UNCHANGED <<launch, relayRec, accepts, clientVars>>

\* The helper's listener answers: the record is saved, then the start hears.
KeeperOffers(k) ==
  /\ relay[k] = "bound"
  /\ RelayGoes(k, "offered") /\ Records(k, "ready")
  /\ UNCHANGED <<launch, accepts, clientVars>>

KeeperAccepted(k) ==
  /\ relay[k] = "offered" /\ k \in accepts
  /\ RelayGoes(k, "serving")
  /\ UNCHANGED <<launch, relayRec, accepts, clientVars>>

\* An error before the relay serves ends the keeper; the record stays.
KeeperFails(k) ==
  /\ relay[k] \in {"locked", "bound", "offered"}
  /\ RelayGoes(k, "ended")
  /\ UNCHANGED <<launch, relayRec, accepts, clientVars>>

KeeperKilled(k) ==
  /\ relay[k] \in LiveSteps /\ RelayGoes(k, "killed")
  /\ UNCHANGED <<launch, relayRec, accepts, clientVars>>

\* The poll finds the Runtime stopped; the helper is lost; a signal arrives.
KeeperLeaves(k) ==
  /\ relay[k] = "serving"
  /\ \/ ~guest.active /\ Records(k, "stopped")
     \/ Records(k, "interrupted")
  /\ RelayGoes(k, "ended")
  /\ UNCHANGED <<launch, accepts, clientVars>>

-----------------------------------------------------------------------------
(* stop_dependency, in the keeper *)

StopTaken(k, c) ==
  /\ relay[k] = "serving" /\ c \in RelayStops /\ client[c].at = "asking" /\ client[c].of = {k}
  /\ RelayGoes(k, "closing")
  /\ seen' = [seen EXCEPT ![k] = guest.active]
  /\ ClientGoes(c, "taken", {k}, {})
  /\ UNCHANGED <<launch, relayRec, accepts, guest>>

ServedBy(k) == {c \in RelayStops : client[c].at = "taken" /\ client[c].of = {k}}
StopAnswered(k, step) ==
  client' = [c \in RelayClients |-> IF c \in ServedBy(k) THEN [client[c] EXCEPT !.at = step] ELSE client[c]]

\* Studio exits; its own keeper stops the Runtime on the way, if the VM is free
\* and nothing fails, and says that Studio stopped either way.
StudioConfirms(k) ==
  /\ relay[k] = "closing" /\ guest.studio
  /\ RelayGoes(k, "leaving")
  /\ \/ guest' = [studio |-> FALSE, active |-> guest.active]
     \/ ~SharedHeld /\ guest' = [studio |-> FALSE, active |-> FALSE]
  /\ UNCHANGED <<launch, seen, relayRec, accepts, client>>

\* Mutant: a Studio session that cannot be asked is taken for stopped.
StudioRefusesNot(k) ==
  /\ relay[k] = "closing"
  /\ RelayGoes(k, "leaving") /\ UNCHANGED client
  /\ UNCHANGED <<launch, seen, relayRec, accepts, guest>>

\* A save dialog stays open, or nobody is there to be asked.
StudioRefuses(k) ==
  /\ relay[k] = "closing"
  /\ RelayGoes(k, "serving") /\ StopAnswered(k, "refused")
  /\ UNCHANGED <<launch, seen, relayRec, accepts, guest>>

\* Mutant: what the Studio session did to the Runtime is relied on.
RuntimeStopsUnasked(k) ==
  /\ relay[k] = "leaving"
  /\ Records(k, "stopped") /\ RelayGoes(k, "ended") /\ StopAnswered(k, "done")
  /\ UNCHANGED <<launch, seen, accepts, guest>>

\* runtime::stop, unless the record already said stopped; then the streams
\* end, the record is saved and the client is answered.
RuntimeStops(k) ==
  /\ relay[k] = "leaving"
  /\ seen[k] => ~SharedHeld
  /\ guest' = [guest EXCEPT !.active = @ /\ ~seen[k]]
  /\ Records(k, "stopped") /\ RelayGoes(k, "ended") /\ StopAnswered(k, "done")
  /\ UNCHANGED <<launch, seen, accepts>>

\* The VM is busy for three seconds, or the stop fails: the relay stays.
RuntimeBusy(k) ==
  /\ relay[k] = "leaving" /\ seen[k]
  /\ RelayGoes(k, "serving") /\ StopAnswered(k, "refused")
  /\ UNCHANGED <<launch, seen, relayRec, accepts, guest>>

-----------------------------------------------------------------------------
(* inspect and list *)

\* refresh, under the shared lease of a status command.
AskBegins(a) ==
  /\ a \in Askers /\ client[a].at = "idle"
  /\ ClientGoes(a, "listing", {}, Listed)
  /\ UNCHANGED <<launch, relay, seen, relayRec, accepts, guest>>

StopBegins(s, k) ==
  /\ s \in RelayStops /\ client[s].at = "idle" /\ relayRec[k] # "none"
  /\ ClientGoes(s, "listing", {}, {k})
  /\ UNCHANGED <<launch, relay, seen, relayRec, accepts, guest>>

\* A record that says stopped is the answer, to a stop as well; so is a socket
\* nobody listens on.
Ask(c, k) ==
  /\ client[c].at = "listing" /\ k \in client[c].todo
  /\ IF relayRec[k] = "stopped" \/ relay[k] \notin ListeningSteps
       THEN IF c \in Askers THEN ClientGoes(c, "listing", {}, client[c].todo \ {k})
                            ELSE ClientGoes(c, "over", {}, {})
       ELSE ClientGoes(c, "asking", {k}, client[c].todo \ {k})
  /\ UNCHANGED <<launch, relay, seen, relayRec, accepts, guest>>

\* A status is answered between two requests; the end of the keeper is an
\* error, which ends the whole list.
Answered(c) ==
  /\ \/ /\ c \in Askers /\ client[c].at = "asking" /\ \E k \in client[c].of : relay[k] = "serving"
        /\ ClientGoes(c, "listing", {}, client[c].todo)
     \/ /\ client[c].at \in {"asking", "taken"} /\ \A k \in client[c].of : relay[k] \notin LiveSteps
        /\ ClientGoes(c, "refused", {}, {})
     \/ /\ c \in Askers /\ client[c].at = "listing" /\ client[c].todo = {}
        /\ ClientGoes(c, "done", {}, {})
  /\ UNCHANGED <<launch, relay, seen, relayRec, accepts, guest>>

-----------------------------------------------------------------------------
(* The user closes Studio, or stops the Runtime, or its record is lost. *)

StudioCloses ==
  /\ guest.studio /\ guest' = [guest EXCEPT !.studio = FALSE]
  /\ UNCHANGED <<launch, relay, seen, relayRec, accepts, client>>

RuntimeIsStopped ==
  /\ guest.active /\ ~SharedHeld /\ guest' = [guest EXCEPT !.active = FALSE]
  /\ UNCHANGED <<launch, relay, seen, relayRec, accepts, client>>

-----------------------------------------------------------------------------
LaunchStep(k) == StartLists(k) \/ StartUnanswered(k) \/ StartAccepts(k) \/ StartIsOk(k)
                 \/ StartEnds(k) \/ StarterDies(k)
RelayStep(k) == KeeperLocks(k) \/ KeeperPrepares(k) \/ KeeperOffers(k) \/ KeeperAccepted(k)
                \/ KeeperFails(k) \/ KeeperKilled(k) \/ KeeperLeaves(k)
RelayStopStep(k) == (\E c \in RelayStops : StopTaken(k, c)) \/ StudioConfirms(k) \/ StudioRefuses(k)
                    \/ RuntimeStops(k) \/ RuntimeBusy(k)
ClientStep(c) == AskBegins(c) \/ Answered(c) \/ \E k \in Relays : StopBegins(c, k) \/ Ask(c, k)

RelayNext ==
  \/ \E k \in Relays : LaunchStep(k) \/ RelayStep(k) \/ RelayStopStep(k)
  \/ \E c \in RelayClients : ClientStep(c)
  \/ StudioCloses \/ RuntimeIsStopped

RelaySpec == RelayInit /\ [][RelayNext]_relayVars

-----------------------------------------------------------------------------
(* What is checked. *)

\* A relay is recorded as stopped only for a Runtime that is stopped: neither a
\* Studio session that refuses nor a busy VM ends it.
StoppedWithItsRuntime == \A k \in Relays : relayRec[k] = "stopped" => ~guest.active

\* Two starts that both saw no relay leave one: no two keepers of the Runtime
\* ever listen, whatever was killed.
OneRelay == Cardinality({k \in Relays : relay[k] \in ListeningSteps}) <= 1

\* A start that failed leaves no relay behind that serves.
FailedStartServesNothing ==
  \A k \in Relays : launch[k] = "failed" => relay[k] \notin {"serving", "closing", "leaving"}

\* The connections to the database end before Studio does only if the Runtime
\* was stopped on its own, the relay was killed or lost its helper: a stop that
\* was answered as done has seen Studio go first.
StopSawStudioGo ==
  \A c \in RelayStops : client[c].at = "done" => ~guest.studio /\ ~guest.active

\* A Runtime has one relay, somebody knows of it, and they end together.
OneRelayToTheEnd == OneRelay /\ FailedStartServesNothing /\ StoppedWithItsRuntime /\ StopSawStudioGo
=============================================================================

---------------------------- MODULE UiCoordination ----------------------------
(***************************************************************************)
(* Callers that share the authenticated channel of a Studio session        *)
(* (ui_automation/coordination.rs, cli.rs, cli/ui.rs).  The keeper of a    *)
(* session accepts connections and reserves their places in a gate that    *)
(* grants one turn at a time in accept order; a job with its turn takes    *)
(* the desktop scope if it needs the foreground, then the lease of the VM. *)
(* A turn is a counted reference: whoever drops the last one, be it a      *)
(* caller that has gone away, passes it on.  The application itself can own *)
(* a session; its commands then meet in the same gate without a keeper.    *)
(***************************************************************************)
EXTENDS Naturals, Sequences, FiniteSets

CONSTANTS Jobs,      \* the requests that are ever made
          Sessions,  \* Studio sessions, each with its keeper
          SessionOf, \* the session a job addresses
          ClassOf,   \* its class: "observation", "session" or "desktop"
          Owned,     \* the session the application owns itself, if any
          History    \* HISTORY, how many jobs are remembered

ASSUME UiAssumption ==
  /\ IsFiniteSet(Jobs)
  /\ SessionOf \in [Jobs -> Sessions]
  /\ ClassOf \in [Jobs -> {"observation", "session", "desktop"}]
  /\ Owned \in SUBSET Sessions
  /\ \A s, t \in Owned : s = t
  /\ History \in Nat \ {0}

VARIABLES pc,       \* where the task of a job is
          place,    \* when a job joined the waiters of its session, 0 before that
          entry,    \* the entry of a job in the waiters of its session's gate
          chan,     \* the channel a turn is sent through to the job
          busy,     \* the gate of a session has given its turn away
          orphan,   \* a turn nobody received, about to be dropped
          desktop,  \* who holds the desktop scope
          vm,       \* who holds the lease of the VM
          history,  \* the jobs a keeper remembers
          shown,    \* the state it remembers them in
          running,  \* how many jobs it believes are running
          keeper    \* "up", "draining" or "down"

gate == <<entry, chan, busy, orphan>>
registry == <<history, shown, running>>
vars == <<pc, place, gate, desktop, vm, registry, keeper>>

InSession(s) == {j \in Jobs : SessionOf[j] = s}

Init ==
  /\ pc = [j \in Jobs |-> "idle"]
  /\ place = [j \in Jobs |-> 0]
  /\ entry = [j \in Jobs |-> "none"]
  /\ chan = [j \in Jobs |-> "closed"]
  /\ busy = [s \in Sessions |-> FALSE]
  /\ orphan = [s \in Sessions |-> FALSE]
  /\ desktop = {}
  /\ vm = {}
  /\ history = [s \in Sessions |-> <<>>]
  /\ shown = [j \in Jobs |-> "none"]
  /\ running = [s \in Sessions |-> 0]
  /\ keeper = [s \in Sessions |-> "up"]

Go(j, from, to) == pc[j] = from /\ pc' = [pc EXCEPT ![j] = to]

-----------------------------------------------------------------------------
(* The gate of a session.                                                  *)

\* Mutant: a request that is still being read is overtaken.
FrontFilled(e, j) ==
  /\ e[j] = "filled"
  /\ \A k \in InSession(SessionOf[j]) : e[k] = "filled" => place[j] <= place[k]

\* Job j is the first of the waiters e of its session.
Front(e, j) ==
  /\ e[j] # "none"
  /\ \A k \in InSession(SessionOf[j]) : e[k] # "none" => place[j] <= place[k]

\* pump: with the waiters e, the channels c and the turn at home, the turn
\* goes to the first waiter, unless its request is still being read.  A turn
\* sent to a receiver that is gone comes back, and is dropped after the mutex
\* was released.
Grant(s, e, c) ==
  \E j \in InSession(s) :
    /\ Front(e, j) /\ e[j] = "filled"
    /\ entry' = [e EXCEPT ![j] = "none"]
    /\ busy' = [busy EXCEPT ![s] = TRUE]
    /\ \/ c[j] = "open" /\ chan' = [c EXCEPT ![j] = "turn"] /\ orphan' = [orphan EXCEPT ![s] = FALSE]
       \/ c[j] = "closed" /\ chan' = c /\ orphan' = [orphan EXCEPT ![s] = TRUE]

Pump(s, e, c) ==
  \/ Grant(s, e, c)
  \/ /\ \A j \in InSession(s) : Front(e, j) => e[j] # "filled"
     /\ entry' = e /\ chan' = c
     /\ busy' = [busy EXCEPT ![s] = FALSE]
     /\ orphan' = [orphan EXCEPT ![s] = FALSE]

\* The waiters change while the turn may be out.
Update(s, e, c) ==
  IF busy[s] THEN entry' = e /\ chan' = c /\ UNCHANGED <<busy, orphan>>
  ELSE Pump(s, e, c)

-----------------------------------------------------------------------------
(* The registry of the keeper.                                             *)

Remembered(j) == \E i \in DOMAIN history[SessionOf[j]] : history[SessionOf[j]][i] = j

Remember(j) ==
  LET s == SessionOf[j]
      longer == Append(history[s], j)
  IN /\ history' = [history EXCEPT ![s] = IF Len(longer) > History THEN Tail(longer) ELSE longer]
     /\ shown' = [shown EXCEPT ![j] = "queued"]
     /\ UNCHANGED running

\* Mutant: a job that ends is counted down, running or not.
CountedDown(j, state) ==
  LET n == running[SessionOf[j]]
  IN CASE shown[j] = "queued" /\ state = "running" -> n + 1
       [] state # "running" -> n - 1
       [] OTHER -> n

\* record_state: what is not remembered changes nothing.
Counted(j, state) ==
  LET n == running[SessionOf[j]]
  IN CASE shown[j] = "queued" /\ state = "running" -> n + 1
       [] shown[j] = "running" /\ state # "running" /\ n > 0 -> n - 1
       [] OTHER -> n

Record(j, state) ==
  /\ UNCHANGED history
  /\ IF Remembered(j)
     THEN /\ running' = [running EXCEPT ![SessionOf[j]] = Counted(j, state)]
          /\ shown' = [shown EXCEPT ![j] = state]
     ELSE UNCHANGED <<running, shown>>

-----------------------------------------------------------------------------
(* The life of a job.                                                      *)

\* reserve, for a connection the keeper accepts in its one loop, or for a
\* command of the application.
Accept(j) ==
  /\ keeper[SessionOf[j]] = "up"
  /\ Go(j, "idle", "reserved")
  /\ place' = [place EXCEPT ![j] = 1 + Cardinality({k \in InSession(SessionOf[j]) : place[k] > 0})]
  /\ entry' = [entry EXCEPT ![j] = "reserved"]
  /\ UNCHANGED <<chan, busy, orphan, desktop, vm, registry, keeper>>

\* Mutant: the reservation is taken out without a pump.
DropReservationOnly(j) ==
  /\ Go(j, "reserved", "done")
  /\ entry' = [entry EXCEPT ![j] = "none"]
  /\ UNCHANGED <<place, chan, busy, orphan, desktop, vm, registry, keeper>>

\* The connection turns out to be no UI request, or says nothing for too long.
DropReservation(j) ==
  /\ Go(j, "reserved", "done")
  /\ Update(SessionOf[j], [entry EXCEPT ![j] = "none"], chan)
  /\ UNCHANGED <<place, desktop, vm, registry, keeper>>

Enqueue(j) ==
  /\ Go(j, "reserved", "queued")
  /\ Update(SessionOf[j], [entry EXCEPT ![j] = "filled"], [chan EXCEPT ![j] = "open"])
  /\ Remember(j)
  /\ UNCHANGED <<place, desktop, vm, keeper>>

\* admit: the turn arrives.
Take(j) ==
  /\ pc[j] = "queued" /\ chan[j] = "turn"
  /\ chan' = [chan EXCEPT ![j] = "closed"]
  /\ \/ ClassOf[j] = "desktop" /\ Go(j, "queued", "desktop") /\ UNCHANGED registry
     \/ ClassOf[j] # "desktop" /\ Go(j, "queued", "entered") /\ Record(j, "running")
  /\ UNCHANGED <<place, entry, busy, orphan, desktop, vm, keeper>>

\* The deadline passes, or the caller closes its end; even if the turn has
\* just been sent.
GiveUp(j) ==
  /\ Go(j, "queued", "leaving")
  /\ UNCHANGED <<place, gate, desktop, vm, registry, keeper>>

\* Mutant: the caller that gives up frees the gate, whoever has the turn.
WithdrawTurn(j) ==
  /\ Go(j, "leaving", "dropping")
  /\ Pump(SessionOf[j], [entry EXCEPT ![j] = "none"], chan)
  /\ Record(j, "ended")
  /\ UNCHANGED <<place, desktop, vm, keeper>>

Withdraw(j) ==
  /\ Go(j, "leaving", "dropping")
  /\ Update(SessionOf[j], [entry EXCEPT ![j] = "none"], chan)
  /\ Record(j, "ended")
  /\ UNCHANGED <<place, desktop, vm, keeper>>

\* A command of the application is dropped while it waits: its entry stays
\* behind.
Vanish(j) ==
  /\ SessionOf[j] \in Owned
  /\ Go(j, "queued", "dropping")
  /\ UNCHANGED <<place, gate, desktop, vm, registry, keeper>>

\* Mutant: a turn in a dropped receiver is lost.
DropTicketOnly(j) ==
  /\ Go(j, "dropping", "done")
  /\ chan' = [chan EXCEPT ![j] = "closed"]
  /\ UNCHANGED <<place, entry, busy, orphan, desktop, vm, registry, keeper>>

\* The receiver is dropped, with the turn that may be in it.
DropTicket(j) ==
  /\ Go(j, "dropping", "done")
  /\ LET c == [chan EXCEPT ![j] = "closed"]
     IN IF chan[j] = "turn" THEN Pump(SessionOf[j], entry, c)
        ELSE chan' = c /\ UNCHANGED <<entry, busy, orphan>>
  /\ UNCHANGED <<place, desktop, vm, registry, keeper>>

\* The turn nobody received is dropped.
Unwind(s) ==
  /\ orphan[s]
  /\ Pump(s, entry, chan)
  /\ UNCHANGED <<pc, place, desktop, vm, registry, keeper>>

\* desktop_scope: polled until the deadline; a caller that goes away is not
\* noticed here.
TakeDesktop(j) ==
  /\ desktop = {}
  /\ Go(j, "desktop", "entered")
  /\ desktop' = {j}
  /\ Record(j, "running")
  /\ UNCHANGED <<place, gate, vm, keeper>>

DesktopBusy(j) ==
  /\ Go(j, "desktop", "released")
  /\ Record(j, "ended")
  /\ UNCHANGED <<place, gate, desktop, vm, keeper>>

\* Observations share the VM, everything else excludes others.
Shares(j, k) == ClassOf[j] = "observation" /\ ClassOf[k] = "observation"

TakeLease(j) ==
  /\ \A k \in vm : Shares(j, k)
  /\ Go(j, "entered", "running")
  /\ vm' = vm \cup {j}
  /\ UNCHANGED <<place, gate, desktop, registry, keeper>>

\* The lease is not to be had in time, or the request ends.
End(j) ==
  /\ Go(j, "entered", "finished") \/ Go(j, "running", "finished")
  /\ Record(j, "ended")
  /\ UNCHANGED <<place, gate, desktop, vm, keeper>>

\* Mutant: the scope outlives the turn.
ReleaseNothing(j) ==
  /\ Go(j, "finished", "released")
  /\ UNCHANGED <<place, gate, desktop, vm, registry, keeper>>

\* Entered is dropped field by field: the desktop first, then the turn, and
\* the lease around it last.
ReleaseDesktop(j) ==
  /\ Go(j, "finished", "released")
  /\ desktop' = desktop \ {j}
  /\ UNCHANGED <<place, gate, vm, registry, keeper>>

ReleaseTurn(j) ==
  /\ Go(j, "released", "closing")
  /\ Pump(SessionOf[j], entry, chan)
  /\ UNCHANGED <<place, desktop, vm, registry, keeper>>

ReleaseLease(j) ==
  /\ Go(j, "closing", "done")
  /\ vm' = vm \ {j}
  /\ UNCHANGED <<place, gate, desktop, registry, keeper>>

-----------------------------------------------------------------------------
(* The keeper.                                                             *)

\* stop, or the observed end of the Studio: nothing is accepted any more.
Stop(s) ==
  /\ s \notin Owned /\ keeper[s] = "up"
  /\ keeper' = [keeper EXCEPT ![s] = "draining"]
  /\ UNCHANGED <<pc, place, gate, desktop, vm, registry>>

\* Whatever its tasks held is gone with the process.
Exit(s) ==
  LET Gone(f, nothing) == [j \in Jobs |-> IF SessionOf[j] = s THEN nothing ELSE f[j]]
  IN /\ keeper' = [keeper EXCEPT ![s] = "down"]
     /\ pc' = Gone(pc, "done")
     /\ place' = Gone(place, 0)
     /\ entry' = Gone(entry, "none") /\ chan' = Gone(chan, "closed")
     /\ busy' = [busy EXCEPT ![s] = FALSE]
     /\ orphan' = [orphan EXCEPT ![s] = FALSE]
     /\ desktop' = desktop \ InSession(s) /\ vm' = vm \ InSession(s)
     /\ history' = [history EXCEPT ![s] = <<>>]
     /\ shown' = Gone(shown, "none")
     /\ running' = [running EXCEPT ![s] = 0]

\* wait_idle: no job runs, or three seconds have passed.
Drained(s) == keeper[s] = "draining" /\ running[s] = 0 /\ Exit(s)
TimedOut(s) == keeper[s] = "draining" /\ running[s] > 0 /\ Exit(s)
Crash(s) == keeper[s] = "up" /\ Exit(s)

\* What a job's task does by itself, and what only a deadline or a caller does.
Step(j) ==
  \/ DropReservation(j) \/ Enqueue(j) \/ Take(j) \/ Withdraw(j) \/ DropTicket(j)
  \/ TakeDesktop(j) \/ TakeLease(j) \/ End(j)
  \/ ReleaseDesktop(j) \/ ReleaseTurn(j) \/ ReleaseLease(j)
Abandon(j) == GiveUp(j) \/ Vanish(j) \/ DesktopBusy(j)
Keep(s) == Stop(s) \/ Drained(s) \/ TimedOut(s) \/ Crash(s)

Next == \/ \E j \in Jobs : Accept(j) \/ Step(j) \/ Abandon(j)
        \/ \E s \in Sessions : Unwind(s) \/ Keep(s)

Spec == Init /\ [][Next]_vars

\* Some task or drop that can go on does; no deadline, caller or keeper is
\* assumed to act.
Work == (\E j \in Jobs : Step(j)) \/ (\E s \in Sessions : Unwind(s))
FairSpec == Spec /\ WF_vars(Work)

-----------------------------------------------------------------------------
(* Properties.                                                             *)

\* Every variable has the type of the field it stands for.
TypeOK ==
  /\ pc \in [Jobs -> {"idle", "reserved", "queued", "leaving", "dropping", "desktop",
                      "entered", "running", "finished", "released", "closing", "done"}]
  /\ place \in [Jobs -> 0..Cardinality(Jobs)]
  /\ entry \in [Jobs -> {"none", "reserved", "filled"}]
  /\ chan \in [Jobs -> {"closed", "open", "turn"}]
  /\ busy \in [Sessions -> BOOLEAN]
  /\ orphan \in [Sessions -> BOOLEAN]
  /\ desktop \in SUBSET Jobs
  /\ vm \in SUBSET Jobs
  /\ \A s \in Sessions : Len(history[s]) <= History /\ \A i \in DOMAIN history[s] : history[s][i] \in Jobs
  /\ shown \in [Jobs -> {"none", "queued", "running", "ended"}]
  /\ running \in [Sessions -> 0..Cardinality(Jobs)]
  /\ keeper \in [Sessions -> {"up", "draining", "down"}]

\* The turn of its session is with job j, sent or received.
HasTurn(j) == chan[j] = "turn" \/ pc[j] \in {"desktop", "entered", "running", "finished", "released"}

\* A gate that gave its turn away has given it to one job, or the turn is on
\* its way home: Turn::drop neither frees a gate twice nor forgets to.
TurnAccounted ==
  \A s \in Sessions :
    LET out == Cardinality({j \in InSession(s) : HasTurn(j)}) + (IF orphan[s] THEN 1 ELSE 0)
    IN out = (IF busy[s] THEN 1 ELSE 0)

\* The jobs of a session take their turns in the order in which they joined
\* its waiters, which for a keeper is the order in which it accepted them,
\* however slowly a request is read.
AcceptOrder ==
  \A j, k \in Jobs :
    HasTurn(j) /\ entry[k] # "none" /\ SessionOf[k] = SessionOf[j]
      => place[j] < place[k]

\* A turn at home is not wanted by the first in line: no removal of an entry
\* leaves the next one waiting for a pump that never comes.
NoStall ==
  \A j \in Jobs : Front(entry, j) /\ ~busy[SessionOf[j]] => entry[j] = "reserved"

\* The jobs of a session take the turn in the order they were accepted in, and
\* none is left waiting for a turn that is at home.
LineMoves == AcceptOrder /\ NoStall

\* The desktop is held within the turn of the holder's session: the next job
\* of the session never finds its own predecessor on the desktop.
DesktopWithinTurn == \A j \in desktop : HasTurn(j)

\* The count the drain of a keeper looks at is the number of jobs that are
\* admitted and not done, as long as the history forgets none of them.
RunningIsCounted ==
  \A s \in Sessions :
    running[s] = Cardinality({j \in InSession(s) : pc[j] \in {"entered", "running"}})

\* A keeper and the desktop know who has been admitted: the desktop is held within a
\* turn, and the drain waits for the jobs that are at work, no less and no more.
AdmittedAreKnown == DesktopWithinTurn /\ RunningIsCounted

\* The line of a session moves in order, and what was let through is accounted for.
LineIsKept == LineMoves /\ AdmittedAreKnown

\* Again and again nothing is under way, without any deadline passing: turn,
\* desktop and lease are taken in one order by everybody, and given back.
EveryJobEnds == []<>(\A j \in Jobs : pc[j] \in {"idle", "done"})
=============================================================================

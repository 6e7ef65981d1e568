------------------------- MODULE UiCoordination_proofs -------------------------
(***************************************************************************)
(* A gate accounts for its turn, whatever the number of jobs and sessions. *)
(* The argument is about the turn as a token: of a session either one job  *)
(* holds it, or it is on its way home, or it is at home.  A job that waits *)
(* never holds it, so that a pump gives it to somebody new.                *)
(*                                                                         *)
(* LineInv adds the order: places grow with the line, who has the turn has *)
(* a smaller one than everybody in line, and a turn at home is wanted by   *)
(* nobody in front.  UiInv adds what the registry counts and who has the   *)
(* desktop and the lease; the count is that of the jobs at work as long as *)
(* the history forgets none of them (NoneForgotten).                       *)
(*                                                                         *)
(* The list of projects in the window shares nothing with the gates; its   *)
(* invariant WorkInv is at the end.                                        *)
(***************************************************************************)
EXTENDS UiCoordination, ProjectWorkspace, FiniteSetTheorems, SequenceTheorems, TLAPS

\* HasTurn, of given program counters and channels.
Held(p, c, j) == c[j] = "turn" \/ p[j] \in {"desktop", "entered", "running", "finished", "released"}

\* Only a job that waits has a channel, and a job in line has no turn.
Lined(p, e, c) ==
  /\ DOMAIN p = Jobs /\ DOMAIN e = Jobs /\ DOMAIN c = Jobs
  /\ \A j \in Jobs : c[j] # "closed" => p[j] \in {"queued", "leaving", "dropping"}
  /\ \A j \in Jobs : e[j] # "none" => ~Held(p, c, j)

\* The turn of session s is in one place.
Accounted(p, c, b, o, s) ==
  /\ \A j, k \in InSession(s) : Held(p, c, j) /\ Held(p, c, k) => j = k
  /\ \A j \in InSession(s) : Held(p, c, j) => b[s] /\ ~o[s]
  /\ o[s] => b[s]
  /\ b[s] => o[s] \/ \E j \in InSession(s) : Held(p, c, j)

\* The inductive invariant.
TurnInv(p, e, c, b, o) ==
  /\ Lined(p, e, c)
  /\ DOMAIN b = Sessions /\ DOMAIN o = Sessions
  /\ \A s \in Sessions : Accounted(p, c, b, o, s)

Inv == TurnInv(pc, entry, chan, busy, orphan)

\* In the beginning every turn is at home.
LEMMA TurnInit == Init => Inv
BY DEF Init, Inv, TurnInv, Lined, Accounted, Held, InSession

\* A pump of a turn at home gives it to one job, sends it round, or keeps it.
LEMMA PumpKeeps ==
  ASSUME NEW s \in Sessions, NEW p, NEW e, NEW c, Lined(p, e, c),
         DOMAIN busy = Sessions, DOMAIN orphan = Sessions,
         \A j \in InSession(s) : ~Held(p, c, j),
         \A t \in Sessions : t # s => Accounted(p, c, busy, orphan, t),
         Pump(s, e, c)
  PROVE  TurnInv(p, entry', chan', busy', orphan')
<1>1. CASE /\ entry' = e /\ chan' = c
           /\ busy' = [busy EXCEPT ![s] = FALSE]
           /\ orphan' = [orphan EXCEPT ![s] = FALSE]
  BY <1>1 DEF TurnInv, Lined, Accounted
<1>2. CASE Grant(s, e, c)
  <2>1. PICK j \in InSession(s) :
          /\ e[j] = "filled"
          /\ entry' = [e EXCEPT ![j] = "none"]
          /\ busy' = [busy EXCEPT ![s] = TRUE]
          /\ \/ c[j] = "open" /\ chan' = [c EXCEPT ![j] = "turn"] /\ orphan' = [orphan EXCEPT ![s] = FALSE]
             \/ c[j] = "closed" /\ chan' = c /\ orphan' = [orphan EXCEPT ![s] = TRUE]
    BY <1>2 DEF Grant
  <2>2. j \in Jobs /\ SessionOf[j] = s
    BY DEF InSession
  <2>3. CASE c[j] = "open" /\ chan' = [c EXCEPT ![j] = "turn"] /\ orphan' = [orphan EXCEPT ![s] = FALSE]
    <3>1. \A k \in Jobs : k # j => (Held(p, chan', k) <=> Held(p, c, k))
      BY <2>3, <2>2 DEF Held, Lined
    <3>2. Held(p, chan', j)
      BY <2>3, <2>2 DEF Held, Lined
    <3>3. Lined(p, entry', chan')
      BY <2>1, <2>2, <2>3, <3>1 DEF Lined
    <3>4. Accounted(p, chan', busy', orphan', s)
      BY <2>1, <2>2, <2>3, <3>1, <3>2 DEF Accounted, InSession
    <3>5. \A t \in Sessions : t # s => Accounted(p, chan', busy', orphan', t)
      BY <2>1, <2>2, <2>3, <3>1 DEF Accounted, InSession
    <3>. QED  BY <2>1, <2>3, <3>3, <3>4, <3>5 DEF TurnInv
  <2>4. CASE c[j] = "closed" /\ chan' = c /\ orphan' = [orphan EXCEPT ![s] = TRUE]
    <3>1. Lined(p, entry', chan')
      BY <2>1, <2>2, <2>4 DEF Lined
    <3>2. \A t \in Sessions : Accounted(p, chan', busy', orphan', t)
      BY <2>1, <2>2, <2>4 DEF Accounted, InSession
    <3>. QED  BY <2>1, <2>4, <3>1, <3>2 DEF TurnInv
  <2>. QED  BY <2>1, <2>3, <2>4
<1>. QED  BY <1>1, <1>2 DEF Pump

\* So does a change of the waiters, which pumps only while the turn is home.
LEMMA UpdateKeeps ==
  ASSUME NEW s \in Sessions, NEW p, NEW e, NEW c, TurnInv(p, e, c, busy, orphan), Update(s, e, c)
  PROVE  TurnInv(p, entry', chan', busy', orphan')
<1>1. CASE busy[s]
  BY <1>1 DEF Update, TurnInv
<1>2. CASE ~busy[s]
  <2>1. Pump(s, e, c)
    BY <1>2 DEF Update
  <2>2. \A j \in InSession(s) : ~Held(p, c, j)
    BY <1>2 DEF TurnInv, Accounted
  <2>. QED  BY <2>1, <2>2, PumpKeeps DEF TurnInv
<1>. QED  BY <1>1, <1>2

\* Every step keeps the account.
LEMMA TurnStep == Inv /\ [Next]_vars => Inv'
<1>. SUFFICES ASSUME Inv, [Next]_vars PROVE Inv'
  OBVIOUS
<1>. USE UiAssumption
<1>a. ASSUME NEW j \in Jobs PROVE SessionOf[j] \in Sessions
  OBVIOUS
<1>1. ASSUME NEW j \in Jobs, Accept(j) PROVE Inv'
  BY <1>1 DEF Accept, Go, Inv, TurnInv, Lined, Accounted, Held
<1>2. ASSUME NEW j \in Jobs, DropReservation(j) PROVE Inv'
  <2>1. TurnInv(pc', [entry EXCEPT ![j] = "none"], chan, busy, orphan)
    BY <1>2 DEF DropReservation, Go, Inv, TurnInv, Lined, Accounted, Held
  <2>. QED  BY <1>2, <1>a, <2>1, UpdateKeeps DEF DropReservation, Inv
<1>3. ASSUME NEW j \in Jobs, Enqueue(j) PROVE Inv'
  <2>1. TurnInv(pc', [entry EXCEPT ![j] = "filled"], [chan EXCEPT ![j] = "open"], busy, orphan)
    <3>1. pc[j] = "reserved" /\ pc' = [pc EXCEPT ![j] = "queued"]
      BY <1>3 DEF Enqueue, Go
    <3>2. \A k \in Jobs : Held(pc', [chan EXCEPT ![j] = "open"], k) <=> Held(pc, chan, k)
      BY <3>1 DEF Inv, TurnInv, Lined, Held
    <3>3. ~Held(pc, chan, j)
      BY <3>1 DEF Inv, TurnInv, Lined, Held
    <3>4. Lined(pc', [entry EXCEPT ![j] = "filled"], [chan EXCEPT ![j] = "open"])
      BY <3>1, <3>2, <3>3 DEF Inv, TurnInv, Lined
    <3>5. \A s \in Sessions : Accounted(pc', [chan EXCEPT ![j] = "open"], busy, orphan, s)
      BY <3>2 DEF Inv, TurnInv, Accounted, InSession
    <3>. QED  BY <3>4, <3>5 DEF Inv, TurnInv
  <2>. QED  BY <1>3, <1>a, <2>1, UpdateKeeps DEF Enqueue, Inv
<1>4. ASSUME NEW j \in Jobs, Take(j) PROVE Inv'
  <2>1. /\ pc[j] = "queued" /\ chan[j] = "turn"
        /\ \E to \in {"desktop", "entered"} : pc' = [pc EXCEPT ![j] = to]
        /\ chan' = [chan EXCEPT ![j] = "closed"] /\ UNCHANGED <<entry, busy, orphan>>
    BY <1>4 DEF Take, Go
  <2>2. \A k \in Jobs : Held(pc', chan', k) <=> Held(pc, chan, k)
    BY <2>1 DEF Inv, TurnInv, Lined, Held
  <2>3. Lined(pc', entry', chan')
    BY <2>1, <2>2 DEF Inv, TurnInv, Lined
  <2>4. \A s \in Sessions : Accounted(pc', chan', busy', orphan', s)
    BY <2>1, <2>2 DEF Inv, TurnInv, Accounted, InSession
  <2>. QED  BY <2>1, <2>3, <2>4 DEF Inv, TurnInv
<1>5. ASSUME NEW j \in Jobs, GiveUp(j) \/ Vanish(j) PROVE Inv'
  <2>1. PICK to \in {"leaving", "dropping"} : pc[j] = "queued" /\ pc' = [pc EXCEPT ![j] = to]
    BY <1>5 DEF GiveUp, Vanish, Go
  <2>2. UNCHANGED <<entry, chan, busy, orphan>>
    BY <1>5 DEF GiveUp, Vanish, gate
  <2>3. \A k \in Jobs : Held(pc', chan, k) <=> Held(pc, chan, k)
    BY <2>1 DEF Inv, TurnInv, Lined, Held
  <2>4. Lined(pc', entry, chan)
    BY <2>1, <2>3 DEF Inv, TurnInv, Lined
  <2>5. \A s \in Sessions : Accounted(pc', chan, busy, orphan, s)
    BY <2>3 DEF Inv, TurnInv, Accounted, InSession
  <2>. QED  BY <2>2, <2>4, <2>5 DEF Inv, TurnInv
<1>6. ASSUME NEW j \in Jobs, Withdraw(j) PROVE Inv'
  <2>1. TurnInv(pc', [entry EXCEPT ![j] = "none"], chan, busy, orphan)
    BY <1>6 DEF Withdraw, Go, Inv, TurnInv, Lined, Accounted, Held
  <2>. QED  BY <1>6, <1>a, <2>1, UpdateKeeps DEF Withdraw, Inv
<1>7. ASSUME NEW j \in Jobs, DropTicket(j) PROVE Inv'
  <2>. DEFINE c == [chan EXCEPT ![j] = "closed"]
  <2>1. pc[j] = "dropping" /\ pc' = [pc EXCEPT ![j] = "done"]
    BY <1>7 DEF DropTicket, Go
  <2>2. \A k \in Jobs : k # j => (Held(pc', c, k) <=> Held(pc, chan, k))
    BY <2>1 DEF Inv, TurnInv, Lined, Held
  <2>3. ~Held(pc', c, j)
    BY <2>1 DEF Inv, TurnInv, Lined, Held
  <2>4. Lined(pc', entry, c)
    BY <2>1, <2>2, <2>3 DEF Inv, TurnInv, Lined
  <2>5. CASE chan[j] = "turn"
    <3>1. Pump(SessionOf[j], entry, c)
      BY <1>7, <2>5 DEF DropTicket
    <3>2. Held(pc, chan, j)
      BY <2>5 DEF Held
    <3>3. \A k \in InSession(SessionOf[j]) : ~Held(pc', c, k)
      BY <1>a, <2>2, <2>3, <3>2 DEF Inv, TurnInv, Accounted, InSession
    <3>4. \A t \in Sessions : t # SessionOf[j] => Accounted(pc', c, busy, orphan, t)
      BY <2>2 DEF Inv, TurnInv, Accounted, InSession
    <3>. QED  BY <1>a, <2>4, <3>1, <3>3, <3>4, PumpKeeps DEF Inv, TurnInv
  <2>6. CASE chan[j] # "turn"
    <3>1. chan' = c /\ UNCHANGED <<entry, busy, orphan>>
      BY <1>7, <2>6 DEF DropTicket
    <3>2. ~Held(pc, chan, j)
      BY <2>1, <2>6 DEF Held
    <3>3. \A k \in Jobs : Held(pc', c, k) <=> Held(pc, chan, k)
      BY <2>2, <2>3, <3>2
    <3>. HIDE DEF c
    <3>4. \A s \in Sessions : Accounted(pc', c, busy, orphan, s)
      BY <3>3 DEF Inv, TurnInv, Accounted, InSession
    <3>. QED  BY <2>4, <3>1, <3>4 DEF Inv, TurnInv
  <2>. QED  BY <2>5, <2>6
<1>8. ASSUME NEW s \in Sessions, Unwind(s) PROVE Inv'
  <2>1. orphan[s] /\ Pump(s, entry, chan) /\ pc' = pc
    BY <1>8 DEF Unwind
  <2>2. \A j \in InSession(s) : ~Held(pc, chan, j)
    BY <2>1 DEF Inv, TurnInv, Accounted
  <2>. QED  BY <2>1, <2>2, PumpKeeps DEF Inv, TurnInv
<1>9. ASSUME NEW j \in Jobs,
             TakeDesktop(j) \/ DesktopBusy(j) \/ TakeLease(j) \/ End(j) \/ ReleaseDesktop(j)
      PROVE Inv'
  <2>1. PICK from, to \in {"desktop", "entered", "running", "finished", "released"} : Go(j, from, to)
    BY <1>9 DEF TakeDesktop, DesktopBusy, TakeLease, End, ReleaseDesktop
  <2>2. UNCHANGED <<entry, chan, busy, orphan>>
    BY <1>9 DEF TakeDesktop, DesktopBusy, TakeLease, End, ReleaseDesktop, gate
  <2>3. \A k \in Jobs : Held(pc', chan, k) <=> Held(pc, chan, k)
    BY <2>1 DEF Go, Inv, TurnInv, Lined, Held
  <2>4. Lined(pc', entry, chan)
    BY <2>1, <2>3 DEF Go, Inv, TurnInv, Lined
  <2>5. \A s \in Sessions : Accounted(pc', chan, busy, orphan, s)
    BY <2>3 DEF Inv, TurnInv, Accounted, InSession
  <2>. QED  BY <2>2, <2>4, <2>5 DEF Inv, TurnInv
<1>10. ASSUME NEW j \in Jobs, ReleaseTurn(j) PROVE Inv'
  <2>1. pc[j] = "released" /\ pc' = [pc EXCEPT ![j] = "closing"] /\ Pump(SessionOf[j], entry, chan)
    BY <1>10 DEF ReleaseTurn, Go
  <2>2. \A k \in Jobs : k # j => (Held(pc', chan, k) <=> Held(pc, chan, k))
    BY <2>1 DEF Held
  <2>3. Held(pc, chan, j) /\ ~Held(pc', chan, j)
    BY <2>1 DEF Inv, TurnInv, Lined, Held
  <2>4. Lined(pc', entry, chan)
    BY <2>1, <2>2, <2>3 DEF Inv, TurnInv, Lined
  <2>5. \A k \in InSession(SessionOf[j]) : ~Held(pc', chan, k)
    BY <1>a, <2>2, <2>3 DEF Inv, TurnInv, Accounted, InSession
  <2>6. \A t \in Sessions : t # SessionOf[j] => Accounted(pc', chan, busy, orphan, t)
    BY <2>2 DEF Inv, TurnInv, Accounted, InSession
  <2>. QED  BY <1>a, <2>1, <2>4, <2>5, <2>6, PumpKeeps DEF Inv, TurnInv
<1>11. ASSUME NEW j \in Jobs, ReleaseLease(j) PROVE Inv'
  BY <1>11 DEF ReleaseLease, Go, gate, Inv, TurnInv, Lined, Accounted, Held
<1>12. ASSUME NEW s \in Sessions, Stop(s) PROVE Inv'
  BY <1>12 DEF Stop, gate, Inv
<1>13. ASSUME NEW s \in Sessions, Exit(s) PROVE Inv'
  <2>1. /\ pc' = [j \in Jobs |-> IF SessionOf[j] = s THEN "done" ELSE pc[j]]
        /\ entry' = [j \in Jobs |-> IF SessionOf[j] = s THEN "none" ELSE entry[j]]
        /\ chan' = [j \in Jobs |-> IF SessionOf[j] = s THEN "closed" ELSE chan[j]]
        /\ busy' = [busy EXCEPT ![s] = FALSE] /\ orphan' = [orphan EXCEPT ![s] = FALSE]
    BY <1>13 DEF Exit
  <2>2. \A k \in Jobs : Held(pc', chan', k) <=> SessionOf[k] # s /\ Held(pc, chan, k)
    BY <2>1 DEF Held
  <2>3. Lined(pc', entry', chan')
    BY <2>1, <2>2 DEF Inv, TurnInv, Lined
  <2>4. Accounted(pc', chan', busy', orphan', s)
    BY <2>1, <2>2 DEF Inv, TurnInv, Accounted, InSession
  <2>5. ASSUME NEW t \in Sessions, t # s PROVE Accounted(pc', chan', busy', orphan', t)
    <3>1. \A k \in InSession(t) : Held(pc', chan', k) <=> Held(pc, chan, k)
      BY <2>2, <2>5 DEF InSession
    <3>2. busy'[t] = busy[t] /\ orphan'[t] = orphan[t]
      BY <2>1, <2>5 DEF Inv, TurnInv
    <3>. QED  BY <3>1, <3>2 DEF Inv, TurnInv, Accounted
  <2>. QED  BY <2>1, <2>3, <2>4, <2>5 DEF Inv, TurnInv
<1>14. CASE UNCHANGED vars
  BY <1>14 DEF vars, gate, Inv
<1>. QED
  BY <1>1, <1>2, <1>3, <1>4, <1>5, <1>6, <1>7, <1>8, <1>9, <1>10, <1>11, <1>12, <1>13, <1>14
  DEF Next, Step, Abandon, Keep, Drained, TimedOut, Crash

\* In numbers: the jobs that hold a turn and the turns on their way home.
LEMMA TurnCount == Inv => TurnAccounted
<1>. SUFFICES ASSUME Inv, NEW s \in Sessions
     PROVE  Cardinality({j \in InSession(s) : HasTurn(j)}) + (IF orphan[s] THEN 1 ELSE 0)
            = (IF busy[s] THEN 1 ELSE 0)
  BY DEF TurnAccounted
<1>. DEFINE H == {j \in InSession(s) : HasTurn(j)}
<1>1. Accounted(pc, chan, busy, orphan, s)
  BY DEF Inv, TurnInv
<1>2. CASE \E j \in InSession(s) : HasTurn(j)
  <2>1. PICK j \in InSession(s) : HasTurn(j)
    BY <1>2
  <2>2. H = {j}
    BY <1>1, <2>1 DEF Accounted, Held, HasTurn
  <2>3. Cardinality(H) = 1
    BY <2>2, FS_Singleton
  <2>4. busy[s] /\ ~orphan[s]
    BY <1>1, <2>1 DEF Accounted, Held, HasTurn
  <2>. QED  BY <2>3, <2>4
<1>3. CASE ~\E j \in InSession(s) : HasTurn(j)
  <2>1. Cardinality(H) = 0
    BY <1>3, FS_EmptySet
  <2>2. busy[s] <=> orphan[s]
    BY <1>1, <1>3 DEF Accounted, Held, HasTurn
  <2>. QED  BY <2>1, <2>2
<1>. QED  BY <1>2, <1>3

\* A gate that gave its turn away has given it to exactly one job, or the
\* turn is on its way home.
THEOREM TurnsAccounted == Spec => []TurnAccounted
<1>1. Inv /\ [Next]_vars => Inv'
  BY TurnStep
<1>. QED  BY TurnInit, <1>1, TurnCount, PTL DEF Spec
-----------------------------------------------------------------------------
(* The line of a session.                                                  *)

\* What a job, its entry and its channel can be.
Steps == {"idle", "reserved", "queued", "leaving", "dropping", "desktop",
          "entered", "running", "finished", "released", "closing", "done"}
Slots == {"none", "reserved", "filled"}
Channels == {"closed", "open", "turn"}

\* The jobs of session s that have a place.
Placed(s) == {j \in InSession(s) : place[j] > 0}

\* The fields of a gate have their types; who is in line, or has had its turn, has a place.
Seated(p, e, c) ==
  /\ p \in [Jobs -> Steps] /\ e \in [Jobs -> Slots] /\ c \in [Jobs -> Channels]
  /\ \A j \in Jobs : e[j] # "none" \/ Held(p, c, j) \/ p[j] \notin {"idle", "done"} => place[j] > 0
  /\ \A j \in Jobs : p[j] = "idle" => place[j] = 0
  /\ \A j \in Jobs : p[j] = "reserved" => e[j] = "reserved"

\* Who has the turn was accepted before everybody in line.
InTurn(p, e, c) ==
  \A j, k \in Jobs :
    Held(p, c, j) /\ e[k] # "none" /\ SessionOf[k] = SessionOf[j] => place[j] < place[k]

\* With the turn at home nobody in front is ready for it.
Stalls(e, b) == \A j \in Jobs : Front(e, j) /\ ~b[SessionOf[j]] => e[j] # "filled"

\* Places of a session are given out in order.
Places ==
  /\ place \in [Jobs -> Nat]
  /\ \A j \in Jobs : place[j] <= Cardinality(Placed(SessionOf[j]))
  /\ \A j, k \in Jobs : SessionOf[j] = SessionOf[k] /\ place[j] = place[k] /\ place[j] > 0 => j = k

\* The line of every session, of given waiters, channels and turns.
GateLine(p, e, c, b, o) ==
  /\ b \in [Sessions -> BOOLEAN] /\ o \in [Sessions -> BOOLEAN]
  /\ Seated(p, e, c) /\ InTurn(p, e, c) /\ Stalls(e, b)

LineInv == Inv /\ Places /\ GateLine(pc, entry, chan, busy, orphan)

\* At first nobody is in line.
LEMMA LineInit == Init => LineInv
<1>. SUFFICES ASSUME Init PROVE LineInv
  OBVIOUS
<1>. USE UiAssumption
<1>1. Inv
  BY TurnInit
<1>2. Places
  <2>1. \A s : Placed(s) = {}
    BY DEF Init, Placed, InSession
  <2>2. \A s : Cardinality(Placed(s)) = 0
    BY <2>1, FS_EmptySet
  <2>3. place \in [Jobs -> Nat] /\ \A j \in Jobs : place[j] = 0
    BY DEF Init
  <2>. QED  BY <2>2, <2>3 DEF Places
<1>3. GateLine(pc, entry, chan, busy, orphan)
  BY DEF Init, GateLine, Seated, InTurn, Stalls, Held, Steps, Slots, Channels, Front
<1>. QED  BY <1>1, <1>2, <1>3 DEF LineInv

\* The front of a line is one job.
LEMMA FrontFirst ==
  ASSUME Places, NEW p, NEW e, NEW c, Seated(p, e, c), NEW j \in Jobs, NEW k \in Jobs,
         Front(e, j), e[k] # "none", SessionOf[k] = SessionOf[j]
  PROVE  j = k \/ place[j] < place[k]
  BY DEF Places, Seated, Front, InSession

\* A pump hands the turn to the front, or leaves it at home with nobody ready.
LEMMA PumpLine ==
  ASSUME Places, NEW s \in Sessions, NEW p, NEW e, NEW c,
         busy \in [Sessions -> BOOLEAN], orphan \in [Sessions -> BOOLEAN],
         Seated(p, e, c), InTurn(p, e, c),
         \A j \in Jobs : SessionOf[j] # s /\ Front(e, j) /\ ~busy[SessionOf[j]] => e[j] # "filled",
         \A j \in InSession(s) : ~Held(p, c, j),
         Pump(s, e, c)
  PROVE  GateLine(p, entry', chan', busy', orphan')
<1>. USE UiAssumption
<1>1. CASE Grant(s, e, c)
  <2>1. PICK j \in InSession(s) :
          /\ Front(e, j) /\ e[j] = "filled"
          /\ entry' = [e EXCEPT ![j] = "none"]
          /\ busy' = [busy EXCEPT ![s] = TRUE]
          /\ \/ c[j] = "open" /\ chan' = [c EXCEPT ![j] = "turn"] /\ orphan' = [orphan EXCEPT ![s] = FALSE]
             \/ c[j] = "closed" /\ chan' = c /\ orphan' = [orphan EXCEPT ![s] = TRUE]
    BY <1>1 DEF Grant
  <2>2. j \in Jobs /\ SessionOf[j] = s
    BY DEF InSession
  <2>3. busy' \in [Sessions -> BOOLEAN] /\ orphan' \in [Sessions -> BOOLEAN]
    BY <2>1
  <2>4. chan' \in [Jobs -> Channels] /\ \A k \in Jobs : k # j => chan'[k] = c[k]
    BY <2>1, <2>2 DEF Seated, Channels
  <2>5. entry' \in [Jobs -> Slots] /\ \A k \in Jobs : entry'[k] = IF k = j THEN "none" ELSE e[k]
    BY <2>1, <2>2 DEF Seated, Slots
  <2>6. \A k \in Jobs : k # j => (Held(p, chan', k) <=> Held(p, c, k))
    BY <2>4 DEF Held
  <2>7. Seated(p, entry', chan')
    BY <2>1, <2>2, <2>4, <2>5, <2>6 DEF Seated
  <2>8. InTurn(p, entry', chan')
    <3>. SUFFICES ASSUME NEW i \in Jobs, NEW k \in Jobs, Held(p, chan', i), entry'[k] # "none",
                         SessionOf[k] = SessionOf[i]
         PROVE  place[i] < place[k]
      BY DEF InTurn
    <3>1. k # j /\ e[k] # "none"
      BY <2>5
    <3>2. CASE i = j
      BY <2>1, <2>2, <3>1, <3>2, FrontFirst
    <3>3. CASE i # j
      BY <2>6, <3>1, <3>3 DEF InTurn
    <3>. QED  BY <3>2, <3>3
  <2>9. Stalls(entry', busy')
    <3>. SUFFICES ASSUME NEW k \in Jobs, Front(entry', k), ~busy'[SessionOf[k]] PROVE entry'[k] # "filled"
      BY DEF Stalls
    <3>1. SessionOf[k] # s /\ SessionOf[k] \in Sessions
      BY <2>1
    <3>2. ~busy[SessionOf[k]]
      BY <2>1, <3>1
    <3>3. Front(e, k) /\ entry'[k] = e[k]
      BY <2>2, <2>5, <3>1 DEF Front, InSession
    <3>. QED  BY <3>1, <3>2, <3>3
  <2>. QED  BY <2>3, <2>7, <2>8, <2>9 DEF GateLine
<1>2. CASE /\ \A j \in InSession(s) : Front(e, j) => e[j] # "filled"
           /\ entry' = e /\ chan' = c
           /\ busy' = [busy EXCEPT ![s] = FALSE]
           /\ orphan' = [orphan EXCEPT ![s] = FALSE]
  <2>1. busy' \in [Sessions -> BOOLEAN] /\ orphan' \in [Sessions -> BOOLEAN]
    BY <1>2
  <2>2. Stalls(e, busy')
    BY <1>2 DEF Stalls, InSession
  <2>. QED  BY <1>2, <2>1, <2>2 DEF GateLine
<1>. QED  BY <1>1, <1>2 DEF Pump

\* So does a change of the waiters: it pumps when the turn is at home, and otherwise nobody waits
\* for a turn that is.
LEMMA UpdateLine ==
  ASSUME Places, NEW s \in Sessions, NEW p, NEW e, NEW c,
         busy \in [Sessions -> BOOLEAN], orphan \in [Sessions -> BOOLEAN],
         TurnInv(p, e, c, busy, orphan), Seated(p, e, c), InTurn(p, e, c),
         \A j \in Jobs : SessionOf[j] # s /\ Front(e, j) /\ ~busy[SessionOf[j]] => e[j] # "filled",
         Update(s, e, c)
  PROVE  GateLine(p, entry', chan', busy', orphan')
<1>1. CASE busy[s]
  <2>1. entry' = e /\ chan' = c /\ UNCHANGED <<busy, orphan>>
    BY <1>1 DEF Update
  <2>2. Stalls(e, busy)
    BY <1>1 DEF Stalls
  <2>. QED  BY <2>1, <2>2 DEF GateLine
<1>2. CASE ~busy[s]
  <2>1. Pump(s, e, c)
    BY <1>2 DEF Update
  <2>2. \A j \in InSession(s) : ~Held(p, c, j)
    BY <1>2 DEF TurnInv, Accounted
  <2>. QED  BY <2>1, <2>2, PumpLine
<1>. QED  BY <1>1, <1>2
-----------------------------------------------------------------------------
\* A job that is accepted goes to the end of the line.
LEMMA AcceptLine == ASSUME LineInv, NEW j \in Jobs, Accept(j) PROVE LineInv'
<1>. USE UiAssumption
<1>. DEFINE s == SessionOf[j]
<1>1. /\ pc[j] = "idle" /\ pc' = [pc EXCEPT ![j] = "reserved"]
      /\ place' = [place EXCEPT ![j] = 1 + Cardinality(Placed(s))]
      /\ entry' = [entry EXCEPT ![j] = "reserved"]
      /\ UNCHANGED <<chan, busy, orphan>>
  BY DEF Accept, Go, Placed
<1>2. place \in [Jobs -> Nat] /\ place[j] = 0 /\ entry[j] = "none" /\ ~Held(pc, chan, j)
  BY <1>1 DEF LineInv, Places, GateLine, Seated, Slots
<1>3. IsFiniteSet(Placed(s)) /\ Cardinality(Placed(s)) \in Nat
  BY FS_Subset, FS_CardinalityType DEF Placed, InSession
<1>4. place' \in [Jobs -> Nat] /\ \A k \in Jobs : place'[k] = IF k = j THEN 1 + Cardinality(Placed(s)) ELSE place[k]
  BY <1>1, <1>2, <1>3
<1>5. Inv'
  BY TurnStep DEF LineInv, Next
<1>6. Places'
  <2>1. \A t : (Placed(t))' = {k \in InSession(t) : place'[k] > 0}
    BY DEF Placed, InSession
  <2>2. (Placed(s))' = Placed(s) \cup {j}
    BY <1>2, <1>3, <1>4, <2>1 DEF Placed, InSession
  <2>3. Cardinality((Placed(s))') = 1 + Cardinality(Placed(s))
    <3>1. j \notin Placed(s)
      BY <1>2 DEF Placed
    <3>2. Cardinality(Placed(s) \cup {j}) = Cardinality(Placed(s)) + 1
      BY <1>3, <3>1, FS_AddElement
    <3>. QED  BY <1>3, <2>2, <3>2
  <2>4. ASSUME NEW t, t # s PROVE (Placed(t))' = Placed(t)
    BY <1>4, <2>1, <2>4 DEF Placed, InSession
  <2>5. \A k \in Jobs : place'[k] <= Cardinality((Placed(SessionOf[k]))')
    <3>. SUFFICES ASSUME NEW k \in Jobs PROVE place'[k] <= Cardinality((Placed(SessionOf[k]))')
      OBVIOUS
    <3>1. place[k] <= Cardinality(Placed(SessionOf[k])) /\ place[k] \in Nat
      BY <1>2 DEF LineInv, Places
    <3>2. CASE SessionOf[k] = s
      BY <1>3, <1>4, <2>3, <3>1, <3>2
    <3>3. CASE SessionOf[k] # s
      BY <1>4, <2>4, <3>1, <3>3
    <3>. QED  BY <3>2, <3>3
  <2>6. \A k, l \in Jobs : SessionOf[k] = SessionOf[l] /\ place'[k] = place'[l] /\ place'[k] > 0 => k = l
    <3>. SUFFICES ASSUME NEW k \in Jobs, NEW l \in Jobs, SessionOf[k] = SessionOf[l], place'[k] = place'[l],
                         place'[k] > 0
         PROVE  k = l
      OBVIOUS
    <3>1. /\ place[k] <= Cardinality(Placed(SessionOf[k])) /\ place[k] \in Nat
          /\ place[l] <= Cardinality(Placed(SessionOf[l])) /\ place[l] \in Nat
          /\ SessionOf[k] = SessionOf[l] /\ place[k] = place[l] /\ place[k] > 0 => k = l
      BY <1>2 DEF LineInv, Places
    <3>2. CASE k = j
      BY <1>3, <1>4, <3>1, <3>2
    <3>3. CASE l = j
      BY <1>3, <1>4, <3>1, <3>3
    <3>4. CASE k # j /\ l # j
      BY <1>4, <3>1, <3>4
    <3>. QED  BY <3>2, <3>3, <3>4
  <2>7. (\A k \in Jobs : place[k] <= Cardinality(Placed(SessionOf[k])))'
    BY <2>5
  <2>. QED  BY <1>4, <2>6, <2>7 DEF Places
<1>7. \A k \in Jobs : Held(pc', chan', k) <=> Held(pc, chan, k)
  BY <1>1, <1>2 DEF LineInv, GateLine, Seated, Held
<1>8. Seated(pc, entry, chan)
  BY DEF LineInv, GateLine
<1>9. /\ pc' \in [Jobs -> Steps] /\ entry' \in [Jobs -> Slots] /\ chan' \in [Jobs -> Channels]
      /\ pc'[j] = "reserved" /\ place'[j] > 0 /\ entry'[j] = "reserved"
      /\ \A k \in Jobs : k # j => pc'[k] = pc[k] /\ entry'[k] = entry[k] /\ place'[k] = place[k]
  BY <1>1, <1>3, <1>4, <1>8 DEF Seated, Steps, Slots
<1>10. (Seated(pc, entry, chan))'
  <2>1. \A k \in Jobs : entry'[k] # "none" \/ Held(pc', chan', k) \/ pc'[k] \notin {"idle", "done"} => place'[k] > 0
    BY <1>7, <1>8, <1>9 DEF Seated
  <2>2. \A k \in Jobs : pc'[k] = "idle" => place'[k] = 0
    BY <1>8, <1>9 DEF Seated
  <2>3. \A k \in Jobs : pc'[k] = "reserved" => entry'[k] = "reserved"
    BY <1>8, <1>9 DEF Seated
  <2>. QED  BY <1>9, <2>1, <2>2, <2>3 DEF Seated
<1>11. (InTurn(pc, entry, chan))'
  <2>. SUFFICES ASSUME NEW i \in Jobs, NEW k \in Jobs, Held(pc', chan', i), entry'[k] # "none", SessionOf[k] = SessionOf[i]
       PROVE  place'[i] < place'[k]
    BY DEF InTurn
  <2>1. Held(pc, chan, i) /\ i # j
    BY <1>2, <1>7
  <2>2. place[i] \in Nat /\ place[i] <= Cardinality(Placed(SessionOf[i]))
    BY DEF LineInv, Places
  <2>3. CASE k = j
    BY <1>3, <1>4, <2>1, <2>2, <2>3
  <2>4. CASE k # j
    BY <1>9, <2>1, <2>4 DEF LineInv, GateLine, InTurn
  <2>. QED  BY <2>3, <2>4
<1>12. (Stalls(entry, busy))'
  <2>. SUFFICES ASSUME NEW k \in Jobs, Front(entry, k)', ~busy[SessionOf[k]], entry'[k] = "filled" PROVE FALSE
    BY <1>1 DEF Stalls
  <2>1. k # j /\ entry[k] = "filled"
    BY <1>9
  <2>2. Front(entry, k)
    BY <1>2, <1>9, <2>1 DEF Front, InSession
  <2>. QED  BY <2>1, <2>2 DEF LineInv, GateLine, Stalls
<1>. QED  BY <1>1, <1>5, <1>6, <1>10, <1>11, <1>12 DEF LineInv, GateLine

\* The steps that leave the places alone are about the gate.
LEMMA SamePlaces ==
  ASSUME LineInv, Next, place' = place, GateLine(pc', entry', chan', busy', orphan')
  PROVE  LineInv'
<1>1. Inv'
  BY TurnStep DEF LineInv
<1>2. Places'
  BY DEF LineInv, Places, Placed
<1>3. (GateLine(pc, entry, chan, busy, orphan))'
  BY DEF GateLine, Seated, InTurn, Stalls, Front
<1>. QED  BY <1>1, <1>2, <1>3 DEF LineInv

\* A job that changes nothing of the gate, and who held the turn still does.
LEMMA GateStays ==
  ASSUME LineInv, NEW p \in [Jobs -> Steps],
         \A k \in Jobs : Held(p, chan, k) => Held(pc, chan, k),
         \A k \in Jobs : p[k] = pc[k] \/ (p[k] \notin {"idle", "reserved"} /\ pc[k] \notin {"idle", "done"})
  PROVE  GateLine(p, entry, chan, busy, orphan)
<1>1. Seated(p, entry, chan)
  BY DEF LineInv, GateLine, Seated
<1>2. InTurn(p, entry, chan)
  BY DEF LineInv, GateLine, InTurn
<1>. QED  BY <1>1, <1>2 DEF LineInv, GateLine
\* A keeper that ends leaves nobody in line.
LEMMA ExitLine == ASSUME LineInv, Next, NEW s \in Sessions, Exit(s) PROVE LineInv'
<1>. USE UiAssumption
<1>1. /\ pc' = [j \in Jobs |-> IF SessionOf[j] = s THEN "done" ELSE pc[j]]
      /\ place' = [j \in Jobs |-> IF SessionOf[j] = s THEN 0 ELSE place[j]]
      /\ entry' = [j \in Jobs |-> IF SessionOf[j] = s THEN "none" ELSE entry[j]]
      /\ chan' = [j \in Jobs |-> IF SessionOf[j] = s THEN "closed" ELSE chan[j]]
      /\ busy' = [busy EXCEPT ![s] = FALSE] /\ orphan' = [orphan EXCEPT ![s] = FALSE]
  BY DEF Exit
<1>2. /\ busy \in [Sessions -> BOOLEAN] /\ orphan \in [Sessions -> BOOLEAN] /\ place \in [Jobs -> Nat]
      /\ Seated(pc, entry, chan) /\ InTurn(pc, entry, chan) /\ Stalls(entry, busy)
  BY DEF LineInv, GateLine, Places
<1>3. Inv'
  BY TurnStep DEF LineInv
<1>4. \A k \in Jobs : Held(pc', chan', k) <=> SessionOf[k] # s /\ Held(pc, chan, k)
  BY <1>1 DEF Held
<1>5. Places'
  <2>1. \A t : (Placed(t))' = {k \in InSession(t) : place'[k] > 0}
    BY DEF Placed, InSession
  <2>2. \A t : t # s => (Placed(t))' = Placed(t)
    BY <1>1, <2>1 DEF Placed, InSession
  <2>3. (Placed(s))' = {}
    BY <1>1, <2>1 DEF Placed, InSession
  <2>4. Cardinality((Placed(s))') = 0
    BY <2>3, FS_EmptySet
  <2>5. \A k \in Jobs : place'[k] <= Cardinality((Placed(SessionOf[k]))')
    <3>. SUFFICES ASSUME NEW k \in Jobs PROVE place'[k] <= Cardinality((Placed(SessionOf[k]))')
      OBVIOUS
    <3>1. CASE SessionOf[k] = s
      BY <1>1, <2>4, <3>1
    <3>2. CASE SessionOf[k] # s
      BY <1>1, <2>2, <3>2 DEF LineInv, Places
    <3>. QED  BY <3>1, <3>2
  <2>6. (\A k \in Jobs : place[k] <= Cardinality(Placed(SessionOf[k])))'
    BY <2>5
  <2>7. place' \in [Jobs -> Nat]
    BY <1>1, <1>2
  <2>8. \A k, l \in Jobs : SessionOf[k] = SessionOf[l] /\ place'[k] = place'[l] /\ place'[k] > 0 => k = l
    BY <1>1 DEF LineInv, Places
  <2>. QED  BY <2>6, <2>7, <2>8 DEF Places
<1>6. (Seated(pc, entry, chan))'
  BY <1>1, <1>2, <1>4 DEF Seated, Steps, Slots, Channels
<1>7. (InTurn(pc, entry, chan))'
  BY <1>1, <1>2, <1>4 DEF InTurn
<1>8. (Stalls(entry, busy))'
  BY <1>1, <1>2 DEF Stalls, Front, InSession
<1>. QED  BY <1>1, <1>2, <1>3, <1>5, <1>6, <1>7, <1>8 DEF LineInv, GateLine

\* Every step keeps the line.
LEMMA LineStep == LineInv /\ [Next]_vars => LineInv'
<1>. SUFFICES ASSUME LineInv, [Next]_vars PROVE LineInv'
  OBVIOUS
<1>. USE UiAssumption
<1>a. ASSUME NEW j \in Jobs PROVE SessionOf[j] \in Sessions
  OBVIOUS
<1>b. /\ busy \in [Sessions -> BOOLEAN] /\ orphan \in [Sessions -> BOOLEAN] /\ Places
      /\ Seated(pc, entry, chan) /\ InTurn(pc, entry, chan) /\ Stalls(entry, busy)
  BY DEF LineInv, GateLine
<1>1. ASSUME NEW j \in Jobs, Accept(j) PROVE LineInv'
  BY <1>1, AcceptLine
<1>2. ASSUME NEW j \in Jobs, DropReservation(j) \/ Withdraw(j) PROVE LineInv'
  <2>. DEFINE e == [entry EXCEPT ![j] = "none"]
  <2>1. /\ pc[j] \in {"reserved", "leaving"} /\ place' = place /\ Update(SessionOf[j], e, chan)
        /\ \E to \in {"dropping", "done"} : pc' = [pc EXCEPT ![j] = to]
    BY <1>2 DEF DropReservation, Withdraw, Go
  <2>2. /\ pc' \in [Jobs -> Steps] /\ \A k \in Jobs : k # j => pc'[k] = pc[k]
        /\ pc'[j] \in {"dropping", "done"}
    BY <1>b, <2>1 DEF Seated, Steps
  <2>3. \A k \in Jobs : Held(pc', chan, k) => Held(pc, chan, k)
    BY <2>1, <2>2 DEF Held
  <2>4. e \in [Jobs -> Slots] /\ \A k \in Jobs : e[k] = IF k = j THEN "none" ELSE entry[k]
    BY <1>b DEF Seated, Slots
  <2>5. TurnInv(pc', e, chan, busy, orphan)
    <3>1. CASE DropReservation(j)
      BY <3>1 DEF LineInv, DropReservation, Go, Inv, TurnInv, Lined, Accounted, Held
    <3>2. CASE Withdraw(j)
      BY <3>2 DEF LineInv, Withdraw, Go, Inv, TurnInv, Lined, Accounted, Held
    <3>. QED  BY <1>2, <3>1, <3>2
  <2>. HIDE DEF e
  <2>6. Seated(pc', e, chan)
    BY <1>b, <2>1, <2>2, <2>3, <2>4 DEF Seated
  <2>7. InTurn(pc', e, chan)
    BY <1>b, <2>3, <2>4 DEF InTurn
  <2>8. \A k \in Jobs : SessionOf[k] # SessionOf[j] /\ Front(e, k) /\ ~busy[SessionOf[k]] => e[k] # "filled"
    BY <1>b, <2>4 DEF Stalls, Front, InSession
  <2>. QED  BY <1>a, <1>b, <1>2, <2>1, <2>5, <2>6, <2>7, <2>8, UpdateLine, SamePlaces DEF Next, Step
<1>3. ASSUME NEW j \in Jobs, Enqueue(j) PROVE LineInv'
  <2>. DEFINE e == [entry EXCEPT ![j] = "filled"]
              c == [chan EXCEPT ![j] = "open"]
  <2>1. /\ pc[j] = "reserved" /\ place' = place /\ Update(SessionOf[j], e, c)
        /\ pc' = [pc EXCEPT ![j] = "queued"]
    BY <1>3 DEF Enqueue, Go
  <2>2. /\ pc' \in [Jobs -> Steps] /\ \A k \in Jobs : k # j => pc'[k] = pc[k]
        /\ pc'[j] = "queued"
    BY <1>b, <2>1 DEF Seated, Steps
  <2>3. /\ e \in [Jobs -> Slots] /\ \A k \in Jobs : e[k] = IF k = j THEN "filled" ELSE entry[k]
        /\ c \in [Jobs -> Channels] /\ \A k \in Jobs : c[k] = IF k = j THEN "open" ELSE chan[k]
    BY <1>b DEF Seated, Slots, Channels
  <2>4. ~Held(pc, chan, j)
    BY <2>1 DEF LineInv, Inv, TurnInv, Lined, Held
  <2>5. TurnInv(pc', e, c, busy, orphan)
    <3>1. \A k \in Jobs : Held(pc', c, k) <=> Held(pc, chan, k)
      BY <2>2, <2>3, <2>4 DEF Held
    <3>2. Lined(pc', e, c)
      <4>1. \A k \in Jobs : c[k] # "closed" => pc'[k] \in {"queued", "leaving", "dropping"}
        BY <2>2, <2>3 DEF LineInv, Inv, TurnInv, Lined
      <4>2. \A k \in Jobs : e[k] # "none" => ~Held(pc', c, k)
        BY <2>3, <2>4, <3>1 DEF LineInv, Inv, TurnInv, Lined
      <4>3. DOMAIN pc' = Jobs /\ DOMAIN e = Jobs /\ DOMAIN c = Jobs
        BY <2>2, <2>3
      <4>. QED  BY <4>1, <4>2, <4>3 DEF Lined
    <3>3. \A t \in Sessions : Accounted(pc', c, busy, orphan, t)
      BY <3>1 DEF LineInv, Inv, TurnInv, Accounted, InSession
    <3>. QED  BY <3>2, <3>3 DEF LineInv, Inv, TurnInv
  <2>. HIDE DEF e, c
  <2>6. \A k \in Jobs : Held(pc', c, k) <=> Held(pc, chan, k)
    BY <2>2, <2>3, <2>4 DEF Held
  <2>7. Seated(pc', e, c)
    BY <1>b, <2>1, <2>2, <2>3, <2>6 DEF Seated
  <2>8. InTurn(pc', e, c)
    <3>. SUFFICES ASSUME NEW i \in Jobs, NEW k \in Jobs, Held(pc', c, i), e[k] # "none", SessionOf[k] = SessionOf[i]
         PROVE  place[i] < place[k]
      BY DEF InTurn
    <3>1. CASE k # j
      BY <1>b, <2>3, <2>6, <3>1 DEF InTurn
    <3>2. CASE k = j
      BY <1>b, <2>1, <2>6, <3>2 DEF InTurn, Seated
    <3>. QED  BY <3>1, <3>2
  <2>9. \A k \in Jobs : SessionOf[k] # SessionOf[j] /\ Front(e, k) /\ ~busy[SessionOf[k]] => e[k] # "filled"
    BY <1>b, <2>3 DEF Stalls, Front, InSession
  <2>. QED  BY <1>a, <1>b, <1>3, <2>1, <2>5, <2>7, <2>8, <2>9, UpdateLine, SamePlaces DEF Next, Step
<1>4. ASSUME NEW j \in Jobs, Take(j) PROVE LineInv'
  <2>1. /\ pc[j] = "queued" /\ chan[j] = "turn" /\ UNCHANGED <<place, entry, busy, orphan>>
        /\ \E to \in {"desktop", "entered"} : pc' = [pc EXCEPT ![j] = to]
        /\ chan' = [chan EXCEPT ![j] = "closed"]
    BY <1>4 DEF Take, Go
  <2>2. /\ pc' \in [Jobs -> Steps] /\ \A k \in Jobs : k # j => pc'[k] = pc[k]
        /\ pc'[j] \in {"desktop", "entered"}
        /\ chan' \in [Jobs -> Channels] /\ \A k \in Jobs : k # j => chan'[k] = chan[k]
    BY <1>b, <2>1 DEF Seated, Steps, Channels
  <2>3. \A k \in Jobs : Held(pc', chan', k) => Held(pc, chan, k)
    BY <2>1, <2>2 DEF Held
  <2>4. Seated(pc', entry, chan')
    BY <1>b, <2>1, <2>2, <2>3 DEF Seated
  <2>5. InTurn(pc', entry, chan')
    BY <1>b, <2>3 DEF InTurn
  <2>6. GateLine(pc', entry', chan', busy', orphan')
    BY <1>b, <2>1, <2>4, <2>5 DEF GateLine
  <2>. QED  BY <1>4, <2>1, <2>6, SamePlaces DEF Next, Step
<1>5. ASSUME NEW j \in Jobs, GiveUp(j) \/ Vanish(j) \/ TakeDesktop(j) \/ DesktopBusy(j) \/ TakeLease(j)
                             \/ End(j) \/ ReleaseDesktop(j) \/ ReleaseLease(j)
      PROVE LineInv'
  <2>1. UNCHANGED <<place, entry, chan, busy, orphan>>
    BY <1>5 DEF GiveUp, Vanish, TakeDesktop, DesktopBusy, TakeLease, End, ReleaseDesktop, ReleaseLease, gate
  <2>2. PICK from, to \in Steps :
          /\ from \notin {"idle", "done"} /\ to \notin {"idle", "reserved"} /\ Go(j, from, to)
          /\ Held([pc EXCEPT ![j] = to], chan, j) => Held(pc, chan, j)
    <3>1. CASE GiveUp(j) \/ Vanish(j)
      BY <1>b, <3>1 DEF GiveUp, Vanish, Go, Steps, Held, Seated
    <3>2. CASE TakeDesktop(j) \/ DesktopBusy(j) \/ TakeLease(j) \/ End(j) \/ ReleaseDesktop(j)
      BY <1>b, <3>2 DEF TakeDesktop, DesktopBusy, TakeLease, End, ReleaseDesktop, Go, Steps, Held, Seated
    <3>3. CASE ReleaseLease(j)
      BY <1>b, <3>3 DEF ReleaseLease, Go, Steps, Held, Seated
    <3>. QED  BY <1>5, <3>1, <3>2, <3>3
  <2>3. /\ pc' = [pc EXCEPT ![j] = to] /\ pc' \in [Jobs -> Steps] /\ pc[j] = from /\ pc'[j] = to
        /\ \A k \in Jobs : k # j => pc'[k] = pc[k]
    BY <1>b, <2>2 DEF Go, Seated
  <2>4. \A k \in Jobs : Held(pc', chan, k) => Held(pc, chan, k)
    BY <2>2, <2>3 DEF Held
  <2>5. GateLine(pc', entry, chan, busy, orphan)
    BY <2>2, <2>3, <2>4, GateStays
  <2>6. Next
    BY <1>5 DEF Next, Step, Abandon
  <2>. QED  BY <2>1, <2>5, <2>6, SamePlaces
<1>6. ASSUME NEW j \in Jobs, DropTicket(j) PROVE LineInv'
  <2>. DEFINE c == [chan EXCEPT ![j] = "closed"]
  <2>1. /\ pc[j] = "dropping" /\ pc' = [pc EXCEPT ![j] = "done"] /\ place' = place
        /\ IF chan[j] = "turn" THEN Pump(SessionOf[j], entry, c)
           ELSE chan' = c /\ UNCHANGED <<entry, busy, orphan>>
    BY <1>6 DEF DropTicket, Go
  <2>2. /\ pc' \in [Jobs -> Steps] /\ \A k \in Jobs : k # j => pc'[k] = pc[k]
        /\ pc'[j] = "done"
        /\ c \in [Jobs -> Channels] /\ \A k \in Jobs : c[k] = IF k = j THEN "closed" ELSE chan[k]
    BY <1>b, <2>1 DEF Seated, Steps, Channels
  <2>. HIDE DEF c
  <2>3. /\ \A k \in Jobs : Held(pc', c, k) => Held(pc, chan, k)
        /\ ~Held(pc', c, j)
    BY <2>1, <2>2 DEF Held
  <2>4. Seated(pc', entry, c)
    BY <1>b, <2>1, <2>2, <2>3 DEF Seated
  <2>5. InTurn(pc', entry, c)
    BY <1>b, <2>3 DEF InTurn
  <2>6. GateLine(pc', entry', chan', busy', orphan')
    <3>1. CASE chan[j] = "turn"
      <4>1. \A k \in InSession(SessionOf[j]) : ~Held(pc', c, k)
        <5>1. Held(pc, chan, j)
          BY <3>1 DEF Held
        <5>2. \A k \in InSession(SessionOf[j]) : Held(pc, chan, k) => k = j
          BY <1>a, <5>1 DEF LineInv, Inv, TurnInv, Accounted, InSession
        <5>. QED  BY <2>3, <5>2 DEF InSession
      <4>2. \A k \in Jobs : SessionOf[k] # SessionOf[j] /\ Front(entry, k) /\ ~busy[SessionOf[k]] => entry[k] # "filled"
        BY <1>b DEF Stalls
      <4>3. SessionOf[j] \in Sessions /\ Pump(SessionOf[j], entry, c)
        BY <1>a, <2>1, <3>1
      <4>. QED  BY <1>b, <2>4, <2>5, <4>1, <4>2, <4>3, PumpLine
    <3>2. CASE chan[j] # "turn"
      BY <1>b, <2>1, <2>4, <2>5, <3>2 DEF GateLine
    <3>. QED  BY <3>1, <3>2
  <2>. QED  BY <1>6, <2>1, <2>6, SamePlaces DEF Next, Step
<1>7. ASSUME NEW s \in Sessions, Unwind(s) PROVE LineInv'
  <2>1. orphan[s] /\ Pump(s, entry, chan) /\ pc' = pc /\ place' = place
    BY <1>7 DEF Unwind
  <2>2. \A k \in InSession(s) : ~Held(pc, chan, k)
    BY <2>1 DEF LineInv, Inv, TurnInv, Accounted
  <2>3. \A k \in Jobs : SessionOf[k] # s /\ Front(entry, k) /\ ~busy[SessionOf[k]] => entry[k] # "filled"
    BY <1>b DEF Stalls
  <2>4. GateLine(pc', entry', chan', busy', orphan')
    BY <1>b, <2>1, <2>2, <2>3, PumpLine
  <2>. QED  BY <1>7, <2>1, <2>4, SamePlaces DEF Next
<1>8. ASSUME NEW j \in Jobs, ReleaseTurn(j) PROVE LineInv'
  <2>1. pc[j] = "released" /\ pc' = [pc EXCEPT ![j] = "closing"] /\ Pump(SessionOf[j], entry, chan) /\ place' = place
    BY <1>8 DEF ReleaseTurn, Go
  <2>2. /\ pc' \in [Jobs -> Steps] /\ \A k \in Jobs : k # j => pc'[k] = pc[k]
        /\ pc'[j] = "closing"
    BY <1>b, <2>1 DEF Seated, Steps
  <2>3. Held(pc, chan, j) /\ ~Held(pc', chan, j)
    BY <2>1, <2>2 DEF LineInv, Inv, TurnInv, Lined, Held
  <2>4. \A k \in Jobs : Held(pc', chan, k) => Held(pc, chan, k)
    BY <2>2, <2>3 DEF Held
  <2>5. \A k \in InSession(SessionOf[j]) : ~Held(pc', chan, k)
    <3>1. \A k \in InSession(SessionOf[j]) : Held(pc, chan, k) => k = j
      BY <1>a, <2>3 DEF LineInv, Inv, TurnInv, Accounted, InSession
    <3>. QED  BY <2>3, <2>4, <3>1 DEF InSession
  <2>6. GateLine(pc', entry, chan, busy, orphan)
    BY <2>1, <2>2, <2>4, GateStays DEF Steps
  <2>7. \A k \in Jobs : SessionOf[k] # SessionOf[j] /\ Front(entry, k) /\ ~busy[SessionOf[k]] => entry[k] # "filled"
    BY <1>b DEF Stalls
  <2>8. GateLine(pc', entry', chan', busy', orphan')
    <3>1. SessionOf[j] \in Sessions /\ Seated(pc', entry, chan) /\ InTurn(pc', entry, chan)
      BY <1>a, <2>6 DEF GateLine
    <3>2. Pump(SessionOf[j], entry, chan)
      BY <2>1
    <3>. QED  BY <1>b, <2>5, <2>7, <3>1, <3>2, PumpLine
  <2>. QED  BY <1>8, <2>1, <2>8, SamePlaces DEF Next, Step
<1>9. ASSUME NEW s \in Sessions, Stop(s) PROVE LineInv'
  <2>1. UNCHANGED <<pc, place, entry, chan, busy, orphan>>
    BY <1>9 DEF Stop, gate
  <2>. QED  BY <2>1 DEF LineInv, Inv, Places, Placed, GateLine, Seated, InTurn, Stalls, Front
<1>10. ASSUME NEW s \in Sessions, Exit(s), Next PROVE LineInv'
  BY <1>10, ExitLine
<1>11. CASE UNCHANGED vars
  <2>1. UNCHANGED <<pc, place, entry, chan, busy, orphan>>
    BY <1>11 DEF gate, vars
  <2>. QED  BY <2>1 DEF LineInv, Inv, Places, Placed, GateLine, Seated, InTurn, Stalls, Front
<1>. QED
  BY <1>1, <1>2, <1>3, <1>4, <1>5, <1>6, <1>7, <1>8, <1>9, <1>10, <1>11
  DEF Next, Step, Abandon, Keep, Drained, TimedOut, Crash
\* The line of a session moves, in order.
LEMMA InOrder == LineInv => LineMoves
<1>. SUFFICES ASSUME LineInv PROVE AcceptOrder /\ NoStall
  BY DEF LineMoves
<1>1. Seated(pc, entry, chan) /\ InTurn(pc, entry, chan) /\ Stalls(entry, busy)
  BY DEF LineInv, GateLine
<1>2. AcceptOrder
  BY <1>1 DEF AcceptOrder, InTurn, Held, HasTurn
<1>3. NoStall
  BY <1>1 DEF NoStall, Stalls, Seated, Slots, Front
<1>. QED  BY <1>2, <1>3
-----------------------------------------------------------------------------
(* What the keeper counts, and who has desktop and lease.                  *)

\* A job that waits, and one that was let through.
Waiting == {"queued", "leaving", "desktop"}
AtWork == {"entered", "running"}

\* The jobs of session s that the registry has as running, and those it was told of.
Shown(s) == {j \in InSession(s) : shown[j] = "running"}
Told(s) == {j \in InSession(s) : shown[j] # "none"}

\* The count is that of the jobs shown as running; a job that waits is shown as queued, even if it
\* is remembered no longer.
Tallied ==
  /\ history \in [Sessions -> Seq(Jobs)] /\ \A s \in Sessions : Len(history[s]) <= History
  /\ shown \in [Jobs -> {"none", "queued", "running", "ended"}] /\ running \in [Sessions -> Nat]
  /\ \A s \in Sessions : running[s] = Cardinality(Shown(s))
  /\ \A s \in Sessions : \A i \in DOMAIN history[s] :
       SessionOf[history[s][i]] = s /\ shown[history[s][i]] # "none"
  /\ \A j \in Jobs : pc[j] \in {"idle", "reserved"} => shown[j] = "none"
  /\ \A j \in Jobs : pc[j] \in Waiting => shown[j] = "queued"

\* Who has the desktop has been let through to it and has not let it go.
Holders ==
  /\ desktop \in SUBSET Jobs /\ vm \in SUBSET Jobs /\ keeper \in [Sessions -> {"up", "draining", "down"}]
  /\ \A j \in desktop : pc[j] \in AtWork \cup {"finished"}

\* The history has room for every job of a session.
Ample == \A s \in Sessions : Cardinality(InSession(s)) <= History

\* Then it forgets none, and shows as running who is at work.
AllKnown ==
  /\ \A j \in Jobs : shown[j] # "none" => Remembered(j)
  /\ \A s \in Sessions : Len(history[s]) = Cardinality(Told(s))
  /\ \A j \in Jobs : shown[j] = "running" <=> pc[j] \in AtWork

\* Sessions have finitely many jobs.
LEMMA FewJobs ==
  ASSUME NEW s, NEW S \in SUBSET InSession(s)
  PROVE  IsFiniteSet(S) /\ Cardinality(S) \in Nat /\ Cardinality(S) <= Cardinality(InSession(s))
         /\ Cardinality(S) <= Cardinality(Jobs) /\ Cardinality(Jobs) \in Nat
         /\ Cardinality(InSession(s)) \in Nat
<1>1. InSession(s) \in SUBSET Jobs /\ S \in SUBSET Jobs
  BY DEF InSession
<1>2. IsFiniteSet(Jobs) /\ IsFiniteSet(InSession(s)) /\ IsFiniteSet(S)
  BY <1>1, FS_Subset, UiAssumption
<1>3. Cardinality(S) <= Cardinality(InSession(s)) /\ Cardinality(S) <= Cardinality(Jobs)
  BY <1>1, <1>2, FS_Subset
<1>. QED  BY <1>2, <1>3, FS_CardinalityType

\* At first nobody is told of anything.
LEMMA TallyInit == Init => Tallied /\ Holders /\ AllKnown
<1>. SUFFICES ASSUME Init PROVE Tallied /\ Holders /\ AllKnown
  OBVIOUS
<1>1. \A s : Shown(s) = {} /\ Told(s) = {}
  BY DEF Init, Shown, Told, InSession
<1>2. Cardinality({}) = 0
  BY FS_EmptySet
<1>3. history \in [Sessions -> Seq(Jobs)] /\ \A s \in Sessions : history[s] = <<>>
  BY DEF Init
<1>4. Tallied
  <2>1. \A s \in Sessions : Len(history[s]) <= History /\ DOMAIN history[s] = {}
    BY <1>3, UiAssumption
  <2>2. running \in [Sessions -> Nat] /\ \A s \in Sessions : running[s] = Cardinality(Shown(s))
    BY <1>1, <1>2 DEF Init
  <2>3. /\ shown \in [Jobs -> {"none", "queued", "running", "ended"}]
        /\ \A j \in Jobs : shown[j] = "none" /\ pc[j] = "idle"
    BY DEF Init
  <2>. QED  BY <1>3, <2>1, <2>2, <2>3 DEF Tallied, Waiting
<1>5. Holders
  BY DEF Init, Holders
<1>6. AllKnown
  BY <1>1, <1>2, <1>3 DEF Init, AllKnown, AtWork
<1>. QED  BY <1>4, <1>5, <1>6

\* A job goes on, and the registry is not told.
LEMMA GoTallies ==
  ASSUME pc \in [Jobs -> Steps], Tallied, NEW j \in Jobs, NEW from, NEW to, Go(j, from, to), UNCHANGED registry,
         to # "idle", to = "reserved" => from = "idle", to \in Waiting => from \in Waiting
  PROVE  Tallied'
<1>1. \A k \in Jobs : pc'[k] = IF k = j THEN to ELSE pc[k]
  BY DEF Go
<1>2. pc[j] = from /\ UNCHANGED <<history, shown, running>>
  BY DEF Go, registry
<1>3. \A s : (Shown(s))' = Shown(s)
  BY <1>2 DEF Shown, InSession
<1>. QED  BY <1>1, <1>2, <1>3 DEF Tallied

\* So it goes on with what is known.
LEMMA GoKnown ==
  ASSUME pc \in [Jobs -> Steps], AllKnown, NEW j \in Jobs, NEW from, NEW to, Go(j, from, to), UNCHANGED registry,
         to \in AtWork <=> from \in AtWork
  PROVE  AllKnown'
<1>1. \A k \in Jobs : pc'[k] = IF k = j THEN to ELSE pc[k]
  BY DEF Go
<1>2. pc[j] = from /\ UNCHANGED <<history, shown, running>>
  BY DEF Go, registry
<1>3. \A s : (Told(s))' = Told(s)
  BY <1>2 DEF Told, InSession
<1>4. \A k : (Remembered(k))' <=> Remembered(k)
  BY <1>2 DEF Remembered
<1>. QED  BY <1>1, <1>2, <1>3, <1>4 DEF AllKnown

\* What a record changes: the state of its job if it is remembered.
LEMMA RecordShows ==
  ASSUME Tallied, NEW j \in Jobs, NEW step \in {"running", "ended"}, Record(j, step)
  PROVE  /\ \A k \in Jobs : k # j => shown'[k] = shown[k]
         /\ shown' \in [Jobs -> {"none", "queued", "running", "ended"}]
         /\ Remembered(j) => shown'[j] = step
         /\ ~Remembered(j) => shown'[j] = shown[j] /\ running' = running
         /\ history' = history
<1>1. shown \in [Jobs -> {"none", "queued", "running", "ended"}]
  BY DEF Tallied
<1>2. CASE Remembered(j)
  <2>1. shown' = [shown EXCEPT ![j] = step] /\ history' = history
    BY <1>2 DEF Record
  <2>. QED  BY <1>1, <1>2, <2>1
<1>3. CASE ~Remembered(j)
  <2>1. shown' = shown /\ running' = running /\ history' = history
    BY <1>3 DEF Record
  <2>. QED  BY <1>1, <1>3, <2>1
<1>. QED  BY <1>2, <1>3

\* A record keeps the tally, and what is known.
LEMMA RecordTallies ==
  ASSUME pc \in [Jobs -> Steps], Tallied, NEW j \in Jobs, NEW from, NEW to, NEW step \in {"running", "ended"},
         Go(j, from, to), Record(j, step), from \notin {"idle", "reserved"},
         to \notin {"idle", "reserved"} \cup Waiting, step = "running" => from \in Waiting
  PROVE  Tallied'
<1>. DEFINE s == SessionOf[j]
<1>. USE UiAssumption
<1>1. \A k \in Jobs : pc'[k] = IF k = j THEN to ELSE pc[k]
  BY DEF Go
<1>2. pc[j] = from /\ (step = "running" => shown[j] = "queued")
  BY DEF Go, Tallied
<1>3. /\ \A k \in Jobs : k # j => shown'[k] = shown[k]
      /\ shown' \in [Jobs -> {"none", "queued", "running", "ended"}]
      /\ Remembered(j) => shown'[j] = step
      /\ ~Remembered(j) => shown'[j] = shown[j] /\ running' = running
      /\ history' = history
  BY RecordShows
<1>4. running' \in [Sessions -> Nat] /\ \A t \in Sessions : running'[t] = Cardinality((Shown(t))')
  <2>1. \A t : (Shown(t))' = {k \in InSession(t) : shown'[k] = "running"}
    BY DEF Shown, InSession
  <2>2. \A t : t # s => (Shown(t))' = Shown(t)
    BY <1>3, <2>1 DEF Shown, InSession
  <2>3. CASE ~Remembered(j)
    <3>1. (Shown(s))' = Shown(s)
      BY <1>3, <2>1, <2>3 DEF Shown, InSession
    <3>2. running' = running
      BY <1>3, <2>3
    <3>3. \A t : (Shown(t))' = Shown(t)
      BY <2>2, <3>1
    <3>. QED  BY <3>2, <3>3 DEF Tallied
  <2>4. CASE Remembered(j)
    <3>1. running' = [running EXCEPT ![s] = Counted(j, step)] /\ shown'[j] = step /\ s \in Sessions
      BY <1>3, <2>4 DEF Record
    <3>2. running[s] = Cardinality(Shown(s)) /\ running[s] \in Nat /\ running \in [Sessions -> Nat]
      BY <3>1 DEF Tallied
    <3>3. IsFiniteSet(Shown(s))
      BY FewJobs DEF Shown
    <3>4. Counted(j, step) = Cardinality((Shown(s))') /\ Counted(j, step) \in Nat
      <4>1. CASE step = "running"
        <5>1. (Shown(s))' = Shown(s) \cup {j} /\ j \notin Shown(s)
          BY <1>2, <1>3, <2>1, <3>1, <4>1 DEF Shown, InSession
        <5>2. Cardinality(Shown(s) \cup {j}) = Cardinality(Shown(s)) + 1
          BY <3>3, <5>1, FS_AddElement
        <5>3. Counted(j, step) = running[s] + 1
          BY <1>2, <4>1, Zenon DEF Counted
        <5>. QED  BY <3>2, <5>1, <5>2, <5>3
      <4>2. CASE step # "running" /\ shown[j] = "running"
        <5>1. (Shown(s))' = Shown(s) \ {j} /\ j \in Shown(s)
          BY <1>3, <2>1, <3>1, <4>2 DEF Shown, InSession
        <5>2. Cardinality(Shown(s) \ {j}) = Cardinality(Shown(s)) - 1 /\ Cardinality(Shown(s) \ {j}) \in Nat
          BY <3>3, <5>1, FS_RemoveElement, FS_CardinalityType
        <5>3. running[s] > 0
          BY <3>2, <5>2
        <5>4. Counted(j, step) = running[s] - 1
          BY <4>2, <5>3 DEF Counted
        <5>. QED  BY <3>2, <5>1, <5>2, <5>4
      <4>3. CASE step # "running" /\ shown[j] # "running"
        <5>1. (Shown(s))' = Shown(s)
          BY <1>3, <2>1, <3>1, <4>3 DEF Shown, InSession
        <5>2. Counted(j, step) = running[s]
          BY <4>3 DEF Counted
        <5>. QED  BY <3>2, <5>1, <5>2
      <4>. QED  BY <4>1, <4>2, <4>3
    <3>5. running' \in [Sessions -> Nat]
      BY <3>1, <3>2, <3>4
    <3>6. ASSUME NEW t \in Sessions PROVE running'[t] = Cardinality((Shown(t))')
      <4>1. CASE t = s
        BY <3>1, <3>2, <3>4, <4>1
      <4>2. CASE t # s
        BY <2>2, <3>1, <3>2, <4>2 DEF Tallied
      <4>. QED  BY <4>1, <4>2
    <3>. QED  BY <3>5, <3>6
  <2>. QED  BY <2>3, <2>4
<1>5. \A t \in Sessions : \A i \in DOMAIN history'[t] :
        SessionOf[history'[t][i]] = t /\ shown'[history'[t][i]] # "none"
  <2>. SUFFICES ASSUME NEW t \in Sessions, NEW i \in DOMAIN history[t]
       PROVE SessionOf[history[t][i]] = t /\ shown'[history[t][i]] # "none"
    BY <1>3
  <2>1. SessionOf[history[t][i]] = t /\ shown[history[t][i]] # "none" /\ history[t][i] \in Jobs
    BY DEF Tallied
  <2>. QED  BY <1>3, <2>1
<1>6. \A k \in Jobs : pc'[k] \in {"idle", "reserved"} => shown'[k] = "none"
  BY <1>1, <1>3 DEF Tallied
<1>7. \A k \in Jobs : pc'[k] \in Waiting => shown'[k] = "queued"
  <2>1. \A k \in Jobs : pc'[k] \in Waiting => k # j /\ pc[k] \in Waiting
    BY <1>1
  <2>. QED  BY <1>3, <2>1 DEF Tallied
<1>8. history' \in [Sessions -> Seq(Jobs)] /\ \A t \in Sessions : Len(history'[t]) <= History
  BY <1>3 DEF Tallied
<1>. QED  BY <1>3, <1>4, <1>5, <1>6, <1>7, <1>8 DEF Tallied

\* Who is recorded was remembered.
LEMMA RecordKnown ==
  ASSUME pc \in [Jobs -> Steps], Tallied, AllKnown, NEW j \in Jobs, NEW from, NEW to,
         NEW step \in {"running", "ended"},
         Go(j, from, to), Record(j, step), from \in Waiting \cup AtWork, step = "running" <=> to \in AtWork
  PROVE  AllKnown'
<1>1. \A k \in Jobs : pc'[k] = IF k = j THEN to ELSE pc[k]
  BY DEF Go
<1>2. pc[j] = from /\ shown[j] # "none"
  BY DEF Go, Tallied, AllKnown
<1>3. Remembered(j)
  BY <1>2 DEF AllKnown
<1>4. shown'[j] = step /\ history' = history /\ \A k \in Jobs : k # j => shown'[k] = shown[k]
  BY <1>3, RecordShows
<1>5. \A t : (Told(t))' = Told(t)
  BY <1>2, <1>4 DEF Told, InSession
<1>6. \A k : (Remembered(k))' <=> Remembered(k)
  BY <1>4 DEF Remembered
<1>. QED  BY <1>1, <1>2, <1>3, <1>4, <1>5, <1>6 DEF AllKnown
\* What is added to the history, where what is forgotten makes room.
LEMMA Longer ==
  ASSUME Tallied, NEW j \in Jobs, Remember(j)
  PROVE  /\ history' \in [Sessions -> Seq(Jobs)] /\ \A t \in Sessions : Len(history'[t]) <= History
         /\ \A t \in Sessions : t # SessionOf[j] => history'[t] = history[t]
         /\ \A i \in DOMAIN history'[SessionOf[j]] :
              history'[SessionOf[j]][i] = j
              \/ \E k \in DOMAIN history[SessionOf[j]] : history'[SessionOf[j]][i] = history[SessionOf[j]][k]
         /\ Len(history[SessionOf[j]]) < History => history'[SessionOf[j]] = Append(history[SessionOf[j]], j)
<1>. DEFINE s == SessionOf[j]
            longer == Append(history[s], j)
<1>. USE UiAssumption
<1>1. s \in Sessions /\ history[s] \in Seq(Jobs) /\ Len(history[s]) \in Nat /\ Len(history[s]) <= History
  BY DEF Tallied
<1>2. /\ longer \in Seq(Jobs) /\ Len(longer) = Len(history[s]) + 1
      /\ \A i \in 1..Len(longer) : longer[i] = IF i = Len(longer) THEN j ELSE history[s][i]
      /\ longer # <<>>
  BY <1>1
<1>3. history' = [history EXCEPT ![s] = IF Len(longer) > History THEN Tail(longer) ELSE longer]
  BY DEF Remember
<1>. HIDE DEF longer
<1>4. /\ Tail(longer) \in Seq(Jobs) /\ Len(Tail(longer)) = Len(longer) - 1
      /\ \A i \in 1..(Len(longer) - 1) : Tail(longer)[i] = longer[i + 1]
  BY <1>1, <1>2
<1>5. history' \in [Sessions -> Seq(Jobs)] /\ \A t \in Sessions : t # s => history'[t] = history[t]
  BY <1>2, <1>3, <1>4 DEF Tallied
<1>6. history'[s] = IF Len(longer) > History THEN Tail(longer) ELSE longer
  BY <1>1, <1>3 DEF Tallied
<1>7. Len(history'[s]) <= History
  BY <1>1, <1>2, <1>4, <1>6
<1>8. \A t \in Sessions : Len(history'[t]) <= History
  BY <1>5, <1>7 DEF Tallied
<1>9. ASSUME NEW i \in DOMAIN history'[s]
      PROVE  history'[s][i] = j \/ \E k \in DOMAIN history[s] : history'[s][i] = history[s][k]
  <2>1. PICK l \in 1..Len(longer) : history'[s][i] = longer[l]
    <3>1. CASE Len(longer) > History
      <4>1. i \in 1..(Len(longer) - 1) /\ history'[s][i] = longer[i + 1]
        BY <1>4, <1>6, <3>1
      <4>2. i + 1 \in 1..Len(longer)
        BY <1>1, <1>2, <4>1
      <4>. QED  BY <4>1, <4>2
    <3>2. CASE ~(Len(longer) > History)
      BY <1>2, <1>6, <3>2
    <3>. QED  BY <3>1, <3>2
  <2>2. CASE l = Len(longer)
    BY <1>2, <2>1, <2>2
  <2>3. CASE l # Len(longer)
    <3>1. l \in 1..Len(history[s])
      BY <1>1, <1>2, <2>3
    <3>. QED  BY <1>1, <1>2, <2>1, <2>3, <3>1
  <2>. QED  BY <2>2, <2>3
<1>10. Len(history[s]) < History => history'[s] = longer
  BY <1>1, <1>2, <1>6
<1>. QED  BY <1>5, <1>8, <1>9, <1>10 DEF longer

\* A job that is enqueued is told of, and does not work yet.
LEMMA EnqueueTallies ==
  ASSUME pc \in [Jobs -> Steps], Tallied, NEW j \in Jobs, Enqueue(j) PROVE Tallied'
<1>. DEFINE s == SessionOf[j]
<1>. USE UiAssumption
<1>1. /\ pc[j] = "reserved" /\ Remember(j) /\ running' = running /\ shown' = [shown EXCEPT ![j] = "queued"]
      /\ pc' = [pc EXCEPT ![j] = "queued"]
  BY DEF Enqueue, Go, Remember
<1>2. shown[j] = "none" /\ s \in Sessions
  BY <1>1 DEF Tallied
<1>3. /\ shown' \in [Jobs -> {"none", "queued", "running", "ended"}] /\ shown'[j] = "queued"
      /\ \A k \in Jobs : k # j => shown'[k] = shown[k] /\ pc'[k] = pc[k]
      /\ pc'[j] = "queued"
  BY <1>1 DEF Tallied
<1>4. \A t : (Shown(t))' = Shown(t)
  <2>1. \A t : (Shown(t))' = {k \in InSession(t) : shown'[k] = "running"}
    BY DEF Shown, InSession
  <2>. QED  BY <1>2, <1>3, <2>1 DEF Shown, InSession
<1>5. \A t \in Sessions : \A i \in DOMAIN history'[t] :
        SessionOf[history'[t][i]] = t /\ shown'[history'[t][i]] # "none"
  <2>. SUFFICES ASSUME NEW t \in Sessions, NEW i \in DOMAIN history'[t]
       PROVE SessionOf[history'[t][i]] = t /\ shown'[history'[t][i]] # "none"
    OBVIOUS
  <2>1. \A k \in DOMAIN history[t] :
          SessionOf[history[t][k]] = t /\ shown[history[t][k]] # "none" /\ history[t][k] \in Jobs
    BY DEF Tallied
  <2>2. (t = s /\ history'[t][i] = j) \/ \E k \in DOMAIN history[t] : history'[t][i] = history[t][k]
    <3>1. CASE t = s
      BY <1>1, <3>1, Longer
    <3>2. CASE t # s
      <4>1. history'[t] = history[t]
        BY <1>1, <3>2, Longer
      <4>. QED  BY <4>1
    <3>. QED  BY <3>1, <3>2
  <2>3. CASE t = s /\ history'[t][i] = j
    BY <1>3, <2>3
  <2>4. ASSUME NEW k \in DOMAIN history[t], history'[t][i] = history[t][k]
        PROVE  SessionOf[history'[t][i]] = t /\ shown'[history'[t][i]] # "none"
    BY <1>2, <1>3, <2>1, <2>4
  <2>. QED  BY <2>2, <2>3, <2>4
<1>6. history' \in [Sessions -> Seq(Jobs)] /\ \A t \in Sessions : Len(history'[t]) <= History
  BY <1>1, Longer
<1>7. \A k \in Jobs : /\ pc'[k] \in {"idle", "reserved"} => shown'[k] = "none"
                      /\ pc'[k] \in Waiting => shown'[k] = "queued"
  BY <1>3 DEF Tallied
<1>8. running' \in [Sessions -> Nat] /\ \A t \in Sessions : running'[t] = Cardinality((Shown(t))')
  BY <1>1, <1>4 DEF Tallied
<1>. QED  BY <1>3, <1>5, <1>6, <1>7, <1>8 DEF Tallied

\* With room for all jobs of the session nothing is forgotten.
LEMMA EnqueueKnown ==
  ASSUME pc \in [Jobs -> Steps], Tallied, Ample, AllKnown, NEW j \in Jobs, Enqueue(j) PROVE AllKnown'
<1>. DEFINE s == SessionOf[j]
<1>. USE UiAssumption
<1>1. /\ pc[j] = "reserved" /\ Remember(j) /\ shown' = [shown EXCEPT ![j] = "queued"]
      /\ pc' = [pc EXCEPT ![j] = "queued"]
  BY DEF Enqueue, Go, Remember
<1>2. shown[j] = "none" /\ s \in Sessions /\ history[s] \in Seq(Jobs)
  BY <1>1 DEF Tallied
<1>3. /\ shown'[j] = "queued" /\ pc'[j] = "queued"
      /\ \A k \in Jobs : k # j => shown'[k] = shown[k] /\ pc'[k] = pc[k]
  BY <1>1 DEF Tallied
<1>4. \A t : (Told(t))' = {k \in InSession(t) : shown'[k] # "none"}
  BY DEF Told, InSession
<1>5. (Told(s))' = Told(s) \cup {j} /\ j \notin Told(s) /\ Told(s) \cup {j} \in SUBSET InSession(s)
  BY <1>2, <1>3, <1>4 DEF Told, InSession
<1>6. Cardinality((Told(s))') = Cardinality(Told(s)) + 1 /\ Cardinality(Told(s)) + 1 <= History
  <2>1. IsFiniteSet(Told(s)) /\ Cardinality(Told(s)) \in Nat
    BY FewJobs DEF Told
  <2>2. Cardinality(Told(s) \cup {j}) = Cardinality(Told(s)) + 1
    BY <1>5, <2>1, FS_AddElement
  <2>3. Cardinality(Told(s) \cup {j}) <= Cardinality(InSession(s)) /\ Cardinality(InSession(s)) \in Nat
    BY <1>5, FewJobs
  <2>4. Cardinality(InSession(s)) <= History
    BY <1>2 DEF Ample
  <2>. QED  BY <1>5, <2>1, <2>2, <2>3, <2>4
<1>7. Len(history[s]) = Cardinality(Told(s)) /\ Len(history[s]) \in Nat
  BY <1>2 DEF AllKnown
<1>8. history'[s] = Append(history[s], j) /\ \A t \in Sessions : t # s => history'[t] = history[t]
  <2>1. Len(history[s]) < History
    BY <1>6, <1>7
  <2>. QED  BY <1>1, <2>1, Longer
<1>9. \A t \in Sessions : Len(history'[t]) = Cardinality((Told(t))')
  <2>. SUFFICES ASSUME NEW t \in Sessions PROVE Len(history'[t]) = Cardinality((Told(t))')
    OBVIOUS
  <2>1. CASE t = s
    BY <1>2, <1>6, <1>7, <1>8, <2>1
  <2>2. CASE t # s
    <3>1. (Told(t))' = Told(t)
      BY <1>3, <1>4, <2>2 DEF Told, InSession
    <3>. QED  BY <1>8, <2>2, <3>1 DEF AllKnown
  <2>. QED  BY <2>1, <2>2
<1>10. ASSUME NEW k \in Jobs, shown'[k] # "none" PROVE (Remembered(k))'
  <2>. DEFINE t == SessionOf[k]
  <2>1. t \in Sessions
    OBVIOUS
  <2>2. \E i \in DOMAIN history'[t] : history'[t][i] = k
    <3>1. CASE k = j
      <4>1. Len(history[s]) + 1 \in DOMAIN history'[s] /\ history'[s][Len(history[s]) + 1] = j
        BY <1>2, <1>7, <1>8
      <4>. QED  BY <3>1, <4>1
    <3>2. CASE k # j
      <4>1. PICK i \in DOMAIN history[t] : history[t][i] = k
        BY <1>3, <1>10, <3>2 DEF AllKnown, Remembered
      <4>2. CASE t = s
        <5>1. i \in DOMAIN history'[s] /\ history'[s][i] = history[s][i]
          BY <1>2, <1>7, <1>8, <4>1, <4>2
        <5>. QED  BY <4>1, <4>2, <5>1
      <4>3. CASE t # s
        BY <1>8, <2>1, <4>1, <4>3
      <4>. QED  BY <4>2, <4>3
    <3>. QED  BY <3>1, <3>2
  <2>. QED  BY <2>2 DEF Remembered
<1>11. \A k \in Jobs : shown'[k] = "running" <=> pc'[k] \in AtWork
  BY <1>1, <1>2, <1>3 DEF AllKnown, AtWork
<1>. QED  BY <1>9, <1>10, <1>11 DEF AllKnown

\* A keeper that ends forgets its jobs.
LEMMA ExitTallies ==
  ASSUME Tallied, NEW s \in Sessions, Exit(s) PROVE Tallied' /\ (AllKnown => AllKnown')
<1>. USE UiAssumption
<1>1. /\ pc' = [j \in Jobs |-> IF SessionOf[j] = s THEN "done" ELSE pc[j]]
      /\ shown' = [j \in Jobs |-> IF SessionOf[j] = s THEN "none" ELSE shown[j]]
      /\ history' = [history EXCEPT ![s] = <<>>] /\ running' = [running EXCEPT ![s] = 0]
  BY DEF Exit
<1>2. \A t : /\ (Shown(t))' = IF t = s THEN {} ELSE Shown(t)
             /\ (Told(t))' = IF t = s THEN {} ELSE Told(t)
  <2>1. \A t : (Shown(t))' = {k \in InSession(t) : shown'[k] = "running"} /\ (Told(t))' = {k \in InSession(t) : shown'[k] # "none"}
    BY DEF Shown, Told, InSession
  <2>. QED  BY <1>1, <2>1 DEF Shown, Told, InSession
<1>3. Cardinality({}) = 0
  BY FS_EmptySet
<1>4. /\ history' \in [Sessions -> Seq(Jobs)]
      /\ \A t \in Sessions : history'[t] = IF t = s THEN <<>> ELSE history[t]
      /\ running' \in [Sessions -> Nat] /\ \A t \in Sessions : running'[t] = IF t = s THEN 0 ELSE running[t]
  BY <1>1 DEF Tallied
<1>5. Tallied'
  <2>1. \A t \in Sessions : Len(history'[t]) <= History
    BY <1>4 DEF Tallied
  <2>2. \A t \in Sessions : running'[t] = Cardinality((Shown(t))')
    BY <1>2, <1>3, <1>4 DEF Tallied
  <2>3. ASSUME NEW t \in Sessions, NEW i \in DOMAIN history'[t]
        PROVE SessionOf[history'[t][i]] = t /\ shown'[history'[t][i]] # "none"
    <3>1. t # s /\ history'[t] = history[t] /\ history[t] \in Seq(Jobs)
      BY <1>4, <2>3 DEF Tallied
    <3>2. history[t][i] \in Jobs /\ SessionOf[history[t][i]] = t /\ shown[history[t][i]] # "none"
      BY <2>3, <3>1 DEF Tallied
    <3>. QED  BY <1>1, <3>1, <3>2
  <2>4. /\ shown' \in [Jobs -> {"none", "queued", "running", "ended"}]
        /\ \A k \in Jobs : /\ pc'[k] \in {"idle", "reserved"} => shown'[k] = "none"
                           /\ pc'[k] \in Waiting => shown'[k] = "queued"
    BY <1>1 DEF Tallied, Waiting
  <2>. QED  BY <1>4, <2>1, <2>2, <2>3, <2>4 DEF Tallied
<1>6. ASSUME AllKnown PROVE AllKnown'
  <2>1. \A t \in Sessions : Len(history'[t]) = Cardinality((Told(t))')
    BY <1>2, <1>3, <1>4, <1>6 DEF AllKnown
  <2>2. ASSUME NEW k \in Jobs, shown'[k] # "none" PROVE (Remembered(k))'
    BY <1>1, <1>4, <1>6, <2>2 DEF AllKnown, Remembered
  <2>3. \A k \in Jobs : shown'[k] = "running" <=> pc'[k] \in AtWork
    BY <1>1, <1>6 DEF AllKnown, AtWork
  <2>. QED  BY <2>1, <2>2, <2>3 DEF AllKnown
<1>. QED  BY <1>5, <1>6
-----------------------------------------------------------------------------
\* With room in the history everything is known.
UiInv == LineInv /\ Tallied /\ Holders /\ (Ample => AllKnown)

\* At first nothing is under way.
LEMMA UiInit == Init => UiInv
  BY LineInit, TallyInit DEF UiInv

\* Desktop and lease are taken and given back by their holders.
LEMMA HoldersStep == LineInv /\ Holders /\ [Next]_vars => Holders'
<1>. SUFFICES ASSUME LineInv, Holders, [Next]_vars PROVE Holders'
  OBVIOUS
<1>. USE UiAssumption
<1>0. pc \in [Jobs -> Steps]
  BY DEF LineInv, GateLine, Seated
<1>1. ASSUME NEW j \in Jobs, NEW from, NEW to, Go(j, from, to), UNCHANGED <<desktop, vm, keeper>>,
             from \notin AtWork \cup {"finished"} \/ to \in AtWork \cup {"finished"}
      PROVE  Holders'
  BY <1>0, <1>1 DEF Go, Holders
<1>2. ASSUME NEW j \in Jobs,
             Accept(j) \/ DropReservation(j) \/ Enqueue(j) \/ Take(j) \/ GiveUp(j) \/ Withdraw(j) \/ Vanish(j)
      PROVE  Holders'
  <2>1. \E from \in {"idle", "reserved", "queued", "leaving"}, to \in Steps : Go(j, from, to)
    BY <1>2 DEF Accept, DropReservation, Enqueue, Take, GiveUp, Withdraw, Vanish, Steps
  <2>2. UNCHANGED <<desktop, vm, keeper>>
    BY <1>2 DEF Accept, DropReservation, Enqueue, Take, GiveUp, Withdraw, Vanish
  <2>. QED  BY <1>1, <2>1, <2>2 DEF AtWork
<1>3. ASSUME NEW j \in Jobs, DropTicket(j) \/ DesktopBusy(j) \/ End(j) \/ ReleaseTurn(j) PROVE Holders'
  <2>1. \E from, to \in Steps : Go(j, from, to)
                                /\ (from \notin AtWork \cup {"finished"} \/ to \in AtWork \cup {"finished"})
    BY <1>3 DEF DropTicket, DesktopBusy, End, ReleaseTurn, Steps, AtWork
  <2>2. UNCHANGED <<desktop, vm, keeper>>
    BY <1>3 DEF DropTicket, DesktopBusy, End, ReleaseTurn
  <2>. QED  BY <1>1, <2>1, <2>2
<1>4. ASSUME NEW j \in Jobs, TakeDesktop(j) PROVE Holders'
  BY <1>0, <1>4 DEF TakeDesktop, Go, Holders, AtWork
<1>5. ASSUME NEW j \in Jobs, TakeLease(j) PROVE Holders'
  BY <1>0, <1>5 DEF TakeLease, Go, Holders, AtWork
<1>6. ASSUME NEW j \in Jobs, ReleaseDesktop(j) PROVE Holders'
  BY <1>0, <1>6 DEF ReleaseDesktop, Go, Holders, AtWork
<1>7. ASSUME NEW j \in Jobs, ReleaseLease(j) PROVE Holders'
  BY <1>0, <1>7 DEF ReleaseLease, Go, Holders, AtWork
<1>8. ASSUME NEW s \in Sessions, Unwind(s) \/ Stop(s) PROVE Holders'
  BY <1>8 DEF Unwind, Stop, Holders
<1>9. ASSUME NEW s \in Sessions, Exit(s) PROVE Holders'
  BY <1>9 DEF Exit, Holders, InSession
<1>10. CASE UNCHANGED vars
  BY <1>10 DEF vars, Holders
<1>. QED
  BY <1>2, <1>3, <1>4, <1>5, <1>6, <1>7, <1>8, <1>9, <1>10
  DEF Next, Step, Abandon, Keep, Drained, TimedOut, Crash

\* A step that tells the registry nothing and moves no job keeps it.
LEMMA SameTally ==
  ASSUME Tallied, pc' = pc, UNCHANGED <<history, shown, running>> PROVE Tallied' /\ (AllKnown => AllKnown')
<1>1. \A s : (Shown(s))' = Shown(s) /\ (Told(s))' = Told(s)
  BY DEF Shown, Told, InSession
<1>2. \A k : (Remembered(k))' <=> Remembered(k)
  BY DEF Remembered
<1>3. Tallied'
  BY <1>1 DEF Tallied
<1>4. AllKnown => AllKnown'
  BY <1>1, <1>2 DEF AllKnown
<1>. QED  BY <1>3, <1>4

\* Every step keeps the tally.
LEMMA TallyStep ==
  LineInv /\ Tallied /\ (Ample => AllKnown) /\ [Next]_vars => Tallied' /\ (Ample => AllKnown')
<1>. SUFFICES ASSUME LineInv, Tallied, Ample => AllKnown, [Next]_vars PROVE Tallied' /\ (Ample => AllKnown')
  OBVIOUS
<1>. USE UiAssumption
<1>0. pc \in [Jobs -> Steps]
  BY DEF LineInv, GateLine, Seated
<1>1. ASSUME NEW j \in Jobs,
             \/ Accept(j) \/ DropReservation(j) \/ GiveUp(j) \/ Vanish(j) \/ DropTicket(j)
             \/ TakeLease(j) \/ ReleaseDesktop(j) \/ ReleaseTurn(j) \/ ReleaseLease(j)
      PROVE  Tallied' /\ (Ample => AllKnown')
  <2>1. UNCHANGED registry
    BY <1>1 DEF Accept, DropReservation, GiveUp, Vanish, DropTicket, TakeLease, ReleaseDesktop, ReleaseTurn, ReleaseLease
  <2>2. PICK from, to \in Steps :
          /\ Go(j, from, to) /\ to # "idle" /\ (to = "reserved" => from = "idle")
          /\ to \in Waiting => from \in Waiting
          /\ to \in AtWork <=> from \in AtWork
    <3>1. CASE Accept(j) \/ DropReservation(j) \/ GiveUp(j) \/ Vanish(j) \/ DropTicket(j)
      BY <3>1 DEF Accept, DropReservation, GiveUp, Vanish, DropTicket, Steps, Waiting, AtWork
    <3>2. CASE TakeLease(j) \/ ReleaseDesktop(j) \/ ReleaseTurn(j) \/ ReleaseLease(j)
      BY <3>2 DEF TakeLease, ReleaseDesktop, ReleaseTurn, ReleaseLease, Steps, Waiting, AtWork
    <3>. QED  BY <1>1, <3>1, <3>2
  <2>. QED  BY <1>0, <2>1, <2>2, GoTallies, GoKnown
<1>2. ASSUME NEW j \in Jobs, Enqueue(j) PROVE Tallied' /\ (Ample => AllKnown')
  BY <1>0, <1>2, EnqueueTallies, EnqueueKnown
<1>3. ASSUME NEW j \in Jobs, Take(j) PROVE Tallied' /\ (Ample => AllKnown')
  <2>1. CASE Go(j, "queued", "desktop") /\ UNCHANGED registry
    BY <1>0, <2>1, GoTallies, GoKnown DEF Waiting, AtWork
  <2>2. CASE Go(j, "queued", "entered") /\ Record(j, "running")
    BY <1>0, <2>2, RecordTallies, RecordKnown DEF Waiting, AtWork
  <2>. QED  BY <1>3, <2>1, <2>2 DEF Take
<1>4. ASSUME NEW j \in Jobs, TakeDesktop(j) PROVE Tallied' /\ (Ample => AllKnown')
  <2>1. Go(j, "desktop", "entered") /\ Record(j, "running")
    BY <1>4 DEF TakeDesktop
  <2>. QED  BY <1>0, <2>1, RecordTallies, RecordKnown DEF Waiting, AtWork
<1>5. ASSUME NEW j \in Jobs, Withdraw(j) \/ DesktopBusy(j) \/ End(j) PROVE Tallied' /\ (Ample => AllKnown')
  <2>1. PICK from \in {"leaving", "desktop", "entered", "running"}, to \in {"dropping", "released", "finished"} :
          Go(j, from, to) /\ Record(j, "ended")
    BY <1>5 DEF Withdraw, DesktopBusy, End
  <2>. QED  BY <1>0, <2>1, RecordTallies, RecordKnown DEF Waiting, AtWork
<1>6. ASSUME NEW s \in Sessions, Unwind(s) \/ Stop(s) PROVE Tallied' /\ (Ample => AllKnown')
  <2>1. pc' = pc /\ UNCHANGED <<history, shown, running>>
    BY <1>6 DEF Unwind, Stop, registry
  <2>. QED  BY <2>1, SameTally
<1>7. ASSUME NEW s \in Sessions, Exit(s) PROVE Tallied' /\ (Ample => AllKnown')
  BY <1>7, ExitTallies
<1>8. CASE UNCHANGED vars
  <2>1. pc' = pc /\ UNCHANGED <<history, shown, running>>
    BY <1>8 DEF vars, registry
  <2>. QED  BY <2>1, SameTally
<1>. QED
  BY <1>1, <1>2, <1>3, <1>4, <1>5, <1>6, <1>7, <1>8
  DEF Next, Step, Abandon, Keep, Drained, TimedOut, Crash

\* Every step keeps the invariant.
LEMMA UiStep == UiInv /\ [Next]_vars => UiInv'
<1>1. Ample' <=> Ample
  BY DEF Ample, InSession
<1>. QED  BY <1>1, LineStep, TallyStep, HoldersStep DEF UiInv

\* The types follow: no count exceeds the number of jobs.
LEMMA UiTyped == UiInv => TypeOK
<1>. SUFFICES ASSUME UiInv PROVE TypeOK
  OBVIOUS
<1>. USE UiAssumption
<1>1. /\ pc \in [Jobs -> Steps] /\ entry \in [Jobs -> Slots] /\ chan \in [Jobs -> Channels]
      /\ busy \in [Sessions -> BOOLEAN] /\ orphan \in [Sessions -> BOOLEAN]
  BY DEF UiInv, LineInv, GateLine, Seated
<1>2. place \in [Jobs -> 0..Cardinality(Jobs)]
  <2>1. ASSUME NEW j \in Jobs PROVE place[j] \in 0..Cardinality(Jobs)
    <3>1. place[j] \in Nat /\ place[j] <= Cardinality(Placed(SessionOf[j]))
      BY DEF UiInv, LineInv, Places
    <3>2. /\ Cardinality(Placed(SessionOf[j])) \in Nat /\ Cardinality(Jobs) \in Nat
          /\ Cardinality(Placed(SessionOf[j])) <= Cardinality(Jobs)
      BY FewJobs DEF Placed
    <3>. QED  BY <3>1, <3>2
  <2>2. place \in [Jobs -> Nat]
    BY DEF UiInv, LineInv, Places
  <2>. QED  BY <2>1, <2>2
<1>3. running \in [Sessions -> 0..Cardinality(Jobs)]
  <2>1. ASSUME NEW s \in Sessions PROVE running[s] \in 0..Cardinality(Jobs)
    <3>1. running[s] \in Nat /\ running[s] = Cardinality(Shown(s))
      BY DEF UiInv, Tallied
    <3>2. Cardinality(Jobs) \in Nat /\ Cardinality(Shown(s)) <= Cardinality(Jobs)
      BY FewJobs DEF Shown
    <3>. QED  BY <3>1, <3>2
  <2>2. running \in [Sessions -> Nat]
    BY DEF UiInv, Tallied
  <2>. QED  BY <2>1, <2>2
<1>4. \A s \in Sessions : Len(history[s]) <= History /\ \A i \in DOMAIN history[s] : history[s][i] \in Jobs
  BY DEF UiInv, Tallied
<1>. QED  BY <1>1, <1>2, <1>3, <1>4 DEF UiInv, Holders, Tallied, TypeOK, Steps, Slots, Channels

-----------------------------------------------------------------------------
\* Who waits with its request read, or is at work, is in the history still.
NoneForgotten ==
  \A j \in Jobs : pc[j] \in {"queued", "desktop", "entered", "running"} => Remembered(j)

\* Who is at work is shown so, and nobody else.
WorkShown == \A j \in Jobs : shown[j] = "running" <=> pc[j] \in AtWork

\* A job that goes on, with the registry told or not.
LEMMA GoShown ==
  ASSUME pc \in [Jobs -> Steps], WorkShown, NEW j \in Jobs, NEW from, NEW to, Go(j, from, to),
         \A k \in Jobs : k # j => shown'[k] = shown[k],
         shown'[j] = "running" <=> to \in AtWork
  PROVE  WorkShown'
  BY DEF WorkShown, Go

\* Every step shows who works, as long as the history forgets none of them.
LEMMA ShownStep == LineInv /\ Tallied /\ NoneForgotten /\ WorkShown /\ [Next]_vars => WorkShown'
<1>. SUFFICES ASSUME LineInv, Tallied, NoneForgotten, WorkShown, [Next]_vars PROVE WorkShown'
  OBVIOUS
<1>. USE UiAssumption
<1>0. pc \in [Jobs -> Steps]
  BY DEF LineInv, GateLine, Seated
<1>1. ASSUME NEW j \in Jobs, NEW from, NEW to, Go(j, from, to), UNCHANGED registry,
             to \in AtWork <=> from \in AtWork
      PROVE  WorkShown'
  <2>1. shown' = shown /\ pc[j] = from
    BY <1>1 DEF registry, Go
  <2>2. shown'[j] = "running" <=> to \in AtWork
    BY <1>1, <2>1 DEF WorkShown
  <2>. QED  BY <1>0, <1>1, <2>1, <2>2, GoShown
<1>2. ASSUME NEW j \in Jobs, NEW from \in {"queued", "desktop", "entered", "running"}, NEW to,
             NEW step \in {"running", "ended"}, Go(j, from, to), Record(j, step),
             step = "running" <=> to \in AtWork
      PROVE  WorkShown'
  <2>1. Remembered(j)
    BY <1>2 DEF Go, NoneForgotten
  <2>2. shown'[j] = step /\ \A k \in Jobs : k # j => shown'[k] = shown[k]
    BY <1>2, <2>1, RecordShows
  <2>. QED  BY <1>0, <1>2, <2>2, GoShown
<1>3. ASSUME NEW j \in Jobs,
             \/ Accept(j) \/ DropReservation(j) \/ GiveUp(j) \/ Vanish(j) \/ DropTicket(j)
             \/ TakeLease(j) \/ ReleaseDesktop(j) \/ ReleaseTurn(j) \/ ReleaseLease(j)
      PROVE  WorkShown'
  <2>1. UNCHANGED registry
    BY <1>3 DEF Accept, DropReservation, GiveUp, Vanish, DropTicket, TakeLease, ReleaseDesktop, ReleaseTurn, ReleaseLease
  <2>2. \E from, to \in Steps : Go(j, from, to) /\ (to \in AtWork <=> from \in AtWork)
    BY <1>3 DEF Accept, DropReservation, GiveUp, Vanish, DropTicket, TakeLease, ReleaseDesktop, ReleaseTurn,
                ReleaseLease, Steps, AtWork
  <2>. QED  BY <1>1, <2>1, <2>2
<1>4. ASSUME NEW j \in Jobs, Enqueue(j) PROVE WorkShown'
  <2>1. Go(j, "reserved", "queued") /\ shown' = [shown EXCEPT ![j] = "queued"]
    BY <1>4 DEF Enqueue, Remember
  <2>2. shown'[j] = "queued" /\ \A k \in Jobs : k # j => shown'[k] = shown[k]
    BY <2>1 DEF Tallied
  <2>. QED  BY <1>0, <2>1, <2>2, GoShown DEF AtWork
<1>5. ASSUME NEW j \in Jobs, Take(j) \/ TakeDesktop(j) PROVE WorkShown'
  <2>1. CASE Go(j, "queued", "desktop") /\ UNCHANGED registry
    BY <1>1, <2>1 DEF AtWork
  <2>2. CASE \E from \in {"queued", "desktop"} : Go(j, from, "entered") /\ Record(j, "running")
    BY <1>2, <2>2 DEF AtWork
  <2>. QED  BY <1>5, <2>1, <2>2 DEF Take, TakeDesktop
<1>6. ASSUME NEW j \in Jobs, DesktopBusy(j) \/ End(j) PROVE WorkShown'
  <2>1. \E from \in {"desktop", "entered", "running"}, to \in {"released", "finished"} :
          Go(j, from, to) /\ Record(j, "ended")
    BY <1>6 DEF DesktopBusy, End
  <2>. QED  BY <1>2, <2>1 DEF AtWork
<1>7. ASSUME NEW j \in Jobs, Withdraw(j) PROVE WorkShown'
  <2>1. Go(j, "leaving", "dropping") /\ Record(j, "ended")
    BY <1>7 DEF Withdraw
  <2>2. shown[j] = "queued" /\ shown'[j] \in {shown[j], "ended"} /\ \A k \in Jobs : k # j => shown'[k] = shown[k]
    BY <2>1, RecordShows DEF Go, Tallied, Waiting
  <2>. QED  BY <1>0, <2>1, <2>2, GoShown DEF AtWork
<1>8. ASSUME NEW s \in Sessions, Unwind(s) \/ Stop(s) PROVE WorkShown'
  BY <1>8 DEF Unwind, Stop, registry, WorkShown
<1>9. ASSUME NEW s \in Sessions, Exit(s) PROVE WorkShown'
  BY <1>9 DEF Exit, WorkShown, AtWork
<1>10. CASE UNCHANGED vars
  BY <1>10 DEF vars, registry, WorkShown
<1>. QED
  BY <1>3, <1>4, <1>5, <1>6, <1>7, <1>8, <1>9, <1>10
  DEF Next, Step, Abandon, Keep, Drained, TimedOut, Crash

\* Then the count is that of the jobs at work.
LEMMA CountIsTrue == Tallied /\ WorkShown => RunningIsCounted
<1>. SUFFICES ASSUME Tallied, WorkShown, NEW s \in Sessions
     PROVE  running[s] = Cardinality({j \in InSession(s) : pc[j] \in {"entered", "running"}})
  BY DEF RunningIsCounted
<1>1. Shown(s) = {j \in InSession(s) : pc[j] \in {"entered", "running"}}
  BY DEF WorkShown, Shown, InSession, AtWork
<1>. QED  BY <1>1 DEF Tallied

\* A history with room for every job of a session forgets none.
LEMMA RoomForAll == UiInv /\ Ample => NoneForgotten
  BY DEF UiInv, Tallied, AllKnown, NoneForgotten, Waiting, AtWork
-----------------------------------------------------------------------------
\* The variables of gates, registries, desktop and lease have their types, and no count exceeds
\* the number of jobs, for any number of jobs and sessions.
THEOREM UiTypes == Spec => []TypeOK
  BY UiInit, UiStep, UiTyped, PTL DEF Spec

\* The jobs of a session take their turns in the order they were accepted, nobody who is ready
\* waits for a turn at home, and the desktop is held within a turn (coordination.rs pump and
\* Turn::drop, cli/ui.rs), however many callers give up, vanish or die.
THEOREM TurnsInOrder == Spec => [](LineMoves /\ DesktopWithinTurn)
<1>1. UiInv => LineMoves /\ DesktopWithinTurn
  BY InOrder DEF UiInv, Holders, DesktopWithinTurn, HasTurn, AtWork
<1>. QED  BY <1>1, UiInit, UiStep, PTL DEF Spec

\* As long as the history (coordination.rs HISTORY) forgets nobody who waits or works, the count
\* that the drain of a keeper looks at is, besides, that of the jobs at work.
THEOREM LinesAreKept == Spec /\ []NoneForgotten => []LineIsKept
<1>1. Init => UiInv /\ WorkShown
  BY UiInit DEF Init, WorkShown, AtWork
<1>2. UiInv /\ WorkShown /\ NoneForgotten /\ [Next]_vars => UiInv' /\ WorkShown'
  BY UiStep, ShownStep DEF UiInv
<1>3. UiInv /\ WorkShown => LineIsKept
  BY InOrder, CountIsTrue
  DEF UiInv, Holders, LineIsKept, AdmittedAreKnown, DesktopWithinTurn, HasTurn, AtWork
<1>. QED  BY <1>1, <1>2, <1>3, PTL DEF Spec

\* It forgets nobody where it has room for every job of a session, as in the runs.
THEOREM RoomSuffices == ASSUME Ample PROVE Spec => []LineIsKept
<1>1. UiInv => NoneForgotten
  BY RoomForAll
<1>. QED  BY <1>1, UiInit, UiStep, LinesAreKept, PTL DEF Spec

(***************************************************************************)
(* The list of projects in the window, for any directories, projects and   *)
(* bounds.  What makes the invariant inductive is the scan asked for last: *)
(* while its directory has been watched since its walk, what it saw is     *)
(* there, or word of a change is on its way (Announced) as far as the next *)
(* request.  An answer is the end of that scan only in AnswerArrives.      *)
(***************************************************************************)

Watchers == [on : Directories \union {Nowhere}, due : BOOLEAN, through : SUBSET Nat]
HookStates ==
  [source : Directories, inFlight : Directories \union {Nowhere},
   timer : BOOLEAN, queued : BOOLEAN, missed : BOOLEAN,
   status : {"loading", "stale", "ready", "error"}, shown : SUBSET Projects, whole : BOOLEAN]
Preferences == [kept : SUBSET Projects, safe : SUBSET Projects]
Workspaces ==
  [files : SUBSET Projects, changes : 0..MaxFileChanges, root : Directories, moves : 0..MaxMoves]

WorkTypes ==
  /\ workspace \in Workspaces
  /\ scans \in [asked : Seq(ScanRecord), latest : Nat]
  /\ scans.asked # <<>> /\ Len(scans.asked) <= MaxScans /\ scans.latest \in 0..Len(scans.asked)
  /\ watcher \in Watchers /\ watcher.through \subseteq Numbers
  /\ favorites \in Preferences /\ hook \in HookStates

\* What must stay is there, and is seen by the scan that may decide about it.
SafeIsSeen ==
  /\ favorites.safe \subseteq workspace.files
  /\ \A r \in Numbers :
       r = scans.latest /\ Scan(r).at = "walked" /\ Scan(r).whole =>
         favorites.safe \intersect In(Scan(r).root) \subseteq Scan(r).sees

\* The scan asked for last, and word of a change that it may not have seen.
Last == Len(scans.asked)
Announced == watcher.due \/ hook.timer \/ hook.queued \/ hook.missed

\* What the last scan saw, and what was shown of it, is there or a change is announced.
Current(s, list, status, whole) ==
  Last \in watcher.through =>
    /\ s.at \in {"walked", "answered", "over"}
    /\ (s.at = "walked" \/ (s.at = "answered" /\ s.ok)) /\ s.whole =>
         \/ Announced
         \/ watcher.on # Nowhere /\ s.root = watcher.on /\ s.sees = In(watcher.on) \intersect workspace.files
    /\ s.at = "over" /\ status = "ready" /\ whole =>
         \/ Announced
         \/ watcher.on # Nowhere /\ list = In(watcher.on) \intersect workspace.files

LastIsCurrent ==
  Scan(Last).source = hook.source /\ Current(Scan(Last), hook.shown, hook.status, hook.whole)

\* What is scanned is a directory.
Rooted == \A r \in Numbers : Scan(r).at \in {"loaded", "begun", "watched"} => Scan(r).root # Nowhere

WorkInv == WorkTypes /\ SafeIsSeen /\ FavoritesStay /\ Rooted /\ LastIsCurrent

LEMMA AskedExcept ==
  ASSUME NEW s \in Seq(ScanRecord), NEW r \in 1..Len(s), NEW e \in ScanRecord
  PROVE  /\ [s EXCEPT ![r] = e] \in Seq(ScanRecord)
         /\ Len([s EXCEPT ![r] = e]) = Len(s) /\ [s EXCEPT ![r] = e] # <<>>
         /\ \A i \in 1..Len(s) : [s EXCEPT ![r] = e][i] = IF i = r THEN e ELSE s[i]
<1>1. /\ [s EXCEPT ![r] = e] \in Seq(ScanRecord) /\ Len([s EXCEPT ![r] = e]) = Len(s)
      /\ \A i \in 1..Len(s) : [s EXCEPT ![r] = e][i] = IF i = r THEN e ELSE s[i]
  BY ExceptSeq
<1>2. Len(s) \in Nat /\ Len(s) >= 1
  BY LenProperties
<1>3. [s EXCEPT ![r] = e] # <<>>
  BY <1>1, <1>2, EmptySeq
<1> QED
  BY <1>1, <1>3

LEMMA ScansHaveTypes ==
  ASSUME WorkTypes
  PROVE  /\ Len(scans.asked) \in Nat \ {0} /\ Last \in Numbers
         /\ \A r \in Numbers : Scan(r) \in ScanRecord
<1>1. scans.asked \in Seq(ScanRecord) /\ scans.asked # <<>>
  BY DEF WorkTypes
<1>2. Len(scans.asked) \in Nat \ {0}
  BY <1>1, LenProperties, EmptySeq
<1>3. \A r \in Numbers : Scan(r) \in ScanRecord
  BY <1>1, ElementOfSeq DEF Numbers, Scan
<1> QED
  BY <1>2, <1>3 DEF Numbers, Last


LEMMA WorkStart == WorkspaceInit => WorkInv
<1> SUFFICES ASSUME WorkspaceInit PROVE WorkInv
  OBVIOUS
<1> USE WorkspaceAssumption DEF WorkspaceInit
<1>1. NewScan(workspace.root) \in ScanRecord
  BY DEF NewScan, ScanRecord
<1>2. /\ scans.asked \in Seq(ScanRecord) /\ Len(scans.asked) = 1 /\ scans.asked # <<>>
      /\ scans.asked[1] = NewScan(workspace.root)
  BY <1>1
<1>3. scans \in [asked : Seq(ScanRecord), latest : Nat]
  BY <1>2
<1>4. hook \in HookStates /\ watcher \in Watchers /\ favorites \in Preferences
  BY DEF HookStates, Watchers, Preferences
<1>5. workspace \in Workspaces
  BY DEF Workspaces
<1>6. WorkTypes
  BY <1>2, <1>3, <1>4, <1>5 DEF WorkTypes
<1>7. SafeIsSeen /\ FavoritesStay
  BY DEF SafeIsSeen, FavoritesStay
<1>9. Rooted
  BY <1>2 DEF Rooted, Numbers, Scan, NewScan
<1>8. LastIsCurrent
  BY <1>2 DEF LastIsCurrent, Current, Last, Scan, NewScan
<1> QED
  BY <1>6, <1>7, <1>8, <1>9 DEF WorkInv

\* One scan goes on, the others stay what they are.
LEMMA OneScanGoes ==
  ASSUME WorkTypes, NEW r \in Numbers, NEW e \in ScanRecord,
         scans'.asked = [scans.asked EXCEPT ![r] = e]
  PROVE  /\ scans'.asked \in Seq(ScanRecord) /\ scans'.asked # <<>>
         /\ Numbers' = Numbers /\ Last' = Last /\ Len(scans'.asked) = Len(scans.asked)
         /\ \A i \in Numbers : Scan(i)' = IF i = r THEN e ELSE Scan(i)
<1>1. scans.asked \in Seq(ScanRecord) /\ r \in 1..Len(scans.asked)
  BY DEF WorkTypes, Numbers
<1>2. /\ scans'.asked \in Seq(ScanRecord) /\ scans'.asked # <<>>
      /\ Len(scans'.asked) = Len(scans.asked)
      /\ \A i \in 1..Len(scans.asked) : scans'.asked[i] = IF i = r THEN e ELSE scans.asked[i]
  BY <1>1, AskedExcept
<1> QED
  BY <1>2 DEF Numbers, Last, Scan

-----------------------------------------------------------------------------
(* The workspace and its watcher *)

\* Steps that leave the scans alone.
LEMMA ScansUnchanged ==
  ASSUME WorkTypes, scans' = scans
  PROVE  /\ Numbers' = Numbers /\ Last' = Last /\ \A i \in Numbers : Scan(i)' = Scan(i)
         /\ scans' \in [asked : Seq(ScanRecord), latest : Nat]
         /\ scans'.asked # <<>> /\ Len(scans'.asked) <= MaxScans
         /\ scans'.latest \in 0..Len(scans'.asked)
  BY DEF WorkTypes, Numbers, Last, Scan

LEMMA FilesChange == WorkInv /\ ChangeFiles => WorkInv'
<1> SUFFICES ASSUME WorkInv, ChangeFiles PROVE WorkInv'
  OBVIOUS
<1> USE DEF WorkInv
<1>1. PICK p \in Projects :
        /\ workspace' = [workspace EXCEPT !.changes = @ + 1,
                           !.files = IF p \in workspace.files THEN @ \ {p} ELSE @ \union {p}]
        /\ watcher' = [watcher EXCEPT !.due = @ \/ p \in In(watcher.on)]
        /\ favorites' = [favorites EXCEPT !.safe = @ \ {p}]
  BY DEF ChangeFiles
<1>2. workspace.changes < MaxFileChanges /\ scans' = scans /\ hook' = hook
  BY DEF ChangeFiles
<1>3. /\ Numbers' = Numbers /\ Last' = Last /\ \A i \in Numbers : Scan(i)' = Scan(i)
      /\ scans' \in [asked : Seq(ScanRecord), latest : Nat]
      /\ scans'.asked # <<>> /\ Len(scans'.asked) <= MaxScans
      /\ scans'.latest \in 0..Len(scans'.asked)
  BY <1>2, ScansUnchanged
<1>4. /\ workspace \in Workspaces /\ watcher \in Watchers /\ favorites \in Preferences
      /\ watcher.through \subseteq Numbers /\ hook \in HookStates
  BY DEF WorkTypes
<1>5. /\ workspace'.files = IF p \in workspace.files THEN workspace.files \ {p} ELSE workspace.files \union {p}
      /\ workspace' \in Workspaces
  <2>1. workspace.changes + 1 \in 0..MaxFileChanges
    BY <1>2, <1>4, WorkspaceAssumption DEF Workspaces
  <2>2. workspace'.changes = workspace.changes + 1 /\ workspace'.root = workspace.root
    BY <1>1, <1>4 DEF Workspaces
  <2>3. workspace'.files = IF p \in workspace.files THEN workspace.files \ {p} ELSE workspace.files \union {p}
    BY <1>1, <1>4 DEF Workspaces
  <2>4. workspace'.files \in SUBSET Projects
    BY <2>3, <1>4 DEF Workspaces
  <2> QED
    BY <1>1, <1>4, <2>1, <2>2, <2>3, <2>4 DEF Workspaces
<1>6. /\ watcher' \in Watchers /\ watcher'.on = watcher.on /\ watcher'.through = watcher.through
      /\ watcher'.due = (watcher.due \/ p \in In(watcher.on))
  BY <1>1, <1>4 DEF Watchers
<1>7. /\ favorites' \in Preferences /\ favorites'.kept = favorites.kept
      /\ favorites'.safe = favorites.safe \ {p}
  BY <1>1, <1>4 DEF Preferences
<1>8. WorkTypes'
  BY <1>2, <1>3, <1>4, <1>5, <1>6, <1>7 DEF WorkTypes
<1>9. FavoritesStay' /\ SafeIsSeen'
  BY <1>2, <1>3, <1>5, <1>7 DEF FavoritesStay, SafeIsSeen
<1>10. Rooted'
  BY <1>3 DEF Rooted
<1>11. Announced' \/ (~Announced /\ In(watcher.on) \intersect workspace'.files = In(watcher.on) \intersect workspace.files)
       \/ (Announced /\ Announced')
  BY <1>2, <1>5, <1>6 DEF Announced
<1>12. Last \in Numbers
  BY ScansHaveTypes
<1>13. LastIsCurrent'
  BY <1>2, <1>3, <1>6, <1>11, <1>12 DEF LastIsCurrent, Current
<1> QED
  BY <1>8, <1>9, <1>10, <1>13

LEMMA DirectorySaved == WorkInv /\ SaveDirectory => WorkInv'
<1> SUFFICES ASSUME WorkInv, SaveDirectory PROVE WorkInv'
  OBVIOUS
<1> USE DEF WorkInv
<1>1. PICK d \in Directories : workspace' = [workspace EXCEPT !.root = d, !.moves = @ + 1]
  BY DEF SaveDirectory
<1>2. /\ workspace.moves < MaxMoves
      /\ scans' = scans /\ hook' = hook /\ watcher' = watcher /\ favorites' = favorites
  BY DEF SaveDirectory
<1>3. workspace'.files = workspace.files /\ workspace' \in Workspaces
  <2>1. workspace \in Workspaces
    BY DEF WorkTypes
  <2>2. workspace.moves + 1 \in 0..MaxMoves
    BY <1>2, <2>1, WorkspaceAssumption DEF Workspaces
  <2> QED
    BY <1>1, <2>1, <2>2 DEF Workspaces
<1>4. WorkTypes'
  BY <1>2, <1>3 DEF WorkTypes, Numbers
<1> QED
  BY <1>2, <1>3, <1>4
     DEF FavoritesStay, SafeIsSeen, Rooted, LastIsCurrent, Current, Announced, Numbers, Last, Scan

\* A watcher that fails leaves word that something may have changed; so does the event sent on.
LEMMA WatcherTells == WorkInv /\ (WatcherFails \/ EmitChange) => WorkInv'
<1> SUFFICES ASSUME WorkInv, WatcherFails \/ EmitChange PROVE WorkInv'
  OBVIOUS
<1> USE DEF WorkInv
<1>1. /\ workspace' = workspace /\ scans' = scans /\ favorites' = favorites
      /\ watcher \in Watchers /\ hook \in HookStates
  BY DEF WatcherFails, EmitChange, WorkTypes
<1>2. /\ watcher' \in Watchers /\ watcher'.through = watcher.through
      /\ hook' \in HookStates /\ hook'.source = hook.source /\ hook'.shown = hook.shown
      /\ hook'.status = hook.status /\ hook'.whole = hook.whole
      /\ watcher'.due \/ hook'.timer
  BY <1>1 DEF WatcherFails, EmitChange, Watchers, HookStates
<1>3. WorkTypes'
  BY <1>1, <1>2 DEF WorkTypes, Numbers
<1>4. FavoritesStay' /\ SafeIsSeen' /\ Rooted'
  BY <1>1 DEF FavoritesStay, SafeIsSeen, Rooted, Numbers, Scan
<1>5. Last' = Last /\ Scan(Last)' = Scan(Last)
  BY <1>1 DEF Last, Scan
<1>6. LastIsCurrent'
  BY <1>2, <1>5 DEF LastIsCurrent, Current, Announced
<1> QED
  BY <1>3, <1>4, <1>6

-----------------------------------------------------------------------------
(* The scans *)

\* What a step of one scan r, after which it is e, needs to keep of the invariant.
LEMMA ScanKeepsInv ==
  ASSUME WorkInv, NEW r \in Numbers, NEW e \in ScanRecord,
         scans' \in [asked : Seq(ScanRecord), latest : Nat],
         scans'.asked = [scans.asked EXCEPT ![r] = e],
         scans'.latest \in {scans.latest, r},
         workspace' = workspace, hook' = hook,
         watcher' \in Watchers, watcher'.due = watcher.due,
         favorites' \in Preferences, favorites'.safe \subseteq favorites'.kept,
         favorites'.safe \subseteq favorites.safe \union workspace.files,
         \A i \in Numbers : i # r /\ i = scans'.latest /\ Scan(i).at = "walked" =>
           scans'.latest = scans.latest /\ favorites'.safe \subseteq favorites.safe,
         r = scans'.latest /\ e.at = "walked" /\ e.whole =>
           favorites'.safe \intersect In(e.root) \subseteq e.sees,
         e.at \in {"loaded", "begun", "watched"} => e.root # Nowhere,
         e.source = Scan(r).source,
         watcher'.through \subseteq Numbers,
         Last \in watcher'.through \ watcher.through => r = Last,
         Last \in watcher'.through =>
           watcher'.on = watcher.on \/ watcher.on = Nowhere,
         r = Last /\ Last \in watcher'.through =>
           /\ e.at \in {"walked", "answered"}
           /\ (e.at = "answered" => e.ok) /\ e.whole =>
                Announced \/ (watcher'.on # Nowhere /\ e.root = watcher'.on
                              /\ e.sees = In(watcher'.on) \intersect workspace.files)
  PROVE  WorkInv'
<1> USE DEF WorkInv
<1>1. /\ scans'.asked \in Seq(ScanRecord) /\ scans'.asked # <<>>
      /\ Numbers' = Numbers /\ Last' = Last /\ Len(scans'.asked) = Len(scans.asked)
      /\ \A i \in Numbers : Scan(i)' = IF i = r THEN e ELSE Scan(i)
  BY OneScanGoes
<1>2. scans'.latest \in 0..Len(scans'.asked)
  BY <1>1 DEF WorkTypes, Numbers
<1>3. WorkTypes'
  BY <1>1, <1>2 DEF WorkTypes
<1>4. FavoritesStay'
  BY DEF FavoritesStay
<1>5. SafeIsSeen'
  <2>1. favorites'.safe \subseteq workspace'.files
    BY DEF SafeIsSeen
  <2>2. ASSUME NEW i \in Numbers, i = scans'.latest, Scan(i)'.at = "walked", Scan(i)'.whole
        PROVE  favorites'.safe \intersect In(Scan(i)'.root) \subseteq Scan(i)'.sees
    <3>1. CASE i = r
      BY <1>1, <2>2, <3>1
    <3>2. CASE i # r
      BY <1>1, <2>2, <3>2 DEF SafeIsSeen
    <3> QED
      BY <3>1, <3>2
  <2> QED
    BY <1>1, <2>1, <2>2 DEF SafeIsSeen
<1>6. Rooted'
  BY <1>1 DEF Rooted
<1>7. Last \in Numbers
  BY ScansHaveTypes
<1>8. LastIsCurrent'
  <2>1. Scan(Last)' = IF Last = r THEN e ELSE Scan(Last)
    BY <1>1, <1>7
  <2>2. Scan(Last)'.source = hook'.source
    BY <2>1 DEF LastIsCurrent
  <2>3. Announced' <=> Announced
    BY DEF Announced
  <2>4. CASE Last = r
    BY <1>1, <2>1, <2>2, <2>3, <2>4 DEF LastIsCurrent, Current
  <2>5. CASE Last # r
    BY <1>1, <2>1, <2>2, <2>3, <2>5 DEF LastIsCurrent, Current
  <2> QED
    BY <2>4, <2>5
<1> QED
  BY <1>3, <1>4, <1>5, <1>6, <1>8

LEMMA ScanStepFacts ==
  ASSUME WorkInv, NEW r \in Numbers
  PROVE  /\ Scan(r) \in ScanRecord /\ scans \in [asked : Seq(ScanRecord), latest : Nat]
         /\ watcher \in Watchers /\ favorites \in Preferences /\ workspace \in Workspaces
         /\ watcher.through \subseteq Numbers /\ r \in Nat
         /\ \A e \in ScanRecord : [scans.asked EXCEPT ![r] = e] \in Seq(ScanRecord)
<1>1. WorkTypes
  BY DEF WorkInv
<1>2. Scan(r) \in ScanRecord
  BY <1>1, ScansHaveTypes
<1>3. scans.asked \in Seq(ScanRecord) /\ r \in 1..Len(scans.asked)
  BY <1>1 DEF WorkTypes, Numbers
<1>4. \A e \in ScanRecord : [scans.asked EXCEPT ![r] = e] \in Seq(ScanRecord)
  BY <1>3, AskedExcept
<1> QED
  BY <1>1, <1>2, <1>4 DEF WorkTypes, Numbers

LEMMA ConfigLoaded == ASSUME WorkInv, NEW r \in Numbers, LoadConfig(r) PROVE WorkInv'
<1> DEFINE e == [Scan(r) EXCEPT !.at = "loaded", !.root = workspace.root]
<1>1. /\ Scan(r) \in ScanRecord /\ scans \in [asked : Seq(ScanRecord), latest : Nat]
      /\ watcher \in Watchers /\ favorites \in Preferences /\ workspace \in Workspaces
      /\ watcher.through \subseteq Numbers
      /\ \A x \in ScanRecord : [scans.asked EXCEPT ![r] = x] \in Seq(ScanRecord)
  BY ScanStepFacts
<1>2. /\ Scan(r).at = "asked" /\ scans' = [scans EXCEPT !.asked[r] = e]
      /\ workspace' = workspace /\ watcher' = watcher /\ favorites' = favorites /\ hook' = hook
  BY DEF LoadConfig, ScanGoes
<1>3. /\ e \in ScanRecord /\ e.at = "loaded" /\ e.root \in Directories
      /\ e.source = Scan(r).source
  BY <1>1 DEF ScanRecord, Workspaces
<1> HIDE DEF e
<1>4. /\ scans' \in [asked : Seq(ScanRecord), latest : Nat] /\ scans'.latest = scans.latest
      /\ scans'.asked = [scans.asked EXCEPT ![r] = e]
  BY <1>1, <1>2, <1>3
<1>5. r = Last => Last \notin watcher.through
  BY <1>2 DEF WorkInv, LastIsCurrent, Current
<1>6. favorites.safe \subseteq favorites.kept /\ e.root # Nowhere
  BY <1>3, WorkspaceAssumption DEF WorkInv, FavoritesStay
<1> QED
  BY <1>1, <1>2, <1>3, <1>4, <1>5, <1>6, ScanKeepsInv

LEMMA ScanBegun == ASSUME WorkInv, NEW r \in Numbers, BeginScan(r) PROVE WorkInv'
<1> DEFINE e == [Scan(r) EXCEPT !.at = "begun"]
<1>1. /\ Scan(r) \in ScanRecord /\ scans \in [asked : Seq(ScanRecord), latest : Nat]
      /\ watcher \in Watchers /\ favorites \in Preferences /\ r \in Nat
      /\ watcher.through \subseteq Numbers
      /\ \A x \in ScanRecord : [scans.asked EXCEPT ![r] = x] \in Seq(ScanRecord)
  BY ScanStepFacts
<1>2. /\ Scan(r).at = "loaded" /\ scans' = [scans EXCEPT !.asked[r].at = "begun", !.latest = r]
      /\ workspace' = workspace /\ watcher' = watcher /\ favorites' = favorites /\ hook' = hook
  BY DEF BeginScan
<1>3. /\ e \in ScanRecord /\ e.at = "begun" /\ e.root = Scan(r).root
      /\ e.source = Scan(r).source
  BY <1>1 DEF ScanRecord
<1>4. scans'.asked = [scans.asked EXCEPT ![r] = e] /\ scans'.latest = r
  BY <1>1, <1>2 DEF Scan
<1>5. scans' \in [asked : Seq(ScanRecord), latest : Nat]
  <2>1. scans' = [asked |-> scans'.asked, latest |-> scans'.latest]
    BY <1>1, <1>2
  <2> QED
    BY <1>1, <1>3, <1>4, <2>1
<1> HIDE DEF e
<1>6. r = Last => Last \notin watcher.through
  BY <1>2 DEF WorkInv, LastIsCurrent, Current
<1>7. favorites.safe \subseteq favorites.kept /\ e.root # Nowhere
  BY <1>2, <1>3 DEF WorkInv, FavoritesStay, Rooted
<1> QED
  BY <1>1, <1>2, <1>3, <1>4, <1>5, <1>6, <1>7, ScanKeepsInv

LEMMA RootWatched == ASSUME WorkInv, NEW r \in Numbers, WatchRoot(r) PROVE WorkInv'
<1> DEFINE e == [Scan(r) EXCEPT !.at = "watched"]
<1>1. /\ Scan(r) \in ScanRecord /\ scans \in [asked : Seq(ScanRecord), latest : Nat]
      /\ watcher \in Watchers /\ favorites \in Preferences
      /\ watcher.through \subseteq Numbers
      /\ \A x \in ScanRecord : [scans.asked EXCEPT ![r] = x] \in Seq(ScanRecord)
  BY ScanStepFacts
<1>2. PICK d \in {watcher.on, Scan(r).root} :
        watcher' = [watcher EXCEPT !.on = d,
                                   !.through = IF watcher.on \in {d, Nowhere} THEN @ ELSE {}]
  BY DEF WatchRoot
<1>3. /\ Scan(r).at = "begun" /\ scans' = [scans EXCEPT !.asked[r] = e]
      /\ workspace' = workspace /\ favorites' = favorites /\ hook' = hook
  BY DEF WatchRoot, ScanGoes
<1>4. /\ e \in ScanRecord /\ e.at = "watched" /\ e.root = Scan(r).root
      /\ e.source = Scan(r).source
  BY <1>1 DEF ScanRecord
<1> HIDE DEF e
<1>5. /\ scans' \in [asked : Seq(ScanRecord), latest : Nat] /\ scans'.latest = scans.latest
      /\ scans'.asked = [scans.asked EXCEPT ![r] = e]
  BY <1>1, <1>3, <1>4
<1>6. r = Last => Last \notin watcher.through
  BY <1>3 DEF WorkInv, LastIsCurrent, Current
<1>7. favorites.safe \subseteq favorites.kept /\ e.root # Nowhere
  BY <1>3, <1>4 DEF WorkInv, FavoritesStay, Rooted
<1>8. d \in Directories \union {Nowhere}
  BY <1>1, <1>2 DEF Watchers, ScanRecord
<1>9. /\ watcher' \in Watchers /\ watcher'.due = watcher.due /\ watcher'.on = d
      /\ watcher'.through = IF watcher.on \in {d, Nowhere} THEN watcher.through ELSE {}
  BY <1>1, <1>2, <1>8 DEF Watchers
<1>10. watcher'.through \subseteq watcher.through /\ watcher'.through \subseteq Numbers
  BY <1>1, <1>9
<1>11. Last \in watcher'.through => watcher'.on = watcher.on \/ watcher.on = Nowhere
  BY <1>9
<1> QED
  BY <1>1, <1>3, <1>4, <1>5, <1>6, <1>7, <1>9, <1>10, <1>11, ScanKeepsInv

LEMMA WorkspaceWalked == ASSUME WorkInv, NEW r \in Numbers, WalkWorkspace(r) PROVE WorkInv'
<1>1. /\ Scan(r) \in ScanRecord /\ scans \in [asked : Seq(ScanRecord), latest : Nat]
      /\ watcher \in Watchers /\ favorites \in Preferences
      /\ watcher.through \subseteq Numbers
      /\ \A x \in ScanRecord : [scans.asked EXCEPT ![r] = x] \in Seq(ScanRecord)
  BY ScanStepFacts
<1>2. PICK found \in SUBSET (In(Scan(r).root) \intersect workspace.files), whole \in BOOLEAN :
        /\ whole => found = In(Scan(r).root) \intersect workspace.files
        /\ ScanGoes(r, "watched", [Scan(r) EXCEPT !.at = "walked", !.sees = found, !.whole = whole])
  BY DEF WalkWorkspace
<1> DEFINE e == [Scan(r) EXCEPT !.at = "walked", !.sees = found, !.whole = whole]
<1>3. /\ Scan(r).at = "watched" /\ scans' = [scans EXCEPT !.asked[r] = e]
      /\ workspace' = workspace /\ favorites' = favorites /\ hook' = hook
      /\ watcher' = [watcher EXCEPT !.through = IF watcher.on = Scan(r).root THEN @ \union {r} ELSE @]
  BY <1>2 DEF WalkWorkspace, ScanGoes
<1>4. /\ e \in ScanRecord /\ e.at = "walked" /\ e.root = Scan(r).root
      /\ e.source = Scan(r).source /\ e.whole = whole /\ e.sees = found
  BY <1>1 DEF ScanRecord, In
<1> HIDE DEF e
<1>5. /\ scans' \in [asked : Seq(ScanRecord), latest : Nat] /\ scans'.latest = scans.latest
      /\ scans'.asked = [scans.asked EXCEPT ![r] = e]
  BY <1>1, <1>3, <1>4
<1>6. r = Last => Last \notin watcher.through
  BY <1>3 DEF WorkInv, LastIsCurrent, Current
<1>7. /\ favorites.safe \subseteq favorites.kept /\ e.root # Nowhere
      /\ favorites.safe \subseteq workspace.files
  BY <1>3, <1>4 DEF WorkInv, FavoritesStay, Rooted, SafeIsSeen
<1>8. /\ watcher' \in Watchers /\ watcher'.due = watcher.due /\ watcher'.on = watcher.on
      /\ watcher'.through = IF watcher.on = Scan(r).root THEN watcher.through \union {r} ELSE watcher.through
  <2>1. r \in Nat
    BY ScanStepFacts
  <2> QED
    BY <1>1, <1>3, <2>1 DEF Watchers
<1>9. /\ watcher'.through \subseteq Numbers
      /\ Last \in watcher'.through \ watcher.through => r = Last
      /\ r = Last /\ Last \in watcher'.through => watcher.on = e.root
  BY <1>1, <1>4, <1>6, <1>8
<1>10. e.whole => favorites.safe \intersect In(e.root) \subseteq e.sees
  BY <1>2, <1>4, <1>7
<1>11. e.whole => e.sees = In(e.root) \intersect workspace.files
  BY <1>2, <1>4
<1>12. /\ Last \in watcher'.through \ watcher.through => r = Last
       /\ Last \in watcher'.through => watcher'.on = watcher.on \/ watcher.on = Nowhere
  BY <1>8, <1>9
<1>13. r = Last /\ Last \in watcher'.through =>
         /\ e.at \in {"walked", "answered"}
         /\ (e.at = "answered" => e.ok) /\ e.whole =>
              Announced \/ (watcher'.on # Nowhere /\ e.root = watcher'.on
                            /\ e.sees = In(watcher'.on) \intersect workspace.files)
  BY <1>4, <1>7, <1>8, <1>9, <1>11
<1> QED
  BY <1>1, <1>3, <1>4, <1>5, <1>7, <1>8, <1>9, <1>10, <1>12, <1>13, ScanKeepsInv

\* What a scan saw decides about the favourites, or it fails.
LEMMA PreferencesApplied == ASSUME WorkInv, NEW r \in Numbers, ApplyPreferences(r) PROVE WorkInv'
<1>1. /\ Scan(r) \in ScanRecord /\ scans \in [asked : Seq(ScanRecord), latest : Nat]
      /\ watcher \in Watchers /\ favorites \in Preferences
      /\ watcher.through \subseteq Numbers
      /\ \A x \in ScanRecord : [scans.asked EXCEPT ![r] = x] \in Seq(ScanRecord)
  BY ScanStepFacts
<1>2. workspace' = workspace /\ watcher' = watcher /\ hook' = hook
  BY DEF ApplyPreferences
<1>3. favorites.safe \subseteq favorites.kept /\ favorites.safe \subseteq workspace.files
  BY DEF WorkInv, FavoritesStay, SafeIsSeen
<1>4. CASE scans.latest = r /\ Scan(r).sees \subseteq workspace.files
  <2> DEFINE e == [Scan(r) EXCEPT !.at = "answered", !.ok = TRUE]
             kept == favorites.kept \intersect Scan(r).sees
             due == IF Scan(r).whole THEN favorites.safe \intersect In(Scan(r).root) ELSE {}
  <2>1. /\ Scan(r).at = "walked" /\ scans' = [scans EXCEPT !.asked[r] = e]
        /\ favorites' = [kept |-> kept, safe |-> kept \union due]
    BY <1>4 DEF ApplyPreferences, Applies, ScanGoes
  <2>2. due \subseteq kept
    BY <1>3, <1>4, <2>1 DEF WorkInv, SafeIsSeen
  <2>3. /\ favorites' \in Preferences /\ favorites'.safe \subseteq favorites'.kept
        /\ favorites'.safe \subseteq workspace.files
    BY <1>1, <1>4, <2>1, <2>2 DEF Preferences, ScanRecord
  <2>4. /\ e \in ScanRecord /\ e.at = "answered" /\ e.root = Scan(r).root /\ e.ok
        /\ e.source = Scan(r).source /\ e.whole = Scan(r).whole /\ e.sees = Scan(r).sees
    BY <1>1 DEF ScanRecord
  <2> HIDE DEF e
  <2>5. /\ scans' \in [asked : Seq(ScanRecord), latest : Nat] /\ scans'.latest = scans.latest
        /\ scans'.asked = [scans.asked EXCEPT ![r] = e]
    BY <1>1, <2>1, <2>4
  <2>6. r = Last /\ Last \in watcher.through /\ e.whole =>
          Announced \/ (watcher.on # Nowhere /\ e.root = watcher.on
                        /\ e.sees = In(watcher.on) \intersect workspace.files)
    BY <2>1, <2>4 DEF WorkInv, LastIsCurrent, Current
  <2> QED
    BY <1>1, <1>2, <1>4, <2>3, <2>4, <2>5, <2>6, ScanKeepsInv
<1>5. CASE ~(scans.latest = r /\ Scan(r).sees \subseteq workspace.files)
  <2> DEFINE e == [NewScan(Scan(r).source) EXCEPT !.at = "answered"]
  <2>1. /\ Scan(r).at = "walked" /\ scans' = [scans EXCEPT !.asked[r] = e] /\ favorites' = favorites
    BY <1>5 DEF ApplyPreferences, Applies, Fails, ScanGoes
  <2>2. /\ e \in ScanRecord /\ e.at = "answered" /\ ~e.ok /\ e.source = Scan(r).source
    BY <1>1 DEF ScanRecord, NewScan
  <2> HIDE DEF e
  <2>3. /\ scans' \in [asked : Seq(ScanRecord), latest : Nat] /\ scans'.latest = scans.latest
        /\ scans'.asked = [scans.asked EXCEPT ![r] = e]
    BY <1>1, <2>1, <2>2
  <2> QED
    BY <1>1, <1>2, <1>3, <2>1, <2>2, <2>3, ScanKeepsInv
<1> QED
  BY <1>4, <1>5

-----------------------------------------------------------------------------
(* The hook *)

\* Answered(q) is what the scans are when some of them are over.
Answered(q) ==
  /\ q \in Seq(ScanRecord) /\ Len(q) = Len(scans.asked)
  /\ \A i \in Numbers : q[i] = Scan(i) \/ (q[i].at = "over" /\ q[i].source = Scan(i).source)

\* A new request: what it sees is still to come.
LEMMA AskedAnew ==
  ASSUME WorkInv, NEW q, Answered(q), NEW h \in HookStates, Len(q) < MaxScans,
         scans' = [scans EXCEPT !.asked = Append(q, NewScan(h.source))], hook' = h,
         workspace' = workspace, watcher' = watcher, favorites' = favorites
  PROVE  WorkInv'
<1> USE DEF WorkInv
<1> DEFINE n == NewScan(h.source)
<1>1. n \in ScanRecord /\ n.at = "asked" /\ n.source = h.source
  BY DEF NewScan, ScanRecord, HookStates
<1> HIDE DEF n
<1>2. q \in Seq(ScanRecord) /\ Len(q) = Len(scans.asked) /\ Len(scans.asked) \in Nat
  BY ScansHaveTypes DEF Answered
<1>3. /\ scans' \in [asked : Seq(ScanRecord), latest : Nat] /\ scans'.latest = scans.latest
      /\ scans'.asked = Append(q, n)
  <2>1. scans \in [asked : Seq(ScanRecord), latest : Nat]
    BY DEF WorkTypes
  <2>2. Append(q, n) \in Seq(ScanRecord)
    BY <1>1, <1>2, AppendProperties
  <2> QED
    BY <2>1, <2>2 DEF n
<1>4. /\ scans'.asked # <<>> /\ Len(scans'.asked) = Len(q) + 1
      /\ \A i \in 1..Len(q) : scans'.asked[i] = q[i]
      /\ scans'.asked[Len(q) + 1] = n
  BY <1>1, <1>2, <1>3, AppendProperties
<1>5. /\ Numbers' = Numbers \union {Last'} /\ Last' = Last + 1 /\ Last \in Nat
      /\ \A i \in Numbers : Scan(i)' = q[i] /\ i # Last'
      /\ Scan(Last)' = n
  BY <1>2, <1>4 DEF Numbers, Last, Scan
<1>6. WorkTypes'
  <2>1. Len(scans'.asked) <= MaxScans /\ scans'.latest \in 0..Len(scans'.asked)
    BY <1>2, <1>3, <1>4, WorkspaceAssumption DEF WorkTypes
  <2>2. watcher'.through \subseteq Numbers'
    BY <1>5 DEF WorkTypes
  <2> QED
    BY <1>3, <1>4, <2>1, <2>2 DEF WorkTypes
<1>7. FavoritesStay'
  BY DEF FavoritesStay
<1>8. \A i \in Numbers' : Scan(i)'.at = "walked" \/ Scan(i)'.at \in {"loaded", "begun", "watched"}
        => i \in Numbers /\ Scan(i)' = Scan(i)
  BY <1>1, <1>5 DEF Answered
<1>9. SafeIsSeen'
  BY <1>3, <1>8 DEF SafeIsSeen
<1>10. Rooted'
  BY <1>8 DEF Rooted
<1>11. LastIsCurrent'
  <2>1. Last' \notin watcher'.through
    BY <1>5 DEF WorkTypes
  <2> QED
    BY <1>1, <1>5, <2>1 DEF LastIsCurrent, Current
<1> QED
  BY <1>6, <1>7, <1>9, <1>10, <1>11

\* No new request: the last one is still current.
LEMMA NothingAsked ==
  ASSUME WorkInv, NEW q, Answered(q), NEW h \in HookStates,
         scans' = [scans EXCEPT !.asked = q], hook' = h, LastIsCurrent',
         workspace' = workspace, watcher' = watcher, favorites' = favorites
  PROVE  WorkInv'
<1> USE DEF WorkInv
<1>2. q \in Seq(ScanRecord) /\ Len(q) = Len(scans.asked) /\ Len(scans.asked) \in Nat \ {0}
  BY ScansHaveTypes DEF Answered
<1>3. /\ scans' \in [asked : Seq(ScanRecord), latest : Nat] /\ scans'.latest = scans.latest
      /\ scans'.asked = q /\ q # <<>>
  BY <1>2 DEF WorkTypes
<1>4. Numbers' = Numbers /\ \A i \in Numbers : Scan(i)' = q[i]
  BY <1>2, <1>3 DEF Numbers, Scan
<1>5. WorkTypes'
  BY <1>2, <1>3, <1>4 DEF WorkTypes
<1>6. \A i \in Numbers : Scan(i)'.at = "walked" \/ Scan(i)'.at \in {"loaded", "begun", "watched"}
        => Scan(i)' = Scan(i)
  BY <1>4 DEF Answered
<1>7. SafeIsSeen'
  BY <1>3, <1>4, <1>6 DEF SafeIsSeen
<1>8. Rooted' /\ FavoritesStay'
  BY <1>4, <1>6 DEF Rooted, FavoritesStay
<1> QED
  BY <1>5, <1>7, <1>8

\* refresh, after whatever its caller has done to the hook: it is then h.
LEMMA RefreshKeepsInv ==
  ASSUME WorkInv, NEW q, Answered(q), NEW h \in HookStates, Refresh(h, q),
         h.inFlight = h.source /\ scans' = [scans EXCEPT !.asked = q] /\ hook' = h => LastIsCurrent',
         workspace' = workspace, watcher' = watcher, favorites' = favorites
  PROVE  WorkInv'
<1>1. CASE h.inFlight = h.source
  <2>1. hook' = h /\ scans' = [scans EXCEPT !.asked = q]
    BY <1>1 DEF Refresh
  <2> QED
    BY <1>1, <2>1, NothingAsked
<1>2. CASE h.inFlight # h.source
  <2> DEFINE g == [h EXCEPT !.inFlight = h.source, !.queued = FALSE, !.missed = FALSE,
                            !.status = IF @ \in {"ready", "stale"} THEN @ ELSE "loading"]
  <2>1. /\ Len(q) < MaxScans /\ hook' = g
        /\ scans' = [scans EXCEPT !.asked = Append(q, NewScan(h.source))]
    BY <1>2 DEF Refresh
  <2>2. g \in HookStates /\ g.source = h.source
    BY DEF HookStates
  <2> HIDE DEF g
  <2> QED
    BY <2>1, <2>2, AskedAnew
<1> QED
  BY <1>1, <1>2

LEMMA NothingOver == ASSUME WorkInv PROVE Answered(scans.asked)
  BY DEF WorkInv, WorkTypes, Answered, Scan

\* The last request stays current while a refresh is queued.
LEMMA QueuedIsCurrent ==
  ASSUME WorkInv, scans' = [scans EXCEPT !.asked = scans.asked], hook'.queued,
         hook'.source = hook.source, watcher' = watcher
  PROVE  LastIsCurrent'
<1>1. scans'.asked = scans.asked
  BY DEF WorkInv, WorkTypes
<1>2. Last' = Last /\ Scan(Last)' = Scan(Last)
  BY <1>1 DEF Last, Scan
<1> QED
  BY <1>2 DEF WorkInv, LastIsCurrent, Current, Announced

LEMMA TimerKeepsInv == WorkInv /\ (TimerFires \/ Tick) => WorkInv'
<1> SUFFICES ASSUME WorkInv, TimerFires \/ Tick PROVE WorkInv'
  OBVIOUS
<1>1. PICK t, b \in BOOLEAN :
        /\ Refresh([hook EXCEPT !.timer = t, !.queued = b], scans.asked)
        /\ hook.inFlight = hook.source => b
  <2>1. hook \in HookStates
    BY DEF WorkInv, WorkTypes
  <2>2. CASE TimerFires
    <3>1. Refresh([hook EXCEPT !.timer = FALSE, !.queued = hook.queued \/ hook.inFlight = hook.source], scans.asked)
      BY <2>2 DEF TimerFires
    <3>2. (hook.queued \/ hook.inFlight = hook.source) \in BOOLEAN
      BY <2>1 DEF HookStates
    <3> QED
      BY <3>1, <3>2
  <2>3. CASE Tick
    <3>1. [hook EXCEPT !.queued = TRUE] = [hook EXCEPT !.timer = hook.timer, !.queued = TRUE]
      BY <2>1 DEF HookStates
    <3>2. Refresh([hook EXCEPT !.timer = hook.timer, !.queued = TRUE], scans.asked)
      BY <2>3, <3>1 DEF Tick
    <3>3. hook.timer \in BOOLEAN
      BY <2>1 DEF HookStates
    <3> QED
      BY <3>2, <3>3
  <2> QED
    BY <2>2, <2>3
<1> DEFINE h == [hook EXCEPT !.timer = t, !.queued = b]
<1>2. h \in HookStates /\ h.source = hook.source /\ h.inFlight = hook.inFlight /\ h.queued = b
  BY DEF HookStates, WorkInv, WorkTypes
<1>3. /\ Refresh(h, scans.asked)
      /\ workspace' = workspace /\ watcher' = watcher /\ favorites' = favorites
  BY <1>1 DEF TimerFires, Tick
<1> HIDE DEF h
<1>4. h.inFlight = h.source /\ scans' = [scans EXCEPT !.asked = scans.asked] /\ hook' = h => LastIsCurrent'
  BY <1>1, <1>2, <1>3, QueuedIsCurrent
<1> QED
  BY <1>2, <1>3, <1>4, NothingOver, RefreshKeepsInv

LEMMA UserKeepsInv == WorkInv /\ UserRefreshes => WorkInv'
<1> SUFFICES ASSUME WorkInv, UserRefreshes PROVE WorkInv'
  OBVIOUS
<1>1. /\ hook.inFlight # hook.source /\ Refresh(hook, scans.asked) /\ hook \in HookStates
      /\ workspace' = workspace /\ watcher' = watcher /\ favorites' = favorites
  BY DEF UserRefreshes, WorkInv, WorkTypes
<1> QED
  BY <1>1, NothingOver, RefreshKeepsInv

LEMMA SourceMoves == WorkInv /\ MoveSource => WorkInv'
<1> SUFFICES ASSUME WorkInv, MoveSource PROVE WorkInv'
  OBVIOUS
<1> DEFINE h == [hook EXCEPT !.source = workspace.root, !.inFlight = Nowhere, !.status = "stale"]
<1>1. /\ Refresh(h, scans.asked)
      /\ workspace' = workspace /\ watcher' = watcher /\ favorites' = favorites
  BY DEF MoveSource
<1>2. h \in HookStates /\ h.inFlight # h.source
  BY WorkspaceAssumption DEF HookStates, WorkInv, WorkTypes, Workspaces
<1> HIDE DEF h
<1> QED
  BY <1>1, <1>2, NothingOver, RefreshKeepsInv

\* An answer that counts is shown; one that frees the place of another request loses the refresh
\* that was queued, and says so.
LEMMA AnswerKeepsInv == ASSUME WorkInv, NEW r \in Numbers, AnswerArrives(r) PROVE WorkInv'
<1> DEFINE q == Over(r)
           e == [NewScan(Scan(r).source) EXCEPT !.at = "over"]
<1>1. /\ Scan(r) \in ScanRecord /\ scans \in [asked : Seq(ScanRecord), latest : Nat]
      /\ \A x \in ScanRecord : [scans.asked EXCEPT ![r] = x] \in Seq(ScanRecord)
      /\ hook \in HookStates /\ Last \in Numbers
  BY ScanStepFacts, ScansHaveTypes DEF WorkInv, WorkTypes
<1>2. e \in ScanRecord /\ e.at = "over" /\ e.source = Scan(r).source
  BY <1>1 DEF ScanRecord, NewScan
<1>3. q = [scans.asked EXCEPT ![r] = e]
  BY DEF Over, Scan
<1>4. /\ Scan(r).at = "answered"
      /\ workspace' = workspace /\ watcher' = watcher /\ favorites' = favorites
  BY DEF AnswerArrives
<1> HIDE DEF e, q
<1>5. /\ q \in Seq(ScanRecord) /\ Len(q) = Len(scans.asked)
      /\ \A i \in Numbers : q[i] = IF i = r THEN e ELSE Scan(i)
  <2>1. scans.asked \in Seq(ScanRecord) /\ r \in 1..Len(scans.asked)
    BY <1>1 DEF Numbers
  <2> QED
    BY <1>2, <1>3, <2>1, AskedExcept DEF Numbers, Scan
<1>6. Answered(q)
  BY <1>2, <1>5 DEF Answered
<1>7. PICK f \in HookStates :
        /\ f = Freed(r) /\ f.source = hook.source
        /\ f.queued = hook.queued /\ f.missed = hook.missed /\ f.timer = hook.timer
        /\ f.inFlight = IF hook.inFlight = Scan(r).source THEN Nowhere ELSE hook.inFlight
        /\ IF ~CountsNow(r) THEN f.status = hook.status /\ f.shown = hook.shown /\ f.whole = hook.whole
           ELSE IF Scan(r).ok THEN f.status = "ready" /\ f.shown = Scan(r).sees /\ f.whole = Scan(r).whole
           ELSE f.status = "error"
  <2> DEFINE l == ListAfter(r)
             g == Freed(r)
  <2>1. /\ l \in HookStates /\ l.source = hook.source /\ l.inFlight = hook.inFlight
        /\ l.queued = hook.queued /\ l.missed = hook.missed /\ l.timer = hook.timer
        /\ IF ~CountsNow(r) THEN l.status = hook.status /\ l.shown = hook.shown /\ l.whole = hook.whole
           ELSE IF Scan(r).ok THEN l.status = "ready" /\ l.shown = Scan(r).sees /\ l.whole = Scan(r).whole
           ELSE l.status = "error"
    <3>1. CASE ~CountsNow(r)
      BY <1>1, <3>1 DEF ListAfter
    <3>2. CASE CountsNow(r) /\ Scan(r).ok
      BY <1>1, <3>2 DEF ListAfter, HookStates, ScanRecord
    <3>3. CASE CountsNow(r) /\ ~Scan(r).ok
      BY <1>1, <3>3 DEF ListAfter, HookStates, ScanRecord
    <3> QED
      BY <3>1, <3>2, <3>3
  <2>2. g = [l EXCEPT !.inFlight = IF l.inFlight = Scan(r).source THEN Nowhere ELSE l.inFlight]
    BY DEF Freed
  <2> HIDE DEF l, g
  <2>3. /\ g \in HookStates /\ g.source = l.source /\ g.status = l.status /\ g.shown = l.shown
        /\ g.queued = l.queued /\ g.missed = l.missed /\ g.timer = l.timer /\ g.whole = l.whole
        /\ g.inFlight = IF l.inFlight = Scan(r).source THEN Nowhere ELSE l.inFlight
    BY <2>1, <2>2 DEF HookStates
  <2>4. g = Freed(r)
    BY DEF g
  <2> QED
    BY <2>1, <2>3, <2>4
<1>8. CASE hook.queued
  <2> DEFINE h == [f EXCEPT !.queued = FALSE, !.missed = f.missed \/ hook.inFlight # Scan(r).source]
  <2>1. Refresh(h, q)
    BY <1>7, <1>8 DEF AnswerArrives, q
  <2>2. /\ h \in HookStates /\ h.source = f.source /\ h.inFlight = f.inFlight
        /\ h.missed = (f.missed \/ hook.inFlight # Scan(r).source)
    BY DEF HookStates
  <2> HIDE DEF h
  <2>3. h.inFlight = h.source => hook.inFlight # Scan(r).source
    BY <1>7, <2>2, WorkspaceAssumption DEF HookStates
  <2>4. ASSUME h.inFlight = h.source, scans' = [scans EXCEPT !.asked = q], hook' = h
        PROVE  LastIsCurrent'
    <3>1. scans'.asked = q /\ hook'.missed /\ hook'.source = hook.source
      BY <1>1, <1>7, <2>2, <2>3, <2>4
    <3>2. Last' = Last /\ Scan(Last)' = q[Last]
      BY <1>5, <3>1 DEF Last, Scan
    <3>3. q[Last].source = Scan(Last).source /\ (q[Last].at = Scan(Last).at \/ q[Last].at = "over")
      BY <1>1, <1>2, <1>5
    <3> QED
      BY <1>4, <3>1, <3>2, <3>3 DEF WorkInv, LastIsCurrent, Current, Announced
  <2> QED
    BY <1>4, <1>6, <2>1, <2>2, <2>4, RefreshKeepsInv
<1>9. CASE ~hook.queued
  <2>1. hook' = f /\ scans' = [scans EXCEPT !.asked = q]
    BY <1>7, <1>9 DEF AnswerArrives, q
  <2>2. scans'.asked = q /\ (Announced' <=> Announced)
    BY <1>1, <1>4, <1>7, <2>1 DEF Announced
  <2>3. Last' = Last /\ Scan(Last)' = q[Last] /\ Last = Len(scans.asked)
    BY <1>5, <2>2 DEF Last, Scan
  <2>4. LastIsCurrent'
    <3>1. CASE r = Last
      <4>1. CountsNow(r)
        BY <2>3, <3>1 DEF CountsNow, WorkInv, LastIsCurrent
      <4>2. Scan(Last)' = e
        BY <1>1, <1>5, <2>3, <3>1
      <4> QED
        BY <1>2, <1>4, <1>7, <2>1, <2>2, <2>3, <3>1, <4>1, <4>2 DEF WorkInv, LastIsCurrent, Current
    <3>2. CASE r # Last
      <4>1. ~CountsNow(r)
        BY <2>3, <3>2 DEF CountsNow
      <4>2. Scan(Last)' = Scan(Last)
        BY <1>1, <1>5, <2>3, <3>2
      <4> QED
        BY <1>4, <1>7, <2>1, <2>2, <2>3, <4>1, <4>2 DEF WorkInv, LastIsCurrent, Current
    <3> QED
      BY <3>1, <3>2
  <2> QED
    BY <1>4, <1>6, <2>1, <2>4, NothingAsked
<1> QED
  BY <1>8, <1>9

-----------------------------------------------------------------------------
(* The favourites *)

LEMMA FavoritesChosen == WorkInv /\ (SetFavorite \/ ChooseProject) => WorkInv'
<1> SUFFICES ASSUME WorkInv, SetFavorite \/ ChooseProject PROVE WorkInv'
  OBVIOUS
<1>1. workspace' = workspace /\ watcher' = watcher /\ scans' = scans /\ hook' = hook
  BY DEF SetFavorite, ChooseProject
<1>2. favorites \in Preferences /\ workspace \in Workspaces
  BY DEF WorkInv, WorkTypes
<1>3. favorites.safe \subseteq favorites.kept /\ favorites.safe \subseteq workspace.files
  BY DEF WorkInv, FavoritesStay, SafeIsSeen
<1>4. /\ favorites' \in Preferences /\ favorites'.safe \subseteq favorites'.kept
      /\ favorites'.safe \subseteq workspace.files
      /\ Scanning => favorites'.safe \subseteq favorites.safe
  <2>1. CASE SetFavorite
    <3>1. PICK p \in hook.shown \intersect workspace.files :
       \/ favorites' = [kept |-> favorites.kept \union {p},
                        safe |-> IF Scanning THEN favorites.safe ELSE favorites.safe \union {p}]
       \/ favorites' = [kept |-> favorites.kept \ {p}, safe |-> favorites.safe \ {p}]
      BY <2>1 DEF SetFavorite
    <3>2. p \in Projects /\ p \in workspace.files
      BY <1>2 DEF Workspaces
    <3>3. CASE Scanning
      BY <1>2, <1>3, <3>1, <3>2, <3>3 DEF Preferences
    <3>4. CASE ~Scanning
      BY <1>2, <1>3, <3>1, <3>2, <3>4 DEF Preferences
    <3> QED
      BY <3>3, <3>4
  <2>2. CASE ChooseProject
    <3>1. PICK p \in workspace.files :
            favorites' = [kept |-> favorites.kept \intersect {p}, safe |-> favorites.safe \intersect {p}]
      BY <2>2 DEF ChooseProject
    <3> QED
      BY <1>2, <1>3, <3>1 DEF Preferences
  <2> QED
    BY <2>1, <2>2
<1>5. Scanning \/ \A r \in Numbers : r = scans.latest => Scan(r).at # "walked"
  BY DEF Scanning
<1>6. SafeIsSeen'
  <2>1. ASSUME NEW r \in Numbers, r = scans.latest, Scan(r).at = "walked", Scan(r).whole
        PROVE  favorites'.safe \intersect In(Scan(r).root) \subseteq Scan(r).sees
    BY <1>4, <1>5, <2>1 DEF WorkInv, SafeIsSeen
  <2> QED
    BY <1>1, <1>4, <2>1 DEF SafeIsSeen, Numbers, Scan
<1>7. WorkTypes' /\ FavoritesStay'
  BY <1>1, <1>4 DEF WorkInv, WorkTypes, Numbers, FavoritesStay
<1>8. Rooted' /\ LastIsCurrent'
  BY <1>1 DEF WorkInv, Rooted, LastIsCurrent, Current, Announced, Numbers, Last, Scan
<1> QED
  BY <1>6, <1>7, <1>8 DEF WorkInv

-----------------------------------------------------------------------------
LEMMA WorkStep == WorkInv /\ [WorkspaceNext]_workspaceVars => WorkInv'
<1> SUFFICES ASSUME WorkInv, [WorkspaceNext]_workspaceVars PROVE WorkInv'
  OBVIOUS
<1>1. CASE ChangeFiles
  BY <1>1, FilesChange
<1>2. CASE SaveDirectory
  BY <1>2, DirectorySaved
<1>3. CASE WatcherFails \/ EmitChange
  BY <1>3, WatcherTells
<1>4. CASE TimerFires \/ Tick
  BY <1>4, TimerKeepsInv
<1>5. CASE UserRefreshes
  BY <1>5, UserKeepsInv
<1>6. CASE MoveSource
  BY <1>6, SourceMoves
<1>7. ASSUME NEW r \in Numbers, AnswerArrives(r) PROVE WorkInv'
  BY <1>7, AnswerKeepsInv
<1>8. ASSUME NEW r \in Numbers, LoadConfig(r) PROVE WorkInv'
  BY <1>8, ConfigLoaded
<1>9. ASSUME NEW r \in Numbers, BeginScan(r) PROVE WorkInv'
  BY <1>9, ScanBegun
<1>10. ASSUME NEW r \in Numbers, WatchRoot(r) PROVE WorkInv'
  BY <1>10, RootWatched
<1>11. ASSUME NEW r \in Numbers, WalkWorkspace(r) PROVE WorkInv'
  BY <1>11, WorkspaceWalked
<1>12. ASSUME NEW r \in Numbers, ApplyPreferences(r) PROVE WorkInv'
  BY <1>12, PreferencesApplied
<1>13. CASE SetFavorite \/ ChooseProject
  BY <1>13, FavoritesChosen
<1>14. CASE UNCHANGED workspaceVars
  BY <1>14 DEF workspaceVars, WorkInv, WorkTypes, SafeIsSeen, FavoritesStay, Rooted,
       LastIsCurrent, Current, Announced, Numbers, Last, Scan
<1> QED
  BY <1>1, <1>2, <1>3, <1>4, <1>5, <1>6, <1>7, <1>8, <1>9, <1>10, <1>11, <1>12, <1>13, <1>14
     DEF WorkspaceNext, HookNext, ScanNext

LEMMA ListHolds == WorkspaceSpec => []WorkInv
<1> QED
  BY WorkStart, WorkStep, PTL DEF WorkspaceSpec

\* The scans, the watcher and the hook have their types, whatever the bounds.
THEOREM WorkspaceTypesHold == WorkspaceSpec => []WorkspaceTypeOK
<1>1. WorkInv => WorkspaceTypeOK
  <2> SUFFICES ASSUME WorkInv PROVE WorkspaceTypeOK
    OBVIOUS
  <2>1. Len(scans.asked) \in Nat \ {0} /\ \A r \in Numbers : Scan(r) \in ScanRecord
    BY ScansHaveTypes DEF WorkInv
  <2>2. watcher \in Watchers /\ watcher.through \subseteq 1..MaxScans
    BY <2>1, WorkspaceAssumption DEF WorkInv, WorkTypes, Numbers
  <2>3. watcher \in [on : Directories \union {Nowhere}, due : BOOLEAN, through : SUBSET (1..MaxScans)]
    BY <2>2 DEF Watchers
  <2> QED
    BY <2>1, <2>3 DEF WorkInv, WorkTypes, WorkspaceTypeOK, Workspaces, HookStates, Preferences
<1> QED
  BY <1>1, ListHolds, PTL

\* Once nothing is on its way any more, the window shows the projects that are there, and no late
\* scan takes a favourite away.
THEOREM ListsAreTrue == WorkspaceSpec => []ListIsCurrent
<1>1. WorkInv => ListIsCurrent
  <2> SUFFICES ASSUME WorkInv PROVE ListIsCurrent
    OBVIOUS
  <2>1. hook \in HookStates
    BY DEF WorkInv, WorkTypes
  <2>2. ShownIsThere
    <3> SUFFICES ASSUME NothingUnderWay, ~hook.missed, hook.status = "ready", hook.whole,
                        watcher.on = hook.source, Len(scans.asked) \in watcher.through
                 PROVE  hook.shown = In(hook.source) \intersect workspace.files
      BY DEF ShownIsThere
    <3>1. Scan(Last).at = "over" /\ ~Announced /\ Last \in watcher.through
      BY DEF NothingUnderWay, Announced, Last
    <3>2. hook.shown = In(watcher.on) \intersect workspace.files
      BY <3>1 DEF WorkInv, LastIsCurrent, Current
    <3> QED
      BY <3>2
  <2> QED
    BY <2>2 DEF WorkInv, ListIsCurrent
<1> QED
  BY <1>1, ListHolds, PTL
=============================================================================

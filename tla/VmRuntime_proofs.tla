--------------------------- MODULE VmRuntime_proofs ---------------------------
(***************************************************************************)
(* What holds of VmRuntime for any number of sessions, ports, caches and   *)
(* readers, along three invariants that rest on each other.                *)
(*                                                                         *)
(* PortInv holds whatever fails, dies, is forgotten, stopped again or      *)
(* edited: one active Runtime for a guest port, registered for every       *)
(* cache, and stopped records that stay stopped.  The registry carries the *)
(* argument.  No two live entries have the same port, because a            *)
(* reservation looks through a registry that was brought in line with the  *)
(* records; and an entry is live as long as its record is active, because  *)
(* the few steps that drop an entry know its record to be out of use and   *)
(* nobody can revive it while a command holds the lease.                   *)
(*                                                                         *)
(* CalmInv adds where the forwarding is: the VM forwards what the Compose  *)
(* file says but for the change under way, and both serve every registered *)
(* session until the last one dismantles.  It holds where no command is    *)
(* cut short; with a failing container command it does not, as the run     *)
(* VmRuntimeSilentRecreation shows.                                        *)
(*                                                                         *)
(* QuietInv adds who remembers what the user had: the first session of a   *)
(* port, for as long as one is registered.  Forgetting a record loses that *)
(* memory and stopping a session again spoils it, so both are excluded.    *)
(***************************************************************************)
EXTENDS VmRuntime, WellFoundedInduction, TLAPS

Building == {"ensure", "recreate", "fold", "verify", "record"}
Starting == Building \cup {"reserve", "rollback", "undo"}
CleaningUp == {"cleanup", "stopRecreate", "stopVerify", "finish"}
Stopping == CleaningUp \cup {"stop", "mark", "release"}

\* The types the argument needs.
RegistryTypes ==
  /\ entry \in Entries /\ state \in [Sessions -> States]
  /\ port \in [Sessions -> Ports \cup {NoPort}]
  /\ aux \in [Readers -> [kind : {"idle", "refresh", "forget"}, s : Sessions \cup {0}]]
  /\ op \in [pc : Labels, call : {"none", "start", "prepare", "stop"},
             me : Sessions \cup {0}, want : Ports \cup {NoPort}, cache : {op.cache},
             seen : Entries, previous : {op.previous}, baseline : {op.baseline},
             changed : {op.changed}, loaded : States]

\* Active records are registered, live entries have ports of their own, unused
\* identifiers are in no file.
RegistryAgrees ==
  /\ \A s \in Sessions : Active(s) => entry[s] = "live"
  /\ \A s, t \in Sessions : entry[s] = "live" /\ entry[t] = "live" /\ port[s] = port[t] => s = t
  /\ \A s \in Sessions : port[s] = NoPort => entry[s] = "none" /\ state[s] = "none"

\* Readers refresh registered sessions while no command is on its way.
ReadersAgree ==
  \A r \in Readers :
    /\ aux[r].kind # "idle" => aux[r].s \in Sessions
    /\ aux[r].kind = "refresh" =>
         op.pc = "idle" /\ entry[aux[r].s] = "live" /\ state[aux[r].s] # "stopped"

\* A start has an identifier to take, owns a fresh record and, once it is reserved, its live entry; a
\* refresh writes a record that is registered.
StartAgrees ==
  /\ op.pc \in {"create", "refresh", "baseline"} \cup Starting => op.want \in Ports
  /\ op.pc = "baseline" => \E s \in Sessions : port[s] = NoPort
  /\ op.pc \in Starting =>
       op.me \in Sessions /\ state[op.me] = "none" /\ op.seen[op.me] # "stopped" /\ port[op.me] = op.want
  /\ op.pc \in Building => entry[op.me] = "live"
  /\ op.pc = "refresh" => op.me \in Sessions /\ entry[op.me] = "live" /\ state[op.me] # "stopped"

\* A stop has a session that was started; one that gives up its entry has a record out of use.
StopAgrees ==
  /\ op.pc \in Stopping => op.me \in Sessions /\ port[op.me] # NoPort
  /\ op.pc \in {"mark", "release"} => ~Active(op.me)
  /\ op.pc \in CleaningUp /\ op.loaded = "stopped" => ~Active(op.me)

\* What a command saw stopped stays out of use.
SeenAgrees ==
  op.pc \in {"baseline", "release"} \cup Starting \cup CleaningUp =>
    \A s \in Sessions : op.seen[s] = "stopped" => ~Active(s) /\ port[s] # NoPort

PortInv == RegistryTypes /\ RegistryAgrees /\ ReadersAgree /\ StartAgrees /\ StopAgrees /\ SeenAgrees

-----------------------------------------------------------------------------
\* The identifiers in a set have a first one: what a start takes is unused.
LEMMA LeastSession ==
  ASSUME NEW S \in SUBSET Sessions, S # {}
  PROVE  Least(S) \in S /\ \A y \in S : Least(S) <= y
<1> DEFINE Less == {ss \in Nat \X Nat : ss[1] < ss[2]}
<1>1. IsWellFoundedOn(Less, Nat)
  <2>1. OpToRel(<, Nat) = Less
    BY DEF OpToRel
  <2>2. QED
    BY <2>1, NatLessThanWellFounded
<1>2. S \subseteq Nat
  BY RuntimeAssumption DEF Sessions
<1> HIDE DEF Less
<1>3. PICK x \in S : \A y \in S : ~ (<<y, x>> \in Less)
  BY <1>1, <1>2, WFMin
<1>4. ASSUME NEW y \in S PROVE x <= y
  <2>1. <<y, x>> \in Less <=> y < x
    BY <1>2 DEF Less
  <2>2. QED
    BY <1>2, <1>3, <2>1
<1>5. QED
  BY <1>4 DEF Least

\* Reconciling keeps the entries of active records and adds nothing.
LEMMA ReconciledAgrees ==
  ASSUME RegistryTypes, RegistryAgrees
  PROVE  /\ Reconciled \in Entries
         /\ \A s \in Sessions : Active(s) => Reconciled[s] = "live"
         /\ \A s \in Sessions : Reconciled[s] = "live" => entry[s] = "live" /\ Active(s)
         /\ \A s \in Sessions : Reconciled[s] = "stopped" => ~Active(s) /\ port[s] # NoPort
         /\ \A s \in Sessions : entry[s] = "none" => Reconciled[s] = "none"
         /\ \A s \in Sessions : state[s] \in {"none", "stopped"} => Reconciled[s] = state[s] \/ Reconciled[s] = "none"
  BY DEF RegistryTypes, RegistryAgrees, Reconciled, Active, ActiveStates, Entries, States

\* No file and no command: nothing to agree on.
LEMMA PortInit == Init => PortInv
<1> SUFFICES ASSUME Init PROVE PortInv
  OBVIOUS
<1>1. op = NoOp /\ op.pc = "idle" /\ op.seen = NoEntries
  BY DEF Init, NoOp
<1>2. RegistryTypes
  BY <1>1, RuntimeAssumption DEF Init, RegistryTypes, NoOp, NoAux, NoEntries, Entries, States, Labels, ActiveStates
<1>3. QED
  BY <1>1, <1>2 DEF Init, PortInv, RegistryAgrees, ReadersAgree, StartAgrees, StopAgrees, SeenAgrees,
     NoAux, NoEntries, Active, ActiveStates, Starting, Building, Stopping, CleaningUp

-----------------------------------------------------------------------------
CommandType == [pc : Labels, call : {"none", "start", "prepare", "stop"},
                me : Sessions \cup {0}, want : Ports \cup {NoPort}, cache : {op.cache},
                seen : Entries, previous : {op.previous}, baseline : {op.baseline},
                changed : {op.changed}, loaded : States]

\* A command that goes on keeps the local variables that matter.
Onward(label) ==
  /\ op'.pc = label /\ op'.me = op.me /\ op'.want = op.want /\ op'.seen = op.seen
  /\ op'.loaded = op.loaded
  /\ op' \in CommandType'

LEMMA GoOn ==
  ASSUME RegistryTypes, NEW label \in Labels, Goto(label)
  PROVE  Onward(label)
  BY DEF RegistryTypes, Goto, CommandType, Onward

\* A command that returned is no command.
LEMMA Returned == Return => op'.pc = "idle" /\ op'.me = 0 /\ op' \in CommandType'
  BY DEF Return, NoOp, CommandType, Labels, NoEntries, Entries, States

\* The end of a command leaves what the files agree on.
LEMMA ReturnKeeps ==
  ASSUME PortInv, Return, UNCHANGED <<entry, state, port, aux>>
  PROVE  PortInv'
<1>1. op'.pc = "idle" /\ RegistryTypes'
  BY Returned DEF PortInv, RegistryTypes, CommandType
<1>2. RegistryAgrees' /\ ReadersAgree'
  BY <1>1 DEF PortInv, RegistryAgrees, ReadersAgree, Active
<1>3. QED
  BY <1>1, <1>2 DEF PortInv, StartAgrees, StopAgrees, SeenAgrees, Starting, Building, Stopping, CleaningUp

\* A step of a command to where the same is known of it.
LEMMA StepKeeps ==
  ASSUME PortInv, NEW label \in Labels, Onward(label), UNCHANGED <<entry, state, port, aux>>,
         op.pc # "idle",
         \/ op.pc \in Building /\ label \in Starting
         \/ op.pc \in Starting /\ label \in {"rollback", "undo"}
         \/ op.pc \in CleaningUp /\ label \in CleaningUp
  PROVE  PortInv'
<1> USE DEF PortInv, Starting, Building, Stopping, CleaningUp, Onward
<1>1. RegistryTypes'
  BY DEF RegistryTypes, CommandType
<1>2. RegistryAgrees' /\ ReadersAgree'
  BY DEF RegistryAgrees, ReadersAgree, Active
<1>3. StartAgrees'
  BY DEF StartAgrees
<1>4. StopAgrees'
  BY DEF StopAgrees, Active
<1>5. SeenAgrees'
  BY DEF SeenAgrees, Active
<1>6. QED
  BY <1>1, <1>2, <1>3, <1>4, <1>5

-----------------------------------------------------------------------------
(* The steps of a start.                                                   *)

\* A command begins with the lease and a registry in line with the records.
LEMMA RequestKeeps ==
  ASSUME PortInv, NEW k \in {"start", "prepare"}, NEW p \in Ports, NEW c \in Caches, Request(k, p, c)
  PROVE  PortInv'
<1>1. op.pc = "idle" /\ \A r \in Readers : aux[r].kind # "refresh"
  BY DEF Request, LeaseFree
<1>2. entry' = Reconciled /\ UNCHANGED <<state, port, aux>>
  BY DEF Request, identity
<1>3. RegistryAgrees'
  BY <1>2, ReconciledAgrees DEF PortInv, RegistryTypes, RegistryAgrees, Active
<1>4. ReadersAgree'
  BY <1>1, <1>2 DEF PortInv, ReadersAgree
<1>5. /\ op' \in CommandType' /\ op'.pc \in {"idle", "create", "refresh"} /\ (op'.pc # "idle" => op'.want = p)
      /\ op'.pc = "refresh" => op'.me \in Sessions /\ Active(op'.me)
  <2>1. CASE op' = NoOp
    BY <2>1, Returned DEF Return
  <2>2. CASE op' = [[NoOp EXCEPT !.call = k, !.want = p, !.cache = c] EXCEPT !.pc = "create"]
    BY <2>2 DEF NoOp, CommandType, Labels, NoEntries, Entries, States
  <2>3. ASSUME NEW s \in ActiveOn(p, c),
               op' = [[NoOp EXCEPT !.call = k, !.want = p, !.cache = c] EXCEPT !.pc = "refresh", !.me = s]
        PROVE  /\ op' \in CommandType' /\ op'.pc = "refresh" /\ op'.want = p
               /\ op'.me \in Sessions /\ Active(op'.me)
    <3>1. s \in Sessions /\ Active(s)
      BY DEF ActiveOn
    <3>2. QED
      BY <2>3, <3>1 DEF NoOp, CommandType, Labels, NoEntries, Entries, States
  <2>4. QED
    BY <2>1, <2>2, <2>3 DEF Request
<1>6. RegistryTypes'
  BY <1>2, <1>5, ReconciledAgrees DEF PortInv, RegistryTypes, CommandType
<1>7. StartAgrees' /\ StopAgrees' /\ SeenAgrees'
  BY <1>2, <1>5, ReconciledAgrees DEF PortInv, StartAgrees, StopAgrees, SeenAgrees, Starting, Building,
     Stopping, CleaningUp, Active, ActiveStates
<1>8. QED
  BY <1>3, <1>4, <1>6, <1>7 DEF PortInv

\* A refresh writes an active state over a registered record.
LEMMA RefreshKeeps == ASSUME PortInv, Refresh PROVE PortInv'
<1>1. op.pc = "refresh" /\ op.me \in Sessions /\ entry[op.me] = "live" /\ UNCHANGED <<entry, port, aux>>
  BY DEF PortInv, StartAgrees, Refresh, identity
<1>2. PICK st \in ActiveStates : state' = [state EXCEPT ![op.me] = st]
  BY DEF Refresh, RefreshStates, ActiveStates
<1>3. op'.pc \in {"idle", "create"} /\ op'.want \in Ports \cup {NoPort} /\ (op'.pc = "create" => op'.want \in Ports)
      /\ op' \in CommandType'
  <2>1. CASE Return
    BY <2>1, Returned DEF CommandType
  <2>2. CASE op' = [op EXCEPT !.pc = "create", !.me = 0]
    BY <1>1, <2>2 DEF PortInv, RegistryTypes, StartAgrees, CommandType, Labels
  <2>3. QED
    BY <2>1, <2>2 DEF Refresh
<1>4. RegistryTypes'
  BY <1>1, <1>2, <1>3 DEF PortInv, RegistryTypes, CommandType, States, ActiveStates
<1>5. RegistryAgrees'
  BY <1>1, <1>2 DEF PortInv, RegistryTypes, RegistryAgrees, Active
<1>6. ReadersAgree'
  BY <1>1 DEF PortInv, ReadersAgree
<1>7. QED
  BY <1>3, <1>4, <1>5, <1>6 DEF PortInv, StartAgrees, StopAgrees, SeenAgrees, Starting, Building, Stopping, CleaningUp

\* What the start sees stopped is what the records say.
LEMMA CheckKeeps == ASSUME PortInv, Check PROVE PortInv'
<1>1. op.pc = "create" /\ op.want \in Ports /\ entry' = Reconciled /\ UNCHANGED <<state, port, aux>>
  BY DEF PortInv, StartAgrees, Check, identity
<1>2. /\ op' \in CommandType' /\ op'.pc \in {"idle", "baseline"}
      /\ op'.pc = "baseline" => op'.want = op.want /\ op'.seen = Reconciled /\ Unused # {}
  <2>1. CASE Return
    BY <2>1, Returned
  <2>2. CASE op' = [op EXCEPT !.pc = "baseline", !.seen = Reconciled] /\ Unused # {}
    BY <2>2, ReconciledAgrees DEF PortInv, RegistryTypes, CommandType, Labels
  <2>3. QED
    BY <2>1, <2>2 DEF Check
<1>3. RegistryTypes'
  BY <1>1, <1>2, ReconciledAgrees DEF PortInv, RegistryTypes, CommandType
<1>4. RegistryAgrees' /\ ReadersAgree'
  BY <1>1, <1>2, ReconciledAgrees DEF PortInv, RegistryTypes, RegistryAgrees, ReadersAgree, Active
<1>5. StartAgrees' /\ StopAgrees'
  BY <1>1, <1>2 DEF StartAgrees, StopAgrees, Starting, Building, Stopping, CleaningUp, Unused
<1>6. SeenAgrees'
  BY <1>1, <1>2, ReconciledAgrees DEF PortInv, SeenAgrees, Starting, Building, CleaningUp, Active
<1>7. QED
  BY <1>3, <1>4, <1>5, <1>6 DEF PortInv

\* The session takes an identifier nobody has used.
LEMMA BaselineKeeps == ASSUME PortInv, Baseline PROVE PortInv'
<1> DEFINE me == Least(Unused)
<1>1. me \in Sessions /\ port[me] = NoPort
  <2>1. Unused # {}
    BY DEF PortInv, StartAgrees, Baseline, Unused
  <2>2. QED
    BY <2>1, LeastSession DEF Unused
<1>2. entry[me] = "none" /\ state[me] = "none"
  BY <1>1 DEF PortInv, RegistryAgrees
<1> HIDE DEF me
<1>3. /\ op.pc = "baseline" /\ op.want \in Ports /\ UNCHANGED <<entry, state, aux>>
      /\ port' = [port EXCEPT ![me] = op.want]
  BY DEF PortInv, StartAgrees, Baseline, me
<1>4. /\ op'.pc = "reserve" /\ op'.me = me /\ op'.want = op.want /\ op'.seen = op.seen
      /\ op' \in CommandType'
  <2>1. op' = [op EXCEPT !.pc = "reserve", !.me = me, !.previous = compose, !.baseline = op'.baseline]
    BY DEF Baseline, me
  <2>2. QED
    BY <1>1, <2>1 DEF PortInv, RegistryTypes, CommandType, Labels
<1>5. RegistryTypes'
  BY <1>1, <1>3, <1>4 DEF PortInv, RegistryTypes, CommandType
<1>6. RegistryAgrees'
  BY <1>1, <1>2, <1>3, RuntimeAssumption DEF PortInv, RegistryTypes, RegistryAgrees, Active, ActiveStates, NoPort
<1>7. ReadersAgree'
  BY <1>3 DEF PortInv, ReadersAgree
<1>8. op.seen[me] # "stopped"
  BY <1>1, <1>3 DEF PortInv, SeenAgrees
<1>9. StartAgrees' /\ StopAgrees'
  BY <1>1, <1>2, <1>3, <1>4, <1>8 DEF PortInv, RegistryTypes, StartAgrees, StopAgrees, Starting, Building,
     Stopping, CleaningUp
<1>10. SeenAgrees'
  BY <1>1, <1>3, <1>4, <1>8, RuntimeAssumption DEF PortInv, RegistryTypes, SeenAgrees, Active, NoPort, Starting
<1>11. QED
  BY <1>5, <1>6, <1>7, <1>9, <1>10 DEF PortInv

\* A reservation is given where no live entry has the port.
LEMMA ReserveKeeps == ASSUME PortInv, Reserve PROVE PortInv'
<1>1. /\ op.pc = "reserve" /\ op.me \in Sessions /\ state[op.me] = "none" /\ port[op.me] = op.want
      /\ op.want \in Ports /\ UNCHANGED <<state, port, aux>>
  BY DEF PortInv, StartAgrees, Starting, Reserve, identity
<1>2. CASE Goto("undo") /\ UNCHANGED entry
  BY <1>1, <1>2, GoOn, StepKeeps DEF PortInv, Labels, Starting
<1>3. CASE /\ Goto("ensure") /\ entry' = [Reconciled EXCEPT ![op.me] = "live"]
           /\ ~ \E s \in Sessions : Reconciled[s] = "live" /\ port[s] = op.want
  <2>1. Onward("ensure")
    BY <1>3, GoOn DEF PortInv, Labels
  <2>2. RegistryTypes'
    BY <1>1, <1>3, <2>1, ReconciledAgrees DEF PortInv, RegistryTypes, CommandType, Onward, Entries
  <2>3. RegistryAgrees'
    BY <1>1, <1>3, ReconciledAgrees, RuntimeAssumption DEF PortInv, RegistryTypes, RegistryAgrees, Active, Entries, NoPort
  <2>4. ReadersAgree'
    BY <1>1 DEF PortInv, ReadersAgree
  <2>5. entry'[op.me] = "live"
    BY <1>1, <1>3, ReconciledAgrees DEF PortInv, Entries
  <2>6. StartAgrees' /\ StopAgrees'
    BY <1>1, <2>1, <2>5 DEF PortInv, StartAgrees, StopAgrees, Starting, Building, Stopping, CleaningUp, Onward
  <2>7. SeenAgrees'
    BY <1>1, <2>1 DEF PortInv, SeenAgrees, Starting, Active, Onward
  <2>8. QED
    BY <2>2, <2>3, <2>4, <2>6, <2>7 DEF PortInv
<1>4. QED
  BY <1>2, <1>3 DEF Reserve

\* The file and the VM do not matter to the registry.
LEMMA EnsureKeeps == ASSUME PortInv, Ensure PROVE PortInv'
<1>1. op.pc = "ensure" /\ UNCHANGED <<entry, state, port, aux>>
  BY DEF Ensure, identity
<1>2. CASE Goto("verify")
  BY <1>1, <1>2, GoOn, StepKeeps DEF PortInv, Labels, Starting, Building
<1>3. CASE op' = [op EXCEPT !.pc = "recreate", !.changed = TRUE]
  <2>1. Onward("recreate")
    BY <1>3 DEF PortInv, RegistryTypes, Onward, CommandType, Labels
  <2>2. QED
    BY <1>1, <2>1, StepKeeps DEF Labels, Starting, Building
<1>4. QED
  BY <1>2, <1>3 DEF Ensure

\* Only entries that were seen stopped are dropped.
LEMMA FoldKeeps == ASSUME PortInv, Fold PROVE PortInv'
<1>1. /\ op.pc = "fold" /\ UNCHANGED <<state, port, aux>>
      /\ entry' = [s \in Sessions |-> IF op.seen[s] = "stopped" THEN "none" ELSE entry[s]]
  BY DEF Fold, identity
<1>2. Onward("verify")
  BY GoOn DEF Fold, PortInv, Labels
<1>3. RegistryTypes'
  BY <1>1, <1>2 DEF PortInv, RegistryTypes, CommandType, Onward, Entries
<1>4. RegistryAgrees'
  BY <1>1 DEF PortInv, RegistryTypes, RegistryAgrees, SeenAgrees, Starting, Building, Active, Entries
<1>5. ReadersAgree'
  BY <1>1 DEF PortInv, ReadersAgree
<1>6. StartAgrees' /\ StopAgrees'
  BY <1>1, <1>2 DEF PortInv, StartAgrees, StopAgrees, Starting, Building, Stopping, CleaningUp, Onward
<1>7. SeenAgrees'
  BY <1>1, <1>2 DEF PortInv, SeenAgrees, Starting, Building, Active, Onward
<1>8. QED
  BY <1>3, <1>4, <1>5, <1>6, <1>7 DEF PortInv

\* A record is written for a reserved session.
LEMMA RecordKeeps == ASSUME PortInv, Record PROVE PortInv'
<1>1. /\ op.pc = "record" /\ op.me \in Sessions /\ entry[op.me] = "live" /\ port[op.me] = op.want
      /\ op.want \in Ports
      /\ UNCHANGED <<entry, port, aux>> /\ state' = [state EXCEPT ![op.me] = "starting"]
  BY DEF PortInv, StartAgrees, Starting, Building, Record, identity
<1>2. op'.pc \in {"idle", "refresh"} /\ (op'.pc = "refresh" => op'.me = op.me /\ op'.want = op.want)
      /\ op' \in CommandType'
  <2>1. CASE Goto("refresh")
    BY <2>1, GoOn DEF PortInv, Labels, Onward
  <2>2. CASE Return
    BY <2>2, Returned
  <2>3. QED
    BY <2>1, <2>2 DEF Record
<1>3. RegistryTypes'
  BY <1>1, <1>2 DEF PortInv, RegistryTypes, CommandType, States, ActiveStates
<1>4. RegistryAgrees'
  BY <1>1, RuntimeAssumption DEF PortInv, RegistryTypes, RegistryAgrees, Active, NoPort
<1>5. ReadersAgree'
  BY <1>1 DEF PortInv, ReadersAgree
<1>6. StartAgrees'
  BY <1>1, <1>2 DEF PortInv, RegistryTypes, StartAgrees, Starting, Building
<1>7. QED
  BY <1>2, <1>3, <1>4, <1>5, <1>6 DEF PortInv, StopAgrees, SeenAgrees, Starting, Building, Stopping, CleaningUp

\* A start that gives up has no record yet.
LEMMA UndoKeeps == ASSUME PortInv, Undo PROVE PortInv'
<1>1. /\ op.pc = "undo" /\ op.me \in Sessions /\ state[op.me] = "none"
      /\ entry' = [entry EXCEPT ![op.me] = "none"] /\ UNCHANGED <<state, port, aux>>
  BY DEF PortInv, StartAgrees, Starting, Undo, identity
<1>2. op'.pc = "idle" /\ op' \in CommandType'
  BY Returned DEF Undo
<1>3. RegistryTypes'
  BY <1>1, <1>2 DEF PortInv, RegistryTypes, CommandType, Entries
<1>4. RegistryAgrees'
  BY <1>1 DEF PortInv, RegistryTypes, RegistryAgrees, Active, ActiveStates, Entries
<1>5. ReadersAgree'
  BY <1>1 DEF PortInv, ReadersAgree
<1>6. QED
  BY <1>2, <1>3, <1>4, <1>5 DEF PortInv, StartAgrees, StopAgrees, SeenAgrees, Starting, Building, Stopping, CleaningUp

-----------------------------------------------------------------------------
(* The steps of a stop.                                                    *)

LEMMA StopRequestKeeps == ASSUME PortInv, NEW s \in Sessions, StopRequest(s) PROVE PortInv'
<1>1. op.pc = "idle" /\ (\A r \in Readers : aux[r].kind # "refresh") /\ UNCHANGED <<entry, state, port, aux>>
  BY DEF StopRequest, LeaseFree, identity
<1>2. op'.pc = "stop" /\ op'.me = s /\ op' \in CommandType'
  <2>1. port[s] \in Ports \cup {NoPort}
    BY DEF PortInv, RegistryTypes
  <2>2. QED
    BY <2>1 DEF StopRequest, NoOp, CommandType, Labels, NoEntries, Entries, States
<1>3. RegistryTypes'
  BY <1>1, <1>2 DEF PortInv, RegistryTypes, CommandType
<1>4. RegistryAgrees' /\ ReadersAgree'
  BY <1>1 DEF PortInv, RegistryAgrees, ReadersAgree, Active
<1>5. port[s] # NoPort
  BY DEF StopRequest, PortInv, RegistryAgrees, Active, ActiveStates
<1>6. QED
  BY <1>1, <1>2, <1>3, <1>4, <1>5 DEF PortInv, StartAgrees, StopAgrees, SeenAgrees, Starting, Building, Stopping, CleaningUp

\* A stop finds the records as they are, or only marks its own.
LEMMA StopCheckKeeps == ASSUME PortInv, StopCheck PROVE PortInv'
<1>1. /\ op.pc = "stop" /\ op.me \in Sessions /\ port[op.me] # NoPort /\ state[op.me] # "none" /\ entry' = Reconciled
      /\ UNCHANGED <<port, aux>>
  BY DEF PortInv, StopAgrees, Stopping, StopCheck, identity
<1>2. CASE /\ op' = [op EXCEPT !.pc = "cleanup", !.seen = Reconciled, !.loaded = state[op.me]]
           /\ UNCHANGED state
  <2>1. /\ op'.pc = "cleanup" /\ op'.me = op.me /\ op'.seen = Reconciled /\ op'.loaded = state[op.me]
        /\ op' \in CommandType'
    BY <1>1, <1>2, ReconciledAgrees DEF PortInv, RegistryTypes, CommandType, Labels
  <2>2. RegistryTypes'
    BY <1>1, <1>2, <2>1, ReconciledAgrees DEF PortInv, RegistryTypes, CommandType
  <2>3. RegistryAgrees'
    BY <1>1, <1>2, ReconciledAgrees DEF PortInv, RegistryTypes, RegistryAgrees, Active
  <2>4. ReadersAgree'
    BY <1>1 DEF PortInv, ReadersAgree
  <2>5. StartAgrees' /\ StopAgrees'
    BY <1>1, <1>2, <2>1 DEF StartAgrees, StopAgrees, Starting, Building, Stopping, CleaningUp, Active, ActiveStates
  <2>6. SeenAgrees'
    BY <1>1, <1>2, <2>1, ReconciledAgrees DEF PortInv, SeenAgrees, Active
  <2>7. QED
    BY <2>2, <2>3, <2>4, <2>5, <2>6 DEF PortInv
<1>3. CASE /\ state' = [state EXCEPT ![op.me] = "stopped"]
           /\ Return \/ Goto("mark")
  <2>1. op'.pc \in {"idle", "mark"} /\ (op'.pc = "mark" => op'.me = op.me) /\ op' \in CommandType'
    BY <1>3, Returned, GoOn DEF PortInv, Labels, Onward
  <2>2. RegistryTypes'
    BY <1>1, <1>3, <2>1, ReconciledAgrees DEF PortInv, RegistryTypes, CommandType, States
  <2>3. \A q \in Sessions : Active(q)' => Active(q)
    BY <1>1, <1>3 DEF PortInv, RegistryTypes, Active, ActiveStates
  <2>4. RegistryAgrees'
    BY <1>1, <1>3, <2>3, ReconciledAgrees DEF PortInv, RegistryTypes, RegistryAgrees
  <2>5. ReadersAgree'
    BY <1>1 DEF PortInv, ReadersAgree
  <2>6. StartAgrees' /\ StopAgrees' /\ SeenAgrees'
    BY <1>1, <1>3, <2>1 DEF PortInv, RegistryTypes, StartAgrees, StopAgrees, SeenAgrees, Starting, Building,
       Stopping, CleaningUp, Active, ActiveStates
  <2>7. QED
    BY <2>2, <2>4, <2>5, <2>6 DEF PortInv
<1>4. QED
  BY <1>2, <1>3 DEF StopCheck

LEMMA MarkKeeps == ASSUME PortInv, MarkStopped PROVE PortInv'
<1>1. /\ op.pc = "mark" /\ op.me \in Sessions /\ ~Active(op.me) /\ UNCHANGED <<state, port, aux>>
      /\ entry' \in {entry, [entry EXCEPT ![op.me] = "stopped"]}
  BY DEF PortInv, RegistryTypes, Entries, StopAgrees, Stopping, MarkStopped, identity
<1>2. op'.pc = "idle" /\ op' \in CommandType'
  BY Returned DEF MarkStopped
<1>3. RegistryTypes'
  BY <1>1, <1>2 DEF PortInv, RegistryTypes, CommandType, Entries
<1>4. RegistryAgrees'
  <2>1. \A s \in Sessions : entry'[s] = entry[s] \/ (s = op.me /\ entry[s] # "none" /\ entry'[s] = "stopped")
    BY DEF MarkStopped, PortInv, RegistryTypes, Entries
  <2>2. QED
    BY <1>1, <2>1 DEF PortInv, RegistryAgrees, Active
<1>5. ReadersAgree'
  BY <1>1 DEF PortInv, ReadersAgree
<1>6. QED
  BY <1>2, <1>3, <1>4, <1>5 DEF PortInv, StartAgrees, StopAgrees, SeenAgrees, Starting, Building, Stopping, CleaningUp

LEMMA CleanupKeeps == ASSUME PortInv, Cleanup PROVE PortInv'
<1>1. op.pc = "cleanup" /\ UNCHANGED <<entry, state, port, aux>>
  BY DEF Cleanup, identity
<1>2. PICK label \in {"stopRecreate", "finish"} : op' = [op EXCEPT !.pc = label, !.previous = compose]
  BY DEF Cleanup
<1>3. Onward(label)
  BY <1>2 DEF PortInv, RegistryTypes, Onward, CommandType, Labels
<1>4. QED
  BY <1>1, <1>3, StepKeeps DEF Labels, CleaningUp

\* The record is stopped before its entry is given up.
LEMMA FinishKeeps == ASSUME PortInv, Finish PROVE PortInv'
<1>1. /\ op.pc = "finish" /\ op.me \in Sessions /\ port[op.me] # NoPort /\ UNCHANGED <<entry, port, aux>>
      /\ state' = IF op.loaded = "stopped" THEN state ELSE [state EXCEPT ![op.me] = "stopped"]
  BY DEF PortInv, StopAgrees, Stopping, CleaningUp, Finish, identity
<1>2. Onward("release")
  BY GoOn DEF Finish, PortInv, Labels
<1>3. ~Active(op.me)' /\ \A s \in Sessions : Active(s)' => Active(s)
  BY <1>1, <1>2 DEF PortInv, RegistryTypes, StopAgrees, CleaningUp, Active, ActiveStates, Onward
<1>4. RegistryTypes'
  BY <1>1, <1>2 DEF PortInv, RegistryTypes, CommandType, Onward, States
<1>5. RegistryAgrees'
  BY <1>1, <1>3 DEF PortInv, RegistryTypes, RegistryAgrees
<1>6. ReadersAgree'
  BY <1>1 DEF PortInv, ReadersAgree
<1>7. StartAgrees' /\ StopAgrees' /\ SeenAgrees'
  BY <1>1, <1>2, <1>3 DEF PortInv, StartAgrees, StopAgrees, SeenAgrees, Starting, Building, Stopping,
     CleaningUp, Onward
<1>8. QED
  BY <1>4, <1>5, <1>6, <1>7 DEF PortInv

LEMMA ReleaseKeeps == ASSUME PortInv, Release PROVE PortInv'
<1>1. /\ op.pc = "release" /\ op.me \in Sessions /\ ~Active(op.me) /\ UNCHANGED <<state, port, aux>>
      /\ entry' = [s \in Sessions |-> IF op.seen[s] = "stopped" \/ s = op.me THEN "none" ELSE entry[s]]
  BY DEF PortInv, StopAgrees, Stopping, Release, identity
<1>2. op'.pc = "idle" /\ op' \in CommandType'
  BY Returned DEF Release
<1>3. RegistryTypes'
  BY <1>1, <1>2 DEF PortInv, RegistryTypes, CommandType, Entries
<1>4. RegistryAgrees'
  BY <1>1 DEF PortInv, RegistryTypes, RegistryAgrees, SeenAgrees, Active, Entries
<1>5. ReadersAgree'
  BY <1>1 DEF PortInv, ReadersAgree
<1>6. QED
  BY <1>2, <1>3, <1>4, <1>5 DEF PortInv, StartAgrees, StopAgrees, SeenAgrees, Starting, Building, Stopping, CleaningUp

-----------------------------------------------------------------------------
(* The readers.                                                            *)

LEMMA ReaderKeeps == ASSUME PortInv, NEW r \in Readers, Read(r) PROVE PortInv'
<1> USE DEF PortInv
<1>1. UNCHANGED <<entry, port, op>>
  BY DEF Read, Load, Write, ForgetCheck, ForgetRename, Quit, identity
<1>2. /\ state' \in [Sessions -> States]
      /\ aux' \in [Readers -> [kind : {"idle", "refresh", "forget"}, s : Sessions \cup {0}]]
      /\ \A s \in Sessions : Active(s)' => Active(s) \/ (entry[s] = "live" /\ op.pc = "idle")
      /\ \A s \in Sessions : state'[s] # state[s] => port[s] # NoPort /\ state'[s] # "stopped"
      /\ \A s \in Sessions : state'[s] # state[s] => state'[s] = "none" \/ op.pc = "idle"
      /\ ReadersAgree'
  <2>1. CASE \E s \in Sessions : Load(r, s)
    <3>1. PICK s \in Sessions : Load(r, s)
      BY <2>1
    <3>2. entry[s] = "live" /\ state[s] # "stopped"
      BY <3>1 DEF Load, RegistryAgrees, Active, ActiveStates
    <3>3. QED
      BY <3>1, <3>2 DEF Load, RegistryTypes, ReadersAgree, Active
  <2>2. CASE \E s \in Sessions : ForgetCheck(r, s)
    <3>1. PICK t \in Sessions : ForgetCheck(r, t)
      BY <2>2
    <3>2. aux' \in [Readers -> [kind : {"idle", "refresh", "forget"}, s : Sessions \cup {0}]]
      BY <3>1 DEF ForgetCheck, RegistryTypes
    <3>3. ReadersAgree'
      BY <3>1 DEF ForgetCheck, RegistryTypes, ReadersAgree
    <3>4. UNCHANGED state
      BY <3>1 DEF ForgetCheck
    <3>5. state' \in [Sessions -> States] /\ \A s \in Sessions : state'[s] = state[s]
      BY <3>4 DEF RegistryTypes
    <3>6. \A s \in Sessions : Active(s)' => Active(s)
      BY <3>5 DEF Active
    <3>7. QED
      BY <3>2, <3>3, <3>5, <3>6
  <2>3. CASE Write(r)
    <3>1. PICK st \in ActiveStates : state' = [state EXCEPT ![aux[r].s] = st]
      BY <2>3 DEF Write, RefreshStates, ActiveStates
    <3>2. aux[r].s \in Sessions /\ entry[aux[r].s] = "live" /\ op.pc = "idle" /\ port[aux[r].s] # NoPort
      BY <2>3 DEF Write, ReadersAgree, RegistryAgrees
    <3>3. aux' \in {aux, [aux EXCEPT ![r] = NoAux]} /\ UNCHANGED <<entry, op>>
      BY <2>3 DEF Write
    <3>4. ReadersAgree'
      BY <3>1, <3>2, <3>3 DEF RegistryTypes, ReadersAgree, NoAux, ActiveStates
    <3>5. QED
      BY <3>1, <3>2, <3>3, <3>4 DEF RegistryTypes, Active, ActiveStates, States, NoAux
  <2>4. CASE ForgetRename(r)
    <3>1. aux[r].s \in Sessions /\ state[aux[r].s] # "none" /\ port[aux[r].s] # NoPort
      BY <2>4 DEF ForgetRename, ReadersAgree, RegistryAgrees
    <3>2. state' = [state EXCEPT ![aux[r].s] = "none"] /\ aux' = [aux EXCEPT ![r] = NoAux] /\ UNCHANGED op
      BY <2>4 DEF ForgetRename
    <3>3. aux' \in [Readers -> [kind : {"idle", "refresh", "forget"}, s : Sessions \cup {0}]]
      BY <3>2 DEF RegistryTypes, NoAux
    <3>4. ReadersAgree'
      BY <1>1, <3>1, <3>2 DEF RegistryTypes, ReadersAgree, NoAux
    <3>5. state' \in [Sessions -> States]
      BY <3>1, <3>2 DEF RegistryTypes, States
    <3>6. \A s \in Sessions : state'[s] = state[s] \/ (s = aux[r].s /\ state'[s] = "none")
      BY <3>1, <3>2 DEF RegistryTypes
    <3>7. \A s \in Sessions : Active(s)' => Active(s)
      BY <3>6 DEF Active, ActiveStates
    <3>8. \A s \in Sessions : state'[s] # state[s] => port[s] # NoPort /\ state'[s] = "none"
      BY <3>1, <3>6
    <3>9. QED
      BY <3>3, <3>4, <3>5, <3>7, <3>8
  <2>5. CASE Quit(r)
    <3>1. aux' = [aux EXCEPT ![r] = NoAux] /\ UNCHANGED <<state, op>>
      BY <2>5 DEF Quit
    <3>2. aux' \in [Readers -> [kind : {"idle", "refresh", "forget"}, s : Sessions \cup {0}]]
      BY <3>1 DEF RegistryTypes, NoAux
    <3>3. ReadersAgree'
      BY <1>1, <3>1 DEF RegistryTypes, ReadersAgree, NoAux
    <3>4. state' \in [Sessions -> States] /\ \A s \in Sessions : state'[s] = state[s]
      BY <3>1 DEF RegistryTypes
    <3>5. \A s \in Sessions : Active(s)' => Active(s)
      BY <3>4 DEF Active
    <3>6. QED
      BY <3>2, <3>3, <3>4, <3>5
  <2>6. QED
    BY <2>1, <2>2, <2>3, <2>4, <2>5 DEF Read
<1>3. RegistryTypes'
  BY <1>1, <1>2 DEF RegistryTypes
<1>4. RegistryAgrees'
  BY <1>1, <1>2 DEF RegistryAgrees
<1>5. StartAgrees'
  BY <1>1, <1>2 DEF StartAgrees, Starting, Building
<1>6. StopAgrees' /\ SeenAgrees'
  BY <1>1, <1>2 DEF StopAgrees, SeenAgrees, Starting, Building, Stopping, CleaningUp
<1>7. QED
  BY <1>2, <1>3, <1>4, <1>5, <1>6

-----------------------------------------------------------------------------
\* Every step of every command, reader and failure keeps the invariant.
LEMMA PortStep == PortInv /\ [Next]_vars => PortInv'
<1> SUFFICES ASSUME PortInv, [Next]_vars PROVE PortInv'
  OBVIOUS
<1>1. ASSUME NEW k \in {"start", "prepare"}, NEW p \in Ports, NEW c \in Caches, Request(k, p, c) PROVE PortInv'
  BY <1>1, RequestKeeps
<1>2. ASSUME NEW s \in Sessions, StopRequest(s) PROVE PortInv'
  BY <1>2, StopRequestKeeps
<1>3. CASE Refuse \/ StopFails \/ Crash \/ StopRecreateFails \/ StopVerifyFails
  BY <1>3, ReturnKeeps DEF Refuse, StopFails, Crash, StopRecreateFails, StopVerifyFails, identity
<1>4. CASE Recreate \/ RecreateFails \/ Verify \/ VerifyFails \/ Rollback \/ StartFails
  <2>1. PICK label \in {"fold", "verify", "rollback", "record", "undo"} : Goto(label)
    BY <1>4 DEF Recreate, RecreateFails, Verify, VerifyFails, Rollback, StartFails
  <2>2. op'.pc = label
    BY <2>1, GoOn DEF PortInv, Labels, Onward
  <2>3. /\ UNCHANGED <<entry, state, port, aux>>
        /\ op.pc \in Building \/ (op.pc \in Starting /\ label \in {"rollback", "undo"})
    <3>1. CASE Recreate \/ RecreateFails \/ Verify \/ VerifyFails
      BY <3>1 DEF Recreate, RecreateFails, Verify, VerifyFails, Building, identity
    <3>2. CASE Rollback \/ StartFails
      <4>1. Goto("undo") /\ op'.pc = "undo"
        BY <3>2, GoOn DEF Rollback, StartFails, PortInv, Labels, Onward
      <4>2. QED
        BY <2>2, <3>2, <4>1 DEF Rollback, StartFails, Building, Starting, identity
    <3>3. QED
      BY <1>4, <3>1, <3>2
  <2>4. Onward(label) /\ label \in Labels
    BY <2>1, GoOn DEF PortInv, Labels
  <2>5. QED
    BY <2>3, <2>4, StepKeeps DEF Building, Starting
<1>5. CASE StopRecreate \/ StopVerify
  <2>1. PICK label \in {"stopVerify", "finish"} : Goto(label)
    BY <1>5 DEF StopRecreate, StopVerify
  <2>2. op.pc \in CleaningUp /\ label \in CleaningUp /\ UNCHANGED <<entry, state, port, aux>>
    BY <1>5 DEF StopRecreate, StopVerify, CleaningUp, identity
  <2>3. Onward(label) /\ label \in Labels
    BY <2>1, GoOn DEF PortInv, Labels
  <2>4. QED
    BY <2>2, <2>3, StepKeeps DEF CleaningUp
<1>6. CASE Check \/ Baseline \/ Reserve \/ Ensure \/ Fold \/ Record \/ Refresh \/ Undo
  BY <1>6, CheckKeeps, BaselineKeeps, ReserveKeeps, EnsureKeeps, FoldKeeps, RecordKeeps, RefreshKeeps, UndoKeeps
<1>7. CASE StopCheck \/ MarkStopped \/ Cleanup \/ Finish \/ Release
  BY <1>7, StopCheckKeeps, MarkKeeps, CleanupKeeps, FinishKeeps, ReleaseKeeps
<1>8. ASSUME NEW r \in Readers, Read(r) PROVE PortInv'
  BY <1>8, ReaderKeeps
<1>9. CASE Edit \/ UNCHANGED vars
  <2>1. UNCHANGED <<entry, state, port, op, aux>>
    BY <1>9 DEF Edit, vars, identity
  <2>2. QED
    BY <2>1 DEF PortInv, RegistryTypes, RegistryAgrees, ReadersAgree, StartAgrees, StopAgrees, SeenAgrees, Active
<1>10. QED
  BY <1>1, <1>2, <1>3, <1>4, <1>5, <1>6, <1>7, <1>8, <1>9 DEF Next, Start, Stop

\* A port with two active records would have two live entries.
LEMMA OwnersAreUnique == PortInv => PortsOwned
  BY DEF PortInv, RegistryAgrees, PortsOwned, OnePerPort, ActiveOwns

\* Whoever writes an active state over a record knows that it is not stopped.
LEMMA StoppedStays ==
  PortInv /\ [Next]_vars => [\A s \in Sessions : state[s] = "stopped" => state'[s] \in {"stopped", "none"}]_vars
<1> SUFFICES ASSUME PortInv, [Next]_vars, NEW s \in Sessions, state[s] = "stopped"
             PROVE  state'[s] \in {"stopped", "none"}
  OBVIOUS
<1> USE DEF PortInv, RegistryTypes
<1>1. CASE Refresh
  BY <1>1 DEF Refresh, StartAgrees
<1>2. CASE Record
  BY <1>2 DEF Record, StartAgrees, Starting, Building
<1>3. ASSUME NEW r \in Readers, Write(r) PROVE state'[s] = "stopped"
  BY <1>3 DEF Write, ReadersAgree
<1>4. ASSUME NEW r \in Readers, ForgetRename(r) PROVE state'[s] \in {"stopped", "none"}
  BY <1>4 DEF ForgetRename
<1>5. CASE StopCheck
  BY <1>5 DEF StopCheck
<1>6. CASE Finish
  BY <1>6 DEF Finish
<1>7. CASE UNCHANGED state
  BY <1>7
<1>8. ASSUME NEW r \in Readers, Read(r), ~Write(r), ~ForgetRename(r) PROVE UNCHANGED state
  BY <1>8 DEF Read, Load, ForgetCheck, Quit
<1>9. ASSUME Start, ~Refresh, ~Record PROVE UNCHANGED state
  BY <1>9 DEF Start, Check, Baseline, Reserve, Ensure, Recreate, RecreateFails, Fold, Verify, VerifyFails,
     Rollback, StartFails, Undo
<1>10. ASSUME Stop, ~StopCheck, ~Finish PROVE UNCHANGED state
  BY <1>10 DEF Stop, MarkStopped, Cleanup, StopRecreate, StopRecreateFails, StopVerify, StopVerifyFails,
     Release, StopFails
<1>11. ASSUME NEW k \in {"start", "prepare"}, NEW p \in Ports, NEW c \in Caches, Request(k, p, c)
       PROVE  UNCHANGED state
  BY <1>11 DEF Request
<1>12. ASSUME NEW t \in Sessions, StopRequest(t) PROVE UNCHANGED state
  BY <1>12 DEF StopRequest
<1>13. CASE Refuse \/ Crash \/ Edit \/ UNCHANGED vars
  BY <1>13 DEF Refuse, Crash, Edit, vars
<1>14. QED
  BY <1>1, <1>2, <1>3, <1>4, <1>5, <1>6, <1>7, <1>8, <1>9, <1>10, <1>11, <1>12, <1>13 DEF Next

-----------------------------------------------------------------------------
\* Whatever the commands of any number of caches do at the same time, and
\* wherever they fail or die: a guest port has one active Runtime, and between
\* two commands the registry names it to all of them.
THEOREM OnePortOneRuntime == Spec => []PortsOwned
  BY PortInit, PortStep, OwnersAreUnique, PTL DEF Spec

\* No status, wait, retried or failing command makes a stopped session active.
THEOREM StoppedSessionsStay == Spec => StoppedIsFinal
  BY PortInit, PortStep, StoppedStays, PTL DEF Spec, StoppedIsFinal

-----------------------------------------------------------------------------
\* The types of the files and of the local variables that hold file contents.
FileTypes ==
  /\ compose \in Compose /\ vm \in [Ports -> Fwd]
  /\ pre \in [Sessions -> Fwd] /\ home \in [Sessions -> Caches] /\ kept \in [Sessions -> BOOLEAN]
  /\ orig \in [Sessions -> Compose] /\ managed \in [Sessions -> Compose]
  /\ op.cache \in Caches /\ op.previous \in Compose /\ op.baseline \in Compose
  /\ op.changed \in BOOLEAN

\* Together they are the types of every variable.
LEMMA TypesAreAll == RegistryTypes /\ FileTypes => TypeOK
  BY DEF RegistryTypes, FileTypes, TypeOK

\* A file without mappings is a file, and there is a cache.
LEMMA NoFileTyped == NoFile \in Compose /\ SomeCache \in Caches /\ NoForwarding \in [Ports -> Fwd]
  BY RuntimeAssumption DEF NoFile, NoForwarding, Compose, Fwd, SomeCache

\* What a command finds at first is of its type.
LEMMA FileInit == Init => FileTypes
  BY NoFileTyped, RuntimeAssumption DEF Init, FileTypes, NoOp, Compose, Fwd

\* What is put back on a port is a forwarding.
LEMMA ReplaceTyped ==
  ASSUME RegistryTypes, FileTypes, NEW file \in Compose, NEW ps,
         ps \subseteq Owned \/ op.me \in Sessions
  PROVE  Replace(file, ps) \in Compose
<1>1. ASSUME NEW p \in Ports, p \in ps PROVE Restored(p) \in Fwd
  <2>1. CASE p \in Owned
    <3>1. Least(Owners(p)) \in Sessions
      BY <2>1, LeastSession DEF Owned, Owners
    <3>2. QED
      BY <2>1, <3>1 DEF Restored, FileTypes
  <2>2. CASE p \notin Owned
    BY <1>1, <2>2 DEF Restored, FileTypes, Compose
  <2>3. QED
    BY <2>1, <2>2
<1>2. [p \in Ports |-> IF p \in ps THEN Restored(p) ELSE file.fwd[p]] \in [Ports -> Fwd]
  BY <1>1 DEF Compose
<1>3. QED
  BY <1>2 DEF Replace, Compose

\* A command that returned, and one that goes on, have local variables of their types.
LEMMA ReturnTyped ==
  Return => op'.cache \in Caches /\ op'.previous \in Compose /\ op'.baseline \in Compose
            /\ op'.changed \in BOOLEAN
  BY NoFileTyped DEF Return, NoOp

LEMMA GotoTyped ==
  ASSUME RegistryTypes, NEW label, Goto(label)
  PROVE  op'.cache = op.cache /\ op'.previous = op.previous /\ op'.baseline = op.baseline
         /\ op'.changed = op.changed
  BY DEF Goto, RegistryTypes

\* Every step keeps the types of the files.
LEMMA FileStep == PortInv /\ FileTypes /\ [Next]_vars => FileTypes'
<1> SUFFICES ASSUME PortInv, FileTypes, [Next]_vars PROVE FileTypes'
  OBVIOUS
<1> USE ReturnTyped, GotoTyped DEF PortInv
<1> DEFINE Locals == /\ op'.cache \in Caches /\ op'.previous \in Compose /\ op'.baseline \in Compose
                     /\ op'.changed \in BOOLEAN
<1>a. ASSUME UNCHANGED <<compose, vm, kept, identity>>, Locals PROVE FileTypes'
  BY <1>a DEF FileTypes, identity
<1>b. ASSUME UNCHANGED <<compose, vm, kept, identity>>, UNCHANGED op \/ Return \/ \E label \in Labels : Goto(label)
      PROVE  FileTypes'
  BY <1>a, <1>b DEF FileTypes
<1>1. ASSUME NEW k \in {"start", "prepare"}, NEW p \in Ports, NEW c \in Caches, Request(k, p, c) PROVE FileTypes'
  <2>1. Locals
    <3> DEFINE call == [NoOp EXCEPT !.call = k, !.want = p, !.cache = c]
    <3>1. CASE op' = NoOp
      BY <3>1 DEF Return
    <3>2. CASE op' = [call EXCEPT !.pc = "create"]
      BY <3>2, NoFileTyped DEF NoOp
    <3>3. ASSUME NEW s \in Sessions, op' = [call EXCEPT !.pc = "refresh", !.me = s] PROVE Locals
      BY <3>3, NoFileTyped DEF NoOp
    <3>4. QED
      BY <1>1, <3>1, <3>2, <3>3 DEF Request, ActiveOn
  <2>2. QED
    BY <1>1, <1>a, <2>1 DEF Request
<1>2. ASSUME NEW s \in Sessions, StopRequest(s) PROVE FileTypes'
  BY <1>2, <1>a, NoFileTyped DEF StopRequest, NoOp
<1>3. CASE Refuse \/ StopFails \/ Crash \/ MarkStopped \/ Finish \/ Release
  BY <1>3, <1>b DEF Refuse, StopFails, Crash, MarkStopped, Finish, Release, Labels
<1>4. CASE Refresh \/ Check \/ StopCheck
  <2>1. Locals
    <3>1. CASE Return \/ Goto("mark")
      BY <3>1 DEF FileTypes
    <3>2. CASE op' = [op EXCEPT !.pc = "create", !.me = 0]
      BY <3>2 DEF RegistryTypes, FileTypes
    <3>3. CASE op' = [op EXCEPT !.pc = "baseline", !.seen = Reconciled]
      BY <3>3 DEF RegistryTypes, FileTypes
    <3>4. CASE op' = [op EXCEPT !.pc = "cleanup", !.seen = Reconciled, !.loaded = state[op.me]]
      BY <3>4 DEF RegistryTypes, FileTypes
    <3>5. QED
      BY <1>4, <3>1, <3>2, <3>3, <3>4 DEF Refresh, Check, StopCheck
  <2>2. QED
    BY <1>4, <1>a, <2>1 DEF Refresh, Check, StopCheck
<1>5. CASE Reserve \/ Fold \/ VerifyFails \/ Record \/ StartFails \/ StopVerify
  BY <1>5, <1>b DEF Reserve, Fold, VerifyFails, Record, StartFails, StopVerify, Labels
<1>6. CASE Baseline
  <2> DEFINE file == [compose EXCEPT !.fwd[op.want] = @ \cap Expected]
  <2>1. file \in Compose
    BY DEF FileTypes, Compose, Fwd
  <2>2. /\ compose' = file /\ pre' = [pre EXCEPT ![Least(Unused)] = compose.fwd[op.want] \ Expected]
        /\ home' = [home EXCEPT ![Least(Unused)] = op.cache] /\ orig' = [orig EXCEPT ![Least(Unused)] = file]
        /\ UNCHANGED <<vm, kept, managed>>
        /\ op' = [op EXCEPT !.pc = "reserve", !.me = Least(Unused), !.previous = compose, !.baseline = file]
    BY <1>6 DEF Baseline
  <2> HIDE DEF file
  <2>3. compose.fwd[op.want] \ Expected \in Fwd
    BY <1>6 DEF Baseline, StartAgrees, FileTypes, Compose, Fwd
  <2>4. Locals
    BY <2>1, <2>2 DEF FileTypes, RegistryTypes
  <2>5. QED
    BY <2>1, <2>2, <2>3, <2>4 DEF FileTypes
<1>7. CASE Ensure
  <2>1. CASE Goto("verify") /\ UNCHANGED compose
    BY <1>7, <1>b, <2>1 DEF Ensure, Labels
  <2>2. CASE /\ compose' = Replace([compose EXCEPT !.fwd[op.want] = Expected], Owned)
             /\ op' = [op EXCEPT !.pc = "recreate", !.changed = TRUE]
    <3>1. [compose EXCEPT !.fwd[op.want] = Expected] \in Compose
      BY DEF FileTypes, Compose, Fwd, Expected
    <3>2. compose' \in Compose
      BY <2>2, <3>1, ReplaceTyped
    <3>3. Locals
      BY <2>2 DEF FileTypes, RegistryTypes
    <3>4. QED
      BY <1>7, <3>2, <3>3 DEF Ensure, FileTypes, identity
  <2>3. QED
    BY <1>7, <2>1, <2>2 DEF Ensure
<1>8. CASE Recreate \/ RecreateFails \/ StopRecreate
  <2>1. vm' \in [Ports -> Fwd]
    BY <1>8, NoFileTyped DEF Recreate, RecreateFails, StopRecreate, FileTypes, Compose
  <2>2. Locals /\ UNCHANGED <<compose, kept, identity>>
    BY <1>8 DEF Recreate, RecreateFails, StopRecreate, FileTypes, Labels
  <2>3. QED
    BY <2>1, <2>2 DEF FileTypes, identity
<1>9. CASE Verify
  <2>1. Locals
    BY <1>9 DEF Verify, FileTypes, Labels
  <2>2. managed' \in [Sessions -> Compose]
    BY <1>9 DEF Verify, FileTypes
  <2>3. QED
    BY <1>9, <2>1, <2>2 DEF Verify, FileTypes
<1>10. CASE Rollback \/ Undo \/ StopRecreateFails \/ StopVerifyFails
  <2>1. vm' \in [Ports -> Fwd] /\ compose' \in Compose
    BY <1>10, NoFileTyped DEF Rollback, Undo, StopRecreateFails, StopVerifyFails, FileTypes, Compose
  <2>2. Locals /\ UNCHANGED <<kept, identity>>
    BY <1>10 DEF Rollback, Undo, StopRecreateFails, StopVerifyFails, FileTypes, Labels
  <2>3. QED
    BY <2>1, <2>2 DEF FileTypes, identity
<1>11. CASE Cleanup
  <2>1. Cleaned \in Compose
    <3>1. op.me \in Sessions
      BY <1>11 DEF Cleanup, StopAgrees, Stopping, CleaningUp
    <3>2. QED
      BY <3>1, ReplaceTyped DEF Cleaned, FileTypes
  <2>2. Locals
    BY <1>11 DEF Cleanup, FileTypes, RegistryTypes
  <2>3. QED
    BY <1>11, <2>1, <2>2 DEF Cleanup, FileTypes, identity
<1>12. ASSUME NEW r \in Readers, Read(r) PROVE FileTypes'
  <2>1. kept' \in [Sessions -> BOOLEAN]
    BY <1>12 DEF Read, Load, Write, ForgetCheck, ForgetRename, Quit, FileTypes
  <2>2. UNCHANGED <<compose, vm, identity, op>>
    BY <1>12 DEF Read, Load, Write, ForgetCheck, ForgetRename, Quit
  <2>3. QED
    BY <2>1, <2>2 DEF FileTypes, identity
<1>13. CASE Edit
  <2>1. compose.rest \in Nat /\ compose.rest < MaxEdits /\ compose' = [compose EXCEPT !.rest = @ + 1]
    BY <1>13 DEF Edit, FileTypes, Compose
  <2>2. compose.rest + 1 \in 0..MaxEdits
    BY <2>1, RuntimeAssumption
  <2>3. compose' \in Compose
    BY <2>1, <2>2 DEF FileTypes, Compose
  <2>4. QED
    BY <1>13, <2>3 DEF Edit, FileTypes, identity
<1>14. CASE UNCHANGED vars
  BY <1>14, <1>b DEF vars
<1>15. QED
  BY <1>1, <1>2, <1>3, <1>4, <1>5, <1>6, <1>7, <1>8, <1>9, <1>10, <1>11, <1>12, <1>13, <1>14 DEF Next, Start, Stop

\* From the request to the reservation the port is free, but for the failed Runtime that a
\* preparation found on it.
PortFree ==
  /\ op.pc \in {"create", "baseline", "reserve"} =>
       \A s \in Sessions :
         Reconciled[s] = "live" /\ port[s] = op.want => op.call = "prepare" /\ state[s] = "failed"
  /\ op.pc = "refresh" /\ op.call = "prepare" => port[op.me] = op.want

\* A step outside this stretch ends the obligation.
LEMMA FreeElsewhere ==
  ASSUME op'.pc \notin {"create", "refresh", "baseline", "reserve"}
  PROVE  PortFree'
  BY DEF PortFree

\* A request goes on to a new session only when no record is active on the port.
LEMMA RequestFrees ==
  ASSUME PortInv, NEW k \in {"start", "prepare"}, NEW p \in Ports, NEW c \in Caches, Request(k, p, c)
  PROVE  PortFree'
<1>1. PortInv' /\ UNCHANGED <<state, port>> /\ entry' = Reconciled
  BY RequestKeeps DEF Request, identity
<1>2. CASE op' = NoOp
  BY <1>2, FreeElsewhere DEF NoOp
<1>3. CASE ActiveOn(p, c) = {} /\ op' = [[NoOp EXCEPT !.call = k, !.want = p, !.cache = c] EXCEPT !.pc = "create"]
  <2>1. op'.pc = "create" /\ op'.want = p
    BY <1>3 DEF NoOp
  <2>2. ASSUME NEW s \in Sessions, Reconciled'[s] = "live", port'[s] = p PROVE FALSE
    <3>1. Reconciled[s] = "live" /\ Active(s)
      <4>1. Reconciled[s] = "live"
        BY <1>1, <2>2 DEF Reconciled
      <4>2. QED
        BY <4>1, ReconciledAgrees DEF PortInv
    <3>2. s \in ActiveOn(p, c)
      BY <1>1, <2>2, <3>1 DEF ActiveOn
    <3>3. QED
      BY <1>3, <3>2
  <2>3. QED
    BY <2>1, <2>2 DEF PortFree
<1>4. ASSUME NEW s \in ActiveOn(p, c),
             op' = [[NoOp EXCEPT !.call = k, !.want = p, !.cache = c] EXCEPT !.pc = "refresh", !.me = s]
      PROVE  PortFree'
  <2>1. port[s] = p /\ op'.pc = "refresh" /\ op'.me = s /\ op'.want = p
    BY <1>4 DEF ActiveOn, NoOp
  <2>2. QED
    BY <1>1, <2>1 DEF PortFree
<1>5. QED
  BY <1>2, <1>3, <1>4 DEF Request

\* A preparation goes on past the failed Runtime it has refreshed, the only one on the port.
LEMMA RefreshFrees == ASSUME PortInv, PortFree, Refresh PROVE PortFree'
<1>1. op.pc = "refresh" /\ op.me \in Sessions /\ entry[op.me] = "live" /\ UNCHANGED <<entry, port>>
  BY DEF PortInv, StartAgrees, Refresh, identity
<1>2. CASE Return
  BY <1>2, Returned, FreeElsewhere
<1>3. CASE /\ op.call = "prepare" /\ state' = [state EXCEPT ![op.me] = "failed"]
           /\ op' = [op EXCEPT !.pc = "create", !.me = 0]
  <2>1. op'.pc = "create" /\ op'.call = "prepare" /\ op'.want = op.want /\ port[op.me] = op.want /\ op.want \in Ports
    BY <1>1, <1>3 DEF PortInv, RegistryTypes, StartAgrees, PortFree
  <2>2. ASSUME NEW s \in Sessions, Reconciled'[s] = "live", port[s] = op.want PROVE state'[s] = "failed"
    <3>1. entry[s] = "live"
      BY <1>1, <2>2 DEF Reconciled
    <3>2. s = op.me
      BY <1>1, <2>1, <2>2, <3>1 DEF PortInv, RegistryAgrees
    <3>3. QED
      BY <1>3, <3>2 DEF PortInv, RegistryTypes
  <2>3. QED
    BY <1>1, <2>1, <2>2 DEF PortFree
<1>4. QED
  BY <1>2, <1>3 DEF Refresh

\* Reconciling once more, or taking an unused identifier, puts no one on the port.
LEMMA StartFrees == ASSUME PortInv, PortFree, Check \/ Baseline PROVE PortFree'
<1>1. CASE Check
  <2>1. op.pc = "create" /\ entry' = Reconciled /\ UNCHANGED <<state, port>>
    BY <1>1 DEF Check, identity
  <2>2. CASE Return
    BY <2>2, Returned, FreeElsewhere
  <2>3. CASE op' = [op EXCEPT !.pc = "baseline", !.seen = Reconciled]
    <3>1. op'.pc = "baseline" /\ op'.call = op.call /\ op'.want = op.want
      BY <2>3 DEF PortInv, RegistryTypes
    <3>2. \A s \in Sessions : Reconciled'[s] = "live" => Reconciled[s] = "live"
      BY <2>1 DEF Reconciled
    <3>3. QED
      BY <2>1, <3>1, <3>2 DEF PortFree
  <2>4. QED
    BY <1>1, <2>2, <2>3 DEF Check
<1>2. CASE Baseline
  <2> DEFINE me == Least(Unused)
  <2>1. me \in Sessions /\ port[me] = NoPort
    <3>1. Unused # {}
      BY <1>2 DEF PortInv, StartAgrees, Baseline, Unused
    <3>2. QED
      BY <3>1, LeastSession DEF Unused
  <2>2. entry[me] = "none"
    BY <2>1 DEF PortInv, RegistryAgrees
  <2> HIDE DEF me
  <2>3. /\ op.pc = "baseline" /\ UNCHANGED <<entry, state>>
        /\ port' = [port EXCEPT ![me] = op.want]
    BY <1>2 DEF Baseline, me
  <2>4. op'.pc = "reserve" /\ op'.call = op.call /\ op'.want = op.want
    <3>1. op' = [op EXCEPT !.pc = "reserve", !.me = me, !.previous = compose, !.baseline = op'.baseline]
      BY <1>2 DEF Baseline, me
    <3>2. QED
      BY <3>1 DEF PortInv, RegistryTypes
  <2>5. ASSUME NEW s \in Sessions, Reconciled'[s] = "live", port'[s] = op.want
        PROVE  op.call = "prepare" /\ state[s] = "failed"
    <3>1. Reconciled[s] = "live" /\ s # me
      BY <2>2, <2>3, <2>5 DEF Reconciled
    <3>2. port[s] = op.want
      BY <2>1, <2>3, <2>5, <3>1 DEF PortInv, RegistryTypes
    <3>3. QED
      BY <2>3, <3>1, <3>2 DEF PortFree
  <2>6. QED
    BY <2>3, <2>4, <2>5 DEF PortFree
<1>3. QED
  BY <1>1, <1>2

\* Next to a command no reader changes a record except by forgetting it.
LEMMA ReaderFrees == ASSUME PortInv, PortFree, NEW r \in Readers, Read(r) PROVE PortFree'
<1>1. UNCHANGED <<entry, port, op>>
  BY DEF Read, Load, Write, ForgetCheck, ForgetRename, Quit, identity
<1>2. CASE op.pc \notin {"create", "refresh", "baseline", "reserve"}
  BY <1>1, <1>2, FreeElsewhere
<1>3. CASE op.pc \in {"create", "refresh", "baseline", "reserve"}
  <2>1. ~Write(r)
    BY <1>3 DEF Write, PortInv, ReadersAgree
  <2>2. \A s \in Sessions : state'[s] \in {state[s], "none"}
    BY <2>1 DEF Read, Load, ForgetCheck, ForgetRename, Quit, PortInv, RegistryTypes
  <2>3. \A s \in Sessions : Reconciled'[s] = "live" => Reconciled[s] = "live" /\ state'[s] = state[s]
    BY <1>1, <2>2 DEF Reconciled
  <2>4. QED
    BY <1>1, <2>3 DEF PortFree
<1>4. QED
  BY <1>2, <1>3

\* The other steps leave this stretch, or begin no new session.
LEMMA FreeStep == PortInv /\ PortFree /\ [Next]_vars => PortFree'
<1> SUFFICES ASSUME PortInv, PortFree, [Next]_vars PROVE PortFree'
  OBVIOUS
<1>1. ASSUME NEW k \in {"start", "prepare"}, NEW p \in Ports, NEW c \in Caches, Request(k, p, c) PROVE PortFree'
  BY <1>1, RequestFrees
<1>2. CASE Refresh
  BY <1>2, RefreshFrees
<1>3. CASE Check \/ Baseline
  BY <1>3, StartFrees
<1>4. ASSUME NEW r \in Readers, Read(r) PROVE PortFree'
  BY <1>4, ReaderFrees
<1>5. CASE Record
  <2>1. op.pc = "record" /\ (op'.pc = "idle" \/ (op'.pc = "refresh" /\ op'.call = "start"))
    BY <1>5, Returned DEF Record, Goto, PortInv, RegistryTypes
  <2>2. QED
    BY <2>1 DEF PortFree
<1>6. ASSUME NEW label \in Labels \ {"create", "refresh", "baseline", "reserve"}, Goto(label) PROVE PortFree'
  BY <1>6, FreeElsewhere DEF Goto, PortInv, RegistryTypes
<1>7. CASE Return
  BY <1>7, Returned, FreeElsewhere
<1>8. CASE Reserve \/ Recreate \/ RecreateFails \/ Verify \/ VerifyFails \/ Rollback \/ StartFails
  BY <1>6, <1>8 DEF Reserve, Recreate, RecreateFails, Fold, Verify, VerifyFails, Rollback, StartFails, Labels
<1>9. CASE Ensure \/ Fold
  <2>1. op'.pc \in {"verify", "recreate"}
    BY <1>9 DEF Ensure, Fold, Goto, PortInv, RegistryTypes
  <2>2. QED
    BY <2>1, FreeElsewhere
<1>10. CASE Refuse \/ StopFails \/ Crash \/ StopRecreateFails \/ StopVerifyFails \/ Undo \/ MarkStopped \/ Release
  BY <1>7, <1>10 DEF Refuse, StopFails, Crash, StopRecreateFails, StopVerifyFails, Undo, MarkStopped, Release
<1>11. CASE StopCheck \/ Cleanup \/ StopRecreate \/ StopVerify \/ Finish
  <2>1. op'.pc \in {"idle", "mark", "cleanup", "stopRecreate", "stopVerify", "finish", "release"}
    BY <1>11, Returned DEF StopCheck, Cleanup, StopRecreate, StopVerify, Finish, Goto, PortInv, RegistryTypes
  <2>2. QED
    BY <2>1, FreeElsewhere
<1>12. ASSUME NEW s \in Sessions, StopRequest(s) PROVE PortFree'
  <2>1. op'.pc = "stop"
    BY <1>12 DEF StopRequest, NoOp
  <2>2. QED
    BY <2>1, FreeElsewhere
<1>13. CASE Edit \/ UNCHANGED vars
  <2>1. UNCHANGED <<entry, state, port, op>>
    BY <1>13 DEF Edit, vars, identity
  <2>2. QED
    BY <2>1 DEF PortFree, Reconciled
<1>14. QED
  BY <1>1, <1>2, <1>3, <1>4, <1>5, <1>8, <1>9, <1>10, <1>11, <1>12, <1>13 DEF Next, Start, Stop

\* Every variable has its type in every run: a session identifier, a port, a file content
\* or a state of a command (src-tauri/src/winboat/runtime.rs), whatever the environment does.
THEOREM RuntimeTypes == Spec => []TypeOK
<1> DEFINE IInv == PortInv /\ FileTypes
<1>1. Init => IInv
  BY PortInit, FileInit
<1>2. IInv /\ [Next]_vars => IInv'
  BY PortStep, FileStep
<1>3. IInv => TypeOK
  BY TypesAreAll DEF PortInv
<1>4. QED
  BY <1>1, <1>2, <1>3, PTL DEF Spec

\* Whatever other caches, readers, crashes and failures did before or do meanwhile, a reservation
\* (vm_ports::reserve) conflicts with nothing but the failed Runtime that a preparation found.
THEOREM ReservationsAreFree == Spec => []ConflictsAreFailed
<1> DEFINE IInv == PortInv /\ PortFree
<1>1. Init => IInv
  BY PortInit DEF Init, NoOp, PortFree
<1>2. IInv /\ [Next]_vars => IInv'
  BY PortStep, FreeStep
<1>3. IInv => ConflictsAreFailed
  BY DEF PortFree, ConflictsAreFailed
<1>4. QED
  BY <1>1, <1>2, <1>3, PTL DEF Spec

-----------------------------------------------------------------------------
\* Where a stop has put the file back, where no VM change is on its way, and where a
\* start decides what it needs.
Dismantled == {"stopRecreate", "stopVerify", "finish", "release"}
Settled == {"idle", "create", "refresh", "baseline", "stop", "mark", "cleanup"}
Choosing == {"baseline", "reserve", "ensure"}

\* The VM forwards what the file says, but for what a start or a stop is about to change.
Mirrored ==
  /\ op.pc \in Settled \cup {"stopVerify", "finish", "release"} => vm = compose.fwd
  /\ op.pc \in {"fold", "verify", "record"} /\ op.changed => vm = compose.fwd
  /\ op.pc \in Starting /\ ~op.changed =>
       vm = op.previous.fwd /\ compose.fwd = [vm EXCEPT ![op.want] = @ \cap Expected]
  /\ op.pc \in Choosing \cup {"create", "undo"} => ~op.changed
  /\ op.pc = "refresh" /\ op.call = "prepare" => ~op.changed
  /\ op.pc = "recreate" => op.changed
  /\ op.pc # "rollback"
  /\ op.pc \in {"recreate", "fold", "verify", "record"} => compose.fwd[op.want] = Expected
  /\ op.pc = "record" => vm[op.want] = Expected
  /\ op.pc \in {"stopRecreate", "stopVerify"} => \A p \in Targets : compose.fwd[p] = Restored(p)

\* Who is registered is served, until the last one cleans up.
Served(s) == vm[port[s]] = Expected /\ compose.fwd[port[s]] = Expected
RegisteredServed ==
  \A s \in Sessions : entry[s] # "none" =>
    \/ Served(s)
    \/ s = op.me /\ op.pc \in Starting
    \/ entry[s] = "stopped" /\ op.pc \in {"recreate", "fold"}
    \/ op.pc \in Dismantled

\* Whoever changes the VM saw nobody else live.
ChangesAlone ==
  /\ op.pc \in Choosing /\ compose.fwd[op.want] # Expected => \A s \in Sessions : op.seen[s] # "live"
  /\ op.pc \in {"recreate", "fold", "release"} \cup CleaningUp =>
       \A s \in Sessions : s # op.me => op.seen[s] # "live"

\* What a command saw is what is registered, but for records that were forgotten since.
SeenIsRegistered ==
  /\ op.pc \in {"baseline", "release"} \cup CleaningUp => op.seen = entry
  /\ op.pc \in Choosing => \A s \in Sessions : op.seen[s] # "none" => Served(s)
  /\ op.pc \in {"reserve", "ensure", "recreate", "fold"} =>
       /\ op.seen[op.me] = "none"
       /\ \A s \in Sessions : s # op.me /\ entry[s] # "none" => op.seen[s] \in {entry[s], "live"}

\* A stop is where stops are, and about the port of its session.
CallsAgree ==
  /\ op.call = "stop" <=> op.pc \in Stopping
  /\ op.pc \in Stopping => op.want = port[op.me]

\* With the registry in line and the files of their types, the second invariant: who is
\* registered is served.  It needs an environment in which nothing fails half way.
ServedInv == Mirrored /\ RegisteredServed /\ ChangesAlone /\ SeenIsRegistered /\ CallsAgree
CalmInv == PortInv /\ FileTypes /\ ServedInv
Calm == ~May("docker") /\ ~May("io") /\ ~May("crash")

\* What a command keeps when it goes on, and what it forgets when it returns.
LEMMA GotoFields ==
  ASSUME RegistryTypes, NEW label, Goto(label)
  PROVE  /\ op'.pc = label /\ op'.call = op.call /\ op'.me = op.me /\ op'.want = op.want /\ op'.seen = op.seen
         /\ op'.previous = op.previous /\ op'.baseline = op.baseline
         /\ op'.changed = op.changed /\ op'.loaded = op.loaded
  BY DEF Goto, RegistryTypes

LEMMA ReturnFields == Return => op'.pc = "idle" /\ op'.call = "none" /\ op'.me = 0 /\ op'.changed = FALSE
  BY DEF Return, NoOp

\* Nobody is registered at first.
LEMMA ServedInit == Init => ServedInv
<1> SUFFICES ASSUME Init PROVE ServedInv
  OBVIOUS
<1>1. op = NoOp /\ op.pc = "idle" /\ op.call = "none" /\ entry = NoEntries /\ vm = compose.fwd
  BY DEF Init, NoOp
<1>2. QED
  BY <1>1 DEF ServedInv, Mirrored, RegisteredServed, ChangesAlone, SeenIsRegistered, CallsAgree,
     Settled, Starting, Building, Choosing, CleaningUp, Stopping, Dismantled, NoEntries

\* A command that ends with everybody served.
LEMMA ReturnServes ==
  ASSUME Return, vm' = compose'.fwd, \A s \in Sessions : (entry[s] # "none")' => Served(s)'
  PROVE  ServedInv'
<1>1. op'.pc = "idle" /\ op'.call = "none"
  BY ReturnFields
<1>2. QED
  BY <1>1 DEF ServedInv, Mirrored, RegisteredServed, ChangesAlone, SeenIsRegistered, CallsAgree,
     Settled, Starting, Building, Choosing, CleaningUp, Stopping, Dismantled

\* Between two changes everybody who is registered is served.
LEMMA SettledServes ==
  ASSUME CalmInv, op.pc \in Settled
  PROVE  vm = compose.fwd /\ \A s \in Sessions : entry[s] # "none" => Served(s)
  BY DEF CalmInv, ServedInv, Mirrored, RegisteredServed, Settled, Starting, Building, Dismantled

\* Entries that are brought in line with the records are entries still.
LEMMA ReconcileServes ==
  ASSUME CalmInv, op.pc \in Settled, entry' = Reconciled, UNCHANGED <<vm, compose, port>>
  PROVE  vm' = compose'.fwd /\ \A s \in Sessions : (entry[s] # "none")' => Served(s)'
  BY SettledServes, ReconciledAgrees DEF CalmInv, PortInv, Served

\* The steps of a start.
LEMMA RequestServes ==
  ASSUME CalmInv, NEW k \in {"start", "prepare"}, NEW p \in Ports, NEW c \in Caches, Request(k, p, c)
  PROVE  ServedInv'
<1>1. vm' = compose'.fwd /\ \A s \in Sessions : (entry[s] # "none")' => Served(s)'
  BY ReconcileServes DEF Request, LeaseFree, Settled, identity
<1>2. op'.pc \in {"idle", "create", "refresh"} /\ op'.call # "stop" /\ ~op'.changed
  <2> DEFINE call == [NoOp EXCEPT !.call = k, !.want = p, !.cache = c]
  <2>1. CASE op' = NoOp
    BY <2>1 DEF NoOp
  <2>2. CASE op' = [call EXCEPT !.pc = "create"]
    BY <2>2 DEF NoOp
  <2>3. ASSUME NEW s, op' = [call EXCEPT !.pc = "refresh", !.me = s]
        PROVE  op'.pc = "refresh" /\ op'.call # "stop" /\ ~op'.changed
    BY <2>3 DEF NoOp
  <2>4. QED
    BY <2>1, <2>2, <2>3 DEF Request
<1>3. QED
  BY <1>1, <1>2 DEF ServedInv, Mirrored, RegisteredServed, ChangesAlone, SeenIsRegistered, CallsAgree,
     Settled, Starting, Building, Choosing, CleaningUp, Stopping, Dismantled

LEMMA RefreshServes == ASSUME CalmInv, Refresh PROVE ServedInv'
<1>1. op.pc = "refresh" /\ UNCHANGED <<vm, compose, entry, port>>
  BY DEF Refresh, identity
<1>2. vm' = compose'.fwd /\ \A s \in Sessions : (entry[s] # "none")' => Served(s)'
  BY <1>1, SettledServes DEF Settled, Served
<1>3. CASE Return
  BY <1>2, <1>3, ReturnServes
<1>4. CASE op.call = "prepare" /\ op' = [op EXCEPT !.pc = "create", !.me = 0]
  <2>1. op.call = "prepare" /\ ~op.changed
    BY <1>1, <1>4 DEF CalmInv, ServedInv, Mirrored
  <2>2. op'.pc = "create" /\ op'.call = op.call /\ op'.changed = op.changed
    BY <1>4 DEF CalmInv, PortInv, RegistryTypes
  <2>3. QED
    BY <1>1, <1>2, <2>1, <2>2 DEF ServedInv, Mirrored, RegisteredServed, ChangesAlone, SeenIsRegistered, CallsAgree,
     Settled, Starting, Building, Choosing, CleaningUp, Stopping, Dismantled
<1>5. QED
  BY <1>3, <1>4 DEF Refresh

LEMMA CheckServes == ASSUME CalmInv, Check PROVE ServedInv'
<1>1. op.pc = "create" /\ ~op.changed /\ op.call # "stop" /\ UNCHANGED <<vm, compose, port>> /\ entry' = Reconciled
  BY DEF CalmInv, ServedInv, Mirrored, CallsAgree, Stopping, CleaningUp, Check, identity
<1>2. vm' = compose'.fwd /\ \A s \in Sessions : (entry[s] # "none")' => Served(s)'
  BY <1>1, ReconcileServes DEF Settled
<1>3. CASE Return
  BY <1>2, <1>3, ReturnServes
<1>4. CASE ~Blocked /\ op' = [op EXCEPT !.pc = "baseline", !.seen = Reconciled]
  <2>1. /\ op'.pc = "baseline" /\ op'.seen = Reconciled /\ op'.want = op.want /\ op'.call = op.call
        /\ op'.changed = op.changed
    BY <1>4 DEF CalmInv, PortInv, RegistryTypes
  <2>2. (compose.fwd[op.want] # Expected)' => \A s \in Sessions : op'.seen[s] # "live"
    BY <1>1, <1>4, <2>1 DEF Blocked
  <2>3. \A s \in Sessions : op'.seen[s] # "none" => Served(s)'
    BY <1>1, <1>2, <2>1
  <2>4. QED
    BY <1>1, <1>2, <2>1, <2>2, <2>3 DEF ServedInv, Mirrored, RegisteredServed, ChangesAlone, SeenIsRegistered, CallsAgree,
     Settled, Starting, Building, Choosing, CleaningUp, Stopping, Dismantled
<1>5. QED
  BY <1>3, <1>4 DEF Check

\* The user's mappings leave a port on which nobody is registered.
LEMMA BaselineServes == ASSUME CalmInv, Baseline PROVE ServedInv'
<1> DEFINE me == Least(Unused)
           file == [compose EXCEPT !.fwd[op.want] = @ \cap Expected]
<1>1. /\ op.pc = "baseline" /\ op.want \in Ports /\ ~op.changed /\ op.call # "stop" /\ op.seen = entry
      /\ UNCHANGED <<vm, entry>> /\ compose' = file /\ port' = [port EXCEPT ![me] = op.want]
  BY DEF CalmInv, PortInv, StartAgrees, ServedInv, Mirrored, SeenIsRegistered, CallsAgree, Stopping,
     CleaningUp, Choosing, Baseline
<1>2. me \in Sessions /\ entry[me] = "none"
  <2>1. me \in Unused
    BY LeastSession DEF CalmInv, PortInv, StartAgrees, Baseline, Unused
  <2>2. QED
    BY <2>1 DEF Unused, CalmInv, PortInv, RegistryAgrees
<1>3. op' = [op EXCEPT !.pc = "reserve", !.me = me, !.previous = compose, !.baseline = file]
  BY DEF Baseline
<1> HIDE DEF me
<1>4. /\ op'.pc = "reserve" /\ op'.me = me /\ op'.want = op.want /\ op'.seen = op.seen /\ op'.call = op.call
      /\ op'.changed = op.changed /\ op'.previous = compose
  BY <1>3 DEF CalmInv, PortInv, RegistryTypes
<1>5. vm = compose.fwd /\ compose'.fwd = [vm EXCEPT ![op.want] = @ \cap Expected]
  BY <1>1, SettledServes DEF Settled, CalmInv, FileTypes, Compose
<1> HIDE DEF file
<1>6. \A s \in Sessions : entry[s] # "none" => Served(s) /\ s # me
  BY <1>1, <1>2, SettledServes DEF Settled
<1>7. ASSUME NEW s \in Sessions, entry[s] # "none" PROVE Served(s)'
  <2>1. port'[s] = port[s] /\ vm[port[s]] = Expected
    BY <1>1, <1>2, <1>6, <1>7 DEF CalmInv, PortInv, RegistryTypes, Served
  <2>2. compose'.fwd[port[s]] = Expected
    BY <1>1, <1>5, <2>1 DEF CalmInv, FileTypes
  <2>3. QED
    BY <1>1, <2>1, <2>2 DEF Served
<1>8. (compose.fwd[op.want] # Expected)' => \A s \in Sessions : op.seen[s] # "live"
  <2>1. compose.fwd[op.want] = Expected => compose'.fwd[op.want] = Expected
    BY <1>1, <1>5 DEF CalmInv, FileTypes
  <2>2. QED
    BY <1>1, <1>4, <2>1 DEF CalmInv, ServedInv, ChangesAlone, Choosing
<1>9. QED
  BY <1>1, <1>2, <1>4, <1>5, <1>7, <1>8 DEF ServedInv, Mirrored, RegisteredServed, ChangesAlone, SeenIsRegistered,
     CallsAgree, Settled, Starting, Building, Choosing, CleaningUp, Stopping, Dismantled

\* A reservation changes the registry alone.
LEMMA ReserveServes == ASSUME CalmInv, Reserve PROVE ServedInv'
<1>1. /\ op.pc = "reserve" /\ op.me \in Sessions /\ ~op.changed /\ op.call # "stop" /\ op.seen[op.me] = "none"
      /\ UNCHANGED <<vm, compose, port>> /\ op.want \in Ports
  BY DEF CalmInv, PortInv, StartAgrees, Starting, ServedInv, Mirrored, SeenIsRegistered, CallsAgree, Stopping,
     CleaningUp, Choosing, Reserve, identity
<1>2. \A s \in Sessions : s # op.me /\ entry'[s] # "none" => entry[s] # "none" /\ op.seen[s] \in {entry'[s], "live"}
  <2>1. \A s \in Sessions : s # op.me /\ entry[s] # "none" => op.seen[s] \in {entry[s], "live"}
    BY <1>1 DEF CalmInv, ServedInv, SeenIsRegistered
  <2>2. \A s \in Sessions : s # op.me => entry'[s] = entry[s] \/ entry'[s] = Reconciled[s]
    BY <1>1, ReconciledAgrees DEF Reserve, CalmInv, PortInv, Entries
  <2>3. \A s \in Sessions : Reconciled[s] \in {entry[s], "none"} \/ (Reconciled[s] = "stopped" /\ entry[s] = "live")
    BY ReconciledAgrees DEF CalmInv, PortInv, RegistryTypes, Entries, Reconciled
  <2>4. QED
    BY <2>1, <2>2, <2>3
<1>3. \A s \in Sessions : s # op.me /\ entry[s] # "none" => Served(s)
  BY <1>1 DEF CalmInv, ServedInv, RegisteredServed, Starting, Building, Dismantled
<1>4. ASSUME NEW s \in Sessions, entry'[s] # "none", s # op.me PROVE Served(s)'
  BY <1>1, <1>2, <1>3, <1>4 DEF Served
<1>5. PICK label \in {"undo", "ensure"} : Goto(label)
  BY DEF Reserve
<1>6. /\ op'.pc = label /\ op'.me = op.me /\ op'.want = op.want /\ op'.seen = op.seen /\ op'.call = op.call
      /\ op'.changed = op.changed /\ op'.previous = op.previous
  BY <1>5, GotoFields DEF CalmInv, PortInv
<1>7. Mirrored'
  BY <1>1, <1>6 DEF CalmInv, ServedInv, Mirrored, Starting, Building, Choosing, Settled
<1>8. RegisteredServed'
  BY <1>4, <1>6 DEF RegisteredServed, Starting, Building
<1>9. ChangesAlone'
  BY <1>1, <1>6 DEF CalmInv, ServedInv, ChangesAlone, CleaningUp, Choosing
<1>10. SeenIsRegistered'
  BY <1>1, <1>2, <1>6 DEF CalmInv, ServedInv, SeenIsRegistered, CleaningUp, Choosing, Served
<1>11. CallsAgree'
  BY <1>1, <1>6 DEF CallsAgree, Stopping, CleaningUp
<1>12. QED
  BY <1>7, <1>8, <1>9, <1>10, <1>11 DEF ServedInv

\* A start that must change the file does so for itself and what nobody needs any more.
LEMMA EnsureServes == ASSUME CalmInv, Ensure PROVE ServedInv'
<1>1. /\ op.pc = "ensure" /\ op.me \in Sessions /\ ~op.changed /\ op.call # "stop" /\ op.seen[op.me] = "none"
      /\ UNCHANGED <<vm, entry, port>> /\ op.want \in Ports /\ port[op.me] = op.want
  BY DEF CalmInv, PortInv, StartAgrees, Starting, Building, ServedInv, Mirrored, SeenIsRegistered, CallsAgree, Stopping,
     CleaningUp, Choosing, Ensure, identity
<1>2. \A s \in Sessions : s # op.me /\ entry[s] # "none" => Served(s) /\ op.seen[s] \in {entry[s], "live"}
  BY <1>1 DEF CalmInv, ServedInv, RegisteredServed, SeenIsRegistered, Starting, Building, Dismantled
<1>3. CASE compose.fwd[op.want] = Expected /\ Goto("verify") /\ UNCHANGED compose
  <2>1. /\ op'.pc = "verify" /\ op'.me = op.me /\ op'.want = op.want /\ op'.seen = op.seen /\ op'.call = op.call
        /\ op'.changed = op.changed /\ op'.previous = op.previous
    BY <1>3, GotoFields DEF CalmInv, PortInv
  <2>2. Mirrored'
    BY <1>1, <1>3, <2>1 DEF CalmInv, ServedInv, Mirrored, Starting, Building, Choosing, Settled
  <2>3. RegisteredServed'
    BY <1>1, <1>2, <1>3, <2>1 DEF RegisteredServed, Starting, Building, Served
  <2>4. QED
    BY <1>1, <2>1, <2>2, <2>3 DEF ServedInv, ChangesAlone, SeenIsRegistered, CallsAgree, CleaningUp, Choosing, Stopping
<1>4. CASE /\ compose.fwd[op.want] # Expected
           /\ compose' = Replace([compose EXCEPT !.fwd[op.want] = Expected], Owned)
           /\ op' = [op EXCEPT !.pc = "recreate", !.changed = TRUE]
  <2>1. /\ op'.pc = "recreate" /\ op'.me = op.me /\ op'.want = op.want /\ op'.seen = op.seen /\ op'.call = op.call
        /\ op'.changed
    BY <1>4 DEF CalmInv, PortInv, RegistryTypes
  <2>2. \A s \in Sessions : op.seen[s] # "live"
    BY <1>1, <1>4 DEF CalmInv, ServedInv, ChangesAlone, Choosing
  <2>3. op.want \notin Owned
    BY <1>1, <1>4 DEF Owned, Owners, CalmInv, ServedInv, SeenIsRegistered, Choosing, Served
  <2>4. compose'.fwd[op.want] = Expected
    BY <1>1, <1>4, <2>3 DEF Replace, CalmInv, FileTypes, Compose
  <2>5. Mirrored'
    BY <2>1, <2>4 DEF Mirrored, Starting, Building, Choosing, Settled
  <2>6. \A s \in Sessions : s # op.me /\ entry[s] # "none" => entry[s] = "stopped"
    BY <1>2, <2>2 DEF CalmInv, PortInv, RegistryTypes, Entries
  <2>7. RegisteredServed'
    BY <1>1, <2>1, <2>6 DEF RegisteredServed, Starting, Building
  <2>8. SeenIsRegistered'
    BY <1>1, <1>2, <2>1 DEF SeenIsRegistered, CleaningUp, Choosing
  <2>9. QED
    BY <1>1, <2>1, <2>2, <2>5, <2>7, <2>8 DEF ServedInv, ChangesAlone, CallsAgree, CleaningUp, Choosing, Stopping
<1>5. QED
  BY <1>3, <1>4 DEF Ensure

LEMMA RecreateServes == ASSUME CalmInv, Recreate PROVE ServedInv'
<1>1. /\ op.pc = "recreate" /\ op.changed /\ op.call # "stop" /\ compose.fwd[op.want] = Expected
      /\ UNCHANGED <<compose, entry, port>> /\ vm' = compose.fwd
  BY DEF CalmInv, ServedInv, Mirrored, CallsAgree, Stopping, CleaningUp, Recreate, identity
<1>2. PICK label \in {"fold", "verify"} :
        Goto(label) /\ (label = "verify" => \A s \in Sessions : op.seen[s] # "stopped")
  BY DEF Recreate
<1>3. /\ op'.pc = label /\ op'.me = op.me /\ op'.want = op.want /\ op'.seen = op.seen /\ op'.call = op.call
      /\ op'.changed = op.changed
  BY <1>2, GotoFields DEF CalmInv, PortInv
<1>4. \A s \in Sessions : s # op.me /\ entry[s] # "none" => entry[s] = "stopped" /\ op.seen[s] = "stopped"
  BY <1>1 DEF CalmInv, PortInv, RegistryTypes, Entries, ServedInv, SeenIsRegistered, ChangesAlone
<1>5. Mirrored'
  BY <1>1, <1>3 DEF Mirrored, Starting, Building, Choosing, Settled
<1>6. RegisteredServed'
  BY <1>1, <1>2, <1>3, <1>4 DEF RegisteredServed, Starting, Building
<1>7. SeenIsRegistered' /\ ChangesAlone' /\ CallsAgree'
  BY <1>1, <1>3 DEF CalmInv, ServedInv, SeenIsRegistered, ChangesAlone, CallsAgree, CleaningUp, Choosing, Stopping
<1>8. QED
  BY <1>5, <1>6, <1>7 DEF ServedInv

LEMMA FoldServes == ASSUME CalmInv, Fold PROVE ServedInv'
<1>1. /\ op.pc = "fold" /\ op.call # "stop" /\ UNCHANGED <<vm, compose, port>> /\ Goto("verify")
      /\ entry' = [s \in Sessions |-> IF op.seen[s] = "stopped" THEN "none" ELSE entry[s]]
  BY DEF CalmInv, ServedInv, CallsAgree, Stopping, CleaningUp, Fold, identity
<1>2. /\ op'.pc = "verify" /\ op'.me = op.me /\ op'.want = op.want /\ op'.seen = op.seen /\ op'.call = op.call
      /\ op'.changed = op.changed /\ op'.previous = op.previous
  BY <1>1, GotoFields DEF CalmInv, PortInv
<1>3. \A s \in Sessions : s # op.me => entry'[s] = "none"
  BY <1>1 DEF CalmInv, PortInv, RegistryTypes, Entries, ServedInv, SeenIsRegistered, ChangesAlone
<1>4. Mirrored'
  BY <1>1, <1>2 DEF CalmInv, ServedInv, Mirrored, Starting, Building, Choosing, Settled
<1>5. QED
  BY <1>1, <1>2, <1>3, <1>4 DEF ServedInv, RegisteredServed, SeenIsRegistered, ChangesAlone, CallsAgree, CleaningUp,
     Choosing, Stopping, Starting, Building

\* Where nothing fails, a binding is missing only from a VM that this start left as it was.
LEMMA VerifyServes == ASSUME CalmInv, Calm, Verify \/ VerifyFails PROVE ServedInv'
<1>1. /\ op.pc = "verify" /\ op.call # "stop" /\ UNCHANGED <<vm, compose, entry, port>> /\ op.want \in Ports
      /\ compose.fwd[op.want] = Expected
  BY DEF CalmInv, PortInv, StartAgrees, Starting, Building, ServedInv, Mirrored, CallsAgree, Stopping, CleaningUp, Verify, VerifyFails, identity
<1>2. \A s \in Sessions : s # op.me /\ entry[s] # "none" => Served(s)
  BY <1>1 DEF CalmInv, ServedInv, RegisteredServed, Dismantled
<1>3. PICK label \in {"record", "undo"} :
        Goto(label) /\ (label = "undo" => ~op.changed) /\ (label = "record" => vm[op.want] = Expected)
  <2>1. CASE Verify
    BY <2>1 DEF Verify
  <2>2. CASE VerifyFails
    <3>1. op.changed => vm[op.want] = Expected
      BY <1>1 DEF CalmInv, ServedInv, Mirrored
    <3>2. vm[op.want] # {"user"}
      <4>1. CASE op.changed
        BY <3>1, <4>1 DEF Expected
      <4>2. CASE ~op.changed
        <5>1. vm[op.want] \cap Expected = Expected
          BY <1>1, <4>2 DEF CalmInv, FileTypes, ServedInv, Mirrored, Starting, Building
        <5>2. QED
          BY <5>1 DEF Expected
      <4>3. QED
        BY <4>1, <4>2
    <3>3. QED
      BY <2>2, <3>1, <3>2 DEF VerifyFails, Calm
  <2>3. QED
    BY <2>1, <2>2
<1>4. /\ op'.pc = label /\ op'.me = op.me /\ op'.want = op.want /\ op'.seen = op.seen /\ op'.call = op.call
      /\ op'.changed = op.changed /\ op'.previous = op.previous
  BY <1>3, GotoFields DEF CalmInv, PortInv
<1>5. Mirrored'
  BY <1>1, <1>3, <1>4 DEF CalmInv, ServedInv, Mirrored, Starting, Building, Choosing, Settled
<1>6. QED
  BY <1>1, <1>2, <1>4, <1>5 DEF ServedInv, RegisteredServed, SeenIsRegistered, ChangesAlone, CallsAgree, CleaningUp,
     Choosing, Stopping, Starting, Building, Served

\* A record is written when file and VM agree and its session is served.
LEMMA RecordServes == ASSUME CalmInv, Record PROVE ServedInv'
<1>1. /\ op.pc = "record" /\ op.call # "stop" /\ UNCHANGED <<vm, compose, entry, port>> /\ op.want \in Ports
      /\ compose.fwd[op.want] = Expected /\ vm[op.want] = Expected /\ port[op.me] = op.want
  BY DEF CalmInv, PortInv, StartAgrees, Starting, Building, ServedInv, Mirrored, CallsAgree, Stopping, CleaningUp, Record, identity
<1>2. \A s \in Sessions : entry[s] # "none" => Served(s)
  BY <1>1 DEF CalmInv, ServedInv, RegisteredServed, Dismantled, Served
<1>3. vm = compose.fwd
  <2>1. CASE op.changed
    BY <1>1, <2>1 DEF CalmInv, ServedInv, Mirrored
  <2>2. CASE ~op.changed
    <3>1. compose.fwd = [vm EXCEPT ![op.want] = @ \cap Expected]
      BY <1>1, <2>2 DEF CalmInv, ServedInv, Mirrored, Starting, Building
    <3>2. vm[op.want] \cap Expected = vm[op.want]
      BY <1>1
    <3>3. QED
      BY <1>1, <3>1, <3>2 DEF CalmInv, FileTypes
  <2>3. QED
    BY <2>1, <2>2
<1>4. vm' = compose'.fwd /\ \A s \in Sessions : (entry[s] # "none")' => Served(s)'
  BY <1>1, <1>2, <1>3 DEF Served
<1>5. CASE Return
  BY <1>4, <1>5, ReturnServes
<1>6. CASE op.call = "start" /\ Goto("refresh")
  <2>1. op'.pc = "refresh" /\ op'.call = "start"
    BY <1>6, GotoFields DEF CalmInv, PortInv
  <2>2. QED
    BY <1>4, <2>1 DEF ServedInv, Mirrored, RegisteredServed, ChangesAlone, SeenIsRegistered, CallsAgree,
       Settled, Starting, Building, Choosing, CleaningUp, Stopping, Dismantled
<1>7. QED
  BY <1>5, <1>6 DEF Record

\* A start that gives up leaves the file as it found it; the VM it did not touch.
LEMMA UndoServes == ASSUME CalmInv, Undo PROVE ServedInv'
<1>1. /\ op.pc = "undo" /\ op.me \in Sessions /\ vm = op.previous.fwd /\ compose' = op.previous
      /\ entry' = [entry EXCEPT ![op.me] = "none"] /\ UNCHANGED <<vm, port>>
  BY DEF CalmInv, PortInv, StartAgrees, Starting, ServedInv, Mirrored, Undo, identity
<1>2. ASSUME NEW s \in Sessions, entry'[s] # "none" PROVE Served(s)'
  <2>1. s # op.me /\ entry[s] # "none"
    BY <1>1, <1>2 DEF CalmInv, PortInv, RegistryTypes, Entries
  <2>2. Served(s)
    BY <1>1, <2>1 DEF CalmInv, ServedInv, RegisteredServed, Dismantled
  <2>3. QED
    BY <1>1, <2>2 DEF Served
<1>3. QED
  BY <1>1, <1>2, ReturnServes DEF Undo
-----------------------------------------------------------------------------
\* The steps of a stop.
LEMMA StopRequestServes == ASSUME CalmInv, NEW s \in Sessions, StopRequest(s) PROVE ServedInv'
<1>1. op.pc = "idle" /\ UNCHANGED <<vm, compose, entry, port>>
  BY DEF StopRequest, LeaseFree, identity
<1>2. op'.pc = "stop" /\ op'.me = s /\ op'.call = "stop" /\ op'.want = port[s]
  BY DEF StopRequest, NoOp
<1>3. vm' = compose'.fwd /\ \A t \in Sessions : (entry[t] # "none")' => Served(t)'
  BY <1>1, SettledServes DEF Settled, Served
<1>4. QED
  BY <1>1, <1>2, <1>3 DEF ServedInv, Mirrored, RegisteredServed, ChangesAlone, SeenIsRegistered, CallsAgree,
     Settled, Starting, Building, Choosing, CleaningUp, Stopping, Dismantled

LEMMA StopCheckServes == ASSUME CalmInv, StopCheck PROVE ServedInv'
<1>1. /\ op.pc = "stop" /\ op.call = "stop" /\ op.want = port[op.me] /\ UNCHANGED <<vm, compose, port>>
      /\ entry' = Reconciled
  BY DEF CalmInv, ServedInv, CallsAgree, Stopping, StopCheck, identity
<1>2. vm' = compose'.fwd /\ \A s \in Sessions : (entry[s] # "none")' => Served(s)'
  BY <1>1, ReconcileServes DEF Settled
<1>3. CASE Return
  BY <1>2, <1>3, ReturnServes
<1>4. CASE Goto("mark")
  <2>1. op'.pc = "mark" /\ op'.me = op.me /\ op'.call = "stop" /\ op'.want = op.want
    BY <1>1, <1>4, GotoFields DEF CalmInv, PortInv
  <2>2. QED
    BY <1>1, <1>2, <2>1 DEF ServedInv, Mirrored, RegisteredServed, ChangesAlone, SeenIsRegistered, CallsAgree,
       Settled, Starting, Building, Choosing, CleaningUp, Stopping, Dismantled
<1>5. CASE /\ \A s \in Sessions \ {op.me} : Reconciled[s] # "live"
           /\ op' = [op EXCEPT !.pc = "cleanup", !.seen = Reconciled, !.loaded = state[op.me]]
  <2>1. /\ op'.pc = "cleanup" /\ op'.me = op.me /\ op'.call = "stop" /\ op'.want = op.want
        /\ op'.seen = Reconciled
    BY <1>1, <1>5 DEF CalmInv, PortInv, RegistryTypes
  <2>2. QED
    BY <1>1, <1>2, <1>5, <2>1 DEF ServedInv, Mirrored, RegisteredServed, ChangesAlone, SeenIsRegistered, CallsAgree,
       Settled, Starting, Building, Choosing, CleaningUp, Stopping, Dismantled
<1>6. QED
  BY <1>3, <1>4, <1>5 DEF StopCheck

LEMMA MarkServes == ASSUME CalmInv, MarkStopped PROVE ServedInv'
<1>1. op.pc = "mark" /\ UNCHANGED <<vm, compose, port>>
  BY DEF MarkStopped, identity
<1>2. \A s \in Sessions : (entry[s] # "none")' => entry[s] # "none"
  BY DEF MarkStopped, CalmInv, PortInv, RegistryTypes, Entries
<1>3. vm' = compose'.fwd /\ \A s \in Sessions : (entry[s] # "none")' => Served(s)'
  BY <1>1, <1>2, SettledServes DEF Settled, Served
<1>4. QED
  BY <1>3, ReturnServes DEF MarkStopped

\* What the cleanup writes is what it verifies.
LEMMA CleanedRestores ==
  ASSUME CalmInv, op.pc = "cleanup"
  PROVE  \A p \in Ports : p \in Targets => Cleaned.fwd[p] = Restored(p)
<1> SUFFICES ASSUME NEW p \in Ports, p \in Targets PROVE Cleaned.fwd[p] = Restored(p)
  OBVIOUS
<1>1. CASE ByteExact
  BY <1>1 DEF Cleaned, ByteExact
<1>2. CASE ~ByteExact
  <2>1. Cleaned = Replace(compose, Targets)
    BY <1>2 DEF Cleaned
  <2>2. Replace(compose, Targets).fwd[p] = Restored(p)
    BY DEF Replace, CalmInv, FileTypes, Compose
  <2>3. QED
    BY <2>1, <2>2
<1>3. QED
  BY <1>1, <1>2

\* A cleanup is about ports.
LEMMA TargetsArePorts == ASSUME CalmInv, op.pc \in CleaningUp PROVE Targets \subseteq Ports
  BY DEF CalmInv, PortInv, RegistryTypes, StopAgrees, ServedInv, CallsAgree, Stopping, Targets, Owned

\* The targets depend on what the stop saw and on what its sessions remember.
LEMMA SameTargets ==
  ASSUME op'.seen = op.seen, op'.me = op.me, op'.want = op.want, UNCHANGED identity
  PROVE  Targets' = Targets /\ \A p \in Ports : Restored(p)' = Restored(p)
<1>1. \A p : Owners(p)' = Owners(p)
  BY DEF Owners, identity
<1>2. Owned' = Owned
  BY <1>1 DEF Owned
<1>3. QED
  BY <1>1, <1>2 DEF Targets, Restored, identity

LEMMA CleanupServes == ASSUME CalmInv, Cleanup PROVE ServedInv'
<1>1. /\ op.pc = "cleanup" /\ op.call = "stop" /\ op.want = port[op.me] /\ vm = compose.fwd /\ UNCHANGED <<vm, entry, port>>
      /\ compose' = Cleaned
  BY SettledServes DEF Settled, CalmInv, ServedInv, CallsAgree, Stopping, CleaningUp, Cleanup, identity
<1>2. PICK label \in {"stopRecreate", "finish"} :
        /\ op' = [op EXCEPT !.pc = label, !.previous = compose]
        /\ label = "finish" => Cleaned = compose
  BY DEF Cleanup
<1>3. /\ op'.pc = label /\ op'.me = op.me /\ op'.call = op.call /\ op'.want = op.want /\ op'.seen = op.seen
      /\ op'.previous = compose
  BY <1>2 DEF CalmInv, PortInv, RegistryTypes
<1>4. \A p \in Targets' : compose'.fwd[p] = Restored(p)'
  <2>1. Targets \subseteq Ports
    BY <1>1, TargetsArePorts DEF CleaningUp
  <2>2. Targets' = Targets /\ \A p \in Ports : Restored(p)' = Restored(p)
    BY <1>3, SameTargets DEF Cleanup
  <2>3. QED
    BY <1>1, <2>1, <2>2, CleanedRestores
<1>5. Mirrored'
  BY <1>1, <1>2, <1>3, <1>4 DEF Mirrored, Starting, Building, Choosing, Settled
<1>6. QED
  BY <1>1, <1>3, <1>5 DEF CalmInv, ServedInv, RegisteredServed, ChangesAlone, SeenIsRegistered, CallsAgree,
     Starting, Building, Choosing, CleaningUp, Stopping, Dismantled

LEMMA StopRecreateServes == ASSUME CalmInv, StopRecreate PROVE ServedInv'
<1>1. /\ op.pc = "stopRecreate" /\ op.call = "stop" /\ op.want = port[op.me] /\ UNCHANGED <<compose, entry, port>>
      /\ vm' = compose.fwd /\ UNCHANGED identity
  BY DEF CalmInv, ServedInv, CallsAgree, Stopping, CleaningUp, StopRecreate, identity
<1>2. /\ op'.pc = "stopVerify" /\ op'.me = op.me /\ op'.call = op.call /\ op'.want = op.want /\ op'.seen = op.seen
  BY GotoFields DEF StopRecreate, CalmInv, PortInv
<1>3. \A p \in Targets' : compose'.fwd[p] = Restored(p)'
  <2>1. Targets \subseteq Ports
    BY <1>1, TargetsArePorts DEF CleaningUp
  <2>2. QED
    BY <1>1, <1>2, <2>1, SameTargets DEF CalmInv, ServedInv, Mirrored
<1>4. Mirrored'
  BY <1>1, <1>2, <1>3 DEF Mirrored, Starting, Building, Choosing, Settled
<1>5. QED
  BY <1>1, <1>2, <1>4 DEF CalmInv, ServedInv, RegisteredServed, ChangesAlone, SeenIsRegistered, CallsAgree,
     Starting, Building, Choosing, CleaningUp, Stopping, Dismantled

\* The rest of a stop takes nothing away: StopVerify, Finish.
LEMMA StopGoesOn ==
  ASSUME CalmInv, NEW label \in {"finish", "release"}, Goto(label), op.pc \in {"stopVerify", "finish"},
         UNCHANGED <<compose, vm, entry, port>>
  PROVE  ServedInv'
<1>1. /\ op'.pc = label /\ op'.me = op.me /\ op'.call = op.call /\ op'.want = op.want /\ op'.seen = op.seen
  BY GotoFields DEF CalmInv, PortInv
<1>2. op.call = "stop" /\ op.want = port[op.me] /\ vm = compose.fwd
  BY DEF CalmInv, ServedInv, CallsAgree, Stopping, CleaningUp, Mirrored
<1>3. Mirrored'
  BY <1>1, <1>2 DEF Mirrored, Starting, Building, Choosing, Settled
<1>4. QED
  BY <1>1, <1>2, <1>3 DEF CalmInv, ServedInv, RegisteredServed, ChangesAlone, SeenIsRegistered, CallsAgree,
     Starting, Building, Choosing, CleaningUp, Stopping, Dismantled

\* The last one takes all entries along.
LEMMA NobodyStays ==
  ASSUME CalmInv, Release
  PROVE  \A s \in Sessions : entry'[s] = "none"
  BY DEF Release, CalmInv, PortInv, RegistryTypes, Entries, ServedInv, ChangesAlone, SeenIsRegistered

LEMMA ReleaseServes == ASSUME CalmInv, Release PROVE ServedInv'
<1>1. op.pc = "release" /\ UNCHANGED <<compose, vm>> /\ vm = compose.fwd
  BY DEF Release, CalmInv, ServedInv, Mirrored
<1>2. QED
  BY <1>1, NobodyStays, ReturnServes DEF Release

-----------------------------------------------------------------------------
\* Where nothing fails and nobody dies, whoever is registered is served.
LEMMA CalmStep == CalmInv /\ Calm /\ [Next]_vars => CalmInv'
<1> SUFFICES ASSUME CalmInv, Calm, [Next]_vars PROVE ServedInv'
  BY PortStep, FileStep DEF CalmInv
<1>1. ASSUME NEW k \in {"start", "prepare"}, NEW p \in Ports, NEW c \in Caches, Request(k, p, c) PROVE ServedInv'
  BY <1>1, RequestServes
<1>2. ASSUME NEW s \in Sessions, StopRequest(s) PROVE ServedInv'
  BY <1>2, StopRequestServes
<1>3. CASE Refuse
  BY <1>3, SettledServes, ReturnServes DEF Refuse, Settled, Served, identity
<1>4. CASE RecreateFails \/ StartFails \/ StopRecreateFails \/ StopFails \/ Crash
  BY <1>4 DEF Calm, RecreateFails, StartFails, StopRecreateFails, StopFails, Crash
<1>5. CASE Rollback
  BY <1>5 DEF Rollback, CalmInv, ServedInv, Mirrored
<1>6. CASE StopVerifyFails
  BY <1>6 DEF StopVerifyFails, CalmInv, ServedInv, Mirrored, Calm
<1>7. CASE Check \/ Baseline \/ Reserve \/ Ensure \/ Recreate \/ Fold \/ Verify \/ VerifyFails \/ Record \/ Refresh \/ Undo
  BY <1>7, CheckServes, BaselineServes, ReserveServes, EnsureServes, RecreateServes, FoldServes, VerifyServes,
     RecordServes, RefreshServes, UndoServes
<1>8. CASE StopCheck \/ MarkStopped \/ Cleanup \/ StopRecreate \/ Release
  BY <1>8, StopCheckServes, MarkServes, CleanupServes, StopRecreateServes, ReleaseServes
<1>9. CASE StopVerify \/ Finish
  BY <1>9, StopGoesOn DEF StopVerify, Finish, identity
<1>10. CASE (\E r \in Readers : Read(r)) \/ Edit \/ UNCHANGED vars
  <2>1. UNCHANGED <<vm, entry, identity, op>> /\ compose'.fwd = compose.fwd
    <3>1. CASE \E r \in Readers : Read(r)
      BY <3>1 DEF Read, Load, Write, ForgetCheck, ForgetRename, Quit
    <3>2. CASE Edit
      BY <3>2 DEF Edit, CalmInv, FileTypes, Compose
    <3>3. CASE UNCHANGED vars
      BY <3>3 DEF vars
    <3>4. QED
      BY <1>10, <3>1, <3>2, <3>3
  <2>2. Targets' = Targets /\ \A p \in Ports : Restored(p)' = Restored(p)
    BY <2>1, SameTargets
  <2>3. op.pc \in {"stopRecreate", "stopVerify"} => Targets \subseteq Ports
    BY TargetsArePorts DEF CleaningUp
  <2>4. Mirrored'
    BY <2>1, <2>2, <2>3 DEF CalmInv, ServedInv, Mirrored
  <2>5. QED
    BY <2>1, <2>4 DEF CalmInv, ServedInv, RegisteredServed, ChangesAlone, SeenIsRegistered, CallsAgree, Served, identity
<1>11. QED
  BY <1>1, <1>2, <1>3, <1>4, <1>5, <1>6, <1>7, <1>8, <1>9, <1>10 DEF Next, Start, Stop
-----------------------------------------------------------------------------
\* So every active session is served, and recreations disturb nobody.
LEMMA ActiveAreServed == CalmInv => LiveAreServed
<1> SUFFICES ASSUME CalmInv PROVE RecreationsAlone /\ FileServesActive
  BY DEF LiveAreServed
<1>1. \A s \in Sessions : Active(s) => entry[s] = "live" /\ (op.pc \in Starting => s # op.me)
  BY DEF CalmInv, PortInv, RegistryAgrees, StartAgrees, Active, ActiveStates
<1>2. RecreationsAlone
  <2>1. CASE op.pc = "recreate"
    BY <1>1, <2>1 DEF CalmInv, ServedInv, ChangesAlone, SeenIsRegistered, RecreationsAlone
  <2>2. CASE op.pc = "stopRecreate"
    BY <1>1, <2>2 DEF CalmInv, ServedInv, ChangesAlone, SeenIsRegistered, RecreationsAlone, CleaningUp
  <2>3. QED
    BY <2>1, <2>2 DEF CalmInv, ServedInv, Mirrored, RecreationsAlone
<1>3. FileServesActive
  <2> SUFFICES ASSUME NEW s \in Sessions, Active(s), ~(op.call = "stop" /\ op.me = s)
               PROVE  compose.fwd[port[s]] = Expected
    BY DEF FileServesActive
  <2>1. op.pc \notin Dismantled
    BY <1>1 DEF CalmInv, ServedInv, ChangesAlone, SeenIsRegistered, CallsAgree, Dismantled, CleaningUp, Stopping
  <2>2. QED
    BY <1>1, <2>1 DEF CalmInv, ServedInv, RegisteredServed, Served
<1>4. QED
  BY <1>2, <1>3

-----------------------------------------------------------------------------
(* The refinement.                                                         *)

\* The abstract state: who is about to leave, and whose each port is.
leaving == {s \in Sessions : op.call = "stop" /\ op.me = s}
owner == [p \in Ports |-> Owner(p)]

\* An active session owns its port; a port without one is free.
LEMMA OwnerIs ==
  ASSUME OnePerPort, NEW p
  PROVE  /\ \A s \in Sessions : Active(s) /\ port[s] = p => Owner(p) = s
         /\ (\A s \in Sessions : ~(Active(s) /\ port[s] = p)) => Owner(p) = 0
  BY DEF OnePerPort, Owner

\* The same of the next state.
LEMMA OwnerIsNext ==
  ASSUME OnePerPort', NEW p
  PROVE  /\ \A s \in Sessions : Active(s)' /\ port'[s] = p => Owner(p)' = s
         /\ (\A s \in Sessions : ~(Active(s)' /\ port'[s] = p)) => Owner(p)' = 0
  BY DEF OnePerPort, Owner

\* Owners change with the active records.
LEMMA OwnersStay ==
  ASSUME OnePerPort, OnePerPort', NEW t,
         \A s \in Sessions : s # t => Active(s)' = Active(s) /\ (Active(s) => port'[s] = port[s]),
         NEW p, \A s \in Sessions : s = t => ~(Active(s) /\ port[s] = p) /\ ~(Active(s)' /\ port'[s] = p)
  PROVE  Owner(p)' = Owner(p)
<1>1. CASE \E s \in Sessions : Active(s) /\ port[s] = p
  <2>1. PICK s \in Sessions : Active(s) /\ port[s] = p
    BY <1>1
  <2>2. Active(s)' /\ port'[s] = p
    BY <2>1
  <2>3. QED
    BY <2>1, <2>2, OwnerIs, OwnerIsNext
<1>2. CASE ~ \E s \in Sessions : Active(s) /\ port[s] = p
  <2>1. \A s \in Sessions : ~(Active(s)' /\ port'[s] = p)
    BY <1>2
  <2>2. QED
    BY <1>2, <2>1, OwnerIs, OwnerIsNext
<1>3. QED
  BY <1>1, <1>2

\* Where no record changes, no owner does; one record that becomes active claims its port,
\* one that stops being active releases it.
LEMMA NobodyMoves ==
  ASSUME OnePerPort, OnePerPort', \A s \in Sessions : Active(s)' = Active(s) /\ (Active(s) => port'[s] = port[s])
  PROVE  UNCHANGED owner
<1>1. \A p \in Ports : Owner(p)' = Owner(p)
  <2> SUFFICES ASSUME NEW p \in Ports PROVE Owner(p)' = Owner(p)
    OBVIOUS
  <2>1. 0 \notin Sessions
    BY DEF Sessions
  <2>2. QED
    BY <2>1, OwnersStay
<1>2. QED
  BY <1>1 DEF owner

LEMMA OneClaims ==
  ASSUME OnePerPort, OnePerPort', UNCHANGED port, NEW t \in Sessions, port[t] \in Ports, ~Active(t), Active(t)',
         \A s \in Sessions : s # t => Active(s)' = Active(s)
  PROVE  owner[port[t]] = 0 /\ owner' = [owner EXCEPT ![port[t]] = t]
<1>1. \A s \in Sessions : ~(Active(s) /\ port[s] = port[t])
  BY DEF OnePerPort
<1>2. Owner(port[t]) = 0
  BY <1>1, OwnerIs
<1>3. Owner(port[t])' = t
  BY OwnerIsNext
<1>4. \A p \in Ports : p # port[t] => Owner(p)' = Owner(p)
  BY OwnersStay
<1>5. QED
  BY <1>2, <1>3, <1>4 DEF owner

LEMMA OneReleases ==
  ASSUME OnePerPort, OnePerPort', UNCHANGED port, NEW t \in Sessions, port[t] \in Ports, Active(t), ~Active(t)',
         \A s \in Sessions : s # t => Active(s)' = Active(s)
  PROVE  owner[port[t]] # 0 /\ owner' = [owner EXCEPT ![port[t]] = 0]
<1>1. \A s \in Sessions : ~(Active(s)' /\ port'[s] = port[t])
  BY DEF OnePerPort
<1>2. Owner(port[t])' = 0
  BY <1>1, OwnerIsNext
<1>3. Owner(port[t]) = t /\ t # 0
  BY OwnerIs DEF Sessions
<1>4. \A p \in Ports : p # port[t] => Owner(p)' = Owner(p)
  BY OwnersStay
<1>5. QED
  BY <1>2, <1>3, <1>4 DEF owner
\* The abstract step that a step of the commands is.
OwnershipStep ==
  \/ UNCHANGED <<owner, leaving, vm>>
  \/ \E p \in Ports, s \in Sessions :
       /\ owner[p] = 0 /\ vm[p] = Expected /\ owner' = [owner EXCEPT ![p] = s]
       /\ UNCHANGED <<leaving, vm>>
  \/ \E p \in Ports : owner[p] # 0 /\ owner' = [owner EXCEPT ![p] = 0] /\ UNCHANGED <<leaving, vm>>
  \/ \E s \in Sessions : leaving = {} /\ leaving' = {s} /\ UNCHANGED <<owner, vm>>
  \/ leaving' = {} /\ UNCHANGED <<owner, vm>>
  \/ /\ \A p \in Ports : owner[p] \in leaving \cup {0}
     /\ vm' \in [Ports -> Fwd] /\ UNCHANGED <<owner, leaving>>

\* Those are the steps of the abstract specification, or stutter.
LEMMA StepsAreOwnership ==
  ASSUME OwnershipStep PROVE [Ownership!Next]_(Ownership!vars)
BY DEF OwnershipStep, owner, leaving, Ownership!Next, Ownership!vars, Ownership!Claim, Ownership!Release,
   Ownership!Leave, Ownership!Left, Ownership!Restart

\* A command that ends leaves nobody leaving.
LEMMA ReturnLeaves == Return => leaving' = {}
  BY ReturnFields DEF leaving

\* A command that goes on leaves as before.
LEMMA SameLeaving ==
  ASSUME \/ op'.call = op.call /\ op'.me = op.me
         \/ op.call # "stop" /\ op'.call # "stop"
  PROVE  UNCHANGED leaving
  BY DEF leaving

\* An active state written over a registered record claims its port or changes nothing.
LEMMA WriteOwns ==
  ASSUME OnePerPort, OnePerPort', CalmInv, NEW t \in Sessions, entry[t] = "live", Served(t),
         NEW st \in ActiveStates, state' = [state EXCEPT ![t] = st], UNCHANGED <<port, vm, leaving>>
  PROVE  OwnershipStep
<1>1. Active(t)' /\ \A s \in Sessions : s # t => Active(s)' = Active(s)
  BY DEF CalmInv, PortInv, RegistryTypes, Active
<1>2. port[t] \in Ports
  BY DEF CalmInv, PortInv, RegistryTypes, RegistryAgrees
<1>3. CASE Active(t)
  <2>1. \A s \in Sessions : Active(s)' = Active(s) /\ (Active(s) => port'[s] = port[s])
    BY <1>1, <1>3 DEF Active
  <2>2. QED
    BY <2>1, NobodyMoves DEF OwnershipStep
<1>4. CASE ~Active(t)
  BY <1>1, <1>2, <1>4, OneClaims DEF OwnershipStep, Served
<1>5. QED
  BY <1>3, <1>4

\* A record out of use releases its port or changes nothing.
LEMMA EndOwns ==
  ASSUME OnePerPort, OnePerPort', CalmInv, NEW t \in Sessions, port[t] # NoPort,
         NEW st \in {"stopped", "none"}, state' = [state EXCEPT ![t] = st], UNCHANGED <<port, vm, leaving>>
  PROVE  OwnershipStep
<1>1. ~Active(t)' /\ \A s \in Sessions : s # t => Active(s)' = Active(s)
  BY DEF CalmInv, PortInv, RegistryTypes, Active, ActiveStates
<1>2. port[t] \in Ports
  BY DEF CalmInv, PortInv, RegistryTypes
<1>3. CASE ~Active(t)
  <2>1. \A s \in Sessions : Active(s)' = Active(s) /\ (Active(s) => port'[s] = port[s])
    BY <1>1, <1>3 DEF Active
  <2>2. QED
    BY <2>1, NobodyMoves DEF OwnershipStep
<1>4. CASE Active(t)
  BY <1>1, <1>2, <1>4, OneReleases DEF OwnershipStep
<1>5. QED
  BY <1>3, <1>4

\* Recreations find nobody active but the session that is leaving.
LEMMA RestartOwns ==
  ASSUME OnePerPort, OnePerPort', CalmInv, FileTypes', Recreate \/ StopRecreate
  PROVE  OwnershipStep
<1>1. UNCHANGED <<state, port>>
  BY DEF Recreate, StopRecreate, identity
<1>2. UNCHANGED owner
  BY <1>1, NobodyMoves DEF Active
<1>3. UNCHANGED leaving
  BY GotoFields, SameLeaving DEF Recreate, StopRecreate, CalmInv, PortInv
<1>4. ASSUME NEW p \in Ports PROVE owner[p] \in leaving \cup {0}
  <2>1. CASE \E s \in Sessions : Active(s) /\ port[s] = p
    <3>1. PICK s \in Sessions : Active(s) /\ port[s] = p
      BY <2>1
    <3>2. Owner(p) = s
      BY <3>1, OwnerIs
    <3>3. s = op.me
      BY <3>1, ActiveAreServed DEF LiveAreServed, RecreationsAlone, Recreate, StopRecreate
    <3>4. op.pc = "stopRecreate"
      BY <3>1, <3>3 DEF Recreate, StopRecreate, CalmInv, PortInv, StartAgrees, Starting, Building, Active, ActiveStates
    <3>5. op.call = "stop"
      BY <3>4 DEF CalmInv, ServedInv, CallsAgree, Stopping, CleaningUp
    <3>6. QED
      BY <3>2, <3>3, <3>5 DEF owner, leaving
  <2>2. CASE ~ \E s \in Sessions : Active(s) /\ port[s] = p
    BY <2>2, OwnerIs DEF owner
  <2>3. QED
    BY <2>1, <2>2
<1>5. vm' \in [Ports -> Fwd]
  BY DEF FileTypes
<1>6. QED
  BY <1>2, <1>3, <1>4, <1>5 DEF OwnershipStep

\* Every step of the commands is one of them.
LEMMA StepOwns ==
  ASSUME CalmInv, CalmInv', Calm, [Next]_vars PROVE OwnershipStep
<1>1. OnePerPort /\ OnePerPort'
  BY DEF CalmInv, PortInv, RegistryAgrees, OnePerPort
<1>2. ASSUME UNCHANGED <<state, vm>>, UNCHANGED port, leaving' = leaving \/ leaving' = {}
      PROVE  OwnershipStep
  BY <1>1, <1>2, NobodyMoves DEF Active, OwnershipStep
<1> USE DEF identity
<1>3. ASSUME NEW k \in {"start", "prepare"}, NEW p \in Ports, NEW c \in Caches, Request(k, p, c) PROVE OwnershipStep
  <2>1. op'.call # "stop"
    <3> DEFINE call == [NoOp EXCEPT !.call = k, !.want = p, !.cache = c]
    <3>1. CASE op' = NoOp
      BY <3>1 DEF NoOp
    <3>2. CASE op' = [call EXCEPT !.pc = "create"]
      BY <3>2 DEF NoOp
    <3>3. ASSUME NEW s, op' = [call EXCEPT !.pc = "refresh", !.me = s] PROVE op'.call # "stop"
      BY <3>3 DEF NoOp
    <3>4. QED
      BY <1>3, <3>1, <3>2, <3>3 DEF Request
  <2>2. leaving' = {}
    BY <2>1 DEF leaving
  <2>3. QED
    BY <1>2, <1>3, <2>2 DEF Request
<1>4. ASSUME NEW s \in Sessions, StopRequest(s) PROVE OwnershipStep
  <2>1. op'.call = "stop" /\ op'.me = s /\ op.call # "stop"
    BY <1>4 DEF StopRequest, LeaseFree, NoOp, CalmInv, ServedInv, CallsAgree, Stopping, CleaningUp
  <2>2. leaving = {} /\ leaving' = {s}
    BY <2>1 DEF leaving
  <2>3. UNCHANGED owner
    BY <1>1, <1>4, NobodyMoves DEF StopRequest, Active
  <2>4. QED
    BY <1>4, <2>2, <2>3 DEF StopRequest, OwnershipStep
<1>5. CASE Refuse \/ Undo \/ MarkStopped \/ Release
  BY <1>2, <1>5, ReturnLeaves DEF Refuse, Undo, MarkStopped, Release
<1>6. CASE Reserve \/ Fold \/ VerifyFails \/ StopVerify \/ Verify
  <2>1. UNCHANGED leaving
    BY <1>6, GotoFields, SameLeaving DEF Reserve, Fold, VerifyFails, StopVerify, Verify, CalmInv, PortInv
  <2>2. QED
    BY <1>2, <1>6, <2>1 DEF Reserve, Fold, VerifyFails, StopVerify, Verify
<1>7. CASE Ensure
  <2>1. op'.call = op.call /\ op'.me = op.me
    BY <1>7, GotoFields DEF Ensure, CalmInv, PortInv, RegistryTypes
  <2>2. QED
    BY <1>2, <1>7, <2>1, SameLeaving DEF Ensure
<1>8. CASE Check
  <2>1. leaving' = leaving \/ leaving' = {}
    <3>1. CASE Return
      BY <3>1, ReturnLeaves
    <3>2. CASE op' = [op EXCEPT !.pc = "baseline", !.seen = Reconciled]
      <4>1. op'.call = op.call /\ op'.me = op.me
        BY <3>2 DEF CalmInv, PortInv, RegistryTypes
      <4>2. QED
        BY <4>1, SameLeaving
    <3>3. QED
      BY <1>8, <3>1, <3>2 DEF Check
  <2>2. QED
    BY <1>2, <1>8, <2>1 DEF Check
<1>9. CASE Baseline
  <2>1. op.call # "stop" /\ op'.call # "stop"
    BY <1>9 DEF Baseline, CalmInv, PortInv, RegistryTypes, ServedInv, CallsAgree, Stopping, CleaningUp
  <2>2. UNCHANGED leaving
    BY <2>1, SameLeaving
  <2>3. Least(Unused) \in Unused
    BY <1>9, LeastSession DEF CalmInv, PortInv, StartAgrees, Baseline, Unused
  <2>4. ~Active(Least(Unused))
    BY <2>3 DEF Unused, CalmInv, PortInv, RegistryAgrees, Active, ActiveStates
  <2>5. port' = [port EXCEPT ![Least(Unused)] = op.want] /\ UNCHANGED <<state, vm>>
    BY <1>9 DEF Baseline
  <2>6. \A s \in Sessions : Active(s)' = Active(s) /\ (Active(s) => port'[s] = port[s])
    BY <2>4, <2>5 DEF Active, CalmInv, PortInv, RegistryTypes
  <2>7. QED
    BY <1>1, <2>2, <2>5, <2>6, NobodyMoves DEF OwnershipStep
<1>10. CASE Recreate \/ StopRecreate
  BY <1>1, <1>10, RestartOwns DEF CalmInv
<1>11. CASE Refresh
  <2>1. op.pc = "refresh" /\ op.me \in Sessions /\ entry[op.me] = "live" /\ Served(op.me)
    BY <1>11, SettledServes DEF Refresh, CalmInv, PortInv, StartAgrees, Settled
  <2>2. PICK st \in ActiveStates : state' = [state EXCEPT ![op.me] = st]
    BY <1>11 DEF Refresh, RefreshStates, ActiveStates
  <2>3. op.call # "stop"
    BY <2>1 DEF CalmInv, ServedInv, CallsAgree, Stopping, CleaningUp
  <2>4. op'.call # "stop"
    <3>1. CASE Return
      BY <3>1, ReturnFields
    <3>2. CASE op' = [op EXCEPT !.pc = "create", !.me = 0]
      BY <2>3, <3>2 DEF CalmInv, PortInv, RegistryTypes
    <3>3. QED
      BY <1>11, <3>1, <3>2 DEF Refresh
  <2>5. QED
    BY <1>1, <1>11, <2>1, <2>2, <2>3, <2>4, SameLeaving, WriteOwns DEF Refresh
<1>12. CASE Record
  <2>1. /\ op.pc = "record" /\ op.me \in Sessions /\ entry[op.me] = "live" /\ Served(op.me) /\ op.call # "stop"
    BY <1>12 DEF Record, CalmInv, PortInv, StartAgrees, Starting, Building, ServedInv, Mirrored, CallsAgree,
       Stopping, CleaningUp, Served
  <2>2. op'.call # "stop"
    BY <1>12, <2>1, ReturnFields, GotoFields DEF Record, CalmInv, PortInv
  <2>3. QED
    BY <1>1, <1>12, <2>1, <2>2, SameLeaving, WriteOwns DEF Record, ActiveStates
<1>13. CASE StopCheck
  <2>1. op.pc = "stop" /\ op.me \in Sessions /\ port[op.me] # NoPort
    BY <1>13 DEF StopCheck, CalmInv, PortInv, StopAgrees, Stopping
  <2>2. CASE /\ op' = [op EXCEPT !.pc = "cleanup", !.seen = Reconciled, !.loaded = state[op.me]]
             /\ UNCHANGED state
    <3>1. op'.call = op.call /\ op'.me = op.me
      BY <2>2 DEF CalmInv, PortInv, RegistryTypes
    <3>2. QED
      BY <1>2, <1>13, <2>2, <3>1, SameLeaving DEF StopCheck
  <2>3. CASE state' = [state EXCEPT ![op.me] = "stopped"] /\ state[op.me] = "stopped" /\ Return
    <3>1. UNCHANGED state
      BY <2>3 DEF CalmInv, PortInv, RegistryTypes
    <3>2. QED
      BY <1>2, <1>13, <2>3, <3>1, ReturnLeaves DEF StopCheck
  <2>4. CASE state' = [state EXCEPT ![op.me] = "stopped"] /\ Goto("mark")
    <3>1. UNCHANGED leaving
      BY <2>4, GotoFields, SameLeaving DEF CalmInv, PortInv
    <3>2. QED
      BY <1>1, <1>13, <2>1, <2>4, <3>1, EndOwns DEF StopCheck
  <2>5. QED
    BY <1>13, <2>2, <2>3, <2>4 DEF StopCheck
<1>14. CASE Cleanup
  <2>1. op'.call = op.call /\ op'.me = op.me
    BY <1>14 DEF Cleanup, CalmInv, PortInv, RegistryTypes
  <2>2. QED
    BY <1>2, <1>14, <2>1, SameLeaving DEF Cleanup
<1>15. CASE Finish
  <2>1. op.me \in Sessions /\ port[op.me] # NoPort
    BY <1>15 DEF Finish, CalmInv, PortInv, StopAgrees, Stopping, CleaningUp
  <2>2. UNCHANGED leaving
    BY <1>15, GotoFields, SameLeaving DEF Finish, CalmInv, PortInv
  <2>3. CASE UNCHANGED state
    BY <1>2, <1>15, <2>2, <2>3 DEF Finish
  <2>4. CASE state' = [state EXCEPT ![op.me] = "stopped"]
    BY <1>1, <1>15, <2>1, <2>2, <2>4, EndOwns DEF Finish
  <2>5. QED
    BY <1>15, <2>3, <2>4 DEF Finish
<1>16. ASSUME NEW r \in Readers, Read(r) PROVE OwnershipStep
  <2>1. UNCHANGED <<vm, port, op, leaving>>
    BY <1>16 DEF Read, Load, Write, ForgetCheck, ForgetRename, Quit, leaving
  <2>2. CASE Write(r)
    <3>1. PICK st \in ActiveStates : state' = [state EXCEPT ![aux[r].s] = st]
      BY <2>2 DEF Write, RefreshStates, ActiveStates
    <3>2. aux[r].s \in Sessions /\ entry[aux[r].s] = "live" /\ op.pc = "idle"
      BY <2>2 DEF Write, CalmInv, PortInv, ReadersAgree
    <3>3. Served(aux[r].s)
      BY <3>2, SettledServes DEF Settled
    <3>4. QED
      BY <1>1, <2>1, <3>1, <3>2, <3>3, WriteOwns
  <2>3. CASE ForgetRename(r)
    <3>1. aux[r].s \in Sessions /\ state[aux[r].s] # "none"
      BY <2>3 DEF ForgetRename, CalmInv, PortInv, ReadersAgree
    <3>2. port[aux[r].s] # NoPort
      BY <3>1 DEF CalmInv, PortInv, RegistryAgrees
    <3>3. state' = [state EXCEPT ![aux[r].s] = "none"]
      BY <2>3 DEF ForgetRename
    <3>4. QED
      BY <1>1, <2>1, <3>1, <3>2, <3>3, EndOwns
  <2>4. CASE ~Write(r) /\ ~ForgetRename(r)
    <3>1. UNCHANGED state
      BY <1>16, <2>4 DEF Read, Load, ForgetCheck, Quit
    <3>2. QED
      BY <1>2, <2>1, <3>1
  <2>5. QED
    BY <2>2, <2>3, <2>4
<1>17. CASE Edit \/ UNCHANGED vars
  BY <1>2, <1>17 DEF Edit, vars, leaving
<1>18. CASE RecreateFails \/ StartFails \/ StopRecreateFails \/ StopFails \/ Crash \/ Rollback \/ StopVerifyFails
  BY <1>18 DEF Calm, RecreateFails, StartFails, StopRecreateFails, StopFails, Crash, Rollback, StopVerifyFails,
     CalmInv, ServedInv, Mirrored
<1>19. QED
  BY <1>3, <1>4, <1>5, <1>6, <1>7, <1>8, <1>9, <1>10, <1>11, <1>12, <1>13, <1>14, <1>15, <1>16, <1>17, <1>18
     DEF Next, Start, Stop

\* At first nobody owns a port.
LEMMA OwnershipInit == ASSUME Init PROVE Ownership!Init
<1>1. \A s \in Sessions : ~Active(s)
  BY DEF Init, Active, ActiveStates
<1>2. \A p : Owner(p) = 0
  BY <1>1 DEF Owner
<1>3. op.call = "none" /\ vm \in [Ports -> Fwd]
  BY RuntimeAssumption DEF Init, NoOp, Fwd
<1>4. QED
  BY <1>2, <1>3 DEF Ownership!Init

\* Where no container command, registry or record write fails and no process dies, the
\* commands implement the abstract ownership of ports: a port is claimed when it is free and
\* forwarded, and the VM restarts only while nobody but the leaving session owns a port.
THEOREM PortsAreOwned ==
  ASSUME Calm PROVE Spec => OwnershipKept
<1>1. Init => CalmInv /\ Ownership!Init
  BY PortInit, FileInit, ServedInit, OwnershipInit DEF CalmInv
<1>2. CalmInv /\ [Next]_vars => CalmInv'
  BY CalmStep
<1>3. CalmInv /\ CalmInv' /\ [Next]_vars => [Ownership!Next]_(Ownership!vars)
  BY StepOwns, StepsAreOwnership
<1>4. QED
  BY <1>1, <1>2, <1>3, PTL DEF Spec, OwnershipKept, Ownership!Spec

\* Under the same conditions no recreation hits a live session, and the Compose file and the
\* VM forward the port of every active one.
THEOREM SessionsAreServed ==
  ASSUME Calm PROVE Spec => []LiveAreServed
<1>1. Init => CalmInv
  BY PortInit, FileInit, ServedInit DEF CalmInv
<1>2. CalmInv /\ [Next]_vars => CalmInv'
  BY CalmStep
<1>3. QED
  BY <1>1, <1>2, ActiveAreServed, PTL DEF Spec
-----------------------------------------------------------------------------
(* Where no record is forgotten and no stop repeated either.               *)

\* Nothing fails half way, no record is forgotten and no stopped session stopped again.
Undisturbed == Calm /\ ~May("forget") /\ ~May("retry")

\* The registered sessions of a port, those other than the caller's, and the ports whose
\* forwarding was not Mendimaru's before the first start.
Known(p) == {s \in Sessions : entry[s] # "none" /\ port[s] = p}
Others(p) == Known(p) \ {op.me}
Taken == {p \in Ports : InitFwd[p] # Expected}

\* Registry and records say the same of every session, but of the one a command is about.
RecordsAgree ==
  /\ \A s \in Sessions : entry[s] = "live" =>
       Active(s) \/ (s = op.me /\ op.pc \in Building \cup {"undo", "mark", "release"})
  /\ \A s \in Sessions : entry[s] = "stopped" => state[s] = "stopped"
  /\ op.pc \in {"stop", "refresh"} \cup CleaningUp => Active(op.me)
  /\ op.pc = "mark" => state[op.me] = "stopped"
  /\ op.pc \in {"idle", "create", "baseline"} => op.me = 0
  /\ \A r \in Readers : aux[r].kind # "forget"

\* Identifiers are given out in order.
InOrder ==
  /\ \A s, t \in Sessions : port[s] # NoPort /\ t < s => port[t] # NoPort
  /\ op.pc \in Starting => \A s \in Sessions : entry[s] # "none" => s <= op.me

\* A cleanup is put off for the sake of a session that is live still.
PutOffForOthers ==
  /\ op.pc \notin Dismantled \cup {"cleanup"} =>
       ((\E s \in Sessions : entry[s] = "stopped") =>
          \E s \in Sessions : entry[s] = "live" /\ (s = op.me => op.pc \in {"stop", "refresh"}))
  /\ op.pc = "mark" => \E s \in Sessions : entry[s] = "live" /\ s # op.me
  /\ op.pc \in {"reserve", "ensure"} => \A s \in Sessions : s # op.me => op.seen[s] = entry[s]
  /\ op.pc = "recreate" => \A s \in Sessions : op.seen[s] = "none"
  /\ op.pc # "fold"

\* The first of a port's sessions remembers the user's forwarding, which is in the file without them.
Remembers(p) ==
  IF Known(p) = {} THEN compose.fwd[p] = InitFwd[p] ELSE pre[Least(Known(p))] = InitFwd[p]

\* The same while a start is changing the port, of the file it read.
WillRemember(p) ==
  IF Others(p) = {} THEN op.previous.fwd[p] = InitFwd[p] /\ pre[op.me] = InitFwd[p] \ Expected
                    ELSE pre[Least(Others(p))] = InitFwd[p]

Remembered ==
  /\ op.pc \notin Starting \cup Dismantled => \A p \in Taken : Remembers(p)
  /\ op.pc \in Starting => \A p \in Taken : p # op.want => Remembers(p)
  /\ op.pc \in Starting => \A p \in Taken : p = op.want => WillRemember(p)
  /\ op.pc = "record" => \A p \in Taken : Remembers(p)
  /\ op.pc \in Dismantled => \A p \in Taken : compose.fwd[p] = InitFwd[p]
  /\ op.pc \in Starting => \A p \in Ports : p # op.want => op.previous.fwd[p] = compose.fwd[p]
  /\ op.pc \in Starting /\ op.changed => "exact" \notin op.previous.fwd[op.want]

\* The saved original and the file a session manages differ in its own port.
OriginalsSaved ==
  /\ \A s \in Sessions : Active(s) \/ (op.pc = "record" /\ s = op.me) =>
       \A q \in Ports : q # port[s] => managed[s].fwd[q] = orig[s].fwd[q]
  /\ op.pc \in Starting => \A q \in Ports : q # op.want => orig[op.me].fwd[q] = compose.fwd[q]

\* The third invariant, and what it adds to the second.
QuietInv == CalmInv /\ RecordsAgree /\ InOrder /\ PutOffForOthers /\ Remembered /\ OriginalsSaved
-----------------------------------------------------------------------------
Undisturbing == RecordsAgree /\ InOrder /\ PutOffForOthers /\ Remembered /\ OriginalsSaved

\* What holds of registry, records and files while no command is changing them.
AtEase ==
  /\ \A s \in Sessions : entry[s] = "live" => Active(s)
  /\ \A s \in Sessions : entry[s] = "stopped" => state[s] = "stopped"
  /\ \A r \in Readers : aux[r].kind # "forget"
  /\ \A s, t \in Sessions : port[s] # NoPort /\ t < s => port[t] # NoPort
  /\ (\E s \in Sessions : entry[s] = "stopped") => \E s \in Sessions : entry[s] = "live"
  /\ \A p \in Taken : Remembers(p)
  /\ \A s \in Sessions : Active(s) => \A q \in Ports : q # port[s] => managed[s].fwd[q] = orig[s].fwd[q]

\* Where a start or a cleanup is not under way, that is a relation of registry and files.
LEMMA QuietIsEase ==
  ASSUME QuietInv, op.pc \in {"idle", "create", "refresh", "baseline", "stop", "cleanup"}
  PROVE  AtEase
<1>1. \A s \in Sessions : Active(s) => entry[s] = "live"
  BY DEF QuietInv, CalmInv, PortInv, RegistryAgrees
<1>2. op.pc = "cleanup" => op.me \in Sessions /\ Active(op.me)
  BY DEF QuietInv, CalmInv, PortInv, StopAgrees, Stopping, CleaningUp, RecordsAgree
<1>3. (\E s \in Sessions : entry[s] = "stopped") => \E s \in Sessions : entry[s] = "live"
  BY <1>1, <1>2 DEF QuietInv, PutOffForOthers, Dismantled
<1>4. QED
  BY <1>3 DEF QuietInv, AtEase, RecordsAgree, InOrder, Remembered, OriginalsSaved, Building, Starting, Dismantled

\* The files decide what is remembered.
LEMMA SameMemory ==
  ASSUME UNCHANGED <<entry, port, pre>>, compose'.fwd = compose.fwd
  PROVE  \A p : Known(p)' = Known(p) /\ Remembers(p)' = Remembers(p)
<1>1. \A p : Known(p)' = Known(p)
  BY DEF Known
<1>2. QED
  BY <1>1 DEF Remembers

\* It stays while the registry and the files do.
LEMMA EaseStays ==
  ASSUME AtEase, UNCHANGED <<entry, state, identity, aux>>, compose'.fwd = compose.fwd
  PROVE  AtEase'
<1>1. \A p : Remembers(p)' = Remembers(p)
  BY SameMemory DEF identity
<1>2. QED
  BY <1>1 DEF AtEase, Active, identity, Taken

\* Nothing else is asked of a command that has not begun to change anything.
LEMMA EaseIsQuiet ==
  ASSUME AtEase', op'.pc \in {"idle", "create", "refresh", "baseline", "stop", "cleanup"},
         op'.pc \in {"refresh", "stop", "cleanup"} => Active(op.me)',
         op'.pc \in {"idle", "create", "baseline"} => op'.me = 0
  PROVE  Undisturbing'
<1>1. 0 \notin Sessions
  BY DEF Sessions
<1>2. RecordsAgree' /\ InOrder' /\ Remembered' /\ OriginalsSaved'
  BY DEF AtEase, RecordsAgree, InOrder, Remembered, OriginalsSaved, Building, Starting, Dismantled, CleaningUp
<1>3. PutOffForOthers'
  BY <1>1 DEF AtEase, PutOffForOthers, Dismantled
<1>4. QED
  BY <1>2, <1>3 DEF Undisturbing

\* Where the registry says what the records say, reconciling changes nothing.
LEMMA NothingToReconcile ==
  ASSUME QuietInv, op.pc \notin Building \cup {"undo", "mark", "release"}
  PROVE  Reconciled = entry
<1>1. \A s \in Sessions : Reconciled[s] = entry[s]
  BY DEF QuietInv, RecordsAgree, Reconciled, CalmInv, PortInv, RegistryTypes, Entries, Active, ActiveStates
<1>2. QED
  BY <1>1, ReconciledAgrees DEF QuietInv, CalmInv, PortInv, RegistryTypes, Entries

\* It holds of the files Mendimaru has not touched.
LEMMA UndisturbedInit == Init => Undisturbing
<1> SUFFICES ASSUME Init PROVE Undisturbing
  OBVIOUS
<1>1. op.pc = "idle" /\ op.me = 0 /\ 0 \notin Sessions
  BY DEF Init, NoOp, Sessions
<1>2. \A p \in Ports : Known(p) = {}
  BY DEF Init, NoEntries, Known
<1>3. \A p \in Taken : Remembers(p)
  BY <1>2 DEF Init, Remembers, Taken
<1>4. \A s \in Sessions : entry[s] = "none" /\ ~Active(s) /\ port[s] = NoPort
  BY DEF Init, NoEntries, Active, ActiveStates
<1>5. \A r \in Readers : aux[r].kind # "forget"
  BY DEF Init, NoAux
<1>6. QED
  BY <1>1, <1>3, <1>4, <1>5 DEF Undisturbing, RecordsAgree, InOrder, PutOffForOthers, Remembered, OriginalsSaved,
     Building, Starting, Dismantled, CleaningUp

-----------------------------------------------------------------------------
\* The steps of a start.
LEMMA RequestQuiet ==
  ASSUME QuietInv, NEW k \in {"start", "prepare"}, NEW p \in Ports, NEW c \in Caches, Request(k, p, c)
  PROVE  Undisturbing'
<1>1. op.pc = "idle"
  BY DEF Request, LeaseFree
<1>2. UNCHANGED <<compose, entry, state, identity, aux>>
  BY <1>1, NothingToReconcile DEF Request, Building
<1>3. AtEase'
  BY <1>1, <1>2, QuietIsEase, EaseStays
<1>4. /\ op'.pc \in {"idle", "create"} => op'.me = 0
      /\ op'.pc = "refresh" => Active(op'.me)
      /\ op'.pc \in {"idle", "create", "refresh"}
  <2> DEFINE call == [NoOp EXCEPT !.call = k, !.want = p, !.cache = c]
  <2>1. CASE op' = NoOp
    BY <2>1 DEF NoOp
  <2>2. CASE op' = [call EXCEPT !.pc = "create"]
    BY <2>2 DEF NoOp
  <2>3. ASSUME NEW s \in ActiveOn(p, c), op' = [call EXCEPT !.pc = "refresh", !.me = s]
        PROVE  op'.pc = "refresh" /\ op'.me = s /\ Active(s)
    BY <2>3 DEF NoOp, ActiveOn
  <2>4. QED
    BY <2>1, <2>2, <2>3 DEF Request
<1>5. op'.pc = "refresh" => Active(op.me)'
  BY <1>2, <1>4 DEF Active
<1>6. QED
  BY <1>3, <1>4, <1>5, EaseIsQuiet

LEMMA RefreshQuiet == ASSUME QuietInv, Refresh PROVE Undisturbing'
<1>1. op.pc = "refresh" /\ UNCHANGED <<compose, entry, identity, aux>> /\ Active(op.me)
  BY DEF Refresh, QuietInv, RecordsAgree
<1>2. PICK st \in ActiveStates : state' = [state EXCEPT ![op.me] = st]
  BY DEF Refresh, RefreshStates, ActiveStates
<1>3. \A s \in Sessions : Active(s)' = Active(s) /\ (s # op.me => state'[s] = state[s])
  BY <1>1, <1>2 DEF Active, QuietInv, CalmInv, PortInv, RegistryTypes
<1>4. op.me \in Sessions /\ entry[op.me] = "live"
  BY <1>1 DEF QuietInv, CalmInv, PortInv, StartAgrees
<1>5. AtEase /\ \A p : Remembers(p)' = Remembers(p)
  BY <1>1, QuietIsEase, SameMemory DEF identity
<1>6. AtEase'
  BY <1>1, <1>3, <1>4, <1>5 DEF AtEase, identity, Taken
<1>7. op'.pc \in {"idle", "create"} /\ op'.me = 0
  <2>1. CASE Return
    BY <2>1, ReturnFields
  <2>2. CASE op' = [op EXCEPT !.pc = "create", !.me = 0]
    BY <2>2 DEF QuietInv, CalmInv, PortInv, RegistryTypes
  <2>3. QED
    BY <2>1, <2>2 DEF Refresh
<1>8. QED
  BY <1>6, <1>7, EaseIsQuiet

LEMMA CheckQuiet == ASSUME QuietInv, Check PROVE Undisturbing'
<1>1. op.pc = "create" /\ op.me = 0
  BY DEF Check, QuietInv, RecordsAgree
<1>2. UNCHANGED <<compose, entry, state, identity, aux>>
  BY <1>1, NothingToReconcile DEF Check, Building
<1>3. AtEase'
  BY <1>1, <1>2, QuietIsEase, EaseStays
<1>4. op'.pc \in {"idle", "baseline"} /\ op'.me = 0
  <2>1. CASE Return
    BY <2>1, ReturnFields
  <2>2. CASE op' = [op EXCEPT !.pc = "baseline", !.seen = Reconciled]
    BY <1>1, <2>2 DEF QuietInv, CalmInv, PortInv, RegistryTypes
  <2>3. QED
    BY <2>1, <2>2 DEF Check
<1>5. QED
  BY <1>3, <1>4, EaseIsQuiet

LEMMA StopRequestQuiet == ASSUME QuietInv, Undisturbed, NEW s \in Sessions, StopRequest(s) PROVE Undisturbing'
<1>1. op.pc = "idle" /\ UNCHANGED <<compose, entry, state, identity, aux>> /\ Active(s)
  BY DEF StopRequest, LeaseFree, Undisturbed
<1>2. op'.pc = "stop" /\ op'.me = s
  BY DEF StopRequest, NoOp
<1>3. AtEase'
  BY <1>1, QuietIsEase, EaseStays
<1>4. Active(op.me)'
  BY <1>1, <1>2 DEF Active
<1>5. QED
  BY <1>2, <1>3, <1>4, EaseIsQuiet
\* What the port forwards now is what its first session will remember.
LEMMA BaselineQuiet == ASSUME QuietInv, Baseline PROVE Undisturbing'
<1> DEFINE me == Least(Unused)
           file == [compose EXCEPT !.fwd[op.want] = @ \cap Expected]
<1>1. AtEase /\ op.pc = "baseline" /\ op.want \in Ports /\ ~op.changed /\ op.seen = entry /\ op.me = 0
  BY QuietIsEase DEF QuietInv, CalmInv, PortInv, StartAgrees, ServedInv, Mirrored, SeenIsRegistered, Choosing, Baseline,
     RecordsAgree
<1>2. /\ me \in Sessions /\ port[me] = NoPort /\ entry[me] = "none" /\ state[me] = "none"
      /\ \A s \in Sessions : port[s] = NoPort => me <= s
  <2>1. me \in Unused /\ \A s \in Unused : me <= s
    BY LeastSession DEF QuietInv, CalmInv, PortInv, StartAgrees, Baseline, Unused
  <2>2. QED
    BY <2>1 DEF Unused, QuietInv, CalmInv, PortInv, RegistryAgrees
<1>3. /\ UNCHANGED <<vm, entry, state, managed, aux>> /\ compose' = file
      /\ port' = [port EXCEPT ![me] = op.want] /\ orig' = [orig EXCEPT ![me] = file]
      /\ pre' = [pre EXCEPT ![me] = compose.fwd[op.want] \ Expected]
      /\ op' = [op EXCEPT !.pc = "reserve", !.me = me, !.previous = compose, !.baseline = file]
  BY DEF Baseline
<1> HIDE DEF me
<1>4. \A q \in Ports : q # op.want => compose'.fwd[q] = compose.fwd[q]
  BY <1>3 DEF QuietInv, CalmInv, FileTypes, Compose
<1>5. compose' = file
  BY <1>3
<1> HIDE DEF file
<1>6. /\ op'.pc = "reserve" /\ op'.me = me /\ op'.want = op.want /\ op'.seen = op.seen
      /\ op'.changed = op.changed /\ op'.previous = compose
  BY <1>3 DEF QuietInv, CalmInv, PortInv, RegistryTypes
<1>7. \A s \in Sessions : Active(s)' = Active(s) /\ (Active(s) => s # me)
  BY <1>2, <1>3 DEF Active, ActiveStates
<1>8. RecordsAgree'
  BY <1>1, <1>3, <1>6, <1>7 DEF AtEase, RecordsAgree, CleaningUp
<1>9. \A s \in Sessions : s # me => port'[s] = port[s]
  BY <1>3 DEF QuietInv, CalmInv, PortInv, RegistryTypes
<1>10. InOrder'
  <2>1. port'[me] = op.want /\ op.want # NoPort
    BY <1>1, <1>2, <1>3, RuntimeAssumption DEF QuietInv, CalmInv, PortInv, RegistryTypes, NoPort
  <2>2. \A s, t \in Sessions : port'[s] # NoPort /\ t < s => port'[t] # NoPort
    <3> SUFFICES ASSUME NEW s \in Sessions, NEW t \in Sessions, port'[s] # NoPort, t < s, t # me
                 PROVE  port[t] # NoPort
      BY <1>9, <2>1
    <3>1. CASE s = me
      BY <1>2, <3>1 DEF Sessions
    <3>2. CASE s # me
      BY <1>1, <1>9, <3>2 DEF AtEase
    <3>3. QED
      BY <3>1, <3>2
  <2>3. \A s \in Sessions : entry[s] # "none" => s <= me
    BY <1>1, <1>2 DEF AtEase, Sessions, QuietInv, CalmInv, PortInv, RegistryAgrees
  <2>4. QED
    BY <1>3, <1>6, <2>2, <2>3 DEF InOrder
<1>11. PutOffForOthers'
  <2>1. \A s \in Sessions : entry[s] # "none" => s # me
    BY <1>2
  <2>2. QED
    BY <1>1, <1>3, <1>6, <2>1 DEF AtEase, PutOffForOthers
<1>12. \A p : Known(p)' = Known(p) /\ Others(p)' = Known(p)
  <2>1. \A p : Known(p)' = Known(p)
    BY <1>2, <1>3, <1>9 DEF Known
  <2>2. \A p : me \notin Known(p)
    BY <1>2 DEF Known
  <2>3. QED
    BY <1>6, <2>1, <2>2 DEF Others
<1>13. \A p : Known(p) # {} => pre'[Least(Known(p))] = pre[Least(Known(p))]
  <2> SUFFICES ASSUME NEW p, Known(p) # {} PROVE pre'[Least(Known(p))] = pre[Least(Known(p))]
    OBVIOUS
  <2>1. Least(Known(p)) \in Sessions /\ Least(Known(p)) # me
    <3>1. Known(p) \in SUBSET Sessions
      BY DEF Known
    <3>2. Least(Known(p)) \in Known(p)
      BY <3>1, LeastSession
    <3>3. QED
      BY <1>2, <3>2 DEF Known
  <2>2. QED
    BY <1>3, <2>1 DEF QuietInv, CalmInv, FileTypes
<1>14. Remembered'
  <2>1. ASSUME NEW p \in Taken, p # op.want PROVE Remembers(p)'
    BY <1>1, <1>4, <1>12, <1>13, <2>1 DEF AtEase, Remembers, Taken
  <2>2. ASSUME NEW p \in Taken, p = op.want PROVE WillRemember(p)'
    <3>1. Remembers(p)
      BY <1>1 DEF AtEase
    <3>2. pre'[me] = compose.fwd[p] \ Expected
      BY <1>2, <1>3, <2>2 DEF QuietInv, CalmInv, FileTypes
    <3>3. QED
      BY <1>6, <1>12, <1>13, <3>1, <3>2 DEF WillRemember, Remembers
  <2>3. QED
    BY <1>1, <1>4, <1>6, <2>1, <2>2 DEF Remembered, Starting, Dismantled, Taken
<1>15. OriginalsSaved'
  <2>1. \A s \in Sessions : Active(s)' =>
          \A q \in Ports : q # port'[s] => managed'[s].fwd[q] = orig'[s].fwd[q]
    BY <1>1, <1>3, <1>7, <1>9 DEF AtEase, QuietInv, CalmInv, FileTypes
  <2>2. orig'[me] = compose'
    BY <1>2, <1>3, <1>5 DEF QuietInv, CalmInv, FileTypes
  <2>3. QED
    BY <1>6, <2>1, <2>2 DEF OriginalsSaved
<1>16. QED
  BY <1>8, <1>10, <1>11, <1>14, <1>15 DEF Undisturbing

\* In the middle of a start: what registry and files say of the others.
LEMMA MemoryStays ==
  ASSUME UNCHANGED <<port, pre>>, op'.me = op.me, op'.previous = op.previous,
         \A s \in Sessions : s # op.me => entry'[s] = entry[s],
         NEW p
  PROVE  /\ Others(p)' = Others(p) /\ WillRemember(p)' = WillRemember(p)
         /\ port[op.me] # p => Known(p)' = Known(p)
         /\ port[op.me] # p /\ compose'.fwd[p] = compose.fwd[p] => Remembers(p)' = Remembers(p)
<1>1. Others(p)' = Others(p)
  BY DEF Others, Known
<1>2. WillRemember(p)' = WillRemember(p)
  BY <1>1 DEF WillRemember
<1>3. port[op.me] # p => Known(p)' = Known(p)
  BY DEF Known
<1>4. QED
  BY <1>1, <1>2, <1>3 DEF Remembers
\* A start that goes on touches nothing but its own entry, its own port and its own record.
LEMMA StartGoesOn ==
  ASSUME QuietInv, op.pc \in Starting, op'.pc \in (Building \cup {"undo"}) \ {"fold"},
         UNCHANGED <<state, port, pre, orig, aux>>,
         op'.me = op.me, op'.want = op.want, op'.seen = op.seen, op'.previous = op.previous,
         \A s \in Sessions : s # op.me => entry'[s] = entry[s] /\ managed'[s] = managed[s],
         entry'[op.me] \in {entry[op.me], "live"},
         \A q \in Ports : q # op.want => compose'.fwd[q] = compose.fwd[q],
         op'.changed => "exact" \notin op.previous.fwd[op.want],
         op'.pc = "ensure" => op.pc = "reserve",
         op'.pc = "recreate" => \A s \in Sessions : op.seen[s] = "none",
         op'.pc = "record" => /\ \A p \in Taken : p = op.want => Remembers(p)'
                              /\ managed'[op.me] = compose
  PROVE  Undisturbing'
<1>1. op.me \in Sessions /\ state[op.me] = "none" /\ port[op.me] = op.want /\ ~Active(op.me)
  BY DEF QuietInv, CalmInv, PortInv, StartAgrees, Active, ActiveStates
<1>2. entry[op.me] # "stopped"
  BY <1>1 DEF QuietInv, RecordsAgree
<1>3. \A s \in Sessions : Active(s)' = Active(s)
  BY DEF Active
<1>4. RecordsAgree'
  <2>1. \A s \in Sessions : entry'[s] = "live" => Active(s)' \/ s = op.me
    BY <1>3 DEF QuietInv, RecordsAgree
  <2>2. \A s \in Sessions : entry'[s] = "stopped" => state[s] = "stopped"
    BY <1>2 DEF QuietInv, RecordsAgree
  <2>3. \A r \in Readers : aux'[r].kind # "forget"
    BY DEF QuietInv, RecordsAgree
  <2>4. QED
    BY <2>1, <2>2, <2>3 DEF RecordsAgree, Building, CleaningUp
<1>5. InOrder'
  <2>1. \A s \in Sessions : entry'[s] # "none" => s <= op.me
    BY <1>1 DEF QuietInv, InOrder, Sessions
  <2>2. QED
    BY <2>1 DEF QuietInv, InOrder
<1>6. PutOffForOthers'
  <2>1. (\E s \in Sessions : entry[s] = "stopped") => \E s \in Sessions : entry[s] = "live" /\ s # op.me
    BY DEF QuietInv, PutOffForOthers, Starting, Building, Dismantled
  <2>2. (\E s \in Sessions : entry'[s] = "stopped") => \E s \in Sessions : entry'[s] = "live" /\ s # op.me
    BY <1>2, <2>1
  <2>3. op'.pc = "ensure" => \A s \in Sessions : s # op.me => op.seen[s] = entry'[s]
    BY DEF QuietInv, PutOffForOthers
  <2>4. QED
    BY <2>2, <2>3 DEF PutOffForOthers, Building
<1>7. Remembered'
  <2>1. ASSUME NEW p \in Taken PROVE (p # op.want => Remembers(p)') /\ (p = op.want => WillRemember(p)')
    BY <1>1, MemoryStays DEF QuietInv, Remembered, Taken
  <2>2. Taken' = Taken /\ Starting' = Starting
    BY DEF Taken
  <2>3. op'.pc \in Starting /\ op'.pc \notin Dismantled
    BY DEF Starting, Building, Dismantled
  <2>4. \A p \in Ports : p # op.want => op.previous.fwd[p] = compose'.fwd[p]
    BY DEF QuietInv, Remembered
  <2>5. op'.pc = "record" => \A p \in Taken : Remembers(p)'
    BY <2>1
  <2>6. QED
    BY <2>1, <2>2, <2>3, <2>4, <2>5 DEF Remembered
<1>8. OriginalsSaved'
  <2>1. ASSUME NEW s \in Sessions, Active(s)' PROVE \A q \in Ports : q # port'[s] => managed'[s].fwd[q] = orig'[s].fwd[q]
    BY <1>1, <1>3, <2>1 DEF QuietInv, OriginalsSaved
  <2>2. \A q \in Ports : q # op.want => orig'[op.me].fwd[q] = compose'.fwd[q] /\ orig[op.me].fwd[q] = compose.fwd[q]
    BY DEF QuietInv, OriginalsSaved
  <2>3. op'.pc = "record" => \A q \in Ports : q # port'[op.me] => managed'[op.me].fwd[q] = orig'[op.me].fwd[q]
    BY <1>1, <2>2
  <2>4. QED
    BY <2>1, <2>2, <2>3 DEF OriginalsSaved
<1>9. QED
  BY <1>4, <1>5, <1>6, <1>7, <1>8 DEF Undisturbing

\* The steps that change a port's forwarding, and those that put it back.
LEMMA ReserveQuiet == ASSUME QuietInv, Reserve PROVE Undisturbing'
<1>1. op.pc = "reserve" /\ UNCHANGED <<compose, state, port, pre, orig, managed, aux>> /\ op.me \in Sessions /\ ~op.changed
  BY DEF Reserve, identity, QuietInv, CalmInv, PortInv, StartAgrees, Starting, ServedInv, Mirrored, Choosing
<1>2. Reconciled = entry
  BY <1>1, NothingToReconcile DEF Building
<1>3. \A s \in Sessions : (s # op.me => entry'[s] = entry[s]) /\ entry'[op.me] \in {entry[op.me], "live"}
  BY <1>1, <1>2 DEF Reserve, QuietInv, CalmInv, PortInv, RegistryTypes, Entries
<1>4. PICK label \in {"undo", "ensure"} : Goto(label)
  BY DEF Reserve
<1>5. /\ op'.pc = label /\ op'.me = op.me /\ op'.want = op.want /\ op'.seen = op.seen
      /\ op'.changed = op.changed /\ op'.previous = op.previous
  BY <1>4, GotoFields DEF QuietInv, CalmInv, PortInv
<1>6. QED
  BY <1>1, <1>3, <1>5, StartGoesOn DEF Starting, Building

LEMMA EnsureQuiet == ASSUME QuietInv, Ensure PROVE Undisturbing'
<1>1. /\ op.pc = "ensure" /\ UNCHANGED <<vm, entry, state, port, pre, orig, managed, aux>> /\ op.me \in Sessions
      /\ ~op.changed /\ op.want \in Ports
  BY DEF Ensure, identity, QuietInv, CalmInv, PortInv, StartAgrees, Starting, Building, ServedInv, Mirrored, Choosing
<1>2. CASE Goto("verify") /\ UNCHANGED compose
  <2>1. /\ op'.pc = "verify" /\ op'.me = op.me /\ op'.want = op.want /\ op'.seen = op.seen
        /\ op'.changed = op.changed /\ op'.previous = op.previous
    BY <1>2, GotoFields DEF QuietInv, CalmInv, PortInv
  <2>2. QED
    BY <1>1, <1>2, <2>1, StartGoesOn DEF Starting, Building
<1>3. CASE /\ compose.fwd[op.want] # Expected
           /\ compose' = Replace([compose EXCEPT !.fwd[op.want] = Expected], Owned)
           /\ op' = [op EXCEPT !.pc = "recreate", !.changed = TRUE]
  <2>1. /\ op'.pc = "recreate" /\ op'.me = op.me /\ op'.want = op.want /\ op'.seen = op.seen
        /\ op'.previous = op.previous
    BY <1>3 DEF QuietInv, CalmInv, PortInv, RegistryTypes
  <2>2. \A s \in Sessions : op.seen[s] # "live"
    BY <1>1, <1>3 DEF QuietInv, CalmInv, ServedInv, ChangesAlone, Choosing
  <2>3. op.seen[op.me] = "none" /\ \A s \in Sessions : s # op.me => op.seen[s] = entry[s]
    BY <1>1 DEF QuietInv, CalmInv, ServedInv, SeenIsRegistered, PutOffForOthers
  <2>4. \A s \in Sessions : op.seen[s] = "none"
    <3>1. (\E s \in Sessions : entry[s] = "stopped") => \E s \in Sessions : entry[s] = "live" /\ s # op.me
      BY <1>1 DEF QuietInv, PutOffForOthers, Dismantled
    <3>2. ~ \E s \in Sessions : entry[s] = "stopped"
      BY <2>2, <2>3, <3>1
    <3>3. \A s \in Sessions : entry[s] \in {"none", "live", "stopped"}
      BY DEF QuietInv, CalmInv, PortInv, RegistryTypes, Entries
    <3>4. QED
      BY <2>2, <2>3, <3>2, <3>3
  <2>5. Owned = {}
    BY <2>4 DEF Owned, Owners
  <2>6. \A q \in Ports : q # op.want => compose'.fwd[q] = compose.fwd[q]
    BY <1>3, <2>5 DEF Replace, QuietInv, CalmInv, FileTypes, Compose
  <2>7. "exact" \notin op.previous.fwd[op.want]
    <3>1. op.previous.fwd = vm /\ compose.fwd[op.want] = vm[op.want] \cap Expected
      BY <1>1 DEF QuietInv, CalmInv, FileTypes, ServedInv, Mirrored, Starting, Building
    <3>2. QED
      BY <1>3, <3>1 DEF Expected
  <2>8. QED
    BY <1>1, <2>1, <2>4, <2>6, <2>7, StartGoesOn DEF Starting, Building
<1>4. QED
  BY <1>2, <1>3 DEF Ensure

LEMMA RecreateQuiet == ASSUME QuietInv, Recreate PROVE Undisturbing'
<1>1. /\ op.pc = "recreate" /\ UNCHANGED <<compose, entry, state, port, pre, orig, managed, aux>>
      /\ \A s \in Sessions : op.seen[s] = "none"
      /\ "exact" \notin op.previous.fwd[op.want]
  BY DEF Recreate, identity, QuietInv, PutOffForOthers, Remembered, CalmInv, ServedInv, Mirrored, Starting, Building
<1>2. Goto("verify")
  BY <1>1 DEF Recreate
<1>3. /\ op'.pc = "verify" /\ op'.me = op.me /\ op'.want = op.want /\ op'.seen = op.seen
      /\ op'.changed = op.changed /\ op'.previous = op.previous
  BY <1>2, GotoFields DEF QuietInv, CalmInv, PortInv
<1>4. QED
  BY <1>1, <1>3, StartGoesOn DEF Starting, Building

\* A start that succeeds on a port of the user's knows what the user had there.
LEMMA VerifiedRemembers ==
  ASSUME QuietInv, op.pc = "verify", vm[op.want] = Expected, op.want \in Taken
  PROVE  Remembers(op.want)
<1>1. /\ op.me \in Sessions /\ entry[op.me] = "live" /\ port[op.me] = op.want
      /\ \A s \in Sessions : entry[s] # "none" => s <= op.me
      /\ WillRemember(op.want)
  BY DEF QuietInv, CalmInv, PortInv, StartAgrees, Starting, Building, InOrder, Remembered
<1>2. op.me \in Known(op.want)
  BY <1>1 DEF Known
<1>3. CASE Others(op.want) = {}
  <2>1. "exact" \notin InitFwd[op.want]
    <3>1. op.previous.fwd[op.want] = InitFwd[op.want]
      BY <1>1, <1>3 DEF WillRemember
    <3>2. op.changed
      BY <3>1 DEF QuietInv, CalmInv, ServedInv, Mirrored, Starting, Building, Taken
    <3>3. QED
      BY <3>1, <3>2 DEF QuietInv, Remembered, Starting, Building
  <2>2. pre[op.me] = InitFwd[op.want]
    BY <1>1, <1>3, <2>1, RuntimeAssumption DEF WillRemember, Expected
  <2>3. Known(op.want) = {op.me}
    BY <1>2, <1>3 DEF Others
  <2>4. Least(Known(op.want)) = op.me
    <3>1. Known(op.want) \in SUBSET Sessions /\ Known(op.want) # {}
      BY <1>2 DEF Known
    <3>2. QED
      BY <2>3, <3>1, LeastSession
  <2>5. QED
    BY <1>2, <2>2, <2>4 DEF Remembers
<1>4. CASE Others(op.want) # {}
  <2>1. Others(op.want) \in SUBSET Sessions /\ Known(op.want) \in SUBSET Sessions
    BY DEF Others, Known
  <2>2. Least(Others(op.want)) \in Others(op.want) /\ \A y \in Others(op.want) : Least(Others(op.want)) <= y
    BY <1>4, <2>1, LeastSession
  <2>3. Least(Known(op.want)) \in Known(op.want) /\ \A y \in Known(op.want) : Least(Known(op.want)) <= y
    BY <1>2, <2>1, LeastSession
  <2>4. \A s \in Others(op.want) : s < op.me
    BY <1>1, <2>1 DEF Others, Known, Sessions
  <2>5. Least(Known(op.want)) # op.me
    BY <2>1, <2>2, <2>3, <2>4 DEF Others, Sessions
  <2>6. Least(Known(op.want)) = Least(Others(op.want))
    BY <2>1, <2>2, <2>3, <2>5 DEF Others, Sessions
  <2>7. QED
    BY <1>1, <1>2, <1>4, <2>6 DEF Remembers, WillRemember
<1>5. QED
  BY <1>3, <1>4

\* A start that is verified has its session remember the forwarding.
LEMMA VerifyQuiet == ASSUME QuietInv, CalmInv', Verify \/ VerifyFails PROVE Undisturbing'
<1>1. /\ op.pc = "verify" /\ UNCHANGED <<compose, vm, entry, state, port, pre, orig, aux>> /\ op.me \in Sessions
      /\ managed' \in {managed, [managed EXCEPT ![op.me] = compose]}
  BY DEF Verify, VerifyFails, identity, QuietInv, CalmInv, PortInv, StartAgrees, Starting, Building
<1>2. PICK label \in {"record", "rollback", "undo"} :
        /\ Goto(label)
        /\ label = "record" => vm[op.want] = Expected /\ managed' = [managed EXCEPT ![op.me] = compose]
  <2>1. CASE Verify
    BY <2>1 DEF Verify
  <2>2. CASE VerifyFails
    BY <2>2 DEF VerifyFails
  <2>3. QED
    BY <2>1, <2>2
<1>3. /\ op'.pc = label /\ op'.me = op.me /\ op'.want = op.want /\ op'.seen = op.seen
      /\ op'.changed = op.changed /\ op'.previous = op.previous
  BY <1>2, GotoFields DEF QuietInv, CalmInv, PortInv
<1>4. label # "rollback"
  BY <1>3 DEF CalmInv, ServedInv, Mirrored
<1>5. label = "record" => /\ \A p \in Taken : p = op.want => Remembers(p)'
                          /\ managed'[op.me] = compose
  <2>1. \A p : Remembers(p)' = Remembers(p)
    BY <1>1, SameMemory
  <2>2. label = "record" => \A p \in Taken : p = op.want => Remembers(p)
    BY <1>1, <1>2, VerifiedRemembers
  <2>3. label = "record" => managed'[op.me] = compose
    BY <1>1, <1>2 DEF QuietInv, CalmInv, FileTypes
  <2>4. QED
    BY <2>1, <2>2, <2>3
<1>6. \A s \in Sessions : s # op.me => managed'[s] = managed[s]
  BY <1>1 DEF QuietInv, CalmInv, FileTypes
<1>7. op.changed => "exact" \notin op.previous.fwd[op.want]
  BY <1>1 DEF QuietInv, Remembered, Starting, Building
<1>8. QED
  BY <1>1, <1>3, <1>4, <1>5, <1>6, <1>7, StartGoesOn DEF Starting, Building

LEMMA RecordQuiet == ASSUME QuietInv, Record PROVE Undisturbing'
<1>1. /\ op.pc = "record" /\ UNCHANGED <<compose, vm, entry, identity, aux>> /\ op.me \in Sessions /\ entry[op.me] = "live"
      /\ state' = [state EXCEPT ![op.me] = "starting"] /\ state[op.me] = "none"
  BY DEF Record, QuietInv, CalmInv, PortInv, StartAgrees, Starting, Building
<1>2. /\ state'[op.me] = "starting"
      /\ \A s \in Sessions : /\ s = op.me => Active(s)'
                           /\ s # op.me => (Active(s)' <=> Active(s)) /\ state'[s] = state[s]
  BY <1>1 DEF Active, ActiveStates, QuietInv, CalmInv, PortInv, RegistryTypes
<1>3. \A p : Remembers(p)' = Remembers(p)
  BY <1>1, SameMemory DEF identity
<1>4. \A p \in Taken : Remembers(p)'
  BY <1>1, <1>3 DEF QuietInv, Remembered
<1>5. AtEase'
  <2>1. \A s \in Sessions : (entry'[s] = "live" => Active(s)') /\ (entry'[s] = "stopped" => state'[s] = "stopped")
    <3>1. \A s \in Sessions : entry[s] = "live" => Active(s) \/ s = op.me
      BY DEF QuietInv, RecordsAgree
    <3>2. \A s \in Sessions : entry[s] = "stopped" => state[s] = "stopped" /\ s # op.me
      BY <1>1 DEF QuietInv, RecordsAgree
    <3>3. ASSUME NEW s \in Sessions, s # op.me
          PROVE  (entry'[s] = "live" => Active(s)') /\ (entry'[s] = "stopped" => state'[s] = "stopped")
      BY <1>1, <1>2, <3>1, <3>2, <3>3
    <3>4. QED
      BY <1>1, <1>2, <3>2, <3>3 DEF Active, ActiveStates
  <2>2. (\E s \in Sessions : entry[s] = "stopped") => \E s \in Sessions : entry[s] = "live"
    BY <1>1
  <2>3. \A s \in Sessions : Active(s)' => \A q \in Ports : q # port'[s] => managed'[s].fwd[q] = orig'[s].fwd[q]
    BY <1>1, <1>2 DEF QuietInv, OriginalsSaved, identity
  <2>4. QED
    BY <1>1, <1>4, <2>1, <2>2, <2>3 DEF AtEase, Taken, QuietInv, RecordsAgree, InOrder, identity
<1>6. op'.pc \in {"idle", "refresh"} /\ (op'.pc = "idle" => op'.me = 0) /\ (op'.pc = "refresh" => op'.me = op.me)
  BY ReturnFields, GotoFields DEF Record, QuietInv, CalmInv, PortInv
<1>7. op'.pc = "refresh" => Active(op.me)'
  BY <1>1, <1>6 DEF Active, ActiveStates, QuietInv, CalmInv, PortInv, RegistryTypes
<1>8. QED
  BY <1>5, <1>6, <1>7, EaseIsQuiet

\* A start that gives up forgets its session and puts the file back.
LEMMA UndoQuiet == ASSUME QuietInv, Undo PROVE Undisturbing'
<1>1. /\ op.pc = "undo" /\ UNCHANGED <<state, identity, aux>> /\ op.me \in Sessions /\ port[op.me] = op.want
      /\ state[op.me] = "none" /\ entry' = [entry EXCEPT ![op.me] = "none"] /\ compose' = op.previous
  BY DEF Undo, QuietInv, CalmInv, PortInv, StartAgrees, Starting
<1>2. op'.pc = "idle" /\ op'.me = 0
  BY ReturnFields DEF Undo
<1>3. entry'[op.me] = "none" /\ \A s \in Sessions : s # op.me => entry'[s] = entry[s]
  BY <1>1 DEF QuietInv, CalmInv, PortInv, RegistryTypes, Entries
<1>4. \A p : Known(p)' = Others(p)
  BY <1>3, <1>1 DEF Known, Others, identity
<1>5. ASSUME NEW p \in Taken PROVE Remembers(p)'
  <2>1. CASE p = op.want
    <3>1. WillRemember(p)
      BY <1>1, <2>1 DEF QuietInv, Remembered, Starting
    <3>2. QED
      BY <1>1, <1>4, <3>1 DEF Remembers, WillRemember, identity
  <2>2. CASE p # op.want
    <3>1. Remembers(p) /\ op.previous.fwd[p] = compose.fwd[p]
      BY <1>1, <2>2 DEF QuietInv, Remembered, Starting, Taken
    <3>2. Others(p) = Known(p)
      BY <1>1, <2>2 DEF Others, Known
    <3>3. QED
      BY <1>1, <1>4, <3>1, <3>2 DEF Remembers, identity
  <2>3. QED
    BY <2>1, <2>2
<1>6. AtEase'
  <2>1. \A s \in Sessions : (entry'[s] = "live" => Active(s)') /\ (entry'[s] = "stopped" => state'[s] = "stopped")
    BY <1>1, <1>3 DEF QuietInv, RecordsAgree, Active
  <2>2. (\E s \in Sessions : entry'[s] = "stopped") => \E s \in Sessions : entry'[s] = "live"
    BY <1>1, <1>3 DEF QuietInv, PutOffForOthers, Dismantled
  <2>3. \A s \in Sessions : Active(s)' => \A q \in Ports : q # port'[s] => managed'[s].fwd[q] = orig'[s].fwd[q]
    BY <1>1 DEF QuietInv, OriginalsSaved, Active, identity
  <2>4. QED
    BY <1>1, <1>5, <2>1, <2>2, <2>3 DEF AtEase, Taken, QuietInv, RecordsAgree, InOrder, identity
<1>7. QED
  BY <1>2, <1>6, EaseIsQuiet
-----------------------------------------------------------------------------
\* The steps of a stop.
LEMMA StopCheckQuiet == ASSUME QuietInv, StopCheck PROVE Undisturbing'
<1>1. /\ op.pc = "stop" /\ op.me \in Sessions /\ Active(op.me) /\ state[op.me] # "stopped"
      /\ UNCHANGED <<compose, identity, aux>>
  BY DEF StopCheck, QuietInv, CalmInv, PortInv, StopAgrees, Stopping, RecordsAgree, Active, ActiveStates
<1>2. UNCHANGED entry /\ Reconciled = entry
  BY <1>1, NothingToReconcile DEF StopCheck, Building
<1>3. AtEase
  BY <1>1, QuietIsEase
<1>4. CASE /\ op' = [op EXCEPT !.pc = "cleanup", !.seen = Reconciled, !.loaded = state[op.me]]
           /\ UNCHANGED state
  <2>1. op'.pc = "cleanup" /\ op'.me = op.me
    BY <1>4 DEF QuietInv, CalmInv, PortInv, RegistryTypes
  <2>2. AtEase'
    BY <1>1, <1>2, <1>3, <1>4, EaseStays
  <2>3. Active(op.me)'
    BY <1>1, <1>4, <2>1 DEF Active
  <2>4. QED
    BY <2>1, <2>2, <2>3, EaseIsQuiet
<1>5. CASE /\ \E s \in Sessions \ {op.me} : Reconciled[s] = "live"
           /\ state' = [state EXCEPT ![op.me] = "stopped"] /\ Goto("mark")
  <2>1. op'.pc = "mark" /\ op'.me = op.me
    BY <1>5, GotoFields DEF QuietInv, CalmInv, PortInv
  <2>2. /\ \A s \in Sessions : s # op.me => state'[s] = state[s]
        /\ state'[op.me] = "stopped"
    BY <1>1, <1>5 DEF QuietInv, CalmInv, PortInv, RegistryTypes
  <2>3. \A s \in Sessions : Active(s)' => Active(s)
    BY <2>2 DEF Active, ActiveStates
  <2>4. \A p : Remembers(p)' = Remembers(p)
    BY <1>1, <1>2, SameMemory DEF identity
  <2>5. RecordsAgree'
    <3>1. \A s \in Sessions : entry'[s] = "live" => Active(s)' \/ s = op.me
      BY <1>2, <1>3, <2>2 DEF AtEase, Active
    <3>2. \A s \in Sessions : entry'[s] = "stopped" => state'[s] = "stopped"
      BY <1>2, <1>3, <2>2 DEF AtEase
    <3>3. QED
      BY <1>1, <1>3, <2>1, <2>2, <3>1, <3>2 DEF AtEase, RecordsAgree, CleaningUp
  <2>6. InOrder'
    BY <1>1, <1>3, <2>1 DEF AtEase, InOrder, identity, Starting, Building
  <2>7. PutOffForOthers'
    BY <1>2, <1>5, <2>1 DEF PutOffForOthers
  <2>8. Remembered'
    BY <1>3, <2>1, <2>4 DEF AtEase, Remembered, Taken, Starting, Building, Dismantled
  <2>9. OriginalsSaved'
    BY <1>1, <1>3, <2>1, <2>3 DEF AtEase, OriginalsSaved, identity, Starting, Building
  <2>10. QED
    BY <2>5, <2>6, <2>7, <2>8, <2>9 DEF Undisturbing
<1>6. QED
  BY <1>1, <1>4, <1>5 DEF StopCheck

LEMMA MarkQuiet == ASSUME QuietInv, MarkStopped PROVE Undisturbing'
<1>1. /\ op.pc = "mark" /\ op.me \in Sessions /\ UNCHANGED <<compose, state, identity, aux>> /\ state[op.me] = "stopped"
      /\ \E s \in Sessions : entry[s] = "live" /\ s # op.me
  BY DEF MarkStopped, QuietInv, CalmInv, PortInv, StopAgrees, Stopping, RecordsAgree, PutOffForOthers
<1>2. op'.pc = "idle" /\ op'.me = 0
  BY ReturnFields DEF MarkStopped
<1>3. /\ \A s \in Sessions : s # op.me => entry'[s] = entry[s]
      /\ entry'[op.me] # "live" /\ (entry'[op.me] = "none" <=> entry[op.me] = "none")
  BY <1>1 DEF MarkStopped, QuietInv, CalmInv, PortInv, RegistryTypes, Entries
<1>4. \A p : Known(p)' = Known(p)
  BY <1>1, <1>3 DEF Known, identity
<1>5. \A p \in Taken : Remembers(p)'
  BY <1>1, <1>4 DEF Remembers, identity, QuietInv, Remembered, Starting, Building, Dismantled
<1>6. AtEase'
  <2>1. \A s \in Sessions : (entry'[s] = "live" => Active(s)') /\ (entry'[s] = "stopped" => state'[s] = "stopped")
    BY <1>1, <1>3 DEF QuietInv, RecordsAgree, Active
  <2>2. \E s \in Sessions : entry'[s] = "live"
    BY <1>1, <1>3
  <2>3. \A s \in Sessions : Active(s)' => \A q \in Ports : q # port'[s] => managed'[s].fwd[q] = orig'[s].fwd[q]
    BY <1>1 DEF QuietInv, OriginalsSaved, Active, identity
  <2>4. QED
    BY <1>1, <1>5, <2>1, <2>2, <2>3 DEF AtEase, Taken, QuietInv, RecordsAgree, InOrder, identity
<1>7. QED
  BY <1>2, <1>6, EaseIsQuiet

\* What the cleanup writes is what the user had.
LEMMA CleanedIsTheUsers ==
  ASSUME QuietInv, op.pc = "cleanup", NEW p \in Taken
  PROVE  Cleaned.fwd[p] = InitFwd[p]
<1>1. p \in Ports /\ Remembers(p)
  BY DEF QuietInv, Remembered, Taken, Starting, Building, Dismantled
<1>2. op.seen = entry /\ op.want = port[op.me] /\ op.me \in Sessions /\ Active(op.me)
  BY DEF QuietInv, CalmInv, PortInv, StopAgrees, Stopping, CleaningUp, ServedInv, SeenIsRegistered, CallsAgree, RecordsAgree
<1>3. Owners(p) = Known(p)
  BY <1>2 DEF Owners, Known
<1>4. CASE Known(p) # {}
  <2>1. p \in Owned /\ p \in Targets
    BY <1>1, <1>3, <1>4 DEF Owned, Targets
  <2>2. Restored(p) = InitFwd[p]
    BY <1>1, <1>3, <1>4, <2>1 DEF Restored, Remembers
  <2>3. QED
    BY <1>1, <2>1, <2>2, CleanedRestores DEF QuietInv
<1>5. CASE Known(p) = {}
  <2>1. compose.fwd[p] = InitFwd[p]
    BY <1>1, <1>5 DEF Remembers
  <2>2. entry[op.me] # "none"
    BY <1>2 DEF QuietInv, CalmInv, PortInv, RegistryAgrees
  <2>3. p # op.want
    BY <1>2, <1>5, <2>2 DEF Known
  <2>4. p \notin Targets
    BY <1>3, <1>5, <2>3 DEF Targets, Owned
  <2>5. CASE ~ByteExact
    <3>1. Cleaned = Replace(compose, Targets)
      BY <2>5 DEF Cleaned
    <3>2. Replace(compose, Targets).fwd[p] = compose.fwd[p]
      BY <1>1, <2>4 DEF Replace, QuietInv, CalmInv, FileTypes, Compose
    <3>3. QED
      BY <2>1, <3>1, <3>2
  <2>6. CASE ByteExact
    <3>1. Cleaned = orig[op.me] /\ compose \in {managed[op.me], orig[op.me]}
      BY <2>6 DEF Cleaned, ByteExact
    <3>2. managed[op.me].fwd[p] = orig[op.me].fwd[p]
      BY <1>1, <1>2, <2>3 DEF QuietInv, OriginalsSaved
    <3>3. QED
      BY <2>1, <3>1, <3>2
  <2>7. QED
    BY <2>5, <2>6
<1>6. QED
  BY <1>4, <1>5

\* The rest of a stop changes at most its own record.
LEMMA StopStepQuiet ==
  ASSUME QuietInv, op.pc \in CleaningUp, op'.pc \in Dismantled, op'.me = op.me,
         UNCHANGED <<entry, identity, aux>>,
         UNCHANGED state \/ (op'.pc = "release" /\ state' = [state EXCEPT ![op.me] = "stopped"]),
         \A p \in Taken : compose'.fwd[p] = InitFwd[p]
  PROVE  Undisturbing'
<1>1. op.me \in Sessions /\ Active(op.me) /\ entry[op.me] = "live"
  BY DEF QuietInv, CalmInv, PortInv, StopAgrees, Stopping, RecordsAgree, RegistryAgrees
<1>2. /\ \A s \in Sessions : s # op.me => state'[s] = state[s]
      /\ op'.pc = "release" \/ state' = state
  BY DEF QuietInv, CalmInv, PortInv, RegistryTypes
<1>3. \A s \in Sessions : Active(s)' => Active(s)
  <2>1. ASSUME NEW s \in Sessions, Active(s)' PROVE Active(s)
    BY <1>1, <1>2, <2>1 DEF Active
  <2>2. QED
    BY <2>1
<1>4. RecordsAgree'
  <2>1. \A s \in Sessions : entry[s] = "live" => Active(s)' \/ (s = op.me /\ op'.pc = "release")
    BY <1>1, <1>2 DEF QuietInv, RecordsAgree, Active, CleaningUp, Building
  <2>2. \A s \in Sessions : entry[s] = "stopped" => state'[s] = "stopped"
    BY <1>1, <1>2 DEF QuietInv, RecordsAgree
  <2>3. op'.pc \in CleaningUp => Active(op.me)'
    BY <1>1, <1>2 DEF Active, CleaningUp
  <2>4. QED
    BY <2>1, <2>2, <2>3 DEF QuietInv, RecordsAgree, Dismantled, CleaningUp
<1>5. InOrder'
  BY DEF QuietInv, InOrder, identity, Starting, Building, Dismantled
<1>6. PutOffForOthers'
  BY DEF PutOffForOthers, Dismantled
<1>7. Remembered'
  BY DEF Remembered, Taken, Starting, Building, Dismantled
<1>8. OriginalsSaved'
  BY <1>3 DEF QuietInv, OriginalsSaved, identity, Starting, Building, Dismantled
<1>9. QED
  BY <1>4, <1>5, <1>6, <1>7, <1>8 DEF Undisturbing

\* A cleanup writes the user's forwarding, and the steps after it leave it alone.
LEMMA StopStepsQuiet ==
  ASSUME QuietInv, Cleanup \/ StopRecreate \/ StopVerify \/ Finish PROVE Undisturbing'
<1>1. CASE Cleanup
  <2>1. op.pc = "cleanup" /\ compose' = Cleaned /\ UNCHANGED <<entry, state, identity, aux>>
    BY <1>1 DEF Cleanup
  <2>2. op'.pc \in {"stopRecreate", "finish"} /\ op'.me = op.me
    <3>1. PICK label \in {"stopRecreate", "finish"} : op' = [op EXCEPT !.pc = label, !.previous = compose]
      BY <1>1 DEF Cleanup
    <3>2. QED
      BY <3>1 DEF QuietInv, CalmInv, PortInv, RegistryTypes
  <2>3. \A p \in Taken : compose'.fwd[p] = InitFwd[p]
    BY <2>1, CleanedIsTheUsers
  <2>4. QED
    BY <2>1, <2>2, <2>3, StopStepQuiet DEF CleaningUp, Dismantled
<1>2. CASE StopRecreate \/ StopVerify \/ Finish
  <2>1. /\ op.pc \in {"stopRecreate", "stopVerify", "finish"} /\ UNCHANGED <<compose, entry, identity, aux>>
        /\ \A p \in Taken : compose'.fwd[p] = InitFwd[p]
    BY <1>2 DEF StopRecreate, StopVerify, Finish, QuietInv, Remembered, Dismantled
  <2>2. PICK label \in {"stopVerify", "finish", "release"} :
          Goto(label) /\ (UNCHANGED state \/ (label = "release" /\ state' = [state EXCEPT ![op.me] = "stopped"]))
    BY <1>2 DEF StopRecreate, StopVerify, Finish
  <2>3. op'.pc = label /\ op'.me = op.me
    BY <2>2, GotoFields DEF QuietInv, CalmInv, PortInv
  <2>4. QED
    BY <2>1, <2>2, <2>3, StopStepQuiet DEF CleaningUp, Dismantled
<1>3. QED
  BY <1>1, <1>2

LEMMA ReleaseQuiet == ASSUME QuietInv, Release PROVE Undisturbing'
<1>1. op.pc = "release" /\ UNCHANGED <<compose, state, identity, aux>>
  BY DEF Release
<1>2. op'.pc = "idle" /\ op'.me = 0
  BY ReturnFields DEF Release
<1>3. \A s \in Sessions : entry'[s] = "none"
  BY NobodyStays DEF QuietInv
<1>4. ASSUME NEW p \in Taken PROVE Remembers(p)'
  <2>1. Known(p)' = {}
    BY <1>3 DEF Known
  <2>2. QED
    BY <1>1, <2>1 DEF Remembers, QuietInv, Remembered, Dismantled
<1>5. AtEase'
  BY <1>1, <1>3, <1>4 DEF AtEase, Taken, QuietInv, RecordsAgree, InOrder, OriginalsSaved, Active, identity
<1>6. QED
  BY <1>2, <1>5, EaseIsQuiet

\* Readers and the user change nothing that is remembered.
LEMMA OthersQuiet ==
  ASSUME QuietInv, UNCHANGED <<entry, state, identity, op>>, compose'.fwd = compose.fwd,
         \A r \in Readers : aux'[r].kind # "forget"
  PROVE  Undisturbing'
<1>1. \A p : Remembers(p)' = Remembers(p) /\ Known(p)' = Known(p)
  BY SameMemory DEF identity
<1>2. \A p : WillRemember(p)' = WillRemember(p)
  BY <1>1 DEF WillRemember, Others, identity
<1>3. RecordsAgree' /\ InOrder' /\ PutOffForOthers' /\ OriginalsSaved'
  BY DEF QuietInv, RecordsAgree, InOrder, PutOffForOthers, OriginalsSaved, Active, identity
<1>4. Remembered'
  BY <1>1, <1>2 DEF QuietInv, Remembered, Taken, identity
<1>5. QED
  BY <1>3, <1>4 DEF Undisturbing

\* Readers bring entries in line and forget nothing.
LEMMA ReaderQuiet == ASSUME QuietInv, Undisturbed, NEW r \in Readers, Read(r) PROVE Undisturbing'
<1>1. CASE Write(r)
  <2>1. PICK st \in ActiveStates : state' = [state EXCEPT ![aux[r].s] = st]
    BY <1>1 DEF Write, RefreshStates, ActiveStates
  <2>2. aux[r].s \in Sessions /\ entry[aux[r].s] = "live" /\ op.pc = "idle" /\ UNCHANGED <<compose, entry, identity, op>>
    BY <1>1 DEF Write, QuietInv, CalmInv, PortInv, ReadersAgree
  <2>3. AtEase
    BY <2>2, QuietIsEase
  <2>4. \A s \in Sessions : (Active(s)' <=> Active(s)) /\ (s # aux[r].s => state'[s] = state[s])
    BY <2>1, <2>2, <2>3 DEF AtEase, Active, QuietInv, CalmInv, PortInv, RegistryTypes
  <2>5. \A p : Remembers(p)' = Remembers(p)
    BY <2>2, SameMemory DEF identity
  <2>6. \A q \in Readers : aux'[q].kind # "forget"
    BY <1>1, <2>3 DEF Write, AtEase, NoAux, QuietInv, CalmInv, PortInv, RegistryTypes
  <2>7. AtEase'
    BY <2>2, <2>3, <2>4, <2>5, <2>6 DEF AtEase, Taken, identity
  <2>8. QED
    BY <2>2, <2>7, EaseIsQuiet DEF QuietInv, RecordsAgree
<1>2. CASE \E s \in Sessions : Load(r, s)
  <2>1. \A q \in Readers : aux'[q].kind # "forget"
    BY <1>2 DEF Load, QuietInv, RecordsAgree, CalmInv, PortInv, RegistryTypes
  <2>2. QED
    BY <1>2, <2>1, OthersQuiet DEF Load
<1>3. CASE Quit(r)
  <2>1. \A q \in Readers : aux'[q].kind # "forget"
    BY <1>3 DEF Quit, NoAux, QuietInv, RecordsAgree, CalmInv, PortInv, RegistryTypes
  <2>2. QED
    BY <1>3, <2>1, OthersQuiet DEF Quit
<1>4. ~ForgetRename(r) /\ \A s \in Sessions : ~ForgetCheck(r, s)
  BY DEF ForgetRename, ForgetCheck, Undisturbed, QuietInv, RecordsAgree
<1>5. QED
  BY <1>1, <1>2, <1>3, <1>4 DEF Read

-----------------------------------------------------------------------------
\* Every step keeps the third invariant.
LEMMA QuietStep == ASSUME QuietInv, CalmInv', Undisturbed, [Next]_vars PROVE Undisturbing'
<1>1. ASSUME NEW k \in {"start", "prepare"}, NEW p \in Ports, NEW c \in Caches, Request(k, p, c) PROVE Undisturbing'
  BY <1>1, RequestQuiet
<1>2. ASSUME NEW s \in Sessions, StopRequest(s) PROVE Undisturbing'
  BY <1>2, StopRequestQuiet
<1>3. CASE Refuse
  <2>1. op.pc \in {"create", "refresh", "stop"} /\ UNCHANGED <<compose, entry, state, identity, aux>>
    BY <1>3 DEF Refuse
  <2>2. AtEase'
    BY <2>1, QuietIsEase, EaseStays
  <2>3. QED
    BY <1>3, <2>2, ReturnFields, EaseIsQuiet DEF Refuse
<1>4. CASE RecreateFails \/ StartFails \/ StopRecreateFails \/ StopFails \/ Crash \/ Rollback \/ StopVerifyFails \/ Fold
  BY <1>4 DEF Undisturbed, Calm, RecreateFails, StartFails, StopRecreateFails, StopFails, Crash, Rollback,
     StopVerifyFails, Fold, QuietInv, PutOffForOthers, CalmInv, ServedInv, Mirrored
<1>5. CASE Check \/ Baseline \/ Reserve \/ Ensure \/ Recreate \/ Verify \/ VerifyFails \/ Record \/ Refresh \/ Undo
  BY <1>5, CheckQuiet, BaselineQuiet, ReserveQuiet, EnsureQuiet, RecreateQuiet, VerifyQuiet, RecordQuiet, RefreshQuiet,
     UndoQuiet
<1>6. CASE StopCheck \/ MarkStopped \/ Cleanup \/ StopRecreate \/ StopVerify \/ Finish \/ Release
  BY <1>6, StopCheckQuiet, MarkQuiet, StopStepsQuiet, ReleaseQuiet
<1>7. ASSUME NEW r \in Readers, Read(r) PROVE Undisturbing'
  BY <1>7, ReaderQuiet
<1>8. CASE Edit \/ UNCHANGED vars
  <2>1. UNCHANGED <<entry, state, identity, op, aux>> /\ compose'.fwd = compose.fwd
    BY <1>8 DEF Edit, vars, QuietInv, CalmInv, FileTypes, Compose
  <2>2. QED
    BY <2>1, OthersQuiet DEF QuietInv, RecordsAgree
<1>9. QED
  BY <1>1, <1>2, <1>3, <1>4, <1>5, <1>6, <1>7, <1>8 DEF Next, Start, Stop

\* At rest nobody is registered, so the file is the user's, and the VM is the file's.
LEMMA RestIsTheUsers == QuietInv => VmIsSharedSafely
<1> SUFFICES ASSUME QuietInv PROVE LeftAsFound
  BY ActiveAreServed DEF VmIsSharedSafely, QuietInv
<1>1. UserForwardingRestored
  <2> SUFFICES ASSUME AtRest, NEW p \in Ports, InitFwd[p] # Expected PROVE compose.fwd[p] = InitFwd[p]
    BY DEF UserForwardingRestored
  <2>1. p \in Taken /\ op.pc = "idle"
    BY DEF Taken, AtRest
  <2>2. Known(p) = {}
    BY DEF AtRest, Known
  <2>3. Remembers(p)
    BY <2>1 DEF QuietInv, Remembered, Starting, Building, Dismantled
  <2>4. QED
    BY <2>2, <2>3 DEF Remembers
<1>2. VmMatchesFile
  BY DEF VmMatchesFile, AtRest, QuietInv, CalmInv, ServedInv, Mirrored, Settled
<1>3. QED
  BY <1>1, <1>2 DEF LeftAsFound

\* An entry whose cleanup was put off goes when the last session of the VM does.
LEMMA PutOffAreCleaned ==
  ASSUME QuietInv, Undisturbed, [Next]_vars, NEW s \in Sessions,
         entry[s] = "stopped", entry'[s] = "none", compose'.fwd[port[s]] = Expected
  PROVE  InitFwd[port[s]] = Expected
<1>1. state[s] = "stopped" /\ port[s] \in Ports
  BY DEF QuietInv, RecordsAgree, CalmInv, PortInv, RegistryTypes, RegistryAgrees
<1>2. CASE Release
  BY <1>1, <1>2 DEF Release, QuietInv, Remembered, Dismantled, Taken
<1>3. CASE Reserve
  <2>1. Reconciled = entry
    BY <1>3, NothingToReconcile DEF Reserve, Building
  <2>2. op.me # s
    BY <1>1, <1>3 DEF Reserve, QuietInv, CalmInv, PortInv, StartAgrees, Starting
  <2>3. QED
    BY <1>3, <2>1, <2>2 DEF Reserve, QuietInv, CalmInv, PortInv, RegistryTypes, Entries
<1>4. CASE Undo
  <2>1. op.me # s
    BY <1>1, <1>4 DEF Undo, QuietInv, CalmInv, PortInv, StartAgrees, Starting
  <2>2. QED
    BY <1>4, <2>1 DEF Undo, QuietInv, CalmInv, PortInv, RegistryTypes, Entries
<1>5. CASE MarkStopped
  BY <1>5 DEF MarkStopped, QuietInv, CalmInv, PortInv, RegistryTypes, Entries
<1>6. ASSUME op.pc \in {"idle", "create", "stop"}, entry' = Reconciled PROVE FALSE
  BY <1>6, NothingToReconcile DEF Building
<1>7. CASE Check \/ StopCheck \/ \E k \in {"start", "prepare"}, p \in Ports, c \in Caches : Request(k, p, c)
  BY <1>6, <1>7 DEF Check, StopCheck, Request, LeaseFree
<1>8. CASE Fold
  BY <1>8 DEF Fold, QuietInv, PutOffForOthers
<1>9. CASE UNCHANGED entry
  BY <1>9
<1>10. ASSUME NEW r \in Readers, Read(r) PROVE UNCHANGED entry
  BY <1>10 DEF Read, Load, Write, ForgetCheck, ForgetRename, Quit
<1>11. ASSUME Start, ~Check, ~Reserve, ~Undo, ~Fold PROVE UNCHANGED entry
  BY <1>11 DEF Start, Baseline, Ensure, Recreate, RecreateFails, Verify, VerifyFails, Rollback, Record, Refresh,
     StartFails
<1>12. ASSUME Stop, ~StopCheck, ~MarkStopped, ~Release PROVE UNCHANGED entry
  BY <1>12 DEF Stop, Cleanup, StopRecreate, StopRecreateFails, StopVerify, StopVerifyFails, Finish, StopFails
<1>13. ASSUME (\E t \in Sessions : StopRequest(t)) \/ Refuse \/ Crash \/ Edit \/ UNCHANGED vars PROVE UNCHANGED entry
  BY <1>13 DEF StopRequest, Refuse, Crash, Edit, vars
<1>14. QED
  BY <1>2, <1>3, <1>4, <1>5, <1>7, <1>8, <1>9, <1>10, <1>11, <1>12, <1>13 DEF Next

\* So it holds of every run.
LEMMA QuietHolds == ASSUME Undisturbed PROVE Spec => []QuietInv
<1>1. Init => QuietInv
  BY PortInit, FileInit, ServedInit, UndisturbedInit DEF QuietInv, CalmInv, Undisturbing
<1>2. QuietInv /\ [Next]_vars => QuietInv'
  <2> SUFFICES ASSUME QuietInv, [Next]_vars PROVE QuietInv'
    OBVIOUS
  <2>1. CalmInv'
    BY CalmStep DEF QuietInv, Undisturbed
  <2>2. QED
    BY <2>1, QuietStep DEF QuietInv, Undisturbing
<1>3. QED
  BY <1>1, <1>2, PTL DEF Spec

\* Where, besides, no record is forgotten and no stop is repeated, the VM is shared safely:
\* sessions are served, and with nobody registered or active every port that Mendimaru took
\* over forwards what the user had, in the Compose file and in the VM, whatever the user edits
\* meanwhile.
THEOREM SharedSafely ==
  ASSUME Undisturbed PROVE Spec => []VmIsSharedSafely
  BY QuietHolds, RestIsTheUsers, PTL

\* Under the same conditions, when the registry forgets a stopped session whose forwarding was
\* left for the sake of others, the forwarding is gone, was the user's, or is another session's.
THEOREM PutOffForwardingGoes ==
  ASSUME Undisturbed PROVE Spec => DeferredForwardingRemoved
<1>1. QuietInv /\ [Next]_vars =>
        [\A s \in Sessions :
           entry[s] = "stopped" /\ entry'[s] = "none" /\ compose'.fwd[port[s]] = Expected =>
             \/ InitFwd[port[s]] = Expected
             \/ \E t \in Sessions : entry'[t] # "none" /\ port[t] = port[s]]_vars
  BY PutOffAreCleaned
<1>2. QED
  BY <1>1, QuietHolds, PTL DEF Spec, DeferredForwardingRemoved
=============================================================================

--------------------------- MODULE RuntimeOwnership ---------------------------
(***************************************************************************)
(* What the Runtime commands of one VM promise each other: a guest port    *)
(* has at most one owner, the VM forwards a port as Mendimaru needs it     *)
(* when the port is claimed, and the VM is recreated only while no port    *)
(* has an owner but one that is leaving.                                   *)
(***************************************************************************)
CONSTANTS Ports, Sessions,
          Free,         \* the owner of a port nobody owns
          Forwarding,   \* what a port may forward
          Expected      \* what an owner needs

VARIABLES owner,        \* the session that owns a port
          leaving,      \* the session that is being stopped, if any
          running       \* what the running VM forwards

vars == <<owner, leaving, running>>

Init == /\ owner = [p \in Ports |-> Free]
        /\ leaving = {}
        /\ running \in [Ports -> Forwarding]

Leave(s) == leaving = {} /\ leaving' = {s} /\ UNCHANGED <<owner, running>>

Left == leaving' = {} /\ UNCHANGED <<owner, running>>

Claim(p, s) ==
  /\ owner[p] = Free /\ running[p] = Expected
  /\ owner' = [owner EXCEPT ![p] = s]
  /\ UNCHANGED <<leaving, running>>

Release(p) ==
  /\ owner[p] # Free
  /\ owner' = [owner EXCEPT ![p] = Free]
  /\ UNCHANGED <<leaving, running>>

\* Recreating the VM ends what others run on it.
Restart ==
  /\ \A p \in Ports : owner[p] \in leaving \cup {Free}
  /\ running' \in [Ports -> Forwarding]
  /\ UNCHANGED <<owner, leaving>>

Next == \/ \E p \in Ports, s \in Sessions : Claim(p, s)
        \/ \E p \in Ports : Release(p)
        \/ \E s \in Sessions : Leave(s)
        \/ Left
        \/ Restart

Spec == Init /\ [][Next]_vars
=============================================================================

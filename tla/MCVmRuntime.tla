----------------------------- MODULE MCVmRuntime -----------------------------
(***************************************************************************)
(* Small instances of VmRuntime.  UserOnFirst has a mapping of the user's  *)
(* on port 1, Prepared the very mapping Mendimaru uses on port 2 as well.  *)
(* A prepared port is what lets a second session start next to a first.    *)
(***************************************************************************)
EXTENDS VmRuntime, TLC

TwoPorts == {1, 2}
\* Caches are alike: the one that stands for none (SomeCache) is never looked at.
MCSymmetry == Permutations(Caches)
OnePort == {1}
UserOnFirst == [p \in Ports |-> IF p = 1 THEN {"user"} ELSE {}]
Prepared == [p \in Ports |-> IF p = 1 THEN {"user"} ELSE Expected]
OnlyPrepared == [p \in Ports |-> Expected]
=============================================================================

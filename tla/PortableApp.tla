----------------------------- MODULE PortableApp -------------------------------
(***************************************************************************)
(* A portable Runtime: the package it is built into (PortableBuild) and    *)
(* the session that runs it (PortableRuntime), which share no state.       *)
(***************************************************************************)
EXTENDS PortableRuntime, PortableBuild

\* What was asked for is what the portable Runtime starts, and its end leaves nothing.
PortableIsKept == EndIsTheEnd /\ StartsWhatWasAsked
=============================================================================

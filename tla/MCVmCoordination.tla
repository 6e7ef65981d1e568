--------------------------- MODULE MCVmCoordination ---------------------------
(* Two processes of the current version and one of an older version. *)
EXTENDS VmCoordination, TLC

CONSTANTS p1, p2, old

MCProcs == {p1, p2}
MCOldProcs == {old}
MCVMs == {1, 2}
=============================================================================

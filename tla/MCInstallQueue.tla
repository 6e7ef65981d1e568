---------------------------- MODULE MCInstallQueue ----------------------------
(* Small instances of InstallQueue. *)
EXTENDS InstallQueue, TLC

CONSTANTS c1, c2, w1, w2

MCClients == {c1, c2}
MCOneClient == {c1}
MCWorkers == {w1, w2}
MCSymmetry == Permutations(MCClients) \cup Permutations(MCWorkers)
=============================================================================

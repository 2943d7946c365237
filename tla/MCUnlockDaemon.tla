--------------------------- MODULE MCUnlockDaemon ---------------------------
(* Instances of UnlockDaemon for TLC. *)
EXTENDS UnlockDaemon, TLC

Symmetry == Permutations(Clients) \cup Permutations(Daemons)
=============================================================================

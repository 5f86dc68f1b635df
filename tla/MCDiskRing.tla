----------------------------- MODULE MCDiskRing -----------------------------
(* A task that creates two others, which read from the disk. *)
EXTENDS DiskRing, TLC

CONSTANT main

MCMain == << main >>
Perms == Permutations(Clients)

\* Constraint: as far as OneStep says anything.
NotTorn == ~torn
=============================================================================

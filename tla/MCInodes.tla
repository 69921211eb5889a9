------------------------------ MODULE MCInodes ------------------------------
(* The instances of Inodes that TLC checks. *)
EXTENDS Inodes, TLC

\* One direct zone, one through a single indirect block.
TwoWays == <<1, 2>>

Perms == Permutations(Procs)
=============================================================================

--------------------------- MODULE MCBufferCache ---------------------------
(***************************************************************************)
(* Model-checking instances of BufferCache.                                *)
(***************************************************************************)
EXTENDS BufferCache, TLC

CONSTANTS k1, k2, k3

\* k1 and k2 on one device, k3 on another.
Devices == (k1 :> 1) @@ (k2 :> 1) @@ (k3 :> 2)
OneDevice == [k \in Blocks |-> 1]

\* breada asks for the next block of the device.
NextBlock == [k \in Blocks |-> IF k = k1 THEN <<k2>> ELSE <<>>]
NoAhead == [k \in Blocks |-> <<>>]

\* The inodes are stored in k2.
InodeBlocks == [i \in Inodes |-> k2]

Symmetry == Permutations(Tasks)
=============================================================================

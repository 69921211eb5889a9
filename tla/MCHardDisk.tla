----------------------------- MODULE MCHardDisk -----------------------------
(* The instances of HardDisk that TLC checks. *)
EXTENDS HardDisk

\* Two partitions of a drive with two heads and three sectors a track.
Starts == <<1, 6>>
Sizes == <<5, 3>>
Block(d, s) == [dev |-> d, sector |-> s]

\* Two blocks of the first partition, the second its last one; one block of
\* the second partition, and one beyond its end.
FourBlocks == {Block(1, 0), Block(1, 3), Block(2, 0), Block(2, 2)}
=============================================================================

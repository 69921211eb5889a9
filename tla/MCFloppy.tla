------------------------------ MODULE MCFloppy ------------------------------
(* The instance of Floppy that TLC checks. *)
EXTENDS Floppy

Block(c, d, s) == [cmd |-> c, dev |-> d, sector |-> s]

\* Two drives; diskettes of three cylinders of two sectors.  A block on the
\* first cylinder of one drive, one on the second cylinder of the other, and
\* one beyond the end.
ThreeBlocks == {Block(READ, 0, 0), Block(WRITE, 1, 2), Block(READ, 1, 6)}
=============================================================================

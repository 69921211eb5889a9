---------------------------- MODULE MCBlockQueue ----------------------------
(***************************************************************************)
(* Model-checking instances of BlockQueue.                                 *)
(***************************************************************************)
EXTENDS BlockQueue

Block(m, d, s) == [major |-> m, dev |-> d, sector |-> s]

\* Two blocks of a hard disk and one of a floppy.
TwoDisks == {Block(3, 1, 1), Block(3, 1, 2), Block(2, 1, 1)}
=============================================================================

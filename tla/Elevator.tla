------------------------------ MODULE Elevator ------------------------------
(***************************************************************************)
(* The order in which add_request (kernel/blk_drv/ll_rw_blk.c) links       *)
(* requests into a device's list.  Of a request only its command, device   *)
(* and sector matter.                                                      *)
(***************************************************************************)
EXTENDS Integers, Sequences

READ == 0
WRITE == 1

\* The order of the elevator: reads before writes, then device, then sector.
IN_ORDER(r1, r2) ==
    \/ r1.cmd < r2.cmd
    \/ /\ r1.cmd = r2.cmd
       /\ \/ r1.dev < r2.dev
          \/ r1.dev = r2.dev /\ r1.sector < r2.sector

\* Mutant: only one half of the loop's test.
Fits_NoNext(x, r, y) == IN_ORDER(x, r) \/ ~IN_ORDER(x, y)

\* The test of add_request's loop: r may go between x and its successor y.
Fits(x, r, y) == (IN_ORDER(x, r) \/ ~IN_ORDER(x, y)) /\ IN_ORDER(r, y)

\* The position of the request after which add_request links r into the
\* non-empty list q of requests: the first where it fits, or the last.
ElevatorPosition(q, r) ==
    LET fits == {i \in 1 .. Len(q) - 1 : Fits(q[i], r, q[i + 1])}
    IN  IF fits = {} THEN Len(q) ELSE CHOOSE i \in fits : \A j \in fits : i <= j

InsertAfter(q, i, x) == SubSeq(q, 1, i) \o <<x>> \o SubSeq(q, i + 1, Len(q))
=============================================================================

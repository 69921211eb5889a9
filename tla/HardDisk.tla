------------------------------ MODULE HardDisk ------------------------------
(***************************************************************************)
(* The hard-disk driver kernel/blk_drv/hd.c with the elevator that feeds   *)
(* it: do_hd_request and the interrupt handlers read_intr, write_intr and  *)
(* recal_intr, retries, reset and recalibration.                           *)
(*                                                                         *)
(* A block is two sectors.  hd_interrupt runs with interrupts off, and     *)
(* add_request calls do_hd_request only when nothing is outstanding, so    *)
(* `drv` marks a do_hd_request in progress and nothing comes in between.   *)
(* The controller (external) does one command at a time: it interrupts     *)
(* after every sector of a transfer and after WIN_SPECIFY and WIN_RESTORE, *)
(* with a status that is good or not; with a bad one the command is over.  *)
(* An interrupt that comes for a command the driver has given up (no DRQ)  *)
(* is left out.                                                            *)
(***************************************************************************)
EXTENDS Elevator, FiniteSets

CONSTANTS
    Blocks,         \* the buffers' blocks: [dev, sector], dev a minor number
    start_sect,     \* hd[dev].start_sect
    nr_sects,       \* hd[dev].nr_sects
    Sect, Head_,    \* hd_info[].sect and .head of the drive
    MAX_ERRORS, NULL

Devs == DOMAIN start_sect

ASSUME HardDiskConstants ==
    /\ Blocks \subseteq [dev : Nat, sector : Nat]
    /\ start_sect \in [Devs -> Nat] /\ nr_sects \in [Devs -> Nat]
    /\ Sect \in Nat \ {0} /\ Head_ \in Nat \ {0} /\ MAX_ERRORS \in Nat \ {0}

VARIABLES
    queue,      \* the list blk_dev[3].current_request; CURRENT is its head
    do_hd,      \* the handler of the next interrupt
    reset, recalibrate,
    drv,        \* a call of do_hd_request is in progress
    ctl,        \* the command the controller is doing
    same,       \* the <<b, i>> such that half i of the buffer of b is on the disk
                \* where it belongs: the data, as far as it matters
    lock, uptodate   \* b_lock, b_uptodate

vars == <<queue, do_hd, reset, recalibrate, drv, ctl, same, lock, uptodate>>

Halves == 1 .. 2
Quiet == [cmd |-> "none", lba |-> 0, left |-> 0]

TypeOK ==
    /\ \A i \in DOMAIN queue : /\ queue[i].cmd \in {READ, WRITE} /\ queue[i].bh \in Blocks
                               /\ queue[i].nr \in 1 .. 2 /\ queue[i].errors \in 0 .. MAX_ERRORS
    /\ do_hd \in {NULL, "read_intr", "write_intr", "recal_intr"}
    /\ reset \in BOOLEAN /\ recalibrate \in BOOLEAN /\ drv \in BOOLEAN
    /\ ctl.cmd \in {"none", "read", "write", "specify", "restore"}
    /\ same \subseteq Blocks \X Halves
    /\ lock \in [Blocks -> BOOLEAN] /\ uptodate \in [Blocks -> BOOLEAN]

Init ==
    /\ queue = <<>> /\ do_hd = NULL /\ reset = FALSE /\ recalibrate = FALSE /\ drv = FALSE
    /\ ctl = Quiet
    /\ same = {}
    /\ lock = [b \in Blocks |-> FALSE] /\ uptodate = [b \in Blocks |-> FALSE]

-----------------------------------------------------------------------------
\* make_request: bh->b_blocknr<<1, two sectors, no errors.
Request(cmd, b) == [cmd |-> cmd, dev |-> b.dev, sector |-> b.sector, nr |-> 2, errors |-> 0, bh |-> b]

\* add_request; the caller holds the lock of the buffer, which it has filled
\* anew for a write, or which holds anything for a read.
Submit(b, cmd) ==
    LET r == Request(cmd, b) IN
    /\ ~drv /\ ~lock[b]
    /\ lock' = [lock EXCEPT ![b] = TRUE]
    /\ same' = same \ ({b} \X Halves)
    /\ IF queue = <<>>
       THEN queue' = <<r>> /\ drv' = TRUE
       ELSE queue' = InsertAfter(queue, ElevatorPosition(queue, r), r) /\ UNCHANGED drv
    /\ UNCHANGED <<do_hd, reset, recalibrate, ctl, uptodate>>

\* The divisions of do_hd_request, and the sector the controller makes of it.
Chs(block) ==
    LET track == block \div Sect IN
    [sec |-> (block % Sect) + 1, head |-> track % Head_, cyl |-> track \div Head_]
Address(c) == (c.cyl * Head_ + c.head) * Sect + c.sec - 1

CURRENT == Head(queue)

\* end_request(ok) of CURRENT in the list q.
Ended(q, ok) ==
    /\ queue' = Tail(q)
    /\ lock' = [lock EXCEPT ![Head(q).bh] = FALSE]
    /\ uptodate' = [uptodate EXCEPT ![Head(q).bh] = ok]

\* Mutant: the errors of a request are not counted.
bad_rw_intr_NoCount ==
    /\ reset' = (reset \/ CURRENT.errors > MAX_ERRORS \div 2)
    /\ UNCHANGED <<queue, lock, uptodate>>

\* bad_rw_intr.  After end_request CURRENT is the next request, or NULL: then
\* the word at address 8 is read for its error count.
bad_rw_intr ==
    LET q == [queue EXCEPT ![1].errors = @ + 1] IN
    /\ IF q[1].errors >= MAX_ERRORS
       THEN /\ Ended(q, FALSE)
            /\ IF Len(q) = 1 THEN reset' \in {reset, TRUE}
               ELSE reset' = (reset \/ q[2].errors > MAX_ERRORS \div 2)
       ELSE /\ queue' = q
            /\ reset' = (reset \/ q[1].errors > MAX_ERRORS \div 2)
            /\ UNCHANGED <<lock, uptodate>>

\* hd_out: the handler and the command.
hd_out(cmd, lba, n, handler) ==
    /\ do_hd' = handler
    /\ ctl' = [cmd |-> cmd, lba |-> lba, left |-> n]

\* Where half i of block b belongs.
Sector(b, i) == start_sect[b.dev] + b.sector + i - 1

\* The half of the buffer that is next: CURRENT->buffer.
Half == 3 - CURRENT.nr

-----------------------------------------------------------------------------
\* do_hd_request, CURRENT beyond the end of its partition: end_request(0).
Reject ==
    /\ drv /\ queue # <<>>
    /\ CURRENT.dev \notin Devs \/ CURRENT.sector + 2 > nr_sects[CURRENT.dev]
    /\ Ended(queue, FALSE)
    /\ UNCHANGED <<do_hd, reset, recalibrate, drv, ctl, same>>

Accepted == drv /\ queue # <<>> /\ CURRENT.dev \in Devs
               /\ CURRENT.sector + 2 <= nr_sects[CURRENT.dev]

Lba == Address(Chs(CURRENT.sector + start_sect[CURRENT.dev]))

\* Nothing (more) to do.
NoWork ==
    /\ drv /\ queue = <<>>
    /\ drv' = FALSE
    /\ UNCHANGED <<queue, do_hd, reset, recalibrate, ctl, same, lock, uptodate>>

\* reset_hd, then recalibrate.
Reset ==
    /\ Accepted /\ reset
    /\ reset' = FALSE /\ recalibrate' = TRUE
    /\ hd_out("specify", 0, 0, "recal_intr")
    /\ drv' = FALSE
    /\ UNCHANGED <<queue, same, lock, uptodate>>

Recalibrate ==
    /\ Accepted /\ ~reset /\ recalibrate
    /\ recalibrate' = FALSE
    /\ hd_out("restore", 0, 0, "recal_intr")
    /\ drv' = FALSE
    /\ UNCHANGED <<queue, reset, same, lock, uptodate>>

Read ==
    /\ Accepted /\ ~reset /\ ~recalibrate /\ CURRENT.cmd = READ
    /\ hd_out("read", Lba, CURRENT.nr, "read_intr")
    /\ drv' = FALSE
    /\ UNCHANGED <<queue, reset, recalibrate, same, lock, uptodate>>

\* WIN_WRITE: the controller asks for data, and gets the first sector; or it
\* does not, bad_rw_intr, and do_hd_request goes on from the start.
Write ==
    /\ Accepted /\ ~reset /\ ~recalibrate /\ CURRENT.cmd = WRITE
    /\ \/ /\ hd_out("write", Lba, CURRENT.nr, "write_intr")
          /\ drv' = FALSE
          /\ UNCHANGED <<queue, lock, uptodate, reset>>
       \/ /\ bad_rw_intr
          /\ do_hd' = "write_intr"
          /\ UNCHANGED <<drv, ctl>>
    /\ UNCHANGED <<recalibrate, same>>

-----------------------------------------------------------------------------
\* Any handler that finds an error: win_result() # 0.
IntrError ==
    /\ ~drv /\ ctl # Quiet
    /\ do_hd' = NULL /\ ctl' = Quiet /\ drv' = TRUE
    /\ bad_rw_intr
    /\ UNCHANGED <<recalibrate, same>>

\* Mutant: the sector number is not moved on.
NextSector_Same(q, clear) ==
    LET r == q[1] IN
    [q EXCEPT ![1] = [r EXCEPT !.nr = @ - 1, !.errors = IF clear THEN 0 ELSE @]]

\* The list after one more good sector.
NextSector(q, clear) ==
    LET r == q[1] IN
    [q EXCEPT ![1] = [r EXCEPT !.sector = @ + 1, !.nr = @ - 1,
                               !.errors = IF clear THEN 0 ELSE @]]

\* read_intr: a sector into the buffer; the last one ends the request.
ReadIntr ==
    LET q == NextSector(queue, TRUE) IN
    /\ ~drv /\ ctl.cmd = "read" /\ do_hd = "read_intr"
    /\ same' = IF ctl.lba = Sector(CURRENT.bh, Half) THEN same \cup {<<CURRENT.bh, Half>>}
               ELSE same \ {<<CURRENT.bh, Half>>}
    /\ IF q[1].nr > 0
       THEN /\ queue' = q /\ do_hd' = "read_intr"
            /\ ctl' = [ctl EXCEPT !.lba = @ + 1, !.left = @ - 1]
            /\ UNCHANGED <<drv, lock, uptodate>>
       ELSE /\ Ended(q, TRUE)
            /\ do_hd' = NULL /\ ctl' = Quiet /\ drv' = TRUE
    /\ UNCHANGED <<reset, recalibrate>>

\* write_intr: the sector is on the disk; the next one, or the end.
WriteIntr ==
    LET q == NextSector(queue, FALSE) IN
    /\ ~drv /\ ctl.cmd = "write" /\ do_hd = "write_intr"
    /\ same' = (same \ {x \in same : Sector(x[1], x[2]) = ctl.lba})
                 \cup {x \in {<<CURRENT.bh, Half>>} : Sector(x[1], x[2]) = ctl.lba}
    /\ IF q[1].nr > 0
       THEN /\ queue' = q /\ do_hd' = "write_intr"
            /\ ctl' = [ctl EXCEPT !.lba = @ + 1, !.left = @ - 1]
            /\ UNCHANGED <<drv, lock, uptodate>>
       ELSE /\ Ended(q, TRUE)
            /\ do_hd' = NULL /\ ctl' = Quiet /\ drv' = TRUE
    /\ UNCHANGED <<reset, recalibrate>>

\* Mutant: recal_intr does not start the request again.
RecalIntr_NoRequest ==
    /\ ~drv /\ ctl.cmd \in {"specify", "restore"} /\ do_hd = "recal_intr"
    /\ do_hd' = NULL /\ ctl' = Quiet
    /\ UNCHANGED <<drv, queue, reset, recalibrate, same, lock, uptodate>>

RecalIntr ==
    /\ ~drv /\ ctl.cmd \in {"specify", "restore"} /\ do_hd = "recal_intr"
    /\ do_hd' = NULL /\ ctl' = Quiet /\ drv' = TRUE
    /\ UNCHANGED <<queue, reset, recalibrate, same, lock, uptodate>>

DoHdRequest == Reject \/ NoWork \/ Reset \/ Recalibrate \/ Read \/ Write
Interrupt == IntrError \/ ReadIntr \/ WriteIntr \/ RecalIntr

Next ==
    \/ \E b \in Blocks, cmd \in {READ, WRITE} : Submit(b, cmd)
    \/ DoHdRequest \/ Interrupt

\* The driver runs, and the controller answers every command.
Spec == Init /\ [][Next]_vars /\ WF_vars(DoHdRequest) /\ WF_vars(Interrupt)

-----------------------------------------------------------------------------
\* As long as requests are queued the driver is at work or has a command at
\* the controller whose handler is in place; with none it has given no command:
\* no request is forgotten, no interrupt is unexpected, and no second command
\* is given while one is under way (and everything is of its type).
Outstanding ==
    /\ TypeOK
    /\ ctl # Quiet => /\ queue # <<>> /\ ~drv
                      /\ do_hd = CASE ctl.cmd = "read" -> "read_intr"
                                   [] ctl.cmd = "write" -> "write_intr"
                                   [] OTHER -> "recal_intr"
    /\ queue # <<>> => drv \/ ctl # Quiet
    /\ \A b \in Blocks : lock[b] <=> \E i \in DOMAIN queue : queue[i].bh = b

\* A request that ends well, after however many errors and retries, has moved
\* both sectors of its block and none of another: a read buffer holds what is
\* on the disk, and a write has put the buffer there.
Transferred ==
    [][\A b \in Blocks : lock[b] /\ ~lock'[b] /\ uptodate'[b] => {b} \X Halves \subseteq same']_vars

\* The list behind the request being served is at most two sweeps of the head,
\* each in the order of the elevator.
OneSweep ==
    \E d \in 0 .. Len(queue) :
        \A i, j \in DOMAIN queue :
            i < j /\ (j <= d \/ d < i) => IN_ORDER(queue[i], queue[j]) \/ i = 1

\* Every request ends, however often its transfer fails and however many
\* requests arrive after it.
EveryRequestServed == \A b \in Blocks : lock[b] ~> ~lock[b]

\* MAX_ERRORS is the number of errors per sector: a request for a block of the
\* partition fails only after that many.
FailsOnlyAfterMaxErrors ==
    [][\A b \in Blocks : lock[b] /\ ~lock'[b] /\ ~uptodate'[b] /\ b.dev \in Devs
          /\ b.sector + 2 <= nr_sects[b.dev] => CURRENT.errors + 1 >= MAX_ERRORS]_vars
=============================================================================

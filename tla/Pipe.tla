-------------------------------- MODULE Pipe --------------------------------
(***************************************************************************)
(* An unnamed pipe: read_pipe and write_pipe (fs/pipe.c), its inode from   *)
(* get_pipe_inode to the last iput (fs/inode.c), and sys_close             *)
(* (fs/open.c).                                                            *)
(*                                                                         *)
(* The pipe is one page used as a ring; PIPE_HEAD and PIPE_TAIL are        *)
(* advanced before the bytes are copied, and the copy touches user memory, *)
(* which may not be present: do_no_page then sleeps for the disk in the    *)
(* middle of the copy.  Everything else runs without preemption            *)
(* (`cpu`) up to the next sleep_on.  Readers and writers sleep on the same *)
(* queue i_wait, here a set (module WaitSet says what it promises).        *)
(*                                                                         *)
(* A byte is its number in the order in which the writers reserved room    *)
(* for the bytes; delivered[n] is what a reader got as the n-th byte.      *)
(***************************************************************************)
EXTENDS Integers, FiniteSets

CONSTANTS
    Readers, Writers,   \* the processes that have inherited the ends
    PAGE_SIZE,
    MaxBytes,           \* the largest count of a read or write
    Total,              \* how many bytes are written in all
    NULL

Procs == Readers \cup Writers

ASSUME PipeConstants ==
    /\ PAGE_SIZE \in Nat /\ PAGE_SIZE > 1
    /\ MaxBytes \in Nat /\ Total \in Nat
    /\ NULL \notin Procs
    /\ IsFiniteSet(Readers) /\ IsFiniteSet(Writers) /\ Readers # {} /\ Writers # {}

VARIABLES
    head, tail,   \* PIPE_HEAD, PIPE_TAIL
    ring,         \* ring[i]: the byte in cell i of the page, 0 for none
    i_count,      \* 2, less one for each end that is closed
    holders,      \* holders["read"], holders["write"]: who has the end open
    i_wait,       \* the processes asleep on the pipe
    cpu,          \* the process running in the kernel
    pc, left,     \* where each process is, and its count still to do
    pos, chars,   \* a copy cut short by a page fault: next cell and bytes left
    nth,          \* ... and the number of the byte it copies next
    sigpipe,      \* the processes that have been sent SIGPIPE
    room,         \* bytes the writers may still write
    written, read,    \* how many bytes have been reserved by writers, by readers
    delivered,    \* delivered[n]: what was copied out as byte n, 0 if nothing yet
    faulted       \* history: a page fault has interrupted a copy

ringvars == <<head, tail, ring, written, read, delivered, faulted>>
endvars == <<i_count, holders, sigpipe, room>>
procvars == <<i_wait, cpu, pc, left, pos, chars, nth>>
pipeVars == <<ringvars, endvars, procvars>>

Cells == 0 .. PAGE_SIZE - 1
Bytes == 1 .. Total
Labels == {"idle", "read", "read_sleep", "read_fault", "write", "write_sleep", "write_fault"}

PipeTypeOK ==
    /\ head \in Cells /\ tail \in Cells
    /\ ring \in [Cells -> Nat]
    /\ i_count \in 0 .. 2
    /\ holders \in [{"read", "write"} -> SUBSET Procs]
    /\ i_wait \subseteq Procs
    /\ cpu \in Procs \cup {NULL}
    /\ pc \in [Procs -> Labels]
    /\ left \in [Procs -> 0 .. MaxBytes]
    /\ pos \in [Procs -> Nat]
    /\ chars \in [Procs -> Nat]
    /\ nth \in [Procs -> Nat]
    /\ sigpipe \subseteq Procs
    /\ room \in 0 .. Total
    /\ written \in Nat /\ read \in Nat
    /\ delivered \in [Bytes -> Nat]
    /\ faulted \in BOOLEAN

\* get_pipe_inode, and the forks that hand the ends on.
PipeInit ==
    /\ head = 0 /\ tail = 0
    /\ ring = [i \in Cells |-> 0]
    /\ i_count = 2
    /\ holders = [e \in {"read", "write"} |-> IF e = "read" THEN Readers ELSE Writers]
    /\ i_wait = {}
    /\ cpu = NULL
    /\ pc = [p \in Procs |-> "idle"]
    /\ left = [p \in Procs |-> 0]
    /\ pos = [p \in Procs |-> 0]
    /\ chars = [p \in Procs |-> 0]
    /\ nth = [p \in Procs |-> 0]
    /\ sigpipe = {}
    /\ room = Total
    /\ written = 0 /\ read = 0
    /\ delivered = [n \in Bytes |-> 0]
    /\ faulted = FALSE

-----------------------------------------------------------------------------
PIPE_SIZE == (head - tail) % PAGE_SIZE

\* Mutant: the whole page may be filled.
Space_Whole == PAGE_SIZE - PIPE_SIZE

Space == PAGE_SIZE - 1 - PIPE_SIZE

\* `PIPE_TAIL += chars; PIPE_TAIL &= (PAGE_SIZE-1)', and so for the head.
Advance(i, n) == (i + n) % PAGE_SIZE

\* Mutant: the last bound is forgotten.
Least_NoSize(x, y, z) == IF x <= y THEN x ELSE y

\* How much one turn of a loop copies.
Least(x, y, z) == IF x <= y /\ x <= z THEN x ELSE IF y <= z THEN y ELSE z

Running(p, l) == pc[p] = l /\ cpu \in {NULL, p}

\* Mutant: return without wake_up.
Return_NoWake(p) ==
    /\ pc' = [pc EXCEPT ![p] = "idle"]
    /\ left' = [left EXCEPT ![p] = 0]
    /\ cpu' = NULL
    /\ UNCHANGED i_wait

\* wake_up(&inode->i_wait), return.
Return(p) ==
    /\ i_wait' = {}
    /\ pc' = [pc EXCEPT ![p] = "idle"]
    /\ left' = [left EXCEPT ![p] = 0]
    /\ cpu' = NULL

\* Mutant: sleep without waking the others first.
Sleep_NoWake(p, l) ==
    i_wait' = i_wait \cup {p} /\ pc' = [pc EXCEPT ![p] = l] /\ cpu' = NULL

\* wake_up(&inode->i_wait); sleep_on(&inode->i_wait).
Sleep(p, l) ==
    /\ i_wait' = {p}
    /\ pc' = [pc EXCEPT ![p] = l]
    /\ cpu' = NULL

\* sys_read and sys_write, up to the loop.
SysRead(p, n) ==
    /\ cpu = NULL /\ pc[p] = "idle" /\ p \in holders["read"]
    /\ pc' = [pc EXCEPT ![p] = "read"]
    /\ left' = [left EXCEPT ![p] = n]
    /\ cpu' = p
    /\ UNCHANGED <<ringvars, endvars, i_wait, pos, chars, nth>>

SysWrite(p, n) ==
    /\ cpu = NULL /\ pc[p] = "idle" /\ p \in holders["write"]
    /\ n <= room
    /\ room' = room - n
    /\ pc' = [pc EXCEPT ![p] = "write"]
    /\ left' = [left EXCEPT ![p] = n]
    /\ cpu' = p
    /\ UNCHANGED <<ringvars, i_count, holders, sigpipe, i_wait, pos, chars, nth>>

\* The copy of n bytes from cell c on was stopped by a page fault after k of
\* them, or not (k = n): sleep in do_no_page or go round the loop.
AfterCopy(p, c, n, k, first, l, fault) ==
    IF k = n
    THEN /\ pc' = [pc EXCEPT ![p] = l]
         /\ cpu' = p
         /\ UNCHANGED <<pos, chars, nth, faulted>>
    ELSE /\ pc' = [pc EXCEPT ![p] = fault]
         /\ cpu' = NULL
         /\ pos' = [pos EXCEPT ![p] = c + k]
         /\ chars' = [chars EXCEPT ![p] = n - k]
         /\ nth' = [nth EXCEPT ![p] = first + k]
         /\ faulted' = TRUE

\* The interrupted copy is complete: back to the loop at label l.
CopyDone(p, l) ==
    /\ pc' = [pc EXCEPT ![p] = l]
    /\ cpu' = p
    /\ pos' = [pos EXCEPT ![p] = 0]
    /\ chars' = [chars EXCEPT ![p] = 0]
    /\ nth' = [nth EXCEPT ![p] = 0]

\* put_fs_byte of k bytes from cell c on, the first being byte number f.
CopyOut(c, k, f) ==
    delivered' = [n \in Bytes |-> IF n \in f .. f + k - 1 THEN ring[c + (n - f)] ELSE delivered[n]]

\* get_fs_byte of k bytes into the cells from c on, the first byte number f.
CopyIn(c, k, f) ==
    ring' = [i \in Cells |-> IF i \in c .. c + k - 1 THEN f + (i - c) ELSE ring[i]]

-----------------------------------------------------------------------------
\* read_pipe: the whole count has been read.
ReadEnd(p) ==
    /\ Running(p, "read") /\ left[p] = 0
    /\ Return(p)
    /\ UNCHANGED <<ringvars, endvars, pos, chars, nth>>

\* The pipe is empty: return what there was if the write end is closed, or sleep.
ReadEmpty(p) ==
    /\ Running(p, "read") /\ left[p] > 0
    /\ PIPE_SIZE = 0
    /\ IF i_count # 2 THEN Return(p) ELSE Sleep(p, "read_sleep") /\ UNCHANGED left
    /\ UNCHANGED <<ringvars, endvars, pos, chars, nth>>

\* One turn of the loop: take bytes up to the end of the page.
ReadSome(p) ==
    LET c == Least(PAGE_SIZE - tail, left[p], PIPE_SIZE) IN
    /\ Running(p, "read") /\ left[p] > 0
    /\ PIPE_SIZE # 0
    /\ left' = [left EXCEPT ![p] = @ - c]
    /\ tail' = Advance(tail, c)
    /\ read' = read + c
    /\ \E k \in 0 .. c :
          /\ CopyOut(tail, k, read + 1)
          /\ AfterCopy(p, tail, c, k, read + 1, "read", "read_fault")
    /\ UNCHANGED <<head, ring, written, endvars, i_wait>>

\* The page is there: the rest of the copy.
ReadFaulted(p) ==
    /\ Running(p, "read_fault")
    /\ CopyOut(pos[p], chars[p], nth[p])
    /\ CopyDone(p, "read")
    /\ UNCHANGED <<head, tail, ring, written, read, faulted, endvars, i_wait, left>>

\* A sleeper that has been woken.
Awake(p) ==
    \/ /\ Running(p, "read_sleep") /\ p \notin i_wait
       /\ pc' = [pc EXCEPT ![p] = "read"]
       /\ cpu' = p
       /\ UNCHANGED <<ringvars, endvars, i_wait, left, pos, chars, nth>>
    \/ /\ Running(p, "write_sleep") /\ p \notin i_wait
       /\ pc' = [pc EXCEPT ![p] = "write"]
       /\ cpu' = p
       /\ UNCHANGED <<ringvars, endvars, i_wait, left, pos, chars, nth>>

\* write_pipe: the whole count has been written.
WriteEnd(p) ==
    /\ Running(p, "write") /\ left[p] = 0
    /\ Return(p)
    /\ UNCHANGED <<ringvars, endvars, pos, chars, nth>>

\* The pipe is full: SIGPIPE if the read end is closed, or sleep.
WriteFull(p) ==
    /\ Running(p, "write") /\ left[p] > 0
    /\ Space = 0
    /\ IF i_count # 2 THEN Return(p) /\ sigpipe' = sigpipe \cup {p}
       ELSE Sleep(p, "write_sleep") /\ UNCHANGED <<left, sigpipe>>
    /\ UNCHANGED <<ringvars, i_count, holders, room, pos, chars, nth>>

\* One turn of the loop: put bytes up to the end of the page.
WriteSome(p) ==
    LET c == Least(PAGE_SIZE - head, left[p], Space) IN
    /\ Running(p, "write") /\ left[p] > 0
    /\ Space # 0
    /\ left' = [left EXCEPT ![p] = @ - c]
    /\ head' = Advance(head, c)
    /\ written' = written + c
    /\ \E k \in 0 .. c :
          /\ CopyIn(head, k, written + 1)
          /\ AfterCopy(p, head, c, k, written + 1, "write", "write_fault")
    /\ UNCHANGED <<tail, read, delivered, endvars, i_wait>>

WriteFaulted(p) ==
    /\ Running(p, "write_fault")
    /\ CopyIn(pos[p], chars[p], nth[p])
    /\ CopyDone(p, "write")
    /\ UNCHANGED <<head, tail, written, read, delivered, faulted, endvars, i_wait, left>>

-----------------------------------------------------------------------------
\* Mutant: iput without wake_up.
Close_NoWake(p, e) ==
    /\ cpu = NULL /\ pc[p] = "idle" /\ p \in holders[e]
    /\ holders' = [holders EXCEPT ![e] = @ \ {p}]
    /\ i_count' = IF holders[e] = {p} THEN i_count - 1 ELSE i_count
    /\ UNCHANGED <<ringvars, sigpipe, room, procvars>>

\* sys_close of end e, and iput when it was the last descriptor of that end:
\* wake_up, then --i_count.
Close(p, e) ==
    /\ cpu = NULL /\ pc[p] = "idle" /\ p \in holders[e]
    /\ holders' = [holders EXCEPT ![e] = @ \ {p}]
    /\ IF holders[e] = {p} THEN i_count' = i_count - 1 /\ i_wait' = {}
       ELSE UNCHANGED <<i_count, i_wait>>
    /\ UNCHANGED <<ringvars, sigpipe, room, cpu, pc, left, pos, chars, nth>>

Run(p) ==
    \/ ReadEnd(p) \/ ReadEmpty(p) \/ ReadSome(p) \/ ReadFaulted(p)
    \/ WriteEnd(p) \/ WriteFull(p) \/ WriteSome(p) \/ WriteFaulted(p)
    \/ Awake(p)

PipeNext ==
    \E p \in Procs :
        \/ Run(p)
        \/ \E n \in 1 .. MaxBytes : SysRead(p, n) \/ SysWrite(p, n)
        \/ \E e \in {"read", "write"} : Close(p, e)

\* A runnable process is given the processor again and again (schedule() takes
\* the one with the largest counter, and counters run out), and its pages
\* come in; strong fairness, as another may hold the processor in between.
Fairness == \A p \in Procs : SF_pipeVars(Run(p))

PipeSpec == PipeInit /\ [][PipeNext]_pipeVars /\ Fairness

-----------------------------------------------------------------------------
\* The ring indices never lose a turn of the ring, whatever faults: what
\* PIPE_SIZE computes from them is the number of bytes reserved by writers
\* and not yet by readers.
RingExact == PIPE_SIZE = written - read

\* As long as no page fault has cut a copy short, every byte that was read is
\* the byte written in its place, in order, none twice and none lost; and those
\* still in the ring are there in order.  (After a fault it is not so: the
\* indices have moved on before the bytes have.)
InOrder == ~faulted =>
    /\ \A n \in Bytes : n <= read => delivered[n] = n
    /\ \A i \in 0 .. written - read - 1 :
          ring[IF tail + i < PAGE_SIZE THEN tail + i ELSE tail + i - PAGE_SIZE] = read + 1 + i

Asleep(p) == pc[p] \in {"read_sleep", "write_sleep"} /\ p \in i_wait

\* Readers and writers use one queue and every sleeper wakes the others first,
\* so never are a reader and a writer asleep, waiting for one another.
NotBothAsleep ==
    \A p, q \in Procs : Asleep(p) /\ Asleep(q) => pc[p] = pc[q]

\* What p sleeps for has happened: data or room is there, or the other end is
\* closed.
Ready(p) ==
    \/ i_count # 2
    \/ pc[p] = "read_sleep" /\ PIPE_SIZE > 0
    \/ pc[p] = "write_sleep" /\ Space > 0

\* Nobody sleeps through what it waits for, although a writer wakes readers
\* only when its whole count is done or the pipe is full, and may itself
\* sleep in a page fault meanwhile.
NobodyForgotten == \A p \in Procs : (Asleep(p) /\ Ready(p)) ~> ~Asleep(p)

\* Once the other end is closed every call returns: end of file or SIGPIPE.
CallsReturn == \A p \in Procs : (i_count # 2 /\ pc[p] # "idle") ~> pc[p] = "idle"
=============================================================================

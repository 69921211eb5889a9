---------------------------- MODULE BufferCache ----------------------------
(***************************************************************************)
(* The buffer cache of fs/buffer.c and its users fs/file_dev.c and         *)
(* fs/block_dev.c.                                                         *)
(*                                                                         *)
(* A process runs in the kernel without preemption: `cpu` is the process   *)
(* whose code runs until it sleeps, and only the block devices' interrupts *)
(* come in between.  wait_on_buffer tests b_lock with interrupts off, so a *)
(* wait is a guard ~b_lock (WaitQueue shows that the sleeper is woken);    *)
(* the queue buffer_wait is kept explicitly.  The request queue (module    *)
(* BlockQueue) is reduced to what the cache sees of it: make_request locks *)
(* the buffer, may sleep for a request slot, and clears b_dirt when it has *)
(* one; requests end in any order.                                         *)
(*                                                                         *)
(* sync_dev and sys_sync call sync_inodes, which calls write_inode, bread  *)
(* and so getblk again: the calls of one process are frames (Frames).  Of  *)
(* the inodes only i_lock and i_dirt are here; who changes and uses them   *)
(* is module Inodes.                                                       *)
(*                                                                         *)
(* The contents of a block is a version number, latest[k] the version the  *)
(* last writer gave block k.                                               *)
(***************************************************************************)
EXTENDS Integers, Sequences, FiniteSets

CONSTANTS
    Tasks, Blocks, NULL,
    DevOf,         \* DevOf[k]: the device of block k
    AheadOf,       \* AheadOf[k]: the blocks breada is asked for after k
    NR_BUFFERS,
    NR_INODE,
    InodeBlock,    \* InodeBlock[i]: the block that inode i is stored in
    Ops,           \* the operations the processes perform
    MaxOps,        \* how many operations each process performs
    MaxErrors,     \* how many transfers fail
    SlotsScarce    \* whether the request table can be full

AllOps == {"file_read", "file_write", "block_read", "block_write", "block_write_full",
           "sync_dev", "sys_sync", "chmod"}

Inodes == 1 .. NR_INODE

\* <<t, 0>> is the system call of process t, and <<t, d>> the write_inode that
\* sync_inodes has called in <<t, d - 1>>.  Each but the first has an inode
\* locked, so that there are never more than NR_INODE of them.
Frames == Tasks \X (0 .. NR_INODE)
Outer(p) == IF p[2] = 0 THEN NULL ELSE <<p[1], p[2] - 1>>
Inner(p) == <<p[1], p[2] + 1>>

ASSUME CacheConstants ==
    /\ NR_BUFFERS \in Nat \ {0} /\ MaxOps \in Nat /\ MaxErrors \in Nat
    /\ SlotsScarce \in BOOLEAN /\ Ops \subseteq AllOps
    /\ NULL \notin Blocks /\ NULL \notin Frames
    /\ AheadOf \in [Blocks -> Seq(Blocks)]
    /\ NR_INODE \in Nat /\ InodeBlock \in [Inodes -> Blocks]
    /\ IsFiniteSet(Tasks)

Bufs == 1 .. NR_BUFFERS

ASSUME NullIsNoBuffer == NULL \notin Bufs

\* The users of breada, and those that call getblk without reading.
BreadaOps == {"block_read", "block_write"}

VARIABLES
    blk,        \* blk[b]: b_dev and b_blocknr, NULL for b_dev = 0
    count, dirt, uptodate, locked,   \* b_count, b_dirt, b_uptodate, b_lock
    data,       \* data[b]: the version b_data holds, -1 for another block's
    free_list,  \* the circular free list as a sequence from its head
    disk,       \* disk[k]: the version on disk
    io,         \* io[b]: "none", a request "READ" or "WRITE", or "done"
    latest,     \* latest[k]: the version last written by a process
    buffer_wait,   \* the processes asleep on &buffer_wait
    cpu, pc, op, first, bh, want, cand, ahead, sync, ll,   \* the processes
    ino,        \* the inode that write_inode works on, 0 for none
    ilock,      \* i_lock: NULL, or who has locked the inode
    idirt,      \* i_dirt
    budget, errors \* operations and failures left

bufvars == <<blk, count, dirt, uptodate, locked, data, free_list>>
devvars == <<disk, io, errors>>
procvars == <<cpu, pc, op, first, bh, want, cand, ahead, sync, ll, budget, buffer_wait>>
inodevars == <<ino, ilock, idirt>>
vars == <<bufvars, devvars, procvars, inodevars, latest>>

(***************************************************************************)
(* Of a frame: op the operation, first its block, bh the buffer it holds   *)
(* for that block, want and cand the block and the buffer getblk is        *)
(* working on, ahead the blocks breada still has to look at, sync the loop *)
(* of sync_dev, ll the arguments of ll_rw_block, each with the label to    *)
(* return to.                                                              *)
(***************************************************************************)
Labels == {"idle", "getblk", "hash_wait", "victim", "buffer_wait", "sync", "sync_wait",
           "ll_lock", "ll_slot", "fill", "next_ahead", "ahead", "ahead_done", "wait",
           "copy", "store", "dirty", "brelse", "sync_inodes", "inner", "lock_inode", "failed"}
NoSync == [dev |-> NULL, i |-> 0, pass |-> 0, ret |-> "idle"]
NoLL == [cmd |-> "READ", tgt |-> NULL, ahead |-> FALSE, ret |-> "idle"]

DevNumbers == {DevOf[k] : k \in Blocks}
SyncLoops == [dev : DevNumbers \cup {NULL}, i : Nat, pass : 0 .. 2, ret : Labels]
LLCalls == [cmd : {"READ", "WRITE"}, tgt : Bufs \cup {NULL}, ahead : BOOLEAN, ret : Labels]

CacheTypes ==
    /\ blk \in [Bufs -> Blocks \cup {NULL}]
    /\ count \in [Bufs -> Nat]
    /\ dirt \in [Bufs -> BOOLEAN]
    /\ uptodate \in [Bufs -> BOOLEAN]
    /\ locked \in [Bufs -> BOOLEAN]
    /\ data \in [Bufs -> Int]
    /\ free_list \in Seq(Bufs)
    /\ disk \in [Blocks -> Nat]
    /\ latest \in [Blocks -> Nat]
    /\ io \in [Bufs -> {"none", "READ", "WRITE", "done"}]
    /\ buffer_wait \subseteq Frames
    /\ cpu \in Frames \cup {NULL}
    /\ pc \in [Frames -> Labels]
    /\ op \in [Frames -> Ops \cup {NULL, "write_inode"}]
    /\ first \in [Frames -> Blocks \cup {NULL}]
    /\ want \in [Frames -> Blocks \cup {NULL}]
    /\ bh \in [Frames -> Bufs \cup {NULL}]
    /\ cand \in [Frames -> Bufs \cup {NULL}]
    /\ ahead \in [Frames -> Seq(Blocks)]
    /\ sync \in [Frames -> SyncLoops]
    /\ ll \in [Frames -> LLCalls]
    /\ budget \in [Frames -> 0 .. MaxOps]
    /\ errors \in 0 .. MaxErrors

InodeTypes ==
    /\ ino \in [Frames -> Inodes \cup {0}]
    /\ ilock \in [Inodes -> Frames \cup {NULL}]
    /\ idirt \in [Inodes -> BOOLEAN]

TypeOK == CacheTypes /\ InodeTypes

Init ==
    /\ blk = [b \in Bufs |-> NULL]
    /\ count = [b \in Bufs |-> 0]
    /\ dirt = [b \in Bufs |-> FALSE]
    /\ uptodate = [b \in Bufs |-> FALSE]
    /\ locked = [b \in Bufs |-> FALSE]
    /\ data = [b \in Bufs |-> -1]
    /\ free_list = [b \in Bufs |-> b]
    /\ disk = [k \in Blocks |-> 0]
    /\ latest = [k \in Blocks |-> 0]
    /\ io = [b \in Bufs |-> "none"]
    /\ buffer_wait = {}
    /\ cpu = NULL
    /\ pc = [p \in Frames |-> "idle"]
    /\ op = [p \in Frames |-> NULL]
    /\ first = [p \in Frames |-> NULL]
    /\ want = [p \in Frames |-> NULL]
    /\ bh = [p \in Frames |-> NULL]
    /\ cand = [p \in Frames |-> NULL]
    /\ ahead = [p \in Frames |-> <<>>]
    /\ sync = [p \in Frames |-> NoSync]
    /\ ll = [p \in Frames |-> NoLL]
    /\ budget = [p \in Frames |-> MaxOps]
    /\ errors = MaxErrors
    /\ ino = [p \in Frames |-> 0]
    /\ ilock = [i \in Inodes |-> NULL]
    /\ idirt = [i \in Inodes |-> FALSE]

-----------------------------------------------------------------------------
\* Control: p may run, goes on at label l, or gives up the processor there.
Running(p, l) == pc[p] = l /\ cpu \in {NULL, p}

Goto(p, l) == pc' = [pc EXCEPT ![p] = l] /\ cpu' = p

Yield(p, l) == pc' = [pc EXCEPT ![p] = l] /\ cpu' = NULL

\* Go on to a label that begins with wait_on_buffer(b).
GotoWait(p, l, b) == IF locked[b] THEN Yield(p, l) ELSE Goto(p, l)

\* Go on to a label that begins with wait_on_inode(i).
GotoInode(p, l, i) == IF i \in Inodes /\ ilock[i] # NULL THEN Yield(p, l) ELSE Goto(p, l)

\* The system call is over, or write_inode returns to sync_inodes.
Finish(p) ==
    /\ pc' = [pc EXCEPT ![p] = "idle"]
    /\ cpu' = Outer(p)
    /\ op' = [op EXCEPT ![p] = NULL]
    /\ first' = [first EXCEPT ![p] = NULL]
    /\ bh' = [bh EXCEPT ![p] = NULL]

DevOfBuf(b) == IF blk[b] = NULL THEN NULL ELSE DevOf[blk[b]]

\* find_buffer: the hash chains lead to a buffer of block k if there is one.
Holding(k) == {b \in Bufs : blk[b] = k}

-----------------------------------------------------------------------------
\* ll_rw_block(cmd, b) called at the end of a step; returns to label ret.  A
\* read-ahead of a locked buffer is forgotten.
CallLL(p, cmd, b, isAhead, ret) ==
    IF isAhead /\ locked[b] THEN Goto(p, ret) /\ UNCHANGED ll
    ELSE /\ ll' = [ll EXCEPT ![p] = [cmd |-> cmd, tgt |-> b, ahead |-> isAhead, ret |-> ret]]
         /\ GotoWait(p, "ll_lock", b)

\* lock_buffer, and the test that there is still something to do.
LLLock(p) ==
    LET b == ll[p].tgt IN
    /\ Running(p, "ll_lock")
    /\ ~locked[b]
    /\ IF (ll[p].cmd = "WRITE" /\ ~dirt[b]) \/ (ll[p].cmd = "READ" /\ uptodate[b])
       THEN /\ Goto(p, ll[p].ret)
            /\ ll' = [ll EXCEPT ![p] = NoLL]
            /\ UNCHANGED locked
       ELSE /\ locked' = [locked EXCEPT ![b] = TRUE]
            /\ Goto(p, "ll_slot") \/ (SlotsScarce /\ ~ll[p].ahead /\ Yield(p, "ll_slot"))
            /\ UNCHANGED ll
    /\ UNCHANGED <<blk, count, dirt, uptodate, data, free_list, devvars, latest, op, first, bh,
                   want, cand, ahead, sync, budget, buffer_wait>>

\* A slot was found: add_request.
LLAdd(p) ==
    LET b == ll[p].tgt IN
    /\ Running(p, "ll_slot")
    /\ io' = [io EXCEPT ![b] = ll[p].cmd]
    /\ dirt' = [dirt EXCEPT ![b] = FALSE]
    /\ IF ll[p].ret = "wait" THEN Yield(p, "wait") ELSE Goto(p, ll[p].ret)
    /\ ll' = [ll EXCEPT ![p] = NoLL]
    /\ UNCHANGED <<blk, count, uptodate, locked, data, free_list, disk, errors, latest, op, first,
                   bh, want, cand, ahead, sync, budget, buffer_wait>>

\* Mutant: the forgotten read-ahead leaves the buffer locked.
LLForget_NoUnlock(p) ==
    /\ Running(p, "ll_slot")
    /\ SlotsScarce /\ ll[p].ahead
    /\ Goto(p, ll[p].ret)
    /\ ll' = [ll EXCEPT ![p] = NoLL]
    /\ UNCHANGED <<bufvars, devvars, latest, op, first, bh, want, cand, ahead, sync, budget,
                   buffer_wait>>

\* No slot for a read-ahead: unlock and forget it.
LLForget(p) ==
    /\ Running(p, "ll_slot")
    /\ SlotsScarce /\ ll[p].ahead
    /\ locked' = [locked EXCEPT ![ll[p].tgt] = FALSE]
    /\ Goto(p, ll[p].ret)
    /\ ll' = [ll EXCEPT ![p] = NoLL]
    /\ UNCHANGED <<blk, count, dirt, uptodate, data, free_list, devvars, latest, op, first, bh,
                   want, cand, ahead, sync, budget, buffer_wait>>

-----------------------------------------------------------------------------
\* getblk(want[p]) has found buffer b, as the operation's own buffer or as
\* one of breada's others.
Got(p, b) ==
    IF bh[p] = NULL
    THEN /\ bh' = [bh EXCEPT ![p] = b]
         /\ cand' = [cand EXCEPT ![p] = NULL]
         /\ IF op[p] = "block_write_full" THEN Yield(p, "copy") ELSE Goto(p, "fill")
    ELSE /\ cand' = [cand EXCEPT ![p] = b]
         /\ Goto(p, "ahead")
         /\ UNCHANGED bh

\* repeat: get_hash_table finds the block: hold it and wait for it.
GetblkFound(p) ==
    /\ Running(p, "getblk")
    /\ \E b \in Holding(want[p]) :
          /\ count' = [count EXCEPT ![b] = @ + 1]
          /\ cand' = [cand EXCEPT ![p] = b]
          /\ GotoWait(p, "hash_wait", b)
    /\ UNCHANGED <<blk, dirt, uptodate, locked, data, free_list, devvars, latest, op, first, bh,
                   want, ahead, sync, ll, budget, buffer_wait>>

\* get_hash_table after the wait: the buffer is still the block's, or not.
HashWait(p) ==
    LET b == cand[p] IN
    /\ Running(p, "hash_wait")
    /\ ~locked[b]
    /\ IF blk[b] = want[p]
       THEN Got(p, b) /\ UNCHANGED count
       ELSE /\ count' = [count EXCEPT ![b] = @ - 1]
            /\ cand' = [cand EXCEPT ![p] = NULL]
            /\ Goto(p, "getblk")
            /\ UNCHANGED bh
    /\ UNCHANGED <<blk, dirt, uptodate, locked, data, free_list, devvars, latest, op, first,
                   want, ahead, sync, ll, budget, buffer_wait>>

BADNESS(b) == (IF dirt[b] THEN 2 ELSE 0) + (IF locked[b] THEN 1 ELSE 0)

\* The scan of the free list: the first unused buffer of the least badness.
Victims ==
    {i \in DOMAIN free_list :
        /\ count[free_list[i]] = 0
        /\ \A j \in DOMAIN free_list : count[free_list[j]] = 0 =>
              IF j < i THEN BADNESS(free_list[j]) > BADNESS(free_list[i])
              ELSE BADNESS(free_list[j]) >= BADNESS(free_list[i])}

\* Not in the cache: choose a victim and wait for it, without holding it.
GetblkScan(p) ==
    /\ Running(p, "getblk")
    /\ Holding(want[p]) = {}
    /\ \E i \in Victims :
          /\ cand' = [cand EXCEPT ![p] = free_list[i]]
          /\ GotoWait(p, "victim", free_list[i])
    /\ UNCHANGED <<bufvars, devvars, latest, op, first, bh, want, ahead, sync, ll, budget,
                   buffer_wait>>

\* Every buffer is in use: sleep_on(&buffer_wait).
GetblkSleep(p) ==
    /\ Running(p, "getblk")
    /\ Holding(want[p]) = {}
    /\ Victims = {}
    /\ buffer_wait' = buffer_wait \cup {p}
    /\ Yield(p, "buffer_wait")
    /\ UNCHANGED <<bufvars, devvars, latest, op, first, bh, want, cand, ahead, sync, ll, budget>>

GetblkAwake(p) ==
    /\ Running(p, "buffer_wait")
    /\ p \notin buffer_wait
    /\ Goto(p, "getblk")
    /\ UNCHANGED <<bufvars, devvars, latest, op, first, bh, want, cand, ahead, sync, ll, budget,
                   buffer_wait>>

\* The victim is unlocked.  Taken meanwhile: start again.  Dirty: sync its
\* device and wait again.
VictimRetry(p) ==
    LET b == cand[p] IN
    /\ Running(p, "victim")
    /\ ~locked[b]
    /\ \/ /\ count[b] # 0 \/ (~dirt[b] /\ Holding(want[p]) # {})
          /\ Goto(p, "getblk")
          /\ cand' = [cand EXCEPT ![p] = NULL]
          /\ UNCHANGED sync
       \/ /\ count[b] = 0 /\ dirt[b]
          /\ sync' = [sync EXCEPT ![p] = [dev |-> DevOfBuf(b), i |-> 1, pass |-> 1,
                                          ret |-> "victim"]]
          /\ Goto(p, "sync")
          /\ UNCHANGED cand
    /\ UNCHANGED <<bufvars, devvars, latest, op, first, bh, want, ahead, ll, budget, buffer_wait>>

\* Mutant: b_uptodate is not cleared.
ResetBuffer_KeepUptodate(b) ==
    count' = [count EXCEPT ![b] = 1] /\ dirt' = [dirt EXCEPT ![b] = FALSE] /\ UNCHANGED uptodate

\* b_count = 1, b_dirt = 0, b_uptodate = 0.
ResetBuffer(b) ==
    /\ count' = [count EXCEPT ![b] = 1]
    /\ dirt' = [dirt EXCEPT ![b] = FALSE]
    /\ uptodate' = [uptodate EXCEPT ![b] = FALSE]

\* remove_from_queues and insert_into_queues.
ToEnd(list, b) ==
    LET i == CHOOSE j \in DOMAIN list : list[j] = b
    IN  Append(SubSeq(list, 1, i - 1) \o SubSeq(list, i + 1, Len(list)), b)

\* The victim b becomes the wanted block's and goes to the end of the free list.
Claim(p, b) ==
    /\ ResetBuffer(b)
    /\ blk' = [blk EXCEPT ![b] = want[p]]
    /\ data' = [data EXCEPT ![b] = -1]
    /\ free_list' = ToEnd(free_list, b)
    /\ Got(p, b)
    /\ UNCHANGED <<locked, devvars, latest, op, first, want, ahead, sync, ll, budget,
                   buffer_wait>>

\* Mutants: one of the tests after the wait is missing.
VictimClaim_NoFind(p) ==
    Running(p, "victim") /\ ~locked[cand[p]] /\ count[cand[p]] = 0 /\ ~dirt[cand[p]]
        /\ Claim(p, cand[p])
VictimClaim_NoCount(p) ==
    Running(p, "victim") /\ ~locked[cand[p]] /\ ~dirt[cand[p]] /\ Holding(want[p]) = {}
        /\ Claim(p, cand[p])
VictimClaim_NoDirt(p) ==
    Running(p, "victim") /\ ~locked[cand[p]] /\ count[cand[p]] = 0 /\ Holding(want[p]) = {}
        /\ Claim(p, cand[p])

\* "OK, FINALLY we know that this buffer is the only one of it's kind".
VictimClaim(p) ==
    LET b == cand[p] IN
    /\ Running(p, "victim")
    /\ ~locked[b] /\ count[b] = 0 /\ ~dirt[b]
    /\ Holding(want[p]) = {}
    /\ Claim(p, b)

-----------------------------------------------------------------------------
\* The loops of sync_dev (two passes over the buffers of a device, sync_inodes
\* in between) and of sys_sync (dev = NULL: one pass over all after sync_inodes).
SyncLoop(p) ==
    LET s == sync[p] IN
    /\ Running(p, "sync")
    /\ \/ /\ s.i > NR_BUFFERS /\ s.pass = 1
          /\ sync' = [sync EXCEPT ![p].i = 1, ![p].pass = 2]
          /\ GotoInode(p, "sync_inodes", 1)
          /\ UNCHANGED <<op, first, bh>>
       \/ /\ s.i > NR_BUFFERS /\ s.pass = 2
          /\ sync' = [sync EXCEPT ![p] = NoSync]
          /\ IF s.ret = "idle" THEN Finish(p)
             ELSE GotoWait(p, s.ret, cand[p]) /\ UNCHANGED <<op, first, bh>>
       \/ /\ s.i <= NR_BUFFERS
          /\ IF s.dev # NULL /\ DevOfBuf(s.i) # s.dev
             THEN sync' = [sync EXCEPT ![p].i = @ + 1] /\ Goto(p, "sync")
             ELSE GotoWait(p, "sync_wait", s.i) /\ UNCHANGED sync
          /\ UNCHANGED <<op, first, bh>>
    /\ UNCHANGED <<bufvars, devvars, latest, want, cand, ahead, ll, budget, buffer_wait>>

\* The loop's body after wait_on_buffer.
SyncWait(p) ==
    LET s == sync[p] IN
    /\ Running(p, "sync_wait")
    /\ ~locked[s.i]
    /\ sync' = [sync EXCEPT ![p].i = @ + 1]
    /\ IF (s.dev = NULL \/ DevOfBuf(s.i) = s.dev) /\ dirt[s.i]
       THEN CallLL(p, "WRITE", s.i, FALSE, "sync")
       ELSE Goto(p, "sync") /\ UNCHANGED ll
    /\ UNCHANGED <<bufvars, devvars, latest, op, first, bh, want, cand, ahead, budget,
                   buffer_wait>>

-----------------------------------------------------------------------------
\* The loop of sync_inodes after wait_on_inode: the inode is clean, or
\* write_inode is called.
SyncInodes(p) ==
    LET s == sync[p] IN
    /\ Running(p, "sync_inodes")
    /\ \/ /\ s.i > NR_INODE
          /\ sync' = [sync EXCEPT ![p].i = 1]
          /\ Goto(p, "sync")
       \/ /\ s.i \in Inodes /\ ilock[s.i] = NULL
          /\ IF idirt[s.i]
             THEN /\ Inner(p) \in Frames
                  /\ pc' = [pc EXCEPT ![p] = "inner"]
                  /\ cpu' = Inner(p)
                  /\ UNCHANGED sync
             ELSE /\ sync' = [sync EXCEPT ![p].i = @ + 1]
                  /\ GotoInode(p, "sync_inodes", s.i + 1)
    /\ UNCHANGED <<bufvars, devvars, latest, op, first, bh, want, cand, ahead, ll, budget,
                   buffer_wait, inodevars>>

\* write_inode has returned to sync_inodes.
InnerReturn(p) ==
    /\ pc[p] = "inner" /\ cpu = p
    /\ sync' = [sync EXCEPT ![p].i = @ + 1]
    /\ GotoInode(p, "sync_inodes", sync[p].i + 1)
    /\ UNCHANGED <<bufvars, devvars, latest, op, first, bh, want, cand, ahead, ll, budget,
                   buffer_wait, inodevars>>

\* write_inode(i) is entered, from sync_inodes or, after sys_chmod has changed
\* the inode, from the iput of its last user.
WriteInode(p, i) ==
    /\ pc[p] = "idle"
    /\ \/ /\ Outer(p) # NULL /\ cpu = p
          /\ i = sync[Outer(p)].i
          /\ UNCHANGED <<budget, idirt>>
       \/ /\ Outer(p) = NULL /\ cpu = NULL /\ "chmod" \in Ops
          /\ budget[p] > 0
          /\ budget' = [budget EXCEPT ![p] = @ - 1]
          /\ idirt' = [idirt EXCEPT ![i] = TRUE]
    /\ op' = [op EXCEPT ![p] = "write_inode"]
    /\ ino' = [ino EXCEPT ![p] = i]
    /\ first' = [first EXCEPT ![p] = InodeBlock[i]]
    /\ want' = [want EXCEPT ![p] = InodeBlock[i]]
    /\ GotoInode(p, "lock_inode", i)
    /\ UNCHANGED <<bufvars, devvars, latest, bh, cand, ahead, sync, ll, buffer_wait, ilock>>

\* lock_inode, and bread of the inode's block unless the inode is clean by now.
LockInode(p) ==
    LET i == ino[p] IN
    /\ Running(p, "lock_inode")
    /\ ilock[i] = NULL
    /\ \/ /\ idirt[i]
          /\ ilock' = [ilock EXCEPT ![i] = p]
          /\ Goto(p, "getblk")
          /\ UNCHANGED <<op, first, bh, want, ino>>
       \/ /\ ~idirt[i]
          /\ ino' = [ino EXCEPT ![p] = 0]
          /\ want' = [want EXCEPT ![p] = NULL]
          /\ Finish(p)
          /\ UNCHANGED ilock
    /\ UNCHANGED <<bufvars, devvars, latest, cand, ahead, sync, ll, budget, buffer_wait, idirt>>

\* The block cannot be read: brelse, and panic("unable to read i-node block"),
\* which calls sys_sync.  That waits for the inode that p has locked itself,
\* so that it never returns.
BreadFailed(p) ==
    /\ Running(p, "failed")
    /\ ~locked[bh[p]]
    /\ count' = [count EXCEPT ![bh[p]] = @ - 1]
    /\ bh' = [bh EXCEPT ![p] = NULL]
    /\ buffer_wait' = {}
    /\ sync' = [sync EXCEPT ![p] = [dev |-> NULL, i |-> 1, pass |-> 2, ret |-> "idle"]]
    /\ GotoInode(p, "sync_inodes", 1)
    /\ UNCHANGED <<blk, dirt, uptodate, locked, data, free_list, devvars, latest, op, first, want,
                   cand, ahead, ll, budget, inodevars>>

\* sys_chmod of an inode that others use too: it is changed in memory only.
Chmod(p, i) ==
    /\ pc[p] = "idle" /\ cpu = NULL /\ Outer(p) = NULL
    /\ "chmod" \in Ops
    /\ budget[p] > 0
    /\ budget' = [budget EXCEPT ![p] = @ - 1]
    /\ idirt' = [idirt EXCEPT ![i] = TRUE]
    /\ UNCHANGED <<bufvars, devvars, latest, cpu, pc, op, first, bh, want, cand, ahead, sync, ll,
                   buffer_wait, ino, ilock>>

-----------------------------------------------------------------------------
\* These come from bread to the copy without a page fault.
Straight == {"file_write", "write_inode"}

\* bread and breada once getblk has returned bh.
Fill(p) ==
    LET next == IF op[p] \in BreadaOps THEN "next_ahead" ELSE "wait" IN
    /\ Running(p, "fill")
    /\ IF ~uptodate[bh[p]] THEN CallLL(p, "READ", bh[p], FALSE, next)
       ELSE /\ IF op[p] \in BreadaOps THEN Goto(p, next)
               ELSE IF op[p] \in Straight THEN Goto(p, "copy") ELSE Yield(p, "copy")
            /\ UNCHANGED ll
    /\ UNCHANGED <<bufvars, devvars, latest, op, first, bh, want, cand, ahead, sync, budget,
                   buffer_wait>>

\* breada's loop: getblk of the next block to read ahead.
NextAhead(p) ==
    /\ Running(p, "next_ahead")
    /\ IF ahead[p] = <<>>
       THEN GotoWait(p, "wait", bh[p]) /\ UNCHANGED want
       ELSE want' = [want EXCEPT ![p] = Head(ahead[p])] /\ Goto(p, "getblk")
    /\ UNCHANGED <<bufvars, devvars, latest, op, first, bh, cand, ahead, sync, ll, budget,
                   buffer_wait>>

\* `if (!tmp->b_uptodate) ll_rw_block(READA,bh)'
Ahead(p) ==
    /\ Running(p, "ahead")
    /\ IF ~uptodate[cand[p]] THEN CallLL(p, "READ", bh[p], TRUE, "ahead_done")
       ELSE Goto(p, "ahead_done") /\ UNCHANGED ll
    /\ UNCHANGED <<bufvars, devvars, latest, op, first, bh, want, cand, ahead, sync, budget,
                   buffer_wait>>

\* Mutant: the buffer is not released.
AheadDone_NoRelease(p) ==
    /\ Running(p, "ahead_done")
    /\ cand' = [cand EXCEPT ![p] = NULL]
    /\ ahead' = [ahead EXCEPT ![p] = Tail(@)]
    /\ Goto(p, "next_ahead")
    /\ UNCHANGED <<bufvars, devvars, latest, op, first, bh, want, sync, ll, budget, buffer_wait>>

\* `tmp->b_count--', which wakes nobody.
AheadDone(p) ==
    /\ Running(p, "ahead_done")
    /\ count' = [count EXCEPT ![cand[p]] = @ - 1]
    /\ cand' = [cand EXCEPT ![p] = NULL]
    /\ ahead' = [ahead EXCEPT ![p] = Tail(@)]
    /\ Goto(p, "next_ahead")
    /\ UNCHANGED <<blk, dirt, uptodate, locked, data, free_list, devvars, latest, op, first, bh,
                   want, sync, ll, budget, buffer_wait>>

\* The last wait of bread and breada: the block was read, or is given back.
Wait(p) ==
    /\ Running(p, "wait")
    /\ ~locked[bh[p]]
    /\ IF ~uptodate[bh[p]] THEN Goto(p, IF op[p] = "write_inode" THEN "failed" ELSE "brelse")
       ELSE IF op[p] \in Straight THEN Goto(p, "copy") ELSE Yield(p, "copy")
    /\ UNCHANGED <<bufvars, devvars, latest, op, first, bh, want, cand, ahead, sync, ll, budget,
                   buffer_wait>>

\* The user's data goes into the buffer; a page fault may put p to sleep.
Store(p) ==
    LET b == bh[p] IN
    /\ latest' = [latest EXCEPT ![first[p]] = @ + 1]
    /\ data' = [data EXCEPT ![b] = latest[first[p]] + 1]

\* file_read and block_read copy out; file_write marks the buffer dirty and
\* then copies in; block_write copies in and then marks it dirty; write_inode
\* copies the inode, which cannot fault, and clears i_dirt.
Copy(p) ==
    /\ Running(p, "copy")
    /\ \/ /\ op[p] \in {"file_read", "block_read"}
          /\ GotoWait(p, "brelse", bh[p])
          /\ UNCHANGED <<dirt, data, latest, idirt>>
       \/ /\ op[p] = "file_write"
          /\ dirt' = [dirt EXCEPT ![bh[p]] = TRUE]
          /\ Yield(p, "store")
          /\ UNCHANGED <<data, latest, idirt>>
       \/ /\ op[p] \in {"block_write", "block_write_full"}
          /\ Store(p)
          /\ Yield(p, "dirty")
          /\ UNCHANGED <<dirt, idirt>>
       \/ /\ op[p] = "write_inode"
          /\ Store(p)
          /\ dirt' = [dirt EXCEPT ![bh[p]] = TRUE]
          /\ idirt' = [idirt EXCEPT ![ino[p]] = FALSE]
          /\ GotoWait(p, "brelse", bh[p])
    /\ UNCHANGED <<blk, count, uptodate, locked, free_list, devvars, op, first, bh, want, cand,
                   ahead, sync, ll, budget, buffer_wait, ino, ilock>>

\* The end of file_write's copy, or block_write's b_dirt = 1; then brelse.
CopyEnd(p) ==
    /\ \/ Running(p, "store") /\ Store(p) /\ UNCHANGED dirt
       \/ /\ Running(p, "dirty")
          /\ dirt' = [dirt EXCEPT ![bh[p]] = TRUE]
          /\ UNCHANGED <<data, latest>>
    /\ GotoWait(p, "brelse", bh[p])
    /\ UNCHANGED <<blk, count, uptodate, locked, free_list, devvars, op, first, bh, want, cand,
                   ahead, sync, ll, budget, buffer_wait>>

\* Mutant: brelse without its wake_up.
Brelse_NoWake(p) ==
    /\ Running(p, "brelse")
    /\ ~locked[bh[p]]
    /\ count' = [count EXCEPT ![bh[p]] = @ - 1]
    /\ want' = [want EXCEPT ![p] = NULL]
    /\ ahead' = [ahead EXCEPT ![p] = <<>>]
    /\ ino' = [ino EXCEPT ![p] = 0]
    /\ ilock' = [i \in Inodes |-> IF i = ino[p] THEN NULL ELSE ilock[i]]
    /\ Finish(p)
    /\ UNCHANGED <<blk, dirt, uptodate, locked, data, free_list, devvars, latest, cand, sync, ll,
                   budget, buffer_wait, idirt>>

\* brelse after its wait, and the end of the operation; write_inode unlocks
\* the inode.
Brelse(p) ==
    /\ Running(p, "brelse")
    /\ ~locked[bh[p]]
    /\ count' = [count EXCEPT ![bh[p]] = @ - 1]
    /\ buffer_wait' = {}
    /\ want' = [want EXCEPT ![p] = NULL]
    /\ ahead' = [ahead EXCEPT ![p] = <<>>]
    /\ ino' = [ino EXCEPT ![p] = 0]
    /\ ilock' = [i \in Inodes |-> IF i = ino[p] THEN NULL ELSE ilock[i]]
    /\ Finish(p)
    /\ UNCHANGED <<blk, dirt, uptodate, locked, data, free_list, devvars, latest, cand, sync, ll,
                   budget, idirt>>

\* A system call.
Start(p, o, k) ==
    /\ pc[p] = "idle" /\ cpu = NULL /\ Outer(p) = NULL
    /\ o # "chmod"
    /\ budget[p] > 0
    /\ budget' = [budget EXCEPT ![p] = @ - 1]
    /\ op' = [op EXCEPT ![p] = o]
    /\ IF o \in {"sync_dev", "sys_sync"}
       THEN /\ sync' = [sync EXCEPT ![p] =
                 IF o = "sync_dev" THEN [dev |-> DevOf[k], i |-> 1, pass |-> 1, ret |-> "idle"]
                 ELSE [dev |-> NULL, i |-> 1, pass |-> 2, ret |-> "idle"]]
            /\ IF o = "sync_dev" THEN Goto(p, "sync") ELSE GotoInode(p, "sync_inodes", 1)
            /\ UNCHANGED <<first, want, ahead>>
       ELSE /\ first' = [first EXCEPT ![p] = k]
            /\ want' = [want EXCEPT ![p] = k]
            /\ ahead' = [ahead EXCEPT ![p] = IF o \in BreadaOps THEN AheadOf[k] ELSE <<>>]
            /\ Goto(p, "getblk")
            /\ UNCHANGED sync
    /\ UNCHANGED <<bufvars, devvars, latest, bh, cand, ll, buffer_wait, inodevars>>

-----------------------------------------------------------------------------
\* The device moves the data of a request.
Transfer(b) ==
    /\ io[b] \in {"READ", "WRITE"}
    /\ io' = [io EXCEPT ![b] = "done"]
    /\ IF io[b] = "READ" THEN data' = [data EXCEPT ![b] = disk[blk[b]]] /\ UNCHANGED disk
       ELSE disk' = [disk EXCEPT ![blk[b]] = data[b]] /\ UNCHANGED data
    /\ UNCHANGED <<blk, count, dirt, uptodate, locked, free_list, errors, procvars, inodevars, latest>>

\* end_request(1) after the transfer, end_request(0) instead of it.
EndRequest(b) ==
    /\ io[b] # "none"
    /\ \/ io[b] = "done" /\ uptodate' = [uptodate EXCEPT ![b] = TRUE] /\ UNCHANGED errors
       \/ /\ io[b] # "done" /\ errors > 0
          /\ errors' = errors - 1
          /\ uptodate' = [uptodate EXCEPT ![b] = FALSE]
    /\ locked' = [locked EXCEPT ![b] = FALSE]
    /\ io' = [io EXCEPT ![b] = "none"]
    /\ UNCHANGED <<blk, count, dirt, data, free_list, disk, procvars, inodevars, latest>>

Getblk(p) ==
    GetblkFound(p) \/ HashWait(p) \/ GetblkScan(p) \/ GetblkSleep(p) \/ GetblkAwake(p)
        \/ VictimRetry(p) \/ VictimClaim(p)

\* What touches no inode.
RunCache(p) ==
    \/ Getblk(p)
    \/ LLLock(p) \/ LLAdd(p) \/ LLForget(p)
    \/ SyncLoop(p) \/ SyncWait(p)
    \/ Fill(p) \/ NextAhead(p) \/ Ahead(p) \/ AheadDone(p) \/ Wait(p)
    \/ CopyEnd(p)

Run(p) ==
    \/ RunCache(p) /\ UNCHANGED inodevars
    \/ Copy(p) \/ Brelse(p) \/ BreadFailed(p)
    \/ SyncInodes(p) \/ InnerReturn(p) \/ LockInode(p)
    \/ Outer(p) # NULL /\ \E i \in Inodes : WriteInode(p, i)

Call(p) ==
    \/ \E o \in Ops, k \in Blocks : Start(p, o, k)
    \/ Outer(p) = NULL /\ \E i \in Inodes : WriteInode(p, i)
    \/ \E i \in Inodes : Chmod(p, i)

Next ==
    \/ \E p \in Frames : Run(p) \/ Call(p)
    \/ \E b \in Bufs : Transfer(b) \/ EndRequest(b)

\* Devices finish their requests; a process that can run does.
Fairness ==
    /\ \A b \in Bufs : WF_vars(Transfer(b)) /\ WF_vars(EndRequest(b))
    /\ \A t \in Tasks : WF_vars(\E d \in 0 .. NR_INODE : Run(<<t, d>>))

Spec == Init /\ [][Next]_vars /\ Fairness

-----------------------------------------------------------------------------
\* No block is in two buffers, although getblk may have slept many times
\* between looking for the block and giving it a buffer.
UniqueBlock == \A b, c \in Bufs : blk[b] = blk[c] /\ blk[b] # NULL => b = c

\* The labels at which cand[p] has been counted (a victim has not).
CountedCand(p) ==
    \/ pc[p] \in {"hash_wait", "ahead", "ahead_done"}
    \/ pc[p] \in {"ll_lock", "ll_slot"} /\ ll[p].ret = "ahead_done"

\* The references a process holds: the buffer of its operation, and the one
\* get_hash_table or breada has counted.
References(b) ==
    {<<p, "bh">> : p \in {r \in Frames : bh[r] = b}} \cup
    {<<p, "tmp">> : p \in {r \in Frames : cand[r] = b /\ CountedCand(r)}}

\* b_count is exact: every increment is undone once, on every path through
\* getblk, bread and breada, failed reads included; so "Trying to free free
\* buffer" cannot happen and no buffer leaks (and everything is of its type).
CountExact == TypeOK /\ \A b \in Bufs : count[b] = Cardinality(References(b))

\* A buffer in use stays the buffer of its block: nobody reclaims it while
\* its user sleeps for I/O, a request slot, other buffers or a page.
HeldKeepsBlock ==
    \A p \in Frames :
        /\ bh[p] # NULL => blk[bh[p]] = first[p]
        /\ CountedCand(p) /\ cand[p] # NULL => blk[cand[p]] = want[p]

\* A locked buffer has one owner: a request of a device or a process that is
\* about to make one.  It is then not anybody's to reclaim.
LockHasOneOwner ==
    \A b \in Bufs :
        LET makers == {p \in Frames : pc[p] = "ll_slot" /\ ll[p].tgt = b}
        IN  /\ locked[b] <=> (io[b] # "none" \/ makers # {})
            /\ Cardinality(makers) + (IF io[b] # "none" THEN 1 ELSE 0) <= 1
            /\ locked[b] => blk[b] # NULL

\* No write is lost: the last version of a block is on disk, or in the block's
\* buffer where it will still be written: dirty, in a write request, or in the
\* hands of the writer.
NothingLost ==
    \A k \in Blocks :
        \/ disk[k] = latest[k]
        \/ \E b \in Holding(k) :
              /\ data[b] = latest[k]
              /\ dirt[b] \/ io[b] = "WRITE" \/ count[b] > 0

\* What bread and breada return is the last version of the block.
ReadsLatest ==
    \A p \in Frames :
        pc[p] \in {"copy", "store", "dirty"} /\ op[p] # "block_write_full"
            => data[bh[p]] = latest[first[p]]

\* p waits in sync_inodes for an inode that it has itself locked, in the
\* write_inode that has led it there through bread, getblk and sync_dev.
WaitsForItself(p) ==
    /\ pc[p] = "sync_inodes" /\ sync[p].i \in Inodes
    /\ \E q \in Frames : ilock[sync[p].i] = q /\ q[1] = p[1]

\* Nobody waits for ever: every operation ends, although breada lets go of
\* buffers without wake_up, getblk starts over again and again, and sync_inodes
\* waits for locked inodes in the middle of it.  The one exception is a process
\* that meets its own inode there: it, and who needs what it holds, waits.
EveryoneFinishes ==
    \A t \in Tasks :
        pc[<<t, 0>>] # "idle" ~> pc[<<t, 0>>] = "idle" \/ \E p \in Frames : WaitsForItself(p)
=============================================================================

------------------------------- MODULE Inodes -------------------------------
(***************************************************************************)
(* The inode table and the zones of a file system: fs/inode.c, fs/bitmap.c *)
(* and fs/truncate.c.                                                      *)
(*                                                                         *)
(* A process runs without preemption (`cpu`) until it sleeps: in           *)
(* wait_on_inode, in bread or in getblk.  sleep_on and wake_up are covered *)
(* by WaitQueue, so waiting for a lock is a guard here, and what the buffer*)
(* cache holds counts as being on disk (BufferCache).  One device is       *)
(* mounted throughout; files are regular files with at most one name.      *)
(*                                                                         *)
(* The way to a block of a file is a chain of Depth[k] pointers: one for   *)
(* i_zone[0..6], two through i_zone[7], three through i_zone[8]; of each   *)
(* indirect block one entry is modelled.                                   *)
(***************************************************************************)
EXTENDS Integers, Sequences, FiniteSets, FiniteSetsExt

CONSTANTS
    Procs,
    NR_INODE,   \* entries of inode_table
    Nums,       \* inode numbers of the device
    Zones,      \* data zones of the device
    Depth,      \* Depth[k]: the length of the k-th way to a block
    MaxOps,     \* how many calls each process makes
    NULL

Slots == 1 .. NR_INODE
Ways == DOMAIN Depth

ASSUME InodeConstants ==
    /\ NR_INODE \in Nat \ {0}
    /\ Nums \subseteq Nat \ {0} /\ Nums # {} /\ Zones \subseteq Nat \ {0}
    /\ Depth \in Seq(1 .. 3) /\ MaxOps \in Nat /\ IsFiniteSet(Procs)
    /\ NULL \notin Procs \cup Slots

VARIABLES
    inode,      \* inode[s]: an entry of inode_table; num = 0 for i_dev = 0
    disk,       \* disk[n]: the inode n on disk
    imap, zmap, \* the set bits of the bitmaps
    entry,      \* entry[z]: the pointer in z, if z is an indirect block
    names,      \* the numbers that directory entries refer to
    proc,       \* proc[p]: the call process p is in
    cpu,        \* the process running in the kernel, NULL while none is
    panicked,   \* the routine that has called panic(), "no" before
    latest,     \* history: the inode as last changed in memory
    raced       \* history: two processes have met in a window the code leaves

vars == <<inode, disk, imap, zmap, entry, names, proc, cpu, panicked, latest, raced>>

Gone == [nlinks |-> 0, zone |-> [k \in Ways |-> 0]]

\* memset(inode,0,sizeof(*inode)).
Zero == [num |-> 0, count |-> 0, dirt |-> FALSE, lock |-> FALSE, img |-> Gone]

\* Between two calls; hold is the inode the process has a reference to.
Idle == [pc |-> "idle", ret |-> "idle", want |-> 0, cur |-> NULL, hold |-> NULL, empty |-> NULL,
         way |-> 0, chain |-> <<>>, new |-> 0, ops |-> MaxOps]

Labels == {"idle", "empty", "claim", "write", "writing", "search", "found", "reading", "enter",
           "iput", "sync", "bmap", "new_block", "trunc", "descend", "free", "free_inode"}

TypeOK ==
    /\ \A s \in Slots : /\ inode[s].num \in Nums \cup {0} /\ inode[s].count \in Nat
                        /\ inode[s].dirt \in BOOLEAN /\ inode[s].lock \in BOOLEAN
                        /\ inode[s].img.nlinks \in Nat
                        /\ inode[s].img.zone \in [Ways -> Zones \cup {0}]
    /\ imap \subseteq Nums /\ zmap \subseteq Zones /\ names \subseteq Nums
    /\ entry \in [Zones -> Zones \cup {0}]
    /\ \A p \in Procs : /\ proc[p].pc \in Labels /\ proc[p].ret \in Labels
                        /\ {proc[p].hold, proc[p].empty} \subseteq Slots \cup {NULL}
                        /\ proc[p].cur \in Slots \cup {NULL, NR_INODE + 1}
                        /\ proc[p].chain \in Seq(Zones)
                        /\ proc[p].way \in 0 .. Len(Depth) + 1
    /\ cpu \in Procs \cup {NULL}

\* After mount_root: one file with a name, without zones.
Init ==
    /\ inode = [s \in Slots |-> Zero]
    /\ disk = [n \in Nums |-> IF n = Min(Nums) THEN [Gone EXCEPT !.nlinks = 1] ELSE Gone]
    /\ latest = disk
    /\ imap = {Min(Nums)} /\ zmap = {} /\ names = {Min(Nums)}
    /\ entry = [z \in Zones |-> 0]
    /\ proc = [p \in Procs |-> Idle]
    /\ cpu = NULL /\ panicked = "no" /\ raced = FALSE

-----------------------------------------------------------------------------
\* p is at label l and may run.
At(p, l) == panicked = "no" /\ cpu \in {NULL, p} /\ proc[p].pc = l

\* p goes on as r without a sleep; sleeps and then goes on as r; waits for the
\* inode s first (wait_on_inode: the action at r.pc has ~inode[s].lock).
Runs(p, r) == proc' = [proc EXCEPT ![p] = r] /\ cpu' = p
Sleeps(p, r) == proc' = [proc EXCEPT ![p] = r] /\ cpu' = NULL
Waits(p, s, r) == proc' = [proc EXCEPT ![p] = r] /\ cpu' = IF inode[s].lock THEN NULL ELSE p

\* The call is over; p has the reference s.
Returns(p, s) == Sleeps(p, [Idle EXCEPT !.hold = s, !.ops = proc[p].ops])

panic(routine) == panicked' = routine

\* A new image of the inode in slot s: marked dirty, or as it was.
Changed(s, img) ==
    /\ inode' = [inode EXCEPT ![s].img = img, ![s].dirt = TRUE]
    /\ latest' = [latest EXCEPT ![inode[s].num] = img]

ChangedUnmarked(s, img) ==
    /\ inode' = [inode EXCEPT ![s].img = img]
    /\ latest' = [latest EXCEPT ![inode[s].num] = img]

-----------------------------------------------------------------------------
\* get_empty_inode: a free slot, by preference one that is clean and unlocked.
\* Which of several is left open (the code goes round from the last one).
GetEmptyInode(p) ==
    LET free == {s \in Slots : inode[s].count = 0}
        clean == {s \in free : ~inode[s].dirt /\ ~inode[s].lock}
    IN  /\ At(p, "empty")
        /\ IF free = {}
           THEN panic("get_empty_inode") /\ UNCHANGED <<proc, cpu>>
           ELSE /\ \E s \in IF clean # {} THEN clean ELSE free :
                      Waits(p, s, [proc[p] EXCEPT !.pc = "claim", !.cur = s])
                /\ UNCHANGED panicked
        /\ UNCHANGED <<inode, disk, imap, zmap, entry, names, latest, raced>>

\* The slot is unlocked: write it back, start again, or take it.
Claim(p) ==
    LET s == proc[p].cur IN
    /\ At(p, "claim") /\ ~inode[s].lock
    /\ IF inode[s].dirt
       THEN Runs(p, [proc[p] EXCEPT !.pc = "write", !.ret = "claim"]) /\ UNCHANGED inode
       ELSE IF inode[s].count > 0
       THEN Runs(p, [proc[p] EXCEPT !.pc = "empty"]) /\ UNCHANGED inode
       ELSE /\ inode' = [inode EXCEPT ![s] = [Zero EXCEPT !.count = 1]]
            /\ Runs(p, [proc[p] EXCEPT !.pc = "search", !.empty = s])
    /\ UNCHANGED <<disk, imap, zmap, entry, names, panicked, latest, raced>>

\* write_inode: lock, and read the inode's block unless there is nothing to do.
WriteInode(p) ==
    LET s == proc[p].cur IN
    /\ At(p, "write") /\ ~inode[s].lock
    /\ IF inode[s].dirt /\ inode[s].num # 0
       THEN /\ inode' = [inode EXCEPT ![s].lock = TRUE]
            /\ Sleeps(p, [proc[p] EXCEPT !.pc = "writing"])
       ELSE Runs(p, [proc[p] EXCEPT !.pc = proc[p].ret]) /\ UNCHANGED inode
    /\ UNCHANGED <<disk, imap, zmap, entry, names, panicked, latest, raced>>

\* The block is there: copy the inode into it, i_dirt = 0, unlock.
WriteDone(p) ==
    LET s == proc[p].cur IN
    /\ At(p, "writing")
    /\ disk' = [disk EXCEPT ![inode[s].num] = inode[s].img]
    /\ inode' = [inode EXCEPT ![s].dirt = FALSE, ![s].lock = FALSE]
    /\ Runs(p, [proc[p] EXCEPT !.pc = proc[p].ret])
    /\ UNCHANGED <<imap, zmap, entry, names, panicked, latest, raced>>

\* The entry of the inode table for number n, if there is one.
Cached(n) == {s \in Slots : inode[s].num = n}

\* iget gets its reference to s and gives the empty slot back.
Got(p, s) ==
    /\ inode' = [inode EXCEPT ![s].count = @ + 1, ![proc[p].empty].count = @ - 1]
    /\ Returns(p, s)

\* iget, the table searched after get_empty_inode: a hit may be locked; without
\* one the empty slot gets the number and is read with the lock held.
Search(p) ==
    LET n == proc[p].want  s == Min(Cached(n))  e == proc[p].empty IN
    /\ At(p, "search") /\ n # 0
    /\ IF Cached(n) = {}
       THEN /\ inode' = [inode EXCEPT ![e].num = n, ![e].lock = TRUE]
            /\ Sleeps(p, [proc[p] EXCEPT !.pc = "reading", !.hold = e, !.empty = NULL])
       ELSE IF inode[s].lock
       THEN Sleeps(p, [proc[p] EXCEPT !.pc = "found", !.cur = s]) /\ UNCHANGED inode
       ELSE Got(p, s)
    /\ UNCHANGED <<disk, imap, zmap, entry, names, panicked, latest, raced>>

\* iget, after wait_on_inode: is it the same inode still?  If not, once more.
Found(p) ==
    LET s == proc[p].cur IN
    /\ At(p, "found") /\ ~inode[s].lock
    /\ IF inode[s].num = proc[p].want
       THEN Got(p, s)
       ELSE Runs(p, [proc[p] EXCEPT !.pc = "search"]) /\ UNCHANGED inode
    /\ UNCHANGED <<disk, imap, zmap, entry, names, panicked, latest, raced>>

\* read_inode: the block has been read.
ReadDone(p) ==
    LET s == proc[p].hold IN
    /\ At(p, "reading")
    /\ inode' = [inode EXCEPT ![s].img = disk[inode[s].num], ![s].lock = FALSE]
    /\ Returns(p, s)
    /\ UNCHANGED <<disk, imap, zmap, entry, names, panicked, latest, raced>>

\* new_inode, after get_empty_inode (want = 0): the first number that is free.
NewInode(p) ==
    LET s == proc[p].empty  n == Min(Nums \ imap) IN
    /\ At(p, "search") /\ proc[p].want = 0
    /\ IF Nums \ imap = {}
       THEN /\ inode' = [inode EXCEPT ![s].count = @ - 1]
            /\ Returns(p, NULL)
            /\ UNCHANGED <<imap, latest>>
       ELSE /\ imap' = imap \cup {n}
            /\ inode' = [inode EXCEPT ![s] = [Zero EXCEPT !.num = n, !.count = 1, !.dirt = TRUE,
                                                          !.img.nlinks = 1]]
            /\ latest' = [latest EXCEPT ![n] = inode'[s].img]
            /\ Runs(p, [proc[p] EXCEPT !.pc = "enter", !.hold = s, !.empty = NULL])
    /\ UNCHANGED <<disk, zmap, entry, names, panicked, raced>>

\* The caller of new_inode (Directories) enters the name, or cannot and gives
\* the inode up: i_nlinks--, iput.
Enter(p) ==
    LET s == proc[p].hold IN
    /\ At(p, "enter")
    /\ \/ /\ names' = names \cup {inode[s].num}
          /\ Returns(p, s)
          /\ UNCHANGED <<inode, latest>>
       \/ /\ Changed(s, [inode[s].img EXCEPT !.nlinks = @ - 1])
          /\ Runs(p, [proc[p] EXCEPT !.pc = "iput"])
          /\ UNCHANGED names
    /\ UNCHANGED <<disk, imap, zmap, entry, panicked, raced>>

-----------------------------------------------------------------------------
\* Two of the windows the code leaves: another process is in iget for inode n;
\* another process is in _bmap or truncate on slot s, on way k or any.
Sought(p, n) == \E q \in Procs \ {p} : proc[q].want = n /\ n # 0
Busy(p, s, k) ==
    \E q \in Procs \ {p} :
        /\ proc[q].hold = s
        /\ \/ proc[q].pc \in {"trunc", "descend", "free"}
           \/ proc[q].pc \in {"bmap", "new_block"} /\ k \in {0, proc[q].way}

\* Mutant: the inode is freed though somebody else still refers to it.
iput_NoCount(p) ==
    LET s == proc[p].hold IN
    /\ At(p, "iput") /\ ~inode[s].lock
    /\ IF inode[s].img.nlinks = 0
       THEN /\ raced' = (raced \/ Sought(p, inode[s].num))
            /\ Runs(p, [proc[p] EXCEPT !.pc = "trunc", !.ret = "free_inode", !.way = 1])
            /\ UNCHANGED inode
       ELSE /\ inode' = [inode EXCEPT ![s].count = @ - 1]
            /\ Returns(p, NULL)
            /\ UNCHANGED raced
    /\ UNCHANGED <<panicked, disk, imap, zmap, entry, names, latest>>

\* Mutant: the last reference is dropped without writing the inode back.
iput_NoWrite(p) ==
    LET s == proc[p].hold IN
    /\ At(p, "iput") /\ ~inode[s].lock
    /\ IF inode[s].count = 1 /\ inode[s].img.nlinks = 0
       THEN /\ raced' = (raced \/ Sought(p, inode[s].num))
            /\ Runs(p, [proc[p] EXCEPT !.pc = "trunc", !.ret = "free_inode", !.way = 1])
            /\ UNCHANGED inode
       ELSE /\ inode' = [inode EXCEPT ![s].count = @ - 1, ![s].dirt = FALSE]
            /\ Returns(p, NULL)
            /\ UNCHANGED raced
    /\ UNCHANGED <<panicked, disk, imap, zmap, entry, names, latest>>

\* iput, once the inode is unlocked.
iput(p) ==
    LET s == proc[p].hold IN
    /\ At(p, "iput") /\ ~inode[s].lock
    /\ IF inode[s].count = 0
       THEN panic("iput") /\ UNCHANGED <<inode, proc, cpu, raced>>
       ELSE /\ UNCHANGED panicked
            /\ IF inode[s].count = 1 /\ inode[s].img.nlinks = 0
               THEN /\ raced' = (raced \/ Sought(p, inode[s].num))
                    /\ Runs(p, [proc[p] EXCEPT !.pc = "trunc", !.ret = "free_inode", !.way = 1])
                    /\ UNCHANGED inode
               ELSE IF inode[s].count = 1 /\ inode[s].dirt
               THEN /\ Runs(p, [proc[p] EXCEPT !.pc = "write", !.ret = "iput", !.cur = s])
                    /\ UNCHANGED <<inode, raced>>
               ELSE /\ inode' = [inode EXCEPT ![s].count = @ - 1]
                    /\ Returns(p, NULL)
                    /\ UNCHANGED raced
    /\ UNCHANGED <<disk, imap, zmap, entry, names, latest>>

\* free_inode, the end of iput of a file without names.  The third window: the
\* entry is cleared though sync_inodes has locked it while truncate slept.
free_inode(p) ==
    LET s == proc[p].hold IN
    /\ At(p, "free_inode")
    /\ IF inode[s].count > 1 \/ inode[s].img.nlinks > 0
       THEN panic("free_inode") /\ UNCHANGED <<inode, imap, proc, cpu, raced>>
       ELSE /\ imap' = imap \ {inode[s].num}
            /\ inode' = [inode EXCEPT ![s] = Zero]
            /\ Returns(p, NULL)
            /\ raced' = (raced \/ inode[s].lock)
            /\ UNCHANGED panicked
    /\ UNCHANGED <<disk, zmap, entry, names, latest>>

\* sync_inodes: slot after slot, waiting for each.
SyncInodes(p) ==
    LET s == proc[p].cur IN
    /\ At(p, "sync")
    /\ IF s > NR_INODE
       THEN Returns(p, proc[p].hold)
       ELSE /\ ~inode[s].lock
            /\ IF inode[s].dirt
               THEN Runs(p, [proc[p] EXCEPT !.pc = "write", !.ret = "sync"])
               ELSE IF s < NR_INODE
               THEN Waits(p, s + 1, [proc[p] EXCEPT !.cur = s + 1])
               ELSE Runs(p, [proc[p] EXCEPT !.cur = s + 1])
    /\ UNCHANGED <<inode, disk, imap, zmap, entry, names, panicked, latest, raced>>

-----------------------------------------------------------------------------
\* The pointer _bmap looks at: in the inode, or in the last block on the way.
Cell(p) ==
    LET c == proc[p].chain IN
    IF c = <<>> THEN inode[proc[p].hold].img.zone[proc[p].way] ELSE entry[c[Len(c)]]

\* Zone z is on the way: the block, or an indirect block to be read.
Onward(p, z) ==
    IF Len(proc[p].chain) + 1 = Depth[proc[p].way]
    THEN Returns(p, proc[p].hold)
    ELSE Sleeps(p, [proc[p] EXCEPT !.pc = "bmap", !.chain = Append(@, z), !.new = 0])

\* _bmap with create: follow the pointer, or have new_block take the first
\* free zone; the bit is set, then getblk may sleep.
Bmap(p) ==
    LET z == Min(Zones \ zmap) IN
    /\ At(p, "bmap")
    /\ IF Cell(p) # 0
       THEN Onward(p, Cell(p)) /\ UNCHANGED zmap
       ELSE IF Zones \ zmap = {}
       THEN Returns(p, proc[p].hold) /\ UNCHANGED zmap
       ELSE /\ zmap' = zmap \cup {z}
            /\ Sleeps(p, [proc[p] EXCEPT !.pc = "new_block", !.new = z])
    /\ UNCHANGED <<inode, disk, imap, entry, names, panicked, latest, raced>>

\* new_block has its buffer: clear it, and store the pointer.
NewBlock(p) ==
    LET z == proc[p].new  s == proc[p].hold  c == proc[p].chain IN
    /\ At(p, "new_block")
    /\ IF c = <<>>
       THEN /\ Changed(s, [inode[s].img EXCEPT !.zone[proc[p].way] = z])
            /\ entry' = [entry EXCEPT ![z] = 0]
       ELSE /\ entry' = [entry EXCEPT ![z] = 0, ![c[Len(c)]] = z]
            /\ UNCHANGED <<inode, latest>>
    /\ Onward(p, z)
    /\ UNCHANGED <<disk, imap, zmap, names, panicked, raced>>

\* truncate: the ways in turn; the pointers to indirect blocks are cleared, and
\* the inode is marked dirty, at the end.
Truncate(p) ==
    LET s == proc[p].hold  k == proc[p].way  img == inode[s].img
        done == [img EXCEPT !.zone = [j \in Ways |-> IF Depth[j] > 1 THEN 0 ELSE @[j]]]
    IN  /\ At(p, "trunc")
        /\ IF k > Len(Depth)
           THEN /\ Changed(s, done)
                /\ IF proc[p].ret = "free_inode"
                   THEN Runs(p, [proc[p] EXCEPT !.pc = "free_inode"])
                   ELSE Returns(p, s)
           ELSE /\ IF img.zone[k] = 0
                   THEN Runs(p, [proc[p] EXCEPT !.way = k + 1])
                   ELSE Sleeps(p, [proc[p] EXCEPT
                                     !.chain = <<img.zone[k]>>,
                                     !.pc = IF Depth[k] = 1 THEN "free" ELSE "descend"])
                /\ UNCHANGED <<inode, latest>>
        /\ UNCHANGED <<disk, imap, zmap, entry, names, panicked, raced>>

\* free_ind, free_dind: the indirect block has been read, its entry goes first.
Descend(p) ==
    LET c == proc[p].chain  e == entry[c[Len(c)]] IN
    /\ At(p, "descend")
    /\ IF e = 0
       THEN Sleeps(p, [proc[p] EXCEPT !.pc = "free"])
       ELSE Sleeps(p, [proc[p] EXCEPT !.chain = Append(@, e),
                         !.pc = IF Len(c) + 1 < Depth[proc[p].way] THEN "descend" ELSE "free"])
    /\ UNCHANGED <<inode, disk, imap, zmap, entry, names, panicked, latest, raced>>

\* Mutant: the pointer is not cleared.
Freed_KeepPointer(p) ==
    LET c == proc[p].chain  k == proc[p].way IN
    /\ IF Len(c) > 1
       THEN Sleeps(p, [proc[p] EXCEPT !.chain = SubSeq(c, 1, Len(c) - 1)])
       ELSE Runs(p, [proc[p] EXCEPT !.pc = "trunc", !.chain = <<>>, !.way = k + 1])
    /\ UNCHANGED <<inode, latest>>

\* After free_block: the block that led here is next, or the next way.  The
\* pointer to a direct block is cleared here; i_dirt is not set.
Freed(p) ==
    LET s == proc[p].hold  c == proc[p].chain  k == proc[p].way IN
    /\ IF Len(c) > 1
       THEN Sleeps(p, [proc[p] EXCEPT !.chain = SubSeq(c, 1, Len(c) - 1)])
       ELSE Runs(p, [proc[p] EXCEPT !.pc = "trunc", !.chain = <<>>, !.way = k + 1])
    /\ IF Len(c) = 1 /\ Depth[k] = 1
       THEN ChangedUnmarked(s, [inode[s].img EXCEPT !.zone[k] = 0])
       ELSE UNCHANGED <<inode, latest>>

\* free_block, after get_hash_table: while another process that holds the file
\* has the block in use nothing is freed; otherwise the bit is cleared.
FreeBlock(p) ==
    LET c == proc[p].chain  z == c[Len(c)] IN
    /\ At(p, "free")
    /\ \/ /\ \E q \in Procs \ {p} : proc[q].hold = proc[p].hold
          /\ Freed(p)
          /\ raced' = TRUE
          /\ UNCHANGED <<zmap, panicked>>
       \/ /\ IF z \in zmap
             THEN zmap' = zmap \ {z} /\ Freed(p) /\ UNCHANGED panicked
             ELSE panic("free_block") /\ UNCHANGED <<zmap, inode, latest, proc, cpu>>
          /\ UNCHANGED raced
    /\ UNCHANGED <<disk, imap, entry, names>>

-----------------------------------------------------------------------------
\* The calls a process makes between its sleeps (open, creat, write, unlink,
\* close, open with O_TRUNC, sync), at most MaxOps of them.
Call(p, r) ==
    /\ At(p, "idle") /\ proc[p].ops > 0
    /\ Runs(p, [r EXCEPT !.ops = @ - 1])

Open(p) ==
    /\ proc[p].hold = NULL
    /\ \E n \in names : Call(p, [proc[p] EXCEPT !.pc = "empty", !.want = n])
    /\ UNCHANGED <<inode, disk, imap, zmap, entry, names, panicked, latest, raced>>

Create(p) ==
    /\ proc[p].hold = NULL
    /\ Call(p, [proc[p] EXCEPT !.pc = "empty"])
    /\ UNCHANGED <<inode, disk, imap, zmap, entry, names, panicked, latest, raced>>

Write(p) ==
    /\ proc[p].hold # NULL
    /\ \E k \in Ways :
          /\ Call(p, [proc[p] EXCEPT !.pc = "bmap", !.way = k])
          /\ raced' = (raced \/ Busy(p, proc[p].hold, k))
    /\ UNCHANGED <<inode, disk, imap, zmap, entry, names, panicked, latest>>

OpenTrunc(p) ==
    /\ proc[p].hold # NULL
    /\ Call(p, [proc[p] EXCEPT !.pc = "trunc", !.way = 1])
    /\ raced' = (raced \/ Busy(p, proc[p].hold, 0))
    /\ UNCHANGED <<inode, disk, imap, zmap, entry, names, panicked, latest>>

Unlink(p) ==
    LET s == proc[p].hold IN
    /\ s # NULL /\ inode[s].num \in names
    /\ Call(p, [proc[p] EXCEPT !.pc = "iput"])
    /\ names' = names \ {inode[s].num}
    /\ Changed(s, [inode[s].img EXCEPT !.nlinks = @ - 1])
    /\ UNCHANGED <<disk, imap, zmap, entry, panicked, raced>>

Close(p) ==
    /\ proc[p].hold # NULL
    /\ Call(p, [proc[p] EXCEPT !.pc = "iput", !.ops = @ + 1])
    /\ UNCHANGED <<inode, disk, imap, zmap, entry, names, panicked, latest, raced>>

Sync(p) ==
    /\ Call(p, [proc[p] EXCEPT !.pc = "sync", !.cur = 1])
    /\ UNCHANGED <<inode, disk, imap, zmap, entry, names, panicked, latest, raced>>

Steps(p) ==
    \/ GetEmptyInode(p) \/ Claim(p) \/ WriteInode(p) \/ WriteDone(p)
    \/ Search(p) \/ Found(p) \/ ReadDone(p) \/ NewInode(p) \/ Enter(p)
    \/ iput(p) \/ free_inode(p) \/ SyncInodes(p)
    \/ Bmap(p) \/ NewBlock(p) \/ Truncate(p) \/ Descend(p) \/ FreeBlock(p)

Next == \E p \in Procs : \/ Steps(p) \/ Open(p) \/ Create(p) \/ Write(p) \/ OpenTrunc(p)
                         \/ Unlink(p) \/ Close(p) \/ Sync(p)

Spec == Init /\ [][Next]_vars

-----------------------------------------------------------------------------
\* i_count is the number of references processes have: those an iget or
\* new_inode returned, and the empty slots that calls in progress have taken.
\* The panics of iput, free_inode and free_block are never called, and that of
\* get_empty_inode only when there is a reference to every entry of the table.
CountExact ==
    ~raced =>
        /\ TypeOK
        /\ \A s \in Slots : inode[s].count = Cardinality({p \in Procs : proc[p].hold = s})
                                            + Cardinality({p \in Procs : proc[p].empty = s})
        /\ \/ panicked = "no"
           \/ panicked = "get_empty_inode" /\ \A s \in Slots : inode[s].count > 0

\* A process truncates inode n: of what it has freed, it still finds some, and
\* what it has changed is not marked yet.
Truncating(n) == \E p \in Procs : /\ proc[p].hold # NULL /\ inode[proc[p].hold].num = n
                                  /\ proc[p].pc \in {"trunc", "descend", "free"}

\* An inode has at most one entry in the table, though iget and get_empty_inode
\* sleep between looking for it and making the entry; the number of one that is
\* in use is marked in the bitmap; and no change of an inode is lost: what was
\* last written to it is on disk, or in an entry that is dirty or that truncate,
\* which sets i_dirt only when it has freed everything, is going to mark.
InodeKept ==
    ~raced =>
        /\ \A s, t \in Slots : inode[s].num = inode[t].num /\ inode[s].num # 0 => s = t
        /\ \A s \in Slots : inode[s].count > 0 /\ inode[s].num # 0 => inode[s].num \in imap
        /\ \A n \in imap :
              \/ disk[n] = latest[n]
              \/ \E s \in Slots : /\ inode[s].num = n /\ inode[s].img = latest[n]
                                  /\ inode[s].dirt \/ Truncating(n)

\* The zones that inodes refer to, the inode taken from memory if it is there.
Present(n) ==
    LET s == {t \in Cached(n) : ~(inode[t].lock /\ ~inode[t].dirt)} IN
    IF s = {} THEN disk[n] ELSE inode[Min(s)].img

\* The i-th zone on way k that begins with zone a, f the pointers in indirect
\* blocks; 0 if there is none.
Hop(f, a, k, i) ==
    LET b == IF a = 0 \/ Depth[k] < 2 THEN 0 ELSE f[a]
        c == IF b = 0 \/ Depth[k] < 3 THEN 0 ELSE f[b]
    IN  IF i = 1 THEN a ELSE IF i = 2 THEN b ELSE c

\* The zone that the i-th place of way k of inode n refers to.
ZoneAt(n, k, i) == Hop(entry, Present(n).zone[k], k, i)

\* The bit of every zone a file refers to is set, and no other file and no
\* other place of the same file refers to it; every set bit is accounted for
\* by a file or by the one process that is about to store the new pointer.
ZonesExact ==
    ~raced =>
        LET places == {x \in imap \X Ways \X (1 .. 3) :
                          ~Truncating(x[1]) /\ ZoneAt(x[1], x[2], x[3]) # 0}
            used == {ZoneAt(x[1], x[2], x[3]) : x \in places}
            given == {proc[p].new : p \in Procs} \ {0}
        IN  /\ used \cup given \subseteq zmap /\ used \cap given = {}
            /\ \A x, y \in places : ZoneAt(x[1], x[2], x[3]) = ZoneAt(y[1], y[2], y[3]) => x = y
            /\ \A p, q \in Procs : proc[p].new = proc[q].new /\ proc[p].new # 0 => p = q
            /\ (\A n \in Nums : ~Truncating(n)) => zmap = used \cup given

=============================================================================

# A TLA+ development for Linux 0.11

This directory specifies the concurrent core of the kernel in `src/`, checks
the specifications with TLC on small instances and proves the theorems below
with TLAPS. Every definition is translated from the C source; `PROJECT.json`
maps each one to the lines it stands for.

## 1. The system

Linux 0.11 runs on one processor. A process in the kernel is never preempted:
it runs until it calls `schedule()`, almost always through `sleep_on`, or until
it touches user memory that is not present and sleeps in the page fault.
Interrupt handlers (disk, floppy, timer, terminals) run between any two
instructions unless the code has called `cli()`. Nearly everything that can go
wrong comes from these two facts: state that was read before a sleep is used
after it, and handlers change lists and locks that a process is working on.

In the modules an action is the code between two points where the process may
lose the processor. Where interrupts may come in between, the action is split
further and a variable `cpu` names the process that must go on.

### Components

| component | state | operations | interacts with | what makes it correct |
|---|---|---|---|---|
| sleep and wake-up (`kernel/sched.c`) | task states; queue heads; saved pointers on stacks | `sleep_on`, `interruptible_sleep_on`, `wake_up`, signal loop of `schedule` | everything that waits | no sleeper is lost; nobody is woken for somebody else's event; released tasks return |
| block requests (`ll_rw_blk.c`, `blk.h`) | request table, a list per device, buffer locks | `make_request`, `add_request`, `end_request` | buffer cache above, drivers below, interrupts | lists and locks consistent; elevator order; no starvation |
| hard disk (`hd.c`) | list, handler of the next interrupt, `reset`, `recalibrate` | `do_hd_request`, `read_intr`, `write_intr`, `recal_intr` | request queue, controller | every request ends, with its own two sectors moved; no unexpected interrupt |
| floppy (`floppy.c`) and timers (`sched.c`) | drive, track, motors, select, timer list, motor timers | `do_fd_request`, interrupt handlers, `floppy_on/off`, `add_timer`, `do_timer`, `floppy_change` | request queue, clock, controller | no command to a drive that is not ready; the select is released; every request ends |
| buffer cache (`fs/buffer.c`) | buffer heads, hash, free list | `getblk`, `bread`, `breada`, `brelse`, `sync_dev`, `sys_sync` | request queue, all of `fs/`; the inode table, which `sync_dev` writes in the middle of `getblk` | one buffer per block; exact counts; no lost or stale data; calls end |
| file and block I/O (`file_dev.c`, `block_dev.c`) | file positions | `file_read/write`, `block_read/write` | buffer cache, user memory | data reaches the disk |
| memory (`mm/memory.c`) with `fork.c`, `exec.c`, `exit.c` | `mem_map`, page tables, dirty and write bits | copy-on-write, demand loading, sharing, fork, exec, exit | buffer cache (`bread_page`), every system call that writes to user memory | exact counts; no writable shared page; isolation |
| pipes (`fs/pipe.c`) | a page, head and tail, `i_count`, `i_wait` | read, write, close | sleep/wake-up, file table, page faults | FIFO; no mutual waiting; close wakes |
| inode table, bitmaps, truncate (`inode.c`, `bitmap.c`, `truncate.c`) | `inode_table`, bitmaps, `i_zone` | `iget`, `iput`, `sync_inodes`, `_bmap`, `new_block`, `free_block`, `new_inode`, `free_inode`, `truncate` | cache, super blocks | one inode per number; nothing of it lost; a zone has one owner; counts |
| directories (`namei.c`) and open files (`open.c`, `fcntl.c`) | directory blocks, `file_table`, `filp` | open, close, dup, mknod, mkdir, rmdir, link, unlink | inodes, cache | every way out gives back what was taken; link counts; a name once |
| processes and scheduler (`fork.c`, `exit.c`, `signal.c`, `sched.c`, `init/main.c`) | task table, pids, signals, counters | fork, exit, waitpid, kill, pause, `schedule`, `do_timer` | memory, files, tty | a living father for all; zombies reaped; no starvation |
| terminals (`tty_io.c`, `serial.c`, `rs_io.s`, `tty_ioctl.c`) | three queues, line count, mode, transmitter | `tty_read/write`, `copy_to_cooked`, the serial interrupts | processes, signals | line counts; output goes out; reads and writes return |
| super blocks, console, keyboard, `malloc`, ram disk, boot, traps, printing, library stubs, maths, tools | | | | not modelled, see section 8 |

The hard behaviours, each at its line, are the list `hazards` of
`PROJECT.json`.

## 2. Modules

| module | models | composed with |
|---|---|---|
| `WaitQueue` | `sleep_on`, `interruptible_sleep_on`, `wake_up`, signals and exit as far as they touch a task's state | refines `WaitSet` (in `MCWaitQueue`) |
| `WaitSet` | the abstract promise: a wake-up releases exactly those waiting | |
| `Elevator` | `IN_ORDER` and the place where `add_request` links a request | used by the next three |
| `BlockQueue` | `make_request`, `add_request`, `end_request`, and `sleep_on(&wait_for_request)` statement by statement | relies on WaitQueue for `b_wait` |
| `HardDisk` | `hd.c` with `add_request` above it and a controller below | what BlockQueue's `EndRequest` stands for |
| `Floppy` | `floppy.c`, the timers and motors of `sched.c`, `floppy_change` | likewise |
| `BufferCache` | `getblk`, `bread`, `breada`, `brelse`, the sync calls with `sync_inodes` and `write_inode` in them; `file_*` and `block_*` as users | sees of BlockQueue: lock, slot, `b_dirt = 0`, completion in any order; of Inodes: `i_lock` and `i_dirt` |
| `Memory` | `mm/memory.c` with fork, exec, exit, release, `verify_area` and kernel stores | |
| `Pipe` | `read_pipe`, `write_pipe`, `get_pipe_inode`, `iput`, `sys_close` | `i_wait` as a set, by WaitSet |
| `Inodes` | `inode.c`, `bitmap.c`, `truncate.c` under open, create, write, truncate, unlink, close, sync | takes the cache for the disk (BufferCache) |
| `Directories` | `namei.c`, the descriptors and files of `open.c`, `fcntl.c`, `copy_process` | takes of Inodes an inode per number with its counts |
| `Processes` | fork, exit, waitpid, kill, pause, masks, delivery, `schedule`, `do_timer`, the loop of `init()` | gives the others the fairness of the scheduler |
| `Tty` | `tty_io.c`, `rs_io.s`, `serial.c`, the ioctls that change queues or mode | |
| `TaskProofs` | theorems about `Processes`, `WaitQueue` and `Directories` (section 6) | extends the three |
| `StreamProofs` | theorems about `Pipe` and about `Tty` | extends both |
| `BlockQueueProofs`, `HardDiskProofs`, `BufferCacheProofs`, `MemoryProofs`, `InodeProofs`, `FloppyProofs` | theorems about the module they are named after (section 6) | BlockQueueProofs and HardDiskProofs have the lemmas on Elevator they need |
| `MC*` | constants and derived operators for TLC | |

Correspondence worth knowing before reading:

* **WaitQueue.** `queue[q]` is `*p`; `tmp[t]` the local variable of the
  activation task `t` is in, `on[t]` its queue. `interruptible`, fixed at the
  start, is the set of queues `interruptible_sleep_on` is used with. `SleepOn` ends in `schedule()`;
  `SleepOnReturn` is the code behind it. Callers whose queues are woken by
  interrupts have interrupts off (`lock_buffer`, `wait_on_buffer`,
  `sleep_if_empty`, ...), which is why entering is one step. The exceptions are
  `sleep_on(&wait_for_request)`, in BlockQueue, and the two sleeps of
  `floppy_change`, in Floppy (`ChangeSleep`): `ticks_to_floppy_on` ends with
  `sti()`.
* **BlockQueue.** `current[m]` is the linked list as a sequence of slots. A
  buffer is identified with its block. `EndRequest` is the completion interrupt
  of any driver; what drivers do before it is in HardDisk and Floppy.
* **HardDisk.** `drv` marks a `do_hd_request` in progress; `ctl` is the
  controller's command (external), `same` the halves of buffers that agree with
  the disk, which is all the properties need of the data. `Reject`, `NoWork`,
  `Reset`, `Recalibrate`, `Read` and `Write` are the ways through
  `do_hd_request`; `IntrError` is any handler that finds a bad status.
* **Floppy.** `call` names the routine that runs next, so that a chain of
  `goto`s and function pointers is a chain of actions; `mon`, `moff` and
  `timers` are counted down by `Clock`. `output_byte` may fail at every command
  (`reset`). `Submit` calls `do_fd_request` whenever the list was empty, also in
  the middle of a recovery. `call` is `panic` or `wild` where the code panics or
  uses CURRENT without a request.
* **BufferCache.** `want`/`cand` are the block and the buffer `getblk` works
  on, with one label for each of its sleeps. `sync_dev` and `sys_sync` call
  `sync_inodes`, which calls `write_inode`, which calls `bread` and `getblk`
  again, so the state of a call belongs to a frame: `<<t, 0>>` is the system call
  of process `t`, `<<t, d>>` the `write_inode` called d deep. A frame above the
  first has an inode locked (`ilock`), so there are never more than `NR_INODE`.
  `Chmod` stands for every call that changes an inode and leaves it dirty
  (`idirt`). `data` and `disk` hold version numbers; `latest[k]` is a history
  variable. `Transfer` (the DMA or the `insw` loop) is external. Left out here:
  `read_inode`, which has an inode locked across `bread` just as `write_inode`
  has, the calls of `write_inode` in `iput` (those are in Inodes), and pipes'
  inodes, which `sync_inodes` passes over.
* **Memory.** A page table occupies a page, as in the code, so running out of
  memory can strike at each `get_free_page`. `mem` is a history variable: what
  the program must find; `execed` records that somebody has called `exec`. Processor stores are external actions.
* **Pipe.** A byte is its number; `written`, `read`, `delivered` and `faulted` are
  history variables. `pos`, `chars`, `nth` describe a copy interrupted by a page fault.
* **Inodes.** A label is the place of a sleep (`empty`, `found`, `reading`,
  `writing`, `bmap`, `new_block`, `descend`, `free`, ...); `ret` is the caller.
  The zones of a file are ways of one, two or three pointers, for direct,
  indirect and doubly indirect blocks. `truncate` sets pointers to zero as it
  goes along and `i_dirt` only at its end (`truncate.c:62`). `panicked` names the
  routine that has called `panic`, that of `get_empty_inode` included.
* **Directories.** `dir`, `ino`, `old`, `de` are the local variables of the
  calls; `puts` the `iput`s at the end of a path through the code, one step each;
  `held` counts buffers from `bread`, `leaked` the one `empty_dir` keeps of a bad
  directory. `fd` is the descriptor `sys_open` has reserved. Entries have an
  index, so that a stale `de` is a stale index. `scan` is how far a search has
  come: `find_entry`, `add_entry` and `empty_dir` sleep between blocks, and
  `Extend`/`Extended` are the two halves of `create_block`, before and after
  `new_block` sleeps. A path that ends in a slash has the last name `""`, and `<<>>` is
  the empty path.
* **Processes.** `task[i]` is the task structure; `pc` says where in the kernel
  a process is. `schedule(t)` is the whole of `schedule()`: signals, choice,
  recharge. `shell` is the variable `pid` of `init()`. Init installs no handler,
  so `SIGTERM` kills it as it kills others; any `fork` may fail for want of
  memory.
* **Tty.** `secondary` and `read_q` hold characters, of the write queue only the
  number counts; one step per turn of `copy_to_cooked`'s and `tty_read`'s loops.
  `SetTermios` replaces `c_lflag` and `c_cc`.

**Windows and their history variables.** In four modules the code leaves
windows in which two calls that meet do damage (section 4). The actions are those
of the code, also there; a history variable records the meeting, and some
properties are about the time before it.

* Inodes, `raced`: another call looks for the inode that `iput` is about to
  free, is at the same way of a file as `_bmap`, or has locked the inode that
  `free_inode` clears. Counts, contents and zones are exact until then.
* Directories, `raced`: a name is entered or removed that another call has just
  looked up and relies on, or entered behind the place where another's search
  already is (`Misses`); two `add_entry`s have extended a directory by the same
  block (`Extended`); an `iget` finds the inode freed; the stale entry of an
  `unlink`; the double free of `sys_mkdir`. `i_count` and the tree are exact until
  then; buffers, files and descriptors always.
* Floppy, `overtaken`: a request has come to an empty list while the controller
  still recovers from the last one. The module goes on with the code's routines (a
  command given twice, a second timer), `MaxOvertaken` bounds the requests that
  follow.
* Tty, `raced`: `tty_read` has taken a character that was erased under its hands;
  `recounted`: a new `VEOF` makes other characters of the queue line ends than those
  counted.

A meeting that does no harm sets none of them.

Definitions ending in `_NoSomething` and the like, commented *Mutant*, are
plausible mistakes. `PROJECT.json` lists for each property a mutant of the
code's definition under which TLC reports the property violated.

## 3. Runs

| run | instance | what it shows |
|---|---|---|
| `wait_queue` | 3 tasks, 2 queues, each with or without `interruptible_sleep_on`, signals | `NoOrphan` and `ReleasedReturns`, also through wake-ups out of turn; where only `sleep_on` is used `ProperChains` and `WaitSetSpec`: the chain implements WaitSet, liveness included |
| `block_queue` | 2 processes, 2 disks with 3 blocks, 2 slots | `QueuesSound`, `LockOwned` |
| `buffer_cache` | 2 processes, 3 blocks on 2 devices, 2 buffers, an inode, 2 calls each, one failing transfer, full request table | `UniqueBlock`, `CountExact`, `HeldKeepsBlock`, `LockHasOneOwner` |
| `buffer_contents` | the same with block writes, `sync_dev`, `sys_sync` and changes of the inode, no errors | `NothingLost`, `ReadsLatest`; `EveryoneFinishes`, unless a process meets in `sync_inodes` the inode it has locked itself |
| `memory` | 3 tasks, 8 pages, 2 addresses in 2 tables, 2 executables | `MapExact`, `WritableUnshared` through every out-of-memory path; `ForkIsolation` |
| `pipe` | 2 readers, 1 writer, page of 4, 5 bytes, counts up to 4, page faults in copies | `RingExact`, `InOrder`, `NotBothAsleep`, `NobodyForgotten`, `CallsReturn` |
| `inodes` | 3 processes with 2 calls each, 2 table entries, 2 inode numbers, 3 zones, a direct and an indirect way | `CountExact`, with the panic of `get_empty_inode` reachable; `InodeKept`, `ZonesExact` |
| `directories` | 2 processes with 2 calls each out of 15, dup, fork and close; 4 inodes, 5 zones, full blocks of 2 entries, 2 descriptors, 2 files | `Balanced`, `TreeExact` |
| `hard_disk` | 4 blocks on 2 partitions, one beyond the end; 3 errors; tracks of 3 sectors on 2 heads; any pattern of errors | `Outstanding`, `OneSweep`, `Transferred`, `EveryRequestServed` |
| `floppy` | 2 drives, 3 blocks, one fault of the controller, any read and write errors, a process in `floppy_change`, a request that overtakes a recovery | until then `DriveReady`, `SelectReleased`, `EveryRequestServed` |
| `tty` | a reader, a writer, queues of 4 places, 3 characters typed, reads of up to 2 and writes of 1, changes of mode and of the control characters | `LinesCounted` until a new `VEOF` or an erase under a read, `Transmitting`, `ReaderServed`, `WriterServed` |
| `processes` | init and 2 more processes, 4 process numbers, one fork of others, any of them killed | `FatherLives`, `Reaped`, `NoStarvation` |

Bounds. Three tasks are the least with a middle of the chain (one before, one
after); two queues let a stale pointer hit a task asleep elsewhere. Two slots
for three blocks let reads, writes and read-aheads all find the request table
full. Fewer buffers than blocks force every path of `getblk`; two processes
suffice because every race there is between one process and one other, and
`MaxOps = 2` lets a second call meet what the first left behind. Eight pages
are fewer than what the tasks could use, so every allocation fails somewhere,
and enough for three tasks that share pages; two tables let `copy_page_tables`
fail half-way. A page of four with five bytes wraps the ring in the middle of a
call, and a count of four exceeds what fits.

Two table entries for three processes make every `get_empty_inode` evict, let
it find none and panic, and let a process hold an inode while another looks for
it; three zones run out in the middle of an indirect allocation. In `directories`
every block is full at the start, so each entry needs a new block: two processes
can be in `create_block` for one directory, and with two free zones and `mkdir`
one of them finds none. Four blocks on the disk give a list with a request in
progress, a wrap and something behind it; `MAX_ERRORS` is 3 so that `MAX_ERRORS/2`
lies strictly between none and the last. A motor's run-on time is longer than a
seek and a transfer, as it is on the hardware (assumption `FloppyConstants`); the
delay until it stops is short, so that it does stop between requests. `SpinUp` is
3, more than the two ticks a select takes; with `TIME_REQUESTS` 2 a second timer
can run and a third makes `add_timer` panic. Tty's queues are as small as the
thresholds allow, so all of them fill up; of the three settings of `Termios` two
differ in whether `a` ends a line, so that the count can become wrong both ways.
With four process numbers for three slots `last_pid` wraps around while old
processes live. The largest instances are `buffer_cache` and `directories`, with two
million states each.

`buffer_contents` has more processes than would be safe with fewer buffers in
general: `breada` holds one buffer while it asks for the next, so
`EveryoneFinishes` needs more buffers than processes that hold one and want
another. In the instance only one block has read-ahead; in the kernel there are
thousands of buffers and 64 tasks. One inode is enough for its exception.
`sync_inodes` goes through the table in order, so who waits there for an inode
and has not met its own before it has locked only inodes that come later: with
more inodes too the waits cannot close a circle in which nobody waits for
itself.

`CHECK_DEADLOCK FALSE` where the system may really stop: all tasks dead or all
ends closed, the bounded number of calls used up, a panic, or (BlockQueue) the
lost wake-up of section 4.

`VIEW` and `SYMMETRY` are used in runs that check invariants only.
The view of `memory` identifies states that differ in the numbers of the pages:
it keeps for every page in use who uses it, its count and what it holds. All
actions treat pages alike but for which free page `get_free_page` finds first.

## 4. What the code does and the properties except

Six configurations beside those of the runs reproduce behaviours of the code
that contradict one of its comments. TLC ends each of them with a
counterexample.

| configuration | property | what happens |
|---|---|---|
| `WaitQueueZombie.cfg` (`MCWaitQueue`) | `ZombieStaysDead` | `interruptible_sleep_on` wakes through a pointer to a task that has died (`sched.c:185`; `exit.c:133` has "just to suppress warnings" behind the last `schedule()`) |
| `BlockLostWakeup.cfg` (`MCBlockQueue`) | `SleeperIsQueued` | an interrupt inside `sleep_on(&wait_for_request)`, which is called with interrupts on (`ll_rw_blk.c:129`, against the rule at the head of `buffer.c`) |
| `BufferFileWrite.cfg` (`MCBufferCache`) | `NothingLost` | `file_write` sets `b_dirt` before a copy that sleeps (`file_dev.c:71`) |
| `BufferFullWrite.cfg` (`MCBufferCache`) | `ReadsLatest` | a whole-block write never sets `b_uptodate` (`block_dev.c:28`) |
| `MemorySharing.cfg` (`MCMemory`) | `Isolation` | the kernel stores into a page that became shared after `verify_area` (`fork.c:25`) |
| `HardDiskErrors.cfg` (`MCHardDisk`) | `FailsOnlyAfterMaxErrors` | the retry of the second sector of a partition's last block is rejected as out of range (`hd.c:305`; `hd.c:33` says "Max read/write errors/sector") |

These explain the restrictions of the runs: `buffer_contents` leaves out
`file_write` and whole-block writes, and `ForkIsolation` speaks of the time
before the first `exec`.

More behaviours are in the models and excepted by the properties.

* **Cache and memory.** `write_inode` locks its inode and calls `bread`; if
  `getblk` then finds only dirty buffers it calls `sync_dev`, which calls
  `sync_inodes` (`buffer.c:76`), which waits for each locked inode, the caller's own
  included. The process sleeps for ever, and with it all who need that inode or a
  buffer it holds; `EveryoneFinishes` excepts exactly that (`WaitsForItself`).
  It happens from `sys_sync` and, one level deeper, from inside a
  `getblk`. `breada` passes `bh` to `ll_rw_block` where `tmp` is
  meant (`buffer.c`, line 340), so the blocks ahead get a buffer and are never
  read. `do_execve` sets `current->executable` before it frees the old pages and
  may sleep in between, and the copy `un_wp_page` makes of a modified page has
  its dirty bit clear: both let `try_to_share` map a page that is not the
  executable's. After a page fault inside a copy, a pipe's bytes may be
  overwritten or read before they are there: `InOrder` ends there.
* **Windows of Inodes.** `iput` truncates an inode without names while another
  `iget` of it is on its way; `free_inode` clears an entry that `sync_inodes`
  has locked meanwhile; two `_bmap`s, or `_bmap` and `truncate`, work on the same
  way of a file; `free_block` gives up a zone whose buffer somebody holds. In the
  middle of `truncate` the inode has changed and is not dirty; `InodeKept` says
  so. With a reference to every entry `get_empty_inode` panics: the kernel has 32
  entries for 64 tasks, each with many references.
* **Windows of Directories.** Two calls that have both looked up one name enter
  or remove it; an `iget` finds the inode freed; `sys_unlink` and `sys_rmdir` use
  the entry found before `iget` slept; `sys_link` counts the link after
  `iput(dir)`; `sys_rmdir` tests `i_count` before `empty_dir` sleeps; `sys_mkdir`
  without room for its entry frees its zone twice; `create_block` stores its zone
  without looking whether another has extended the directory while `new_block`
  slept, so that a zone and an entry are lost; a name entered into a block the
  search has passed is not seen.
* **Ways out of Directories.** `empty_dir` keeps its buffer when the directory
  is bad (`namei.c:576`): `leaked` counts them, and `TreeExact` says that without
  a race no directory becomes bad. A path that ends in a slash gives `namei` and
  an open for reading the directory itself, other calls fail; `/dev/tty` without a terminal is turned
  down after the file was reserved.
* **Drivers.** A controller that never works again is reset for ever
  (`MaxFaults` bounds the faults of the floppy controller). `Reject` leaves
  `current_drive` changed, and after `floppy_change` the two ticks a newly
  selected drive gets are omitted: `DriveReady` allows for them. When the last
  request fails for good in `bad_flp_intr`, recovery goes on with an empty list.
  A request that comes then calls `do_fd_request` at once (`ll_rw_blk.c`,
  `add_request`): a second command is given, `add_timer` is called a second time, a
  timer may find no request, and the driver may be left with requests and nothing
  under way (`overtaken`). `floppy_change` may miss its wake-up from the
  motor timer, since it enters `sleep_on` with interrupts on.
* **Terminals.** `tty_read` tests the queue with interrupts on and an erase may
  empty it before `GETCH`, which then runs past the head (`raced`); `TCSETS` may change `VEOF` while
  characters are queued, after which `tty_read` subtracts other line ends than
  `copy_to_cooked` added (`recounted`); in canonical
  mode it does not sleep on an incomplete line but goes round and round
  (`Spinning`); characters stay in `read_q` when `secondary` is full until more
  are typed; an echo into a full write queue makes it empty; the flag `cr_flag`
  of `tty_write` is shared by all terminals.
* **Processes.** Init can be killed like any other process, since `init/main.c`
  installs no handler. Its orphans then have no father: `tell_father` prints "BAD
  BAD - no father found" and releases the caller by itself, which `FatherLives`
  allows for them alone. Init tries to fork for ever when all slots are taken or memory is
  (`main.c:265`), and reaps nobody meanwhile;
  `find_empty_process` does not compare a new number with groups and sessions;
  `SIGKILL` can be masked through `sa_mask`; a `waitpid` with `SIGCHLD` blocked
  is not woken by the end of a child.

## 5. Fairness

* WaitQueue: weak fairness of a runnable task's next step (`NoStarvation` of
  `processes` is the reason) and of the timer's call of `schedule()`.
* BlockQueue, BufferCache: requests end (`EveryRequestServed` of the drivers); a
  process that can run does, in whichever frame it is. None for the arrival of requests.
* HardDisk, Floppy: routines run to their end, the controller answers, the clock
  ticks. None for requests; errors may come at every transfer.
* Pipe: strong fairness for each process, because its step is disabled whenever
  another one holds the processor in the kernel. None for calls or closes.
* Tty: handlers run to their end, an enabled transmitter sends, and strong
  fairness of the reader and the writer for the same reason as in Pipe. Nobody
  need type.
* Processes: the clock ticks in user mode (strong: it does not while the
  processor is in the kernel), the kernel goes on, disk interrupts come, init
  makes its calls. Nothing of other programs; `NoStarvation` assumes that they
  do not fork for ever, which `MaxForks` ensures.

## 6. Proofs

**TaskProofs, WaitQueue** (any sets of tasks and queues; assumption
`NilIsNoTask`).
`SleepBase` adds to the type invariant that a task inside a sleep has a queue of the
right kind (`Located`); from it `TypeCorrect`. `NoOrphan` is inductive relative
to `SleepBase`: the interesting steps are the return of a sleeper, whose saved
pointer disappears but whose target becomes runnable, and an entering task,
which takes over the old head. `ProperChains`, a statement about the case that
no queue is interruptible (`KindsAreFixed`: no step changes that), is inductive:
it makes all pointers distinct, so setting one task running
removes exactly one reference. `ZombiesStayDead` follows for the same case,
since pointers then only name sleepers.

**TaskProofs, Processes** (any number of slots, process numbers, forks and
masks; `ProcessConstants`, of which `PID_MAX >= NR_TASKS` matters, and
`NullIsNoStruct`). `FatherLives` is inductive with little help, but only as a
whole: `Sound(task)` says that process numbers are unique and that every
process other than init has a father who has not begun to exit, or is one of
process 1 after init has been killed (`HasInit`: init, the task without a father, lives);
`Runs` adds that the current task can run, so that only the living act. The
lemmas are about the three ways a table changes: `UpdateSound` (a task keeps its
number, father and life), `AddSound` (fork) and `RemoveSound` (release). A
child's number is new because there are more numbers than slots (`PidIsNew`: the
search of `find_empty_process` must end, whatever `last_pid` is and however often it
has wrapped). `do_exit` gives the children to process 1 in the step in which it
stops being a father (`ExitSound`); when it is init that exits, they, and all who
become orphans later, are the exception. `tell_father` finds somebody to tell or releases one of
those (`ExitEndInv`). Otherwise only zombies are released, and a zombie is
nobody's father (`ScanSound`).

**TaskProofs, Directories** (any finite set of processes, any inode numbers,
zones, entries per block, descriptors, files and calls; `DirectoryConstants`).
`NamesInv == NamesTyped /\ CallsOnCourse /\ FilesCounted /\ FilesReserved /\
(raced \/ (InodesCounted /\ InodesInUse))`. `Balanced` says only what the counts are;
that each of some thirty ways out of the calls gives back the right references follows
from `CallsOnCourse`: `HasAt(r, l)` names, for each place a call can sleep, the
references it has in hand there (`dir`, `ino`, `old`) and, while `iput`s are
still to come, those it must have when it goes on. The references in hand are six
cardinalities (`HandRefs`), and `HandStep` turns a step of one process into the
difference of that process's shares before and after (`Share`); every action is
then a comparison of two shares with the change of `i_count`. `FilesReserved` is
why `sys_open` can give its file back after any sleep: no descriptor but its own
names the file it reserved, so no `dup`, `fork` or `close` of another process
reaches it (`Reserved`, `IdleFile`). `DueCounted` shows that `iput` never finds a count of zero
and never frees the root; `InodesInUse`, that `new_inode` returns an inode nobody
refers to. The searches are part of the course: where a call is in `new_block`, it has
a zone, and only a `rmdir` or `unlink` has a buffer, which `NotEmpty` gives up or
leaves to `leaked`. Buffers, files and descriptors are balanced without regard to
`raced`, `i_count` until then (section 4).

**StreamProofs, Pipe** (any page size above one, any finite readers and writers;
assumption `PipeConstants`).
`PipeInv == PipeTypeOK /\ Ring /\ Copies /\ OpenEnds`. `RingExact` with its `%` is not
convenient to induct on; `Ring` states the same with a case distinction on
whether the ring wraps, and that fewer than `PAGE_SIZE` bytes are in it, which
is what keeps full and empty apart. `Copies` bounds interrupted copies by the
page's end; `OpenEnds` ties `i_count` to the holders, so it cannot go negative.
`WrapIndex`, `WrapDifference` carry all modular arithmetic; `ReadTurn` and
`WriteTurn` show one turn of each loop keeps `Ring`. `BytesInOrder` speaks of
the time before the first page fault in a copy: until then no copy is left half
done (`NoFaults`), and a turn moves a contiguous piece of the sequence
(`ReadKeepsOrder`, `WriteKeepsOrder`).
`NeverBothAsleep`: whoever sleeps has emptied the queue first.

**BlockQueueProofs** (any processes, disks, blocks and a table of at least two
slots; `RequestTable`, `BufferKeys`, `NullIsNoProc`, `NullIsNoBuffer`).
`QueuesSound` and `LockOwned` are inductive together, with `ArgsKept` (a process
inside `make_request` has the call's arguments): `end_request` unlocks the
buffer of the request it takes off the list, which keeps `LockOwned` only if the
list is sound, and a request that is put on a list is new there only if its
buffer's lock had no other owner. Completion interrupts may come between any two
statements, the entry into `sleep_on` included.

**HardDiskProofs** (any blocks, partition table, geometry, error limit;
`HardDiskConstants`). `IInv` says which requests are on the list (`LockedIsQueued`),
that only CURRENT has been begun (`Begun`), that the half already counted off
is in place (`HalfDone`), which sectors the command at the controller is about
(`Transfer`) and what is outstanding (`Pending`). An error ends a command between its
two sectors; that the retry resumes at the right one is what `Begun`,
`HalfDone` and `Transfer` relate. `Outstanding` and the action property
`Transferred` follow.

The elevator (lists of any length, requests with integer keys): `Sweeps(q, d)` says
that behind the request in progress the list is in order up to `d` and again
from there on. `ElevatorKeepsSweeps`: linking a request where `add_request`'s
loop does keeps that, provided the new request is comparable with those behind
the head. `IN_ORDER` is irreflexive and transitive, so the proof is about the
least position the loop accepts and about the two neighbours it lies between;
lemmas say what `InsertAfter` does to a sequence. `HeadSweeps` holds of the driver, since the head of the list
changes only when the request is done: `ElevatorKeepsSweeps` applies at every
arrival, and removing the head keeps two sweeps.

**BufferCacheProofs** (any finite set of processes, any blocks, buffers, inodes
and operations; `CacheConstants`, `NullIsNoBuffer`). `IInv` adds to the four
invariants of `buffer_cache` what each label relies on (`Control`), that two
processes never make a request of one buffer (`Makers`), that only a buffer with
a block is locked or dirty (`InUse`), that no buffer drops off the free list
(`Whole`), and which buffers have contents (`Filled`). `UniqueBlock` holds
because every way from a sleep to the assignment of `b_dev` passes the second
search without another sleep. `CountExact` is by counting references before and
after: `References(b)` changes by one frame's share (`Own`), and lemmas on
cardinality carry that through every return. Frames are to the proof what
processes are to the code: a `getblk` called by `sync_inodes` from inside another
`getblk` of the same process is one more rival (`FramesFinite`); `SyncInodesKeeps`,
`WriteInodeKeeps` and `LockInodeKeeps` are the steps that enter and leave it. `NoWriteIsLost` and
`ReadsAreLatest` assume `Reliable`: no transfer errors and none of the two calls
that section 4 excepts; then `Contents` is inductive relative to `IInv`
(`Fresh`: a buffer up to date has the last version, which is on the disk or will
be; `Unread`: one that is not up to date is clean and the disk has the last
version).

**MemoryProofs** (any finite sets of tasks, addresses, page tables and pages;
`MemoryConstants`, `NullIsNoEntry`). The users of a page are its places: entries of
page tables, page tables, task structures, and pages a sleeping task holds.
`Counted` states `MapExact` with a function from places to pages, so that a step
is a change of that function at a few places, and `CountOneMore`, `CountOneLess`,
`CountMove`, `CountWithoutSpace` and `TableCounts` say what that does to the
counts. `Sole` is what makes a count of one mean something: page tables,
task structures, held pages and writable pages have no other user. Without
`Sole` the counts could not be kept: `free_page_tables` gives back a page table
without looking at its count. `Control` is what each label relies on: a loading
task has a page in hand, and the entry it will set is still empty after the
sleep. For `FreePage(n)`, the page the n-th of several calls of `get_free_page`
returns, `NthFromAbove` shows that it exists and that the pages of one fork are
distinct. `WritableUnshared` is a part of `Sole`. `TasksAreIsolated` needs more:
`Own(t, a)` adds that absent pages are still to be zeroes and that what
`verify_area` made writable is so when the kernel stores to it, after any sleep.
It speaks of the time before the first exec, as the property does (section 4).

**StreamProofs, Tty** (any size of queue, modes and number of characters;
`TtyConstants`, which asks of `rs_io.s`'s two limits that `STARTUP + LOW <
TTY_BUF_SIZE`). `IInv == Base /\ Counted /\ Transmitting`: `Asking`, a part of
`Base`, keeps `nr` of a read under way above zero, and `Counted` ends with `raced` or
`recounted`: `SetTermios` keeps it as long as the new `VEOF` finds the same line
ends in the queue. The lemmas on `Ends`, the positions
of line ends in a queue, say what `PUTCH`, `GETCH`, erasing and flushing do to
their number. `WakeupsKept` is about an invariant of its own, `WakeupsComing`: a sleeping
reader with something to read, or a sleeping writer, is woken or will be by a handler
that runs or is still to come. It needs the sizes: a writer sleeps only when
fewer than `LOW` places are free, so more than `STARTUP` characters are left and
the transmit interrupt will pass the mark.

**InodeProofs** (any finite set of processes, any inode numbers, zones, ways and
table of at least one entry; `InodeConstants`). `IInv == raced \/ Core`: all is said of
the time before two processes meet in one of the windows (section 2). Without
preemption a process keeps the table to itself between sleeps, so `Core` is
about what is so at the sleeps: what a label has in hand (`Staged`), that a slot's
count is the number of its users (`Counted`), that an empty slot is its taker's alone and
a held one has a number (`Emptied`, `Held`), who has locked what (`Locked`), that a
reader of the disk is the only user (`Alone`), where the last image is (`Fresh`,
`Kept`), and that nobody is on the way to an inode that is being freed (`Freeing`,
`Wanted`) or has not got its name yet (`Entering`). `InodeKept` alone is not
inductive: `free_inode` clears the slot of an inode, and only `Counted` and
`Freeing` show that nobody else has it or will ask for it; `read_inode` puts the disk's
image into the table, and only `Kept`, with `Alone`, shows that it is the last
one. The steps fall into few kinds, a lemma each: a process that only moves
(`Moves`), that changes an image (`ChangeMoves`), that returns with other counts
(`RecountMoves`), and one lemma for each lock, unlock, allocation and
release. After a panic the model stands still, so none of this depends on the zones.

The zones are the second half: `ZInv == raced \/ (Core /\ Zoned)`. The place of a zone is
a number, a way and how far along it (`Spot`), read from the image last written
(`latest`; `PresentLatest` shows that it is the one `ZonesExact` reads). `Owned` is
`ZonesExact` for the places that no truncate has come to yet (`Live`): truncate
clears the bit of a zone before the pointer to it, and the pointers to indirect blocks
only at the end, so `ZonesExact` alone, which leaves a file out while it is
truncated, says nothing of what is left when truncate is done. `Chained` says that
a process's chain, read before its sleeps, is still the beginning of its way when it
goes on; `Single` why: who truncates a file is alone at it, and two `_bmap` are on
different ways, or `raced` is set. `Cleared` is what truncate has
done so far, `Sole` that an inode to be freed has one reference and no link, and
`Carried` what each label has of chain and new zone. The hard steps have lemmas of
their own: `BmapTakes` and `NewBlockPlaces` for a zone taken and placed,
`FreeCuts` for one given back, `TruncateEnds` for the pointers cleared last; a step that
does not concern the zones goes by `Away` or `Aside`, and one on a way that stays as it
is by `Steady`. `CountsAreExact` adds the panics, for a table of any size: `iput`
and `free_inode` call none by `Counted` and `Sole`, `free_block` none by `Owned`, and
`get_empty_inode` does only when the count of every entry is above zero, after
which the model stands still.

**FloppyProofs** (any drives, requests, faults, retries and delays;
`FloppyConstants`: `RunOn > 2 * Latency + 2`, that is, three seconds last longer
than a seek and a transfer). `UInv` is `IInv` until a request has overtaken a
recovery (`overtaken > 0`, which stays so: `StaysOvertaken`). `OneThing`: of a routine called, a running
timer and a working controller there is one at most. `Serving` says for which
request, `SpinningUp` that `mon` and the timer count down together, so that the
drive is up to speed when `floppy_on_interrupt` comes, and that `moff` is not
counted before. `InUse` is the budget: at every stage the motor has as many
ticks left as the remaining stages can take. `DriveReady` without it is not inductive, since
`floppy_change` on the same drive may set `moff` back to `RunOn` while a
request waits for the motor.

TLC has checked each of these inductive invariants as an invariant of the run of
its module before it was proved.

Only model-checked:

* Directories `TreeExact`, with it that `empty_dir` keeps no buffer
  (`leaked = 0`) before a race. It compares sums over the blocks
  (`MapThenSumSet`), and what such a sum does when one summand changes needs
  induction with an operator for a parameter, which the provers cannot
  instantiate.
* The refinement of WaitSet: its mapping uses a recursive reachability and its
  specification has fairness.
* All liveness. Liveness and ENABLED are out of the prover's reach.

## 7. Remaining work

The link counts of Directories for every size of the tables. They would have to be
restated with sets of places, as the zones of Inodes are in `ZonesExact`, and their
agreement with the sums left to TLC.

## 8. Not modelled

Super blocks and mounting: one device is mounted throughout, which is how the
file-system modules stay small; the race in `read_super` is in the list of
hazards. The console's automaton and the keyboard's tables are sequential and
write hardware. `malloc` has no caller, `kernel_mktime` and boot code run once,
the ram disk ends its requests without an interrupt. Traps and system-call
entry (register level), `printk`/`vsprintf`/`panic`, user-mode library stubs,
the empty maths emulator and the build tools have no concurrent state. In the
modelled parts: the hash chains are a lookup by block, `b_wait`, `i_wait` and
lock waits are guards or sets where WaitQueue covers them, formatting and error
numbers are left out, a block or a page has one abstract content, access rights
are those of the super-user, and user programs are arbitrary sequences of calls
and stores. In Directories every block can be read, names are read without a page
fault, and the terminal that `sys_open` of a tty gives to a session leader is left
out; of `check_disk_change` there is the sleep, but not what it does to the other
device. `bread_page`, `sys_alarm`, `sys_nice`, the
frame of a signal handler, VTIME and flow control of terminals are left out of
modules that model their surroundings.

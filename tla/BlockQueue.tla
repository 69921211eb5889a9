----------------------------- MODULE BlockQueue -----------------------------
(***************************************************************************)
(* The block-device request queue: ll_rw_block, make_request and           *)
(* add_request (kernel/blk_drv/ll_rw_blk.c) run by processes, end_request  *)
(* (kernel/blk_drv/blk.h) run by the device interrupts.                    *)
(*                                                                         *)
(* A process holds the processor (`cpu`) from the call until it sleeps or  *)
(* returns; only interrupts come in between, except where the code has     *)
(* disabled them.  Waiting for a locked buffer is done with interrupts off *)
(* and is a guard here (WaitQueue shows that the sleeper is woken);        *)
(* sleep_on(&wait_for_request) is called with interrupts on and is spelled *)
(* out assignment by assignment.                                           *)
(*                                                                         *)
(* A buffer is a record [major, dev, sector]: the cache has at most one    *)
(* buffer per block (BufferCache).                                         *)
(***************************************************************************)
EXTENDS Elevator, FiniteSets

CONSTANTS Procs, Bufs, NR_REQUEST, NULL

ASSUME RequestTable == NR_REQUEST \in Nat /\ NR_REQUEST >= 2
ASSUME BufferKeys == Bufs \subseteq [major : Nat, dev : Nat, sector : Nat]
ASSUME NullIsNoProc == NULL \notin Procs
ASSUME NullIsNoBuffer == NULL \notin Bufs

Cmds == {READ, WRITE}
Slots == 0 .. NR_REQUEST - 1
Majors == {b.major : b \in Bufs}

\* A request structure; dev = -1 ("no request") is FREE.
FREE == [cmd |-> READ, bh |-> NULL]
Requests == [cmd : Cmds, bh : Bufs]

VARIABLES
    request,  \* request[s]: the request table
    current,  \* current[m]: the list blk_dev[m].current_request, a sequence of slots
    locked, uptodate, dirt,   \* b_lock, b_uptodate, b_dirt of every buffer
    wait_for_request,         \* the wait queue's head
    state,    \* state[p] = "running" or "uninterruptible"
    tmp,      \* tmp[p]: the local of sleep_on
    pc,       \* pc[p]: where p is inside make_request, or "idle"
    args,     \* args[p]: the cmd, buffer and rw_ahead flag of that call
    cpu       \* the process running in the kernel, or NULL

bvars == <<locked, uptodate, dirt>>
pvars == <<wait_for_request, state, tmp, pc, args, cpu>>
vars == <<request, current, bvars, pvars>>

\* The arguments of ll_rw_block: READ, WRITE or READA (nobody uses WRITEA).
Calls == {a \in [cmd : Cmds, bh : Bufs, ahead : BOOLEAN] : a.ahead => a.cmd = READ}

NoArgs == [cmd |-> READ, bh |-> NULL, ahead |-> FALSE]
Labels == {"idle", "lock_buffer", "find_request", "save", "link", "block", "asleep"}

TypeOK ==
    /\ request \in [Slots -> Requests \cup {FREE}]
    /\ current \in [Majors -> Seq(Slots)]
    /\ locked \in [Bufs -> BOOLEAN]
    /\ uptodate \in [Bufs -> BOOLEAN]
    /\ dirt \in [Bufs -> BOOLEAN]
    /\ wait_for_request \in Procs \cup {NULL}
    /\ state \in [Procs -> {"running", "uninterruptible"}]
    /\ tmp \in [Procs -> Procs \cup {NULL}]
    /\ pc \in [Procs -> Labels]
    /\ args \in [Procs -> Calls \cup {NoArgs}]
    /\ cpu \in Procs \cup {NULL}

Init ==
    /\ request = [s \in Slots |-> FREE]
    /\ current = [m \in Majors |-> <<>>]
    /\ locked = [b \in Bufs |-> FALSE]
    /\ uptodate = [b \in Bufs |-> FALSE]
    /\ dirt = [b \in Bufs |-> FALSE]
    /\ wait_for_request = NULL
    /\ state = [p \in Procs |-> "running"]
    /\ tmp = [p \in Procs |-> NULL]
    /\ pc = [p \in Procs |-> "idle"]
    /\ args = [p \in Procs |-> NoArgs]
    /\ cpu = NULL

-----------------------------------------------------------------------------
\* What the elevator compares.
Key(r) == [cmd |-> r.cmd, dev |-> r.bh.dev, sector |-> r.bh.sector]

\* The list of slots q with slot s, holding request r, added.
Elevator(q, s, r) ==
    IF q = <<>> THEN <<s>>
    ELSE InsertAfter(q, ElevatorPosition([i \in 1 .. Len(q) |-> Key(request[q[i]])], Key(r)), s)

\* The slots make_request may use: writes only the low two thirds.
Usable(cmd) == IF cmd = READ THEN Slots ELSE 0 .. ((NR_REQUEST * 2) \div 3) - 1

FreeSlots(cmd) == {s \in Usable(cmd) : request[s] = FREE}

Goto(p, l) == pc' = [pc EXCEPT ![p] = l]

\* Returning from ll_rw_block to the caller, which keeps running.
Return(p) == Goto(p, "idle") /\ args' = [args EXCEPT ![p] = NoArgs] /\ cpu' = NULL

-----------------------------------------------------------------------------
\* lock_buffer has got the lock; nothing to write or already read: unlock again.
Locked(p, a) ==
    IF (a.cmd = WRITE /\ ~dirt[a.bh]) \/ (a.cmd = READ /\ uptodate[a.bh])
    THEN /\ Return(p)
         /\ UNCHANGED locked
    ELSE /\ locked' = [locked EXCEPT ![a.bh] = TRUE]
         /\ args' = [args EXCEPT ![p] = a]
         /\ cpu' = p
         /\ Goto(p, "find_request")

\* ll_rw_block(rw, bh); a read-ahead of a locked buffer returns at once and is
\* no step.
Call(p, a) ==
    /\ cpu = NULL
    /\ pc[p] = "idle"
    /\ a.ahead => ~locked[a.bh]
    /\ IF locked[a.bh]
       THEN /\ args' = [args EXCEPT ![p] = a]
            /\ Goto(p, "lock_buffer")
            /\ UNCHANGED <<locked, cpu>>
       ELSE Locked(p, a)
    /\ UNCHANGED <<request, current, uptodate, dirt, wait_for_request, state, tmp>>

\* The sleeper in lock_buffer runs and finds the buffer unlocked.
LockBuffer(p) ==
    /\ cpu = NULL
    /\ pc[p] = "lock_buffer"
    /\ ~locked[args[p].bh]
    /\ Locked(p, args[p])
    /\ UNCHANGED <<request, current, uptodate, dirt, wait_for_request, state, tmp>>

\* A slot is free: fill it from the top down, add_request, return.
AddRequest(p) ==
    LET a == args[p]
        s == CHOOSE x \in FreeSlots(a.cmd) : \A y \in FreeSlots(a.cmd) : y <= x
        r == [cmd |-> a.cmd, bh |-> a.bh]
    IN  /\ pc[p] = "find_request"
        /\ FreeSlots(a.cmd) # {}
        /\ request' = [request EXCEPT ![s] = r]
        /\ current' = [current EXCEPT ![a.bh.major] = Elevator(@, s, r)]
        /\ dirt' = [dirt EXCEPT ![a.bh] = FALSE]
        /\ Return(p)
        /\ UNCHANGED <<locked, uptodate, wait_for_request, state, tmp>>

\* Mutant: a forgotten read-ahead leaves its buffer locked.
NoRequest_NoUnlock(p) ==
    /\ pc[p] = "find_request"
    /\ FreeSlots(args[p].cmd) = {}
    /\ IF args[p].ahead THEN Return(p) ELSE Goto(p, "save") /\ UNCHANGED <<args, cpu>>
    /\ UNCHANGED <<request, current, bvars, wait_for_request, state, tmp>>

\* No slot is free: forget a read-ahead, go to sleep for anything else.
NoRequest(p) ==
    /\ pc[p] = "find_request"
    /\ FreeSlots(args[p].cmd) = {}
    /\ IF args[p].ahead
       THEN /\ locked' = [locked EXCEPT ![args[p].bh] = FALSE]
            /\ Return(p)
       ELSE /\ Goto(p, "save")
            /\ UNCHANGED <<locked, args, cpu>>
    /\ UNCHANGED <<request, current, uptodate, dirt, wait_for_request, state, tmp>>

\* sleep_on(&wait_for_request): tmp = *p;
SleepSave(p) ==
    /\ pc[p] = "save"
    /\ tmp' = [tmp EXCEPT ![p] = wait_for_request]
    /\ Goto(p, "link")
    /\ UNCHANGED <<request, current, bvars, wait_for_request, state, args, cpu>>

\* *p = current;
SleepLink(p) ==
    /\ pc[p] = "link"
    /\ wait_for_request' = p
    /\ Goto(p, "block")
    /\ UNCHANGED <<request, current, bvars, state, tmp, args, cpu>>

\* current->state = TASK_UNINTERRUPTIBLE; schedule();
SleepBlock(p) ==
    /\ pc[p] = "block"
    /\ state' = [state EXCEPT ![p] = "uninterruptible"]
    /\ cpu' = NULL
    /\ Goto(p, "asleep")
    /\ UNCHANGED <<request, current, bvars, wait_for_request, tmp, args>>

SetRunning(u) == state' = [p \in Procs |-> IF p = u THEN "running" ELSE state[p]]

\* The sleeper runs again: if (tmp) tmp->state = 0; goto repeat;
SleepReturn(p) ==
    /\ cpu = NULL
    /\ pc[p] = "asleep"
    /\ state[p] = "running"
    /\ SetRunning(tmp[p])
    /\ tmp' = [tmp EXCEPT ![p] = NULL]
    /\ cpu' = p
    /\ Goto(p, "find_request")
    /\ UNCHANGED <<request, current, bvars, wait_for_request, args>>

\* Mutant: the slot is not given back (dev = -1 forgotten).
EndRequest_SlotKept(m, ok) ==
    LET b == request[Head(current[m])].bh IN
        /\ current[m] # <<>>
        /\ uptodate' = [uptodate EXCEPT ![b] = ok]
        /\ locked' = [locked EXCEPT ![b] = FALSE]
        /\ SetRunning(wait_for_request)
        /\ wait_for_request' = NULL
        /\ current' = [current EXCEPT ![m] = Tail(@)]
        /\ UNCHANGED <<request, dirt, tmp, pc, args, cpu>>

\* The interrupt that ends the current request of device m: end_request(ok).
EndRequest(m, ok) ==
    LET s == Head(current[m])
        b == request[s].bh
    IN  /\ current[m] # <<>>
        /\ uptodate' = [uptodate EXCEPT ![b] = ok]
        /\ locked' = [locked EXCEPT ![b] = FALSE]
        /\ SetRunning(wait_for_request)
        /\ wait_for_request' = NULL
        /\ request' = [request EXCEPT ![s] = FREE]
        /\ current' = [current EXCEPT ![m] = Tail(@)]
        /\ UNCHANGED <<dirt, tmp, pc, args, cpu>>

\* The owner of a buffer modifies it.
MarkDirty(b) ==
    /\ cpu = NULL
    /\ ~dirt[b]
    /\ dirt' = [dirt EXCEPT ![b] = TRUE]
    /\ UNCHANGED <<request, current, locked, uptodate, pvars>>

\* invalidate_buffers, or getblk giving the buffer to another block and back.
Invalidate(b) ==
    /\ cpu = NULL
    /\ ~locked[b]
    /\ uptodate[b]
    /\ uptodate' = [uptodate EXCEPT ![b] = FALSE]
    /\ dirt' = [dirt EXCEPT ![b] = FALSE]
    /\ UNCHANGED <<request, current, locked, pvars>>

Run(p) ==
    \/ LockBuffer(p) \/ AddRequest(p) \/ NoRequest(p)
    \/ SleepSave(p) \/ SleepLink(p) \/ SleepBlock(p) \/ SleepReturn(p)

Next ==
    \/ \E p \in Procs : \/ Run(p)
                        \/ \E a \in Calls : Call(p, a)
    \/ \E m \in Majors, ok \in BOOLEAN : EndRequest(m, ok)
    \/ \E b \in Bufs : MarkDirty(b) \/ Invalidate(b)

\* A device with a request ends it (or its driver times out and ends it with
\* an error), and a process in the kernel keeps running.
Fairness ==
    /\ \A m \in Majors : WF_vars(\E ok \in BOOLEAN : EndRequest(m, ok))
    /\ \A p \in Procs : WF_vars(Run(p))

Spec == Init /\ [][Next]_vars /\ Fairness

-----------------------------------------------------------------------------
InUse == {s \in Slots : request[s] # FREE}

\* The processes between lock_buffer and the hand-over of the lock to a request.
HoldsLock(p) == pc[p] \in Labels \ {"idle", "lock_buffer"}

\* Every request in use is on its own device's list, once, and nothing else
\* is; so the panics "request list destroyed" and "block not locked" of
\* INIT_REQUEST cannot happen (and everything is of its type).
QueuesSound ==
    /\ TypeOK
    /\ \A m \in Majors : \A i \in DOMAIN current[m] :
          /\ current[m][i] \in InUse
          /\ request[current[m][i]].bh.major = m
          /\ locked[request[current[m][i]].bh]
    /\ \A m, n \in Majors : \A i \in DOMAIN current[m], j \in DOMAIN current[n] :
          current[m][i] = current[n][j] => m = n /\ i = j
    /\ \A s \in InUse : \E m \in Majors : \E i \in DOMAIN current[m] : current[m][i] = s

\* A locked buffer has exactly one owner, a request or a process on its way
\* to make one: nobody unlocks it under another's transfer, and no buffer
\* stays locked that nobody will unlock.
LockOwned ==
    /\ \A s, t \in InUse : request[s].bh = request[t].bh => s = t
    /\ \A p, q \in Procs : HoldsLock(p) /\ HoldsLock(q) /\ args[p].bh = args[q].bh => p = q
    /\ \A p \in Procs, s \in InUse : HoldsLock(p) => args[p].bh # request[s].bh
    /\ \A b \in Bufs : locked[b] <=> \/ \E s \in InUse : request[s].bh = b
                                    \/ \E p \in Procs : HoldsLock(p) /\ args[p].bh = b

\* A process asleep for want of a request is on the wait queue, so that the
\* next end_request leads to it; the sequence `*p = current; current->state =
\* TASK_UNINTERRUPTIBLE' needs interrupts off for that.
SleeperIsQueued ==
    \A p \in Procs : pc[p] = "asleep" /\ state[p] # "running" =>
        \/ wait_for_request = p
        \/ \E q \in Procs \ {p} : pc[q] \in {"link", "block", "asleep"} /\ tmp[q] = p
=============================================================================

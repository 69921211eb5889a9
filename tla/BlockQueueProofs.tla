-------------------------- MODULE BlockQueueProofs --------------------------
(***************************************************************************)
(* What BlockQueue promises for every number of processes, buffers,        *)
(* devices and request slots: no request is lost, doubled or put on the    *)
(* wrong device's list, and every locked buffer has exactly one owner.     *)
(*                                                                         *)
(* The two invariants are inductive together (a request taken off a list   *)
(* unlocks a buffer, which is right only if nobody else owns the lock),    *)
(* once it is added that a process inside a call has that call's arguments.*)
(***************************************************************************)
EXTENDS BlockQueue, TLAPS, SequenceTheorems, WellFoundedInduction

\* A process inside ll_rw_block has arguments.
ArgsKept == \A p \in Procs : pc[p] # "idle" => args[p] \in Calls

IInv == QueuesSound /\ LockOwned /\ ArgsKept

-----------------------------------------------------------------------------
\* A set of naturals that has an element has a least one.
LEMMA LeastNatural ==
    ASSUME NEW T \in SUBSET Nat, T # {}
    PROVE  \E x \in T : \A y \in T : x <= y
  <1>1. \E x \in T : \A y \in T : ~(<<y, x>> \in OpToRel(<, Nat))
    BY NatLessThanWellFounded, WFMin
  <1>2. PICK x \in T : \A y \in T : ~(<<y, x>> \in OpToRel(<, Nat))
    BY <1>1
  <1>3. ASSUME NEW y \in T, ~(x <= y) PROVE FALSE
    <2>1. x \in Nat /\ y \in Nat /\ y < x
      BY <1>3
    <2>2. <<y, x>> \in OpToRel(<, Nat)
      BY <2>1 DEF OpToRel
    <2> QED BY <2>2, <1>2
  <1> QED BY <1>3

\* A bounded set of naturals that has an element has a greatest one.
LEMMA GreatestNatural ==
    ASSUME NEW n \in Nat, NEW F \in SUBSET (0 .. n), F # {}
    PROVE  \E x \in F : \A y \in F : y <= x
  <1> DEFINE T == {k \in Nat : \E x \in F : k = n - x}
  <1>1. \A x \in F : x \in Int /\ n - x \in Nat
    OBVIOUS
  <1>2. T # {} /\ T \in SUBSET Nat
    BY <1>1
  <1>3. PICK k \in T : \A j \in T : k <= j
    BY <1>2, LeastNatural
  <1>4. PICK x \in F : k = n - x
    BY <1>3
  <1>5. \A y \in F : n - x <= n - y
    BY <1>1, <1>3, <1>4
  <1>6. \A y \in F : y <= x
    BY <1>1, <1>5
  <1> QED BY <1>6

\* The position add_request finds is one of the list's.
LEMMA PositionInList ==
    ASSUME NEW q, NEW r, Len(q) \in Nat \ {0}
    PROVE  ElevatorPosition(q, r) \in 1 .. Len(q)
  <1> DEFINE fits == {i \in 1 .. Len(q) - 1 : Fits(q[i], r, q[i + 1])}
  <1>1. fits \in SUBSET Nat /\ fits \subseteq 1 .. Len(q)
    OBVIOUS
  <1>2. ElevatorPosition(q, r) =
          IF fits = {} THEN Len(q) ELSE CHOOSE i \in fits : \A j \in fits : i <= j
    BY DEF ElevatorPosition
  <1> HIDE DEF fits
  <1>3. CASE fits = {}
    BY <1>2, <1>3
  <1>4. CASE fits # {}
    <2>1. \E i \in fits : \A j \in fits : i <= j
      BY <1>1, <1>4, LeastNatural
    <2>2. (CHOOSE i \in fits : \A j \in fits : i <= j) \in fits
      BY <2>1
    <2> QED BY <1>1, <1>2, <1>4, <2>2
  <1> QED BY <1>3, <1>4

\* Linking x after the i-th element keeps all others, in their order.
LEMMA Insertion ==
    ASSUME NEW S, NEW q \in Seq(S), NEW x \in S, NEW i \in 1 .. Len(q)
    PROVE  /\ InsertAfter(q, i, x) \in Seq(S)
           /\ Len(InsertAfter(q, i, x)) = Len(q) + 1
           /\ \A j \in 1 .. Len(q) + 1 :
                InsertAfter(q, i, x)[j] = IF j <= i THEN q[j] ELSE IF j = i + 1 THEN x ELSE q[j - 1]
  <1> DEFINE n == Len(q)  a == SubSeq(q, 1, i)  b == <<x>>  c == SubSeq(q, i + 1, n)
  <1>0. n \in Nat /\ i \in 1 .. n /\ \A k \in 1 .. n : q[k] \in S
    BY LenProperties, ElementOfSeq
  <1>1. a \in Seq(S) /\ Len(a) = i /\ \A k \in 1 .. i : a[k] = q[k]
    BY <1>0, SubSeqProperties
  <1>2. b \in Seq(S) /\ Len(b) = 1 /\ b[1] = x
    OBVIOUS
  <1>3. InsertAfter(q, i, x) = (a \o b) \o c
    BY DEF InsertAfter
  <1> HIDE DEF n, a, b
  <1>4. /\ c \in Seq(S)
        /\ Len(c) = IF i + 1 <= n THEN n - (i + 1) + 1 ELSE 0
        /\ \A k \in 1 .. n - (i + 1) + 1 : c[k] = q[i + 1 + k - 1]
    <2>1. \A k \in i + 1 .. n : q[k] \in S
      BY <1>0
    <2> QED BY <1>0, <2>1, SubSeqProperties
  <1> HIDE DEF c
  <1>5. c \in Seq(S) /\ Len(c) = n - i /\ \A k \in 1 .. n - i : c[k] = q[i + k]
    <2>1. \A k \in 1 .. n - i : k \in 1 .. n - (i + 1) + 1 /\ i + 1 + k - 1 = i + k
      BY <1>0
    <2>2. \A k \in 1 .. n - i : c[k] = q[i + k]
      BY <2>1, <1>4
    <2> QED BY <1>0, <1>4, <2>2
  <1>6. /\ a \o b \in Seq(S) /\ Len(a \o b) = i + 1
        /\ \A k \in 1 .. i + 1 : (a \o b)[k] = IF k <= i THEN q[k] ELSE x
    <2>1. /\ a \o b \in Seq(S) /\ Len(a \o b) = Len(a) + Len(b)
          /\ \A k \in 1 .. Len(a) + Len(b) :
                (a \o b)[k] = IF k <= Len(a) THEN a[k] ELSE b[k - Len(a)]
      BY <1>1, <1>2, ConcatProperties
    <2> QED BY <1>0, <1>1, <1>2, <2>1
  <1> DEFINE ab == a \o b  abc == ab \o c
  <1>7. /\ abc \in Seq(S) /\ Len(abc) = n + 1
        /\ \A k \in 1 .. n + 1 : abc[k] = IF k <= i + 1 THEN ab[k] ELSE c[k - (i + 1)]
    <2>1. /\ abc \in Seq(S) /\ Len(abc) = Len(ab) + Len(c)
          /\ \A k \in 1 .. Len(ab) + Len(c) :
                abc[k] = IF k <= Len(ab) THEN ab[k] ELSE c[k - Len(ab)]
      BY <1>5, <1>6, ConcatProperties
    <2> HIDE DEF abc, ab
    <2>2. Len(ab) = i + 1
      BY <1>6 DEF ab
    <2> QED BY <1>0, <1>5, <2>1, <2>2
  <1>8. \A k \in 1 .. i + 1 : ab[k] = IF k <= i THEN q[k] ELSE x
    BY <1>6
  <1>9. InsertAfter(q, i, x) = abc
    BY <1>3
  <1> HIDE DEF abc, ab
  <1>10. ASSUME NEW j \in 1 .. n + 1
         PROVE  abc[j] = IF j <= i THEN q[j] ELSE IF j = i + 1 THEN x ELSE q[j - 1]
    <2>0. j \in Int
      BY <1>0
    <2>1. CASE j <= i + 1
      <3>1. j \in 1 .. i + 1 /\ (j <= i \/ j = i + 1)
        BY <1>0, <2>0, <2>1
      <3>2. abc[j] = ab[j]
        BY <1>7, <2>1
      <3> QED BY <1>8, <3>1, <3>2
    <2>2. CASE ~(j <= i + 1)
      <3>1. j - (i + 1) \in 1 .. n - i /\ i + (j - (i + 1)) = j - 1 /\ ~(j <= i) /\ j # i + 1
        BY <1>0, <2>0, <2>2
      <3>2. c[j - (i + 1)] = q[j - 1]
        BY <1>5, <3>1
      <3> QED BY <1>7, <2>2, <3>1, <3>2
    <2> QED BY <2>1, <2>2
  <1> QED BY <1>7, <1>9, <1>10 DEF n

-----------------------------------------------------------------------------
\* The scan of make_request, from the top of the table down, finds a free
\* slot that the command may use whenever there is one.
LEMMA ScanFindsSlot ==
    ASSUME NEW cmd \in Cmds, FreeSlots(cmd) # {}
    PROVE  LET s == CHOOSE x \in FreeSlots(cmd) : \A y \in FreeSlots(cmd) : y <= x
           IN  s \in Slots /\ request[s] = FREE
  <1> DEFINE F == FreeSlots(cmd)
  <1>1. F \subseteq Slots /\ \A x \in F : request[x] = FREE
    <2>1. (NR_REQUEST * 2) \div 3 <= NR_REQUEST
      BY RequestTable
    <2> QED BY <2>1, RequestTable DEF FreeSlots, Usable, Slots
  <1> HIDE DEF F
  <1>2. F \in SUBSET (0 .. NR_REQUEST - 1) /\ NR_REQUEST - 1 \in Nat /\ F # {}
    BY <1>1, RequestTable DEF Slots, F
  <1>3. \E z \in F : \A y \in F : y <= z
    BY <1>2, GreatestNatural
  <1>4. (CHOOSE z \in F : \A y \in F : y <= z) \in F
    BY <1>3
  <1> QED BY <1>1, <1>4 DEF F

\* add_request puts the slot somewhere in the list and disturbs nothing else.
LEMMA ElevatorInserts ==
    ASSUME NEW q \in Seq(Slots), NEW s \in Slots, NEW r
    PROVE  /\ Elevator(q, s, r) \in Seq(Slots)
           /\ \E k \in 1 .. Len(q) + 1 :
                /\ Len(Elevator(q, s, r)) = Len(q) + 1
                /\ \A j \in 1 .. Len(q) + 1 :
                     Elevator(q, s, r)[j] = IF j < k THEN q[j] ELSE IF j = k THEN s ELSE q[j - 1]
  <1>1. CASE q = <<>>
    BY <1>1 DEF Elevator
  <1>2. CASE q # <<>>
    <2> DEFINE keys == [i \in 1 .. Len(q) |-> Key(request[q[i]])]
               i == ElevatorPosition(keys, Key(r))
    <2>1. Len(q) \in Nat \ {0}
      BY <1>2, EmptySeq
    <2>2. Len(keys) = Len(q)
      BY <2>1
    <2> HIDE DEF keys
    <2>3. i \in 1 .. Len(q)
      BY <2>1, <2>2, PositionInList
    <2>4. Elevator(q, s, r) = InsertAfter(q, i, s)
      BY <1>2 DEF Elevator, keys
    <2> HIDE DEF i
    <2>5. i + 1 \in 1 .. Len(q) + 1
      BY <2>1, <2>3
    <2>6. /\ InsertAfter(q, i, s) \in Seq(Slots)
          /\ Len(InsertAfter(q, i, s)) = Len(q) + 1
          /\ \A j \in 1 .. Len(q) + 1 : InsertAfter(q, i, s)[j]
                = IF j <= i THEN q[j] ELSE IF j = i + 1 THEN s ELSE q[j - 1]
      <3>1. ASSUME NEW k \in 1 .. Len(q)
            PROVE  /\ InsertAfter(q, k, s) \in Seq(Slots)
                   /\ Len(InsertAfter(q, k, s)) = Len(q) + 1
                   /\ \A j \in 1 .. Len(q) + 1 : InsertAfter(q, k, s)[j]
                         = IF j <= k THEN q[j] ELSE IF j = k + 1 THEN s ELSE q[j - 1]
        BY Insertion
      <3> QED BY <2>3, <3>1
    <2>7. \A j \in 1 .. Len(q) + 1 : j <= i <=> j < i + 1
      BY <2>1, <2>3
    <2> QED BY <2>4, <2>5, <2>6, <2>7
  <1> QED BY <1>1, <1>2

-----------------------------------------------------------------------------
\* Nothing is queued, locked or under way at the start.
LEMMA InitIInv == Init => IInv
  <1> SUFFICES ASSUME Init PROVE IInv
    OBVIOUS
  <1>1. TypeOK
    BY RequestTable, EmptySeq DEF Init, TypeOK, Labels, Slots, FREE
  <1>2. InUse = {}
    BY DEF Init, InUse
  <1>3. \A m \in Majors : DOMAIN current[m] = {}
    BY DEF Init
  <1>4. QueuesSound
    BY <1>1, <1>2, <1>3 DEF QueuesSound
  <1>5. \A p \in Procs : pc[p] = "idle" /\ ~HoldsLock(p)
    BY DEF Init, HoldsLock
  <1>6. \A b \in Bufs : ~locked[b]
    BY DEF Init
  <1>7. LockOwned /\ ArgsKept
    BY <1>2, <1>5, <1>6 DEF LockOwned, ArgsKept
  <1> QED BY <1>4, <1>7 DEF IInv

\* A filled request is not a free slot, and a call's buffer belongs to a device.
LEMMA CallMakesRequest ==
    ASSUME NEW a \in Calls
    PROVE  /\ a.cmd \in Cmds /\ a.bh \in Bufs /\ a.ahead \in BOOLEAN
           /\ a.bh.major \in Majors
           /\ [cmd |-> a.cmd, bh |-> a.bh] \in Requests
           /\ [cmd |-> a.cmd, bh |-> a.bh] # FREE
  BY NullIsNoBuffer DEF Calls, Requests, FREE, Majors

\* A step that touches neither the table, the lists nor the locks, and neither
\* takes a process into nor out of the part that owns a lock.
LEMMA LocksUntouched ==
    ASSUME IInv, TypeOK', ArgsKept',
           UNCHANGED <<request, current, locked>>,
           \A p \in Procs : HoldsLock(p)' <=> HoldsLock(p),
           \A p \in Procs : HoldsLock(p) => args'[p] = args[p]
    PROVE  IInv'
  <1>1. QueuesSound /\ LockOwned
    BY DEF IInv
  <1>2. InUse' = InUse
    BY DEF InUse
  <1>3. QueuesSound'
    BY <1>1, <1>2 DEF QueuesSound
  <1>4. LockOwned'
    BY <1>1, <1>2 DEF LockOwned
  <1> QED BY <1>3, <1>4 DEF IInv

\* lock_buffer gets the lock, or finds that there is nothing to do.
LEMMA LockedStep ==
    ASSUME IInv, NEW p \in Procs, NEW a \in Calls,
           ~HoldsLock(p), ~locked[a.bh], Locked(p, a),
           UNCHANGED <<request, current, uptodate, dirt, wait_for_request, state, tmp>>
    PROVE  IInv'
  <1>0. a.bh \in Bufs /\ TypeOK /\ QueuesSound /\ LockOwned /\ ArgsKept
    BY CallMakesRequest DEF IInv, QueuesSound
  <1>1. CASE Return(p) /\ UNCHANGED locked
    <2>1. TypeOK' /\ ArgsKept'
      BY <1>0, <1>1 DEF TypeOK, ArgsKept, Return, Goto, Labels
    <2>2. \A q \in Procs : (HoldsLock(q)' <=> HoldsLock(q)) /\ (HoldsLock(q) => args'[q] = args[q])
      BY <1>0, <1>1 DEF TypeOK, HoldsLock, Return, Goto
    <2> QED BY <1>1, <2>1, <2>2, LocksUntouched
  <1>2. CASE /\ locked' = [locked EXCEPT ![a.bh] = TRUE]
             /\ args' = [args EXCEPT ![p] = a]
             /\ cpu' = p
             /\ Goto(p, "find_request")
    <2>1. TypeOK' /\ ArgsKept'
      BY <1>0, <1>2 DEF TypeOK, ArgsKept, Goto, Labels
    <2>2. InUse' = InUse
      BY DEF InUse
    <2>3. /\ HoldsLock(p)' /\ args'[p].bh = a.bh
          /\ \A q \in Procs \ {p} : (HoldsLock(q)' <=> HoldsLock(q)) /\ args'[q] = args[q]
      BY <1>0, <1>2 DEF TypeOK, HoldsLock, Goto, Labels
    <2>4. \A b \in Bufs : locked'[b] <=> locked[b] \/ b = a.bh
      BY <1>0, <1>2 DEF TypeOK
    <2>5. QueuesSound'
      <3>1. \A m \in Majors : \A i \in DOMAIN current[m] : request[current[m][i]].bh \in Bufs
        BY <1>0 DEF QueuesSound, TypeOK, InUse, Requests
      <3> QED BY <1>0, <2>1, <2>2, <2>4, <3>1 DEF QueuesSound
    <2>6. /\ \A s \in InUse : request[s].bh # a.bh
          /\ \A q \in Procs : HoldsLock(q) => args[q].bh # a.bh
      BY <1>0 DEF LockOwned
    <2>7. LockOwned'
      BY <1>0, <2>2, <2>3, <2>4, <2>6 DEF LockOwned
    <2> QED BY <2>1, <2>5, <2>7 DEF IInv
  <1> QED BY <1>1, <1>2 DEF Locked

\* ll_rw_block is entered.
LEMMA CallStep ==
    ASSUME IInv, NEW p \in Procs, NEW a \in Calls, Call(p, a)
    PROVE  IInv'
  <1>0. TypeOK /\ ArgsKept /\ a.bh \in Bufs /\ ~HoldsLock(p)
    BY CallMakesRequest DEF IInv, QueuesSound, Call, HoldsLock
  <1>1. CASE locked[a.bh]
    <2>1. TypeOK' /\ ArgsKept'
      BY <1>0, <1>1, ZenonT(60) DEF Call, TypeOK, ArgsKept, Goto, Labels
    <2>2. \A q \in Procs : (HoldsLock(q)' <=> HoldsLock(q)) /\ (HoldsLock(q) => args'[q] = args[q])
      BY <1>0, <1>1 DEF Call, TypeOK, HoldsLock, Goto
    <2> QED BY <1>1, <2>1, <2>2, LocksUntouched DEF Call
  <1>2. CASE ~locked[a.bh]
    BY <1>0, <1>2, LockedStep DEF Call
  <1> QED BY <1>1, <1>2

\* A sleeper of lock_buffer continues.
LEMMA LockBufferStep ==
    ASSUME IInv, NEW p \in Procs, LockBuffer(p)
    PROVE  IInv'
  <1>1. args[p] \in Calls /\ ~HoldsLock(p)
    BY DEF IInv, ArgsKept, LockBuffer, HoldsLock
  <1> QED BY <1>1, LockedStep DEF LockBuffer

\* The request found no slot: a read-ahead gives its lock back.
LEMMA NoRequestStep ==
    ASSUME IInv, NEW p \in Procs, NoRequest(p)
    PROVE  IInv'
  <1>0. /\ TypeOK /\ QueuesSound /\ LockOwned /\ ArgsKept
        /\ pc[p] = "find_request" /\ HoldsLock(p) /\ args[p] \in Calls /\ args[p].bh \in Bufs
    BY CallMakesRequest DEF IInv, QueuesSound, ArgsKept, NoRequest, HoldsLock, Labels
  <1>1. CASE args[p].ahead
    <2> DEFINE b == args[p].bh
    <2>0. locked' = [locked EXCEPT ![b] = FALSE] /\ Return(p)
          /\ UNCHANGED <<request, current, uptodate, dirt, wait_for_request, state, tmp>>
      BY <1>1 DEF NoRequest
    <2>1. TypeOK' /\ ArgsKept'
      BY <1>0, <2>0 DEF TypeOK, ArgsKept, Return, Goto, Labels
    <2>2. InUse' = InUse
      BY <2>0 DEF InUse
    <2>3. /\ ~HoldsLock(p)'
          /\ \A q \in Procs \ {p} : (HoldsLock(q)' <=> HoldsLock(q)) /\ args'[q] = args[q]
      BY <1>0, <2>0 DEF TypeOK, HoldsLock, Return, Goto
    <2>4. \A x \in Bufs : locked'[x] <=> locked[x] /\ x # b
      BY <1>0, <2>0 DEF TypeOK
    <2>5. QueuesSound'
      <3>1. \A m \in Majors : \A i \in DOMAIN current[m] :
              request[current[m][i]].bh \in Bufs /\ request[current[m][i]].bh # b
        BY <1>0 DEF QueuesSound, LockOwned, TypeOK, InUse, Requests
      <3> QED BY <1>0, <2>0, <2>1, <2>2, <2>4, <3>1 DEF QueuesSound
    <2>6. LockOwned'
      BY <1>0, <2>0, <2>2, <2>3, <2>4 DEF LockOwned
    <2> QED BY <2>1, <2>5, <2>6 DEF IInv
  <1>2. CASE ~args[p].ahead
    <2>1. TypeOK' /\ ArgsKept'
      BY <1>0, <1>2 DEF NoRequest, TypeOK, ArgsKept, Goto, Labels
    <2>2. \A q \in Procs : (HoldsLock(q)' <=> HoldsLock(q)) /\ (HoldsLock(q) => args'[q] = args[q])
      BY <1>0, <1>2 DEF NoRequest, TypeOK, HoldsLock, Goto, Labels
    <2> QED BY <1>2, <2>1, <2>2, LocksUntouched DEF NoRequest
  <1> QED BY <1>1, <1>2

\* sleep_on(&wait_for_request), whichever of its steps.
LEMMA SleepStep ==
    ASSUME IInv, NEW p \in Procs,
           SleepSave(p) \/ SleepLink(p) \/ SleepBlock(p) \/ SleepReturn(p)
    PROVE  IInv'
  <1>0. TypeOK /\ ArgsKept
    BY DEF IInv, QueuesSound
  <1>1. TypeOK' /\ ArgsKept'
    BY <1>0, ZenonT(60) DEF TypeOK, ArgsKept, SleepSave, SleepLink, SleepBlock, SleepReturn,
                SetRunning, Goto, Labels, bvars
  <1>2. /\ UNCHANGED <<request, current, locked, args>>
        /\ \A q \in Procs : HoldsLock(q)' <=> HoldsLock(q)
    BY <1>0 DEF TypeOK, SleepSave, SleepLink, SleepBlock, SleepReturn,
                HoldsLock, Goto, Labels, bvars
  <1> QED BY <1>1, <1>2, LocksUntouched

\* The owner of a buffer writes to it, or it is invalidated.
LEMMA BufferStep ==
    ASSUME IInv, NEW b \in Bufs, MarkDirty(b) \/ Invalidate(b)
    PROVE  IInv'
  <1>0. TypeOK /\ ArgsKept
    BY DEF IInv, QueuesSound
  <1>1. TypeOK' /\ ArgsKept'
    BY <1>0 DEF TypeOK, ArgsKept, MarkDirty, Invalidate, pvars
  <1>2. /\ UNCHANGED <<request, current, locked, args>>
        /\ \A q \in Procs : HoldsLock(q)' <=> HoldsLock(q)
    BY DEF MarkDirty, Invalidate, HoldsLock, pvars
  <1> QED BY <1>1, <1>2, LocksUntouched

\* make_request fills a slot and add_request links it: the lock passes from
\* the process to the request.
LEMMA AddRequestStep ==
    ASSUME IInv, NEW p \in Procs, AddRequest(p)
    PROVE  IInv'
  <1> DEFINE a == args[p]
             s == CHOOSE x \in FreeSlots(a.cmd) : \A y \in FreeSlots(a.cmd) : y <= x
             r == [cmd |-> a.cmd, bh |-> a.bh]
             d == a.bh.major
             q == current[d]
             new == Elevator(q, s, r)
  <1>0. /\ TypeOK /\ QueuesSound /\ LockOwned /\ ArgsKept
        /\ pc[p] = "find_request" /\ HoldsLock(p) /\ a \in Calls
    BY DEF IInv, QueuesSound, ArgsKept, AddRequest, HoldsLock, Labels
  <1>1. /\ request' = [request EXCEPT ![s] = r]
        /\ current' = [current EXCEPT ![d] = new]
        /\ dirt' = [dirt EXCEPT ![a.bh] = FALSE]
        /\ Return(p)
        /\ UNCHANGED <<locked, uptodate, wait_for_request, state, tmp>>
    BY DEF AddRequest
  <1>2. a.cmd \in Cmds /\ a.bh \in Bufs /\ d \in Majors /\ r \in Requests /\ r # FREE
    BY <1>0, CallMakesRequest
  <1>3. s \in Slots /\ request[s] = FREE
    BY <1>2, ScanFindsSlot DEF AddRequest
  <1> DEFINE bh == a.bh
  <1>4. r.bh = bh /\ bh \in Bufs /\ bh.major = d
    BY <1>2
  <1> HIDE DEF s, r
  <1>5. q \in Seq(Slots)
    BY <1>0, <1>2 DEF TypeOK
  <1>6. /\ new \in Seq(Slots)
        /\ \E k \in 1 .. Len(q) + 1 :
             /\ Len(new) = Len(q) + 1
             /\ \A j \in 1 .. Len(q) + 1 :
                  new[j] = IF j < k THEN q[j] ELSE IF j = k THEN s ELSE q[j - 1]
    <2>1. \A l \in Seq(Slots) : Elevator(l, s, r) \in Seq(Slots) /\
            \E k \in 1 .. Len(l) + 1 :
             /\ Len(Elevator(l, s, r)) = Len(l) + 1
             /\ \A j \in 1 .. Len(l) + 1 : Elevator(l, s, r)[j]
                   = IF j < k THEN l[j] ELSE IF j = k THEN s ELSE l[j - 1]
      BY <1>3, ElevatorInserts
    <2> HIDE DEF q
    <2> QED BY <1>5, <2>1
  <1> HIDE DEF new
  <1>7. PICK k \in 1 .. Len(q) + 1 :
          /\ Len(new) = Len(q) + 1
          /\ \A j \in 1 .. Len(q) + 1 :
               new[j] = IF j < k THEN q[j] ELSE IF j = k THEN s ELSE q[j - 1]
    BY <1>6
  <1>8. Len(q) \in Nat /\ DOMAIN q = 1 .. Len(q) /\ DOMAIN new = 1 .. Len(q) + 1
    BY <1>5, <1>6, <1>7, LenProperties
  <1>9. current'[d] = new /\ \A m \in Majors \ {d} : current'[m] = current[m]
    BY <1>0, <1>1, <1>2 DEF TypeOK
  <1>10. request'[s] = r /\ \A x \in Slots \ {s} : request'[x] = request[x]
    BY <1>0, <1>1, <1>3 DEF TypeOK
  <1>11. InUse' = InUse \cup {s} /\ s \notin InUse
    BY <1>2, <1>3, <1>10 DEF InUse
  <1>12. TypeOK' /\ ArgsKept'
    <2>1. /\ request' \in [Slots -> Requests \cup {FREE}]
          /\ current' \in [Majors -> Seq(Slots)]
      BY <1>0, <1>1, <1>2, <1>3, <1>6 DEF TypeOK
    <2> QED BY <1>0, <1>1, <1>2, <2>1 DEF TypeOK, ArgsKept, Return, Goto, Labels
  <1>13. /\ ~HoldsLock(p)'
         /\ \A x \in Procs \ {p} : (HoldsLock(x)' <=> HoldsLock(x)) /\ args'[x] = args[x]
    BY <1>0, <1>1 DEF TypeOK, HoldsLock, Return, Goto
  <1>14. \A x \in InUse : x # s /\ request'[x] = request[x] /\ request[x].bh # bh /\ request[x].bh \in Bufs
    BY <1>0, <1>10, <1>11 DEF LockOwned, TypeOK, InUse, Requests
  <1>15. locked[bh]
    BY <1>0, <1>2 DEF LockOwned
  <1>16. LockOwned'
    <2>1. \A x, y \in InUse' : request'[x].bh = request'[y].bh => x = y
      BY <1>0, <1>4, <1>10, <1>11, <1>14 DEF LockOwned
    <2>2. \A x, y \in Procs : HoldsLock(x)' /\ HoldsLock(y)' /\ args'[x].bh = args'[y].bh => x = y
      BY <1>0, <1>13 DEF LockOwned
    <2>3. \A x \in Procs, y \in InUse' : HoldsLock(x)' => args'[x].bh # request'[y].bh
      BY <1>0, <1>4, <1>10, <1>11, <1>13, <1>14 DEF LockOwned
    <2>4. ASSUME NEW b \in Bufs
          PROVE  locked'[b] <=> \/ \E x \in InUse' : request'[x].bh = b
                                \/ \E x \in Procs : HoldsLock(x)' /\ args'[x].bh = b
      <3>1. locked'[b] = locked[b]
        BY <1>1
      <3>2. CASE b = bh
        BY <1>4, <1>10, <1>11, <1>15, <3>1, <3>2
      <3>3. CASE b # bh
        <4>1. (\E x \in InUse' : request'[x].bh = b) <=> (\E x \in InUse : request[x].bh = b)
          BY <1>4, <1>10, <1>11, <1>14, <3>3
        <4>2. (\E x \in Procs : HoldsLock(x)' /\ args'[x].bh = b)
                 <=> (\E x \in Procs : HoldsLock(x) /\ args[x].bh = b)
          BY <1>13, <3>3
        <4> QED BY <1>0, <3>1, <4>1, <4>2 DEF LockOwned
      <3> QED BY <3>2, <3>3
    <2> QED BY <2>1, <2>2, <2>3, <2>4 DEF LockOwned
  <1> DEFINE old(j) == IF j < k THEN j ELSE j - 1
  <1>17. \* Every element of the new list but s was there before, at old(j).
         /\ \A j \in DOMAIN new : j # k => old(j) \in DOMAIN q /\ new[j] = q[old(j)]
         /\ \A i, j \in DOMAIN new : i # k /\ j # k /\ old(i) = old(j) => i = j
         /\ k \in DOMAIN new /\ new[k] = s
    <2>1. k \in Int /\ \A j \in DOMAIN new : j \in Int
      BY <1>8
    <2>2. ASSUME NEW j \in DOMAIN new, j # k PROVE old(j) \in DOMAIN q /\ new[j] = q[old(j)]
      BY <1>7, <1>8, <2>1, <2>2
    <2>3. ASSUME NEW i \in DOMAIN new, NEW j \in DOMAIN new, i # k, j # k, old(i) = old(j)
          PROVE  i = j
      BY <2>1, <2>3
    <2>4. k \in DOMAIN new /\ new[k] = s
      BY <1>7, <1>8
    <2> QED BY <2>2, <2>3, <2>4
  <1> HIDE DEF old
  <1>18. QueuesSound'
    <2>1. \A m \in Majors : \A i \in DOMAIN current[m] : current[m][i] \in InUse
      BY <1>0 DEF QueuesSound
    <2>2. ASSUME NEW m \in Majors, NEW i \in DOMAIN current'[m]
          PROVE  /\ current'[m][i] \in InUse'
                 /\ request'[current'[m][i]].bh.major = m
                 /\ locked'[request'[current'[m][i]].bh]
      <3>1. CASE m = d /\ current'[m][i] = s
        <4>1. request'[current'[m][i]].bh = bh /\ current'[m][i] \in InUse'
          BY <1>4, <1>10, <1>11, <3>1
        <4> QED BY <1>1, <1>4, <1>15, <3>1, <4>1
      <3>2. CASE \E j \in DOMAIN current[m] : current'[m][i] = current[m][j]
        <4>1. PICK j \in DOMAIN current[m] : current'[m][i] = current[m][j]
          BY <3>2
        <4>2. current[m][j] \in InUse /\ request'[current[m][j]] = request[current[m][j]]
          BY <1>14, <2>1
        <4>3. request[current[m][j]].bh.major = m /\ locked[request[current[m][j]].bh]
          BY <1>0 DEF QueuesSound
        <4> QED BY <1>1, <1>11, <4>1, <4>2, <4>3
      <3>3. CASE m = d
        <4>1. i \in DOMAIN new /\ current'[m][i] = new[i] /\ current[m] = q
          BY <1>9, <3>3
        <4>2. CASE i = k
          BY <1>17, <3>1, <3>3, <4>1, <4>2
        <4>3. CASE i # k
          BY <1>17, <3>2, <4>1, <4>3
        <4> QED BY <4>2, <4>3
      <3>4. CASE m # d
        BY <1>9, <3>2, <3>4
      <3> QED BY <3>3, <3>4
    <2>3. ASSUME NEW m \in Majors, NEW n \in Majors, NEW i \in DOMAIN current'[m],
                 NEW j \in DOMAIN current'[n], current'[m][i] = current'[n][j]
          PROVE  m = n /\ i = j
      <3>1. CASE m = d /\ n = d
        <4>1. q \in Seq(Slots) /\ \A x, y \in DOMAIN q : q[x] = q[y] => x = y
          BY <1>0, <1>2, <1>5 DEF QueuesSound
        <4>2. \A x \in DOMAIN q : q[x] # s
          BY <1>2, <1>11, <2>1
        <4>3. i \in DOMAIN new /\ j \in DOMAIN new /\ new[i] = new[j]
          BY <1>9, <2>3, <3>1
        <4> QED BY <1>17, <3>1, <4>1, <4>2, <4>3
      <3>2. CASE m = d /\ n # d
        <4>1. i \in DOMAIN new /\ j \in DOMAIN current[n] /\ new[i] = current[n][j]
          BY <1>9, <2>3, <3>2
        <4>2. new[i] # s
          BY <1>11, <2>1, <4>1
        <4>3. old(i) \in DOMAIN q /\ q[old(i)] = current[n][j]
          BY <1>17, <4>1, <4>2
        <4> QED BY <1>0, <1>2, <3>2, <4>1, <4>3 DEF QueuesSound
      <3>3. CASE m # d /\ n = d
        <4>1. j \in DOMAIN new /\ i \in DOMAIN current[m] /\ new[j] = current[m][i]
          BY <1>9, <2>3, <3>3
        <4>2. new[j] # s
          BY <1>11, <2>1, <4>1
        <4>3. old(j) \in DOMAIN q /\ q[old(j)] = current[m][i]
          BY <1>17, <4>1, <4>2
        <4> QED BY <1>0, <1>2, <3>3, <4>1, <4>3 DEF QueuesSound
      <3>4. CASE m # d /\ n # d
        BY <1>0, <1>9, <2>3, <3>4 DEF QueuesSound
      <3> QED BY <3>1, <3>2, <3>3, <3>4
    <2>4. ASSUME NEW x \in InUse'
          PROVE  \E m \in Majors : \E i \in DOMAIN current'[m] : current'[m][i] = x
      <3>1. CASE x = s
        <4>1. k \in DOMAIN current'[d] /\ current'[d][k] = s
          BY <1>7, <1>8, <1>9
        <4> QED BY <1>2, <3>1, <4>1
      <3>2. CASE x \in InUse
        <4>1. PICK m \in Majors : \E i \in DOMAIN current[m] : current[m][i] = x
          BY <1>0, <3>2 DEF QueuesSound
        <4>2. PICK i \in DOMAIN current[m] : current[m][i] = x
          BY <4>1
        <4>3. CASE m # d
          BY <1>9, <4>2, <4>3
        <4>4. CASE m = d
          <5>0. i \in 1 .. Len(q) /\ i \in Int /\ q[i] = x
            BY <1>8, <4>2, <4>4
          <5>1. CASE i < k
            <6>1. i \in 1 .. Len(q) + 1
              BY <1>8, <5>0
            <6>2. new[i] = q[i]
              BY <1>7, <5>1, <6>1
            <6> QED BY <1>2, <1>8, <1>9, <5>0, <6>1, <6>2
          <5>2. CASE ~(i < k)
            <6>1. i + 1 \in 1 .. Len(q) + 1 /\ ~(i + 1 < k) /\ i + 1 # k /\ (i + 1) - 1 = i
              BY <1>8, <5>0, <5>2
            <6>2. new[i + 1] = q[i]
              BY <1>7, <6>1
            <6> QED BY <1>2, <1>8, <1>9, <5>0, <6>1, <6>2
          <5> QED BY <5>1, <5>2
        <4> QED BY <4>3, <4>4
      <3> QED BY <1>11, <3>1, <3>2
    <2> QED BY <1>12, <2>2, <2>3, <2>4 DEF QueuesSound
  <1> QED BY <1>12, <1>16, <1>18 DEF IInv

\* end_request unlocks the buffer of the request at the head of the list and
\* frees its slot.
LEMMA EndRequestStep ==
    ASSUME IInv, NEW d \in Majors, NEW ok \in BOOLEAN, EndRequest(d, ok)
    PROVE  IInv'
  <1> DEFINE q == current[d]
             s == Head(q)
             bh == request[s].bh
  <1>0. TypeOK /\ QueuesSound /\ LockOwned /\ ArgsKept
    BY DEF IInv, QueuesSound
  <1>1. /\ q # <<>>
        /\ uptodate' = [uptodate EXCEPT ![bh] = ok]
        /\ locked' = [locked EXCEPT ![bh] = FALSE]
        /\ SetRunning(wait_for_request)
        /\ wait_for_request' = NULL
        /\ request' = [request EXCEPT ![s] = FREE]
        /\ current' = [current EXCEPT ![d] = Tail(q)]
        /\ UNCHANGED <<dirt, tmp, pc, args, cpu>>
    BY DEF EndRequest
  <1>2. q \in Seq(Slots)
    BY <1>0 DEF TypeOK
  <1>3. /\ Len(q) \in Nat \ {0} /\ DOMAIN q = 1 .. Len(q) /\ 1 \in DOMAIN q /\ s = q[1]
        /\ Tail(q) \in Seq(Slots) /\ DOMAIN Tail(q) = 1 .. Len(q) - 1
        /\ \A i \in 1 .. Len(q) - 1 : Tail(q)[i] = q[i + 1]
    BY <1>1, <1>2, HeadTailProperties, LenProperties, EmptySeq
  <1>4. s \in InUse /\ s \in Slots /\ bh \in Bufs
    BY <1>0, <1>3 DEF QueuesSound, TypeOK, InUse, Requests
  <1>5. /\ \A x \in InUse : x # s => request[x].bh # bh /\ request[x].bh \in Bufs
        /\ \A p \in Procs : HoldsLock(p) => args[p].bh # bh
    BY <1>0, <1>4 DEF LockOwned, TypeOK, InUse, Requests
  <1> HIDE DEF s, bh
  <1>6. InUse' = InUse \ {s} /\ \A x \in InUse' : request'[x] = request[x]
    BY <1>0, <1>1, <1>4 DEF TypeOK, InUse
  <1>7. \A b \in Bufs : locked'[b] <=> locked[b] /\ b # bh
    BY <1>0, <1>1 DEF TypeOK
  <1>8. TypeOK' /\ ArgsKept'
    BY <1>0, <1>1, <1>3, <1>4 DEF TypeOK, ArgsKept, SetRunning
  <1>9. \A p \in Procs : HoldsLock(p)' <=> HoldsLock(p)
    BY <1>1 DEF HoldsLock
  <1>10. LockOwned'
    <2>1. \A p \in Procs : args'[p] = args[p]
      BY <1>1
    <2>2. \A b \in Bufs : locked'[b] <=> \/ \E x \in InUse' : request'[x].bh = b
                                         \/ \E p \in Procs : HoldsLock(p)' /\ args'[p].bh = b
      BY <1>0, <1>4, <1>5, <1>6, <1>7, <1>9, <2>1 DEF LockOwned, bh
    <2> QED BY <1>0, <1>6, <1>9, <2>1, <2>2 DEF LockOwned
  <1> DEFINE old(m, i) == IF m = d THEN i + 1 ELSE i
  <1>11. /\ \A m \in Majors : \A i \in DOMAIN current'[m] :
               /\ old(m, i) \in DOMAIN current[m]
               /\ current'[m][i] = current[m][old(m, i)]
               /\ m = d => old(m, i) # 1
         /\ \A m \in Majors : \A i, j \in DOMAIN current'[m] : old(m, i) = old(m, j) => i = j
    <2>1. current'[d] = Tail(q) /\ \A m \in Majors \ {d} : current'[m] = current[m]
      BY <1>0, <1>1 DEF TypeOK
    <2>2. \A i \in 1 .. Len(q) - 1 : i + 1 \in DOMAIN q /\ i + 1 # 1
      BY <1>3
    <2>3. \A i, j \in 1 .. Len(q) - 1 : i + 1 = j + 1 => i = j
      BY <1>3
    <2> QED BY <1>3, <2>1, <2>2, <2>3
  <1> HIDE DEF old
  <1>12. \A m \in Majors : \A i \in DOMAIN current[m] : current[m][i] = s => m = d /\ i = 1
    BY <1>0, <1>3 DEF QueuesSound
  <1>13. QueuesSound'
    <2>1. ASSUME NEW m \in Majors, NEW i \in DOMAIN current'[m]
          PROVE  /\ current'[m][i] \in InUse'
                 /\ request'[current'[m][i]].bh.major = m
                 /\ locked'[request'[current'[m][i]].bh]
      <3>1. /\ current'[m][i] \in InUse /\ current'[m][i] # s
            /\ request[current'[m][i]].bh.major = m
            /\ locked[request[current'[m][i]].bh]
        BY <1>0, <1>11, <1>12 DEF QueuesSound
      <3> QED BY <1>5, <1>6, <1>7, <3>1
    <2>2. ASSUME NEW m \in Majors, NEW n \in Majors, NEW i \in DOMAIN current'[m],
                 NEW j \in DOMAIN current'[n], current'[m][i] = current'[n][j]
          PROVE  m = n /\ i = j
      <3>1. m = n /\ old(m, i) = old(n, j)
        BY <1>0, <1>11, <2>2 DEF QueuesSound
      <3> QED BY <1>11, <3>1
    <2>3. ASSUME NEW x \in InUse'
          PROVE  \E m \in Majors : \E i \in DOMAIN current'[m] : current'[m][i] = x
      <3>1. x \in InUse /\ x # s
        BY <1>6
      <3>2. PICK m \in Majors : \E i \in DOMAIN current[m] : current[m][i] = x
        BY <1>0, <3>1 DEF QueuesSound
      <3>3. PICK i \in DOMAIN current[m] : current[m][i] = x
        BY <3>2
      <3>4. CASE m # d
        BY <1>0, <1>1, <3>3, <3>4 DEF TypeOK
      <3>5. CASE m = d
        <4>1. current'[d] = Tail(q)
          BY <1>0, <1>1 DEF TypeOK
        <4>2. i \in 1 .. Len(q) /\ i # 1
          BY <1>3, <3>1, <3>3, <3>5
        <4>3. i - 1 \in 1 .. Len(q) - 1 /\ (i - 1) + 1 = i
          BY <1>3, <4>2
        <4>4. i - 1 \in DOMAIN current'[d] /\ current'[d][i - 1] = x
          BY <1>3, <3>3, <3>5, <4>1, <4>3
        <4> QED BY <4>4
      <3> QED BY <3>4, <3>5
    <2> QED BY <1>8, <2>1, <2>2, <2>3 DEF QueuesSound
  <1> QED BY <1>8, <1>10, <1>13 DEF IInv

\* Every step of a process, of a device's interrupt and of a buffer's owner
\* keeps the invariant.
LEMMA NextIInv == IInv /\ [Next]_vars => IInv'
  <1> SUFFICES ASSUME IInv, [Next]_vars PROVE IInv'
    OBVIOUS
  <1>1. ASSUME NEW p \in Procs, NEW a \in Calls, Call(p, a) PROVE IInv'
    BY <1>1, CallStep
  <1>2. ASSUME NEW p \in Procs, LockBuffer(p) PROVE IInv'
    BY <1>2, LockBufferStep
  <1>3. ASSUME NEW p \in Procs, AddRequest(p) PROVE IInv'
    BY <1>3, AddRequestStep
  <1>4. ASSUME NEW p \in Procs, NoRequest(p) PROVE IInv'
    BY <1>4, NoRequestStep
  <1>5. ASSUME NEW p \in Procs,
               SleepSave(p) \/ SleepLink(p) \/ SleepBlock(p) \/ SleepReturn(p)
        PROVE  IInv'
    BY <1>5, SleepStep
  <1>6. ASSUME NEW m \in Majors, NEW ok \in BOOLEAN, EndRequest(m, ok) PROVE IInv'
    BY <1>6, EndRequestStep
  <1>7. ASSUME NEW b \in Bufs, MarkDirty(b) \/ Invalidate(b) PROVE IInv'
    BY <1>7, BufferStep
  <1>8. CASE UNCHANGED vars
    BY <1>8 DEF IInv, QueuesSound, LockOwned, ArgsKept, TypeOK, InUse, HoldsLock, vars, bvars, pvars
  <1> QED BY <1>1, <1>2, <1>3, <1>4, <1>5, <1>6, <1>7, <1>8 DEF Next, Run

\* The invariant of the block request queue, for every number of processes,
\* buffers, devices and slots.
THEOREM Invariant == Spec => []IInv
  BY InitIInv, NextIInv, PTL DEF Spec

\* The panics of INIT_REQUEST ("request list destroyed", "block not locked")
\* cannot happen: a device's list holds its own requests, each once, each
\* with its buffer locked, and no request is lost from it.
THEOREM ListsAreSound == Spec => []QueuesSound
  <1>1. IInv => QueuesSound
    BY DEF IInv
  <1> QED BY <1>1, Invariant, PTL

\* A locked buffer is owned by exactly one request or one process on its way
\* to make one, so nobody unlocks a buffer under another's transfer.
THEOREM LocksAreOwned == Spec => []LockOwned
  <1>1. IInv => LockOwned
    BY DEF IInv
  <1> QED BY <1>1, Invariant, PTL
=============================================================================

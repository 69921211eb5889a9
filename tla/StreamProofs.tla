---------------------------- MODULE StreamProofs ----------------------------
(***************************************************************************)
(* The two streams of bytes that processes read, write and sleep for.      *)
(*                                                                         *)
(* Pipe, for every page size, number of processes, count and amount of     *)
(* data: its inductive invariant PipeInv adds to the types the linear form *)
(* of PIPE_SIZE (no modulus), that an interrupted copy stays inside the    *)
(* page, and that i_count is the number of ends still open.                *)
(*                                                                         *)
(* Tty, for every size of queue, set of modes, number of characters typed  *)
(* and order of interrupts, reads, writes, flushes and mode changes: its   *)
(* inductive invariant IInv adds to the two properties that a tty_read     *)
(* that is under way still has something to read, without which nr would   *)
(* pass zero.                                                              *)
(***************************************************************************)
EXTENDS Pipe, Tty, TLAPS, FiniteSetTheorems, SequenceTheorems

\* The ring indices differ, going round, by the bytes in the pipe.
Ring ==
    /\ read <= written /\ written - read < PAGE_SIZE
    /\ IF tail <= head THEN head - tail = written - read
       ELSE head - tail + PAGE_SIZE = written - read

\* A copy cut short by a page fault is within the page.
Copies == \A p \in Procs : pos[p] + chars[p] <= PAGE_SIZE

\* One reference of the inode for each end that somebody has open.
OpenEnds ==
    i_count = (IF holders["read"] = {} THEN 0 ELSE 1) + (IF holders["write"] = {} THEN 0 ELSE 1)

PipeInv == PipeTypeOK /\ Ring /\ Copies /\ OpenEnds

-----------------------------------------------------------------------------
\* x & (PAGE_SIZE-1) for an index that has reached at most the end of the page.
LEMMA WrapIndex ==
    ASSUME NEW x \in 0 .. PAGE_SIZE
    PROVE  x % PAGE_SIZE = IF x = PAGE_SIZE THEN 0 ELSE x
  <1>1. CASE x = PAGE_SIZE
    BY <1>1, PipeConstants
  <1>2. CASE x # PAGE_SIZE
    BY <1>2, PipeConstants
  <1> QED BY <1>1, <1>2

\* x & (PAGE_SIZE-1) for the difference of two indices.
LEMMA WrapDifference ==
    ASSUME NEW h \in Cells, NEW t \in Cells
    PROVE  (h - t) % PAGE_SIZE = IF t <= h THEN h - t ELSE h - t + PAGE_SIZE
  <1> DEFINE d == h - t
  <1>0. d \in Int /\ -PAGE_SIZE < d /\ d < PAGE_SIZE
    BY PipeConstants DEF Cells
  <1> HIDE DEF d
  <1>1. CASE d >= 0
    <2>1. d % PAGE_SIZE = d  BY <1>0, <1>1, PipeConstants
    <2> QED BY <2>1, <1>1, PipeConstants DEF d, Cells
  <1>2. CASE d < 0
    <2>1. d % PAGE_SIZE = d + PAGE_SIZE  BY <1>0, <1>2, PipeConstants
    <2> QED BY <2>1, <1>2, PipeConstants DEF d, Cells
  <1> QED BY <1>0, <1>1, <1>2

\* In every state of the invariant PIPE_SIZE and Space are what they mean.
LEMMA SizeMeans ==
    ASSUME PipeTypeOK, Ring
    PROVE  PIPE_SIZE = written - read /\ Space = PAGE_SIZE - 1 - (written - read)
  BY WrapDifference, PipeConstants DEF PipeTypeOK, Ring, PIPE_SIZE, Space, Cells

\* The number of bytes of one turn of a loop is positive and within each bound.
LEMMA LeastIsLeast ==
    ASSUME NEW x \in Int, NEW y \in Int, NEW z \in Int, x > 0, y > 0, z > 0
    PROVE  LET c == Least(x, y, z) IN c \in Nat /\ 0 < c /\ c <= x /\ c <= y /\ c <= z
  BY DEF Least

\* The state after get_pipe_inode satisfies the invariant.
LEMMA InitPipe == PipeInit => PipeInv
  <1> SUFFICES ASSUME PipeInit PROVE PipeInv
    OBVIOUS
  <1>1. faulted \in BOOLEAN
    BY Zenon DEF PipeInit
  <1>2. /\ holders = [e \in {"read", "write"} |-> IF e = "read" THEN Readers ELSE Writers]
        /\ head = 0 /\ tail = 0 /\ read = 0 /\ written = 0 /\ i_count = 2
        /\ pos = [p \in Procs |-> 0] /\ chars = [p \in Procs |-> 0]
    BY DEF PipeInit
  <1>3. Ring /\ Copies /\ OpenEnds
    BY <1>2, PipeConstants DEF Ring, Copies, OpenEnds
  <1>4. PipeTypeOK
    BY <1>1, PipeConstants DEF PipeInit, PipeTypeOK, Cells, Bytes, Labels, Procs
  <1> QED BY <1>3, <1>4 DEF PipeInv

\* What one turn of read_pipe's loop takes.
LEMMA ReadTurn ==
    ASSUME PipeInv, NEW p \in Procs, ReadSome(p)
    PROVE  LET c == Least(PAGE_SIZE - tail, left[p], PIPE_SIZE) IN
               /\ c \in Nat /\ 0 < c
               /\ tail + c <= PAGE_SIZE /\ c <= left[p] /\ c <= written - read
               /\ tail' = IF tail + c = PAGE_SIZE THEN 0 ELSE tail + c
  <1> DEFINE c == Least(PAGE_SIZE - tail, left[p], PIPE_SIZE)
  <1>1. /\ PAGE_SIZE - tail \in Int /\ PAGE_SIZE - tail > 0
        /\ left[p] \in Int /\ left[p] > 0
        /\ PIPE_SIZE \in Int /\ PIPE_SIZE > 0 /\ PIPE_SIZE = written - read
    <2>1. left[p] > 0 /\ PIPE_SIZE # 0
      BY DEF ReadSome
    <2> QED BY <2>1, SizeMeans, PipeConstants, SMTT(30) DEF PipeInv, PipeTypeOK, Ring, Cells
  <1>2. /\ c \in Nat /\ 0 < c /\ c <= PAGE_SIZE - tail
        /\ c <= left[p] /\ c <= written - read
    BY <1>1, LeastIsLeast
  <1>3. tail' = (tail + c) % PAGE_SIZE
    BY DEF ReadSome, Advance
  <1> HIDE DEF c
  <1>4. tail + c \in 0 .. PAGE_SIZE /\ tail + c <= PAGE_SIZE
    BY <1>2, PipeConstants DEF PipeInv, PipeTypeOK, Cells
  <1>5. tail' = IF tail + c = PAGE_SIZE THEN 0 ELSE tail + c
    BY <1>3, <1>4, WrapIndex
  <1> QED BY <1>2, <1>4, <1>5 DEF c

\* What one turn of write_pipe's loop puts.
LEMMA WriteTurn ==
    ASSUME PipeInv, NEW p \in Procs, WriteSome(p)
    PROVE  LET c == Least(PAGE_SIZE - head, left[p], Space) IN
               /\ c \in Nat /\ 0 < c
               /\ head + c <= PAGE_SIZE /\ c <= left[p]
               /\ c <= PAGE_SIZE - 1 - (written - read)
               /\ head' = IF head + c = PAGE_SIZE THEN 0 ELSE head + c
  <1> DEFINE c == Least(PAGE_SIZE - head, left[p], Space)
  <1>1. /\ PAGE_SIZE - head \in Int /\ PAGE_SIZE - head > 0
        /\ left[p] \in Int /\ left[p] > 0
        /\ Space \in Int /\ Space > 0 /\ Space = PAGE_SIZE - 1 - (written - read)
    <2>1. left[p] > 0 /\ Space # 0
      BY DEF WriteSome
    <2> QED BY <2>1, SizeMeans, PipeConstants, SMTT(30) DEF PipeInv, PipeTypeOK, Ring, Cells
  <1>2. /\ c \in Nat /\ 0 < c /\ c <= PAGE_SIZE - head
        /\ c <= left[p] /\ c <= PAGE_SIZE - 1 - (written - read)
    BY <1>1, LeastIsLeast
  <1>3. head' = (head + c) % PAGE_SIZE
    BY DEF WriteSome, Advance
  <1> HIDE DEF c
  <1>4. head + c \in 0 .. PAGE_SIZE /\ head + c <= PAGE_SIZE
    BY <1>2, PipeConstants DEF PipeInv, PipeTypeOK, Cells
  <1>5. head' = IF head + c = PAGE_SIZE THEN 0 ELSE head + c
    BY <1>3, <1>4, WrapIndex
  <1> QED BY <1>2, <1>4, <1>5 DEF c

\* Copying out of the page delivers bytes.
LEMMA CopyOutType ==
    ASSUME PipeTypeOK, NEW c \in Nat, NEW k \in Nat, NEW f \in Nat, c + k <= PAGE_SIZE,
           CopyOut(c, k, f)
    PROVE  delivered' \in [Bytes -> Nat]
  <1>1. ASSUME NEW n \in Bytes, n \in f .. f + k - 1 PROVE ring[c + (n - f)] \in Nat
    <2>1. c + (n - f) \in Cells
      BY <1>1, PipeConstants DEF Cells, Bytes
    <2> QED BY <2>1 DEF PipeTypeOK
  <1>2. ASSUME NEW n \in Bytes PROVE delivered[n] \in Nat
    BY DEF PipeTypeOK
  <1> QED BY <1>1, <1>2 DEF CopyOut

\* Whether or not a fault cuts the copy short, the process's state is in order.
LEMMA AfterCopyType ==
    ASSUME PipeTypeOK, Copies, NEW p \in Procs,
           NEW c \in Nat, NEW n \in Nat, NEW k \in 0 .. n, NEW f \in Nat, c + n <= PAGE_SIZE,
           NEW l \in Labels, NEW fault \in Labels, AfterCopy(p, c, n, k, f, l, fault)
    PROVE  /\ pos' \in [Procs -> Nat] /\ chars' \in [Procs -> Nat] /\ nth' \in [Procs -> Nat]
           /\ pc' \in [Procs -> Labels] /\ cpu' \in Procs \cup {NULL} /\ faulted' \in BOOLEAN
           /\ Copies'
  <1>1. CASE k = n
    BY <1>1 DEF AfterCopy, PipeTypeOK, Copies
  <1>2. CASE k # n
    <2>1. /\ c + k \in Nat /\ n - k \in Nat /\ f + k \in Nat /\ (c + k) + (n - k) <= PAGE_SIZE
      BY PipeConstants
    <2>2. /\ pos' = [pos EXCEPT ![p] = c + k] /\ chars' = [chars EXCEPT ![p] = n - k]
          /\ nth' = [nth EXCEPT ![p] = f + k]
          /\ pc' = [pc EXCEPT ![p] = fault] /\ cpu' = NULL /\ faulted' = TRUE
      BY <1>2 DEF AfterCopy
    <2>3. Copies'
      BY <2>1, <2>2 DEF PipeTypeOK, Copies
    <2> QED BY <2>1, <2>2, <2>3 DEF PipeTypeOK
  <1> QED BY <1>1, <1>2

-----------------------------------------------------------------------------
\* Every step of the pipe preserves PipeInv: one case for each action.
LEMMA NextPipe == PipeInv /\ [PipeNext]_pipeVars => PipeInv'
  <1> SUFFICES ASSUME PipeInv, [PipeNext]_pipeVars PROVE PipeInv'
    OBVIOUS
  <1> USE PipeConstants
  <1>1. ASSUME NEW p \in Procs, NEW n \in 1 .. MaxBytes, SysRead(p, n) PROVE PipeInv'
    BY <1>1 DEF SysRead, PipeInv, PipeTypeOK, Ring, Copies, OpenEnds, Labels, ringvars, endvars
  <1>2. ASSUME NEW p \in Procs, NEW n \in 1 .. MaxBytes, SysWrite(p, n) PROVE PipeInv'
    BY <1>2 DEF SysWrite, PipeInv, PipeTypeOK, Ring, Copies, OpenEnds, Labels, ringvars
  <1>3. ASSUME NEW p \in Procs, ReadEnd(p) \/ WriteEnd(p) PROVE PipeInv'
    BY <1>3 DEF ReadEnd, WriteEnd, Return, PipeInv, PipeTypeOK, Ring, Copies, OpenEnds, Labels, ringvars,
                endvars
  <1>4. ASSUME NEW p \in Procs, ReadEmpty(p) PROVE PipeInv'
    BY <1>4 DEF ReadEmpty, Return, Sleep, PipeInv, PipeTypeOK, Ring, Copies, OpenEnds, Labels, ringvars,
                endvars
  <1>5. ASSUME NEW p \in Procs, WriteFull(p) PROVE PipeInv'
    BY <1>5 DEF WriteFull, Return, Sleep, PipeInv, PipeTypeOK, Ring, Copies, OpenEnds, Labels, ringvars
  <1>6. ASSUME NEW p \in Procs, Awake(p) PROVE PipeInv'
    BY <1>6 DEF Awake, Running, PipeInv, PipeTypeOK, Ring, Copies, OpenEnds, Labels, ringvars, endvars
  <1>7. ASSUME NEW p \in Procs, ReadFaulted(p) PROVE PipeInv'
    <2>1. delivered' \in [Bytes -> Nat]
      BY <1>7, CopyOutType DEF ReadFaulted, PipeInv, PipeTypeOK, Copies
    <2> QED BY <1>7, <2>1 DEF ReadFaulted, CopyDone, PipeInv, PipeTypeOK, Ring, Copies, OpenEnds, Labels,
                              endvars
  <1>8. ASSUME NEW p \in Procs, WriteFaulted(p) PROVE PipeInv'
    <2>1. ring' \in [Cells -> Nat]
      <3>1. pos[p] \in Nat /\ nth[p] \in Nat /\ ring \in [Cells -> Nat]
        BY DEF PipeInv, PipeTypeOK
      <3>2. CopyIn(pos[p], chars[p], nth[p])
        BY <1>8 DEF WriteFaulted
      <3>3. ASSUME NEW i \in Cells, i \in pos[p] .. pos[p] + chars[p] - 1
            PROVE  nth[p] + (i - pos[p]) \in Nat
        BY <3>1, <3>3, SMTT(30) DEF Cells
      <3> QED BY <3>1, <3>2, <3>3 DEF CopyIn
    <2> QED BY <1>8, <2>1 DEF WriteFaulted, CopyDone, PipeInv, PipeTypeOK, Ring, Copies, OpenEnds, Labels,
                              endvars
  <1>9. ASSUME NEW p \in Procs, NEW e \in {"read", "write"}, Close(p, e) PROVE PipeInv'
    <2>1. i_count' \in 0 .. 2 /\ OpenEnds'
      BY <1>9 DEF Close, PipeInv, PipeTypeOK, OpenEnds
    <2>2. holders' \in [{"read", "write"} -> SUBSET Procs]
      BY <1>9 DEF Close, PipeInv, PipeTypeOK
    <2> QED BY <1>9, <2>1, <2>2 DEF Close, PipeInv, PipeTypeOK, Ring, Copies, ringvars
  <1>10. ASSUME NEW p \in Procs, ReadSome(p) PROVE PipeInv'
    <2> DEFINE c == Least(PAGE_SIZE - tail, left[p], PIPE_SIZE)
    <2>1. /\ c \in Nat /\ 0 < c /\ tail + c <= PAGE_SIZE /\ c <= left[p] /\ c <= written - read
          /\ tail' = IF tail + c = PAGE_SIZE THEN 0 ELSE tail + c
      BY <1>10, ReadTurn
    <2>2. PICK k \in 0 .. c :
              CopyOut(tail, k, read + 1) /\ AfterCopy(p, tail, c, k, read + 1, "read", "read_fault")
      BY <1>10 DEF ReadSome
    <2>3. /\ left' = [left EXCEPT ![p] = @ - c] /\ read' = read + c
          /\ UNCHANGED <<head, ring, written, endvars, i_wait>>
      BY <1>10 DEF ReadSome
    <2> HIDE DEF c
    <2>4. delivered' \in [Bytes -> Nat]
      <3>1. tail \in Nat /\ k \in Nat /\ read + 1 \in Nat /\ tail + k <= PAGE_SIZE
        BY <2>1, <2>2 DEF PipeInv, PipeTypeOK, Cells
      <3> QED BY <2>2, <3>1, CopyOutType DEF PipeInv
    <2>5. Ring'
      BY <2>1, <2>3, SMTT(30) DEF Ring, PipeInv, PipeTypeOK, Cells
    <2>6. /\ pos' \in [Procs -> Nat] /\ chars' \in [Procs -> Nat] /\ nth' \in [Procs -> Nat]
          /\ pc' \in [Procs -> Labels] /\ cpu' \in Procs \cup {NULL} /\ faulted' \in BOOLEAN
          /\ Copies'
      <3>1. tail \in Nat /\ read + 1 \in Nat /\ "read" \in Labels /\ "read_fault" \in Labels
        BY DEF PipeInv, PipeTypeOK, Cells, Labels
      <3> QED BY <2>1, <2>2, <3>1, AfterCopyType DEF PipeInv
    <2>7. left' \in [Procs -> 0 .. MaxBytes] /\ tail' \in Cells /\ read' \in Nat
      BY <2>1, <2>3, SMTT(30) DEF PipeInv, PipeTypeOK, Cells
    <2> QED BY <2>3, <2>4, <2>5, <2>6, <2>7 DEF PipeInv, PipeTypeOK, OpenEnds, endvars
  <1>11. ASSUME NEW p \in Procs, WriteSome(p) PROVE PipeInv'
    <2> DEFINE c == Least(PAGE_SIZE - head, left[p], Space)
    <2>1. /\ c \in Nat /\ 0 < c /\ head + c <= PAGE_SIZE /\ c <= left[p]
          /\ c <= PAGE_SIZE - 1 - (written - read)
          /\ head' = IF head + c = PAGE_SIZE THEN 0 ELSE head + c
      BY <1>11, WriteTurn
    <2>2. PICK k \in 0 .. c :
              /\ CopyIn(head, k, written + 1)
              /\ AfterCopy(p, head, c, k, written + 1, "write", "write_fault")
      BY <1>11 DEF WriteSome
    <2>3. /\ left' = [left EXCEPT ![p] = @ - c] /\ written' = written + c
          /\ UNCHANGED <<tail, read, delivered, endvars, i_wait>>
      BY <1>11 DEF WriteSome
    <2> HIDE DEF c
    <2>4. ring' \in [Cells -> Nat]
      BY <2>1, <2>2, SMTT(30) DEF CopyIn, PipeInv, PipeTypeOK, Cells
    <2>5. Ring'
      BY <2>1, <2>3, SMTT(30) DEF Ring, PipeInv, PipeTypeOK, Cells
    <2>6. /\ pos' \in [Procs -> Nat] /\ chars' \in [Procs -> Nat] /\ nth' \in [Procs -> Nat]
          /\ pc' \in [Procs -> Labels] /\ cpu' \in Procs \cup {NULL} /\ faulted' \in BOOLEAN
          /\ Copies'
      <3>1. head \in Nat /\ written + 1 \in Nat /\ "write" \in Labels /\ "write_fault" \in Labels
        BY DEF PipeInv, PipeTypeOK, Cells, Labels
      <3> QED BY <2>1, <2>2, <3>1, AfterCopyType DEF PipeInv
    <2>7. left' \in [Procs -> 0 .. MaxBytes] /\ head' \in Cells /\ written' \in Nat
      BY <2>1, <2>3, SMTT(30) DEF PipeInv, PipeTypeOK, Cells
    <2> QED BY <2>3, <2>4, <2>5, <2>6, <2>7 DEF PipeInv, PipeTypeOK, OpenEnds, endvars
  <1>12. CASE UNCHANGED pipeVars
    BY <1>12 DEF pipeVars, ringvars, endvars, procvars, PipeInv, PipeTypeOK, Ring, Copies, OpenEnds
  <1> QED BY <1>1, <1>2, <1>3, <1>4, <1>5, <1>6, <1>7, <1>8, <1>9, <1>10, <1>11, <1>12
          DEF PipeNext, Run

\* Every behaviour stays within the types and the invariant.
THEOREM PipeTypes == PipeSpec => []PipeTypeOK
  <1>1. PipeInv => PipeTypeOK
    BY DEF PipeInv
  <1> QED BY <1>1, InitPipe, NextPipe, PTL DEF PipeSpec

\* PIPE_SIZE counts the bytes in the pipe, for every page size and whatever
\* page faults interrupt read_pipe and write_pipe.
THEOREM SizeIsExact == PipeSpec => []RingExact
  <1>1. PipeInv => RingExact
    BY SizeMeans DEF PipeInv, RingExact
  <1> QED BY <1>1, InitPipe, NextPipe, PTL DEF PipeSpec

-----------------------------------------------------------------------------
\* Until the first page fault no copy is left half done.
NoFaults == ~faulted => \A p \in Procs : pc[p] \notin {"read_fault", "write_fault"}

\* A turn of read_pipe's loop delivers the next bytes and leaves the rest in
\* order behind the new tail.
LEMMA ReadKeepsOrder ==
    ASSUME PipeInv, InOrder, ~faulted', NEW p \in Procs, ReadSome(p)
    PROVE  InOrder' /\ pc' = [pc EXCEPT ![p] = "read"]
  <1> USE PipeConstants
  <1> DEFINE c == Least(PAGE_SIZE - tail, left[p], PIPE_SIZE)
  <1>1. /\ c \in Nat /\ 0 < c /\ tail + c <= PAGE_SIZE /\ c <= written - read
        /\ tail' = IF tail + c = PAGE_SIZE THEN 0 ELSE tail + c
    BY ReadTurn
  <1>2. /\ CopyOut(tail, c, read + 1) /\ ~faulted
        /\ pc' = [pc EXCEPT ![p] = "read"]
    BY DEF ReadSome, AfterCopy
  <1>3. read' = read + c /\ UNCHANGED <<head, ring, written>>
    BY DEF ReadSome
  <1> HIDE DEF c
  <1>4. pc' = [pc EXCEPT ![p] = "read"]
    BY <1>2
  <1>5. /\ tail \in Nat /\ tail < PAGE_SIZE /\ head \in Nat /\ head < PAGE_SIZE
        /\ read \in Nat /\ written \in Nat /\ read <= written /\ written - read < PAGE_SIZE
    BY DEF PipeInv, PipeTypeOK, Ring, Cells
  <1>6. ASSUME NEW n \in Bytes, n <= read' PROVE delivered'[n] = n
    <2>1. n \in Nat /\ n >= 1
      BY DEF Bytes
    <2>2. CASE n <= read
      <3>1. delivered'[n] = delivered[n]
        BY <1>2, <1>5, <2>1, <2>2 DEF CopyOut
      <3> QED BY <1>2, <3>1, <2>2 DEF InOrder
    <2>3. CASE n > read
      <3> DEFINE i == n - (read + 1)
      <3>1. i \in 0 .. written - read - 1 /\ tail + i < PAGE_SIZE /\ n \in read + 1 .. read + 1 + c - 1
        BY <1>1, <1>3, <1>5, <1>6, <2>1, <2>3
      <3>2. delivered'[n] = ring[tail + i]
        BY <1>2, <3>1 DEF CopyOut
      <3>3. ring[tail + i] = read + 1 + i
        BY <1>2, <3>1 DEF InOrder
      <3> QED BY <3>2, <3>3, <2>1, <1>5
    <2> QED BY <1>5, <2>1, <2>2, <2>3
  <1>7. ASSUME NEW i \in 0 .. written' - read' - 1
        PROVE  ring'[IF tail' + i < PAGE_SIZE THEN tail' + i ELSE tail' + i - PAGE_SIZE] = read' + 1 + i
    <2> DEFINE j == i + c
    <2>1. j \in 0 .. written - read - 1
      BY <1>1, <1>3, <1>5
    <2>2. ring[IF tail + j < PAGE_SIZE THEN tail + j ELSE tail + j - PAGE_SIZE] = read + 1 + j
      BY <1>2, <2>1 DEF InOrder
    <2>3. (IF tail' + i < PAGE_SIZE THEN tail' + i ELSE tail' + i - PAGE_SIZE)
            = (IF tail + j < PAGE_SIZE THEN tail + j ELSE tail + j - PAGE_SIZE)
      BY <1>1, <1>3, <1>5
    <2>4. read + 1 + j = read' + 1 + i
      BY <1>1, <1>3, <1>5
    <2> QED BY <1>3, <2>2, <2>3, <2>4
  <1> QED BY <1>4, <1>6, <1>7 DEF InOrder

\* A turn of write_pipe's loop puts the next bytes at the head and touches no
\* byte that is still to be read.
LEMMA WriteKeepsOrder ==
    ASSUME PipeInv, InOrder, ~faulted', NEW p \in Procs, WriteSome(p)
    PROVE  InOrder' /\ pc' = [pc EXCEPT ![p] = "write"]
  <1> USE PipeConstants
  <1> DEFINE c == Least(PAGE_SIZE - head, left[p], Space)
  <1>1. /\ c \in Nat /\ 0 < c /\ head + c <= PAGE_SIZE
        /\ c <= PAGE_SIZE - 1 - (written - read)
    BY WriteTurn
  <1>2. /\ CopyIn(head, c, written + 1) /\ ~faulted
        /\ pc' = [pc EXCEPT ![p] = "write"]
    BY DEF WriteSome, AfterCopy
  <1>3. written' = written + c /\ UNCHANGED <<tail, read, delivered>>
    BY DEF WriteSome
  <1> HIDE DEF c
  <1>4. pc' = [pc EXCEPT ![p] = "write"]
    BY <1>2
  <1>5. /\ tail \in Nat /\ tail < PAGE_SIZE /\ head \in Nat /\ head < PAGE_SIZE
        /\ read \in Nat /\ written \in Nat /\ read <= written /\ written - read < PAGE_SIZE
        /\ IF tail <= head THEN head - tail = written - read
           ELSE head - tail + PAGE_SIZE = written - read
    BY DEF PipeInv, PipeTypeOK, Ring, Cells
  <1>6. ASSUME NEW n \in Bytes, n <= read' PROVE delivered'[n] = n
    BY <1>2, <1>3, <1>6 DEF InOrder
  <1>7. ASSUME NEW i \in 0 .. written' - read' - 1
        PROVE  ring'[IF tail' + i < PAGE_SIZE THEN tail' + i ELSE tail' + i - PAGE_SIZE] = read' + 1 + i
    <2> DEFINE w == IF tail + i < PAGE_SIZE THEN tail + i ELSE tail + i - PAGE_SIZE
    <2>0. i \in Nat /\ i < written + c - read
      BY <1>1, <1>3, <1>5
    <2>1. w \in Cells
      BY <1>1, <1>5, <2>0 DEF Cells
    <2>2. CASE i < written - read
      <3>1. ~(w \in head .. head + c - 1)
        BY <1>1, <1>5, <2>0, <2>2
      <3>2. ring'[w] = ring[w]
        BY <1>2, <2>1, <3>1 DEF CopyIn
      <3>3. ring[w] = read + 1 + i
        BY <1>2, <1>5, <2>0, <2>2 DEF InOrder
      <3> QED BY <1>3, <3>2, <3>3
    <2>3. CASE ~(i < written - read)
      <3>1. w = head + (i - (written - read)) /\ w \in head .. head + c - 1
        BY <1>1, <1>5, <2>0, <2>3
      <3>2. ring'[w] = written + 1 + (w - head)
        BY <1>2, <2>1, <3>1 DEF CopyIn
      <3> QED BY <1>3, <1>5, <2>0, <3>1, <3>2
    <2> QED BY <2>2, <2>3
  <1> QED BY <1>4, <1>6, <1>7 DEF InOrder

\* Until the first page fault every byte read is the byte written in its
\* place: no byte is lost, repeated or reordered, for every page size, any
\* number of readers and writers and any counts.
THEOREM BytesInOrder == PipeSpec => []InOrder
  <1>1. PipeInit => InOrder /\ NoFaults
    BY PipeConstants DEF PipeInit, InOrder, NoFaults, Bytes
  <1>2. PipeInv /\ InOrder /\ NoFaults /\ [PipeNext]_pipeVars => InOrder' /\ NoFaults'
    <2> SUFFICES ASSUME PipeInv, InOrder, NoFaults, [PipeNext]_pipeVars, ~faulted' PROVE InOrder' /\ NoFaults'
      BY DEF InOrder, NoFaults
    <2>1. ASSUME NEW p \in Procs, ReadSome(p) PROVE InOrder' /\ NoFaults'
      <3>1. ~faulted
        BY <2>1 DEF ReadSome, AfterCopy
      <3> QED BY <2>1, <3>1, ReadKeepsOrder DEF NoFaults, PipeInv, PipeTypeOK
    <2>2. ASSUME NEW p \in Procs, WriteSome(p) PROVE InOrder' /\ NoFaults'
      <3>1. ~faulted
        BY <2>2 DEF WriteSome, AfterCopy
      <3> QED BY <2>2, <3>1, WriteKeepsOrder DEF NoFaults, PipeInv, PipeTypeOK
    <2>3. ASSUME NEW p \in Procs, ReadFaulted(p) \/ WriteFaulted(p) PROVE FALSE
      BY <2>3 DEF ReadFaulted, WriteFaulted, Running, NoFaults
    <2>4. ASSUME NEW p \in Procs,
                 \/ ReadEnd(p) \/ ReadEmpty(p) \/ WriteEnd(p) \/ WriteFull(p) \/ Awake(p)
                 \/ \E n \in 1 .. MaxBytes : SysRead(p, n) \/ SysWrite(p, n)
                 \/ \E e \in {"read", "write"} : Close(p, e)
          PROVE  InOrder' /\ NoFaults'
      <3>1. UNCHANGED ringvars
        BY <2>4 DEF ReadEnd, ReadEmpty, WriteEnd, WriteFull, Awake, SysRead, SysWrite, Close
      <3>2. InOrder'
        BY <3>1 DEF InOrder, ringvars
      <3>3. \A q \in Procs : pc'[q] \notin {"read_fault", "write_fault"}
        BY <2>4, <3>1 DEF ReadEnd, ReadEmpty, WriteEnd, WriteFull, Awake, SysRead, SysWrite,
                    Close, Return, Sleep, NoFaults, PipeInv, PipeTypeOK, ringvars
      <3> QED BY <3>2, <3>3 DEF NoFaults
    <2>5. CASE UNCHANGED pipeVars
      BY <2>5 DEF pipeVars, ringvars, procvars, InOrder, NoFaults
    <2> QED BY <2>1, <2>2, <2>3, <2>4, <2>5 DEF PipeNext, Run
  <1> QED BY <1>1, <1>2, InitPipe, NextPipe, PTL DEF PipeSpec

\* Never are a reader and a writer asleep on the pipe at once: whoever goes to
\* sleep has just emptied the queue, so at most one process is on it.
THEOREM NeverBothAsleep == PipeSpec => []NotBothAsleep
  <1> DEFINE Alone == \A p, q \in i_wait : p = q
  <1>1. PipeInit => Alone
    BY DEF PipeInit
  <1>2. Alone /\ [PipeNext]_pipeVars => Alone'
    BY DEF PipeNext, Run, SysRead, SysWrite, ReadEnd, ReadEmpty, ReadSome, ReadFaulted, WriteEnd,
           WriteFull, WriteSome, WriteFaulted, Awake, Close, Return, Sleep, pipeVars, procvars
  <1>3. Alone => NotBothAsleep
    BY DEF NotBothAsleep, Asleep
  <1> QED BY <1>1, <1>2, <1>3, PTL DEF PipeSpec

-----------------------------------------------------------------------------
\* A call of tty_read under way has bytes left to read.
Asking == rd.pc # "user" => rd.nr >= 1

Counted == ~raced /\ ~recounted => data = Cardinality(Ends(LineEnd, secondary))

Base == TypeOK /\ Asking
\* Nobody sleeps for ever: when there is something to read, the reader is woken
\* or copy_to_cooked, which ends with a wake_up, runs; a writer is woken, or
\* the transmit interrupt is still to come.
WakeupsComing ==
    /\ rd.pc = "sleep" /\ secondary # <<>> => intr \/ "rd" \in woken
    /\ wr.pc = "sleep" => thri \/ "wr" \in woken

IInv == Base /\ Counted /\ Transmitting

-----------------------------------------------------------------------------
\* The room of a queue.
LEMMA RoomOfQueue == Full \in Nat /\ Full >= 1 /\ Full + 1 = TTY_BUF_SIZE
  <1>1. TTY_BUF_SIZE \in Nat /\ LOW \in Nat /\ LOW # 0 /\ STARTUP \in Nat
    BY TtyConstants
  <1>2. STARTUP + LOW < TTY_BUF_SIZE
    BY TtyConstants
  <1> QED BY <1>1, <1>2 DEF Full

\* The line ends of a queue are finitely many.
LEMMA EndsFinite ==
    ASSUME NEW L, NEW s \in Seq(Chars)
    PROVE  IsFiniteSet(Ends(L, s)) /\ Cardinality(Ends(L, s)) \in Nat
  <1>1. IsFiniteSet(1 .. Len(s))
    BY FS_Interval
  <1>2. Ends(L, s) \in SUBSET (1 .. Len(s))
    BY DEF Ends
  <1>3. IsFiniteSet(Ends(L, s))
    BY <1>1, <1>2, FS_Subset
  <1> QED BY <1>3, FS_CardinalityType

\* PUTCH adds one line end to those of the queue if its character is one.
LEMMA EndsAppend ==
    ASSUME NEW L, NEW s \in Seq(Chars), NEW c \in Chars
    PROVE  Cardinality(Ends(L, Append(s, c))) = Cardinality(Ends(L, s)) + (IF c \in L THEN 1 ELSE 0)
  <1> DEFINE n == Len(s) + 1  E == Ends(L, s)  t == Append(s, c)
  <1>1. n \in Nat /\ DOMAIN t = 1 .. n /\ t[n] = c /\ \A i \in 1 .. Len(s) : t[i] = s[i]
    OBVIOUS
  <1>2. IsFiniteSet(E) /\ Cardinality(E) \in Nat
    BY EndsFinite
  <1>3. E \subseteq 1 .. Len(s) /\ n \notin E
    BY DEF Ends
  <1>4. CASE c \in L
    <2>1. Ends(L, t) = E \cup {n}
      BY <1>1, <1>4 DEF Ends
    <2> HIDE DEF E, t, n
    <2>2. Cardinality(E \cup {n}) = Cardinality(E) + 1
      BY <1>2, <1>3, FS_AddElement
    <2> QED BY <1>4, <2>1, <2>2 DEF E, t
  <1>5. CASE c \notin L
    <2>1. Ends(L, t) = E
      BY <1>1, <1>5 DEF Ends
    <2> QED BY <1>2, <1>5, <2>1
  <1> QED BY <1>4, <1>5

\* GETCH takes one line end from those of the queue if its character is one.
LEMMA EndsTail ==
    ASSUME NEW L, NEW s \in Seq(Chars), s # <<>>
    PROVE  Cardinality(Ends(L, Tail(s))) = Cardinality(Ends(L, s)) - (IF Head(s) \in L THEN 1 ELSE 0)
  <1> DEFINE E == Ends(L, s)  F == Ends(L, s) \ {1}  t == Tail(s)  G == Ends(L, t)
             f == [i \in F |-> i - 1]
  <1>1. /\ Len(s) \in Nat /\ Len(s) >= 1 /\ t \in Seq(Chars) /\ DOMAIN t = 1 .. Len(s) - 1
        /\ \A i \in 1 .. Len(s) - 1 : t[i] = s[i + 1]
        /\ Head(s) = s[1]
    OBVIOUS
  <1>2. IsFiniteSet(E) /\ Cardinality(E) \in Nat
    BY EndsFinite
  <1>3. /\ \A i \in F : i \in Int /\ i - 1 \in 1 .. Len(s) - 1 /\ s[i] \in L
    BY <1>1 DEF Ends
  <1>4. \A i \in F : i - 1 \in G
    <2> SUFFICES ASSUME NEW i \in F PROVE i - 1 \in G
      OBVIOUS
    <2>1. i \in Int /\ i - 1 \in 1 .. Len(s) - 1 /\ s[i] \in L
      BY <1>3
    <2>2. t[i - 1] = s[(i - 1) + 1] /\ (i - 1) + 1 = i
      BY <1>1, <2>1
    <2> QED BY <1>1, <2>1, <2>2 DEF Ends
  <1>5. \A j \in G : j \in Int /\ j + 1 \in F /\ (j + 1) - 1 = j
    <2> SUFFICES ASSUME NEW j \in G PROVE j \in Int /\ j + 1 \in F /\ (j + 1) - 1 = j
      OBVIOUS
    <2>1. j \in 1 .. Len(s) - 1 /\ t[j] \in L
      BY <1>1 DEF Ends
    <2>2. j \in Int /\ j + 1 \in 1 .. Len(s) /\ s[j + 1] \in L /\ j + 1 # 1
      BY <1>1, <2>1
    <2> QED BY <1>1, <2>2 DEF Ends
  <1>6. f \in Bijection(F, G)
    <2> HIDE DEF F, G
    <2>1. f \in [F -> G]
      BY <1>4
    <2>2. \A i, j \in F : f[i] = f[j] => i = j
      BY <1>3
    <2>3. \A j \in G : \E i \in F : f[i] = j
      BY <1>5
    <2> QED BY <2>1, <2>2, <2>3 DEF Bijection, Injection, Surjection, IsInjective
  <1>7. IsFiniteSet(F) /\ Cardinality(F) = IF 1 \in E THEN Cardinality(E) - 1 ELSE Cardinality(E)
    <2> HIDE DEF E
    <2> QED BY <1>2, FS_RemoveElement DEF E
  <1>8. Cardinality(G) = Cardinality(F)
    <2> HIDE DEF F, G, f
    <2> QED BY <1>6, <1>7, FS_Bijection DEF ExistsBijection
  <1>9. 1 \in E <=> Head(s) \in L
    BY <1>1 DEF Ends
  <1> HIDE DEF E, F, G
  <1>10. Cardinality(G) = Cardinality(E) - (IF Head(s) \in L THEN 1 ELSE 0)
    BY <1>2, <1>7, <1>8, <1>9
  <1> QED BY <1>10 DEF E, G

\* Erasing a last character that is no line end leaves the line ends.
LEMMA EndsFront ==
    ASSUME NEW L, NEW s \in Seq(Chars), s # <<>>, s[Len(s)] \notin L
    PROVE  /\ SubSeq(s, 1, Len(s) - 1) \in Seq(Chars)
           /\ Len(SubSeq(s, 1, Len(s) - 1)) = Len(s) - 1
           /\ Ends(L, SubSeq(s, 1, Len(s) - 1)) = Ends(L, s)
  <1> DEFINE t == SubSeq(s, 1, Len(s) - 1)
  <1>1. Len(s) \in Nat /\ Len(s) >= 1
    OBVIOUS
  <1>2. t \in Seq(Chars) /\ Len(t) = Len(s) - 1 /\ \A i \in 1 .. Len(s) - 1 : t[i] = s[i]
    <2>1. \A i \in 1 .. Len(s) - 1 : s[i] \in Chars
      BY <1>1, ElementOfSeq
    <2> DEFINE n == Len(s) - 1
    <2>2. n \in Int /\ n >= 0
      BY <1>1
    <2> HIDE DEF n
    <2>3. /\ SubSeq(s, 1, n) \in Seq(Chars)
          /\ Len(SubSeq(s, 1, n)) = IF 1 <= n THEN n - 1 + 1 ELSE 0
          /\ \A i \in 1 .. n - 1 + 1 : SubSeq(s, 1, n)[i] = s[1 + i - 1]
      BY <2>1, <2>2, SubSeqProperties DEF n
    <2>4. Len(SubSeq(s, 1, n)) = n
      BY <2>2, <2>3
    <2>5. \A i \in 1 .. n : i \in 1 .. n - 1 + 1 /\ 1 + i - 1 = i
      BY <2>2
    <2>6. \A i \in 1 .. n : SubSeq(s, 1, n)[i] = s[i]
      BY <2>3, <2>5
    <2> QED BY <2>3, <2>4, <2>6 DEF n
  <1>3. DOMAIN t = 1 .. Len(s) - 1 /\ DOMAIN s = 1 .. Len(s)
    BY <1>1, <1>2
  <1> HIDE DEF t
  <1>4. Ends(L, t) = Ends(L, s)
    BY <1>1, <1>2, <1>3 DEF Ends
  <1> QED BY <1>2, <1>4 DEF t

\* Echoing keeps the number of characters in the write queue in its range, and
\* leaves none there that is not being sent.
LEMMA EchoSends ==
    ASSUME wq \in 0 .. Full, thri \in BOOLEAN, NEW n \in Nat, Echo(n),
           wq > 0 => thri \/ wr.pc = "fill", wr' = wr
    PROVE  /\ wq' \in 0 .. Full /\ thri' \in BOOLEAN
           /\ wq' > 0 => thri' \/ wr'.pc = "fill"
  <1>1. \A x \in Nat : x % TTY_BUF_SIZE \in 0 .. Full
    BY TtyConstants, RoomOfQueue
  <1>2. wq + n \in Nat
    BY RoomOfQueue
  <1>3. wq' \in 0 .. Full
    BY <1>1, <1>2 DEF Echo
  <1>4. thri' = (thri \/ ("ECHO" \in lflag /\ wq' # 0))
    BY DEF Echo
  <1>5. CASE "ECHO" \in lflag
    <2>1. CASE wq' = 0
      <3>1. thri' = thri /\ ~(wq' > 0)
        BY <1>4, <2>1
      <3> QED BY <1>3, <3>1
    <2>2. CASE wq' # 0
      <3>1. thri' = TRUE
        BY <1>4, <1>5, <2>2
      <3> QED BY <1>3, <3>1
    <2> QED BY <2>1, <2>2
  <1>6. CASE "ECHO" \notin lflag
    <2>1. wq' = wq /\ thri' = thri
      BY <1>4, <1>6 DEF Echo
    <2> QED BY <1>3, <2>1
  <1> QED BY <1>5, <1>6

-----------------------------------------------------------------------------
\* The state rs_init leaves satisfies the invariant.
LEMMA InitInv == Init => IInv
  <1> SUFFICES ASSUME Init PROVE IInv
    OBVIOUS
  <1>1. TypeOK
    <2>1. MaxRead \in Nat /\ MaxWrite \in Nat /\ MaxTyped \in Nat
      BY TtyConstants
    <2>2. <<>> \in Seq(Chars) /\ Len(<<>>) = 0
      OBVIOUS
    <2>3. termios \in Termios /\ thri \in BOOLEAN /\ intr \in BOOLEAN /\ raced \in BOOLEAN /\ recounted \in BOOLEAN
      BY DEF Init
    <2>4. rd \in [pc : {"user", "top", "get", "test", "sleep"}, nr : 0 .. MaxRead]
      BY <2>1 DEF Init
    <2>5. wr \in [pc : {"user", "full", "sleep", "fill", "ready"}, nr : 0 .. MaxWrite, cr : BOOLEAN]
      BY <2>1 DEF Init
    <2>6. /\ read_q = <<>> /\ secondary = <<>> /\ data = 0 /\ wq = 0 /\ typed = 0
          /\ woken = {} /\ sig = {}
      BY DEF Init
    <2>7. data \in Int /\ wq \in 0 .. Full /\ typed \in 0 .. MaxTyped
      BY <2>1, <2>6, RoomOfQueue
    <2>8. read_q \in Seq(Chars) /\ Len(read_q) <= Full /\ secondary \in Seq(Chars) /\ Len(secondary) <= Full
      BY <2>2, <2>6, RoomOfQueue
    <2> QED BY <2>3, <2>4, <2>5, <2>6, <2>7, <2>8 DEF TypeOK
  <1>2. Asking /\ Transmitting
    BY DEF Init, Asking, Transmitting
  <1>3. Ends(LineEnd, <<>>) = {}
    BY DEF Ends
  <1>4. Counted
    BY <1>3, FS_EmptySet DEF Init, Counted
  <1> QED BY <1>1, <1>2, <1>4 DEF IInv, Base

\* The loop of copy_to_cooked.
LEMMA CookInv ==
    ASSUME IInv, NEW c \in Chars, Erase(c) \/ tty_intr(c) \/ Cook(c)
    PROVE  IInv'
  <1>0. /\ read_q \in Seq(Chars) /\ Len(read_q) <= Full /\ secondary \in Seq(Chars)
        /\ Len(secondary) <= Full /\ data \in Int /\ wq \in 0 .. Full /\ thri \in BOOLEAN
    BY DEF IInv, Base, TypeOK
  <1>1. /\ Cooking(c) /\ UNCHANGED <<termios, intr, rd, wr, raced, recounted, typed>>
        /\ woken' = woken /\ sig' \in SUBSET {"rd", "wr"}
    BY DEF Erase, tty_intr, Cook, IInv, Base, TypeOK
  <1>2. read_q' \in Seq(Chars) /\ Len(read_q') <= Full
    <2>1. read_q # <<>> /\ read_q' \in {read_q, Tail(read_q)}
      BY DEF Erase, tty_intr, Cook, Cooking
    <2>2. Tail(read_q) \in Seq(Chars) /\ Len(Tail(read_q)) = Len(read_q) - 1
      BY <1>0, <2>1
    <2>3. Len(read_q) \in Nat /\ Len(Tail(read_q)) <= Full
      BY <1>0, <2>2, RoomOfQueue
    <2>4. CASE read_q' = read_q
      BY <1>0, <2>4
    <2>5. CASE read_q' = Tail(read_q)
      BY <2>2, <2>3, <2>5
    <2> QED BY <2>1, <2>4, <2>5
  <1>3. Width(c) \in Nat
    BY DEF Width
  <1>4. /\ secondary' \in Seq(Chars) /\ Len(secondary') <= Full /\ data' \in Int
        /\ ~raced /\ ~recounted => data' = Cardinality(Ends(LineEnd, secondary'))
    <2>1. CASE Erase(c) /\ Editable
      <3>1. /\ secondary # <<>> /\ secondary[Len(secondary)] \notin LineEnd /\ data' = data
            /\ secondary' = SubSeq(secondary, 1, Len(secondary) - 1)
        BY <2>1 DEF Erase, Editable, DropLast
      <3>2. /\ secondary' \in Seq(Chars) /\ Len(secondary') = Len(secondary) - 1
            /\ Ends(LineEnd, secondary') = Ends(LineEnd, secondary)
        BY <1>0, <3>1, EndsFront
      <3> QED BY <1>0, <3>1, <3>2, RoomOfQueue DEF IInv, Counted
    <2>2. CASE Cook(c)
      <3>1. /\ data' = data + (IF c \in LineEnd THEN 1 ELSE 0)
            /\ secondary' = Append(secondary, c) /\ Len(secondary) < Full
        BY <2>2 DEF Cook, Cooking
      <3>2. /\ Cardinality(Ends(LineEnd, secondary')) = Cardinality(Ends(LineEnd, secondary)) + (IF c \in LineEnd THEN 1 ELSE 0)
            /\ secondary' \in Seq(Chars) /\ Len(secondary') = Len(secondary) + 1
        BY <1>0, <3>1, EndsAppend
      <3> QED BY <1>0, <3>1, <3>2, RoomOfQueue DEF IInv, Counted
    <2>3. CASE (Erase(c) /\ ~Editable) \/ tty_intr(c)
      <3>1. secondary' = secondary /\ data' = data
        BY <2>3 DEF Erase, tty_intr
      <3> QED BY <1>0, <3>1 DEF IInv, Counted
    <2> QED BY <2>1, <2>2, <2>3
  <1>5. wq' \in 0 .. Full /\ thri' \in BOOLEAN /\ (wq' > 0 => thri' \/ wr'.pc = "fill")
    <2>0. wq > 0 => thri \/ wr.pc = "fill"
      BY DEF IInv, Transmitting
    <2>1. CASE Erase(c) /\ Editable
      <3>1. Echo(Width(secondary[Len(secondary)])) /\ Width(secondary[Len(secondary)]) \in Nat
        BY <2>1 DEF Erase, Width
      <3> QED BY <1>0, <1>1, <2>0, <3>1, EchoSends
    <2>2. CASE Cook(c)
      <3>1. Echo(Width(c))
        BY <2>2 DEF Cook
      <3> QED BY <1>0, <1>1, <1>3, <2>0, <3>1, EchoSends
    <2>3. CASE (Erase(c) /\ ~Editable) \/ tty_intr(c)
      <3>1. wq' = wq /\ thri' = thri
        BY <2>3 DEF Erase, tty_intr
      <3> QED BY <1>0, <1>1, <2>0, <3>1
    <2> QED BY <2>1, <2>2, <2>3
  <1>6. Base'
    BY <1>1, <1>2, <1>4, <1>5 DEF IInv, Base, TypeOK, Asking
  <1>7. LineEnd' = LineEnd
    BY <1>1 DEF LineEnd, c_cc
  <1>8. Counted'
    BY <1>1, <1>4, <1>7 DEF Counted
  <1> QED BY <1>1, <1>5, <1>6, <1>8 DEF IInv, Transmitting

\* read_char, the end of copy_to_cooked, write_char, TCFLSH and TCSETS.
LEMMA LineInv ==
    ASSUME IInv,
           \/ \E c \in Chars : read_char(c)
           \/ Cooked \/ write_char
           \/ \E i, o \in BOOLEAN : Flush(i, o)
           \/ \E t \in Termios : SetTermios(t)
    PROVE  IInv'
  <1>0. /\ read_q \in Seq(Chars) /\ Len(read_q) <= Full /\ wq \in 0 .. Full /\ thri \in BOOLEAN
        /\ typed \in 0 .. MaxTyped /\ termios \in Termios
    BY DEF IInv, Base, TypeOK
  <1>1. UNCHANGED <<secondary, data, rd, wr, sig, raced>>
    BY DEF read_char, Cooked, write_char, Flush, SetTermios
  <1>2. read_q' \in Seq(Chars) /\ Len(read_q') <= Full
    <2>1. CASE \E c \in Chars : read_char(c)
      BY <1>0, <2>1, RoomOfQueue DEF read_char
    <2>2. CASE \E i, o \in BOOLEAN : Flush(i, o)
      BY <1>0, <2>2, RoomOfQueue DEF Flush
    <2>3. CASE Cooked \/ write_char \/ \E t \in Termios : SetTermios(t)
      <3>1. read_q' = read_q
        BY <2>3 DEF Cooked, write_char, SetTermios
      <3> QED BY <1>0, <3>1
    <2> QED BY <2>1, <2>2, <2>3
  <1>3. wq' \in 0 .. Full /\ thri' \in BOOLEAN /\ (wq' > 0 => thri' \/ wr'.pc = "fill")
    <2>0. wq > 0 => thri \/ wr.pc = "fill"
      BY DEF IInv, Transmitting
    <2>1. CASE write_char
      <3>1. wq' = (IF wq = 0 THEN 0 ELSE wq - 1) /\ thri' = (wq' # 0)
        BY <2>1 DEF write_char
      <3>2. wq' \in 0 .. Full
        BY <1>0, <3>1, RoomOfQueue
      <3>3. wq' > 0 => wq' # 0
        BY <3>2, RoomOfQueue
      <3> QED BY <3>1, <3>2, <3>3
    <2>2. CASE \E i, o \in BOOLEAN : Flush(i, o)
      <3>1. (wq' = wq \/ wq' = 0) /\ thri' = thri
        BY <2>2 DEF Flush
      <3> QED BY <1>0, <1>1, <2>0, <3>1, RoomOfQueue
    <2>3. CASE Cooked \/ (\E c \in Chars : read_char(c)) \/ \E t \in Termios : SetTermios(t)
      <3>1. wq' = wq /\ thri' = thri
        BY <2>3 DEF Cooked, read_char, SetTermios
      <3> QED BY <1>0, <1>1, <2>0, <3>1
    <2> QED BY <2>1, <2>2, <2>3
  <1>4. termios' \in Termios
    BY <1>0 DEF read_char, Cooked, write_char, Flush, SetTermios
  <1>5. intr' \in BOOLEAN
    <2>1. intr' \in {TRUE, FALSE, intr}
      BY DEF read_char, Cooked, write_char, Flush, SetTermios
    <2> QED BY <2>1 DEF IInv, Base, TypeOK
  <1>6. typed' \in 0 .. MaxTyped
    <2>1. typed' = typed \/ (typed < MaxTyped /\ typed' = typed + 1)
      BY DEF read_char, Cooked, write_char, Flush, SetTermios
    <2>2. MaxTyped \in Nat
      BY TtyConstants
    <2> QED BY <1>0, <2>1, <2>2
  <1>7. woken' \in SUBSET {"rd", "wr"}
    <2>1. woken' \in {woken, woken \cup {"rd"}, woken \cup {"wr"}}
      BY DEF read_char, Cooked, write_char, Flush, SetTermios
    <2> QED BY <2>1 DEF IInv, Base, TypeOK
  <1>8. recounted' \in BOOLEAN
    <2>1. CASE \E t \in Termios : SetTermios(t)
      BY <2>1 DEF SetTermios
    <2>2. CASE recounted' = recounted
      BY <2>2 DEF IInv, Base, TypeOK
    <2> QED BY <2>1, <2>2 DEF read_char, Cooked, write_char, Flush
  <1>9. Base'
    BY <1>1, <1>2, <1>3, <1>4, <1>5, <1>6, <1>7, <1>8 DEF IInv, Base, TypeOK, Asking
  <1>10. Counted'
    <2>1. CASE \E t \in Termios : SetTermios(t)
      <3>1. ~recounted' => ~recounted /\ Ends(LineEnd', secondary) = Ends(LineEnd, secondary)
        BY <2>1 DEF SetTermios
      <3>2. ~raced' /\ ~recounted' => data' = Cardinality(Ends(LineEnd', secondary'))
        BY <1>1, <3>1 DEF IInv, Counted
      <3> QED BY <3>2 DEF Counted
    <2>2. CASE termios' = termios /\ recounted' = recounted
      <3>1. LineEnd' = LineEnd
        BY <2>2 DEF LineEnd, c_cc
      <3>2. ~raced' /\ ~recounted' => data' = Cardinality(Ends(LineEnd', secondary'))
        BY <1>1, <2>2, <3>1 DEF IInv, Counted
      <3> QED BY <3>2 DEF Counted
    <2> QED BY <2>1, <2>2 DEF read_char, Cooked, write_char, Flush
  <1> QED BY <1>1, <1>3, <1>9, <1>10 DEF IInv, Transmitting

\* tty_read.
LEMMA ReadInv ==
    ASSUME IInv, Reader \/ \E n \in 1 .. MaxRead : ReadCall(n)
    PROVE  IInv'
  <1>0. /\ secondary \in Seq(Chars) /\ Len(secondary) <= Full /\ data \in Int /\ MaxRead \in Nat
        /\ rd \in [pc : {"user", "top", "get", "test", "sleep"}, nr : 0 .. MaxRead]
        /\ woken \in SUBSET {"rd", "wr"} /\ sig \in SUBSET {"rd", "wr"} /\ raced \in BOOLEAN
        /\ rd.pc # "user" => rd.nr >= 1
    BY TtyConstants DEF IInv, Base, TypeOK, Asking
  <1>1. UNCHANGED <<read_q, wq, thri, termios, intr, wr, recounted, typed>>
    BY DEF Reader, ReadTop, ReadWoken, ReadGet, ReadTest, ReadCall
  <1>2. ASSUME NEW c, Taken(c), rd.pc = "get"
        PROVE  /\ data' = data - (IF c \in LineEnd THEN 1 ELSE 0)
               /\ rd' \in [pc : {"user", "top", "get", "test", "sleep"}, nr : 0 .. MaxRead]
               /\ woken' \in SUBSET {"rd", "wr"} /\ sig' \in SUBSET {"rd", "wr"}
               /\ rd'.pc # "user" => rd'.nr >= 1
    <2>1. data' = data - (IF c \in LineEnd THEN 1 ELSE 0)
      BY <1>2 DEF Taken
    <2>2. CASE rd' = [pc |-> "user", nr |-> 0] /\ Returns("rd")
      BY <1>0, <2>1, <2>2 DEF Returns
    <2>3. CASE rd.nr # 1 /\ rd' = [pc |-> "test", nr |-> rd.nr - 1] /\ UNCHANGED <<sig, woken>>
      <3>1. rd.nr \in 0 .. MaxRead /\ rd.nr >= 1
        BY <1>0, <1>2
      <3>2. rd.nr - 1 \in 0 .. MaxRead /\ rd.nr - 1 >= 1
        BY <1>0, <2>3, <3>1
      <3>3. rd'.nr >= 1 /\ rd' \in [pc : {"user", "top", "get", "test", "sleep"}, nr : 0 .. MaxRead]
        BY <2>3, <3>2
      <3> QED BY <1>0, <2>1, <2>3, <3>3
    <2> QED BY <1>2, <2>1, <2>2, <2>3 DEF Taken
  <1>3. CASE ReadGet /\ secondary # <<>>
    <2>1. /\ Taken(Head(secondary)) /\ secondary' = Tail(secondary) /\ raced' = raced
          /\ rd.pc = "get"
      BY <1>3 DEF ReadGet
    <2>2. /\ secondary' \in Seq(Chars) /\ Len(secondary') = Len(secondary) - 1
          /\ Cardinality(Ends(LineEnd, secondary')) = Cardinality(Ends(LineEnd, secondary)) - (IF Head(secondary) \in LineEnd THEN 1 ELSE 0)
      BY <1>0, <1>3, <2>1, EndsTail
    <2>3. Len(secondary') <= Full
      BY <1>0, <2>2, RoomOfQueue
    <2>4. /\ data' = data - (IF Head(secondary) \in LineEnd THEN 1 ELSE 0)
          /\ rd' \in [pc : {"user", "top", "get", "test", "sleep"}, nr : 0 .. MaxRead]
          /\ woken' \in SUBSET {"rd", "wr"} /\ sig' \in SUBSET {"rd", "wr"}
          /\ rd'.pc # "user" => rd'.nr >= 1
      BY <1>2, <2>1
    <2>5. data' \in Int
      BY <1>0, <2>4
    <2>6. Base'
      BY <1>1, <2>1, <2>2, <2>3, <2>4, <2>5 DEF IInv, Base, TypeOK, Asking
    <2>7. Counted'
      <3>1. LineEnd' = LineEnd
        BY <1>1 DEF LineEnd, c_cc
      <3>2. ~raced' /\ ~recounted' => data' = Cardinality(Ends(LineEnd', secondary'))
        BY <1>1, <2>1, <2>2, <2>4, <3>1 DEF IInv, Counted
      <3> QED BY <3>2 DEF Counted
    <2> QED BY <1>1, <2>6, <2>7 DEF IInv, Transmitting
  <1>4. CASE ReadGet /\ secondary = <<>>
    <2>1. rd.pc = "get" /\ raced' = TRUE
      BY <1>4 DEF ReadGet
    <2>2. PICK c \in Chars : Taken(c) /\ secondary' = [i \in 1 .. Full |-> c]
      BY <1>4 DEF ReadGet
    <2>3. secondary' \in Seq(Chars) /\ Len(secondary') <= Full
      BY <2>2, RoomOfQueue
    <2>4. /\ data' = data - (IF c \in LineEnd THEN 1 ELSE 0)
          /\ rd' \in [pc : {"user", "top", "get", "test", "sleep"}, nr : 0 .. MaxRead]
          /\ woken' \in SUBSET {"rd", "wr"} /\ sig' \in SUBSET {"rd", "wr"}
          /\ rd'.pc # "user" => rd'.nr >= 1
      BY <1>2, <2>1, <2>2
    <2>5. data' \in Int
      BY <1>0, <2>4
    <2>6. Base'
      BY <1>1, <2>1, <2>3, <2>4, <2>5 DEF IInv, Base, TypeOK, Asking
    <2>7. Counted'
      BY <2>1 DEF Counted
    <2> QED BY <1>1, <2>6, <2>7 DEF IInv, Transmitting
  <1>5. CASE ReadTop \/ ReadWoken \/ ReadTest \/ \E n \in 1 .. MaxRead : ReadCall(n)
    <2>1. UNCHANGED <<secondary, data, raced>>
      BY <1>5 DEF ReadTop, ReadWoken, ReadTest, ReadCall
    <2>2. woken' \in SUBSET {"rd", "wr"} /\ sig' \in SUBSET {"rd", "wr"}
      <3>1. woken' \in {woken, woken \ {"rd"}} /\ sig' \in {sig, sig \ {"rd"}}
        BY <1>5 DEF ReadTop, ReadWoken, ReadTest, ReadCall, Returns
      <3> QED BY <1>0, <3>1
    <2>3. /\ rd' \in [pc : {"user", "top", "get", "test", "sleep"}, nr : 0 .. MaxRead]
          /\ rd'.pc # "user" => rd'.nr >= 1
      <3>1. CASE \E n \in 1 .. MaxRead : ReadCall(n)
        BY <1>0, <3>1 DEF ReadCall
      <3>2. CASE ReadTop \/ ReadWoken \/ ReadTest
        <4>1. \/ rd' = [pc |-> "user", nr |-> 0]
              \/ rd' = rd
              \/ rd.pc # "user" /\ \E x \in {"top", "get", "sleep"} : rd' = [rd EXCEPT !.pc = x]
          BY <3>2 DEF ReadTop, ReadWoken, ReadTest
        <4> QED BY <1>0, <4>1
      <3> QED BY <1>5, <3>1, <3>2
    <2>4. Base'
      BY <1>1, <2>1, <2>2, <2>3 DEF IInv, Base, TypeOK, Asking
    <2>5. Counted'
      BY <1>1, <2>1 DEF IInv, Counted, LineEnd, c_cc
    <2> QED BY <1>1, <2>4, <2>5 DEF IInv, Transmitting
  <1> QED BY <1>3, <1>4, <1>5 DEF Reader

\* tty_write.
LEMMA WriteInv ==
    ASSUME IInv, Writer \/ \E n \in 1 .. MaxWrite : WriteCall(n)
    PROVE  IInv'
  <1> DEFINE W == [pc : {"user", "full", "sleep", "fill", "ready"}, nr : 0 .. MaxWrite, cr : BOOLEAN]
  <1>0. /\ wq \in 0 .. Full /\ thri \in BOOLEAN /\ MaxWrite \in Nat /\ wr \in W
        /\ woken \in SUBSET {"rd", "wr"} /\ sig \in SUBSET {"rd", "wr"}
        /\ wq > 0 => thri \/ wr.pc = "fill"
    BY TtyConstants DEF IInv, Base, TypeOK, Transmitting
  <1>1. UNCHANGED <<read_q, secondary, data, termios, intr, rd, raced, recounted, typed>>
    BY DEF Writer, WriteTop, WriteWoken, WriteFill, WriteStart, WriteAgain, WriteCall
  <1>2. woken' \in SUBSET {"rd", "wr"} /\ sig' \in SUBSET {"rd", "wr"}
    <2>1. woken' \in {woken, woken \ {"wr"}} /\ sig' \in {sig, sig \ {"wr"}}
      BY DEF Writer, WriteTop, WriteWoken, WriteFill, WriteStart, WriteAgain, WriteCall, Returns
    <2> QED BY <1>0, <2>1
  <1>3. wr' \in W
    <2>1. CASE WriteFill
      <3>1. /\ wr.nr \in 0 .. MaxWrite /\ wr.nr > 0
            /\ wr' = [wr EXCEPT !.cr = TRUE] \/ wr' = [wr EXCEPT !.nr = @ - 1, !.cr = FALSE]
        BY <1>0, <2>1 DEF WriteFill
      <3>2. wr.nr - 1 \in 0 .. MaxWrite
        BY <1>0, <3>1
      <3> QED BY <1>0, <3>1, <3>2
    <2>2. CASE \E n \in 1 .. MaxWrite : WriteCall(n)
      <3>1. PICK n \in 1 .. MaxWrite : wr' = [wr EXCEPT !.pc = "full", !.nr = n]
        BY <2>2 DEF WriteCall
      <3>2. n \in 0 .. MaxWrite
        BY <1>0
      <3> QED BY <1>0, <3>1, <3>2
    <2>3. CASE WriteTop \/ WriteWoken \/ WriteStart \/ WriteAgain
      <3>1. \/ wr' = [wr EXCEPT !.pc = "user", !.nr = 0]
            \/ \E x \in {"full", "sleep", "fill", "ready"} : wr' = [wr EXCEPT !.pc = x]
        BY <2>3 DEF WriteTop, WriteWoken, WriteStart, WriteAgain
      <3>2. 0 \in 0 .. MaxWrite
        BY <1>0
      <3> QED BY <1>0, <3>1, <3>2
    <2> QED BY <2>1, <2>2, <2>3 DEF Writer
  <1>4. wq' \in 0 .. Full /\ thri' \in BOOLEAN /\ (wq' > 0 => thri' \/ wr'.pc = "fill")
    <2>1. CASE WriteFill
      <3>1. wq < Full /\ wq' = wq + 1 /\ thri' = thri
        BY <2>1 DEF WriteFill
      <3>2. wr'.pc = "fill"
        BY <1>0, <2>1 DEF WriteFill
      <3> QED BY <1>0, <3>1, <3>2, RoomOfQueue
    <2>2. CASE WriteStart
      <3>1. wq' = wq /\ thri' = (thri \/ wq # 0)
        BY <2>2 DEF WriteStart
      <3>2. wq > 0 => wq # 0
        BY <1>0, RoomOfQueue
      <3> QED BY <1>0, <3>1, <3>2
    <2>3. CASE WriteTop \/ WriteWoken \/ WriteAgain \/ \E n \in 1 .. MaxWrite : WriteCall(n)
      <3>1. wq' = wq /\ thri' = thri /\ wr.pc # "fill"
        BY <2>3 DEF WriteTop, WriteWoken, WriteAgain, WriteCall
      <3> QED BY <1>0, <3>1
    <2> QED BY <2>1, <2>2, <2>3 DEF Writer
  <1>5. Base'
    BY <1>1, <1>2, <1>3, <1>4 DEF IInv, Base, TypeOK, Asking
  <1>6. Counted'
    BY <1>1 DEF IInv, Counted, LineEnd, c_cc
  <1> QED BY <1>1, <1>4, <1>5, <1>6 DEF IInv, Transmitting

\* Every step preserves the invariant.
LEMMA NextInv == IInv /\ [Next]_vars => IInv'
  <1> SUFFICES ASSUME IInv, [Next]_vars PROVE IInv'
    OBVIOUS
  <1>1. CASE UNCHANGED vars
    BY <1>1 DEF vars, IInv, Base, TypeOK, Asking, Counted, LineEnd, c_cc, Transmitting
  <1>2. CASE \E c \in Chars : Erase(c) \/ tty_intr(c) \/ Cook(c)
    BY <1>2, CookInv
  <1>3. CASE Reader \/ \E n \in 1 .. MaxRead : ReadCall(n)
    BY <1>3, ReadInv
  <1>4. CASE Writer \/ \E n \in 1 .. MaxWrite : WriteCall(n)
    BY <1>4, WriteInv
  <1>5. CASE \/ \E c \in Chars : read_char(c)
             \/ Cooked \/ write_char
             \/ \E i, o \in BOOLEAN : Flush(i, o)
             \/ \E t \in Termios : SetTermios(t)
    BY <1>5, LineInv
  <1> QED BY <1>1, <1>2, <1>3, <1>4, <1>5 DEF Next, Handler

-----------------------------------------------------------------------------
\* secondary.data, by which tty_read decides whether there is a line to wait
\* for, is the number of line ends in the queue in every state of every
\* terminal, until a read has taken a character that was erased under its
\* hands, or a new VEOF has changed what ends the lines queued: copy_to_cooked
\* counts up, tty_read down, erasing stops at a line end, and neither a flush
\* nor any other change of c_lflag or c_cc comes between.
THEOREM LinesAreCounted == Spec => []LinesCounted
  <1>1. IInv => LinesCounted
    BY DEF IInv, Base, Counted, LinesCounted
  <1> QED BY <1>1, InitInv, NextInv, PTL DEF Spec

\* Whatever the order of echo, TCFLSH, transmit interrupt and tty_write,
\* characters in the write queue are being sent, or a writer that fills the
\* queue is about to call rs_write.
THEOREM OutputIsSent == Spec => []Transmitting
  <1>1. IInv => Transmitting
    BY DEF IInv
  <1> QED BY <1>1, InitInv, NextInv, PTL DEF Spec

\* The wake-ups of a terminal are not lost, whatever interrupt comes between
\* the test of a queue and the sleep.
LEMMA NextForgetsNobody == IInv /\ WakeupsComing /\ [Next]_vars => WakeupsComing'
  <1> SUFFICES ASSUME IInv, WakeupsComing, [Next]_vars PROVE WakeupsComing'
    OBVIOUS
  <1> DEFINE R == rd.pc = "sleep" /\ secondary # <<>> => intr \/ "rd" \in woken
             W == wr.pc = "sleep" => thri \/ "wr" \in woken
  <1>0. R /\ W
    BY DEF WakeupsComing
  <1>1. /\ wq \in 0 .. Full /\ (wq > 0 => thri \/ wr.pc = "fill") /\ thri \in BOOLEAN
        /\ rd \in [pc : {"user", "top", "get", "test", "sleep"}, nr : 0 .. MaxRead]
        /\ wr \in [pc : {"user", "full", "sleep", "fill", "ready"}, nr : 0 .. MaxWrite, cr : BOOLEAN]
    BY DEF IInv, Base, TypeOK, Transmitting
  <1>2. CASE UNCHANGED vars
    BY <1>0, <1>2 DEF vars, WakeupsComing
  <1>3. CASE \E c \in Chars : read_char(c)
    BY <1>0, <1>3 DEF read_char, WakeupsComing
  <1>4. CASE \E c \in Chars : Erase(c) \/ tty_intr(c) \/ Cook(c)
    <2>1. /\ intr /\ intr' = intr /\ woken' = woken /\ rd' = rd /\ wr' = wr
          /\ thri' = thri \/ \E n : Echo(n)
      BY <1>4 DEF Erase, tty_intr, Cook, Cooking
    <2>2. thri => thri'
      BY <1>1, <2>1 DEF Echo
    <2> QED BY <1>0, <2>1, <2>2 DEF WakeupsComing
  <1>5. CASE Cooked
    BY <1>0, <1>5 DEF Cooked, WakeupsComing
  <1>6. CASE write_char
    <2>1. /\ UNCHANGED <<secondary, intr, rd, wr>> /\ thri' = (wq' # 0)
          /\ woken' = IF wr.pc = "sleep" /\ (wq <= STARTUP \/ wq' = 0) THEN woken \cup {"wr"} ELSE woken
      BY <1>6 DEF write_char
    <2> QED BY <1>0, <2>1 DEF WakeupsComing
  <1>7. CASE (\E n \in 1 .. MaxRead : ReadCall(n)) \/ (\E n \in 1 .. MaxWrite : WriteCall(n))
    <2>1. /\ UNCHANGED <<secondary, intr, woken, thri>>
          /\ rd' = rd \/ rd'.pc = "top"
          /\ wr' = wr \/ wr'.pc = "full"
      <3>1. CASE \E n \in 1 .. MaxRead : ReadCall(n)
        BY <3>1 DEF ReadCall
      <3>2. CASE \E n \in 1 .. MaxWrite : WriteCall(n)
        BY <1>1, <3>2 DEF WriteCall
      <3> QED BY <1>7, <3>1, <3>2
    <2> QED BY <1>0, <2>1 DEF WakeupsComing
  <1>8. CASE Reader
    <2>1. UNCHANGED <<wr, thri, intr>> /\ ("wr" \in woken => "wr" \in woken')
      BY <1>8 DEF Reader, ReadTop, ReadWoken, ReadGet, ReadTest, Taken, Returns
    <2>2. rd'.pc = "sleep" => secondary' = <<>>
      <3>1. CASE ReadTop
        BY <1>1, <3>1 DEF ReadTop
      <3>2. CASE ReadWoken
        BY <1>1, <3>2 DEF ReadWoken
      <3>3. CASE ReadGet
        <4>1. \E c : Taken(c)
          BY <3>3 DEF ReadGet
        <4> QED BY <4>1 DEF Taken
      <3>4. CASE ReadTest
        BY <1>1, <3>4 DEF ReadTest
      <3> QED BY <1>8, <3>1, <3>2, <3>3, <3>4 DEF Reader
    <2> QED BY <1>0, <2>1, <2>2 DEF WakeupsComing
  <1>9. CASE Writer
    <2>1. UNCHANGED <<rd, secondary, intr>> /\ ("rd" \in woken => "rd" \in woken')
      BY <1>9 DEF Writer, WriteTop, WriteWoken, WriteFill, WriteStart, WriteAgain, Returns
    <2>2. wr'.pc = "sleep" => thri'
      <3>1. CASE WriteTop
        <4>1. wr'.pc = "sleep" => wq = Full /\ wr.pc = "full" /\ thri' = thri
          BY <1>1, <3>1 DEF WriteTop
        <4> QED BY <1>1, <4>1, RoomOfQueue
      <3>2. CASE WriteWoken
        <4>1. wr'.pc = "sleep" => Full - wq < LOW /\ wr.pc = "sleep" /\ thri' = thri
          BY <1>1, <3>2 DEF WriteWoken
        <4>2. LOW \in Nat /\ STARTUP \in Nat /\ TTY_BUF_SIZE \in Nat /\ STARTUP + LOW < TTY_BUF_SIZE
          BY TtyConstants
        <4>3. Full - wq < LOW => wq > 0
          BY <1>1, <4>2 DEF Full
        <4> QED BY <1>1, <4>1, <4>3
      <3>3. CASE WriteFill \/ WriteStart \/ WriteAgain
        BY <1>1, <3>3 DEF WriteFill, WriteStart, WriteAgain
      <3> QED BY <1>9, <3>1, <3>2, <3>3 DEF Writer
    <2> QED BY <1>0, <2>1, <2>2 DEF WakeupsComing
  <1>10. CASE \E i, o \in BOOLEAN : Flush(i, o)
    BY <1>0, <1>10 DEF Flush, WakeupsComing
  <1>11. CASE \E t \in Termios : SetTermios(t)
    BY <1>0, <1>11 DEF SetTermios, WakeupsComing
  <1> QED BY <1>2, <1>3, <1>4, <1>5, <1>6, <1>7, <1>8, <1>9, <1>10, <1>11 DEF Next, Handler

\* No wake-up of tty_read or tty_write is lost: who sleeps while there is
\* something to do for it has been woken, or the handler that will wake it is
\* running (copy_to_cooked) or still to come (the transmit interrupt).  The
\* constants matter here: a writer goes back to sleep with fewer than LOW free
\* places only, so that there is more than STARTUP left to send.
THEOREM WakeupsKept == Spec => []WakeupsComing
  <1>1. Init => WakeupsComing
    BY DEF Init, WakeupsComing
  <1> QED BY <1>1, InitInv, NextInv, NextForgetsNobody, PTL DEF Spec
=============================================================================

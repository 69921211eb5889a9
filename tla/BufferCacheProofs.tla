------------------------- MODULE BufferCacheProofs -------------------------
(***************************************************************************)
(* What BufferCache promises for every set of processes and blocks, any    *)
(* number of buffers, and every mix of operations, errors and full request *)
(* tables.                                                                 *)
(*                                                                         *)
(* The inductive invariant adds what each label of the code relies on      *)
(* (Control), who may be making a request of which buffer (Makers), that   *)
(* the free list stays whole, and which buffers have contents (Filled).    *)
(***************************************************************************)
EXTENDS BufferCache, FiniteSetTheorems, TLAPS

InLL(p) == pc[p] \in {"ll_lock", "ll_slot"}

\* The label of p, that of its caller while it is in ll_rw_block.
At(p) == IF InLL(p) THEN ll[p].ret ELSE pc[p]

\* The labels at which p works in getblk, on behalf of itself or of sync_dev.
InSync(p) == At(p) \in {"sync", "sync_wait", "sync_inodes", "inner"}
InGetblk(p) ==
    \/ At(p) \in {"lock_inode", "getblk", "hash_wait", "victim", "buffer_wait"}
    \/ InSync(p) /\ sync[p].ret = "victim"

\* What p's label says of its variables.
ControlOf(p) ==
    /\ InLL(p) => /\ ll[p].tgt # NULL
                  /\ ll[p].ret \in {"sync", "wait", "next_ahead", "ahead_done"}
                  /\ ll[p].cmd = (IF ll[p].ret = "sync" THEN "WRITE" ELSE "READ")
                  /\ ll[p].cmd = "READ" => ll[p].tgt = bh[p]
    /\ InSync(p) => /\ At(p) \in {"sync", "sync_wait"} => sync[p].i \in 1 .. NR_BUFFERS + 1
                    /\ sync[p].ret \in {"idle", "victim"}
                    /\ sync[p].ret = "idle" => bh[p] = NULL
    /\ pc[p] = "sync_wait" => sync[p].i \in Bufs
    /\ InGetblk(p) => /\ want[p] # NULL
                      /\ bh[p] = NULL => want[p] = first[p]
                      /\ bh[p] # NULL => ahead[p] # <<>>
    /\ At(p) = "victim" \/ (InSync(p) /\ sync[p].ret = "victim") \/ CountedCand(p)
          => cand[p] # NULL
    /\ CountedCand(p) => want[p] # NULL
    /\ At(p) \in {"ahead", "ahead_done"} => ahead[p] # <<>>
    /\ At(p) \in {"fill", "next_ahead", "ahead", "ahead_done", "wait", "copy", "store", "dirty",
                  "brelse", "failed"}
          => bh[p] # NULL
    /\ pc[p] \in {"idle", "lock_inode"} => bh[p] = NULL
    /\ bh[p] # NULL => first[p] # NULL

Control == \A p \in Frames : ControlOf(p)

\* LockHasOneOwner without Cardinality, and what make_request has tested.
Makes(p, b) == pc[p] = "ll_slot" /\ ll[p].tgt = b
Makers ==
    /\ \A b \in Bufs : locked[b] <=> io[b] # "none" \/ \E p \in Frames : Makes(p, b)
    /\ \A b \in Bufs, p, q \in Frames : Makes(p, b) /\ Makes(q, b) => p = q
    /\ \A b \in Bufs, p \in Frames : Makes(p, b) => io[b] = "none"
    /\ \A b \in Bufs, p \in Frames :
          Makes(p, b) => IF ll[p].cmd = "WRITE" THEN dirt[b] ELSE ~uptodate[b]

\* A buffer without a block is neither dirty nor locked.
InUse == \A b \in Bufs : dirt[b] \/ locked[b] => blk[b] # NULL

\* Every buffer is on the free list.
Whole == \A b \in Bufs : \E i \in DOMAIN free_list : free_list[i] = b

\* A buffer that was read or written holds a version of its block, also while
\* its user copies.
Copying(p) == pc[p] \in {"store", "dirty"} \/ (pc[p] = "copy" /\ op[p] # "block_write_full")
Filled ==
    /\ \A b \in Bufs : uptodate[b] \/ dirt[b] \/ io[b] \in {"WRITE", "done"} => data[b] \in Nat
    /\ \A p \in Frames : Copying(p) => data[bh[p]] \in Nat

\* b_count is the number of references.
Counted == \A b \in Bufs : count[b] = Cardinality(References(b))

IInv == /\ CacheTypes /\ Control /\ Makers /\ InUse /\ Whole /\ Filled /\ Counted
        /\ HeldKeepsBlock /\ UniqueBlock
-----------------------------------------------------------------------------
\* Only p's own variables change.
Local(p) ==
    \A q \in Frames \ {p} :
        /\ pc'[q] = pc[q] /\ op'[q] = op[q] /\ first'[q] = first[q] /\ bh'[q] = bh[q]
        /\ want'[q] = want[q] /\ cand'[q] = cand[q] /\ ahead'[q] = ahead[q]
        /\ sync'[q] = sync[q] /\ ll'[q] = ll[q]

\* What a label says of a process changes with that process only.
LEMMA LocalControl ==
    ASSUME Control, NEW p \in Frames, Local(p), ControlOf(p)'
    PROVE  Control'
  <1> SUFFICES ASSUME NEW q \in Frames, q # p
               PROVE  ControlOf(q)'
    BY DEF Control
  <1> ControlOf(q)
    BY DEF Control
  <1> QED
    BY DEF Local, ControlOf, InLL, At, InSync, InGetblk, CountedCand

\* A finite set loses at most two elements.
LEMMA TwoLess ==
    ASSUME NEW S, IsFiniteSet(S), NEW x, NEW y, x # y
    PROVE  /\ Cardinality(S) \in Nat /\ Cardinality((S \ {x}) \ {y}) \in Nat
           /\ Cardinality(S) = Cardinality((S \ {x}) \ {y})
                                 + (IF x \in S THEN 1 ELSE 0) + (IF y \in S THEN 1 ELSE 0)
  <1>1. /\ IsFiniteSet(S \ {x})
        /\ Cardinality(S \ {x}) = IF x \in S THEN Cardinality(S) - 1 ELSE Cardinality(S)
    BY FS_RemoveElement
  <1>2. /\ IsFiniteSet((S \ {x}) \ {y})
        /\ Cardinality((S \ {x}) \ {y}) = IF y \in S \ {x} THEN Cardinality(S \ {x}) - 1
                                          ELSE Cardinality(S \ {x})
    BY <1>1, FS_RemoveElement
  <1>3. Cardinality(S) \in Nat /\ Cardinality(S \ {x}) \in Nat /\ Cardinality((S \ {x}) \ {y}) \in Nat
    BY <1>1, <1>2, FS_CardinalityType
  <1>4. y \in S \ {x} <=> y \in S
    OBVIOUS
  <1> QED
    BY <1>1, <1>2, <1>3, <1>4

\* There are finitely many frames, and the one that called another is one.
LEMMA FramesFinite == IsFiniteSet(Frames)
  <1>1. IsFiniteSet(0 .. NR_INODE)
    BY CacheConstants, FS_Interval
  <1> QED
    BY <1>1, CacheConstants, FS_Product DEF Frames

LEMMA OuterFrame ==
    ASSUME NEW p \in Frames
    PROVE  Outer(p) \in Frames \cup {NULL}
  <1>1. PICK t \in Tasks, d \in 0 .. NR_INODE : p = <<t, d>>
    BY DEF Frames
  <1>2. p[1] = t /\ p[2] = d
    BY <1>1
  <1>3. d # 0 => d - 1 \in 0 .. NR_INODE
    BY CacheConstants
  <1> QED
    BY <1>2, <1>3 DEF Outer, Frames

\* The references are a finite set.
LEMMA FiniteReferences ==
    ASSUME NEW b
    PROVE  IsFiniteSet(References(b)) /\ IsFiniteSet(References(b)')
  <1> DEFINE all == Frames \X {"bh", "tmp"}
  <1>1. IsFiniteSet({"bh", "tmp"})
    <2>1. IsFiniteSet({"bh"})
      BY FS_Singleton
    <2>2. IsFiniteSet({"bh"} \cup {"tmp"})
      BY <2>1, FS_AddElement
    <2> QED
      BY <2>2
  <1>2. IsFiniteSet(all)
    BY <1>1, FS_Product, FramesFinite
  <1>3. References(b) \subseteq all /\ References(b)' \subseteq all
    BY DEF References
  <1> QED
    BY <1>2, <1>3, FS_Subset

\* The references of p itself to b.
Own(p, b) == (IF bh[p] = b THEN 1 ELSE 0) + (IF cand[p] = b /\ CountedCand(p) THEN 1 ELSE 0)

\* A step of p changes the number of references to b by those of p.
LEMMA ReferencesChange ==
    ASSUME NEW p \in Frames, Local(p), NEW b
    PROVE  /\ Cardinality(References(b)) \in Nat /\ Cardinality(References(b)') \in Nat
           /\ Cardinality(References(b)') = Cardinality(References(b)) - Own(p, b) + Own(p, b)'
           /\ Own(p, b) <= Cardinality(References(b))
  <1> DEFINE x == <<p, "bh">>
             y == <<p, "tmp">>
             R == References(b)
             T == References(b)'
  <1>1. x # y
    OBVIOUS
  <1>2. /\ x \in R <=> bh[p] = b
        /\ x \in T <=> bh'[p] = b
        /\ y \in R <=> cand[p] = b /\ CountedCand(p)
        /\ y \in T <=> cand'[p] = b /\ CountedCand(p)'
    BY DEF References
  <1>3. (R \ {x}) \ {y} = (T \ {x}) \ {y}
    <2>1. \A q \in Frames \ {p} : /\ bh'[q] = bh[q] /\ cand'[q] = cand[q]
                                  /\ CountedCand(q)' <=> CountedCand(q)
      BY DEF Local, CountedCand
    <2>2. ASSUME NEW z PROVE z \in R /\ z # x /\ z # y <=>
             \E q \in Frames \ {p} : \/ z = <<q, "bh">> /\ bh[q] = b
                                     \/ z = <<q, "tmp">> /\ cand[q] = b /\ CountedCand(q)
      BY DEF References
    <2>3. ASSUME NEW z PROVE z \in T /\ z # x /\ z # y <=>
             \E q \in Frames \ {p} : \/ z = <<q, "bh">> /\ bh'[q] = b
                                     \/ z = <<q, "tmp">> /\ cand'[q] = b /\ CountedCand(q)'
      BY DEF References
    <2>4. ASSUME NEW z PROVE z \in R /\ z # x /\ z # y <=> z \in T /\ z # x /\ z # y
      <3> HIDE DEF R, T, x, y
      <3> QED
        BY <2>1, <2>2, <2>3
    <2> HIDE DEF R, T, x, y
    <2> QED
      BY <2>4
  <1> HIDE DEF R, T, x, y
  <1>4. IsFiniteSet(R) /\ IsFiniteSet(T)
    BY FiniteReferences DEF R, T
  <1>a. Cardinality((R \ {x}) \ {y}) \in Nat
    BY <1>1, <1>4, TwoLess
  <1>5. /\ Cardinality(R) \in Nat
        /\ Cardinality(R) = Cardinality((R \ {x}) \ {y})
                              + (IF x \in R THEN 1 ELSE 0) + (IF y \in R THEN 1 ELSE 0)
    BY <1>1, <1>4, TwoLess, SMTT(30)
  <1>6. /\ Cardinality(T) \in Nat
        /\ Cardinality(T) = Cardinality((T \ {x}) \ {y})
                              + (IF x \in T THEN 1 ELSE 0) + (IF y \in T THEN 1 ELSE 0)
    BY <1>1, <1>4, TwoLess, SMTT(30)
  <1>7. /\ Own(p, b) = (IF x \in R THEN 1 ELSE 0) + (IF y \in R THEN 1 ELSE 0)
        /\ Own(p, b)' = (IF x \in T THEN 1 ELSE 0) + (IF y \in T THEN 1 ELSE 0)
    BY <1>2 DEF Own
  <1>8. Cardinality(T) = Cardinality(R) - Own(p, b) + Own(p, b)' /\ Own(p, b) <= Cardinality(R)
    <2> DEFINE n == Cardinality((R \ {x}) \ {y})
    <2>1. Cardinality(R) = n + Own(p, b) /\ Cardinality(T) = n + Own(p, b)'
      BY <1>a, <1>3, <1>5, <1>6, <1>7
    <2>2. n \in Nat /\ Own(p, b) \in Nat /\ Own(p, b)' \in Nat
      BY <1>a DEF Own
    <2> HIDE DEF n
    <2> QED
      BY <2>1, <2>2
  <1> QED
    BY <1>5, <1>6, <1>8 DEF R, T

\* b_count stays exact in a step of p that counts what p itself takes and
\* drops.
LEMMA CountsKept ==
    ASSUME Counted, NEW p \in Frames, Local(p),
           \A b \in Bufs : count'[b] = count[b] - Own(p, b) + Own(p, b)'
    PROVE  Counted'
  BY ReferencesChange DEF Counted

\* A buffer p refers to is in use.
LEMMA OwnedIsCounted ==
    ASSUME Counted, NEW p \in Frames, NEW b \in Bufs,
           bh[p] = b \/ (cand[p] = b /\ CountedCand(p))
    PROVE  count[b] \in Nat \ {0}
  <1> DEFINE R == References(b)
  <1>1. IsFiniteSet(R) /\ R # {}
    BY FiniteReferences DEF References
  <1>2. Cardinality(R) \in Nat /\ Cardinality(R) # 0
    BY <1>1, FS_CardinalityType, FS_EmptySet
  <1> QED
    BY <1>2 DEF Counted

\* Who makes which request stays when p is not in make_request and no buffer
\* that is locked changes.
LEMMA MakersKept ==
    ASSUME Makers, NEW p \in Frames, Local(p), pc[p] # "ll_slot", pc'[p] # "ll_slot",
           UNCHANGED <<locked, io>>,
           \A b \in Bufs : locked[b] => (dirt[b] => dirt'[b]) /\ (~uptodate[b] => ~uptodate'[b])
    PROVE  Makers'
  <1> \A q \in Frames, b \in Bufs : Makes(q, b)' <=> Makes(q, b)
    BY DEF Local, Makes
  <1> \A q \in Frames, b \in Bufs : Makes(q, b) => ll'[q] = ll[q]
    BY DEF Local, Makes
  <1> QED
    BY DEF Makers

\* The buffers in use stay those of their blocks when no block changes its
\* buffer and p has the right one.
LEMMA HeldKept ==
    ASSUME HeldKeepsBlock, NEW p \in Frames, Local(p), UNCHANGED blk,
           bh'[p] # NULL => blk[bh'[p]] = first'[p],
           CountedCand(p)' /\ cand'[p] # NULL => blk[cand'[p]] = want'[p]
    PROVE  HeldKeepsBlock'
  <1> SUFFICES ASSUME NEW q \in Frames
               PROVE  /\ bh'[q] # NULL => blk[bh'[q]] = first'[q]
                      /\ CountedCand(q)' /\ cand'[q] # NULL => blk[cand'[q]] = want'[q]
    BY DEF HeldKeepsBlock
  <1> QED
    BY DEF HeldKeepsBlock, Local, CountedCand

\* The buffers stay filled when none changes and p copies from a filled one.
LEMMA FilledKept ==
    ASSUME Filled, NEW p \in Frames, Local(p), UNCHANGED <<uptodate, dirt, io, data>>,
           Copying(p)' => data[bh'[p]] \in Nat
    PROVE  Filled'
  <1>1. ASSUME NEW q \in Frames, Copying(q)'
        PROVE  data[bh'[q]] \in Nat
    <2> CASE q # p
      <3> Copying(q) /\ bh'[q] = bh[q]
        BY <1>1 DEF Local, Copying
      <3> QED
        BY DEF Filled
    <2> QED
      BY <1>1
  <1> QED
    BY <1>1 DEF Filled

\* A step of p that changes neither a buffer nor a reference keeps the
\* invariant as soon as p's new label suits its variables.
LEMMA QuietStep ==
    ASSUME IInv, NEW p \in Frames, Local(p), CacheTypes', ControlOf(p)',
           UNCHANGED <<bufvars, io>>,
           bh'[p] = bh[p], bh[p] # NULL => first'[p] = first[p],
           CountedCand(p)' <=> CountedCand(p),
           CountedCand(p) => cand'[p] = cand[p] /\ want'[p] = want[p],
           pc[p] # "ll_slot", pc'[p] # "ll_slot",
           Copying(p)' => data[bh[p]] \in Nat
    PROVE  IInv'
  <1> USE DEF bufvars
  <1>1. Control'
    BY LocalControl DEF IInv
  <1>2. Makers'
    BY MakersKept DEF IInv
  <1>3. InUse' /\ Whole' /\ UniqueBlock'
    BY DEF IInv, InUse, Whole, UniqueBlock
  <1>4. Filled'
    BY FilledKept DEF IInv
  <1>5. Counted'
    <2> \A b \in Bufs : count'[b] = count[b] - Own(p, b) + Own(p, b)'
      BY SMTT(30) DEF IInv, CacheTypes, Own
    <2> QED
      BY CountsKept DEF IInv
  <1>6. HeldKeepsBlock'
    <2> HeldKeepsBlock
      BY DEF IInv
    <2>1. bh'[p] # NULL => blk[bh'[p]] = first'[p]
      BY DEF HeldKeepsBlock
    <2>2. CountedCand(p)' /\ cand'[p] # NULL => blk[cand'[p]] = want'[p]
      BY DEF HeldKeepsBlock
    <2> QED
      BY <2>1, <2>2, HeldKept
  <1> QED
    BY <1>1, <1>2, <1>3, <1>4, <1>5, <1>6 DEF IInv

\* What a call of ll_rw_block does: nothing, or go to its first label.
LEMMA CallLLEffect ==
    ASSUME CacheTypes, NEW p \in Frames, NEW cmd \in {"READ", "WRITE"}, NEW b \in Bufs,
           NEW isAhead \in BOOLEAN, NEW ret \in Labels, CallLL(p, cmd, b, isAhead, ret)
    PROVE  /\ cpu' \in {p, NULL}
           /\ ll' \in [Frames -> LLCalls]
           /\ \/ pc' = [pc EXCEPT ![p] = ret] /\ ll' = ll
              \/ /\ pc' = [pc EXCEPT ![p] = "ll_lock"]
                 /\ ll' = [ll EXCEPT ![p] = ll'[p]]
                 /\ ll'[p].cmd = cmd /\ ll'[p].tgt = b /\ ll'[p].ret = ret
  <1> DEFINE call == [cmd |-> cmd, tgt |-> b, ahead |-> isAhead, ret |-> ret]
  <1>1. call \in LLCalls
    BY DEF LLCalls
  <1>2. /\ cpu' \in {p, NULL}
        /\ \/ pc' = [pc EXCEPT ![p] = ret] /\ ll' = ll
           \/ pc' = [pc EXCEPT ![p] = "ll_lock"] /\ ll' = [ll EXCEPT ![p] = call]
    BY DEF CallLL, Goto, GotoWait, Yield
  <1>3. call.cmd = cmd /\ call.tgt = b /\ call.ret = ret
    OBVIOUS
  <1> HIDE DEF call
  <1>4. ll \in [Frames -> LLCalls]
    BY DEF CacheTypes
  <1>5. CASE pc' = [pc EXCEPT ![p] = ret] /\ ll' = ll
    BY <1>2, <1>4, <1>5
  <1>6. CASE pc' = [pc EXCEPT ![p] = "ll_lock"] /\ ll' = [ll EXCEPT ![p] = call]
    <2>1. ll'[p] = call
      BY <1>4, <1>6
    <2>2. ll' \in [Frames -> LLCalls]
      BY <1>1, <1>4, <1>6
    <2>3. ll' = [ll EXCEPT ![p] = ll'[p]]
      BY <1>6, <2>1
    <2> QED
      BY <1>2, <1>3, <1>6, <2>1, <2>2, <2>3
  <1> QED
    BY <1>2, <1>5, <1>6

\* The loop of sync_dev moves on to another buffer, or to its second pass.
LEMMA LoopRecord ==
    ASSUME NEW s \in SyncLoops
    PROVE  /\ \A n \in Nat :
                 /\ [s EXCEPT !.i = n] \in SyncLoops
                 /\ [s EXCEPT !.i = n].i = n /\ [s EXCEPT !.i = n].ret = s.ret
           /\ /\ [s EXCEPT !.pass = 2] \in SyncLoops
              /\ [s EXCEPT !.pass = 2].i = s.i /\ [s EXCEPT !.pass = 2].ret = s.ret
  BY DEF SyncLoops

-----------------------------------------------------------------------------
\* getblk chooses a victim without holding it.
LEMMA GetblkScanKeeps ==
    ASSUME IInv, NEW p \in Frames, GetblkScan(p)
    PROVE  IInv'
  <1> CacheTypes /\ ControlOf(p)
    BY DEF IInv, Control
  <1>v. PICK i \in Victims : /\ cand' = [cand EXCEPT ![p] = free_list[i]]
                             /\ GotoWait(p, "victim", free_list[i])
    BY DEF GetblkScan
  <1>w. free_list[i] \in Bufs
    <2> i \in DOMAIN free_list
      BY <1>v DEF Victims
    <2> QED
      BY DEF CacheTypes
  <1> DEFINE Effect ==
       /\ pc[p] = "getblk" /\ pc' = [pc EXCEPT ![p] = "victim"] /\ cpu' \in {p, NULL}
       /\ cand' = [cand EXCEPT ![p] = free_list[i]]
       /\ UNCHANGED <<bufvars, devvars, latest, op, first, bh, want, ahead, sync, ll, budget, buffer_wait>>
  <1>0. Effect
    BY <1>v DEF GetblkScan, Running, Goto, Yield, GotoWait
  <1>1. CacheTypes'
    <2>1. pc' \in [Frames -> Labels] /\ cpu' \in Frames \cup {NULL}
      BY <1>0, <1>w DEF CacheTypes, Labels
    <2>2. cand' \in [Frames -> Bufs \cup {NULL}]
      BY <1>0, <1>w DEF CacheTypes
    <2> QED
      BY <1>0, <2>1, <2>2 DEF CacheTypes, bufvars, devvars
  <1>2. Local(p)
    BY <1>0 DEF Local, CacheTypes
  <1>3. ControlOf(p)'
    BY <1>0, <1>w, NullIsNoBuffer DEF CacheTypes, bufvars, ControlOf, InLL, At, InSync, InGetblk, CountedCand
  <1>4. UNCHANGED <<bufvars, io>> /\ pc[p] # "ll_slot" /\ pc'[p] # "ll_slot"
    BY <1>0 DEF CacheTypes, devvars
  <1>5. /\ bh'[p] = bh[p] /\ (bh[p] # NULL => first'[p] = first[p])
        /\ CountedCand(p)' <=> CountedCand(p)
        /\ CountedCand(p) => cand'[p] = cand[p] /\ want'[p] = want[p]
    BY <1>0 DEF CacheTypes, ControlOf, InLL, At, InSync, InGetblk, CountedCand
  <1>6. Copying(p)' => data[bh[p]] \in Nat
    BY <1>0 DEF CacheTypes, Copying, IInv, Filled, ControlOf, InLL, At, InSync, InGetblk, CountedCand
  <1> QED
    BY QuietStep, <1>1, <1>2, <1>3, <1>4, <1>5, <1>6

\* getblk sleeps for a buffer.
LEMMA GetblkSleepKeeps ==
    ASSUME IInv, NEW p \in Frames, GetblkSleep(p)
    PROVE  IInv'
  <1> CacheTypes /\ ControlOf(p)
    BY DEF IInv, Control
  <1> DEFINE Effect ==
       /\ pc[p] = "getblk" /\ pc' = [pc EXCEPT ![p] = "buffer_wait"] /\ cpu' = NULL
       /\ buffer_wait' = buffer_wait \cup {p}
       /\ UNCHANGED <<bufvars, devvars, latest, op, first, bh, want, cand, ahead, sync, ll, budget>>
  <1>0. Effect
    BY DEF GetblkSleep, Running, Goto, Yield, GotoWait
  <1>1. CacheTypes'
    <2>1. pc' \in [Frames -> Labels] /\ cpu' \in Frames \cup {NULL}
      BY <1>0 DEF CacheTypes, Labels
    <2> QED
      BY <1>0, <2>1 DEF CacheTypes, bufvars, devvars
  <1>2. Local(p)
    BY <1>0 DEF Local, CacheTypes
  <1>3. ControlOf(p)'
    BY <1>0 DEF CacheTypes, bufvars, ControlOf, InLL, At, InSync, InGetblk, CountedCand
  <1>4. UNCHANGED <<bufvars, io>> /\ pc[p] # "ll_slot" /\ pc'[p] # "ll_slot"
    BY <1>0 DEF CacheTypes, devvars
  <1>5. /\ bh'[p] = bh[p] /\ (bh[p] # NULL => first'[p] = first[p])
        /\ CountedCand(p)' <=> CountedCand(p)
        /\ CountedCand(p) => cand'[p] = cand[p] /\ want'[p] = want[p]
    BY <1>0 DEF CacheTypes, ControlOf, InLL, At, InSync, InGetblk, CountedCand
  <1>6. Copying(p)' => data[bh[p]] \in Nat
    BY <1>0 DEF CacheTypes, Copying, IInv, Filled, ControlOf, InLL, At, InSync, InGetblk, CountedCand
  <1> QED
    BY QuietStep, <1>1, <1>2, <1>3, <1>4, <1>5, <1>6

\* getblk starts over after the sleep.
LEMMA GetblkAwakeKeeps ==
    ASSUME IInv, NEW p \in Frames, GetblkAwake(p)
    PROVE  IInv'
  <1> CacheTypes /\ ControlOf(p)
    BY DEF IInv, Control
  <1> DEFINE Effect ==
       /\ pc[p] = "buffer_wait" /\ pc' = [pc EXCEPT ![p] = "getblk"] /\ cpu' = p
       /\ UNCHANGED <<bufvars, devvars, latest, op, first, bh, want, cand, ahead, sync, ll, budget, buffer_wait>>
  <1>0. Effect
    BY DEF GetblkAwake, Running, Goto, Yield, GotoWait
  <1>1. CacheTypes'
    <2>1. pc' \in [Frames -> Labels] /\ cpu' \in Frames \cup {NULL}
      BY <1>0 DEF CacheTypes, Labels
    <2> QED
      BY <1>0, <2>1 DEF CacheTypes, bufvars, devvars
  <1>2. Local(p)
    BY <1>0 DEF Local, CacheTypes
  <1>3. ControlOf(p)'
    BY <1>0 DEF CacheTypes, bufvars, ControlOf, InLL, At, InSync, InGetblk, CountedCand
  <1>4. UNCHANGED <<bufvars, io>> /\ pc[p] # "ll_slot" /\ pc'[p] # "ll_slot"
    BY <1>0 DEF CacheTypes, devvars
  <1>5. /\ bh'[p] = bh[p] /\ (bh[p] # NULL => first'[p] = first[p])
        /\ CountedCand(p)' <=> CountedCand(p)
        /\ CountedCand(p) => cand'[p] = cand[p] /\ want'[p] = want[p]
    BY <1>0 DEF CacheTypes, ControlOf, InLL, At, InSync, InGetblk, CountedCand
  <1>6. Copying(p)' => data[bh[p]] \in Nat
    BY <1>0 DEF CacheTypes, Copying, IInv, Filled, ControlOf, InLL, At, InSync, InGetblk, CountedCand
  <1> QED
    BY QuietStep, <1>1, <1>2, <1>3, <1>4, <1>5, <1>6

\* The victim was taken or is dirty: start over, or sync its device.
LEMMA VictimRetryKeeps ==
    ASSUME IInv, NEW p \in Frames, VictimRetry(p)
    PROVE  IInv'
  <1> CacheTypes /\ ControlOf(p)
    BY DEF IInv, Control
  <1> DEFINE s0 == [dev |-> DevOfBuf(cand[p]), i |-> 1, pass |-> 1, ret |-> "victim"]
  <1>s. s0 \in SyncLoops /\ s0.i \in 1 .. NR_BUFFERS + 1 /\ s0.ret = "victim"
    <2> cand[p] \in Bufs
      BY DEF CacheTypes, ControlOf, At, InLL, VictimRetry, Running
    <2> DevOfBuf(cand[p]) \in DevNumbers \cup {NULL}
      BY DEF DevNumbers, DevOfBuf, CacheTypes
    <2> QED
      BY CacheConstants DEF SyncLoops, Labels
  <1> DEFINE Effect ==
       /\ pc[p] = "victim" /\ cpu' = p
       /\ \/ /\ pc' = [pc EXCEPT ![p] = "getblk"]
             /\ cand' = [cand EXCEPT ![p] = NULL] /\ sync' = sync
          \/ /\ pc' = [pc EXCEPT ![p] = "sync"]
             /\ sync' = [sync EXCEPT ![p] = s0] /\ cand' = cand
       /\ UNCHANGED <<bufvars, devvars, latest, op, first, bh, want, ahead, ll, budget, buffer_wait>>
  <1>0. Effect
    BY DEF VictimRetry, Running, Goto, Yield, GotoWait
  <1> HIDE DEF s0
  <1>1. CacheTypes'
    <2>1. pc' \in [Frames -> Labels] /\ cpu' \in Frames \cup {NULL}
      BY <1>0, <1>s DEF CacheTypes, Labels
    <2>2. cand' \in [Frames -> Bufs \cup {NULL}]
      BY <1>0, <1>s DEF CacheTypes
    <2>3. sync' \in [Frames -> SyncLoops]
      BY <1>0, <1>s DEF CacheTypes
    <2> QED
      BY <1>0, <2>1, <2>2, <2>3 DEF CacheTypes, bufvars, devvars
  <1>2. Local(p)
    BY <1>0 DEF Local, CacheTypes
  <1>3. ControlOf(p)'
    <2>1. CASE pc'[p] = "getblk"
      BY <1>0, <2>1, <1>s DEF CacheTypes, bufvars, ControlOf, InLL, At, InSync, InGetblk, CountedCand
    <2>2. CASE pc'[p] = "sync" /\ sync'[p] = s0
      BY <1>0, <2>2, <1>s DEF CacheTypes, bufvars, ControlOf, InLL, At, InSync, InGetblk, CountedCand
    <2> QED
      BY <1>0, <2>1, <2>2 DEF CacheTypes
  <1>4. UNCHANGED <<bufvars, io>> /\ pc[p] # "ll_slot" /\ pc'[p] # "ll_slot"
    BY <1>0 DEF CacheTypes, devvars
  <1>5. /\ bh'[p] = bh[p] /\ (bh[p] # NULL => first'[p] = first[p])
        /\ CountedCand(p)' <=> CountedCand(p)
        /\ CountedCand(p) => cand'[p] = cand[p] /\ want'[p] = want[p]
    BY <1>0 DEF CacheTypes, ControlOf, InLL, At, InSync, InGetblk, CountedCand
  <1>6. Copying(p)' => data[bh[p]] \in Nat
    BY <1>0 DEF CacheTypes, Copying, IInv, Filled, ControlOf, InLL, At, InSync, InGetblk, CountedCand
  <1> QED
    BY QuietStep, <1>1, <1>2, <1>3, <1>4, <1>5, <1>6

\* sync_dev goes on to the next buffer, the next pass, or back to its caller.
LEMMA SyncLoopKeeps ==
    ASSUME IInv, NEW p \in Frames, SyncLoop(p)
    PROVE  IInv'
  <1> CacheTypes /\ ControlOf(p)
    BY DEF IInv, Control
  <1> DEFINE Effect ==
       /\ pc[p] = "sync" /\ cpu' \in Frames \cup {NULL}
       /\ \/ /\ \E l \in {"sync", "sync_inodes"} : pc' = [pc EXCEPT ![p] = l]
             /\ sync' = [sync EXCEPT ![p] = sync'[p]]
             /\ sync'[p] \in SyncLoops
             /\ sync'[p].i \in 1 .. NR_BUFFERS + 1 /\ sync'[p].ret = sync[p].ret
             /\ UNCHANGED <<op, first>>
          \/ /\ pc' = [pc EXCEPT ![p] = "sync_wait"] /\ sync' = sync /\ sync[p].i \in Bufs
             /\ UNCHANGED <<op, first>>
          \/ /\ pc' = [pc EXCEPT ![p] = sync[p].ret]
             /\ sync' = [sync EXCEPT ![p] = NoSync] /\ NoSync \in SyncLoops
             /\ \/ sync[p].ret = "victim" /\ UNCHANGED <<op, first>>
                \/ /\ op' = [op EXCEPT ![p] = NULL] /\ first' = [first EXCEPT ![p] = NULL]
                   /\ sync[p].ret = "idle"
       /\ bh' = bh
       /\ UNCHANGED <<bufvars, devvars, latest, want, cand, ahead, ll, budget, buffer_wait>>
  <1>0. Effect
    <2> DEFINE s0 == sync[p]
               Again == /\ s0.i > NR_BUFFERS /\ s0.pass = 1 /\ GotoInode(p, "sync_inodes", 1)
                        /\ sync' = [sync EXCEPT ![p].i = 1, ![p].pass = 2]
                        /\ UNCHANGED <<op, first, bh>>
               Return == /\ s0.i > NR_BUFFERS /\ s0.pass = 2 /\ sync' = [sync EXCEPT ![p] = NoSync]
                         /\ IF s0.ret = "idle" THEN Finish(p)
                            ELSE GotoWait(p, s0.ret, cand[p]) /\ UNCHANGED <<op, first, bh>>
               Skip == /\ s0.i <= NR_BUFFERS /\ sync' = [sync EXCEPT ![p].i = @ + 1]
                       /\ Goto(p, "sync") /\ UNCHANGED <<op, first, bh>>
               Visit == /\ s0.i <= NR_BUFFERS /\ GotoWait(p, "sync_wait", s0.i)
                        /\ UNCHANGED sync /\ UNCHANGED <<op, first, bh>>
    <2>1. s0 \in SyncLoops /\ s0.i \in 1 .. NR_BUFFERS + 1 /\ s0.ret \in {"idle", "victim"}
          /\ (s0.ret = "idle" => bh[p] = NULL)
      BY DEF SyncLoop, Running, CacheTypes, ControlOf, InSync, At, InLL
    <2>2. /\ pc[p] = "sync" /\ UNCHANGED <<bufvars, devvars, latest, want, cand, ahead, ll>>
          /\ UNCHANGED <<budget, buffer_wait>>
          /\ Again \/ Return \/ Skip \/ Visit
      BY DEF SyncLoop, Running
    <2> HIDE DEF Again, Return, Skip, Visit
    <2>3. CASE Again
      <3> DEFINE t == [[s0 EXCEPT !.i = 1] EXCEPT !.pass = 2]
      <3>1. t \in SyncLoops /\ t.i \in 1 .. NR_BUFFERS + 1 /\ t.ret = s0.ret
        <4> DEFINE r == [s0 EXCEPT !.i = 1]
        <4>1. r \in SyncLoops /\ r.i \in 1 .. NR_BUFFERS + 1 /\ r.ret = s0.ret
          <5> 1 \in 1 .. NR_BUFFERS + 1
            BY CacheConstants
          <5> QED
            BY <2>1, LoopRecord
        <4> HIDE DEF r
        <4> QED
          BY <4>1, LoopRecord DEF r
      <3>2. sync' = [sync EXCEPT ![p] = t] /\ sync'[p] = t
        BY <2>3 DEF Again, CacheTypes
      <3> HIDE DEF t
      <3> QED
        BY <2>2, <2>3, <3>1, <3>2 DEF Again, GotoInode, Goto, Yield, CacheTypes
    <2>4. CASE Return
      <3>1. NoSync \in SyncLoops
        BY CacheConstants DEF NoSync, SyncLoops, Labels
      <3>2. s0.ret = "idle" => bh' = bh
        <4> [bh EXCEPT ![p] = bh[p]] = bh
          BY DEF CacheTypes
        <4> QED
          BY <2>1, <2>4 DEF Return, Finish
      <3> QED
        BY <2>1, <2>2, <2>4, <3>1, <3>2, OuterFrame DEF Return, Finish, GotoWait, Goto, Yield
    <2>5. CASE Skip
      <3> DEFINE t == [s0 EXCEPT !.i = s0.i + 1]
      <3>1. t \in SyncLoops /\ t.i \in 1 .. NR_BUFFERS + 1 /\ t.ret = s0.ret
        <4> s0.i + 1 \in 1 .. NR_BUFFERS + 1 /\ s0.i + 1 \in Nat
          BY <2>1, <2>5, CacheConstants DEF Skip
        <4> QED
          BY <2>1, LoopRecord
      <3>2. sync' = [sync EXCEPT ![p] = t] /\ sync'[p] = t
        BY <2>5 DEF Skip, CacheTypes
      <3> HIDE DEF t
      <3> QED
        BY <2>2, <2>5, <3>1, <3>2 DEF Skip, Goto
    <2>6. CASE Visit
      BY <2>1, <2>2, <2>6 DEF Visit, GotoWait, Goto, Yield, Bufs
    <2> QED
      BY <2>2, <2>3, <2>4, <2>5, <2>6
  <1>1. CacheTypes'
    <2>1. pc' \in [Frames -> Labels] /\ cpu' \in Frames \cup {NULL}
      <3>1. PICK l \in {"sync", "sync_inodes", "sync_wait", "idle", "victim"} : pc' = [pc EXCEPT ![p] = l]
        BY <1>0
      <3> QED
        BY <1>0, <3>1 DEF CacheTypes, Labels
    <2>2. sync' \in [Frames -> SyncLoops]
      BY <1>0 DEF CacheTypes
    <2>3. op' \in [Frames -> Ops \cup {NULL, "write_inode"}] /\ first' \in [Frames -> Blocks \cup {NULL}]
      BY <1>0 DEF CacheTypes
    <2> QED
      BY <1>0, <2>1, <2>2, <2>3 DEF CacheTypes, bufvars, devvars
  <1>2. Local(p)
    BY <1>0 DEF Local, CacheTypes
  <1>3. ControlOf(p)'
    <2>1. CASE pc'[p] \in {"sync", "sync_inodes"}
      BY <1>0, <2>1 DEF CacheTypes, bufvars, ControlOf, InLL, At, InSync, InGetblk, CountedCand
    <2>2. CASE pc'[p] = "sync_wait"
      BY <1>0, <2>2 DEF CacheTypes, bufvars, ControlOf, InLL, At, InSync, InGetblk, CountedCand
    <2>3. CASE sync'[p] = NoSync /\ pc'[p] = sync[p].ret
      BY <1>0, <2>3 DEF CacheTypes, bufvars, ControlOf, InLL, At, InSync, InGetblk, CountedCand
    <2> QED
      BY <1>0, <2>1, <2>2, <2>3 DEF CacheTypes
  <1>4. UNCHANGED <<bufvars, io>> /\ pc[p] # "ll_slot" /\ pc'[p] # "ll_slot"
    BY <1>0 DEF CacheTypes, devvars
  <1>5. /\ bh'[p] = bh[p] /\ (bh[p] # NULL => first'[p] = first[p])
        /\ CountedCand(p)' <=> CountedCand(p)
        /\ CountedCand(p) => cand'[p] = cand[p] /\ want'[p] = want[p]
    BY <1>0 DEF CacheTypes, ControlOf, InLL, At, InSync, InGetblk, CountedCand
  <1>6. Copying(p)' => data[bh[p]] \in Nat
    BY <1>0 DEF CacheTypes, Copying, IInv, Filled, ControlOf, InLL, At, InSync, InGetblk, CountedCand
  <1> QED
    BY QuietStep, <1>1, <1>2, <1>3, <1>4, <1>5, <1>6

\* sync_dev's loop body writes a dirty buffer.
LEMMA SyncWaitKeeps ==
    ASSUME IInv, NEW p \in Frames, SyncWait(p)
    PROVE  IInv'
  <1> CacheTypes /\ ControlOf(p)
    BY DEF IInv, Control
  <1> DEFINE t == [sync[p] EXCEPT !.i = sync[p].i + 1]
  <1> DEFINE Effect ==
       /\ pc[p] = "sync_wait" /\ cpu' \in {p, NULL} /\ ll' \in [Frames -> LLCalls]
       /\ sync' = [sync EXCEPT ![p] = t] /\ t \in SyncLoops
       /\ t.i \in 1 .. NR_BUFFERS + 1 /\ t.ret = sync[p].ret
       /\ \/ pc' = [pc EXCEPT ![p] = "sync"] /\ ll' = ll
          \/ /\ pc' = [pc EXCEPT ![p] = "ll_lock"] /\ ll' = [ll EXCEPT ![p] = ll'[p]]
             /\ ll'[p].cmd = "WRITE" /\ ll'[p].tgt \in Bufs /\ ll'[p].ret = "sync"
       /\ UNCHANGED <<bufvars, devvars, latest, op, first, bh, want, cand, ahead, budget, buffer_wait>>
  <1>0. Effect
    <2>1. sync[p] \in SyncLoops /\ sync[p].i \in Bufs
      BY DEF SyncWait, Running, CacheTypes, ControlOf
    <2>2. t \in SyncLoops /\ t.i \in 1 .. NR_BUFFERS + 1 /\ t.ret = sync[p].ret
      <3> sync[p].i + 1 \in 1 .. NR_BUFFERS + 1 /\ sync[p].i + 1 \in Nat
        BY <2>1, CacheConstants DEF Bufs
      <3> QED
        BY <2>1, LoopRecord
    <2>3. sync' = [sync EXCEPT ![p] = t]
      BY DEF SyncWait
    <2>4. \/ CallLL(p, "WRITE", sync[p].i, FALSE, "sync")
          \/ Goto(p, "sync") /\ UNCHANGED ll
      BY DEF SyncWait
    <2>5. /\ cpu' \in {p, NULL} /\ ll' \in [Frames -> LLCalls]
          /\ \/ pc' = [pc EXCEPT ![p] = "sync"] /\ ll' = ll
             \/ /\ pc' = [pc EXCEPT ![p] = "ll_lock"] /\ ll' = [ll EXCEPT ![p] = ll'[p]]
                /\ ll'[p].cmd = "WRITE" /\ ll'[p].tgt \in Bufs /\ ll'[p].ret = "sync"
      <3>1. CASE CallLL(p, "WRITE", sync[p].i, FALSE, "sync")
        BY <2>1, <3>1, CallLLEffect DEF Labels
      <3>2. CASE Goto(p, "sync") /\ UNCHANGED ll
        BY <3>2 DEF Goto, CacheTypes
      <3> QED
        BY <2>4, <3>1, <3>2
    <2> HIDE DEF t
    <2> QED
      BY <2>2, <2>3, <2>5 DEF SyncWait, Running
  <1> HIDE DEF t
  <1>1. CacheTypes'
    <2>1. pc' \in [Frames -> Labels] /\ cpu' \in Frames \cup {NULL}
      BY <1>0 DEF CacheTypes, Labels
    <2>2. sync' \in [Frames -> SyncLoops]
      BY <1>0 DEF CacheTypes
    <2>3. ll' \in [Frames -> LLCalls]
      BY <1>0 DEF CacheTypes
    <2> QED
      BY <1>0, <2>1, <2>2, <2>3 DEF CacheTypes, bufvars, devvars
  <1>2. Local(p)
    BY <1>0 DEF Local, CacheTypes
  <1>3. ControlOf(p)'
    <2>1. CASE pc'[p] = "sync"
      BY <1>0, <2>1, NullIsNoBuffer DEF CacheTypes, bufvars, ControlOf, InLL, At, InSync, InGetblk, CountedCand
    <2>2. CASE pc'[p] = "ll_lock" /\ ll'[p].ret = "sync"
      BY <1>0, <2>2, NullIsNoBuffer DEF CacheTypes, bufvars, ControlOf, InLL, At, InSync, InGetblk, CountedCand
    <2> QED
      BY <1>0, <2>1, <2>2 DEF CacheTypes
  <1>4. UNCHANGED <<bufvars, io>> /\ pc[p] # "ll_slot" /\ pc'[p] # "ll_slot"
    BY <1>0 DEF CacheTypes, devvars
  <1>5. /\ bh'[p] = bh[p] /\ (bh[p] # NULL => first'[p] = first[p])
        /\ CountedCand(p)' <=> CountedCand(p)
        /\ CountedCand(p) => cand'[p] = cand[p] /\ want'[p] = want[p]
    BY <1>0 DEF CacheTypes, ControlOf, InLL, At, InSync, InGetblk, CountedCand
  <1>6. Copying(p)' => data[bh[p]] \in Nat
    BY <1>0 DEF CacheTypes, Copying, IInv, Filled, ControlOf, InLL, At, InSync, InGetblk, CountedCand
  <1> QED
    BY QuietStep, <1>1, <1>2, <1>3, <1>4, <1>5, <1>6

\* bread asks for the block.
LEMMA FillKeeps ==
    ASSUME IInv, NEW p \in Frames, Fill(p)
    PROVE  IInv'
  <1> CacheTypes /\ ControlOf(p)
    BY DEF IInv, Control
  <1> DEFINE Effect ==
       /\ pc[p] = "fill" /\ cpu' \in {p, NULL} /\ ll' \in [Frames -> LLCalls]
       /\ bh[p] \in Bufs
       /\ \/ pc' = [pc EXCEPT ![p] = "next_ahead"] /\ ll' = ll
          \/ pc' = [pc EXCEPT ![p] = "wait"] /\ ll' = ll
          \/ pc' = [pc EXCEPT ![p] = "copy"] /\ ll' = ll /\ uptodate[bh[p]]
          \/ /\ pc' = [pc EXCEPT ![p] = "ll_lock"] /\ ll' = [ll EXCEPT ![p] = ll'[p]]
             /\ ll'[p].cmd = "READ" /\ ll'[p].tgt = bh[p] /\ ll'[p].ret \in {"wait", "next_ahead"}
       /\ UNCHANGED <<bufvars, devvars, latest, op, first, bh, want, cand, ahead, sync, budget, buffer_wait>>
  <1>0. Effect
    <2>1. bh[p] \in Bufs
      BY DEF Fill, Running, CacheTypes, ControlOf, At, InLL
    <2>2. CASE ~uptodate[bh[p]]
      <3>1. PICK next \in {"next_ahead", "wait"} : CallLL(p, "READ", bh[p], FALSE, next)
        BY <2>2 DEF Fill
      <3>2. /\ cpu' \in {p, NULL} /\ ll' \in [Frames -> LLCalls]
            /\ \/ pc' = [pc EXCEPT ![p] = next] /\ ll' = ll
               \/ /\ pc' = [pc EXCEPT ![p] = "ll_lock"] /\ ll' = [ll EXCEPT ![p] = ll'[p]]
                  /\ ll'[p].cmd = "READ" /\ ll'[p].tgt = bh[p] /\ ll'[p].ret = next
        <4> next \in Labels
          BY DEF Labels
        <4> QED
          BY <2>1, <3>1, CallLLEffect
      <3> QED
        BY <2>1, <3>2 DEF Fill, Running
    <2>3. CASE uptodate[bh[p]]
      BY <2>1, <2>3 DEF Fill, Running, Goto, Yield, CacheTypes
    <2> QED
      BY <2>2, <2>3
  <1>1. CacheTypes'
    <2>1. pc' \in [Frames -> Labels] /\ cpu' \in Frames \cup {NULL}
      <3>1. PICK l \in {"next_ahead", "wait", "copy", "ll_lock"} : pc' = [pc EXCEPT ![p] = l]
        BY <1>0
      <3> QED
        BY <1>0, <3>1 DEF CacheTypes, Labels
    <2>2. ll' \in [Frames -> LLCalls]
      BY <1>0 DEF CacheTypes
    <2> QED
      BY <1>0, <2>1, <2>2 DEF CacheTypes, bufvars, devvars
  <1>2. Local(p)
    BY <1>0 DEF Local, CacheTypes
  <1>3. ControlOf(p)'
    <2>1. CASE pc'[p] \in {"next_ahead", "wait", "copy"}
      BY <1>0, <2>1, NullIsNoBuffer DEF CacheTypes, bufvars, ControlOf, InLL, At, InSync, InGetblk, CountedCand
    <2>2. CASE pc'[p] = "ll_lock" /\ ll'[p].ret \in {"wait", "next_ahead"}
      BY <1>0, <2>2, NullIsNoBuffer DEF CacheTypes, bufvars, ControlOf, InLL, At, InSync, InGetblk, CountedCand
    <2> QED
      BY <1>0, <2>1, <2>2 DEF CacheTypes
  <1>4. UNCHANGED <<bufvars, io>> /\ pc[p] # "ll_slot" /\ pc'[p] # "ll_slot"
    BY <1>0 DEF CacheTypes, devvars
  <1>5. /\ bh'[p] = bh[p] /\ (bh[p] # NULL => first'[p] = first[p])
        /\ CountedCand(p)' <=> CountedCand(p)
        /\ CountedCand(p) => cand'[p] = cand[p] /\ want'[p] = want[p]
    BY <1>0 DEF CacheTypes, ControlOf, InLL, At, InSync, InGetblk, CountedCand
  <1>6. Copying(p)' => data[bh[p]] \in Nat
    BY <1>0 DEF CacheTypes, Copying, IInv, Filled, ControlOf, InLL, At, InSync, InGetblk, CountedCand
  <1> QED
    BY QuietStep, <1>1, <1>2, <1>3, <1>4, <1>5, <1>6

\* breada goes on to the next block, or to its last wait.
LEMMA NextAheadKeeps ==
    ASSUME IInv, NEW p \in Frames, NextAhead(p)
    PROVE  IInv'
  <1> CacheTypes /\ ControlOf(p)
    BY DEF IInv, Control
  <1> DEFINE Effect ==
       /\ pc[p] = "next_ahead" /\ cpu' \in {p, NULL}
       /\ \/ pc' = [pc EXCEPT ![p] = "wait"] /\ want' = want
          \/ /\ pc' = [pc EXCEPT ![p] = "getblk"] /\ ahead[p] # <<>>
             /\ want' = [want EXCEPT ![p] = Head(ahead[p])] /\ Head(ahead[p]) \in Blocks
       /\ UNCHANGED <<bufvars, devvars, latest, op, first, bh, cand, ahead, sync, ll, budget, buffer_wait>>
  <1>0. Effect
    <2> ahead[p] # <<>> => Head(ahead[p]) \in Blocks
      BY DEF CacheTypes
    <2> QED
      BY DEF NextAhead, Running, Goto, Yield, GotoWait
  <1>1. CacheTypes'
    <2>1. pc' \in [Frames -> Labels] /\ cpu' \in Frames \cup {NULL}
      BY <1>0 DEF CacheTypes, Labels
    <2>2. want' \in [Frames -> Blocks \cup {NULL}]
      BY <1>0 DEF CacheTypes
    <2> QED
      BY <1>0, <2>1, <2>2 DEF CacheTypes, bufvars, devvars
  <1>2. Local(p)
    BY <1>0 DEF Local, CacheTypes
  <1>3. ControlOf(p)'
    <2>1. CASE pc'[p] = "wait"
      BY <1>0, <2>1, CacheConstants DEF CacheTypes, bufvars, ControlOf, InLL, At, InSync, InGetblk, CountedCand
    <2>2. CASE pc'[p] = "getblk" /\ ahead[p] # <<>> /\ want'[p] \in Blocks
      BY <1>0, <2>2, CacheConstants DEF CacheTypes, bufvars, ControlOf, InLL, At, InSync, InGetblk, CountedCand
    <2> QED
      BY <1>0, <2>1, <2>2 DEF CacheTypes
  <1>4. UNCHANGED <<bufvars, io>> /\ pc[p] # "ll_slot" /\ pc'[p] # "ll_slot"
    BY <1>0 DEF CacheTypes, devvars
  <1>5. /\ bh'[p] = bh[p] /\ (bh[p] # NULL => first'[p] = first[p])
        /\ CountedCand(p)' <=> CountedCand(p)
        /\ CountedCand(p) => cand'[p] = cand[p] /\ want'[p] = want[p]
    BY <1>0 DEF CacheTypes, ControlOf, InLL, At, InSync, InGetblk, CountedCand
  <1>6. Copying(p)' => data[bh[p]] \in Nat
    BY <1>0 DEF CacheTypes, Copying, IInv, Filled, ControlOf, InLL, At, InSync, InGetblk, CountedCand
  <1> QED
    BY QuietStep, <1>1, <1>2, <1>3, <1>4, <1>5, <1>6

\* breada asks for a block ahead.
LEMMA AheadKeeps ==
    ASSUME IInv, NEW p \in Frames, Ahead(p)
    PROVE  IInv'
  <1> CacheTypes /\ ControlOf(p)
    BY DEF IInv, Control
  <1> DEFINE Effect ==
       /\ pc[p] = "ahead" /\ cpu' \in {p, NULL} /\ ll' \in [Frames -> LLCalls]
       /\ \/ pc' = [pc EXCEPT ![p] = "ahead_done"] /\ ll' = ll
          \/ /\ pc' = [pc EXCEPT ![p] = "ll_lock"] /\ ll' = [ll EXCEPT ![p] = ll'[p]]
             /\ ll'[p].cmd = "READ" /\ ll'[p].tgt = bh[p] /\ ll'[p].ret = "ahead_done"
       /\ UNCHANGED <<bufvars, devvars, latest, op, first, bh, want, cand, ahead, sync, budget, buffer_wait>>
  <1>0. Effect
    <2>1. bh[p] \in Bufs
      BY DEF Ahead, Running, CacheTypes, ControlOf, At, InLL
    <2>2. CASE CallLL(p, "READ", bh[p], TRUE, "ahead_done")
      <3>1. /\ cpu' \in {p, NULL} /\ ll' \in [Frames -> LLCalls]
            /\ \/ pc' = [pc EXCEPT ![p] = "ahead_done"] /\ ll' = ll
               \/ /\ pc' = [pc EXCEPT ![p] = "ll_lock"] /\ ll' = [ll EXCEPT ![p] = ll'[p]]
                  /\ ll'[p].cmd = "READ" /\ ll'[p].tgt = bh[p] /\ ll'[p].ret = "ahead_done"
        BY <2>1, <2>2, CallLLEffect DEF Labels
      <3> QED
        BY <3>1 DEF Ahead, Running
    <2>3. CASE Goto(p, "ahead_done") /\ UNCHANGED ll
      BY <2>3 DEF Ahead, Running, Goto, CacheTypes
    <2> QED
      BY <2>2, <2>3 DEF Ahead
  <1>1. CacheTypes'
    <2>1. pc' \in [Frames -> Labels] /\ cpu' \in Frames \cup {NULL}
      BY <1>0 DEF CacheTypes, Labels
    <2>2. ll' \in [Frames -> LLCalls]
      BY <1>0 DEF CacheTypes
    <2> QED
      BY <1>0, <2>1, <2>2 DEF CacheTypes, bufvars, devvars
  <1>2. Local(p)
    BY <1>0 DEF Local, CacheTypes
  <1>3. ControlOf(p)'
    <2>1. CASE pc'[p] = "ahead_done" /\ ll' = ll
      BY <1>0, <2>1, NullIsNoBuffer DEF CacheTypes, bufvars, ControlOf, InLL, At, InSync, InGetblk, CountedCand
    <2>2. CASE pc'[p] = "ll_lock" /\ ll'[p].ret = "ahead_done"
      BY <1>0, <2>2, NullIsNoBuffer DEF CacheTypes, bufvars, ControlOf, InLL, At, InSync, InGetblk, CountedCand
    <2> QED
      BY <1>0, <2>1, <2>2 DEF CacheTypes
  <1>4. UNCHANGED <<bufvars, io>> /\ pc[p] # "ll_slot" /\ pc'[p] # "ll_slot"
    BY <1>0 DEF CacheTypes, devvars
  <1>5. /\ bh'[p] = bh[p] /\ (bh[p] # NULL => first'[p] = first[p])
        /\ CountedCand(p)' <=> CountedCand(p)
        /\ CountedCand(p) => cand'[p] = cand[p] /\ want'[p] = want[p]
    BY <1>0 DEF CacheTypes, ControlOf, InLL, At, InSync, InGetblk, CountedCand
  <1>6. Copying(p)' => data[bh[p]] \in Nat
    BY <1>0 DEF CacheTypes, Copying, IInv, Filled, ControlOf, InLL, At, InSync, InGetblk, CountedCand
  <1> QED
    BY QuietStep, <1>1, <1>2, <1>3, <1>4, <1>5, <1>6

\* bread and breada have the block, or not.
LEMMA WaitKeeps ==
    ASSUME IInv, NEW p \in Frames, Wait(p)
    PROVE  IInv'
  <1> CacheTypes /\ ControlOf(p)
    BY DEF IInv, Control
  <1> DEFINE Effect ==
       /\ pc[p] = "wait" /\ cpu' \in {p, NULL} /\ bh[p] \in Bufs
       /\ \/ \E l \in {"brelse", "failed"} : pc' = [pc EXCEPT ![p] = l]
          \/ pc' = [pc EXCEPT ![p] = "copy"] /\ uptodate[bh[p]]
       /\ UNCHANGED <<bufvars, devvars, latest, op, first, bh, want, cand, ahead, sync, ll, budget, buffer_wait>>
  <1>0. Effect
    <2> bh[p] \in Bufs
      BY DEF Wait, Running, CacheTypes, ControlOf, At, InLL
    <2> QED
      BY DEF Wait, Running, Goto, Yield
  <1>1. CacheTypes'
    <2>1. pc' \in [Frames -> Labels] /\ cpu' \in Frames \cup {NULL}
      <3>1. PICK l \in {"brelse", "failed", "copy"} : pc' = [pc EXCEPT ![p] = l]
        BY <1>0
      <3> QED
        BY <1>0, <3>1 DEF CacheTypes, Labels
    <2> QED
      BY <1>0, <2>1 DEF CacheTypes, bufvars, devvars
  <1>2. Local(p)
    BY <1>0 DEF Local, CacheTypes
  <1>3. ControlOf(p)'
    <2>1. CASE pc'[p] \in {"brelse", "failed"}
      BY <1>0, <2>1 DEF CacheTypes, bufvars, ControlOf, InLL, At, InSync, InGetblk, CountedCand
    <2>2. CASE pc'[p] = "copy"
      BY <1>0, <2>2 DEF CacheTypes, bufvars, ControlOf, InLL, At, InSync, InGetblk, CountedCand
    <2> QED
      BY <1>0, <2>1, <2>2 DEF CacheTypes
  <1>4. UNCHANGED <<bufvars, io>> /\ pc[p] # "ll_slot" /\ pc'[p] # "ll_slot"
    BY <1>0 DEF CacheTypes, devvars
  <1>5. /\ bh'[p] = bh[p] /\ (bh[p] # NULL => first'[p] = first[p])
        /\ CountedCand(p)' <=> CountedCand(p)
        /\ CountedCand(p) => cand'[p] = cand[p] /\ want'[p] = want[p]
    BY <1>0 DEF CacheTypes, ControlOf, InLL, At, InSync, InGetblk, CountedCand
  <1>6. Copying(p)' => data[bh[p]] \in Nat
    BY <1>0 DEF CacheTypes, Copying, IInv, Filled, ControlOf, InLL, At, InSync, InGetblk, CountedCand
  <1> QED
    BY QuietStep, <1>1, <1>2, <1>3, <1>4, <1>5, <1>6

\* A system call.
LEMMA StartKeeps ==
    ASSUME IInv, NEW p \in Frames, NEW o \in Ops, NEW k \in Blocks, Start(p, o, k)
    PROVE  IInv'
  <1> CacheTypes /\ ControlOf(p)
    BY DEF IInv, Control
  <1> DEFINE s0 == IF o = "sync_dev" THEN [dev |-> DevOf[k], i |-> 1, pass |-> 1, ret |-> "idle"]
                   ELSE [dev |-> NULL, i |-> 1, pass |-> 2, ret |-> "idle"]
             a0 == IF o \in BreadaOps THEN AheadOf[k] ELSE <<>>
  <1>s. s0 \in SyncLoops /\ s0.i \in 1 .. NR_BUFFERS + 1 /\ s0.ret = "idle"
    BY CacheConstants DEF SyncLoops, DevNumbers, Labels
  <1>a. a0 \in Seq(Blocks)
    BY CacheConstants
  <1> DEFINE Effect ==
       /\ pc[p] = "idle" /\ cpu' \in {p, NULL} /\ op' = [op EXCEPT ![p] = o]
       /\ budget[p] > 0 /\ budget' = [budget EXCEPT ![p] = budget[p] - 1]
       /\ \/ /\ \E l \in {"sync", "sync_inodes"} : pc' = [pc EXCEPT ![p] = l]
             /\ sync' = [sync EXCEPT ![p] = s0]
             /\ UNCHANGED <<first, want, ahead>>
          \/ /\ pc' = [pc EXCEPT ![p] = "getblk"] /\ first' = [first EXCEPT ![p] = k]
             /\ want' = [want EXCEPT ![p] = k] /\ ahead' = [ahead EXCEPT ![p] = a0]
             /\ UNCHANGED sync
       /\ UNCHANGED <<bufvars, devvars, latest, bh, cand, ll, buffer_wait>>
  <1>0. Effect
    <2> HIDE DEF a0
    <2> QED
      BY DEF Start, Goto, GotoInode, Yield, a0
  <1> HIDE DEF s0, a0
  <1>1. CacheTypes'
    <2>1. pc' \in [Frames -> Labels] /\ cpu' \in Frames \cup {NULL}
      <3>1. PICK l \in {"sync", "sync_inodes", "getblk"} : pc' = [pc EXCEPT ![p] = l]
        BY <1>0
      <3> QED
        BY <1>0, <3>1 DEF CacheTypes, Labels
    <2>2. sync' \in [Frames -> SyncLoops]
      BY <1>0, <1>s, <1>a, CacheConstants, ZenonT(60) DEF CacheTypes
    <2>3. op' \in [Frames -> Ops \cup {NULL, "write_inode"}]
      BY <1>0, <1>s, <1>a, CacheConstants, ZenonT(60) DEF CacheTypes
    <2>4. first' \in [Frames -> Blocks \cup {NULL}]
      BY <1>0, <1>s, <1>a, CacheConstants, ZenonT(60) DEF CacheTypes
    <2>5. want' \in [Frames -> Blocks \cup {NULL}]
      BY <1>0, <1>s, <1>a, CacheConstants, ZenonT(60) DEF CacheTypes
    <2>6. ahead' \in [Frames -> Seq(Blocks)]
      BY <1>0, <1>s, <1>a, CacheConstants, ZenonT(60) DEF CacheTypes
    <2>7. budget' \in [Frames -> 0 .. MaxOps]
      BY <1>0, <1>s, <1>a, CacheConstants, SMTT(30) DEF CacheTypes
    <2> QED
      BY <1>0, <2>1, <2>2, <2>3, <2>4, <2>5, <2>6, <2>7 DEF CacheTypes, bufvars, devvars
  <1>2. Local(p)
    BY <1>0 DEF Local, CacheTypes
  <1>3. ControlOf(p)'
    <2>1. CASE pc'[p] \in {"sync", "sync_inodes"} /\ sync'[p] = s0
      BY <1>0, <2>1, <1>s, <1>a, CacheConstants DEF CacheTypes, bufvars, ControlOf, InLL, At, InSync, InGetblk, CountedCand
    <2>2. CASE pc'[p] = "getblk" /\ want'[p] = k /\ first'[p] = k
      BY <1>0, <2>2, <1>s, <1>a, CacheConstants DEF CacheTypes, bufvars, ControlOf, InLL, At, InSync, InGetblk, CountedCand
    <2> QED
      BY <1>0, <2>1, <2>2 DEF CacheTypes
  <1>4. UNCHANGED <<bufvars, io>> /\ pc[p] # "ll_slot" /\ pc'[p] # "ll_slot"
    BY <1>0 DEF CacheTypes, devvars
  <1>5. /\ bh'[p] = bh[p] /\ (bh[p] # NULL => first'[p] = first[p])
        /\ CountedCand(p)' <=> CountedCand(p)
        /\ CountedCand(p) => cand'[p] = cand[p] /\ want'[p] = want[p]
    BY <1>0 DEF CacheTypes, ControlOf, InLL, At, InSync, InGetblk, CountedCand
  <1>6. Copying(p)' => data[bh[p]] \in Nat
    BY <1>0 DEF CacheTypes, Copying, IInv, Filled, ControlOf, InLL, At, InSync, InGetblk, CountedCand
  <1> QED
    BY QuietStep, <1>1, <1>2, <1>3, <1>4, <1>5, <1>6

\* sync_inodes looks at an inode, or its call of write_inode has returned.
LEMMA SyncInodesKeeps ==
    ASSUME IInv, NEW p \in Frames, SyncInodes(p) \/ InnerReturn(p)
    PROVE  IInv'
  <1> CacheTypes /\ ControlOf(p)
    BY DEF IInv, Control
  <1>s. /\ sync[p] \in SyncLoops /\ sync[p].i \in Nat /\ sync[p].i + 1 \in Nat
        /\ 1 \in Nat /\ 1 \in 1 .. NR_BUFFERS + 1
    BY CacheConstants DEF CacheTypes, SyncLoops
  <1>r. PICK n \in {1, sync[p].i + 1} :
           /\ pc[p] \in {"sync_inodes", "inner"} /\ cpu' \in Frames \cup {NULL}
           /\ \/ /\ sync' = [sync EXCEPT ![p] = [sync[p] EXCEPT !.i = n]]
                 /\ \/ pc' = [pc EXCEPT ![p] = "sync"] /\ n = 1
                    \/ pc' = [pc EXCEPT ![p] = "sync_inodes"]
              \/ sync' = sync /\ pc' = [pc EXCEPT ![p] = "inner"]
           /\ UNCHANGED <<bufvars, devvars, latest, op, first, bh, want, cand, ahead, ll>>
           /\ UNCHANGED <<budget, buffer_wait>>
    BY DEF SyncInodes, InnerReturn, Running, Goto, GotoInode, Yield
  <1> DEFINE t == [sync[p] EXCEPT !.i = n]
  <1>n. n \in Nat
    BY <1>s
  <1>t. t \in SyncLoops /\ t.i = n /\ t.ret = sync[p].ret
    BY <1>s, <1>n, LoopRecord
  <1>0. /\ pc[p] \in {"sync_inodes", "inner"} /\ cpu' \in Frames \cup {NULL}
        /\ \/ /\ sync' = [sync EXCEPT ![p] = t]
              /\ \/ pc' = [pc EXCEPT ![p] = "sync"] /\ n = 1
                 \/ pc' = [pc EXCEPT ![p] = "sync_inodes"]
           \/ sync' = sync /\ pc' = [pc EXCEPT ![p] = "inner"]
        /\ UNCHANGED <<bufvars, devvars, latest, op, first, bh, want, cand, ahead, ll>>
        /\ UNCHANGED <<budget, buffer_wait>>
    BY <1>r
  <1> HIDE DEF t
  <1>1. CacheTypes'
    <2>1. pc' \in [Frames -> Labels]
      <3>1. PICK l \in {"sync", "sync_inodes", "inner"} : pc' = [pc EXCEPT ![p] = l]
        BY <1>0
      <3> QED
        BY <3>1 DEF CacheTypes, Labels
    <2>2. sync' \in [Frames -> SyncLoops]
      BY <1>0, <1>t DEF CacheTypes
    <2> QED
      BY <1>0, <2>1, <2>2 DEF CacheTypes, bufvars, devvars
  <1>2. Local(p)
    BY <1>0 DEF Local, CacheTypes
  <1>6. /\ ~InLL(p) /\ ~InLL(p)' /\ InSync(p) /\ InSync(p)'
        /\ At(p) = pc[p] /\ At(p)' = pc'[p] /\ pc'[p] \in {"sync", "sync_inodes", "inner"}
        /\ sync'[p].ret = sync[p].ret /\ (pc'[p] = "sync" => sync'[p].i = 1)
        /\ ~CountedCand(p) /\ ~CountedCand(p)' /\ ~Copying(p)'
    BY <1>0, <1>t DEF CacheTypes, InLL, At, InSync, CountedCand, Copying
  <1>3. ControlOf(p)'
    BY <1>0, <1>s, <1>6 DEF ControlOf, InGetblk
  <1>4. UNCHANGED <<bufvars, io>> /\ pc[p] # "ll_slot" /\ pc'[p] # "ll_slot"
    BY <1>0, <1>6 DEF devvars
  <1>5. bh'[p] = bh[p] /\ first'[p] = first[p]
    BY <1>0
  <1> QED
    BY QuietStep, <1>1, <1>2, <1>3, <1>4, <1>5, <1>6

\* write_inode is called.
LEMMA WriteInodeKeeps ==
    ASSUME IInv, NEW p \in Frames, NEW i \in Inodes, WriteInode(p, i)
    PROVE  IInv'
  <1> CacheTypes /\ ControlOf(p)
    BY DEF IInv, Control
  <1> DEFINE k == InodeBlock[i]
  <1>k. k \in Blocks /\ k # NULL
    BY CacheConstants
  <1>0. /\ pc[p] = "idle" /\ cpu' \in {p, NULL} /\ pc' = [pc EXCEPT ![p] = "lock_inode"]
        /\ op' = [op EXCEPT ![p] = "write_inode"] /\ first' = [first EXCEPT ![p] = k]
        /\ want' = [want EXCEPT ![p] = k]
        /\ \/ budget' = budget
           \/ budget[p] > 0 /\ budget' = [budget EXCEPT ![p] = budget[p] - 1]
        /\ UNCHANGED <<bufvars, devvars, latest, bh, cand, ahead, sync, ll, buffer_wait>>
    BY DEF WriteInode, Goto, GotoInode, Yield
  <1> HIDE DEF k
  <1>1. CacheTypes'
    <2>1. pc' \in [Frames -> Labels] /\ cpu' \in Frames \cup {NULL}
      BY <1>0 DEF CacheTypes, Labels
    <2>2. op' \in [Frames -> Ops \cup {NULL, "write_inode"}]
      BY <1>0 DEF CacheTypes
    <2>3. first' \in [Frames -> Blocks \cup {NULL}] /\ want' \in [Frames -> Blocks \cup {NULL}]
      BY <1>0, <1>k DEF CacheTypes
    <2>4. budget' \in [Frames -> 0 .. MaxOps]
      BY <1>0, CacheConstants, SMTT(30) DEF CacheTypes
    <2> QED
      BY <1>0, <2>1, <2>2, <2>3, <2>4 DEF CacheTypes, bufvars, devvars
  <1>2. Local(p)
    BY <1>0 DEF Local, CacheTypes
  <1>6. /\ ~InLL(p) /\ ~InLL(p)' /\ ~InSync(p)' /\ At(p)' = "lock_inode" /\ pc'[p] = "lock_inode"
        /\ ~CountedCand(p) /\ ~CountedCand(p)' /\ ~Copying(p)'
        /\ first'[p] = k /\ want'[p] = k /\ bh'[p] = NULL /\ bh[p] = NULL
    BY <1>0 DEF CacheTypes, InLL, At, InSync, CountedCand, Copying, ControlOf
  <1>3. ControlOf(p)'
    BY <1>k, <1>6 DEF ControlOf, InGetblk
  <1>4. UNCHANGED <<bufvars, io>> /\ pc[p] # "ll_slot" /\ pc'[p] # "ll_slot"
    BY <1>0, <1>6 DEF devvars
  <1> QED
    BY QuietStep, <1>1, <1>2, <1>3, <1>4, <1>6

\* write_inode has the inode's lock, or finds it clean.
LEMMA LockInodeKeeps ==
    ASSUME IInv, NEW p \in Frames, LockInode(p)
    PROVE  IInv'
  <1> CacheTypes /\ ControlOf(p)
    BY DEF IInv, Control
  <1>b. pc[p] = "lock_inode" /\ bh[p] = NULL /\ want[p] # NULL /\ want[p] = first[p]
    BY DEF LockInode, Running, ControlOf, InGetblk, At, InLL
  <1>0. /\ cpu' \in Frames \cup {NULL} /\ bh' = bh
        /\ \/ pc' = [pc EXCEPT ![p] = "getblk"] /\ UNCHANGED <<op, first, want>>
           \/ /\ pc' = [pc EXCEPT ![p] = "idle"] /\ op' = [op EXCEPT ![p] = NULL]
              /\ first' = [first EXCEPT ![p] = NULL] /\ want' = [want EXCEPT ![p] = NULL]
        /\ UNCHANGED <<bufvars, devvars, latest, cand, ahead, sync, ll, budget, buffer_wait>>
    <2> [bh EXCEPT ![p] = NULL] = bh
      BY <1>b DEF CacheTypes
    <2> QED
      BY OuterFrame DEF LockInode, Goto, Finish
  <1>1. CacheTypes'
    <2>1. pc' \in [Frames -> Labels]
      BY <1>0 DEF CacheTypes, Labels
    <2>2. op' \in [Frames -> Ops \cup {NULL, "write_inode"}]
      BY <1>0 DEF CacheTypes
    <2>3. first' \in [Frames -> Blocks \cup {NULL}] /\ want' \in [Frames -> Blocks \cup {NULL}]
      BY <1>0 DEF CacheTypes
    <2> QED
      BY <1>0, <2>1, <2>2, <2>3 DEF CacheTypes, bufvars, devvars
  <1>2. Local(p)
    BY <1>0 DEF Local, CacheTypes
  <1>6. /\ ~InLL(p)' /\ ~InSync(p)' /\ pc'[p] \in {"getblk", "idle"} /\ At(p)' = pc'[p]
        /\ ~CountedCand(p) /\ ~CountedCand(p)' /\ ~Copying(p)'
        /\ bh'[p] = NULL /\ (pc'[p] = "getblk" => first'[p] = first[p] /\ want'[p] = want[p])
    BY <1>0, <1>b DEF CacheTypes, InLL, At, InSync, CountedCand, Copying
  <1>3. ControlOf(p)'
    BY <1>b, <1>6 DEF ControlOf, InGetblk
  <1>4. UNCHANGED <<bufvars, io>> /\ pc[p] # "ll_slot" /\ pc'[p] # "ll_slot"
    BY <1>0, <1>b, <1>6 DEF devvars
  <1> QED
    BY QuietStep, <1>b, <1>1, <1>2, <1>3, <1>4, <1>6

\* sys_chmod changes an inode in memory.
LEMMA ChmodKeeps ==
    ASSUME IInv, NEW p \in Frames, NEW i \in Inodes, Chmod(p, i)
    PROVE  IInv'
  <1> CacheTypes /\ ControlOf(p)
    BY DEF IInv, Control
  <1>0. /\ pc[p] = "idle" /\ budget[p] > 0 /\ budget' = [budget EXCEPT ![p] = budget[p] - 1]
        /\ UNCHANGED <<bufvars, devvars, latest, cpu, pc, op, first, bh, want, cand, ahead, sync>>
        /\ UNCHANGED <<ll, buffer_wait>>
    BY DEF Chmod
  <1>1. CacheTypes'
    <2> budget' \in [Frames -> 0 .. MaxOps]
      BY <1>0, CacheConstants, SMTT(30) DEF CacheTypes
    <2> QED
      BY <1>0 DEF CacheTypes, bufvars, devvars
  <1>2. Local(p)
    BY <1>0 DEF Local
  <1>3. ControlOf(p)'
    BY <1>0 DEF ControlOf, InLL, At, InSync, InGetblk, CountedCand
  <1>4. UNCHANGED <<bufvars, io>> /\ pc[p] # "ll_slot" /\ pc'[p] # "ll_slot"
    BY <1>0 DEF devvars
  <1>5. /\ bh'[p] = bh[p] /\ first'[p] = first[p]
        /\ ~CountedCand(p) /\ ~CountedCand(p)' /\ ~Copying(p)'
    BY <1>0 DEF CountedCand, Copying
  <1> QED
    BY QuietStep, <1>1, <1>2, <1>3, <1>4, <1>5
-----------------------------------------------------------------------------
\* lock_buffer, and the test that there is still something to do.
LEMMA LLLockKeeps ==
    ASSUME IInv, NEW p \in Frames, LLLock(p)
    PROVE  IInv'
  <1> CacheTypes /\ ControlOf(p) /\ Makers /\ InUse /\ Filled /\ Counted /\ HeldKeepsBlock
    BY DEF IInv, Control
  <1> DEFINE b == ll[p].tgt
             Done == /\ pc' = [pc EXCEPT ![p] = ll[p].ret] /\ cpu' = p
                     /\ ll' = [ll EXCEPT ![p] = NoLL] /\ locked' = locked
             Lock == /\ pc' = [pc EXCEPT ![p] = "ll_slot"] /\ cpu' \in {p, NULL}
                     /\ locked' = [locked EXCEPT ![b] = TRUE] /\ ll' = ll
                     /\ IF ll[p].cmd = "WRITE" THEN dirt[b] ELSE ~uptodate[b]
  <1>0. /\ pc[p] = "ll_lock" /\ ~locked[b]
        /\ Done \/ Lock
        /\ UNCHANGED <<blk, count, dirt, uptodate, data, free_list, devvars, latest, op, first>>
        /\ UNCHANGED <<bh, want, cand, ahead, sync, budget, buffer_wait>>
    <2> ll[p].cmd \in {"READ", "WRITE"}
      BY DEF CacheTypes, LLCalls
    <2> QED
      BY DEF LLLock, Running, Goto, Yield
  <1>a. /\ ll[p] \in LLCalls /\ b \in Bufs
        /\ ll[p].ret \in {"sync", "wait", "next_ahead", "ahead_done"}
        /\ ll[p].cmd = (IF ll[p].ret = "sync" THEN "WRITE" ELSE "READ")
        /\ ll[p].cmd = "READ" => b = bh[p]
    BY <1>0 DEF CacheTypes, ControlOf, InLL, LLCalls
  <1>n. NoLL \in LLCalls
    BY DEF NoLL, LLCalls, Labels
  <1>2. Local(p)
    BY <1>0 DEF Local, CacheTypes
  <1> HIDE DEF Done, Lock, b
  <1>3. CASE Done
    <2>1. CacheTypes'
      <3>1. pc' \in [Frames -> Labels]
        BY <1>a, <1>0, <1>3 DEF Done, CacheTypes, Labels
      <3>2. ll' \in [Frames -> LLCalls]
        BY <1>n, <1>3 DEF Done, CacheTypes
      <3> QED
        BY <1>0, <1>3, <3>1, <3>2 DEF Done, CacheTypes, devvars
    <2>2. ControlOf(p)'
      BY <1>0, <1>a, <1>3 DEF Done, CacheTypes, ControlOf, InLL, At, InSync, InGetblk, CountedCand
    <2>3. pc'[p] # "ll_slot" /\ (CountedCand(p)' <=> CountedCand(p)) /\ ~Copying(p)'
      BY <1>0, <1>a, <1>3 DEF Done, CacheTypes, CountedCand, Copying
    <2>4. UNCHANGED <<bufvars, io>>
      BY <1>0, <1>3 DEF Done, bufvars, devvars
    <2> QED
      BY <1>0, <1>2, <2>1, <2>2, <2>3, <2>4, QuietStep
  <1>4. CASE Lock
    <2>1. CacheTypes'
      <3>1. pc' \in [Frames -> Labels]
        BY <1>4 DEF Lock, CacheTypes, Labels
      <3>2. locked' \in [Bufs -> BOOLEAN]
        BY <1>4 DEF Lock, CacheTypes
      <3> QED
        BY <1>0, <1>4, <3>1, <3>2 DEF Lock, CacheTypes, devvars
    <2>2. Control'
      <3> ControlOf(p)'
        BY <1>0, <1>a, <1>4 DEF Lock, CacheTypes, ControlOf, InLL, At, InSync, InGetblk, CountedCand
      <3> QED
        BY <1>2, LocalControl DEF IInv
    <2>3. Makers'
      <3>1. io[b] = "none" /\ \A q \in Frames : ~Makes(q, b)
        BY <1>0, <1>a DEF Makers
      <3>2. \A q \in Frames, c \in Bufs : Makes(q, c)' <=> Makes(q, c) \/ (q = p /\ c = b)
        BY <1>0, <1>2, <1>4 DEF Lock, Makes, Local, CacheTypes, b
      <3>3. \A c \in Bufs : locked'[c] <=> locked[c] \/ c = b
        BY <1>4, <1>a DEF Lock, CacheTypes
      <3>4. IF ll[p].cmd = "WRITE" THEN dirt[b] ELSE ~uptodate[b]
        BY <1>4 DEF Lock
      <3>5. UNCHANGED <<io, dirt, uptodate, ll>>
        BY <1>0, <1>4 DEF Lock, devvars
      <3> QED
        BY <3>1, <3>2, <3>3, <3>4, <3>5, <1>a DEF Makers
    <2>4. InUse'
      <3> blk[b] # NULL
        BY <1>0, <1>a, <1>4, CacheConstants DEF Lock, InUse, HeldKeepsBlock, ControlOf, CacheTypes, At, InLL
      <3> QED
        BY <1>0, <1>a, <1>4 DEF Lock, InUse, CacheTypes
    <2>5. Whole' /\ UniqueBlock'
      BY <1>0 DEF IInv, Whole, UniqueBlock
    <2>6. ~Copying(p)' /\ (CountedCand(p)' <=> CountedCand(p))
      BY <1>0, <1>4 DEF Lock, CacheTypes, Copying, CountedCand
    <2>7. Filled'
      BY <1>0, <1>2, <2>6, FilledKept DEF devvars
    <2>8. Counted'
      <3> \A c \in Bufs : count'[c] = count[c] - Own(p, c) + Own(p, c)'
        BY <1>0, <2>6 DEF CacheTypes, Own
      <3> QED
        BY <1>2, CountsKept
    <2>9. HeldKeepsBlock'
      <3> /\ bh'[p] # NULL => blk[bh'[p]] = first'[p]
          /\ CountedCand(p)' /\ cand'[p] # NULL => blk[cand'[p]] = want'[p]
        BY <1>0, <2>6 DEF HeldKeepsBlock
      <3> QED
        BY <1>0, <1>2, HeldKept
    <2> QED
      BY <2>1, <2>2, <2>3, <2>4, <2>5, <2>7, <2>8, <2>9 DEF IInv
  <1> QED
    BY <1>0, <1>3, <1>4

\* A slot was found: add_request; or none for a read-ahead, which is forgotten.
LEMMA LLAddKeeps ==
    ASSUME IInv, NEW p \in Frames, LLAdd(p) \/ LLForget(p)
    PROVE  IInv'
  <1> CacheTypes /\ ControlOf(p) /\ Makers /\ InUse /\ Filled /\ Counted /\ HeldKeepsBlock
    BY DEF IInv, Control
  <1> DEFINE b == ll[p].tgt
             Add == /\ io' = [io EXCEPT ![b] = ll[p].cmd] /\ dirt' = [dirt EXCEPT ![b] = FALSE]
                    /\ locked' = locked
             Forget == locked' = [locked EXCEPT ![b] = FALSE] /\ io' = io /\ dirt' = dirt
  <1>0. /\ pc[p] = "ll_slot"
        /\ Add \/ Forget
        /\ pc' = [pc EXCEPT ![p] = ll[p].ret] /\ cpu' \in {p, NULL}
        /\ ll' = [ll EXCEPT ![p] = NoLL]
        /\ UNCHANGED <<blk, count, uptodate, data, free_list, disk, errors, latest, op, first>>
        /\ UNCHANGED <<bh, want, cand, ahead, sync, budget, buffer_wait>>
    BY DEF LLAdd, LLForget, Running, Goto, Yield, devvars
  <1>a. /\ ll[p] \in LLCalls /\ b \in Bufs
        /\ ll[p].ret \in {"sync", "wait", "next_ahead", "ahead_done"}
        /\ ll[p].cmd = (IF ll[p].ret = "sync" THEN "WRITE" ELSE "READ")
    BY <1>0 DEF CacheTypes, ControlOf, InLL, LLCalls
  <1>n. NoLL \in LLCalls
    BY DEF NoLL, LLCalls, Labels
  <1>2. Local(p)
    BY <1>0 DEF Local, CacheTypes
  <1>b. Makes(p, b)
    BY <1>0 DEF Makes
  <1>c. \A q \in Frames, c \in Bufs : Makes(q, c)' <=> Makes(q, c) /\ q # p
    BY <1>0, <1>a, <1>2 DEF Makes, Local, CacheTypes
  <1>d. \A q \in Frames, c \in Bufs : Makes(q, c) => (q # p <=> c # b) /\ (q # p => ll'[q] = ll[q])
    BY <1>a, <1>b, <1>2 DEF Makers, Makes, Local
  <1> HIDE DEF Add, Forget, b
  <1>3. CacheTypes'
    <2>1. pc' \in [Frames -> Labels]
      BY <1>0, <1>a DEF CacheTypes, Labels
    <2>2. ll' \in [Frames -> LLCalls]
      BY <1>0, <1>n DEF CacheTypes
    <2>3. io' \in [Bufs -> {"none", "READ", "WRITE", "done"}]
      BY <1>0, <1>a DEF Add, Forget, CacheTypes
    <2>4. dirt' \in [Bufs -> BOOLEAN] /\ locked' \in [Bufs -> BOOLEAN]
      BY <1>0 DEF Add, Forget, CacheTypes
    <2> QED
      BY <1>0, <2>1, <2>2, <2>3, <2>4 DEF CacheTypes
  <1>4. Control'
    <2> ControlOf(p)'
      BY <1>0, <1>a DEF CacheTypes, ControlOf, InLL, At, InSync, InGetblk, CountedCand
    <2> QED
      BY <1>2, LocalControl DEF IInv
  <1>5. Makers'
    <2>1. /\ locked[b] /\ io[b] = "none"
          /\ \A q \in Frames, c \in Bufs : c = b => ~Makes(q, c)'
      <3>1. \A q \in Frames, c \in Bufs : c = b => ~Makes(q, c)'
        BY <1>a, <1>c, <1>d
      <3>2. locked[b] /\ io[b] = "none"
        BY <1>a, <1>b DEF Makers
      <3> QED
        BY <3>1, <3>2
    <2>2. \A c \in Bufs : /\ c # b => io'[c] = io[c] /\ locked'[c] = locked[c] /\ dirt'[c] = dirt[c]
                          /\ io'[b] # "none" <=> locked'[b]
      BY <1>0, <1>a, <2>1 DEF Add, Forget, CacheTypes
    <2>3. \A q \in Frames, c \in Bufs : Makes(q, c)' => c # b /\ Makes(q, c) /\ ll'[q] = ll[q]
      BY <1>c, <1>d
    <2>4. \A q \in Frames, c \in Bufs : Makes(q, c) /\ c # b => Makes(q, c)'
      BY <1>c, <1>d
    <2>5. uptodate' = uptodate
      BY <1>0
    <2>6. \A c \in Bufs : locked'[c] <=> io'[c] # "none" \/ \E q \in Frames : Makes(q, c)'
      BY <2>1, <2>2, <2>3, <2>4 DEF Makers
    <2> QED
      BY <2>2, <2>3, <2>5, <2>6 DEF Makers
  <1>6. InUse'
    BY <1>0, <1>a DEF Add, Forget, InUse, CacheTypes
  <1>7. Whole' /\ UniqueBlock'
    BY <1>0 DEF IInv, Whole, UniqueBlock
  <1>8. ~Copying(p)' /\ ~Copying(p) /\ (CountedCand(p)' <=> CountedCand(p))
    BY <1>0, <1>a DEF CacheTypes, Copying, CountedCand
  <1>9. Filled'
    <2>1. ll[p].cmd = "WRITE" => dirt[b]
      BY <1>a, <1>b DEF Makers
    <2>2. \A c \in Bufs : /\ dirt'[c] => dirt[c]
                          /\ io'[c] \in {"WRITE", "done"} => io[c] \in {"WRITE", "done"} \/ dirt[c]
      BY <1>0, <1>a, <2>1 DEF Add, Forget, CacheTypes
    <2>3. \A q \in Frames : Copying(q)' => Copying(q) /\ bh'[q] = bh[q]
      BY <1>0, <1>2, <1>8 DEF Local, Copying
    <2> QED
      BY <1>0, <2>2, <2>3 DEF Filled
  <1>10. Counted'
    <2> \A c \in Bufs : count'[c] = count[c] - Own(p, c) + Own(p, c)'
      BY <1>0, <1>8 DEF CacheTypes, Own
    <2> QED
      BY <1>2, CountsKept
  <1>11. HeldKeepsBlock'
    <2> /\ bh'[p] # NULL => blk[bh'[p]] = first'[p]
        /\ CountedCand(p)' /\ cand'[p] # NULL => blk[cand'[p]] = want'[p]
      BY <1>0, <1>8 DEF HeldKeepsBlock
    <2> QED
      BY <1>0, <1>2, HeldKept
  <1> QED
    BY <1>3, <1>4, <1>5, <1>6, <1>7, <1>9, <1>10, <1>11 DEF IInv

-----------------------------------------------------------------------------
\* A step of p that only changes b_count, by the references p takes and drops.
LEMMA CountingStep ==
    ASSUME IInv, NEW p \in Frames, Local(p), CacheTypes', ControlOf(p)',
           UNCHANGED <<blk, dirt, uptodate, locked, data, free_list, io>>,
           \A b \in Bufs : count'[b] = count[b] - Own(p, b) + Own(p, b)',
           bh'[p] # NULL => blk[bh'[p]] = first'[p],
           CountedCand(p)' /\ cand'[p] # NULL => blk[cand'[p]] = want'[p],
           pc[p] # "ll_slot", pc'[p] # "ll_slot", ~Copying(p)'
    PROVE  IInv'
  <1> CacheTypes /\ Control /\ Makers /\ InUse /\ Whole /\ Filled /\ Counted /\ HeldKeepsBlock /\ UniqueBlock
    BY DEF IInv
  <1>1. Control'
    BY LocalControl
  <1>2. Makers'
    BY MakersKept
  <1>3. InUse' /\ Whole' /\ UniqueBlock'
    BY DEF InUse, Whole, UniqueBlock
  <1>4. Filled'
    BY FilledKept
  <1>5. Counted'
    BY CountsKept
  <1>6. HeldKeepsBlock'
    BY HeldKept
  <1> QED
    BY <1>1, <1>2, <1>3, <1>4, <1>5, <1>6 DEF IInv

\* get_hash_table holds the buffer it has found before it waits for it.
LEMMA GetblkFoundKeeps ==
    ASSUME IInv, NEW p \in Frames, GetblkFound(p)
    PROVE  IInv'
  <1> CacheTypes /\ ControlOf(p) /\ HeldKeepsBlock
    BY DEF IInv, Control
  <1>b. PICK b \in Holding(want[p]) : /\ count' = [count EXCEPT ![b] = @ + 1]
                                      /\ cand' = [cand EXCEPT ![p] = b]
                                      /\ GotoWait(p, "hash_wait", b)
    BY DEF GetblkFound
  <1>0. /\ pc[p] = "getblk" /\ pc' = [pc EXCEPT ![p] = "hash_wait"] /\ cpu' \in {p, NULL}
        /\ UNCHANGED <<blk, dirt, uptodate, locked, data, free_list, devvars, latest, op, first>>
        /\ UNCHANGED <<bh, want, ahead, sync, ll, budget, buffer_wait>>
    BY <1>b DEF GetblkFound, GotoWait, Running, Goto, Yield
  <1>a. b \in Bufs /\ blk[b] = want[p]
    BY DEF Holding
  <1>1. CacheTypes'
    <2>1. pc' \in [Frames -> Labels]
      BY <1>0 DEF CacheTypes, Labels
    <2>2. count' \in [Bufs -> Nat] /\ cand' \in [Frames -> Bufs \cup {NULL}]
      BY <1>a, <1>b DEF CacheTypes
    <2> QED
      BY <1>0, <2>1, <2>2 DEF CacheTypes, devvars
  <1>2. Local(p)
    BY <1>0, <1>b DEF Local, CacheTypes
  <1>3. ControlOf(p)'
    BY <1>0, <1>a, <1>b, NullIsNoBuffer
       DEF CacheTypes, ControlOf, InLL, At, InSync, InGetblk, CountedCand
  <1>4. \A c \in Bufs : count'[c] = count[c] - Own(p, c) + Own(p, c)'
    BY <1>0, <1>a, <1>b DEF CacheTypes, Own, CountedCand
  <1>5. bh'[p] # NULL => blk[bh'[p]] = first'[p]
    BY <1>0 DEF HeldKeepsBlock
  <1>6. cand'[p] # NULL => blk[cand'[p]] = want'[p]
    BY <1>0, <1>a, <1>b DEF CacheTypes
  <1>7. pc'[p] # "ll_slot" /\ pc[p] # "ll_slot" /\ ~Copying(p)'
    BY <1>0 DEF CacheTypes, Copying
  <1> QED
    BY <1>0, <1>1, <1>2, <1>3, <1>4, <1>5, <1>6, <1>7, CountingStep DEF devvars

\* get_hash_table returns: the buffer it held is still the block's.
LEMMA HashWaitKeeps ==
    ASSUME IInv, NEW p \in Frames, HashWait(p)
    PROVE  IInv'
  <1> CacheTypes /\ ControlOf(p) /\ HeldKeepsBlock
    BY DEF IInv, Control
  <1> DEFINE b == cand[p]
  <1>a. /\ pc[p] = "hash_wait" /\ b \in Bufs /\ want[p] # NULL
        /\ CountedCand(p) /\ blk[b] = want[p]
    BY DEF HashWait, Running, CacheTypes, ControlOf, CountedCand, HeldKeepsBlock
  <1>0. /\ cpu' \in {p, NULL}
        /\ \/ /\ bh[p] = NULL /\ bh' = [bh EXCEPT ![p] = b] /\ cand' = [cand EXCEPT ![p] = NULL]
              /\ \/ op[p] = "block_write_full" /\ pc' = [pc EXCEPT ![p] = "copy"]
                 \/ pc' = [pc EXCEPT ![p] = "fill"]
           \/ /\ bh[p] # NULL /\ bh' = bh /\ cand' = [cand EXCEPT ![p] = b]
              /\ pc' = [pc EXCEPT ![p] = "ahead"]
        /\ UNCHANGED <<blk, count, dirt, uptodate, locked, data, free_list, devvars, latest, op>>
        /\ UNCHANGED <<first, want, ahead, sync, ll, budget, buffer_wait>>
    BY <1>a DEF HashWait, Got, Running, Goto, Yield
  <1>1. CacheTypes'
    <2>1. pc' \in [Frames -> Labels]
      BY <1>0 DEF CacheTypes, Labels
    <2>2. bh' \in [Frames -> Bufs \cup {NULL}] /\ cand' \in [Frames -> Bufs \cup {NULL}]
      BY <1>0, <1>a DEF CacheTypes
    <2> QED
      BY <1>0, <2>1, <2>2 DEF CacheTypes, devvars
  <1>2. Local(p)
    BY <1>0 DEF Local, CacheTypes
  <1>3. ControlOf(p)'
    <2>1. /\ first'[p] = first[p] /\ want'[p] = want[p] /\ ahead'[p] = ahead[p]
          /\ ll'[p] = ll[p] /\ sync'[p] = sync[p] /\ op'[p] = op[p] /\ b # NULL
      BY <1>0, <1>a, NullIsNoBuffer
    <2>2. bh \in [Frames -> Bufs \cup {NULL}] /\ cand \in [Frames -> Bufs \cup {NULL}]
          /\ pc \in [Frames -> Labels]
      BY DEF CacheTypes
    <2>3. CASE bh[p] = NULL
      <3>1. bh'[p] = b /\ cand'[p] = NULL /\ pc'[p] \in {"copy", "fill"}
        BY <1>0, <2>2, <2>3
      <3> QED BY <1>a, <2>1, <2>3, <3>1 DEF ControlOf, InLL, At, InSync, InGetblk, CountedCand
    <2>4. CASE bh[p] # NULL
      <3>1. bh'[p] = bh[p] /\ cand'[p] = b /\ pc'[p] = "ahead"
        BY <1>0, <2>2, <2>4
      <3> QED BY <1>a, <2>1, <2>4, <3>1 DEF ControlOf, InLL, At, InSync, InGetblk, CountedCand
    <2> QED BY <2>3, <2>4
  <1>4. \A c \in Bufs : count'[c] = count[c] - Own(p, c) + Own(p, c)'
    <2>1. \/ bh[p] = NULL /\ bh'[p] = b /\ ~CountedCand(p)'
          \/ bh'[p] = bh[p] /\ cand'[p] = b /\ CountedCand(p)'
      BY <1>0, <1>a DEF CacheTypes, CountedCand
    <2>2. \A c \in Bufs : count[c] \in Nat /\ count'[c] = count[c] /\ c # NULL
      BY <1>0, NullIsNoBuffer DEF CacheTypes
    <2> QED
      BY <1>a, <2>1, <2>2 DEF Own
  <1>5. bh'[p] # NULL => blk[bh'[p]] = first'[p]
    BY <1>0, <1>a DEF CacheTypes, HeldKeepsBlock, ControlOf, InGetblk, At, InLL
  <1>6. cand'[p] # NULL => blk[cand'[p]] = want'[p]
    BY <1>0, <1>a DEF CacheTypes
  <1>7. pc'[p] # "ll_slot" /\ pc[p] # "ll_slot" /\ ~Copying(p)'
    BY <1>0, <1>a DEF CacheTypes, Copying
  <1> QED
    BY <1>0, <1>1, <1>2, <1>3, <1>4, <1>5, <1>6, <1>7, CountingStep DEF devvars

\* breada lets go of the buffer it has read ahead.
LEMMA AheadDoneKeeps ==
    ASSUME IInv, NEW p \in Frames, AheadDone(p)
    PROVE  IInv'
  <1> CacheTypes /\ ControlOf(p) /\ HeldKeepsBlock /\ Counted
    BY DEF IInv, Control
  <1> DEFINE b == cand[p]
  <1>a. /\ pc[p] = "ahead_done" /\ b \in Bufs /\ CountedCand(p) /\ ahead[p] # <<>>
    BY DEF AheadDone, Running, CacheTypes, ControlOf, CountedCand, At, InLL
  <1>0. /\ pc' = [pc EXCEPT ![p] = "next_ahead"] /\ cpu' = p
        /\ count' = [count EXCEPT ![b] = count[b] - 1]
        /\ cand' = [cand EXCEPT ![p] = NULL] /\ ahead' = [ahead EXCEPT ![p] = Tail(ahead[p])]
        /\ UNCHANGED <<blk, dirt, uptodate, locked, data, free_list, devvars, latest, op, first>>
        /\ UNCHANGED <<bh, want, sync, ll, budget, buffer_wait>>
    BY DEF AheadDone, Goto
  <1>1. CacheTypes'
    <2>1. pc' \in [Frames -> Labels]
      BY <1>0 DEF CacheTypes, Labels
    <2>2. cand' \in [Frames -> Bufs \cup {NULL}]
      BY <1>0 DEF CacheTypes
    <2>3. ahead' \in [Frames -> Seq(Blocks)]
      BY <1>0, <1>a DEF CacheTypes
    <2>4. count' \in [Bufs -> Nat]
      <3>1. count[b] \in Nat \ {0}
        BY <1>a, OwnedIsCounted
      <3>2. count[b] - 1 \in Nat
        BY <3>1
      <3>3. count \in [Bufs -> Nat] /\ count' = [count EXCEPT ![b] = count[b] - 1]
        BY <1>0 DEF CacheTypes
      <3> QED
        BY <1>a, <3>2, <3>3
    <2> QED
      BY <1>0, <2>1, <2>2, <2>3, <2>4 DEF CacheTypes, devvars
  <1>2. Local(p)
    BY <1>0 DEF Local, CacheTypes
  <1>3. ControlOf(p)'
    BY <1>0, <1>a DEF CacheTypes, ControlOf, InLL, At, InSync, InGetblk, CountedCand
  <1>4. \A c \in Bufs : count'[c] = count[c] - Own(p, c) + Own(p, c)'
    <2>1. CountedCand(p)' = FALSE /\ cand'[p] = NULL /\ bh'[p] = bh[p]
      BY <1>0, <1>a DEF CacheTypes, CountedCand
    <2>2. \A c \in Bufs : count'[c] = IF c = b THEN count[c] - 1 ELSE count[c]
      BY <1>0, <1>a DEF CacheTypes
    <2>3. \A c \in Bufs : count[c] \in Nat
      BY DEF CacheTypes
    <2> QED
      BY <1>a, <2>1, <2>2, <2>3, NullIsNoBuffer DEF Own
  <1>5. bh'[p] # NULL => blk[bh'[p]] = first'[p]
    BY <1>0 DEF HeldKeepsBlock
  <1>6. cand'[p] = NULL /\ pc'[p] # "ll_slot" /\ pc[p] # "ll_slot" /\ ~Copying(p)'
    BY <1>0, <1>a DEF CacheTypes, Copying
  <1> QED
    BY <1>0, <1>1, <1>2, <1>3, <1>4, <1>5, <1>6, CountingStep DEF devvars

\* brelse after its wait.
LEMMA BrelseKeeps ==
    ASSUME IInv, NEW p \in Frames, Brelse(p)
    PROVE  IInv'
  <1> CacheTypes /\ ControlOf(p) /\ HeldKeepsBlock /\ Counted
    BY DEF IInv, Control
  <1> DEFINE b == bh[p]
  <1>a. /\ pc[p] = "brelse" /\ b \in Bufs /\ ~CountedCand(p)
    BY DEF Brelse, Running, CacheTypes, ControlOf, CountedCand, At, InLL
  <1>0. /\ pc' = [pc EXCEPT ![p] = "idle"] /\ cpu' \in Frames \cup {NULL}
        /\ count' = [count EXCEPT ![b] = count[b] - 1] /\ buffer_wait' = {}
        /\ op' = [op EXCEPT ![p] = NULL] /\ first' = [first EXCEPT ![p] = NULL]
        /\ bh' = [bh EXCEPT ![p] = NULL] /\ want' = [want EXCEPT ![p] = NULL]
        /\ ahead' = [ahead EXCEPT ![p] = <<>>]
        /\ UNCHANGED <<blk, dirt, uptodate, locked, data, free_list, devvars, latest, cand, sync>>
        /\ UNCHANGED <<ll, budget>>
    BY OuterFrame DEF Brelse, Finish
  <1>1. CacheTypes'
    <2>1. pc' \in [Frames -> Labels]
      BY <1>0 DEF CacheTypes, Labels
    <2>2. /\ bh' \in [Frames -> Bufs \cup {NULL}] /\ op' \in [Frames -> Ops \cup {NULL, "write_inode"}]
          /\ first' \in [Frames -> Blocks \cup {NULL}] /\ want' \in [Frames -> Blocks \cup {NULL}]
      BY <1>0 DEF CacheTypes
    <2>3. ahead' \in [Frames -> Seq(Blocks)]
      BY <1>0 DEF CacheTypes
    <2>4. count' \in [Bufs -> Nat]
      <3> count[b] \in Nat \ {0}
        BY <1>a, OwnedIsCounted
      <3> QED
        BY <1>0, <1>a DEF CacheTypes
    <2> QED
      BY <1>0, <2>1, <2>2, <2>3, <2>4 DEF CacheTypes, devvars
  <1>2. Local(p)
    BY <1>0 DEF Local, CacheTypes
  <1>3. ControlOf(p)'
    BY <1>0 DEF CacheTypes, ControlOf, InLL, At, InSync, InGetblk, CountedCand
  <1>4. \A c \in Bufs : count'[c] = count[c] - Own(p, c) + Own(p, c)'
    BY <1>0, <1>a, NullIsNoBuffer DEF CacheTypes, Own, CountedCand
  <1>5. bh'[p] = NULL /\ ~CountedCand(p)' /\ pc'[p] # "ll_slot" /\ pc[p] # "ll_slot" /\ ~Copying(p)'
    BY <1>0, <1>a DEF CacheTypes, Copying, CountedCand
  <1> QED
    BY <1>0, <1>1, <1>2, <1>3, <1>4, <1>5, CountingStep DEF devvars

\* write_inode gives its buffer back before it panics.
LEMMA BreadFailedKeeps ==
    ASSUME IInv, NEW p \in Frames, BreadFailed(p)
    PROVE  IInv'
  <1> CacheTypes /\ ControlOf(p) /\ HeldKeepsBlock /\ Counted
    BY DEF IInv, Control
  <1> DEFINE b == bh[p]
             t == [dev |-> NULL, i |-> 1, pass |-> 2, ret |-> "idle"]
  <1>a. /\ pc[p] = "failed" /\ b \in Bufs /\ ~CountedCand(p)
    BY DEF BreadFailed, Running, CacheTypes, ControlOf, CountedCand, At, InLL
  <1>t. t \in SyncLoops /\ t.i = 1 /\ t.ret = "idle"
    BY DEF SyncLoops, Labels
  <1>0. /\ pc' = [pc EXCEPT ![p] = "sync_inodes"] /\ cpu' \in {p, NULL}
        /\ count' = [count EXCEPT ![b] = count[b] - 1] /\ buffer_wait' = {}
        /\ bh' = [bh EXCEPT ![p] = NULL] /\ sync' = [sync EXCEPT ![p] = t]
        /\ UNCHANGED <<blk, dirt, uptodate, locked, data, free_list, devvars, latest, op, first>>
        /\ UNCHANGED <<want, cand, ahead, ll, budget>>
    BY DEF BreadFailed, GotoInode, Goto, Yield
  <1> HIDE DEF t
  <1>1. CacheTypes'
    <2>1. pc' \in [Frames -> Labels]
      BY <1>0 DEF CacheTypes, Labels
    <2>2. bh' \in [Frames -> Bufs \cup {NULL}]
      BY <1>0 DEF CacheTypes
    <2>3. sync' \in [Frames -> SyncLoops]
      BY <1>0, <1>t DEF CacheTypes
    <2>4. count' \in [Bufs -> Nat]
      <3> count[b] \in Nat \ {0}
        BY <1>a, OwnedIsCounted
      <3> QED
        BY <1>0, <1>a DEF CacheTypes
    <2> QED
      BY <1>0, <2>1, <2>2, <2>3, <2>4 DEF CacheTypes, devvars
  <1>2. Local(p)
    BY <1>0 DEF Local, CacheTypes
  <1>5. /\ bh'[p] = NULL /\ ~CountedCand(p)' /\ pc'[p] # "ll_slot" /\ pc[p] # "ll_slot"
        /\ ~Copying(p)' /\ ~InLL(p)' /\ At(p)' = "sync_inodes" /\ pc'[p] = "sync_inodes"
        /\ sync'[p].ret = "idle"
    BY <1>0, <1>a, <1>t DEF CacheTypes, Copying, CountedCand, At, InLL
  <1>3. ControlOf(p)'
    BY <1>5 DEF ControlOf, InSync, InGetblk
  <1>4. \A c \in Bufs : count'[c] = count[c] - Own(p, c) + Own(p, c)'
    BY <1>0, <1>a, <1>5, NullIsNoBuffer DEF CacheTypes, Own
  <1> QED
    BY <1>0, <1>1, <1>2, <1>3, <1>4, <1>5, CountingStep DEF devvars

-----------------------------------------------------------------------------
\* Moving a buffer to the end of the free list leaves the list whole.
LEMMA ToEndWhole ==
    ASSUME NEW list \in Seq(Bufs), NEW b \in Bufs,
           \A c \in Bufs : \E i \in DOMAIN list : list[i] = c
    PROVE  /\ ToEnd(list, b) \in Seq(Bufs)
           /\ \A c \in Bufs : \E i \in DOMAIN ToEnd(list, b) : ToEnd(list, b)[i] = c
  <1> DEFINE n == CHOOSE j \in DOMAIN list : list[j] = b
             front == SubSeq(list, 1, n - 1)
             back == SubSeq(list, n + 1, Len(list))
             both == front \o back
             new == Append(both, b)
  <1>1. n \in 1 .. Len(list) /\ list[n] = b
    OBVIOUS
  <1> HIDE DEF n
  <1>2. front \in Seq(Bufs) /\ Len(front) = n - 1 /\ \A i \in 1 .. n - 1 : front[i] = list[i]
    BY <1>1
  <1>3. /\ back \in Seq(Bufs) /\ Len(back) = Len(list) - n
        /\ \A i \in 1 .. Len(list) - n : back[i] = list[n + i]
    BY <1>1
  <1> HIDE DEF front, back
  <1>b. /\ both \in Seq(Bufs) /\ Len(both) = Len(list) - 1
        /\ \A i \in 1 .. n - 1 : both[i] = list[i]
        /\ \A i \in 1 .. Len(list) - n : both[n - 1 + i] = list[n + i]
    <2>1. both \in Seq(Bufs) /\ Len(both) = Len(list) - 1
      <3>0. front \in Seq(Bufs) /\ back \in Seq(Bufs)
        BY <1>2, <1>3
      <3>1. both \in Seq(Bufs) /\ Len(both) = Len(front) + Len(back)
        BY <3>0
      <3>2. Len(list) \in Nat /\ n \in Int
        BY <1>1
      <3> QED
        BY <1>2, <1>3, <3>1, <3>2
    <2>2. ASSUME NEW i \in 1 .. n - 1 PROVE both[i] = list[i]
      BY <1>1, <1>2, <1>3, SMTT(30)
    <2>3. ASSUME NEW i \in 1 .. Len(list) - n PROVE both[n - 1 + i] = list[n + i]
      <3> n - 1 + i \in 1 .. Len(front) + Len(back) /\ ~(n - 1 + i <= Len(front))
        BY <1>1, <1>2, <1>3
      <3> both[n - 1 + i] = back[n - 1 + i - Len(front)]
        BY <1>2, <1>3, SMTT(30)
      <3> n - 1 + i - Len(front) = i
        BY <1>1, <1>2
      <3> QED
        BY <1>3
    <2> QED
      BY <2>1, <2>2, <2>3
  <1> HIDE DEF both
  <1>4. /\ new \in Seq(Bufs) /\ Len(new) = Len(list) /\ new[Len(list)] = b
        /\ \A i \in 1 .. Len(list) - 1 : new[i] = both[i]
        /\ DOMAIN new = 1 .. Len(list)
    BY <1>1, <1>b
  <1>5. ToEnd(list, b) = new
    BY DEF ToEnd, new, both, front, back, n
  <1> HIDE DEF new
  <1>6. ASSUME NEW c \in Bufs PROVE \E i \in DOMAIN new : new[i] = c
    <2>1. PICK i \in 1 .. Len(list) : list[i] = c
      OBVIOUS
    <2>2. CASE i = n
      <3> Len(list) \in 1 .. Len(list) /\ c = b
        BY <1>1, <2>1, <2>2
      <3> QED
        BY <1>4
    <2>3. CASE i < n
      <3> i \in 1 .. n - 1 /\ i \in 1 .. Len(list) - 1
        BY <1>1, <2>3
      <3> QED
        BY <1>b, <1>4, <2>1
    <2>4. CASE i > n
      <3> DEFINE j == i - n
      <3>1. /\ j \in 1 .. Len(list) - n /\ n - 1 + j \in 1 .. Len(list) - 1
            /\ n + j = i /\ n - 1 + j \in 1 .. Len(list)
        BY <1>1, <2>4
      <3>2. new[n - 1 + j] = c
        BY <1>b, <1>4, <2>1, <3>1
      <3> QED
        BY <1>4, <3>1, <3>2
    <2> QED
      BY <1>1, <2>2, <2>3, <2>4
  <1> QED
    BY <1>4, <1>5, <1>6

\* "OK, FINALLY we know that this buffer is the only one of it's kind".
LEMMA VictimClaimKeeps ==
    ASSUME IInv, NEW p \in Frames, VictimClaim(p)
    PROVE  IInv'
  <1> /\ CacheTypes /\ ControlOf(p) /\ Control /\ Makers /\ InUse /\ Whole /\ Filled /\ Counted
      /\ HeldKeepsBlock /\ UniqueBlock
    BY DEF IInv, Control
  <1> DEFINE b == cand[p]
             k == want[p]
  <1>a. /\ pc[p] = "victim" /\ b \in Bufs /\ k \in Blocks /\ ~CountedCand(p)
        /\ ~locked[b] /\ count[b] = 0 /\ ~dirt[b] /\ \A c \in Bufs : blk[c] # k
        /\ bh[p] = NULL => k = first[p]
        /\ bh[p] # NULL => ahead[p] # <<>> /\ first[p] # NULL
    BY DEF VictimClaim, Running, CacheTypes, ControlOf, CountedCand, At, InLL, InGetblk, Holding
  <1>0. /\ cpu' \in {p, NULL}
        /\ \/ /\ bh[p] = NULL /\ bh' = [bh EXCEPT ![p] = b] /\ cand' = [cand EXCEPT ![p] = NULL]
              /\ \/ op[p] = "block_write_full" /\ pc' = [pc EXCEPT ![p] = "copy"]
                 \/ pc' = [pc EXCEPT ![p] = "fill"]
           \/ /\ bh[p] # NULL /\ bh' = bh /\ cand' = [cand EXCEPT ![p] = b]
              /\ pc' = [pc EXCEPT ![p] = "ahead"]
        /\ count' = [count EXCEPT ![b] = 1] /\ dirt' = [dirt EXCEPT ![b] = FALSE]
        /\ uptodate' = [uptodate EXCEPT ![b] = FALSE] /\ blk' = [blk EXCEPT ![b] = k]
        /\ data' = [data EXCEPT ![b] = -1] /\ free_list' = ToEnd(free_list, b)
        /\ UNCHANGED <<locked, devvars, latest, op, first, want, ahead, sync, ll, budget, buffer_wait>>
    BY DEF VictimClaim, Claim, ResetBuffer, Got, Goto, Yield
  <1>1. CacheTypes'
    <2>1. pc' \in [Frames -> Labels]
      BY <1>0 DEF CacheTypes, Labels
    <2>2. bh' \in [Frames -> Bufs \cup {NULL}] /\ cand' \in [Frames -> Bufs \cup {NULL}]
      BY <1>0, <1>a DEF CacheTypes
    <2>3. count' \in [Bufs -> Nat] /\ dirt' \in [Bufs -> BOOLEAN] /\ uptodate' \in [Bufs -> BOOLEAN]
      BY <1>0 DEF CacheTypes
    <2>4. blk' \in [Bufs -> Blocks \cup {NULL}] /\ data' \in [Bufs -> Int]
      <3>1. blk \in [Bufs -> Blocks \cup {NULL}] /\ data \in [Bufs -> Int] /\ -1 \in Int
        BY DEF CacheTypes
      <3>2. blk' \in [Bufs -> Blocks \cup {NULL}]
        BY <1>0, <1>a, <3>1
      <3>3. data' \in [Bufs -> Int]
        BY <1>0, <3>1
      <3> QED BY <3>2, <3>3
    <2>5. free_list' \in Seq(Bufs)
      BY <1>0, <1>a, ToEndWhole DEF CacheTypes, Whole
    <2> QED
      BY <1>0, <2>1, <2>2, <2>3, <2>4, <2>5 DEF CacheTypes, devvars
  <1>2. Local(p)
    BY <1>0 DEF Local, CacheTypes
  <1>3. Control'
    <2>1. /\ \/ pc'[p] \in {"copy", "fill"} /\ bh'[p] = b /\ first'[p] # NULL
             \/ /\ pc'[p] = "ahead" /\ bh'[p] # NULL /\ first'[p] # NULL
                /\ cand'[p] = b /\ ahead'[p] # <<>>
          /\ want'[p] # NULL
      <3>1. /\ first'[p] = first[p] /\ want'[p] = k /\ ahead'[p] = ahead[p]
            /\ k # NULL /\ b # NULL
        BY <1>0, <1>a, CacheConstants, NullIsNoBuffer
      <3>2. bh \in [Frames -> Bufs \cup {NULL}] /\ cand \in [Frames -> Bufs \cup {NULL}]
            /\ pc \in [Frames -> Labels]
        BY DEF CacheTypes
      <3>3. CASE bh[p] = NULL
        <4>1. bh'[p] = b /\ pc'[p] \in {"copy", "fill"}
          BY <1>0, <3>2, <3>3
        <4> QED BY <1>a, <3>1, <3>3, <4>1
      <3>4. CASE bh[p] # NULL
        <4>1. bh' = bh /\ cand'[p] = b /\ pc'[p] = "ahead"
          BY <1>0, <3>2, <3>4
        <4> QED BY <1>a, <3>1, <3>4, <4>1
      <3> QED BY <3>3, <3>4
    <2>2. ControlOf(p)'
      BY <1>a, <2>1, NullIsNoBuffer DEF ControlOf, InLL, At, InSync, InGetblk, CountedCand
    <2> QED
      BY <1>2, <2>2, LocalControl
  <1>4. Makers'
    <2>1. pc[p] # "ll_slot" /\ pc'[p] # "ll_slot"
      BY <1>0, <1>a DEF CacheTypes
    <2>2. \A c \in Bufs : locked[c] => dirt'[c] = dirt[c] /\ uptodate'[c] = uptodate[c]
      BY <1>0, <1>a DEF CacheTypes
    <2> QED
      BY <1>0, <1>2, <2>1, <2>2, MakersKept DEF devvars
  <1>5. InUse'
    BY <1>0, <1>a DEF CacheTypes, InUse
  <1>6. Whole'
    <2> \A c \in Bufs : \E i \in DOMAIN ToEnd(free_list, b) : ToEnd(free_list, b)[i] = c
      BY <1>a, ToEndWhole DEF CacheTypes, Whole
    <2> QED
      BY <1>0 DEF Whole
  <1>7. UniqueBlock'
    <2> \A c \in Bufs : blk'[c] = IF c = b THEN k ELSE blk[c]
      BY <1>0, <1>a DEF CacheTypes
    <2> QED
      BY <1>a DEF UniqueBlock
  <1>8. \A q \in Frames : bh[q] # b /\ (CountedCand(q) => cand[q] # b)
    BY <1>a, OwnedIsCounted
  <1>9. Filled'
    <2>1. io[b] = "none"
      BY <1>a DEF Makers
    <2>2. ASSUME NEW c \in Bufs, uptodate'[c] \/ dirt'[c] \/ io'[c] \in {"WRITE", "done"}
          PROVE  data'[c] \in Nat
      BY <1>0, <1>a, <2>1, <2>2 DEF CacheTypes, Filled, devvars
    <2>3. ASSUME NEW q \in Frames, Copying(q)'
          PROVE  data'[bh'[q]] \in Nat
      <3>1. q # p
        BY <1>0, <1>a, <2>3 DEF Copying, CacheTypes
      <3>2. Copying(q) /\ bh'[q] = bh[q]
        BY <1>2, <2>3, <3>1 DEF Local, Copying
      <3>3. bh[q] \in Bufs /\ bh[q] # b
        BY <1>8, <3>2 DEF Control, ControlOf, At, InLL, Copying, CacheTypes
      <3> QED
        BY <1>0, <3>2, <3>3 DEF Filled, CacheTypes
    <2> QED
      BY <2>2, <2>3 DEF Filled
  <1>10. Counted'
    <2>1. \A c \in Bufs : count[c] \in Nat /\ count'[c] = IF c = b THEN 1 ELSE count[c]
      BY <1>0, <1>a DEF CacheTypes
    <2>2. \/ bh[p] = NULL /\ bh'[p] = b /\ ~CountedCand(p)'
          \/ bh'[p] = bh[p] /\ bh[p] # b /\ cand'[p] = b /\ CountedCand(p)'
      BY <1>0, <1>a, <1>8, SMTT(30) DEF CacheTypes, CountedCand
    <2>3. \A c \in Bufs : count'[c] = count[c] - Own(p, c) + Own(p, c)'
      BY <1>a, <2>1, <2>2, NullIsNoBuffer DEF Own
    <2> QED
      BY <1>2, <2>3, CountsKept
  <1>11. HeldKeepsBlock'
    <2>1. /\ bh'[p] # NULL => blk'[bh'[p]] = first'[p]
          /\ CountedCand(p)' /\ cand'[p] # NULL => blk'[cand'[p]] = want'[p]
      BY <1>0, <1>a, <1>8, NullIsNoBuffer, SMTT(30) DEF CacheTypes, HeldKeepsBlock, CountedCand
    <2>2. ASSUME NEW q \in Frames, q # p
          PROVE  /\ bh'[q] # NULL => blk'[bh'[q]] = first'[q]
                 /\ CountedCand(q)' /\ cand'[q] # NULL => blk'[cand'[q]] = want'[q]
      <3>1. /\ bh'[q] = bh[q] /\ cand'[q] = cand[q] /\ first'[q] = first[q] /\ want'[q] = want[q]
            /\ CountedCand(q)' <=> CountedCand(q)
        BY <1>2, <2>2 DEF Local, CountedCand
      <3>2. \A c \in Bufs : c # b => blk'[c] = blk[c]
        BY <1>0 DEF CacheTypes
      <3>3. bh[q] \in Bufs \cup {NULL} /\ cand[q] \in Bufs \cup {NULL}
        BY DEF CacheTypes
      <3> QED
        BY <1>8, <3>1, <3>2, <3>3 DEF HeldKeepsBlock
    <2> QED
      BY <2>1, <2>2 DEF HeldKeepsBlock
  <1> QED
    BY <1>1, <1>3, <1>4, <1>5, <1>6, <1>7, <1>9, <1>10, <1>11 DEF IInv

\* A copy into or out of p's buffer, and b_dirt = 1.
LEMMA CopyKeeps ==
    ASSUME IInv, NEW p \in Frames, Copy(p) \/ CopyEnd(p)
    PROVE  IInv'
  <1> /\ CacheTypes /\ ControlOf(p) /\ Control /\ Makers /\ InUse /\ Whole /\ Filled /\ Counted
      /\ HeldKeepsBlock /\ UniqueBlock
    BY DEF IInv, Control
  <1> DEFINE b == bh[p]
             n == latest[first[p]] + 1
             Mark == dirt' = [dirt EXCEPT ![b] = TRUE] /\ data' = data /\ latest' = latest /\ Copying(p)
             Put == /\ data' = [data EXCEPT ![b] = n] /\ latest' = [latest EXCEPT ![first[p]] = n]
                    /\ dirt' = dirt \/ dirt' = [dirt EXCEPT ![b] = TRUE]
             Get == dirt' = dirt /\ data' = data /\ latest' = latest /\ Copying(p)
  <1>a. /\ pc[p] \in {"copy", "store", "dirty"} /\ b \in Bufs /\ first[p] \in Blocks
        /\ blk[b] = first[p] /\ n \in Nat /\ ~CountedCand(p)
    <2>1. pc[p] \in {"copy", "store", "dirty"}
      BY DEF Copy, CopyEnd, Running
    <2>2. b \in Bufs /\ first[p] \in Blocks /\ latest[first[p]] \in Nat
      BY <2>1 DEF CacheTypes, ControlOf, At, InLL
    <2>3. blk[b] = first[p]
      BY <2>2, NullIsNoBuffer DEF HeldKeepsBlock
    <2>4. ~CountedCand(p)
      BY <2>1 DEF CountedCand
    <2> QED
      BY <2>1, <2>2, <2>3, <2>4
  <1>0. /\ \E l \in {"store", "dirty", "brelse"} : pc' = [pc EXCEPT ![p] = l]
        /\ cpu' \in {p, NULL}
        /\ Mark \/ Put \/ Get
        /\ UNCHANGED <<blk, count, uptodate, locked, free_list, devvars, op, first, bh, want>>
        /\ UNCHANGED <<cand, ahead, sync, ll, budget, buffer_wait>>
    BY DEF Copy, CopyEnd, Store, Running, Goto, Yield, GotoWait, Copying
  <1>2. Local(p)
    BY <1>0 DEF Local, CacheTypes
  <1> HIDE DEF b, n, Mark, Put, Get
  <1>1. CacheTypes'
    <2>1. pc' \in [Frames -> Labels]
      BY <1>0 DEF CacheTypes, Labels
    <2>2. data' \in [Bufs -> Int]
      BY <1>0, <1>a DEF Mark, Put, Get, CacheTypes
    <2>3. latest' \in [Blocks -> Nat]
      BY <1>0, <1>a DEF Mark, Put, Get, CacheTypes
    <2>4. dirt' \in [Bufs -> BOOLEAN]
      BY <1>0, <1>a DEF Mark, Put, Get, CacheTypes
    <2> QED
      BY <1>0, <2>1, <2>2, <2>3, <2>4 DEF CacheTypes, devvars
  <1>3. Control'
    <2> ControlOf(p)'
      BY <1>0, <1>a DEF CacheTypes, ControlOf, InLL, At, InSync, InGetblk, CountedCand
    <2> QED
      BY <1>2, LocalControl
  <1>4. Makers'
    <2>1. pc[p] # "ll_slot" /\ pc'[p] # "ll_slot"
      BY <1>0, <1>a DEF CacheTypes
    <2>2. \A c \in Bufs : dirt[c] => dirt'[c]
      BY <1>0, <1>a DEF Mark, Put, Get, CacheTypes
    <2> QED
      BY <1>0, <1>2, <2>1, <2>2, MakersKept DEF devvars
  <1>5. InUse' /\ Whole' /\ UniqueBlock'
    <2>1. InUse'
      <3> blk[b] # NULL
        BY <1>a, CacheConstants
      <3> \A c \in Bufs : dirt'[c] => dirt[c] \/ c = b
        BY <1>0, <1>a DEF Mark, Put, Get, CacheTypes
      <3> QED
        BY <1>0 DEF InUse
    <2> QED
      BY <1>0, <2>1 DEF Whole, UniqueBlock
  <1>6. Filled'
    <2>1. data'[b] \in Nat
      BY <1>0, <1>a DEF Mark, Put, Get, CacheTypes, Filled, b
    <2>2. \A c \in Bufs : c # b => dirt'[c] = dirt[c] /\ data'[c] = data[c]
      BY <1>0, <1>a DEF Mark, Put, Get, CacheTypes
    <2>3. ASSUME NEW q \in Frames, Copying(q)'
          PROVE  data'[bh'[q]] \in Nat
      <3>1. CASE q = p
        BY <1>0, <2>1, <3>1 DEF b
      <3>2. CASE q # p
        <4>1. Copying(q) /\ bh'[q] = bh[q]
          BY <1>2, <2>3, <3>2 DEF Local, Copying
        <4>2. bh[q] \in Bufs
          BY <4>1 DEF Control, ControlOf, At, InLL, Copying, CacheTypes
        <4> QED
          BY <2>1, <2>2, <4>1, <4>2 DEF Filled
      <3> QED
        BY <3>1, <3>2
    <2> QED
      BY <1>0, <2>1, <2>2, <2>3 DEF Filled, devvars
  <1>7. ~CountedCand(p)'
    BY <1>0, <1>a DEF CountedCand, CacheTypes
  <1>8. Counted'
    <2> \A c \in Bufs : count'[c] = count[c] - Own(p, c) + Own(p, c)'
      BY <1>0, <1>a, <1>7 DEF CacheTypes, Own
    <2> QED
      BY <1>2, CountsKept
  <1>9. HeldKeepsBlock'
    BY <1>0, <1>2, <1>7, HeldKept DEF HeldKeepsBlock
  <1> QED
    BY <1>1, <1>3, <1>4, <1>5, <1>6, <1>8, <1>9 DEF IInv

-----------------------------------------------------------------------------
\* The interrupts change no variable of a process: what depends only on those,
\* on the references and on the free list stays.
LEMMA DeviceStep ==
    ASSUME IInv, UNCHANGED <<blk, count, free_list, procvars>>
    PROVE  Control' /\ Whole' /\ Counted' /\ HeldKeepsBlock' /\ UniqueBlock'
  <1> /\ Control /\ Whole /\ Counted /\ HeldKeepsBlock /\ UniqueBlock
    BY DEF IInv
  <1>1. Control'
    <2> SUFFICES ASSUME NEW p \in Frames PROVE ControlOf(p)'
      BY DEF Control
    <2> ControlOf(p)
      BY DEF Control
    <2> QED
      BY DEF procvars, ControlOf, InLL, At, InSync, InGetblk, CountedCand
  <1>2. Counted'
    <2> \A b \in Bufs : References(b)' = References(b)
      BY DEF procvars, References, CountedCand
    <2> QED
      BY DEF Counted
  <1>3. HeldKeepsBlock'
    BY DEF procvars, HeldKeepsBlock, CountedCand
  <1> QED
    BY <1>1, <1>2, <1>3 DEF Whole, UniqueBlock

\* The device moves the data of a request.
LEMMA TransferKeeps ==
    ASSUME IInv, NEW b \in Bufs, Transfer(b)
    PROVE  IInv'
  <1> CacheTypes /\ Control /\ Makers /\ InUse /\ Filled
    BY DEF IInv
  <1>a. /\ io[b] \in {"READ", "WRITE"} /\ io' = [io EXCEPT ![b] = "done"]
        /\ UNCHANGED <<blk, count, dirt, uptodate, locked, free_list, errors, procvars, latest>>
    BY DEF Transfer
  <1>b. locked[b] /\ blk[b] \in Blocks
    BY <1>a DEF Makers, InUse, CacheTypes
  <1>c. \/ io[b] = "READ" /\ data' = [data EXCEPT ![b] = disk[blk[b]]] /\ disk' = disk
        \/ io[b] = "WRITE" /\ disk' = [disk EXCEPT ![blk[b]] = data[b]] /\ data' = data
    BY <1>a DEF Transfer
  <1>d. io[b] = "WRITE" => data[b] \in Nat
    BY DEF Filled
  <1>1. CacheTypes'
    <2>1. io' \in [Bufs -> {"none", "READ", "WRITE", "done"}]
      BY <1>a DEF CacheTypes
    <2>2. disk' \in [Blocks -> Nat] /\ data' \in [Bufs -> Int]
      BY <1>b, <1>c, <1>d DEF CacheTypes
    <2> QED
      BY <1>a, <2>1, <2>2 DEF CacheTypes, procvars
  <1>2. Makers'
    <2>1. \A p \in Frames, c \in Bufs : Makes(p, c)' <=> Makes(p, c)
      BY <1>a DEF Makes, procvars
    <2>2. \A c \in Bufs : io'[c] # "none" <=> io[c] # "none"
      BY <1>a DEF CacheTypes
    <2>3. \A c \in Bufs : io[c] \in {"none", "READ", "WRITE", "done"}
      BY DEF CacheTypes
    <2> QED
      BY <1>a, <2>1, <2>2 DEF Makers, procvars
  <1>3. InUse'
    BY <1>a DEF InUse
  <1>4. Filled'
    <2>1. data'[b] \in Nat /\ \A c \in Bufs : c # b => data'[c] = data[c] /\ io'[c] = io[c]
      BY <1>a, <1>b, <1>c, <1>d DEF CacheTypes
    <2>2. \A p \in Frames : Copying(p)' => Copying(p) /\ bh'[p] = bh[p] /\ bh[p] \in Bufs
      BY <1>a, ZenonT(60) DEF Copying, procvars, Control, ControlOf, At, InLL, CacheTypes
    <2> QED
      BY <1>a, <2>1, <2>2 DEF Filled
  <1> QED
    BY <1>a, <1>1, <1>2, <1>3, <1>4, DeviceStep DEF IInv

\* end_request.
LEMMA EndRequestKeeps ==
    ASSUME IInv, NEW b \in Bufs, EndRequest(b)
    PROVE  IInv'
  <1> CacheTypes /\ Control /\ Makers /\ InUse /\ Filled
    BY DEF IInv
  <1>a. /\ io[b] # "none" /\ io' = [io EXCEPT ![b] = "none"]
        /\ locked' = [locked EXCEPT ![b] = FALSE]
        /\ UNCHANGED <<blk, count, dirt, data, free_list, disk, procvars, latest>>
    BY DEF EndRequest
  <1>b. \/ io[b] = "done" /\ uptodate' = [uptodate EXCEPT ![b] = TRUE] /\ errors' = errors
        \/ errors > 0 /\ errors' = errors - 1 /\ uptodate' = [uptodate EXCEPT ![b] = FALSE]
    BY DEF EndRequest
  <1>1. CacheTypes'
    <2>1. io' \in [Bufs -> {"none", "READ", "WRITE", "done"}]
      BY <1>a DEF CacheTypes
    <2>2. locked' \in [Bufs -> BOOLEAN] /\ uptodate' \in [Bufs -> BOOLEAN]
      BY <1>a, <1>b DEF CacheTypes
    <2>3. errors' \in 0 .. MaxErrors
      BY <1>b, CacheConstants DEF CacheTypes
    <2> QED
      BY <1>a, <2>1, <2>2, <2>3 DEF CacheTypes, procvars
  <1>2. Makers'
    <2>1. \A p \in Frames, c \in Bufs : Makes(p, c)' <=> Makes(p, c)
      BY <1>a DEF Makes, procvars
    <2>2. \A p \in Frames : ~Makes(p, b)
      BY <1>a DEF Makers
    <2>3. \A c \in Bufs : c # b => io'[c] = io[c] /\ locked'[c] = locked[c] /\ uptodate'[c] = uptodate[c]
      BY <1>a, <1>b DEF CacheTypes
    <2>4. io'[b] = "none" /\ ~locked'[b]
      BY <1>a DEF CacheTypes
    <2>5. UNCHANGED <<dirt, ll>>
      BY <1>a DEF procvars
    <2> QED
      BY <2>1, <2>2, <2>3, <2>4, <2>5 DEF Makers
  <1>3. InUse'
    BY <1>a DEF InUse, CacheTypes
  <1>4. Filled'
    <2>1. \A p \in Frames : Copying(p)' => Copying(p) /\ bh'[p] = bh[p]
      BY <1>a DEF Copying, procvars
    <2>2. ASSUME NEW c \in Bufs, uptodate'[c] \/ dirt'[c] \/ io'[c] \in {"WRITE", "done"}
          PROVE  data'[c] \in Nat
      BY <1>a, <1>b, <2>2 DEF CacheTypes, Filled
    <2> QED
      BY <1>a, <2>1, <2>2 DEF Filled
  <1> QED
    BY <1>a, <1>1, <1>2, <1>3, <1>4, DeviceStep DEF IInv

-----------------------------------------------------------------------------
\* Every step of the buffer cache keeps the inductive invariant.
LEMMA NextKeeps ==
    ASSUME IInv, [Next]_vars
    PROVE  IInv'
  <1>1. ASSUME NEW p \in Frames, Run(p) PROVE IInv'
    BY <1>1, GetblkFoundKeeps, HashWaitKeeps, GetblkScanKeeps, GetblkSleepKeeps, GetblkAwakeKeeps,
       VictimRetryKeeps, VictimClaimKeeps, LLLockKeeps, LLAddKeeps, SyncLoopKeeps, SyncWaitKeeps,
       FillKeeps, NextAheadKeeps, AheadKeeps, AheadDoneKeeps, WaitKeeps, CopyKeeps, BrelseKeeps,
       BreadFailedKeeps, SyncInodesKeeps, LockInodeKeeps, WriteInodeKeeps
       DEF Run, RunCache, Getblk
  <1>2. ASSUME NEW p \in Frames, Call(p) PROVE IInv'
    BY <1>2, StartKeeps, WriteInodeKeeps, ChmodKeeps DEF Call
  <1>3. ASSUME NEW b \in Bufs, Transfer(b) \/ EndRequest(b) PROVE IInv'
    BY <1>3, TransferKeeps, EndRequestKeeps
  <1>4. CASE UNCHANGED vars
    <2>1. /\ UNCHANGED <<blk, count, free_list, procvars>>
          /\ UNCHANGED <<bufvars, devvars, procvars, latest>>
      BY <1>4 DEF vars, bufvars
    <2>2. Control' /\ Whole' /\ Counted' /\ HeldKeepsBlock' /\ UniqueBlock'
      BY <2>1, DeviceStep
    <2>3. CacheTypes'
      BY <2>1 DEF IInv, CacheTypes, bufvars, devvars, procvars
    <2>4. Makers' /\ InUse'
      BY <2>1 DEF IInv, Makers, Makes, InUse, bufvars, devvars, procvars
    <2>5. Filled'
      BY <2>1 DEF IInv, Filled, Copying, bufvars, devvars, procvars
    <2> QED
      BY <2>2, <2>3, <2>4, <2>5 DEF IInv
  <1> QED
    BY <1>1, <1>2, <1>3, <1>4 DEF Next

\* The inductive invariant holds in the initial state.
LEMMA InitKeeps ==
    ASSUME Init
    PROVE  IInv
  <1> USE DEF Init
  <1>1. CacheTypes
    <2>1. NoSync \in SyncLoops /\ NoLL \in LLCalls
      BY CacheConstants DEF NoSync, NoLL, SyncLoops, LLCalls, Labels
    <2>2. free_list \in Seq(Bufs)
      BY CacheConstants DEF Bufs
    <2> QED
      BY <2>1, <2>2, CacheConstants DEF CacheTypes, Labels
  <1>2. Control
    BY DEF Control, ControlOf, InLL, At, InSync, InGetblk, CountedCand
  <1>3. Makers /\ InUse /\ UniqueBlock /\ HeldKeepsBlock
    BY DEF Makers, Makes, InUse, UniqueBlock, HeldKeepsBlock, CountedCand
  <1>4. Whole
    BY DEF Whole
  <1>5. Filled
    BY DEF Filled, Copying
  <1>6. Counted
    <2> SUFFICES ASSUME NEW b \in Bufs PROVE count[b] = Cardinality(References(b))
      BY DEF Counted
    <2> References(b) = {}
      BY NullIsNoBuffer DEF References, CountedCand
    <2> QED
      BY FS_EmptySet
  <1> QED
    BY <1>1, <1>2, <1>3, <1>4, <1>5, <1>6 DEF IInv

\* The inductive invariant is an invariant of the buffer cache.
THEOREM Invariant == Spec => []IInv
  <1>1. Init => IInv
    BY InitKeeps
  <1>2. IInv /\ [Next]_vars => IInv'
    BY NextKeeps
  <1> QED
    BY <1>1, <1>2, PTL DEF Spec

\* The inodes are of their types.
LEMMA InodesTyped ==
    ASSUME InodeTypes, [Next]_vars
    PROVE  InodeTypes'
  <1> USE DEF InodeTypes
  <1>1. CASE UNCHANGED inodevars
    BY <1>1 DEF inodevars
  <1>2. ASSUME NEW p \in Frames, Copy(p) PROVE InodeTypes'
    BY <1>2 DEF Copy
  <1>3. ASSUME NEW p \in Frames, Brelse(p) PROVE InodeTypes'
    BY <1>3 DEF Brelse
  <1>4. ASSUME NEW p \in Frames, LockInode(p) PROVE InodeTypes'
    BY <1>4 DEF LockInode
  <1>5. ASSUME NEW p \in Frames, NEW i \in Inodes, WriteInode(p, i) PROVE InodeTypes'
    BY <1>5 DEF WriteInode
  <1>6. ASSUME NEW p \in Frames, NEW i \in Inodes, Chmod(p, i) PROVE InodeTypes'
    BY <1>6 DEF Chmod
  <1>7. ASSUME NEW p \in Frames, BreadFailed(p) \/ SyncInodes(p) \/ InnerReturn(p)
        PROVE  UNCHANGED inodevars
    BY <1>7 DEF BreadFailed, SyncInodes, InnerReturn
  <1>8. ASSUME NEW p \in Frames, NEW o \in Ops, NEW k \in Blocks, Start(p, o, k)
        PROVE  UNCHANGED inodevars
    BY <1>8 DEF Start
  <1>9. ASSUME NEW b \in Bufs, Transfer(b) \/ EndRequest(b) PROVE UNCHANGED inodevars
    BY <1>9 DEF Transfer, EndRequest
  <1>10. ASSUME NEW p \in Frames, Run(p) \/ Call(p) PROVE InodeTypes'
    BY <1>1, <1>2, <1>3, <1>4, <1>5, <1>6, <1>7, <1>8, <1>10, Zenon DEF Run, Call
  <1>11. CASE UNCHANGED vars
    BY <1>1, <1>11 DEF vars
  <1> QED
    BY <1>1, <1>9, <1>10, <1>11, Zenon DEF Next

\* No block is in two buffers: getblk's second search, after every sleep, is
\* what this rests on.
THEOREM BlocksAreUnique == Spec => []UniqueBlock
  <1>1. IInv => UniqueBlock
    BY DEF IInv
  <1> QED
    BY <1>1, Invariant, PTL

\* b_count is exact on every path through getblk, bread, breada and brelse, so
\* brelse's "Trying to free free buffer" is never reached.
THEOREM CountsAreExact == Spec => []CountExact
  <1>1. IInv /\ InodeTypes => CountExact
    BY DEF IInv, Counted, CountExact, TypeOK
  <1>2. Init => InodeTypes
    BY CacheConstants DEF Init, InodeTypes
  <1>3. InodeTypes /\ [Next]_vars => InodeTypes'
    BY InodesTyped
  <1> QED
    BY <1>1, <1>2, <1>3, Invariant, PTL DEF Spec

\* A buffer in use stays the buffer of its block while its user sleeps.
THEOREM HeldBuffersStay == Spec => []HeldKeepsBlock
  <1>1. IInv => HeldKeepsBlock
    BY DEF IInv
  <1> QED
    BY <1>1, Invariant, PTL

\* A locked buffer has one owner, a request or the process that makes it, and
\* belongs to a block.
THEOREM LocksHaveOneOwner == Spec => []LockHasOneOwner
  <1>1. ASSUME IInv PROVE LockHasOneOwner
    <2> SUFFICES ASSUME NEW b \in Bufs
                 PROVE  LET makers == {p \in Frames : pc[p] = "ll_slot" /\ ll[p].tgt = b}
                        IN  /\ locked[b] <=> (io[b] # "none" \/ makers # {})
                            /\ Cardinality(makers) + (IF io[b] # "none" THEN 1 ELSE 0) <= 1
                            /\ locked[b] => blk[b] # NULL
      BY DEF LockHasOneOwner
    <2> DEFINE makers == {p \in Frames : pc[p] = "ll_slot" /\ ll[p].tgt = b}
    <2> Makers /\ InUse
      BY <1>1 DEF IInv
    <2>1. /\ locked[b] <=> io[b] # "none" \/ \E p \in Frames : Makes(p, b)
          /\ \A p, q \in Frames : Makes(p, b) /\ Makes(q, b) => p = q
          /\ \A p \in Frames : Makes(p, b) => io[b] = "none"
      BY DEF Makers
    <2>2. \A p : p \in makers <=> p \in Frames /\ Makes(p, b)
      BY DEF Makes
    <2> HIDE DEF makers
    <2>3. CASE makers = {}
      <3> Cardinality(makers) = 0
        BY <2>3, FS_EmptySet
      <3> QED
        BY <2>1, <2>2, <2>3 DEF InUse, makers
    <2>4. CASE makers # {}
      <3> PICK p : p \in makers
        BY <2>4
      <3> makers = {p}
        BY <2>1, <2>2
      <3> Cardinality(makers) = 1 /\ io[b] = "none"
        BY <2>1, <2>2, FS_Singleton
      <3> QED
        BY <2>1, <2>2, <2>4 DEF InUse, makers
    <2> QED
      BY <2>3, <2>4
  <1> QED
    BY <1>1, Invariant, PTL

-----------------------------------------------------------------------------
(***************************************************************************)
(* The contents.  A failed write clears b_dirt and is not repeated,        *)
(* file_write marks the buffer dirty before it copies, and                 *)
(* block_write_full's buffer can be read by others before it is filled:    *)
(* each of them loses a write or shows an old version.  Without them       *)
(* nothing is lost.                                                        *)
(***************************************************************************)
Reliable == MaxErrors = 0 /\ Ops \cap {"file_write", "block_write_full"} = {}

\* A buffer that was read holds the last version of its block, which is on
\* disk or will be; one that was not is clean.
Dirtying(b) == \E p \in Frames : bh[p] = b /\ pc[p] = "dirty"
Fresh(b) ==
    /\ uptodate[b] /\ data[b] = latest[blk[b]] /\ io[b] # "READ"
    /\ disk[blk[b]] # latest[blk[b]] => dirt[b] \/ io[b] = "WRITE" \/ Dirtying(b)
Unread(b) ==
    /\ ~uptodate[b] /\ ~dirt[b] /\ io[b] # "WRITE" /\ disk[blk[b]] = latest[blk[b]]
    /\ io[b] = "done" => data[b] = latest[blk[b]]

UsesOf(p) ==
    /\ pc[p] # "idle" => op[p] \in Ops \cup {"write_inode"}
    /\ pc[p] # "store"
    /\ pc[p] \in {"copy", "dirty"} => uptodate[bh[p]]
Contents ==
    /\ errors = 0
    /\ \A p \in Frames : UsesOf(p)
    /\ \A b \in Bufs : blk[b] # NULL => Fresh(b) \/ Unread(b)
    /\ \A k \in Blocks : (\A b \in Bufs : blk[b] # k) => disk[k] = latest[k]

\* A process's step changes its own variables only.
LEMMA StepIsLocal ==
    ASSUME CacheTypes, NEW p \in Frames, RunCache(p) \/ Run(p) \/ Call(p)
    PROVE  Local(p)
  <1> USE DEF CacheTypes, Local, Goto, Yield, GotoWait, GotoInode
  <1>1. CASE GetblkFound(p)
    BY <1>1 DEF GetblkFound
  <1>2. CASE HashWait(p)
    BY <1>2 DEF HashWait, Got
  <1>3. CASE GetblkScan(p)
    BY <1>3 DEF GetblkScan
  <1>4. CASE GetblkSleep(p) \/ GetblkAwake(p)
    BY <1>4 DEF GetblkSleep, GetblkAwake
  <1>5. CASE VictimRetry(p)
    BY <1>5 DEF VictimRetry
  <1>6. CASE VictimClaim(p)
    BY <1>6 DEF VictimClaim, Claim, Got
  <1>7. CASE LLLock(p) \/ LLAdd(p) \/ LLForget(p)
    BY <1>7 DEF LLLock, LLAdd, LLForget
  <1>8. CASE SyncLoop(p)
    BY <1>8 DEF SyncLoop, Finish
  <1>9. CASE SyncWait(p)
    BY <1>9 DEF SyncWait, CallLL
  <1>10. CASE Fill(p)
    BY <1>10 DEF Fill, CallLL
  <1>11. CASE NextAhead(p) \/ AheadDone(p) \/ Wait(p)
    BY <1>11 DEF NextAhead, AheadDone, Wait
  <1>12. CASE Ahead(p)
    BY <1>12 DEF Ahead, CallLL
  <1>13. CASE Copy(p) \/ CopyEnd(p)
    BY <1>13 DEF Copy, CopyEnd
  <1>14. CASE Brelse(p)
    BY <1>14 DEF Brelse, Finish
  <1>15. CASE \E o \in Ops, k \in Blocks : Start(p, o, k)
    BY <1>15 DEF Start
  <1>16. CASE BreadFailed(p) \/ SyncInodes(p) \/ InnerReturn(p)
    BY <1>16 DEF BreadFailed, SyncInodes, InnerReturn
  <1>17. CASE LockInode(p)
    BY <1>17 DEF LockInode, Finish
  <1>18. CASE \E i \in Inodes : WriteInode(p, i) \/ Chmod(p, i)
    BY <1>18 DEF WriteInode, Chmod
  <1> QED
    BY <1>1, <1>2, <1>3, <1>4, <1>5, <1>6, <1>7, <1>8, <1>9, <1>10, <1>11, <1>12, <1>13, <1>14,
       <1>15, <1>16, <1>17, <1>18, Zenon DEF Run, RunCache, Call, Getblk

\* The contents stay sound in a step of p that changes none of them.
LEMMA ContentsKept ==
    ASSUME Contents, NEW p \in Frames, Local(p),
           UNCHANGED <<blk, dirt, uptodate, data, disk, io, latest, errors>>,
           pc[p] # "dirty", UsesOf(p)'
    PROVE  Contents'
  <1>1. ASSUME NEW q \in Frames PROVE UsesOf(q)'
    BY DEF Contents, UsesOf, Local
  <1>2. \A b \in Bufs : Dirtying(b) => Dirtying(b)'
    BY DEF Dirtying, Local
  <1>3. ASSUME NEW b \in Bufs, blk[b] # NULL PROVE Fresh(b)' \/ Unread(b)'
    BY <1>2, <1>3 DEF Contents, Fresh, Unread
  <1> QED
    BY <1>1, <1>3 DEF Contents

\* The steps of a process that neither claim a buffer nor write one.
LEMMA ReadersKeepContents ==
    ASSUME Reliable, IInv, Contents, NEW p \in Frames,
           \/ GetblkFound(p) \/ HashWait(p) \/ GetblkScan(p) \/ GetblkSleep(p) \/ GetblkAwake(p)
           \/ VictimRetry(p) \/ LLLock(p) \/ LLForget(p) \/ SyncLoop(p) \/ SyncWait(p) \/ Fill(p)
           \/ NextAhead(p) \/ Ahead(p) \/ AheadDone(p) \/ Wait(p) \/ Brelse(p)
           \/ BreadFailed(p) \/ SyncInodes(p) \/ InnerReturn(p) \/ LockInode(p) \/ Call(p)
           \/ \E i \in Inodes : WriteInode(p, i),
           Run(p) \/ Call(p)
    PROVE  Contents'
  <1> CacheTypes /\ ControlOf(p) /\ UsesOf(p)
    BY DEF IInv, Control, Contents
  <1>1. Local(p)
    BY StepIsLocal
  <1>2. /\ UNCHANGED <<blk, dirt, uptodate, data, disk, io, latest, errors>>
        /\ pc[p] # "dirty"
        /\ UsesOf(p)'
    <2> USE DEF CacheTypes, Goto, Yield, GotoWait, GotoInode, Running, UsesOf, bufvars, devvars
    <2>1. CASE GetblkFound(p)
      BY <2>1 DEF GetblkFound
    <2>2. CASE HashWait(p)
      BY <2>2 DEF HashWait, Got, Reliable
    <2>3. CASE GetblkScan(p)
      BY <2>3 DEF GetblkScan
    <2>4. CASE GetblkSleep(p) \/ GetblkAwake(p)
      BY <2>4 DEF GetblkSleep, GetblkAwake
    <2>5. CASE VictimRetry(p)
      BY <2>5 DEF VictimRetry
    <2>6. CASE LLLock(p) \/ LLForget(p)
      BY <2>6 DEF LLLock, LLForget, ControlOf, InLL
    <2>7. CASE SyncLoop(p)
      <3>1. /\ UNCHANGED <<blk, dirt, uptodate, data, disk, io, latest, errors>>
            /\ pc[p] = "sync" /\ sync[p].ret \in {"idle", "victim"}
        BY <2>7 DEF SyncLoop, ControlOf, InSync, At, InLL
      <3>2. \/ pc'[p] = "idle"
            \/ pc'[p] \in {"sync", "sync_inodes", "sync_wait", "victim"} /\ op' = op
        BY <2>7, <3>1 DEF SyncLoop, Finish
      <3> QED
        BY <3>1, <3>2
    <2>8. CASE SyncWait(p)
      BY <2>8 DEF SyncWait, CallLL
    <2>9. CASE Fill(p)
      BY <2>9 DEF Fill, CallLL
    <2>10. CASE NextAhead(p) \/ AheadDone(p)
      BY <2>10 DEF NextAhead, AheadDone
    <2>11. CASE Ahead(p)
      BY <2>11 DEF Ahead, CallLL
    <2>12. CASE Wait(p)
      BY <2>12 DEF Wait
    <2>13. CASE Brelse(p)
      BY <2>13 DEF Brelse, Finish
    <2>14. CASE \E o \in Ops, k \in Blocks : Start(p, o, k)
      BY <2>14 DEF Start
    <2>15. CASE BreadFailed(p) \/ SyncInodes(p) \/ InnerReturn(p)
      BY <2>15 DEF BreadFailed, SyncInodes, InnerReturn
    <2>16. CASE LockInode(p)
      BY <2>16 DEF LockInode, Finish
    <2>17. CASE \E i \in Inodes : WriteInode(p, i) \/ Chmod(p, i)
      BY <2>17 DEF WriteInode, Chmod
    <2> QED
      BY <2>1, <2>2, <2>3, <2>4, <2>5, <2>6, <2>7, <2>8, <2>9, <2>10, <2>11, <2>12, <2>13, <2>14,
         <2>15, <2>16, <2>17, Zenon DEF Call
  <1> QED
    BY <1>1, <1>2, ContentsKept

\* add_request: a write takes over what b_dirt promised, a read finds the
\* buffer clean.
LEMMA LLAddKeepsContents ==
    ASSUME IInv, Contents, NEW p \in Frames, LLAdd(p)
    PROVE  Contents'
  <1> CacheTypes /\ ControlOf(p) /\ Makers /\ UsesOf(p)
    BY DEF IInv, Control, Contents
  <1> DEFINE b == ll[p].tgt
  <1>1. Local(p)
    BY StepIsLocal DEF RunCache, Run
  <1>2. /\ pc[p] = "ll_slot" /\ pc'[p] = ll[p].ret /\ op' = op /\ bh' = bh
        /\ io' = [io EXCEPT ![b] = ll[p].cmd] /\ dirt' = [dirt EXCEPT ![b] = FALSE]
        /\ UNCHANGED <<blk, uptodate, data, disk, latest, errors>>
    BY DEF LLAdd, Running, Goto, Yield, CacheTypes
  <1>3. /\ b \in Bufs /\ Makes(p, b) /\ ll[p].cmd \in {"READ", "WRITE"}
        /\ ll[p].ret \in {"sync", "wait", "next_ahead", "ahead_done"}
    BY <1>2 DEF CacheTypes, ControlOf, InLL, LLCalls, Makes
  <1>4. IF ll[p].cmd = "WRITE" THEN dirt[b] ELSE ~uptodate[b]
    BY <1>3 DEF Makers
  <1> HIDE DEF b
  <1>5. ASSUME NEW q \in Frames PROVE UsesOf(q)'
    BY <1>1, <1>2, <1>3 DEF Contents, UsesOf, Local
  <1>6. \A c \in Bufs : Dirtying(c) => Dirtying(c)'
    BY <1>1, <1>2 DEF Dirtying, Local
  <1>7. ASSUME NEW c \in Bufs, blk[c] # NULL PROVE Fresh(c)' \/ Unread(c)'
    <2>1. CASE c # b
      BY <1>2, <1>6, <1>7, <2>1 DEF Contents, Fresh, Unread, CacheTypes
    <2>2. CASE c = b
      BY <1>2, <1>3, <1>4, <1>7, <2>2 DEF Contents, Fresh, Unread, CacheTypes
    <2> QED
      BY <2>1, <2>2
  <1> QED
    BY <1>2, <1>5, <1>7 DEF Contents

\* getblk throws away only a buffer whose block is on disk.
LEMMA ClaimKeepsContents ==
    ASSUME Reliable, IInv, Contents, NEW p \in Frames, VictimClaim(p)
    PROVE  Contents'
  <1> CacheTypes /\ ControlOf(p) /\ Control /\ Makers /\ UsesOf(p) /\ Counted /\ UniqueBlock
    BY DEF IInv, Control, Contents
  <1> DEFINE b == cand[p]
             k == want[p]
  <1>1. Local(p)
    BY StepIsLocal DEF RunCache, Getblk
  <1>2. /\ pc[p] = "victim" /\ pc'[p] \in {"fill", "ahead"} /\ op' = op
        /\ blk' = [blk EXCEPT ![b] = k] /\ data' = [data EXCEPT ![b] = -1]
        /\ dirt' = [dirt EXCEPT ![b] = FALSE] /\ uptodate' = [uptodate EXCEPT ![b] = FALSE]
        /\ UNCHANGED <<io, disk, latest, errors>>
    BY DEF VictimClaim, Running, Claim, ResetBuffer, Got, Goto, Yield, devvars, UsesOf, Reliable,
           CacheTypes
  <1>3. /\ b \in Bufs /\ k \in Blocks /\ ~locked[b] /\ count[b] = 0 /\ ~dirt[b]
        /\ \A c \in Bufs : blk[c] # k
    BY <1>2 DEF VictimClaim, Running, CacheTypes, ControlOf, At, InLL, InGetblk, Holding
  <1> HIDE DEF b, k
  <1>4. \A q \in Frames : bh[q] # b
    BY <1>3, OwnedIsCounted
  <1>5. io[b] = "none" /\ ~Dirtying(b)
    BY <1>3, <1>4 DEF Makers, Dirtying
  <1>6. ASSUME NEW q \in Frames PROVE UsesOf(q)'
    <2>1. CASE q = p
      BY <1>2, <2>1 DEF UsesOf
    <2>2. CASE q # p
      <3>1. pc'[q] = pc[q] /\ op'[q] = op[q] /\ bh'[q] = bh[q] /\ UsesOf(q)
        BY <1>1, <2>2 DEF Local, Contents
      <3>2. pc[q] \in {"copy", "dirty"} => bh[q] \in Bufs
        BY DEF Control, ControlOf, At, InLL, CacheTypes
      <3> QED
        BY <1>2, <1>4, <3>1, <3>2 DEF UsesOf, CacheTypes
    <2> QED
      BY <2>1, <2>2
  <1>7. disk[k] = latest[k]
    BY <1>3 DEF Contents
  <1>8. blk[b] # NULL => disk[blk[b]] = latest[blk[b]]
    BY <1>3, <1>5 DEF Contents, Fresh, Unread
  <1>9. \A c \in Bufs : Dirtying(c) => Dirtying(c)'
    <2> pc[p] # "dirty"
      BY <1>2
    <2> QED
      BY <1>1 DEF Dirtying, Local
  <1>10. ASSUME NEW c \in Bufs, blk'[c] # NULL PROVE Fresh(c)' \/ Unread(c)'
    <2>1. CASE c = b
      <3> ~uptodate'[c] /\ ~dirt'[c] /\ io'[c] = "none" /\ blk'[c] = k
        BY <1>2, <1>3, <1>5, <2>1 DEF CacheTypes
      <3> QED
        BY <1>2, <1>7 DEF Unread
    <2>2. CASE c # b
      <3> /\ uptodate'[c] = uptodate[c] /\ dirt'[c] = dirt[c] /\ blk'[c] = blk[c]
          /\ data'[c] = data[c]
        BY <1>2, <2>2 DEF CacheTypes
      <3> QED
        BY <1>2, <1>9, <1>10 DEF Contents, Fresh, Unread
    <2> QED
      BY <2>1, <2>2
  <1>11. ASSUME NEW l \in Blocks, \A c \in Bufs : blk'[c] # l PROVE disk[l] = latest[l]
    <2>1. \A c \in Bufs : c # b => blk[c] # l
      BY <1>2, <1>11 DEF CacheTypes
    <2>2. CASE blk[b] = l
      BY <1>8, <2>2, CacheConstants
    <2>3. CASE blk[b] # l
      BY <2>1, <2>3 DEF Contents
    <2> QED
      BY <2>2, <2>3
  <1> QED
    BY <1>2, <1>6, <1>10, <1>11 DEF Contents

\* block_read, block_write and write_inode copy; block_write marks the buffer
\* dirty after.
LEMMA CopyKeepsContents ==
    ASSUME Reliable, IInv, Contents, NEW p \in Frames, Copy(p) \/ CopyEnd(p)
    PROVE  Contents'
  <1> CacheTypes /\ ControlOf(p) /\ UsesOf(p) /\ HeldKeepsBlock /\ UniqueBlock
    BY DEF IInv, Control, Contents
  <1> DEFINE b == bh[p]
             n == latest[first[p]] + 1
             Put == /\ pc[p] = "copy" /\ pc'[p] = "dirty" /\ dirt' = dirt
                    /\ data' = [data EXCEPT ![b] = n] /\ latest' = [latest EXCEPT ![first[p]] = n]
             Mark == /\ pc[p] = "dirty" /\ pc'[p] = "brelse"
                     /\ dirt' = [dirt EXCEPT ![b] = TRUE] /\ data' = data /\ latest' = latest
             Save == /\ pc[p] = "copy" /\ pc'[p] = "brelse" /\ dirt' = [dirt EXCEPT ![b] = TRUE]
                     /\ data' = [data EXCEPT ![b] = n] /\ latest' = [latest EXCEPT ![first[p]] = n]
             Get == /\ pc[p] = "copy" /\ pc'[p] = "brelse"
                    /\ dirt' = dirt /\ data' = data /\ latest' = latest
  <1>1. Local(p)
    BY StepIsLocal DEF RunCache, Run
  <1>2. /\ Put \/ Mark \/ Save \/ Get
        /\ UNCHANGED <<blk, uptodate, io, disk, errors, op, bh>>
    BY DEF Copy, CopyEnd, Store, Running, Goto, Yield, GotoWait, devvars, UsesOf, Reliable, CacheTypes
  <1>3. /\ b \in Bufs /\ first[p] \in Blocks /\ blk[b] = first[p] /\ blk[b] # NULL
        /\ n \in Nat /\ uptodate[b]
        /\ op[p] \in Ops \cup {"write_inode"}
    <2> pc[p] \in {"copy", "dirty"}
      BY <1>2
    <2> QED
      BY CacheConstants, SMTT(30) DEF CacheTypes, ControlOf, At, InLL, HeldKeepsBlock, UsesOf
  <1>4. Fresh(b)
    BY <1>3 DEF Contents, Unread
  <1>5. \A c \in Bufs : blk[c] = blk[b] => c = b
    BY <1>3 DEF UniqueBlock
  <1> HIDE DEF b, n, Put, Mark, Save, Get
  <1>6. ASSUME NEW q \in Frames PROVE UsesOf(q)'
    <2>1. CASE q = p
      BY <1>2, <1>3, <2>1 DEF UsesOf, Put, Mark, Save, Get, b
    <2>2. CASE q # p
      BY <1>1, <1>2, <2>2 DEF Local, Contents, UsesOf
    <2> QED
      BY <2>1, <2>2
  <1>7. ASSUME NEW c \in Bufs, blk[c] # NULL PROVE Fresh(c)' \/ Unread(c)'
    <2>1. CASE c # b
      <3>1. /\ dirt'[c] = dirt[c] /\ data'[c] = data[c] /\ latest'[blk[c]] = latest[blk[c]]
        BY <1>2, <1>3, <1>5, <1>7, <2>1 DEF Put, Mark, Save, Get, CacheTypes
      <3>2. Dirtying(c) => Dirtying(c)'
        BY <1>1, <1>2, <2>1 DEF Dirtying, Local, b
      <3> QED
        BY <1>2, <1>7, <3>1, <3>2 DEF Contents, Fresh, Unread
    <2>2. CASE c = b
      <3>1. CASE Put
        <4>1. data'[b] = latest'[blk[b]]
          BY <1>3, <3>1 DEF Put, CacheTypes
        <4>2. \E q \in Frames : bh'[q] = b /\ pc'[q] = "dirty"
          BY <1>2, <3>1 DEF Put, b
        <4>3. Dirtying(c)'
          BY <2>2, <4>2 DEF Dirtying
        <4> QED
          BY <1>2, <1>4, <2>2, <4>1, <4>3 DEF Fresh
      <3>2. CASE Mark
        <4> dirt'[b]
          BY <1>3, <3>2 DEF Mark, CacheTypes
        <4> QED
          BY <1>2, <1>4, <2>2, <3>2 DEF Fresh, Mark
      <3>4. CASE Save
        <4>1. data'[b] = latest'[blk[b]] /\ dirt'[b]
          BY <1>3, <3>4 DEF Save, CacheTypes
        <4> QED
          BY <1>2, <1>4, <2>2, <4>1 DEF Fresh
      <3>3. CASE Get
        <4> Dirtying(c) => Dirtying(c)'
          BY <1>1, <1>2, <3>3 DEF Dirtying, Local, Get
        <4> QED
          BY <1>2, <1>4, <2>2, <3>3 DEF Fresh, Get
      <3> QED
        BY <1>2, <3>1, <3>2, <3>3, <3>4
    <2> QED
      BY <2>1, <2>2
  <1>8. ASSUME NEW l \in Blocks, \A c \in Bufs : blk[c] # l PROVE disk[l] = latest'[l]
    <2> l # first[p]
      BY <1>3, <1>8
    <2> latest'[l] = latest[l]
      BY <1>2, <1>3 DEF Put, Mark, Save, Get, CacheTypes
    <2> QED
      BY <1>8 DEF Contents
  <1> QED
    BY <1>2, <1>6, <1>7, <1>8 DEF Contents

\* The devices: a read brings the last version, a write puts it on disk.
LEMMA DevicesKeepContents ==
    ASSUME Reliable, IInv, Contents, NEW b \in Bufs, Transfer(b) \/ EndRequest(b)
    PROVE  Contents'
  <1> CacheTypes /\ Makers /\ InUse /\ UniqueBlock
    BY DEF IInv
  <1>1. UNCHANGED <<blk, dirt, latest, procvars>>
    BY DEF Transfer, EndRequest
  <1>2. io[b] # "none" /\ blk[b] \in Blocks /\ blk[b] # NULL
    <2>1. io[b] # "none"
      BY DEF Transfer, EndRequest
    <2> QED
      BY <2>1, CacheConstants DEF Makers, InUse, CacheTypes
  <1>3. \A c \in Bufs : c # b => blk[c] # blk[b]
    BY <1>2 DEF UniqueBlock
  <1>4. \A c \in Bufs : Dirtying(c)' <=> Dirtying(c)
    BY <1>1 DEF Dirtying, procvars
  <1>5. \A c \in Bufs : /\ c # b => /\ io'[c] = io[c] /\ uptodate'[c] = uptodate[c]
                                    /\ data'[c] = data[c]
                        /\ c # b /\ blk[c] # NULL => disk'[blk[c]] = disk[blk[c]]
    <2>1. CASE Transfer(b)
      BY <1>2, <1>3, <2>1 DEF Transfer, CacheTypes
    <2>2. CASE EndRequest(b)
      BY <2>2 DEF EndRequest, CacheTypes
    <2> QED
      BY <2>1, <2>2
  <1>6. errors' = 0 /\ \A c \in Bufs : uptodate[c] => uptodate'[c]
    <2>1. CASE Transfer(b)
      BY <2>1 DEF Transfer, Contents
    <2>2. CASE EndRequest(b)
      <3> uptodate' = [uptodate EXCEPT ![b] = TRUE] /\ errors' = errors
        BY <2>2 DEF EndRequest, Contents
      <3> QED
        BY DEF Contents, CacheTypes
    <2> QED
      BY <2>1, <2>2
  <1>7. Fresh(b) \/ Unread(b)
    BY <1>2 DEF Contents
  <1>8. Fresh(b)' \/ Unread(b)'
    <2>1. CASE Transfer(b) /\ io[b] = "READ"
      BY <1>1, <1>2, <1>7, <2>1 DEF Transfer, Fresh, Unread, CacheTypes
    <2>2. CASE Transfer(b) /\ io[b] = "WRITE"
      BY <1>1, <1>2, <1>7, <2>2 DEF Transfer, Fresh, Unread, CacheTypes
    <2>3. CASE EndRequest(b)
      <3> /\ io[b] = "done" /\ uptodate'[b] /\ io'[b] = "none"
          /\ UNCHANGED <<data, disk>>
        BY <2>3 DEF EndRequest, Contents, CacheTypes
      <3> QED
        BY <1>1, <1>4, <1>7 DEF Fresh, Unread
    <2> QED
      BY <2>1, <2>2, <2>3 DEF Transfer
  <1>9. ASSUME NEW c \in Bufs, c # b, blk[c] # NULL PROVE Fresh(c)' \/ Unread(c)'
    BY <1>1, <1>4, <1>5, <1>9 DEF Contents, Fresh, Unread
  <1>10. ASSUME NEW p \in Frames PROVE UsesOf(p)'
    <2> pc[p] \in {"copy", "dirty"} => bh[p] \in Bufs
      BY DEF IInv, Control, ControlOf, At, InLL, CacheTypes
    <2> QED
      BY <1>1, <1>6 DEF Contents, UsesOf, procvars
  <1>11. ASSUME NEW l \in Blocks, \A c \in Bufs : blk[c] # l PROVE disk'[l] = latest[l]
    <2> l # blk[b]
      BY <1>11
    <2> disk'[l] = disk[l]
      BY <1>2 DEF Transfer, EndRequest, CacheTypes
    <2> QED
      BY <1>11 DEF Contents
  <1> QED
    BY <1>1, <1>6, <1>8, <1>9, <1>10, <1>11 DEF Contents

\* Every step keeps the contents sound.
LEMMA NextKeepsContents ==
    ASSUME Reliable, IInv, Contents, [Next]_vars
    PROVE  Contents'
  <1>1. ASSUME NEW p \in Frames, Run(p) PROVE Contents'
    BY <1>1, ReadersKeepContents, LLAddKeepsContents, ClaimKeepsContents, CopyKeepsContents
       DEF Run, RunCache, Getblk
  <1>2. ASSUME NEW p \in Frames, Call(p) PROVE Contents'
    BY <1>2, ReadersKeepContents
  <1>3. ASSUME NEW b \in Bufs, Transfer(b) \/ EndRequest(b) PROVE Contents'
    BY <1>3, DevicesKeepContents
  <1>4. CASE UNCHANGED vars
    BY <1>4 DEF vars, bufvars, devvars, procvars, Contents, UsesOf, Fresh, Unread, Dirtying
  <1> QED
    BY <1>1, <1>2, <1>3, <1>4 DEF Next

\* The contents are sound in every reachable state.
THEOREM ContentsAreSound ==
    ASSUME Reliable
    PROVE  Spec => []Contents
  <1>1. Init => Contents
    BY CacheConstants DEF Reliable, Init, Contents, UsesOf
  <1>2. IInv /\ Contents /\ [Next]_vars => Contents'
    BY NextKeepsContents
  <1> QED
    BY <1>1, <1>2, Invariant, PTL DEF Spec

\* Nothing that block_write has written is lost: the last version
\* of every block is on disk, or its buffer will still be written.
THEOREM NoWriteIsLost ==
    ASSUME Reliable
    PROVE  Spec => []NothingLost
  <1>1. ASSUME IInv, Contents PROVE NothingLost
    <2> SUFFICES ASSUME NEW k \in Blocks, disk[k] # latest[k]
                 PROVE  \E b \in Holding(k) : /\ data[b] = latest[k]
                                              /\ dirt[b] \/ io[b] = "WRITE" \/ count[b] > 0
      BY DEF NothingLost
    <2>1. PICK b \in Bufs : blk[b] = k
      BY <1>1 DEF Contents
    <2>2. blk[b] # NULL /\ b \in Holding(k)
      BY <2>1, CacheConstants DEF Holding
    <2>3. Fresh(b)
      BY <1>1, <2>1, <2>2 DEF Contents, Unread
    <2>4. Dirtying(b) => count[b] > 0
      BY <1>1, OwnedIsCounted DEF Dirtying, IInv
    <2> QED
      BY <2>1, <2>2, <2>3, <2>4 DEF Fresh
  <1> QED
    BY <1>1, Invariant, ContentsAreSound, PTL

\* What bread and breada return is the last version of the block.
THEOREM ReadsAreLatest ==
    ASSUME Reliable
    PROVE  Spec => []ReadsLatest
  <1>1. ASSUME IInv, Contents PROVE ReadsLatest
    <2> SUFFICES ASSUME NEW p \in Frames, pc[p] \in {"copy", "store", "dirty"}
                 PROVE  data[bh[p]] = latest[first[p]]
      BY DEF ReadsLatest
    <2>1. pc[p] \in {"copy", "dirty"} /\ uptodate[bh[p]]
      BY <1>1 DEF Contents, UsesOf
    <2>2. bh[p] \in Bufs /\ first[p] # NULL /\ blk[bh[p]] = first[p]
      <3> CacheTypes /\ ControlOf(p) /\ HeldKeepsBlock
        BY <1>1 DEF IInv, Control
      <3> QED
        BY <2>1 DEF ControlOf, At, InLL, CacheTypes, HeldKeepsBlock
    <2> QED
      BY <1>1, <2>1, <2>2 DEF Contents, Fresh, Unread
  <1> QED
    BY <1>1, Invariant, ContentsAreSound, PTL
=============================================================================

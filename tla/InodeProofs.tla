---------------------------- MODULE InodeProofs ----------------------------
(***************************************************************************)
(* What Inodes promises for any number of processes, inodes, table entries *)
(* and zones: as long as no two processes have met in one of the windows   *)
(* the code leaves, each inode is at most once in the table, what is in    *)
(* the table is allocated, no change of an inode is lost, i_count is the   *)
(* number of references, the zone bitmap is exact and nothing panics but   *)
(* get_empty_inode of a full table.                                        *)
(*                                                                         *)
(* The first half is about the table (Core), the second about the zones    *)
(* (Zoned, from the definition of File on).                                *)
(***************************************************************************)
EXTENDS Inodes, TLAPS, FiniteSetTheorems, WellFoundedInduction

Images == [nlinks : Nat, zone : [Ways -> Zones \cup {0}]]
Entries == [num : Nums \cup {0}, count : Int, dirt : BOOLEAN, lock : BOOLEAN, img : Images]
Calls == [pc : Labels, ret : Labels, want : Nums \cup {0}, cur : Slots \cup {NULL, NR_INODE + 1},
          hold : Slots \cup {NULL}, empty : Slots \cup {NULL}, way : Nat, chain : Seq(Zones),
          new : Zones \cup {0}, ops : Int]

Typed ==
    /\ inode \in [Slots -> Entries] /\ disk \in [Nums -> Images] /\ latest \in [Nums -> Images]
    /\ imap \subseteq Nums /\ zmap \subseteq Zones
    /\ entry \in [Zones -> Zones \cup {0}]
    /\ proc \in [Procs -> Calls]

\* iget or new_inode, before there is a reference to an inode.
Looking(r) ==
    \/ r.pc \in {"empty", "claim", "search", "found"}
    \/ r.pc \in {"write", "writing"} /\ r.ret = "claim"

\* The labels at which a process works on the inode it holds.
Using(r) ==
    \/ r.pc \in {"reading", "enter", "iput", "bmap", "new_block", "trunc", "descend", "free",
                 "free_inode"}
    \/ r.pc \in {"write", "writing"} /\ r.ret = "iput"

\* What each label relies on of the process's own variables.
Stage(r) ==
    /\ Looking(r) => r.hold = NULL
    /\ Using(r) => r.hold \in Slots
    /\ r.empty \in Slots <=> r.pc \in {"search", "found"}
    /\ r.pc \in {"write", "writing"} => r.ret \in {"claim", "iput", "sync"} /\ r.cur \in Slots
    /\ r.pc \in {"claim", "found"} => r.cur \in Slots
    /\ r.pc = "sync" => r.cur \in 1 .. NR_INODE + 1
    /\ r.pc = "found" => r.want # 0
    /\ r.want # 0 => Looking(r) \/ r.pc = "reading"
    /\ r.ret = "free_inode" => r.pc \in {"trunc", "descend", "free", "free_inode"}
    /\ r.pc = "free_inode" => r.ret = "free_inode"
    /\ r.pc \in {"bmap", "new_block", "descend", "free"} => r.way \in Ways
    /\ r.pc = "trunc" => r.way # 0
    /\ r.pc = "new_block" => r.new \in Zones
    /\ r.pc \in {"descend", "free"} => r.chain # <<>>

Staged == \A p \in Procs : Stage(proc[p])

\* i_count is the number of references.
Users(s) == {p \in Procs : proc[p].hold = s \/ proc[p].empty = s}
Counted == \A s \in Slots : inode[s].count = Cardinality(Users(s))

\* A reference is to an inode; an empty slot is nobody else's.
Held == \A p \in Procs : proc[p].hold \in Slots => inode[proc[p].hold].num # 0
Emptied ==
    \A p \in Procs : proc[p].empty \in Slots =>
        /\ inode[proc[p].empty].num = 0
        /\ ~inode[proc[p].empty].dirt /\ ~inode[proc[p].empty].lock
        /\ \A q \in Procs \ {p} : proc[q].empty # proc[p].empty

\* An inode is in the table once, and only if it is allocated.
Table ==
    /\ \A s, t \in Slots : inode[s].num = inode[t].num /\ inode[s].num # 0 => s = t
    /\ \A s \in Slots : inode[s].num # 0 => inode[s].num \in imap

\* The slot that p has locked.
LockOf(r) == IF r.pc = "writing" THEN r.cur ELSE IF r.pc = "reading" THEN r.hold ELSE NULL
Locked ==
    \A p \in Procs : LockOf(proc[p]) # NULL =>
        /\ inode[LockOf(proc[p])].lock /\ inode[LockOf(proc[p])].num # 0
        /\ \A q \in Procs \ {p} : LockOf(proc[q]) # LockOf(proc[p])

\* Who reads an inode has the only reference to it.
Alone ==
    \A p \in Procs : proc[p].pc = "reading" =>
        /\ ~inode[proc[p].hold].dirt
        /\ \A q \in Procs \ {p} : proc[q].hold # proc[p].hold

\* The process is in truncate.
Cutting(r) == r.pc \in {"trunc", "descend", "free"}

\* The table has inodes as they were last changed, but for those being read;
\* so has the disk, but for dirty ones and those being truncated.
Fresh ==
    \A s \in Slots :
        inode[s].num # 0 /\ (\A p \in Procs : ~(proc[p].pc = "reading" /\ proc[p].hold = s))
            => inode[s].img = latest[inode[s].num]
Kept ==
    \A n \in imap : (\A s \in Slots : inode[s].num = n => ~inode[s].dirt)
                      => disk[n] = latest[n] \/ Truncating(n)

\* Names and iget are for allocated inodes, with links.
Wanted ==
    /\ \A p \in Procs : proc[p].want # 0 => proc[p].want \in imap
    /\ names \subseteq imap
    /\ \A n \in names : latest[n].nlinks # 0

\* Nobody looks for an inode that is being freed, and nobody will.
Freeing ==
    \A p \in Procs : proc[p].ret = "free_inode" =>
        /\ inode[proc[p].hold].num \notin names
        /\ \A q \in Procs \ {p} : proc[q].want # inode[proc[p].hold].num

\* new_inode's caller goes on without a sleep, with an inode nobody else has.
Entering ==
    \A p \in Procs : proc[p].pc = "enter" =>
        /\ cpu = p
        /\ inode[proc[p].hold].num \notin names
        /\ latest[inode[proc[p].hold].num].nlinks # 0
        /\ \A q \in Procs \ {p} : proc[q].hold # proc[p].hold

Core ==
    /\ Typed /\ Staged /\ Counted /\ Held /\ Emptied /\ Table
    /\ Locked /\ Alone /\ Fresh /\ Kept /\ Wanted /\ Freeing /\ Entering

IInv == raced \/ Core
-----------------------------------------------------------------------------
\* A set of naturals that has an element has a least one.
LEMMA LeastNatural ==
    ASSUME NEW T \in SUBSET Nat, T # {}
    PROVE  \E x \in T : \A y \in T : x <= y
  <1>1. \E x \in T : \A y \in T : ~(<<y, x>> \in OpToRel(<, Nat))
    BY NatLessThanWellFounded, WFMin
  <1>2. PICK x \in T : \A y \in T : ~(<<y, x>> \in OpToRel(<, Nat))
    BY <1>1
  <1>3. ASSUME NEW y \in T, ~(x <= y) PROVE FALSE
    <2>1. x \in Nat /\ y \in Nat /\ y < x
      BY <1>3
    <2>2. <<y, x>> \in OpToRel(<, Nat)
      BY <2>1 DEF OpToRel
    <2> QED BY <2>2, <1>2
  <1> QED BY <1>3

\* The first of a set is in it.
LEMMA MinIn ==
    ASSUME NEW T \in SUBSET Nat, T # {}
    PROVE  Min(T) \in T
  BY LeastNatural DEF Min

\* The constants.
LEMMA Constants ==
    /\ NR_INODE \in Nat /\ NR_INODE >= 1
    /\ Nums \subseteq Nat /\ 0 \notin Nums /\ Nums # {} /\ Zones \subseteq Nat /\ 0 \notin Zones
    /\ Depth \in Seq(1 .. 3) /\ MaxOps \in Int /\ IsFiniteSet(Procs)
    /\ NULL \notin Procs /\ NULL \notin Slots
  BY InodeConstants

\* The fields of a call.
LEMMA CallFields ==
    ASSUME NEW r \in Calls
    PROVE  /\ r.pc \in Labels /\ r.ret \in Labels /\ r.want \in Nums \cup {0}
           /\ r.cur \in Slots \cup {NULL, NR_INODE + 1}
           /\ r.hold \in Slots \cup {NULL} /\ r.empty \in Slots \cup {NULL}
           /\ r.way \in Nat /\ r.chain \in Seq(Zones) /\ r.new \in Zones \cup {0} /\ r.ops \in Int
  BY DEF Calls

\* The fields of an entry of the table.
LEMMA EntryFields ==
    ASSUME NEW e \in Entries
    PROVE  /\ e.num \in Nums \cup {0} /\ e.count \in Int /\ e.dirt \in BOOLEAN /\ e.lock \in BOOLEAN
           /\ e.img \in Images
  BY DEF Entries

\* A step of a process outside truncate leaves the truncates of others alone.
LEMMA StillCut ==
    ASSUME Core, NEW p \in Procs, ~Cutting(proc[p]),
           \A q \in Procs : q # p => proc'[q] = proc[q],
           \A q \in Procs : q # p /\ proc[q].hold \in Slots =>
                                inode'[proc[q].hold].num = inode[proc[q].hold].num
    PROVE  \A m : Truncating(m) => Truncating(m)'
  <1> SUFFICES ASSUME NEW m, NEW q \in Procs, proc[q].hold # NULL, inode[proc[q].hold].num = m,
                      proc[q].pc \in {"trunc", "descend", "free"}
               PROVE  Truncating(m)'
    BY DEF Truncating
  <1>1. q # p /\ proc'[q] = proc[q]
    BY DEF Cutting
  <1>2. proc[q].hold \in Slots
    BY DEF Core, Staged, Stage, Using
  <1> QED BY <1>1, <1>2 DEF Truncating

\* A step of a process that changes nothing but where it is.
LEMMA Moves ==
    ASSUME Core, NEW p \in Procs, NEW r \in Calls, cpu \in {NULL, p},
           proc' = [proc EXCEPT ![p] = r], UNCHANGED <<inode, disk, imap, names, latest>>,
           zmap' \subseteq Zones, entry' \in [Zones -> Zones \cup {0}],
           Stage(r), r.hold = proc[p].hold, r.empty = proc[p].empty,
           r.pc \notin {"reading", "writing", "enter"},
           proc[p].pc \notin {"reading", "writing"},
           proc[p].pc \in {"trunc", "descend", "free"} => r.pc \in {"trunc", "descend", "free"},
           r.want = 0 \/ r.want = proc[p].want \/ r.want \in names,
           r.ret = "free_inode" =>
               \/ proc[p].ret = "free_inode"
               \/ /\ inode[r.hold].num \notin names
                  /\ \A q \in Procs \ {p} : proc[q].want # inode[r.hold].num
    PROVE  Core'
  <1>0. Typed /\ Staged /\ Counted /\ Held /\ Emptied /\ Table /\ Locked /\ Alone /\ Fresh
        /\ Kept /\ Wanted /\ Freeing /\ Entering
    BY DEF Core
  <1>1. proc \in [Procs -> Calls]
    BY <1>0 DEF Typed
  <1>2. proc'[p] = r /\ \A q \in Procs : q # p => proc'[q] = proc[q]
    BY <1>1
  <1>3. /\ \A q \in Procs : proc'[q].hold = proc[q].hold /\ proc'[q].empty = proc[q].empty
        /\ \A q \in Procs : proc'[q].pc = "reading" <=> proc[q].pc = "reading"
        /\ LockOf(r) = NULL /\ LockOf(proc[p]) = NULL
    BY <1>2 DEF LockOf
  <1>4. Typed'
    BY <1>0, <1>1 DEF Typed
  <1>5. Staged'
    BY <1>0, <1>2 DEF Staged
  <1>6. Counted'
    <2>1. \A s \in Slots : Users(s)' = Users(s)
      BY <1>3 DEF Users
    <2> QED BY <1>0, <2>1 DEF Counted
  <1>7. Held' /\ Emptied'
    BY <1>0, <1>3 DEF Held, Emptied
  <1>8. Table'
    BY <1>0 DEF Table
  <1>9. Locked'
    BY <1>0, <1>2, <1>3 DEF Locked
  <1>10. Alone'
    BY <1>0, <1>3 DEF Alone
  <1>11. Fresh'
    BY <1>0, <1>3 DEF Fresh
  <1>12. Kept'
    <2>1. \A m : Truncating(m) => Truncating(m)'
      BY <1>2, <1>3 DEF Truncating
    <2> QED BY <1>0, <2>1 DEF Kept
  <1>13. Wanted'
    BY <1>0, <1>2 DEF Wanted
  <1>14. Freeing'
    <2> SUFFICES ASSUME NEW q \in Procs, proc'[q].ret = "free_inode"
                 PROVE  /\ inode[proc[q].hold].num \notin names
                        /\ \A u \in Procs \ {q} : proc'[u].want # inode[proc[q].hold].num
      BY <1>3 DEF Freeing
    <2>1. CASE q = p
      BY <1>0, <1>2, <1>3, <2>1 DEF Freeing
    <2>2. CASE q # p
      <3>1. proc[q].ret = "free_inode"
        BY <1>2, <2>2
      <3>2. proc[q].hold \in Slots /\ inode[proc[q].hold].num # 0
        BY <1>0, <3>1 DEF Staged, Stage, Using, Held
      <3> QED BY <1>0, <1>2, <2>2, <3>1, <3>2 DEF Freeing
    <2> QED BY <2>1, <2>2
  <1>15. Entering'
    <2> SUFFICES ASSUME NEW q \in Procs, proc'[q].pc = "enter" PROVE FALSE
      BY DEF Entering
    <2>1. q # p /\ proc[q].pc = "enter"
      BY <1>2
    <2>2. cpu = q
      BY <1>0, <2>1 DEF Entering
    <2> QED BY <2>1, <2>2, Constants
  <1> QED BY <1>4, <1>5, <1>6, <1>7, <1>8, <1>9, <1>10, <1>11, <1>12, <1>13, <1>14, <1>15 DEF Core

\* A step that changes nothing at all.
LEMMA Stays ==
    ASSUME Core, UNCHANGED <<inode, disk, imap, zmap, entry, names, proc, cpu, latest>>
    PROVE  Core'
  BY DEF Core, Typed, Staged, Counted, Users, Held, Emptied, Table, Locked, Alone, Fresh, Kept,
     Truncating, Wanted, Freeing, Entering

\* The process that runs, at its label.
LEMMA Here ==
    ASSUME Core, NEW p \in Procs, NEW l, At(p, l)
    PROVE  /\ proc[p] \in Calls /\ proc[p].pc = l /\ Stage(proc[p]) /\ cpu \in {NULL, p}
           /\ l \notin {"search", "found"} => proc[p].empty = NULL
           /\ zmap \subseteq Zones /\ entry \in [Zones -> Zones \cup {0}]
           /\ inode \in [Slots -> Entries]
  <1>1. proc[p] \in Calls /\ zmap \subseteq Zones /\ entry \in [Zones -> Zones \cup {0}]
        /\ inode \in [Slots -> Entries]
    BY DEF Core, Typed
  <1>2. proc[p].pc = l /\ cpu \in {NULL, p}
    BY DEF At
  <1>3. Stage(proc[p])
    BY DEF Core, Staged
  <1>4. l \notin {"search", "found"} => proc[p].empty = NULL
    BY <1>1, <1>2, <1>3, CallFields DEF Stage
  <1> QED BY <1>1, <1>2, <1>3, <1>4

\* The state of a process after a call.
LEMMA Back ==
    ASSUME NEW s \in Slots \cup {NULL}, NEW n \in Int
    PROVE  LET r == [Idle EXCEPT !.hold = s, !.ops = n] IN
           /\ r \in Calls /\ r.pc = "idle" /\ r.ret = "idle" /\ r.want = 0
           /\ r.hold = s /\ r.empty = NULL /\ Stage(r)
  <1> DEFINE r == [Idle EXCEPT !.hold = s, !.ops = n]
  <1>1. /\ Idle.pc = "idle" /\ Idle.ret = "idle" /\ Idle.want = 0 /\ Idle.empty = NULL
        /\ Idle.chain = <<>> /\ Idle \in Calls
    <2>1. /\ 0 \in Nat /\ <<>> \in Seq(Zones) /\ MaxOps \in Int
      BY Constants
    <2> QED BY <2>1 DEF Idle, Calls, Labels
  <1>2. /\ r \in Calls /\ r.pc = Idle.pc /\ r.ret = Idle.ret /\ r.want = Idle.want
        /\ r.hold = s /\ r.empty = Idle.empty
    BY <1>1 DEF Calls
  <1> HIDE DEF r
  <1>3. Stage(r)
    BY <1>1, <1>2, Constants DEF Stage, Looking, Using
  <1> QED BY <1>1, <1>2, <1>3 DEF r

\* A call returns with the reference the process had.
LEMMA ReturnMoves ==
    ASSUME Core, NEW p \in Procs, cpu \in {NULL, p},
           proc[p].pc \notin {"search", "found", "reading", "writing", "trunc", "descend", "free"},
           Returns(p, proc[p].hold),
           UNCHANGED <<inode, disk, imap, names, latest>>,
           zmap' \subseteq Zones, entry' \in [Zones -> Zones \cup {0}]
    PROVE  Core'
  <1>1. proc[p] \in Calls /\ Stage(proc[p])
    BY DEF Core, Typed, Staged
  <1>2. proc[p].hold \in Slots \cup {NULL} /\ proc[p].ops \in Int /\ proc[p].empty = NULL
    BY <1>1, CallFields DEF Stage
  <1> DEFINE r == [Idle EXCEPT !.hold = proc[p].hold, !.ops = proc[p].ops]
  <1>3. /\ r \in Calls /\ r.pc = "idle" /\ r.ret = "idle" /\ r.want = 0
        /\ r.hold = proc[p].hold /\ r.empty = NULL /\ Stage(r)
    BY <1>2, Back
  <1>4. proc' = [proc EXCEPT ![p] = r]
    BY DEF Returns, Sleeps
  <1> HIDE DEF r
  <1> QED BY <1>2, <1>3, <1>4, Moves
-----------------------------------------------------------------------------
\* get_empty_inode, iget and new_inode as long as they have no slot.
LEMMA LookMoves ==
    ASSUME Core, NEW p \in Procs,
           \/ GetEmptyInode(p)
           \/ Claim(p) /\ (inode[proc[p].cur].dirt \/ inode[proc[p].cur].count > 0)
           \/ Found(p) /\ inode[proc[p].cur].num # proc[p].want
           \/ /\ Search(p) /\ Cached(proc[p].want) # {}
              /\ inode[Min(Cached(proc[p].want))].lock
    PROVE  Core'
  <1>1. CASE GetEmptyInode(p)
    <2>0. /\ proc[p] \in Calls /\ proc[p].pc = "empty" /\ Stage(proc[p]) /\ cpu \in {NULL, p}
          /\ proc[p].empty = NULL /\ zmap \subseteq Zones /\ entry \in [Zones -> Zones \cup {0}]
      BY <1>1, Here DEF GetEmptyInode
    <2>1. UNCHANGED <<inode, disk, imap, zmap, entry, names, latest, raced>>
      BY <1>1 DEF GetEmptyInode
    <2>2. CASE UNCHANGED <<proc, cpu>>
      BY <2>1, <2>2, Stays
    <2>3. CASE \E s \in Slots : proc' = [proc EXCEPT ![p] = [proc[p] EXCEPT !.pc = "claim", !.cur = s]]
      <3>1. PICK s \in Slots : proc' = [proc EXCEPT ![p] = [proc[p] EXCEPT !.pc = "claim", !.cur = s]]
        BY <2>3
      <3> DEFINE r == [proc[p] EXCEPT !.pc = "claim", !.cur = s]
      <3>2. r \in Calls /\ r.pc = "claim" /\ r.cur = s /\ r.hold = proc[p].hold
            /\ r.empty = proc[p].empty /\ r.want = proc[p].want /\ r.ret = proc[p].ret
        BY <2>0, ZenonT(60) DEF Calls, Labels
      <3>3. Stage(r)
        BY <2>0, <3>2 DEF Stage, Looking, Using
      <3> HIDE DEF r
      <3>4. proc' = [proc EXCEPT ![p] = r]
        BY <3>1 DEF r
      <3> QED BY <2>0, <2>1, <3>2, <3>3, <3>4, Moves
    <2> QED BY <1>1, <2>2, <2>3 DEF GetEmptyInode, Waits
  <1>2. CASE Claim(p) /\ (inode[proc[p].cur].dirt \/ inode[proc[p].cur].count > 0)
    <2>0. /\ proc[p] \in Calls /\ proc[p].pc = "claim" /\ Stage(proc[p]) /\ cpu \in {NULL, p}
          /\ proc[p].empty = NULL /\ zmap \subseteq Zones /\ entry \in [Zones -> Zones \cup {0}]
      BY <1>2, Here DEF Claim
    <2>1. UNCHANGED <<inode, disk, imap, zmap, entry, names, latest>>
      BY <1>2 DEF Claim
    <2>2. CASE proc' = [proc EXCEPT ![p] = [proc[p] EXCEPT !.pc = "write", !.ret = "claim"]]
      <3> DEFINE r == [proc[p] EXCEPT !.pc = "write", !.ret = "claim"]
      <3>2. r \in Calls /\ r.pc = "write" /\ r.cur = proc[p].cur /\ r.hold = proc[p].hold
            /\ r.empty = proc[p].empty /\ r.want = proc[p].want /\ r.ret = "claim"
        BY <2>0, ZenonT(60) DEF Calls, Labels
      <3>3. Stage(r)
        BY <2>0, <3>2 DEF Stage, Looking, Using
      <3> HIDE DEF r
      <3>4. proc' = [proc EXCEPT ![p] = r]
        BY <2>2 DEF r
      <3> QED BY <2>0, <2>1, <3>2, <3>3, <3>4, Moves
    <2>3. CASE proc' = [proc EXCEPT ![p] = [proc[p] EXCEPT !.pc = "empty"]]
      <3> DEFINE r == [proc[p] EXCEPT !.pc = "empty"]
      <3>2. r \in Calls /\ r.pc = "empty" /\ r.hold = proc[p].hold
            /\ r.empty = proc[p].empty /\ r.want = proc[p].want /\ r.ret = proc[p].ret
        BY <2>0 DEF Calls, Labels
      <3>3. Stage(r)
        BY <2>0, <3>2 DEF Stage, Looking, Using
      <3> HIDE DEF r
      <3>4. proc' = [proc EXCEPT ![p] = r]
        BY <2>3 DEF r
      <3> QED BY <2>0, <2>1, <3>2, <3>3, <3>4, Moves
    <2> QED BY <1>2, <2>2, <2>3 DEF Claim, Runs
  <1>3. CASE Found(p) /\ inode[proc[p].cur].num # proc[p].want
    <2>0. /\ proc[p] \in Calls /\ proc[p].pc = "found" /\ Stage(proc[p]) /\ cpu \in {NULL, p}
          /\ zmap \subseteq Zones /\ entry \in [Zones -> Zones \cup {0}]
      BY <1>3, Here DEF Found
    <2>1. UNCHANGED <<inode, disk, imap, zmap, entry, names, latest>>
          /\ proc' = [proc EXCEPT ![p] = [proc[p] EXCEPT !.pc = "search"]]
      BY <1>3 DEF Found, Runs
    <2> DEFINE r == [proc[p] EXCEPT !.pc = "search"]
    <2>2. r \in Calls /\ r.pc = "search" /\ r.hold = proc[p].hold
          /\ r.empty = proc[p].empty /\ r.want = proc[p].want /\ r.ret = proc[p].ret
      BY <2>0 DEF Calls, Labels
    <2>3. Stage(r)
      BY <2>0, <2>2 DEF Stage, Looking, Using
    <2> HIDE DEF r
    <2>4. proc' = [proc EXCEPT ![p] = r]
      BY <2>1 DEF r
    <2> QED BY <2>0, <2>1, <2>2, <2>3, <2>4, Moves
  <1>4. CASE Search(p) /\ Cached(proc[p].want) # {} /\ inode[Min(Cached(proc[p].want))].lock
    <2>0. /\ proc[p] \in Calls /\ proc[p].pc = "search" /\ Stage(proc[p]) /\ cpu \in {NULL, p}
          /\ zmap \subseteq Zones /\ entry \in [Zones -> Zones \cup {0}]
      BY <1>4, Here DEF Search
    <2> DEFINE s == Min(Cached(proc[p].want))
    <2>1. UNCHANGED <<inode, disk, imap, zmap, entry, names, latest>> /\ proc[p].want # 0
          /\ proc' = [proc EXCEPT ![p] = [proc[p] EXCEPT !.pc = "found", !.cur = s]]
      BY <1>4 DEF Search, Sleeps
    <2>2. s \in Slots
      <3>1. Cached(proc[p].want) \in SUBSET Nat /\ Cached(proc[p].want) \subseteq Slots
        BY Constants DEF Cached, Slots
      <3> QED BY <1>4, <3>1, MinIn
    <2> HIDE DEF s
    <2> DEFINE r == [proc[p] EXCEPT !.pc = "found", !.cur = s]
    <2>3. r \in Calls /\ r.pc = "found" /\ r.hold = proc[p].hold /\ r.cur = s
          /\ r.empty = proc[p].empty /\ r.want = proc[p].want /\ r.ret = proc[p].ret
      BY <2>0, <2>2, ZenonT(60) DEF Calls, Labels
    <2>4. Stage(r)
      BY <2>0, <2>1, <2>2, <2>3 DEF Stage, Looking, Using
    <2> HIDE DEF r
    <2>5. proc' = [proc EXCEPT ![p] = r]
      BY <2>1 DEF r
    <2> QED BY <2>0, <2>1, <2>3, <2>4, <2>5, Moves
  <1> QED BY <1>1, <1>2, <1>3, <1>4

\* write_inode of a clean inode, sync_inodes, iput before the last reference
\* is given back.
LEMMA WriteMoves ==
    ASSUME Core, NEW p \in Procs,
           \/ WriteInode(p) /\ ~(inode[proc[p].cur].dirt /\ inode[proc[p].cur].num # 0)
           \/ SyncInodes(p)
           \/ /\ iput(p) /\ inode[proc[p].hold].count = 1 /\ inode[proc[p].hold].img.nlinks # 0
              /\ inode[proc[p].hold].dirt
    PROVE  Core'
  <1>1. CASE WriteInode(p) /\ ~(inode[proc[p].cur].dirt /\ inode[proc[p].cur].num # 0)
    <2>0. /\ proc[p] \in Calls /\ proc[p].pc = "write" /\ Stage(proc[p]) /\ cpu \in {NULL, p}
          /\ proc[p].empty = NULL /\ zmap \subseteq Zones /\ entry \in [Zones -> Zones \cup {0}]
          /\ inode \in [Slots -> Entries]
      BY <1>1, Here DEF WriteInode
    <2>1. UNCHANGED <<inode, disk, imap, zmap, entry, names, latest>>
          /\ proc' = [proc EXCEPT ![p] = [proc[p] EXCEPT !.pc = proc[p].ret]]
      BY <1>1 DEF WriteInode, Runs
    <2>2. proc[p].ret \in {"claim", "iput", "sync"} /\ proc[p].cur \in Slots
      BY <2>0 DEF Stage
    <2>3. proc[p].cur \in 1 .. NR_INODE + 1
      BY <2>2, Constants DEF Slots
    <2> DEFINE r == [proc[p] EXCEPT !.pc = proc[p].ret]
    <2>r1. /\ r \in Calls
          /\ r.pc = proc[p].ret /\ r.ret = proc[p].ret /\ r.cur = proc[p].cur /\ r.hold = proc[p].hold /\ r.empty = proc[p].empty /\ r.want = proc[p].want
      BY <2>0, <2>2 DEF Calls, Labels
    <2>r2. Stage(r)
      BY <2>0, <2>r1, <2>2, <2>3 DEF Stage, Looking, Using
    <2> HIDE DEF r
    <2>r3. proc' = [proc EXCEPT ![p] = r]
      BY <2>1 DEF r
    <2> QED BY <2>0, <2>1, <2>r1, <2>r2, <2>r3, Moves, <2>2
  <1>2. CASE SyncInodes(p)
    <2>0. /\ proc[p] \in Calls /\ proc[p].pc = "sync" /\ Stage(proc[p]) /\ cpu \in {NULL, p}
          /\ proc[p].empty = NULL /\ zmap \subseteq Zones /\ entry \in [Zones -> Zones \cup {0}]
          /\ inode \in [Slots -> Entries]
      BY <1>2, Here DEF SyncInodes
    <2>1. UNCHANGED <<inode, disk, imap, zmap, entry, names, latest>>
      BY <1>2 DEF SyncInodes
    <2>2. proc[p].cur \in 1 .. NR_INODE + 1 /\ NR_INODE \in Nat
      BY <2>0, Constants DEF Stage
    <2>3. CASE Returns(p, proc[p].hold)
      BY <2>0, <2>1, <2>3, ReturnMoves
    <2>4. CASE proc[p].cur <= NR_INODE /\ proc' = [proc EXCEPT ![p] = [proc[p] EXCEPT !.pc = "write", !.ret = "sync"]]
      <3>1. proc[p].cur \in Slots
        BY <2>2, <2>4 DEF Slots
      <3> DEFINE r == [proc[p] EXCEPT !.pc = "write", !.ret = "sync"]
      <3>r1. /\ r \in Calls
            /\ r.pc = "write" /\ r.ret = "sync" /\ r.cur = proc[p].cur /\ r.hold = proc[p].hold /\ r.empty = proc[p].empty /\ r.want = proc[p].want
        BY <2>0, ZenonT(60) DEF Calls, Labels
      <3>r2. Stage(r)
        BY <2>0, <3>r1, <3>1 DEF Stage, Looking, Using
      <3> HIDE DEF r
      <3>r3. proc' = [proc EXCEPT ![p] = r]
        BY <2>4 DEF r
      <3> QED BY <2>0, <2>1, <3>r1, <3>r2, <3>r3, Moves
    <2>5. CASE proc[p].cur <= NR_INODE /\ proc' = [proc EXCEPT ![p] = [proc[p] EXCEPT !.cur = proc[p].cur + 1]]
      <3>1. proc[p].cur + 1 \in 1 .. NR_INODE + 1 /\ proc[p].cur + 1 \in Slots \cup {NULL, NR_INODE + 1}
        BY <2>2, <2>5 DEF Slots
      <3> DEFINE r == [proc[p] EXCEPT !.cur = proc[p].cur + 1]
      <3>r1. /\ r \in Calls
            /\ r.pc = "sync" /\ r.ret = proc[p].ret /\ r.cur = proc[p].cur + 1 /\ r.hold = proc[p].hold /\ r.empty = proc[p].empty /\ r.want = proc[p].want
        BY <2>0, <3>1 DEF Calls, Labels
      <3>r2. Stage(r)
        BY <2>0, <3>r1, <3>1 DEF Stage, Looking, Using
      <3> HIDE DEF r
      <3>r3. proc' = [proc EXCEPT ![p] = r]
        BY <2>5 DEF r
      <3> QED BY <2>0, <2>1, <3>r1, <3>r2, <3>r3, Moves
    <2> QED BY <1>2, <2>2, <2>3, <2>4, <2>5 DEF SyncInodes, Runs, Waits
  <1>3. CASE /\ iput(p) /\ inode[proc[p].hold].count = 1 /\ inode[proc[p].hold].img.nlinks # 0
             /\ inode[proc[p].hold].dirt
    <2>0. /\ proc[p] \in Calls /\ proc[p].pc = "iput" /\ Stage(proc[p]) /\ cpu \in {NULL, p}
          /\ proc[p].empty = NULL /\ zmap \subseteq Zones /\ entry \in [Zones -> Zones \cup {0}]
          /\ inode \in [Slots -> Entries]
      BY <1>3, Here DEF iput
    <2>1. UNCHANGED <<inode, disk, imap, zmap, entry, names, latest>>
          /\ proc' = [proc EXCEPT ![p] = [proc[p] EXCEPT !.pc = "write", !.ret = "iput", !.cur = proc[p].hold]]
      BY <1>3 DEF iput, Runs
    <2>2. proc[p].hold \in Slots
      BY <2>0 DEF Stage, Using
    <2> DEFINE r == [proc[p] EXCEPT !.pc = "write", !.ret = "iput", !.cur = proc[p].hold]
    <2>r1. /\ r \in Calls
          /\ r.pc = "write" /\ r.ret = "iput" /\ r.cur = proc[p].hold /\ r.hold = proc[p].hold /\ r.empty = proc[p].empty /\ r.want = proc[p].want
      BY <2>0, <2>2, ZenonT(60) DEF Calls, Labels
    <2>r2. Stage(r)
      BY <2>0, <2>r1, <2>2 DEF Stage, Looking, Using
    <2> HIDE DEF r
    <2>r3. proc' = [proc EXCEPT ![p] = r]
      BY <2>1 DEF r
    <2> QED BY <2>0, <2>1, <2>r1, <2>r2, <2>r3, Moves
  <1> QED BY <1>1, <1>2, <1>3

\* The zone numbers in an inode are zones or 0.
LEMMA ZoneTypes ==
    ASSUME NEW e \in Entries, NEW k \in Ways
    PROVE  e.img.zone[k] \in Zones \cup {0}
  <1>1. e.img \in Images
    BY EntryFields
  <1> QED BY <1>1 DEF Images

\* The pointer _bmap looks at is a zone or 0.
LEMMA CellType ==
    ASSUME Core, NEW p \in Procs, proc[p].pc = "bmap"
    PROVE  Cell(p) \in Zones \cup {0}
  <1>1. /\ proc[p] \in Calls /\ Stage(proc[p]) /\ entry \in [Zones -> Zones \cup {0}]
        /\ inode \in [Slots -> Entries]
    BY DEF Core, Typed, Staged
  <1>2. proc[p].hold \in Slots /\ proc[p].way \in Ways /\ proc[p].chain \in Seq(Zones)
    BY <1>1, CallFields DEF Stage, Using
  <1> DEFINE c == proc[p].chain
  <1>3. CASE c = <<>>
    BY <1>1, <1>2, <1>3, ZoneTypes DEF Cell
  <1>4. CASE c # <<>>
    <2>1. Len(c) \in 1 .. Len(c) /\ c[Len(c)] \in Zones
      BY <1>2, <1>4
    <2> QED BY <1>1, <1>4, <2>1 DEF Cell
  <1> QED BY <1>3, <1>4

\* Going on along the way to a block.
LEMMA OnwardMoves ==
    ASSUME Core, NEW p \in Procs, cpu \in {NULL, p}, proc[p].pc \in {"bmap", "new_block"},
           NEW z \in Zones, Onward(p, z), UNCHANGED <<inode, disk, imap, names, latest>>,
           zmap' \subseteq Zones, entry' \in [Zones -> Zones \cup {0}]
    PROVE  Core'
  <1>1. CASE Returns(p, proc[p].hold)
    BY <1>1, ReturnMoves
  <1>2. CASE proc' = [proc EXCEPT ![p] = [proc[p] EXCEPT !.pc = "bmap", !.chain = Append(proc[p].chain, z), !.new = 0]]
    <2>0. proc[p] \in Calls /\ Stage(proc[p])
      BY DEF Core, Typed, Staged
    <2>1. Append(proc[p].chain, z) \in Seq(Zones)
      BY <2>0, CallFields
    <2>2. proc[p].empty = NULL
      BY <2>0, CallFields DEF Stage
    <2> DEFINE r == [proc[p] EXCEPT !.pc = "bmap", !.chain = Append(proc[p].chain, z), !.new = 0]
    <2>r1. /\ r \in Calls
          /\ r.pc = "bmap" /\ r.ret = proc[p].ret /\ r.way = proc[p].way /\ r.hold = proc[p].hold /\ r.empty = proc[p].empty /\ r.want = proc[p].want
      BY <2>0, <2>1, ZenonT(60) DEF Calls, Labels
    <2>r2. Stage(r)
      BY <2>0, <2>r1, <2>2 DEF Stage, Looking, Using
    <2> HIDE DEF r
    <2>r3. proc' = [proc EXCEPT ![p] = r]
      BY <1>2 DEF r
    <2> QED BY <2>0, <2>1, <2>r1, <2>r2, <2>r3, Moves
  <1> QED BY <1>1, <1>2 DEF Onward, Sleeps

\* _bmap, and new_block for an indirect block.
LEMMA BmapMoves ==
    ASSUME Core, NEW p \in Procs,
           Bmap(p) \/ (NewBlock(p) /\ proc[p].chain # <<>>)
    PROVE  Core'
  <1>1. CASE Bmap(p)
    <2>0. /\ proc[p] \in Calls /\ proc[p].pc = "bmap" /\ Stage(proc[p]) /\ cpu \in {NULL, p}
          /\ proc[p].empty = NULL /\ zmap \subseteq Zones /\ entry \in [Zones -> Zones \cup {0}]
          /\ inode \in [Slots -> Entries]
      BY <1>1, Here DEF Bmap
    <2>1. UNCHANGED <<inode, disk, imap, entry, names, latest>>
      BY <1>1 DEF Bmap
    <2>2. CASE Cell(p) # 0 /\ Onward(p, Cell(p)) /\ UNCHANGED zmap
      BY <2>0, <2>1, <2>2, CellType, OnwardMoves
    <2>3. CASE Returns(p, proc[p].hold) /\ UNCHANGED zmap
      BY <2>0, <2>1, <2>3, ReturnMoves
    <2>4. CASE /\ Zones \ zmap # {} /\ zmap' = zmap \cup {Min(Zones \ zmap)}
               /\ proc' = [proc EXCEPT ![p] = [proc[p] EXCEPT !.pc = "new_block", !.new = Min(Zones \ zmap)]]
      <3> DEFINE z == Min(Zones \ zmap)
      <3>1. z \in Zones
        BY <2>4, Constants, MinIn
      <3>2. zmap' \subseteq Zones
        BY <2>0, <2>4, <3>1
      <3> HIDE DEF z
      <3> DEFINE r == [proc[p] EXCEPT !.pc = "new_block", !.new = z]
      <3>r1. /\ r \in Calls
            /\ r.pc = "new_block" /\ r.ret = proc[p].ret /\ r.new = z /\ r.way = proc[p].way /\ r.hold = proc[p].hold /\ r.empty = proc[p].empty /\ r.want = proc[p].want
        BY <2>0, <3>1, ZenonT(60) DEF Calls, Labels
      <3>r2. Stage(r)
        BY <2>0, <3>r1, <3>1 DEF Stage, Looking, Using
      <3> HIDE DEF r
      <3>r3. proc' = [proc EXCEPT ![p] = r]
        BY <2>4 DEF r, z
      <3> QED BY <2>0, <2>1, <3>r1, <3>r2, <3>r3, Moves, <3>2
    <2> QED BY <1>1, <2>2, <2>3, <2>4 DEF Bmap, Sleeps
  <1>2. CASE NewBlock(p) /\ proc[p].chain # <<>>
    <2>0. /\ proc[p] \in Calls /\ proc[p].pc = "new_block" /\ Stage(proc[p]) /\ cpu \in {NULL, p}
          /\ proc[p].empty = NULL /\ zmap \subseteq Zones /\ entry \in [Zones -> Zones \cup {0}]
          /\ inode \in [Slots -> Entries]
      BY <1>2, Here DEF NewBlock
    <2> DEFINE z == proc[p].new  c == proc[p].chain
    <2>1. /\ UNCHANGED <<inode, disk, imap, zmap, names, latest>> /\ Onward(p, z)
          /\ entry' = [entry EXCEPT ![z] = 0, ![c[Len(c)]] = z]
      BY <1>2 DEF NewBlock
    <2>2. z \in Zones
      BY <2>0 DEF Stage
    <2>3. entry' \in [Zones -> Zones \cup {0}]
      BY <2>0, <2>1, <2>2
    <2> HIDE DEF z, c
    <2> QED BY <2>0, <2>1, <2>2, <2>3, OnwardMoves
  <1> QED BY <1>1, <1>2

\* What truncate does before the last way is done.
LEMMA TruncateStep ==
    ASSUME NEW p \in Procs, Truncate(p)
    PROVE  LET s == proc[p].hold  k == proc[p].way  z == inode[s].img.zone[k] IN
           /\ At(p, "trunc") /\ UNCHANGED <<disk, imap, zmap, entry, names>>
           /\ ~(k > Len(Depth)) =>
                 /\ UNCHANGED <<inode, latest>>
                 /\ \/ proc' = [proc EXCEPT ![p] = [proc[p] EXCEPT !.way = k + 1]]
                    \/ /\ z # 0
                       /\ proc' = [proc EXCEPT ![p] = [proc[p] EXCEPT !.chain = <<z>>,
                                               !.pc = IF Depth[k] = 1 THEN "free" ELSE "descend"]]
  BY Zenon DEF Truncate, Runs, Sleeps

\* truncate, as far as the inode stays as it is.
LEMMA TruncateMoves ==
    ASSUME Core, NEW p \in Procs,
           \/ Truncate(p) /\ proc[p].way <= Len(Depth)
           \/ Descend(p)
    PROVE  Core'
  <1>1. CASE Truncate(p) /\ proc[p].way <= Len(Depth)
    <2>0. /\ proc[p] \in Calls /\ proc[p].pc = "trunc" /\ Stage(proc[p]) /\ cpu \in {NULL, p}
          /\ proc[p].empty = NULL /\ zmap \subseteq Zones /\ entry \in [Zones -> Zones \cup {0}]
          /\ inode \in [Slots -> Entries]
      <3>1. At(p, "trunc")
        BY <1>1, TruncateStep
      <3> QED BY <3>1, Here
    <2>9. ~(proc[p].way > Len(Depth))
      BY <1>1, <2>0, CallFields, Constants
    <2> DEFINE k == proc[p].way  z == inode[proc[p].hold].img.zone[proc[p].way]
    <2>1. UNCHANGED <<inode, disk, imap, zmap, entry, names, latest>>
      BY <1>1, <2>9, TruncateStep
    <2>2. k \in Nat /\ k # 0 /\ k \in Ways /\ proc[p].hold \in Slots
      BY <1>1, <2>0, CallFields, Constants DEF Stage, Using, Ways
    <2>3. z \in Zones \cup {0}
      BY <2>0, <2>2, ZoneTypes
    <2>4. \/ proc' = [proc EXCEPT ![p] = [proc[p] EXCEPT !.way = k + 1]]
          \/ /\ z # 0
             /\ proc' = [proc EXCEPT ![p] = [proc[p] EXCEPT !.chain = <<z>>,
                                              !.pc = IF Depth[k] = 1 THEN "free" ELSE "descend"]]
      BY <1>1, <2>9, TruncateStep
    <2> HIDE DEF k, z
    <2>5. CASE proc' = [proc EXCEPT ![p] = [proc[p] EXCEPT !.way = k + 1]]
      <3>1. k + 1 \in Nat /\ k + 1 # 0
        BY <2>2
      <3> DEFINE r == [proc[p] EXCEPT !.way = k + 1]
      <3>r1. /\ r \in Calls
            /\ r.pc = "trunc" /\ r.ret = proc[p].ret /\ r.way = k + 1 /\ r.hold = proc[p].hold /\ r.empty = proc[p].empty /\ r.want = proc[p].want
        BY <2>0, <3>1 DEF Calls, Labels
      <3>r2. Stage(r)
        BY <2>0, <3>r1, <3>1 DEF Stage, Looking, Using
      <3> HIDE DEF r
      <3>r3. proc' = [proc EXCEPT ![p] = r]
        BY <2>5 DEF r
      <3> QED BY <2>0, <2>1, <3>r1, <3>r2, <3>r3, Moves
    <2>6. CASE /\ z # 0
               /\ proc' = [proc EXCEPT ![p] = [proc[p] EXCEPT !.chain = <<z>>,
                                                !.pc = IF Depth[k] = 1 THEN "free" ELSE "descend"]]
      <3> DEFINE l == IF Depth[k] = 1 THEN "free" ELSE "descend"
      <3>1. <<z>> \in Seq(Zones) /\ <<z>> # <<>> /\ l \in {"free", "descend"}
        BY <2>3, <2>6
      <3> HIDE DEF l
      <3> DEFINE r == [proc[p] EXCEPT !.chain = <<z>>, !.pc = l]
      <3>r1. /\ r \in Calls
            /\ r.pc = l /\ r.ret = proc[p].ret /\ r.way = k /\ r.chain = <<z>> /\ r.hold = proc[p].hold /\ r.empty = proc[p].empty /\ r.want = proc[p].want
        BY <2>0, <3>1, ZenonT(60) DEF Calls, Labels, k
      <3>r2. Stage(r)
        BY <2>0, <3>r1, <3>1, <2>2 DEF Stage, Looking, Using
      <3> HIDE DEF r
      <3>r3. proc' = [proc EXCEPT ![p] = r]
        BY <2>6 DEF r, l
      <3> QED BY <2>0, <2>1, <3>1, <3>r1, <3>r2, <3>r3, Moves
    <2> QED BY <2>4, <2>5, <2>6
  <1>2. CASE Descend(p)
    <2>0. /\ proc[p] \in Calls /\ proc[p].pc = "descend" /\ Stage(proc[p]) /\ cpu \in {NULL, p}
          /\ proc[p].empty = NULL /\ zmap \subseteq Zones /\ entry \in [Zones -> Zones \cup {0}]
          /\ inode \in [Slots -> Entries]
      BY <1>2, Here DEF Descend
    <2> DEFINE c == proc[p].chain  e == entry[c[Len(c)]]
    <2>1. UNCHANGED <<inode, disk, imap, zmap, entry, names, latest>>
      BY <1>2 DEF Descend
    <2>2. c \in Seq(Zones) /\ c # <<>> /\ proc[p].way \in Ways
      BY <2>0, CallFields DEF Stage
    <2>3. e \in Zones \cup {0}
      <3>1. c[Len(c)] \in Zones
        BY <2>2
      <3> QED BY <2>0, <3>1
    <2>4. \/ proc' = [proc EXCEPT ![p] = [proc[p] EXCEPT !.pc = "free"]]
          \/ \E l \in {"descend", "free"} :
                e # 0 /\ proc' = [proc EXCEPT ![p] = [proc[p] EXCEPT !.chain = Append(c, e), !.pc = l]]
      BY <1>2 DEF Descend, Sleeps
    <2>5. CASE proc' = [proc EXCEPT ![p] = [proc[p] EXCEPT !.pc = "free"]]
      <3> DEFINE r == [proc[p] EXCEPT !.pc = "free"]
      <3>r1. /\ r \in Calls
            /\ r.pc = "free" /\ r.ret = proc[p].ret /\ r.way = proc[p].way /\ r.chain = c /\ r.hold = proc[p].hold /\ r.empty = proc[p].empty /\ r.want = proc[p].want
        BY <2>0 DEF Calls, Labels
      <3>r2. Stage(r)
        BY <2>0, <3>r1, <2>2 DEF Stage, Looking, Using
      <3> HIDE DEF r
      <3>r3. proc' = [proc EXCEPT ![p] = r]
        BY <2>5 DEF r
      <3> QED BY <2>0, <2>1, <3>r1, <3>r2, <3>r3, Moves
    <2>6. CASE \E l \in {"descend", "free"} :
                  e # 0 /\ proc' = [proc EXCEPT ![p] = [proc[p] EXCEPT !.chain = Append(c, e), !.pc = l]]
      <3>1. PICK l \in {"descend", "free"} :
                  e # 0 /\ proc' = [proc EXCEPT ![p] = [proc[p] EXCEPT !.chain = Append(c, e), !.pc = l]]
        BY <2>6
      <3>2. Append(c, e) \in Seq(Zones) /\ Append(c, e) # <<>>
        BY <2>2, <2>3, <3>1
      <3> DEFINE d == Append(c, e)
      <3> HIDE DEF d
      <3> DEFINE r == [proc[p] EXCEPT !.chain = d, !.pc = l]
      <3>r1. /\ r \in Calls
            /\ r.pc = l /\ r.ret = proc[p].ret /\ r.way = proc[p].way /\ r.chain = d /\ r.hold = proc[p].hold /\ r.empty = proc[p].empty /\ r.want = proc[p].want
        BY <2>0, <3>2, ZenonT(60) DEF Calls, Labels, d
      <3>r2. Stage(r)
        BY <2>0, <3>r1, <2>2, <3>2 DEF Stage, Looking, Using, d
      <3> HIDE DEF r
      <3>r3. proc' = [proc EXCEPT ![p] = r]
        BY <3>1 DEF r, d
      <3> QED BY <2>0, <2>1, <3>r1, <3>r2, <3>r3, Moves
    <2> QED BY <2>4, <2>5, <2>6
  <1> QED BY <1>1, <1>2
-----------------------------------------------------------------------------
\* A call begins: r is the process's state before it is counted.
LEMMA CallMoves ==
    ASSUME Core, NEW p \in Procs, NEW r \in Calls, Call(p, r), r.ops \in Int,
           UNCHANGED <<inode, disk, imap, zmap, entry, names, latest>>,
           Stage(r), r.hold = proc[p].hold, r.empty = proc[p].empty, r.ret = proc[p].ret,
           r.pc \notin {"reading", "writing", "enter"}, r.want = 0 \/ r.want \in names
    PROVE  Core'
  <1>1. /\ proc[p] \in Calls /\ proc[p].pc = "idle" /\ Stage(proc[p]) /\ cpu \in {NULL, p}
        /\ zmap \subseteq Zones /\ entry \in [Zones -> Zones \cup {0}]
    BY Here DEF Call
  <1> DEFINE t == [r EXCEPT !.ops = r.ops - 1]
  <1>2. proc' = [proc EXCEPT ![p] = t]
    BY DEF Call, Runs
  <1>3. /\ t \in Calls /\ t.pc = r.pc /\ t.ret = r.ret /\ t.want = r.want /\ t.cur = r.cur
        /\ t.hold = r.hold /\ t.empty = r.empty /\ t.way = r.way /\ t.chain = r.chain /\ t.new = r.new
    BY DEF Calls
  <1> HIDE DEF t
  <1>4. Stage(t)
    BY <1>3 DEF Stage, Looking, Using
  <1>5. t.ret # "free_inode"
    BY <1>1, <1>3 DEF Stage
  <1> QED BY <1>1, <1>2, <1>3, <1>4, <1>5, Moves

\* The calls, but for unlink, which changes the inode.
LEMMA CallsMove ==
    ASSUME Core, NEW p \in Procs,
           Open(p) \/ Create(p) \/ Write(p) \/ OpenTrunc(p) \/ Close(p) \/ Sync(p)
    PROVE  Core'
  <1>0. At(p, "idle") /\ UNCHANGED <<inode, disk, imap, zmap, entry, names, latest>>
    BY DEF Open, Create, Write, OpenTrunc, Close, Sync, Call
  <1>1. /\ proc[p] \in Calls /\ proc[p].pc = "idle" /\ Stage(proc[p]) /\ proc[p].empty = NULL
    BY <1>0, Here
  <1>2. proc[p].want = 0 /\ proc[p].ret # "free_inode" /\ proc[p].ops \in Int
        /\ proc[p].hold \in Slots \cup {NULL}
    BY <1>1, CallFields DEF Stage, Looking, Using
  <1>9. 1 \in Slots /\ 1 \in 1 .. NR_INODE + 1
    BY Constants DEF Slots
  <1>3. CASE Open(p)
    <2>1. PICK n \in names : Call(p, [proc[p] EXCEPT !.pc = "empty", !.want = n])
      BY <1>3 DEF Open
    <2>5. proc[p].hold = NULL
      BY <1>3 DEF Open
    <2>6. n \in Nums
      BY DEF Core, Typed, Wanted
    <2> DEFINE r == [proc[p] EXCEPT !.pc = "empty", !.want = n]
    <2>2. r \in Calls /\ r.pc = "empty" /\ r.want = n /\ r.hold = proc[p].hold /\ r.empty = proc[p].empty /\ r.ret = proc[p].ret /\ r.ops \in Int
      BY <1>1, <1>2, <2>6, ZenonT(60) DEF Calls, Labels
    <2>3. Stage(r)
      BY <1>1, <1>2, <2>2, <2>5 DEF Stage, Looking, Using
    <2>4. Call(p, r)
      BY <2>1
    <2> HIDE DEF r
    <2> QED BY <1>0, <1>2, <2>2, <2>3, <2>4, CallMoves, <2>1
  <1>4. CASE Create(p)
    <2> DEFINE r == [proc[p] EXCEPT !.pc = "empty"]
    <2>2. r \in Calls /\ r.pc = "empty" /\ r.want = 0 /\ r.hold = proc[p].hold /\ r.empty = proc[p].empty /\ r.ret = proc[p].ret /\ r.ops \in Int
      BY <1>1, <1>2 DEF Calls, Labels
    <2>3. Stage(r)
      BY <1>1, <1>2, <2>2, <1>4 DEF Stage, Looking, Using, Create
    <2>4. Call(p, r)
      BY <1>4 DEF Create
    <2> HIDE DEF r
    <2> QED BY <1>0, <1>2, <2>2, <2>3, <2>4, CallMoves
  <1>5. CASE Write(p)
    <2>1. PICK k \in Ways : Call(p, [proc[p] EXCEPT !.pc = "bmap", !.way = k])
      BY <1>5 DEF Write
    <2>5. proc[p].hold \in Slots
      BY <1>2, <1>5 DEF Write
    <2>6. k \in Nat
      BY Constants DEF Ways
    <2> DEFINE r == [proc[p] EXCEPT !.pc = "bmap", !.way = k]
    <2>2. r \in Calls /\ r.pc = "bmap" /\ r.want = 0 /\ r.way = k /\ r.hold = proc[p].hold /\ r.empty = proc[p].empty /\ r.ret = proc[p].ret /\ r.ops \in Int
      BY <1>1, <1>2, <2>6, ZenonT(60) DEF Calls, Labels
    <2>3. Stage(r)
      BY <1>1, <1>2, <2>2, <2>5 DEF Stage, Looking, Using
    <2>4. Call(p, r)
      BY <2>1
    <2> HIDE DEF r
    <2> QED BY <1>0, <1>2, <2>2, <2>3, <2>4, CallMoves, <2>1
  <1>6. CASE OpenTrunc(p)
    <2> DEFINE r == [proc[p] EXCEPT !.pc = "trunc", !.way = 1]
    <2>2. r \in Calls /\ r.pc = "trunc" /\ r.want = 0 /\ r.way = 1 /\ r.hold = proc[p].hold /\ r.empty = proc[p].empty /\ r.ret = proc[p].ret /\ r.ops \in Int
      BY <1>1, <1>2, ZenonT(60) DEF Calls, Labels
    <2>3. Stage(r)
      BY <1>1, <1>2, <2>2, <1>6 DEF Stage, Looking, Using, OpenTrunc
    <2>4. Call(p, r)
      BY <1>6 DEF OpenTrunc
    <2> HIDE DEF r
    <2> QED BY <1>0, <1>2, <2>2, <2>3, <2>4, CallMoves
  <1>7. CASE Close(p)
    <2> DEFINE n == proc[p].ops + 1
    <2>1. n \in Int
      BY <1>2
    <2> HIDE DEF n
    <2> DEFINE r == [proc[p] EXCEPT !.pc = "iput", !.ops = n]
    <2>2. r \in Calls /\ r.pc = "iput" /\ r.want = 0 /\ r.hold = proc[p].hold /\ r.empty = proc[p].empty /\ r.ret = proc[p].ret /\ r.ops \in Int
      BY <1>1, <1>2, <2>1, ZenonT(60) DEF Calls, Labels
    <2>3. Stage(r)
      BY <1>1, <1>2, <2>2, <1>7 DEF Stage, Looking, Using, Close
    <2>4. Call(p, r)
      BY <1>7 DEF Close, n
    <2> HIDE DEF r
    <2> QED BY <1>0, <1>2, <2>2, <2>3, <2>4, CallMoves
  <1>8. CASE Sync(p)
    <2> DEFINE r == [proc[p] EXCEPT !.pc = "sync", !.cur = 1]
    <2>2. r \in Calls /\ r.pc = "sync" /\ r.want = 0 /\ r.cur = 1 /\ r.hold = proc[p].hold /\ r.empty = proc[p].empty /\ r.ret = proc[p].ret /\ r.ops \in Int
      BY <1>1, <1>2, <1>9, ZenonT(60) DEF Calls, Labels
    <2>3. Stage(r)
      BY <1>1, <1>2, <2>2, <1>9 DEF Stage, Looking, Using
    <2>4. Call(p, r)
      BY <1>8 DEF Sync
    <2> HIDE DEF r
    <2> QED BY <1>0, <1>2, <2>2, <2>3, <2>4, CallMoves
  <1> QED BY <1>3, <1>4, <1>5, <1>6, <1>7, <1>8
-----------------------------------------------------------------------------
\* A process changes the inode it holds; truncate does not mark it at once.
LEMMA ChangeMoves ==
    ASSUME Core, NEW p \in Procs, NEW r \in Calls, cpu \in {NULL, p}, NEW img \in Images,
           proc[p].hold \in Slots,
           \/ Changed(proc[p].hold, img)
           \/ ChangedUnmarked(proc[p].hold, img) /\ r.pc = "trunc",
           proc' = [proc EXCEPT ![p] = r], UNCHANGED <<disk, imap>>,
           zmap' \subseteq Zones, entry' \in [Zones -> Zones \cup {0}],
           names' \subseteq names, inode[proc[p].hold].num \in names' => img.nlinks # 0,
           Stage(r), r.hold = proc[p].hold, r.empty = proc[p].empty,
           r.pc \notin {"reading", "writing", "enter"},
           proc[p].pc \notin {"reading", "writing"},
           r.want = 0, r.ret = "free_inode" => proc[p].ret = "free_inode"
    PROVE  Core'
  <1>0. Typed /\ Staged /\ Counted /\ Held /\ Emptied /\ Table /\ Locked /\ Alone /\ Fresh
        /\ Kept /\ Wanted /\ Freeing /\ Entering
    BY DEF Core
  <1> DEFINE s == proc[p].hold  n == inode[s].num
  <1>1. proc \in [Procs -> Calls] /\ inode \in [Slots -> Entries] /\ latest \in [Nums -> Images]
        /\ disk \in [Nums -> Images] /\ imap \subseteq Nums
    BY <1>0 DEF Typed
  <1>2. n \in Nums /\ n \in imap
    BY <1>0, <1>1 DEF Held, Table
  <1>3. proc'[p] = r /\ \A q \in Procs : q # p => proc'[q] = proc[q]
    BY <1>1
  <1>4. /\ \A q \in Procs : proc'[q].hold = proc[q].hold /\ proc'[q].empty = proc[q].empty
        /\ \A q \in Procs : proc'[q].pc = "reading" <=> proc[q].pc = "reading"
        /\ LockOf(r) = NULL /\ LockOf(proc[p]) = NULL
    BY <1>3 DEF LockOf
  <1>5. /\ inode' \in [Slots -> Entries]
        /\ \A t \in Slots : /\ inode'[t].num = inode[t].num /\ inode'[t].count = inode[t].count
                            /\ inode'[t].lock = inode[t].lock
                            /\ t # s => inode'[t].dirt = inode[t].dirt /\ inode'[t].img = inode[t].img
        /\ inode'[s].dirt \/ r.pc = "trunc"
        /\ inode'[s].img = img
    <2>0. inode[s] \in Entries
      BY <1>1
    <2>1. CASE inode' = [inode EXCEPT ![s].img = img, ![s].dirt = TRUE]
      <3>1. [inode[s] EXCEPT !.img = img, !.dirt = TRUE] \in Entries
        BY <2>0 DEF Entries
      <3> QED BY <1>1, <2>0, <2>1, <3>1 DEF Entries
    <2>2. CASE inode' = [inode EXCEPT ![s].img = img] /\ r.pc = "trunc"
      <3>1. [inode[s] EXCEPT !.img = img] \in Entries
        BY <2>0 DEF Entries
      <3> QED BY <1>1, <2>0, <2>2, <3>1 DEF Entries
    <2> QED BY <2>1, <2>2 DEF Changed, ChangedUnmarked
  <1>6. /\ latest' \in [Nums -> Images] /\ latest'[n] = img
        /\ \A m \in Nums : m # n => latest'[m] = latest[m]
    BY <1>1, <1>2 DEF Changed, ChangedUnmarked
  <1> HIDE DEF s, n
  <1>7. \A q \in Procs : ~(proc[q].pc = "reading" /\ proc[q].hold = s)
    BY <1>0 DEF Alone, s
  <1>8. Typed'
    BY <1>0, <1>1, <1>5, <1>6 DEF Typed
  <1>9. Staged'
    BY <1>0, <1>3 DEF Staged
  <1>10. Counted'
    <2>1. \A t \in Slots : Users(t)' = Users(t)
      BY <1>4 DEF Users
    <2> QED BY <1>0, <1>5, <2>1 DEF Counted
  <1>11. Held'
    BY <1>0, <1>4, <1>5 DEF Held
  <1>12. Emptied'
    <2>1. \A q \in Procs : proc[q].empty # s
      BY <1>0, <1>2, Constants DEF Emptied, s, n
    <2> QED BY <1>0, <1>4, <1>5, <2>1 DEF Emptied
  <1>13. Table'
    BY <1>0, <1>5 DEF Table
  <1>14. Locked'
    <2>1. \A q \in Procs : LockOf(proc[q]) \in Slots \cup {NULL}
      BY <1>0, <1>1, CallFields DEF LockOf, Staged, Stage
    <2> QED BY <1>0, <1>3, <1>4, <1>5, <2>1 DEF Locked
  <1>15. Alone'
    <2>1. \A q \in Procs : proc[q].pc = "reading" => proc[q].hold \in Slots
      BY <1>0 DEF Staged, Stage, Using
    <2> QED BY <1>0, <1>4, <1>5, <1>7, <2>1 DEF Alone
  <1>16. Fresh'
    <2> SUFFICES ASSUME NEW t \in Slots, inode'[t].num # 0,
                        \A q \in Procs : ~(proc'[q].pc = "reading" /\ proc'[q].hold = t)
                 PROVE  inode'[t].img = latest'[inode'[t].num]
      BY DEF Fresh
    <2>1. CASE t = s
      BY <1>5, <1>6, <2>1 DEF n
    <2>2. CASE t # s
      <3>1. inode[t].num # n /\ inode[t].num \in Nums
        BY <1>0, <1>1, <1>2, <1>5, <2>2 DEF Table, n, s
      <3> QED BY <1>0, <1>4, <1>5, <1>6, <2>2, <3>1 DEF Fresh
    <2> QED BY <2>1, <2>2
  <1>17. Kept'
    <2> SUFFICES ASSUME NEW m \in imap, \A t \in Slots : inode'[t].num = m => ~inode'[t].dirt
                 PROVE  disk[m] = latest'[m] \/ Truncating(m)'
      BY DEF Kept
    <2>1. CASE m = n
      <3>1. s \in Slots /\ inode'[s].num = m /\ proc'[p].hold = s
        BY <1>4, <1>5, <2>1 DEF n, s
      <3>2. proc'[p].pc = "trunc"
        BY <1>3, <1>5, <3>1
      <3> QED BY <3>1, <3>2, Constants DEF Truncating
    <2>2. CASE m # n
      <3>1. \A t \in Slots : inode[t].num = m => ~inode[t].dirt
        BY <1>5, <2>2 DEF n
      <3>2. disk[m] = latest[m] \/ Truncating(m)
        BY <1>0, <3>1 DEF Kept
      <3>3. ASSUME NEW q \in Procs, proc[q].hold # NULL, inode[proc[q].hold].num = m,
                   proc[q].pc \in {"trunc", "descend", "free"}
            PROVE  Truncating(m)'
        <4>1. q # p /\ proc'[q] = proc[q]
          BY <1>3, <2>2, <3>3 DEF n, s
        <4>2. proc[q].hold \in Slots
          BY <1>0, <3>3 DEF Staged, Stage, Using
        <4> QED BY <1>5, <3>3, <4>1, <4>2 DEF Truncating
      <3> QED BY <1>1, <1>6, <2>2, <3>2, <3>3 DEF Truncating
    <2> QED BY <2>1, <2>2
  <1>18. Wanted'
    BY <1>0, <1>1, <1>2, <1>3, <1>6 DEF Wanted, n, s
  <1>19. Freeing'
    <2> SUFFICES ASSUME NEW q \in Procs, proc'[q].ret = "free_inode"
                 PROVE  /\ inode'[proc'[q].hold].num \notin names'
                        /\ \A u \in Procs \ {q} : proc'[u].want # inode'[proc'[q].hold].num
      BY DEF Freeing
    <2>1. proc[q].ret = "free_inode"
      BY <1>3
    <2>2. proc[q].hold \in Slots /\ inode[proc[q].hold].num # 0
      BY <1>0, <2>1 DEF Staged, Stage, Using, Held
    <2> QED BY <1>0, <1>3, <1>4, <1>5, <2>1, <2>2 DEF Freeing
  <1>20. Entering'
    <2> SUFFICES ASSUME NEW q \in Procs, proc'[q].pc = "enter" PROVE FALSE
      BY DEF Entering
    <2>1. q # p /\ proc[q].pc = "enter"
      BY <1>3
    <2>2. cpu = q
      BY <1>0, <2>1 DEF Entering
    <2> QED BY <2>1, <2>2, Constants
  <1> QED BY <1>8, <1>9, <1>10, <1>11, <1>12, <1>13, <1>14, <1>15, <1>16, <1>17, <1>18, <1>19, <1>20 DEF Core

\* What may be stored in an inode: a zone.
LEMMA StoreZone ==
    ASSUME NEW img \in Images, NEW k \in Ways, NEW z \in Zones \cup {0}
    PROVE  [img EXCEPT !.zone[k] = z] \in Images /\ [img EXCEPT !.zone[k] = z].nlinks = img.nlinks
  <1>1. img.zone \in [Ways -> Zones \cup {0}]
    BY DEF Images
  <1>2. [img.zone EXCEPT ![k] = z] \in [Ways -> Zones \cup {0}]
    BY <1>1
  <1> QED BY <1>2 DEF Images

\* Other zones.
LEMMA StoreZones ==
    ASSUME NEW img \in Images, NEW f \in [Ways -> Zones \cup {0}]
    PROVE  [img EXCEPT !.zone = f] \in Images /\ [img EXCEPT !.zone = f].nlinks = img.nlinks
  BY DEF Images

\* A link less.
LEMMA DropLink ==
    ASSUME NEW img \in Images, img.nlinks # 0
    PROVE  [img EXCEPT !.nlinks = img.nlinks - 1] \in Images
  <1>0. img.nlinks \in Nat
    BY DEF Images
  <1>1. img.nlinks - 1 \in Nat
    BY <1>0
  <1> QED BY <1>1 DEF Images

\* The image that a process which holds an inode and does not read it sees is
\* the last one; a name goes with a link.
LEMMA LastImage ==
    ASSUME Core, NEW p \in Procs, proc[p].hold \in Slots, proc[p].pc # "reading"
    PROVE  /\ inode[proc[p].hold].num \in imap /\ inode[proc[p].hold].num # 0
           /\ inode[proc[p].hold].img \in Images
           /\ inode[proc[p].hold].img = latest[inode[proc[p].hold].num]
           /\ inode[proc[p].hold].num \in names => inode[proc[p].hold].img.nlinks # 0
  <1> DEFINE s == proc[p].hold
  <1>1. inode[s].num # 0 /\ inode[s].num \in imap
    BY DEF Core, Held, Table
  <1>2. inode[s].img \in Images
    <2>1. inode[s] \in Entries
      BY DEF Core, Typed
    <2> QED BY <2>1, EntryFields
  <1>3. \A q \in Procs : ~(proc[q].pc = "reading" /\ proc[q].hold = s)
    BY DEF Core, Alone
  <1>4. inode[s].img = latest[inode[s].num]
    BY <1>1, <1>3 DEF Core, Fresh
  <1> QED BY <1>1, <1>2, <1>4 DEF Core, Wanted

\* new_block for the inode, and the end of truncate.
LEMMA StoreMoves ==
    ASSUME Core, NEW p \in Procs,
           \/ NewBlock(p) /\ proc[p].chain = <<>>
           \/ Truncate(p) /\ proc[p].way > Len(Depth)
    PROVE  Core'
  <1>1. CASE NewBlock(p) /\ proc[p].chain = <<>>
    <2>0. /\ proc[p] \in Calls /\ proc[p].pc = "new_block" /\ Stage(proc[p]) /\ cpu \in {NULL, p}
          /\ proc[p].empty = NULL /\ zmap \subseteq Zones /\ entry \in [Zones -> Zones \cup {0}]
          /\ inode \in [Slots -> Entries]
      BY <1>1, Here DEF NewBlock
    <2> DEFINE s == proc[p].hold  z == proc[p].new  img == [inode[s].img EXCEPT !.zone[proc[p].way] = z]
    <2>1. /\ UNCHANGED <<disk, imap, zmap, names>> /\ Onward(p, z) /\ Changed(s, img)
          /\ entry' = [entry EXCEPT ![z] = 0]
      BY <1>1 DEF NewBlock
    <2>2. z \in Zones /\ s \in Slots /\ proc[p].way \in Ways /\ proc[p].want = 0 /\ proc[p].ret # "free_inode"
      BY <2>0, CallFields DEF Stage, Using, Looking
    <2>3. entry' \in [Zones -> Zones \cup {0}]
      BY <2>0, <2>1, <2>2
    <2>4. img \in Images /\ (inode[s].num \in names => img.nlinks # 0)
      <3>1. inode[s].img \in Images /\ (inode[s].num \in names => inode[s].img.nlinks # 0)
        BY <2>0, <2>2, LastImage
      <3> QED BY <2>2, <3>1, StoreZone
    <2> HIDE DEF img, z
    <2>5. CASE Returns(p, s)
      <3> DEFINE r == [Idle EXCEPT !.hold = s, !.ops = proc[p].ops]
      <3>1. /\ r \in Calls /\ r.pc = "idle" /\ r.ret = "idle" /\ r.want = 0
            /\ r.hold = s /\ r.empty = NULL /\ Stage(r)
        BY <2>0, <2>2, CallFields, Back
      <3>2. proc' = [proc EXCEPT ![p] = r]
        BY <2>5 DEF Returns, Sleeps
      <3> HIDE DEF r
      <3> QED BY <2>0, <2>1, <2>2, <2>3, <2>4, <3>1, <3>2, ChangeMoves
    <2>6. CASE proc' = [proc EXCEPT ![p] = [proc[p] EXCEPT !.pc = "bmap", !.chain = Append(proc[p].chain, z), !.new = 0]]
      <3>1. Append(proc[p].chain, z) \in Seq(Zones)
        BY <2>0, <2>2, CallFields
      <3> DEFINE r == [proc[p] EXCEPT !.pc = "bmap", !.chain = Append(proc[p].chain, z), !.new = 0]
      <3>r1. /\ r \in Calls
            /\ r.pc = "bmap" /\ r.ret = proc[p].ret /\ r.way = proc[p].way /\ r.hold = proc[p].hold /\ r.empty = proc[p].empty /\ r.want = proc[p].want
        BY <2>0, <3>1, ZenonT(60) DEF Calls, Labels
      <3>r2. Stage(r)
        BY <2>0, <3>r1, <2>2 DEF Stage, Looking, Using
      <3> HIDE DEF r
      <3>r3. proc' = [proc EXCEPT ![p] = r]
        BY <2>6 DEF r
      <3> QED BY <2>0, <2>1, <3>r1, <3>r2, <3>r3, ChangeMoves, <2>2, <2>3, <2>4
    <2> QED BY <2>1, <2>5, <2>6 DEF Onward, Sleeps
  <1>2. CASE Truncate(p) /\ proc[p].way > Len(Depth)
    <2>0. /\ proc[p] \in Calls /\ proc[p].pc = "trunc" /\ Stage(proc[p]) /\ cpu \in {NULL, p}
          /\ proc[p].empty = NULL /\ zmap \subseteq Zones /\ entry \in [Zones -> Zones \cup {0}]
          /\ inode \in [Slots -> Entries]
      <3>1. At(p, "trunc")
        BY <1>2, TruncateStep
      <3> QED BY <3>1, Here
    <2> DEFINE s == proc[p].hold
              f == [j \in Ways |-> IF Depth[j] > 1 THEN 0 ELSE inode[s].img.zone[j]]
              img == [inode[s].img EXCEPT !.zone = f]
    <2>1. /\ UNCHANGED <<disk, imap, zmap, entry, names>> /\ Changed(s, img)
      BY <1>2, <2>0 DEF Truncate
    <2>2. s \in Slots /\ proc[p].want = 0
      BY <2>0, CallFields DEF Stage, Using, Looking
    <2>3. \A j \in Ways : inode[s].img.zone[j] \in Zones \cup {0}
      BY <2>0, <2>2, ZoneTypes
    <2>4. f \in [Ways -> Zones \cup {0}]
      BY <2>3
    <2>5. img \in Images /\ (inode[s].num \in names => img.nlinks # 0)
      <3>1. inode[s].img \in Images /\ (inode[s].num \in names => inode[s].img.nlinks # 0)
        BY <2>0, <2>2, LastImage
      <3> HIDE DEF f
      <3> QED BY <2>4, <3>1, StoreZones
    <2> HIDE DEF img
    <2>6. CASE Returns(p, s)
      <3> DEFINE r == [Idle EXCEPT !.hold = s, !.ops = proc[p].ops]
      <3>1. /\ r \in Calls /\ r.pc = "idle" /\ r.ret = "idle" /\ r.want = 0
            /\ r.hold = s /\ r.empty = NULL /\ Stage(r)
        BY <2>0, <2>2, CallFields, Back
      <3>2. proc' = [proc EXCEPT ![p] = r]
        BY <2>6 DEF Returns, Sleeps
      <3> HIDE DEF r
      <3> QED BY <2>0, <2>1, <2>2, <2>5, <3>1, <3>2, ChangeMoves
    <2>7. CASE proc[p].ret = "free_inode" /\ proc' = [proc EXCEPT ![p] = [proc[p] EXCEPT !.pc = "free_inode"]]
      <3> DEFINE r == [proc[p] EXCEPT !.pc = "free_inode"]
      <3>r1. /\ r \in Calls
            /\ r.pc = "free_inode" /\ r.ret = proc[p].ret /\ r.hold = proc[p].hold /\ r.empty = proc[p].empty /\ r.want = proc[p].want
        BY <2>0 DEF Calls, Labels
      <3>r2. Stage(r)
        BY <2>0, <3>r1, <2>2, <2>7 DEF Stage, Looking, Using
      <3> HIDE DEF r
      <3>r3. proc' = [proc EXCEPT ![p] = r]
        BY <2>7 DEF r
      <3> QED BY <2>0, <2>1, <3>r1, <3>r2, <3>r3, ChangeMoves, <2>2, <2>5
    <2> QED BY <1>2, <2>0, <2>6, <2>7 DEF Truncate, Runs
  <1> QED BY <1>1, <1>2

\* free_block, whether it frees the block or not.
LEMMA FreeMoves ==
    ASSUME Core, NEW p \in Procs, FreeBlock(p)
    PROVE  Core'
  <1> DEFINE s == proc[p].hold  c == proc[p].chain  k == proc[p].way
  <1>0. /\ proc[p] \in Calls /\ proc[p].pc = "free" /\ Stage(proc[p]) /\ cpu \in {NULL, p}
        /\ proc[p].empty = NULL /\ zmap \subseteq Zones /\ entry \in [Zones -> Zones \cup {0}]
    BY Here DEF FreeBlock
  <1>1. UNCHANGED <<disk, imap, entry, names>>
    BY DEF FreeBlock
  <1>2. /\ s \in Slots /\ c \in Seq(Zones) /\ c # <<>> /\ k \in Ways /\ k \in Nat /\ k + 1 \in Nat
        /\ k + 1 # 0 /\ proc[p].want = 0
    BY <1>0, CallFields DEF Stage, Using, Looking
  <1>3. CASE UNCHANGED <<zmap, inode, latest, proc, cpu>>
    BY <1>1, <1>3, Stays
  <1>4. CASE Freed(p) /\ zmap' \subseteq Zones
    <2>0. proc[p] \in Calls
      BY <1>0
    <2>1. CASE Len(c) > 1
      <3>0. Len(c) # 1
        <4> SUFFICES ASSUME Len(c) = 1 PROVE FALSE
          OBVIOUS
        <4>1. 1 > 1
          BY <2>1
        <4> QED BY <4>1
      <3>1. UNCHANGED <<inode, latest>> /\ proc' = [proc EXCEPT ![p] = [proc[p] EXCEPT !.chain = SubSeq(c, 1, Len(c) - 1)]]
        BY <1>4, <2>1, <3>0, Zenon DEF Freed, Sleeps
      <3> DEFINE d == SubSeq(c, 1, Len(c) - 1)
      <3>2. d \in Seq(Zones) /\ Len(d) = Len(c) - 1
        BY <1>2, <2>1
      <3>3. d # <<>>
        BY <1>2, <2>1, <3>2, SMTT(30)
      <3> HIDE DEF d
      <3> DEFINE r == [proc[p] EXCEPT !.chain = d]
      <3>4. r \in Calls /\ r.pc = "free" /\ r.ret = proc[p].ret /\ r.way = k /\ r.chain = d
            /\ r.hold = s /\ r.empty = proc[p].empty /\ r.want = proc[p].want
        BY <1>0, <3>2 DEF Calls, Labels
      <3>5. Stage(r)
        BY <1>0, <1>2, <3>3, <3>4 DEF Stage, Looking, Using
      <3> HIDE DEF r
      <3>6. proc' = [proc EXCEPT ![p] = r]
        BY <3>1 DEF r, d
      <3> QED BY <1>0, <1>1, <1>4, <3>1, <3>4, <3>5, <3>6, Moves
    <2>2. CASE ~(Len(c) > 1)
      <3>1. proc' = [proc EXCEPT ![p] = [proc[p] EXCEPT !.pc = "trunc", !.chain = <<>>, !.way = k + 1]]
        BY <1>4, <2>2 DEF Freed, Runs
      <3> DEFINE r == [proc[p] EXCEPT !.pc = "trunc", !.chain = <<>>, !.way = k + 1]
      <3>2. <<>> \in Seq(Zones)
        OBVIOUS
      <3>3. r \in Calls /\ r.pc = "trunc" /\ r.ret = proc[p].ret /\ r.way = k + 1
            /\ r.hold = s /\ r.empty = proc[p].empty /\ r.want = proc[p].want
        BY <1>0, <1>2, <3>2, ZenonT(60) DEF Calls, Labels
      <3>4. Stage(r)
        BY <1>0, <1>2, <3>3 DEF Stage, Looking, Using
      <3> HIDE DEF r
      <3>5. proc' = [proc EXCEPT ![p] = r]
        BY <3>1 DEF r
      <3>6. CASE UNCHANGED <<inode, latest>>
        BY <1>0, <1>1, <1>4, <3>3, <3>4, <3>5, <3>6, Moves
      <3>7. CASE ChangedUnmarked(s, [inode[s].img EXCEPT !.zone[k] = 0])
        <4> DEFINE img == [inode[s].img EXCEPT !.zone[k] = 0]
        <4>1. inode[s].img \in Images /\ (inode[s].num \in names => inode[s].img.nlinks # 0)
          BY <1>0, <1>2, LastImage
        <4>2. img \in Images /\ (inode[s].num \in names => img.nlinks # 0)
          <5> DEFINE z == 0
          <5>1. z \in Zones \cup {0}
            OBVIOUS
          <5> HIDE DEF z
          <5>2. /\ [inode[s].img EXCEPT !.zone[k] = z] \in Images
                /\ [inode[s].img EXCEPT !.zone[k] = z].nlinks = inode[s].img.nlinks
            BY <1>2, <4>1, <5>1, StoreZone
          <5> QED BY <4>1, <5>2 DEF z
        <4> HIDE DEF img
        <4>3. ChangedUnmarked(s, img)
          BY <3>7 DEF img
        <4> QED BY <1>0, <1>1, <1>2, <1>4, <3>3, <3>4, <3>5, <4>2, <4>3, ChangeMoves
      <3> QED BY <1>4, <3>6, <3>7 DEF Freed
    <2> QED BY <2>1, <2>2
  <1> QED BY <1>0, <1>3, <1>4 DEF FreeBlock

\* A name goes: unlink, or the caller of new_inode cannot enter it.
LEMMA UnlinkMoves ==
    ASSUME Core, NEW p \in Procs,
           \/ Unlink(p)
           \/ Enter(p) /\ UNCHANGED names
              /\ Changed(proc[p].hold, [inode[proc[p].hold].img EXCEPT !.nlinks = @ - 1])
              /\ Runs(p, [proc[p] EXCEPT !.pc = "iput"])
    PROVE  Core'
  <1> DEFINE s == proc[p].hold  img == [inode[s].img EXCEPT !.nlinks = inode[s].img.nlinks - 1]
  <1>1. CASE Unlink(p)
    <2>0. /\ proc[p] \in Calls /\ proc[p].pc = "idle" /\ Stage(proc[p]) /\ cpu \in {NULL, p}
          /\ proc[p].empty = NULL /\ zmap \subseteq Zones /\ entry \in [Zones -> Zones \cup {0}]
      BY <1>1, Here DEF Unlink, Call
    <2>1. /\ s # NULL /\ names' = names \ {inode[s].num} /\ Changed(s, img)
          /\ UNCHANGED <<disk, imap, zmap, entry>>
          /\ proc' = [proc EXCEPT ![p] = [[proc[p] EXCEPT !.pc = "iput"] EXCEPT !.ops = @ - 1]]
      BY <1>1 DEF Unlink, Call, Runs
    <2>2. s \in Slots /\ proc[p].want = 0 /\ proc[p].ret # "free_inode" /\ proc[p].ops \in Int
      BY <2>0, <2>1, CallFields DEF Stage, Looking
    <2> DEFINE t == [proc[p] EXCEPT !.pc = "iput"]
               r == [t EXCEPT !.ops = t.ops - 1]
    <2>3. /\ t \in Calls /\ t.pc = "iput" /\ t.ret = proc[p].ret /\ t.hold = s
          /\ t.empty = proc[p].empty /\ t.want = proc[p].want
      BY <2>0 DEF Calls, Labels
    <2>4. proc' = [proc EXCEPT ![p] = r]
      BY <2>1
    <2> HIDE DEF t
    <2>5. /\ r \in Calls /\ r.pc = t.pc /\ r.ret = t.ret /\ r.hold = t.hold
          /\ r.empty = t.empty /\ r.want = t.want
      BY <2>3 DEF Calls
    <2> HIDE DEF r
    <2>6. Stage(r)
      BY <2>0, <2>2, <2>3, <2>5 DEF Stage, Looking, Using
    <2>8. inode[s].num \in names
      BY <1>1 DEF Unlink
    <2>7. img \in Images
      BY <2>0, <2>2, <2>8, LastImage, DropLink
    <2> HIDE DEF img
    <2> QED BY <2>0, <2>1, <2>2, <2>3, <2>4, <2>5, <2>6, <2>7, ChangeMoves
  <1>2. CASE /\ Enter(p) /\ UNCHANGED names
             /\ Changed(proc[p].hold, [inode[proc[p].hold].img EXCEPT !.nlinks = @ - 1])
             /\ Runs(p, [proc[p] EXCEPT !.pc = "iput"])
    <2>0. /\ proc[p] \in Calls /\ proc[p].pc = "enter" /\ Stage(proc[p]) /\ cpu \in {NULL, p}
          /\ proc[p].empty = NULL /\ zmap \subseteq Zones /\ entry \in [Zones -> Zones \cup {0}]
      BY <1>2, Here DEF Enter
    <2>1. /\ names' = names /\ Changed(s, img) /\ UNCHANGED <<disk, imap, zmap, entry>>
          /\ proc' = [proc EXCEPT ![p] = [proc[p] EXCEPT !.pc = "iput"]]
      BY <1>2 DEF Enter, Runs
    <2>2. s \in Slots /\ proc[p].want = 0 /\ proc[p].ret # "free_inode" /\ inode[s].num \notin names
      BY <2>0, CallFields DEF Stage, Looking, Using, Core, Entering
    <2> DEFINE r == [proc[p] EXCEPT !.pc = "iput"]
    <2>3. /\ r \in Calls /\ r.pc = "iput" /\ r.ret = proc[p].ret /\ r.hold = s
          /\ r.empty = proc[p].empty /\ r.want = proc[p].want
      BY <2>0 DEF Calls, Labels
    <2>4. proc' = [proc EXCEPT ![p] = r]
      BY <2>1
    <2> HIDE DEF r
    <2>6. Stage(r)
      BY <2>0, <2>2, <2>3 DEF Stage, Looking, Using
    <2>8. latest[inode[s].num].nlinks # 0
      BY <2>0 DEF Core, Entering
    <2>7. img \in Images
      BY <2>0, <2>2, <2>8, LastImage, DropLink
    <2> HIDE DEF img
    <2> QED BY <2>0, <2>1, <2>2, <2>3, <2>4, <2>6, <2>7, ChangeMoves
  <1> QED BY <1>1, <1>2
-----------------------------------------------------------------------------
\* The process has a reference to slot s.
Uses(r, s) == r.hold = s \/ r.empty = s

\* References are finitely many.
LEMMA UsersFinite ==
    ASSUME NEW s
    PROVE  IsFiniteSet(Users(s)) /\ Cardinality(Users(s)) \in Nat
  <1>1. Users(s) \in SUBSET Procs
    BY DEF Users
  <1>2. IsFiniteSet(Users(s))
    BY <1>1, Constants, FS_Subset
  <1> QED BY <1>2, FS_CardinalityType

\* The number of references when one process changes.
LEMMA Recount ==
    ASSUME Core, NEW p \in Procs, NEW r \in Calls, proc' = [proc EXCEPT ![p] = r], NEW s \in Slots
    PROVE  Cardinality(Users(s)') = Cardinality(Users(s)) + (IF Uses(r, s) THEN 1 ELSE 0)
                                        - (IF Uses(proc[p], s) THEN 1 ELSE 0)
  <1>1. proc \in [Procs -> Calls]
    BY DEF Core, Typed
  <1>2. proc'[p] = r /\ \A q \in Procs : q # p => proc'[q] = proc[q]
    BY <1>1
  <1>3. /\ \A q \in Procs : q \in Users(s) <=> Uses(proc[q], s)
        /\ \A q \in Procs : q \in Users(s)' <=> Uses(proc'[q], s)
        /\ Users(s) \subseteq Procs /\ Users(s)' \subseteq Procs
    BY DEF Users, Uses
  <1>4. IsFiniteSet(Users(s)) /\ Cardinality(Users(s)) \in Nat
    BY UsersFinite
  <1> DEFINE U == Users(s)  V == Users(s)'
  <1>5. \A q \in Procs : q # p => (q \in U <=> q \in V)
    BY <1>2, <1>3
  <1>6. (p \in U <=> Uses(proc[p], s)) /\ (p \in V <=> Uses(r, s)) /\ U \subseteq Procs /\ V \subseteq Procs
    BY <1>2, <1>3
  <1> HIDE DEF U, V
  <1>7. IsFiniteSet(U) /\ Cardinality(U) \in Nat
    BY <1>4 DEF U
  <1>8. CASE p \in U <=> p \in V
    <2>1. U = V
      BY <1>5, <1>6, <1>8
    <2> QED BY <1>6, <1>7, <1>8, <2>1 DEF U, V
  <1>9. CASE p \in U /\ p \notin V
    <2>1. V = U \ {p}
      BY <1>5, <1>6, <1>9
    <2>2. Cardinality(V) = Cardinality(U) - 1
      BY <1>7, <1>9, <2>1, FS_RemoveElement
    <2> QED BY <1>6, <1>7, <1>9, <2>2 DEF U, V
  <1>10. CASE p \notin U /\ p \in V
    <2>1. V = U \cup {p}
      BY <1>5, <1>6, <1>10
    <2>2. Cardinality(V) = Cardinality(U) + 1
      BY <1>7, <1>10, <2>1, FS_AddElement
    <2> QED BY <1>6, <1>7, <1>10, <2>2 DEF U, V
  <1> QED BY <1>8, <1>9, <1>10

\* What i_count says of references: none, and only one's own.
LEMMA CountMeans ==
    ASSUME Core, NEW s \in Slots
    PROVE  /\ inode[s].count \in Nat
           /\ inode[s].count = 0 => \A q \in Procs : ~Uses(proc[q], s)
           /\ \A p \in Procs : Uses(proc[p], s) =>
                 /\ inode[s].count > 0
                 /\ inode[s].count <= 1 => \A q \in Procs : q # p => ~Uses(proc[q], s)
  <1>1. inode[s].count = Cardinality(Users(s))
    BY DEF Core, Counted
  <1>2. IsFiniteSet(Users(s)) /\ Cardinality(Users(s)) \in Nat
    BY UsersFinite
  <1>3. \A q \in Procs : q \in Users(s) <=> Uses(proc[q], s)
    BY DEF Users, Uses
  <1>4. Cardinality(Users(s)) = 0 => Users(s) = {}
    BY <1>2, FS_EmptySet
  <1>5. ASSUME NEW p \in Procs, Uses(proc[p], s)
        PROVE  /\ inode[s].count > 0
               /\ inode[s].count <= 1 => \A q \in Procs : q # p => ~Uses(proc[q], s)
    <2>1. p \in Users(s)
      BY <1>3, <1>5
    <2>2. Cardinality(Users(s) \ {p}) = Cardinality(Users(s)) - 1 /\ IsFiniteSet(Users(s) \ {p})
      BY <1>2, <2>1, FS_RemoveElement
    <2>3. Cardinality(Users(s) \ {p}) \in Nat
      BY <2>2, FS_CardinalityType
    <2>4. Cardinality(Users(s) \ {p}) = 0 => Users(s) \ {p} = {}
      BY <2>2, FS_EmptySet
    <2>5. inode[s].count > 0
      BY <1>1, <1>2, <2>2, <2>3
    <2>6. inode[s].count <= 1 => Cardinality(Users(s) \ {p}) = 0
      BY <1>1, <1>2, <2>2, <2>3
    <2> QED BY <1>3, <2>4, <2>5, <2>6
  <1> QED BY <1>1, <1>2, <1>3, <1>4, <1>5

\* The slots that processes have locked.
LEMMA LockSlots ==
    ASSUME Core, NEW q \in Procs
    PROVE  /\ LockOf(proc[q]) \in Slots \cup {NULL}
           /\ proc[q].pc = "reading" => proc[q].hold \in Slots /\ LockOf(proc[q]) = proc[q].hold
           /\ proc[q].pc = "writing" => proc[q].cur \in Slots /\ LockOf(proc[q]) = proc[q].cur
  <1>1. proc[q] \in Calls /\ Stage(proc[q])
    BY DEF Core, Typed, Staged
  <1> QED BY <1>1, CallFields DEF LockOf, Stage, Using

\* A cleared entry.
LEMMA ZeroType ==
    /\ Zero \in Entries /\ Zero.num = 0 /\ Zero.count = 0 /\ ~Zero.dirt /\ ~Zero.lock
    /\ LET e == [Zero EXCEPT !.count = 1] IN
       e \in Entries /\ e.num = 0 /\ e.count = 1 /\ ~e.dirt /\ ~e.lock
  <1>1. Gone \in Images
    <2>1. [k \in Ways |-> 0] \in [Ways -> Zones \cup {0}]
      OBVIOUS
    <2> QED BY <2>1 DEF Gone, Images
  <1>2. Zero \in Entries /\ Zero.num = 0 /\ Zero.count = 0 /\ Zero.dirt = FALSE /\ Zero.lock = FALSE
    BY <1>1 DEF Zero, Entries
  <1> DEFINE e == [Zero EXCEPT !.count = 1]
  <1>3. e \in Entries /\ e.num = Zero.num /\ e.count = 1 /\ e.dirt = Zero.dirt /\ e.lock = Zero.lock
    BY <1>2 DEF Entries
  <1> HIDE DEF e
  <1> QED BY <1>2, <1>3 DEF e
-----------------------------------------------------------------------------
\* get_empty_inode takes a slot nobody refers to.
LEMMA TakeSlot ==
    ASSUME Core, NEW p \in Procs, Claim(p),
           ~inode[proc[p].cur].dirt, ~(inode[proc[p].cur].count > 0)
    PROVE  Core'
  <1>0. Typed /\ Staged /\ Counted /\ Held /\ Emptied /\ Table /\ Locked /\ Alone /\ Fresh
        /\ Kept /\ Wanted /\ Freeing /\ Entering
    BY DEF Core
  <1>1. /\ proc \in [Procs -> Calls] /\ inode \in [Slots -> Entries] /\ latest \in [Nums -> Images]
        /\ disk \in [Nums -> Images] /\ imap \subseteq Nums
    BY <1>0 DEF Typed
  <1> DEFINE s == proc[p].cur  e == [Zero EXCEPT !.count = 1]
              r == [proc[p] EXCEPT !.pc = "search", !.empty = s]
  <1>9. /\ proc[p] \in Calls /\ proc[p].pc = "claim" /\ Stage(proc[p]) /\ cpu \in {NULL, p}
        /\ proc[p].empty = NULL
    BY Here DEF Claim
  <1>10. s \in Slots /\ proc[p].hold = NULL
    BY <1>9 DEF Stage, Looking
  <1>11. /\ ~inode[s].lock /\ UNCHANGED <<disk, imap, zmap, entry, names, latest>>
         /\ inode' = [inode EXCEPT ![s] = e] /\ proc' = [proc EXCEPT ![p] = r]
    BY DEF Claim, Runs
  <1>12. /\ r \in Calls /\ r.pc = "search" /\ r.ret = proc[p].ret /\ r.want = proc[p].want
         /\ r.hold = NULL /\ r.empty = s /\ r.cur = proc[p].cur
    BY <1>9, <1>10 DEF Calls, Labels
  <1>13. e \in Entries /\ e.num = 0 /\ e.count = 1 /\ ~e.dirt /\ ~e.lock
    BY ZeroType
  <1> HIDE DEF e, r
  <1>4. proc' = [proc EXCEPT ![p] = r] /\ r \in Calls
    BY <1>11, <1>12
  <1>2. proc'[p] = r /\ \A q \in Procs : q # p => proc'[q] = proc[q]
    BY <1>1, <1>11
  <1>3. inode'[s] = e /\ \A t \in Slots : t # s => inode'[t] = inode[t]
    BY <1>1, <1>10, <1>11
  <1>5. Stage(r)
    BY <1>9, <1>10, <1>12, Constants DEF Stage, Looking, Using
  <1>6. ~inode[s].dirt /\ inode[s].count = 0 /\ \A q \in Procs : ~Uses(proc[q], s)
    BY <1>10, CountMeans
  <1>7. \A q \in Procs : proc[q].hold # s /\ proc[q].empty # s /\ LockOf(proc[q]) # s
    BY <1>0, <1>6, <1>10, <1>11, Constants DEF Uses, Locked
  <1>8. LockOf(r) = NULL /\ LockOf(proc[p]) = NULL
    BY <1>9, <1>12 DEF LockOf
  <1> HIDE DEF s
  <1>14. Typed'
    BY <1>0, <1>1, <1>4, <1>10, <1>11, <1>13 DEF Typed
  <1>15. Staged'
    BY <1>0, <1>2, <1>5 DEF Staged
  <1>16. Counted'
    <2> SUFFICES ASSUME NEW t \in Slots PROVE inode'[t].count = Cardinality(Users(t)')
      BY DEF Counted
    <2>1. inode[t].count = Cardinality(Users(t)) /\ Cardinality(Users(t)) \in Nat
      BY <1>0, UsersFinite DEF Counted
    <2>2. Cardinality(Users(t)') = Cardinality(Users(t)) + (IF Uses(r, t) THEN 1 ELSE 0)
                                        - (IF Uses(proc[p], t) THEN 1 ELSE 0)
      BY <1>4, Recount
    <2> QED BY <1>3, <1>6, <1>10, <1>12, <1>13, <1>9, <2>1, <2>2, Constants DEF Uses
  <1>17. Held'
    BY <1>0, <1>2, <1>3, <1>7, <1>12, Constants DEF Held
  <1>18. Emptied'
    BY <1>0, <1>2, <1>3, <1>7, <1>12, <1>13 DEF Emptied
  <1>19. Table'
    BY <1>0, <1>3, <1>11, <1>13 DEF Table
  <1>20. Locked'
    BY <1>0, <1>2, <1>3, <1>7, <1>8, LockSlots DEF Locked
  <1>21. Alone'
    BY <1>0, <1>2, <1>3, <1>7, <1>12, LockSlots, Constants DEF Alone
  <1>22. Fresh'
    BY <1>0, <1>2, <1>3, <1>7, <1>11, <1>13, <1>12, <1>9 DEF Fresh
  <1>23. Kept'
    <2>1. \A m : Truncating(m) => Truncating(m)'
      BY <1>2, <1>3, <1>7, <1>9, StillCut DEF Cutting
    <2> QED BY <1>0, <1>3, <1>6, <1>11, <2>1 DEF Kept
  <1>24. Wanted'
    BY <1>0, <1>2, <1>11, <1>12 DEF Wanted
  <1>25. Freeing'
    <2>1. \A q \in Procs : proc'[q].ret = "free_inode" => q # p /\ proc[q].hold \in Slots
      BY <1>0, <1>2, <1>5, <1>12 DEF Staged, Stage, Using
    <2> QED BY <1>0, <1>2, <1>3, <1>7, <1>11, <1>12, <2>1 DEF Freeing
  <1>26. Entering'
    <2> SUFFICES ASSUME NEW q \in Procs, proc'[q].pc = "enter" PROVE FALSE
      BY DEF Entering
    <2>1. q # p /\ proc[q].pc = "enter"
      BY <1>2, <1>12
    <2>2. cpu = q
      BY <1>0, <2>1 DEF Entering
    <2> QED BY <2>1, <2>2, <1>9, Constants
  <1> QED BY <1>14, <1>15, <1>16, <1>17, <1>18, <1>19, <1>20, <1>21, <1>22, <1>23, <1>24, <1>25, <1>26 DEF Core

\* write_inode locks a dirty inode.
LEMMA WriteBegins ==
    ASSUME Core, NEW p \in Procs, WriteInode(p), inode[proc[p].cur].dirt, inode[proc[p].cur].num # 0
    PROVE  Core'
  <1>0. Typed /\ Staged /\ Counted /\ Held /\ Emptied /\ Table /\ Locked /\ Alone /\ Fresh
        /\ Kept /\ Wanted /\ Freeing /\ Entering
    BY DEF Core
  <1>1. /\ proc \in [Procs -> Calls] /\ inode \in [Slots -> Entries] /\ latest \in [Nums -> Images]
        /\ disk \in [Nums -> Images] /\ imap \subseteq Nums
    BY <1>0 DEF Typed
  <1> DEFINE s == proc[p].cur  e == [inode[s] EXCEPT !.lock = TRUE]
              r == [proc[p] EXCEPT !.pc = "writing"]
  <1>9. /\ proc[p] \in Calls /\ proc[p].pc = "write" /\ Stage(proc[p]) /\ cpu \in {NULL, p}
        /\ proc[p].empty = NULL
    BY Here DEF WriteInode
  <1>10. s \in Slots /\ inode[s].num # 0
    BY <1>9 DEF Stage
  <1>11. /\ ~inode[s].lock /\ UNCHANGED <<disk, imap, zmap, entry, names, latest>>
         /\ inode' = [inode EXCEPT ![s] = e] /\ proc' = [proc EXCEPT ![p] = r]
    BY DEF WriteInode, Sleeps
  <1>12. /\ r \in Calls /\ r.pc = "writing" /\ r.ret = proc[p].ret /\ r.want = proc[p].want
         /\ r.hold = proc[p].hold /\ r.empty = NULL /\ r.cur = s
    BY <1>9, <1>10 DEF Calls, Labels
  <1>13. e \in Entries /\ e.num = inode[s].num /\ e.count = inode[s].count /\ e.dirt = inode[s].dirt
         /\ e.lock /\ e.img = inode[s].img
    <2>1. inode[s] \in Entries
      BY <1>1, <1>10
    <2> QED BY <2>1 DEF Entries
  <1> HIDE DEF e, r
  <1>4. proc' = [proc EXCEPT ![p] = r] /\ r \in Calls
    BY <1>11, <1>12
  <1>2. proc'[p] = r /\ \A q \in Procs : q # p => proc'[q] = proc[q]
    BY <1>1, <1>11
  <1>3. /\ inode'[s] = e /\ \A t \in Slots : t # s => inode'[t] = inode[t]
        /\ \A t \in Slots : /\ inode'[t].num = inode[t].num /\ inode'[t].count = inode[t].count
                            /\ inode'[t].dirt = inode[t].dirt /\ inode'[t].img = inode[t].img
    BY <1>1, <1>10, <1>11, <1>13
  <1>5. Stage(r)
    BY <1>9, <1>10, <1>12 DEF Stage, Looking, Using
  <1>6. /\ \A q \in Procs : proc'[q].hold = proc[q].hold /\ proc'[q].empty = proc[q].empty
        /\ \A q \in Procs : proc'[q].want = proc[q].want /\ proc'[q].ret = proc[q].ret
        /\ \A q \in Procs : proc'[q].pc = "reading" <=> proc[q].pc = "reading"
    BY <1>2, <1>9, <1>12
  <1>7. \A q \in Procs : LockOf(proc[q]) # s /\ proc[q].empty # s
    BY <1>0, <1>10, <1>11, Constants DEF Locked, Emptied
  <1>8. LockOf(r) = s /\ LockOf(proc[p]) = NULL
    BY <1>9, <1>12 DEF LockOf
  <1> HIDE DEF s
  <1>14. Typed'
    BY <1>0, <1>1, <1>4, <1>10, <1>11, <1>13 DEF Typed
  <1>15. Staged'
    BY <1>0, <1>2, <1>5 DEF Staged
  <1>16. Counted'
    <2>1. \A t \in Slots : Users(t)' = Users(t)
      BY <1>6 DEF Users
    <2> QED BY <1>0, <1>3, <2>1 DEF Counted
  <1>17. Held'
    BY <1>0, <1>3, <1>6 DEF Held
  <1>18. Emptied'
    BY <1>0, <1>3, <1>6, <1>7 DEF Emptied
  <1>19. Table'
    BY <1>0, <1>3, <1>11 DEF Table
  <1>20. Locked'
    BY <1>0, <1>2, <1>3, <1>7, <1>8, <1>10, <1>13, LockSlots DEF Locked
  <1>21. Alone'
    <2>1. \A q \in Procs : proc[q].pc = "reading" => proc[q].hold \in Slots
      BY LockSlots
    <2> QED BY <1>0, <1>3, <1>6, <2>1 DEF Alone
  <1>22. Fresh'
    BY <1>0, <1>3, <1>6, <1>11 DEF Fresh
  <1>23. Kept'
    <2>1. \A m : Truncating(m) => Truncating(m)'
      BY <1>2, <1>3, <1>9, StillCut DEF Cutting
    <2> QED BY <1>0, <1>3, <1>11, <2>1 DEF Kept
  <1>24. Wanted'
    BY <1>0, <1>6, <1>11 DEF Wanted
  <1>25. Freeing'
    <2>1. \A q \in Procs : proc[q].ret = "free_inode" => proc[q].hold \in Slots
      BY <1>0 DEF Staged, Stage, Using
    <2> QED BY <1>0, <1>3, <1>6, <1>11, <2>1 DEF Freeing
  <1>26. Entering'
    <2> SUFFICES ASSUME NEW q \in Procs, proc'[q].pc = "enter" PROVE FALSE
      BY DEF Entering
    <2>1. q # p /\ proc[q].pc = "enter"
      BY <1>2, <1>12
    <2>2. cpu = q
      BY <1>0, <2>1 DEF Entering
    <2> QED BY <2>1, <2>2, <1>9, Constants
  <1> QED BY <1>14, <1>15, <1>16, <1>17, <1>18, <1>19, <1>20, <1>21, <1>22, <1>23, <1>24, <1>25, <1>26 DEF Core

\* write_inode ends: the disk has what the table has.
LEMMA WriteEnds ==
    ASSUME Core, NEW p \in Procs, WriteDone(p)
    PROVE  Core'
  <1>0. Typed /\ Staged /\ Counted /\ Held /\ Emptied /\ Table /\ Locked /\ Alone /\ Fresh
        /\ Kept /\ Wanted /\ Freeing /\ Entering
    BY DEF Core
  <1>1. /\ proc \in [Procs -> Calls] /\ inode \in [Slots -> Entries] /\ latest \in [Nums -> Images]
        /\ disk \in [Nums -> Images] /\ imap \subseteq Nums
    BY <1>0 DEF Typed
  <1> DEFINE s == proc[p].cur  e == [inode[s] EXCEPT !.dirt = FALSE, !.lock = FALSE]
              n == inode[s].num  r == [proc[p] EXCEPT !.pc = proc[p].ret]
  <1>9. /\ proc[p] \in Calls /\ proc[p].pc = "writing" /\ Stage(proc[p]) /\ cpu \in {NULL, p}
        /\ proc[p].empty = NULL
    BY Here DEF WriteDone
  <1>10. s \in Slots /\ LockOf(proc[p]) = s /\ proc[p].ret \in {"claim", "iput", "sync"}
    BY <1>9, LockSlots DEF Stage
  <1>11. /\ UNCHANGED <<imap, zmap, entry, names, latest>> /\ disk' = [disk EXCEPT ![n] = inode[s].img]
         /\ inode' = [inode EXCEPT ![s] = e] /\ proc' = [proc EXCEPT ![p] = r]
    <2>1. inode' = [inode EXCEPT ![s].dirt = FALSE, ![s].lock = FALSE]
      BY DEF WriteDone
    <2> QED BY <1>1, <1>10, <2>1 DEF WriteDone, Runs
  <1>12. /\ r \in Calls /\ r.pc = proc[p].ret /\ r.ret = proc[p].ret /\ r.want = proc[p].want
         /\ r.hold = proc[p].hold /\ r.empty = NULL /\ r.cur = s
    BY <1>9, <1>10 DEF Calls, Labels
  <1>13. e \in Entries /\ e.num = inode[s].num /\ e.count = inode[s].count /\ ~e.dirt
         /\ ~e.lock /\ e.img = inode[s].img /\ inode[s].img \in Images
    <2>1. inode[s] \in Entries
      BY <1>1, <1>10
    <2> QED BY <2>1 DEF Entries
  <1> HIDE DEF e, r
  <1>4. proc' = [proc EXCEPT ![p] = r] /\ r \in Calls
    BY <1>11, <1>12
  <1>2. proc'[p] = r /\ \A q \in Procs : q # p => proc'[q] = proc[q]
    BY <1>1, <1>11
  <1>3. /\ inode'[s] = e /\ \A t \in Slots : t # s => inode'[t] = inode[t]
        /\ \A t \in Slots : /\ inode'[t].num = inode[t].num /\ inode'[t].count = inode[t].count
                            /\ inode'[t].img = inode[t].img
    BY <1>1, <1>10, <1>11, <1>13
  <1>5. Stage(r)
    <2>1. s \in 1 .. NR_INODE + 1
      BY <1>10, Constants DEF Slots
    <2> QED BY <1>9, <1>10, <1>12, <2>1 DEF Stage, Looking, Using
  <1>6. /\ \A q \in Procs : proc'[q].hold = proc[q].hold /\ proc'[q].empty = proc[q].empty
        /\ \A q \in Procs : proc'[q].want = proc[q].want /\ proc'[q].ret = proc[q].ret
        /\ \A q \in Procs : proc'[q].pc = "reading" <=> proc[q].pc = "reading"
    BY <1>2, <1>9, <1>10, <1>12
  <1>7. /\ n # 0 /\ n \in imap /\ n \in Nums
        /\ \A q \in Procs : q # p => LockOf(proc[q]) # s
        /\ \A t \in Slots : inode[t].num = n => t = s
    BY <1>0, <1>1, <1>10, Constants DEF Locked, Table
  <1>8. LockOf(r) = NULL
    BY <1>10, <1>12 DEF LockOf
  <1>30. disk'[n] = latest[n] /\ \A m \in Nums : m # n => disk'[m] = disk[m]
    <2>1. \A q \in Procs : ~(proc[q].pc = "reading" /\ proc[q].hold = s)
      BY <1>7, <1>9, LockSlots
    <2>2. inode[s].img = latest[n]
      BY <1>0, <1>7, <1>10, <2>1 DEF Fresh
    <2> QED BY <1>1, <1>7, <1>11, <2>2
  <1> HIDE DEF s, n
  <1>14. Typed'
    BY <1>0, <1>1, <1>4, <1>10, <1>11, <1>13 DEF Typed
  <1>15. Staged'
    BY <1>0, <1>2, <1>5 DEF Staged
  <1>16. Counted'
    <2>1. \A t \in Slots : Users(t)' = Users(t)
      BY <1>6 DEF Users
    <2> QED BY <1>0, <1>3, <2>1 DEF Counted
  <1>17. Held'
    BY <1>0, <1>3, <1>6 DEF Held
  <1>18. Emptied'
    BY <1>0, <1>3, <1>6, <1>13 DEF Emptied
  <1>19. Table'
    BY <1>0, <1>3, <1>11 DEF Table
  <1>20. Locked'
    BY <1>0, <1>2, <1>3, <1>7, <1>8, LockSlots, Constants DEF Locked
  <1>21. Alone'
    <2>1. \A q \in Procs : proc[q].pc = "reading" => proc[q].hold \in Slots
      BY LockSlots
    <2> QED BY <1>0, <1>3, <1>6, <1>13, <2>1 DEF Alone
  <1>22. Fresh'
    BY <1>0, <1>3, <1>6, <1>11 DEF Fresh
  <1>23. Kept'
    <2> SUFFICES ASSUME NEW m \in imap, \A t \in Slots : inode'[t].num = m => ~inode'[t].dirt
                 PROVE  disk'[m] = latest[m] \/ Truncating(m)'
      BY <1>11 DEF Kept
    <2>1. CASE m = n
      BY <1>30, <2>1
    <2>2. CASE m # n
      <3>1. \A t \in Slots : inode[t].num = m => ~inode[t].dirt
        BY <1>3, <2>2 DEF n
      <3>2. Truncating(m) => Truncating(m)'
        BY <1>2, <1>3, <1>9, StillCut DEF Cutting
      <3> QED BY <1>0, <1>1, <1>30, <2>2, <3>1, <3>2 DEF Kept
    <2> QED BY <2>1, <2>2
  <1>24. Wanted'
    BY <1>0, <1>6, <1>11 DEF Wanted
  <1>25. Freeing'
    <2>1. \A q \in Procs : proc[q].ret = "free_inode" => proc[q].hold \in Slots
      BY <1>0 DEF Staged, Stage, Using
    <2> QED BY <1>0, <1>3, <1>6, <1>11, <2>1 DEF Freeing
  <1>26. Entering'
    <2> SUFFICES ASSUME NEW q \in Procs, proc'[q].pc = "enter" PROVE FALSE
      BY DEF Entering
    <2>1. q # p /\ proc[q].pc = "enter"
      BY <1>2, <1>10, <1>12
    <2>2. cpu = q
      BY <1>0, <2>1 DEF Entering
    <2> QED BY <2>1, <2>2, <1>9, Constants
  <1> QED BY <1>14, <1>15, <1>16, <1>17, <1>18, <1>19, <1>20, <1>21, <1>22, <1>23, <1>24, <1>25, <1>26 DEF Core

\* iget makes the entry, locked, in the slot that is its own.
LEMMA ReadBegins ==
    ASSUME Core, NEW p \in Procs, Search(p), Cached(proc[p].want) = {}
    PROVE  Core'
  <1>0. Typed /\ Staged /\ Counted /\ Held /\ Emptied /\ Table /\ Locked /\ Alone /\ Fresh
        /\ Kept /\ Wanted /\ Freeing /\ Entering
    BY DEF Core
  <1>1. /\ proc \in [Procs -> Calls] /\ inode \in [Slots -> Entries] /\ latest \in [Nums -> Images]
        /\ disk \in [Nums -> Images] /\ imap \subseteq Nums
    BY <1>0 DEF Typed
  <1> DEFINE s == proc[p].empty  n == proc[p].want  e == [inode[s] EXCEPT !.num = n, !.lock = TRUE]
              r == [proc[p] EXCEPT !.pc = "reading", !.hold = s, !.empty = NULL]
  <1>9. /\ proc[p] \in Calls /\ proc[p].pc = "search" /\ Stage(proc[p]) /\ cpu \in {NULL, p}
    BY Here DEF Search
  <1>10. s \in Slots /\ proc[p].hold = NULL /\ n \in imap /\ n \in Nums
    BY <1>0, <1>1, <1>9 DEF Stage, Looking, Search, Wanted
  <1>11. /\ UNCHANGED <<disk, imap, zmap, entry, names, latest>>
         /\ inode' = [inode EXCEPT ![s] = e] /\ proc' = [proc EXCEPT ![p] = r]
    <2>1. inode' = [inode EXCEPT ![s].num = n, ![s].lock = TRUE]
      BY DEF Search
    <2> QED BY <1>1, <1>10, <2>1 DEF Search, Sleeps
  <1>12. /\ r \in Calls /\ r.pc = "reading" /\ r.ret = proc[p].ret /\ r.want = n
         /\ r.hold = s /\ r.empty = NULL
    BY <1>9, <1>10, ZenonT(60) DEF Calls, Labels
  <1>13. e \in Entries /\ e.num = n /\ e.count = inode[s].count /\ e.dirt = inode[s].dirt /\ e.lock
    <2>1. inode[s] \in Entries
      BY <1>1, <1>10
    <2> QED BY <1>10, <2>1 DEF Entries
  <1> HIDE DEF e, r
  <1>4. proc' = [proc EXCEPT ![p] = r] /\ r \in Calls
    BY <1>11, <1>12
  <1>2. proc'[p] = r /\ \A q \in Procs : q # p => proc'[q] = proc[q]
    BY <1>1, <1>11
  <1>3. inode'[s] = e /\ \A t \in Slots : t # s => inode'[t] = inode[t]
    BY <1>1, <1>10, <1>11
  <1>5. Stage(r)
    BY <1>9, <1>10, <1>12, Constants DEF Stage, Looking, Using
  <1>6. /\ inode[s].num = 0 /\ ~inode[s].dirt
        /\ \A q \in Procs : proc[q].hold # s /\ (q # p => proc[q].empty # s) /\ LockOf(proc[q]) # s
        /\ \A t \in Slots : inode[t].num # n
        /\ n # 0
    BY <1>0, <1>10, Constants DEF Emptied, Held, Locked, Cached
  <1>7. LockOf(r) = s /\ LockOf(proc[p]) = NULL
    BY <1>9, <1>12 DEF LockOf
  <1> HIDE DEF s, n
  <1>14. Typed'
    BY <1>0, <1>1, <1>4, <1>10, <1>11, <1>13 DEF Typed
  <1>15. Staged'
    BY <1>0, <1>2, <1>5 DEF Staged
  <1>16. Counted'
    <2>1. \A t \in Slots : Users(t)' = Users(t)
      BY <1>2, <1>10, <1>12, Constants DEF Users, s
    <2> QED BY <1>0, <1>3, <1>13, <2>1 DEF Counted
  <1>17. Held'
    BY <1>0, <1>2, <1>3, <1>6, <1>12, <1>13 DEF Held
  <1>18. Emptied'
    BY <1>0, <1>2, <1>3, <1>6, <1>12, Constants DEF Emptied
  <1>19. Table'
    BY <1>0, <1>3, <1>6, <1>10, <1>11, <1>13 DEF Table
  <1>20. Locked'
    BY <1>0, <1>2, <1>3, <1>6, <1>7, <1>10, <1>13, LockSlots DEF Locked
  <1>21. Alone'
    <2>1. \A q \in Procs : proc[q].pc = "reading" => proc[q].hold \in Slots
      BY LockSlots
    <2> QED BY <1>0, <1>2, <1>3, <1>6, <1>12, <1>13, <2>1 DEF Alone
  <1>22. Fresh'
    <2> SUFFICES ASSUME NEW t \in Slots, inode'[t].num # 0,
                        \A q \in Procs : ~(proc'[q].pc = "reading" /\ proc'[q].hold = t)
                 PROVE  inode'[t].img = latest'[inode'[t].num]
      BY DEF Fresh
    <2>1. t # s
      BY <1>2, <1>12
    <2>2. \A q \in Procs : ~(proc[q].pc = "reading" /\ proc[q].hold = t)
      BY <1>2, <1>9
    <2> QED BY <1>0, <1>3, <1>11, <2>1, <2>2 DEF Fresh
  <1>23. Kept'
    <2>1. \A m : Truncating(m) => Truncating(m)'
      BY <1>2, <1>3, <1>6, <1>9, StillCut DEF Cutting
    <2> QED BY <1>0, <1>3, <1>6, <1>11, <1>13, <2>1 DEF Kept
  <1>24. Wanted'
    BY <1>0, <1>2, <1>10, <1>11, <1>12 DEF Wanted
  <1>25. Freeing'
    <2>1. \A q \in Procs : proc'[q].ret = "free_inode" => q # p /\ proc[q].hold \in Slots
      BY <1>0, <1>2, <1>5, <1>12 DEF Staged, Stage, Using
    <2>2. \A q \in Procs : proc'[q].want = proc[q].want
      BY <1>2, <1>12 DEF n
    <2> QED BY <1>0, <1>2, <1>3, <1>6, <1>11, <2>1, <2>2 DEF Freeing
  <1>26. Entering'
    <2> SUFFICES ASSUME NEW q \in Procs, proc'[q].pc = "enter" PROVE FALSE
      BY DEF Entering
    <2>1. q # p /\ proc[q].pc = "enter"
      BY <1>2, <1>12
    <2>2. cpu = q
      BY <1>0, <2>1 DEF Entering
    <2> QED BY <2>1, <2>2, <1>9, Constants
  <1> QED BY <1>14, <1>15, <1>16, <1>17, <1>18, <1>19, <1>20, <1>21, <1>22, <1>23, <1>24, <1>25, <1>26 DEF Core

\* read_inode ends: the table has what the disk has, which is the last image.
LEMMA ReadEnds ==
    ASSUME Core, NEW p \in Procs, ReadDone(p)
    PROVE  Core'
  <1>0. Typed /\ Staged /\ Counted /\ Held /\ Emptied /\ Table /\ Locked /\ Alone /\ Fresh
        /\ Kept /\ Wanted /\ Freeing /\ Entering
    BY DEF Core
  <1>1. /\ proc \in [Procs -> Calls] /\ inode \in [Slots -> Entries] /\ latest \in [Nums -> Images]
        /\ disk \in [Nums -> Images] /\ imap \subseteq Nums
    BY <1>0 DEF Typed
  <1> DEFINE s == proc[p].hold  n == inode[s].num  e == [inode[s] EXCEPT !.img = disk[n], !.lock = FALSE]
              r == [Idle EXCEPT !.hold = s, !.ops = proc[p].ops]
  <1>9. /\ proc[p] \in Calls /\ proc[p].pc = "reading" /\ Stage(proc[p]) /\ cpu \in {NULL, p}
        /\ proc[p].empty = NULL
    BY Here DEF ReadDone
  <1>10. s \in Slots /\ LockOf(proc[p]) = s /\ proc[p].ops \in Int
    BY <1>9, LockSlots, CallFields
  <1>11. /\ UNCHANGED <<disk, imap, zmap, entry, names, latest>>
         /\ inode' = [inode EXCEPT ![s] = e] /\ proc' = [proc EXCEPT ![p] = r]
    <2>1. inode' = [inode EXCEPT ![s].img = disk[n], ![s].lock = FALSE]
      BY DEF ReadDone
    <2> QED BY <1>1, <1>10, <2>1 DEF ReadDone, Returns, Sleeps
  <1>12. /\ r \in Calls /\ r.pc = "idle" /\ r.ret = "idle" /\ r.want = 0
         /\ r.hold = s /\ r.empty = NULL /\ Stage(r)
    BY <1>10, Back
  <1>6. /\ n # 0 /\ n \in imap /\ n \in Nums /\ ~inode[s].dirt
        /\ \A q \in Procs : q # p => proc[q].hold # s /\ LockOf(proc[q]) # s
        /\ \A t \in Slots : inode[t].num = n => t = s
    BY <1>0, <1>1, <1>9, <1>10, Constants DEF Locked, Table, Alone
  <1>7. disk[n] = latest[n]
    <2>1. \A q \in Procs : proc[q].pc \in {"trunc", "descend", "free"} => proc[q].hold \in Slots
      BY <1>0 DEF Staged, Stage, Using
    <2>2. ~Truncating(n)
      BY <1>6, <1>9, <2>1 DEF Truncating
    <2> QED BY <1>0, <1>6, <2>2 DEF Kept
  <1>13. e \in Entries /\ e.num = n /\ e.count = inode[s].count /\ e.dirt = inode[s].dirt /\ ~e.lock
         /\ e.img = latest[n]
    <2>1. inode[s] \in Entries /\ disk[n] \in Images
      BY <1>1, <1>6, <1>10
    <2> QED BY <1>7, <2>1 DEF Entries
  <1> HIDE DEF e, r
  <1>4. proc' = [proc EXCEPT ![p] = r] /\ r \in Calls
    BY <1>11, <1>12
  <1>2. proc'[p] = r /\ \A q \in Procs : q # p => proc'[q] = proc[q]
    BY <1>1, <1>11
  <1>3. /\ inode'[s] = e /\ \A t \in Slots : t # s => inode'[t] = inode[t]
        /\ \A t \in Slots : /\ inode'[t].num = inode[t].num /\ inode'[t].count = inode[t].count
                            /\ inode'[t].dirt = inode[t].dirt
    BY <1>1, <1>10, <1>11, <1>13
  <1>5. /\ \A q \in Procs : proc'[q].hold = proc[q].hold /\ proc'[q].empty = proc[q].empty
    BY <1>2, <1>9, <1>12
  <1>8. LockOf(r) = NULL
    BY <1>12 DEF LockOf
  <1> HIDE DEF s, n
  <1>14. Typed'
    BY <1>0, <1>1, <1>4, <1>10, <1>11, <1>13 DEF Typed
  <1>15. Staged'
    BY <1>0, <1>2, <1>12 DEF Staged
  <1>16. Counted'
    <2>1. \A t \in Slots : Users(t)' = Users(t)
      BY <1>5 DEF Users
    <2> QED BY <1>0, <1>3, <2>1 DEF Counted
  <1>17. Held'
    BY <1>0, <1>3, <1>5 DEF Held
  <1>18. Emptied'
    BY <1>0, <1>3, <1>5, <1>13 DEF Emptied
  <1>19. Table'
    BY <1>0, <1>3, <1>11 DEF Table
  <1>20. Locked'
    BY <1>0, <1>2, <1>3, <1>6, <1>8, LockSlots, Constants DEF Locked
  <1>21. Alone'
    <2>1. \A q \in Procs : proc[q].pc = "reading" => proc[q].hold \in Slots
      BY LockSlots
    <2> QED BY <1>0, <1>2, <1>3, <1>5, <1>12, <2>1 DEF Alone
  <1>22. Fresh'
    <2> SUFFICES ASSUME NEW t \in Slots, inode'[t].num # 0,
                        \A q \in Procs : ~(proc'[q].pc = "reading" /\ proc'[q].hold = t)
                 PROVE  inode'[t].img = latest'[inode'[t].num]
      BY DEF Fresh
    <2>1. CASE t = s
      BY <1>3, <1>11, <1>13, <2>1
    <2>2. CASE t # s
      <3>1. \A q \in Procs : ~(proc[q].pc = "reading" /\ proc[q].hold = t)
        BY <1>2, <1>9, <2>2 DEF s
      <3> QED BY <1>0, <1>3, <1>11, <2>2, <3>1 DEF Fresh
    <2> QED BY <2>1, <2>2
  <1>23. Kept'
    <2>1. \A m : Truncating(m) => Truncating(m)'
      BY <1>2, <1>3, <1>9, StillCut DEF Cutting
    <2> QED BY <1>0, <1>3, <1>11, <2>1 DEF Kept
  <1>24. Wanted'
    BY <1>0, <1>2, <1>11, <1>12 DEF Wanted
  <1>25. Freeing'
    <2> SUFFICES ASSUME NEW q \in Procs, proc'[q].ret = "free_inode"
                 PROVE  /\ inode'[proc'[q].hold].num \notin names'
                        /\ \A u \in Procs \ {q} : proc'[u].want # inode'[proc'[q].hold].num
      BY DEF Freeing
    <2>1. q # p /\ proc[q].ret = "free_inode"
      BY <1>2, <1>12
    <2>2. proc[q].hold \in Slots /\ inode[proc[q].hold].num # 0
      BY <1>0, <2>1 DEF Staged, Stage, Using, Held
    <2> QED BY <1>0, <1>2, <1>3, <1>5, <1>11, <1>12, <2>1, <2>2 DEF Freeing
  <1>26. Entering'
    <2> SUFFICES ASSUME NEW q \in Procs, proc'[q].pc = "enter" PROVE FALSE
      BY DEF Entering
    <2>1. q # p /\ proc[q].pc = "enter"
      BY <1>2, <1>12
    <2>2. cpu = q
      BY <1>0, <2>1 DEF Entering
    <2> QED BY <2>1, <2>2, <1>9, Constants
  <1> QED BY <1>14, <1>15, <1>16, <1>17, <1>18, <1>19, <1>20, <1>21, <1>22, <1>23, <1>24, <1>25, <1>26 DEF Core
-----------------------------------------------------------------------------
\* A call returns, with or without a reference, and the counts follow.
LEMMA RecountMoves ==
    ASSUME Core, NEW p \in Procs, NEW s \in Slots \cup {NULL}, cpu \in {NULL, p},
           proc[p].pc \notin {"reading", "writing", "trunc", "descend", "free"}, Returns(p, s),
           s # NULL => inode[s].num # 0 /\ ~inode[s].lock,
           inode' \in [Slots -> Entries],
           \A t \in Slots :
               /\ inode'[t].num = inode[t].num /\ inode'[t].dirt = inode[t].dirt
               /\ inode'[t].lock = inode[t].lock /\ inode'[t].img = inode[t].img
               /\ inode'[t].count = inode[t].count + (IF s = t THEN 1 ELSE 0)
                                       - (IF Uses(proc[p], t) THEN 1 ELSE 0),
           UNCHANGED <<disk, imap, zmap, entry, names, latest>>
    PROVE  Core'
  <1>0. Typed /\ Staged /\ Counted /\ Held /\ Emptied /\ Table /\ Locked /\ Alone /\ Fresh
        /\ Kept /\ Wanted /\ Freeing /\ Entering
    BY DEF Core
  <1>1. /\ proc \in [Procs -> Calls] /\ inode \in [Slots -> Entries] /\ latest \in [Nums -> Images]
        /\ disk \in [Nums -> Images] /\ imap \subseteq Nums
    BY <1>0 DEF Typed
  <1> DEFINE r == [Idle EXCEPT !.hold = s, !.ops = proc[p].ops]
  <1>9. cpu \in {NULL, p} /\ proc[p] \in Calls /\ proc[p].ops \in Int
    BY <1>1, CallFields
  <1>12. /\ r \in Calls /\ r.pc = "idle" /\ r.ret = "idle" /\ r.want = 0
         /\ r.hold = s /\ r.empty = NULL /\ Stage(r)
    BY <1>9, Back
  <1>4. proc' = [proc EXCEPT ![p] = r] /\ r \in Calls
    BY <1>12 DEF Returns, Sleeps
  <1> HIDE DEF r
  <1>2. proc'[p] = r /\ \A q \in Procs : q # p => proc'[q] = proc[q]
    BY <1>1, <1>4
  <1>3. /\ \A t \in Slots : /\ inode'[t].num = inode[t].num /\ inode'[t].dirt = inode[t].dirt
                            /\ inode'[t].lock = inode[t].lock /\ inode'[t].img = inode[t].img
        /\ UNCHANGED <<disk, imap, zmap, entry, names, latest>>
    OBVIOUS
  <1>5. LockOf(r) = NULL /\ LockOf(proc[p]) = NULL
    BY <1>12 DEF LockOf
  <1>6. \A q \in Procs : s # NULL => LockOf(proc[q]) # s
    BY <1>0, Constants DEF Locked
  <1>7. \A q \in Procs : proc[q].pc = "reading" => proc[q].hold \in Slots /\ LockOf(proc[q]) = proc[q].hold
    BY LockSlots
  <1>8. \A q \in Procs : proc'[q].pc = "reading" <=> (q # p /\ proc[q].pc = "reading")
    BY <1>2, <1>12
  <1>14. Typed'
    BY <1>0, <1>1, <1>4 DEF Typed
  <1>15. Staged'
    BY <1>0, <1>2, <1>12 DEF Staged
  <1>16. Counted'
    <2> SUFFICES ASSUME NEW t \in Slots PROVE inode'[t].count = Cardinality(Users(t)')
      BY DEF Counted
    <2>1. inode[t].count = Cardinality(Users(t)) /\ Cardinality(Users(t)) \in Nat
      BY <1>0, UsersFinite DEF Counted
    <2>2. Cardinality(Users(t)') = Cardinality(Users(t)) + (IF Uses(r, t) THEN 1 ELSE 0)
                                        - (IF Uses(proc[p], t) THEN 1 ELSE 0)
      BY <1>4, Recount
    <2> QED BY <1>12, <2>1, <2>2, Constants DEF Uses
  <1>17. Held'
    BY <1>0, <1>2, <1>3, <1>12, Constants DEF Held
  <1>18. Emptied'
    BY <1>0, <1>2, <1>3, <1>12, Constants, SMTT(30) DEF Emptied
  <1>19. Table'
    BY <1>0, <1>3 DEF Table
  <1>20. Locked'
    BY <1>0, <1>2, <1>3, <1>5, LockSlots DEF Locked
  <1>21. Alone'
    BY <1>0, <1>2, <1>3, <1>6, <1>7, <1>8, <1>12, Constants DEF Alone
  <1>22. Fresh'
    BY <1>0, <1>2, <1>3, <1>8 DEF Fresh
  <1>23. Kept'
    <2>1. \A m : Truncating(m) => Truncating(m)'
      BY <1>2, <1>3, StillCut DEF Cutting
    <2> QED BY <1>0, <1>3, <2>1 DEF Kept
  <1>24. Wanted'
    BY <1>0, <1>2, <1>3, <1>12 DEF Wanted
  <1>25. Freeing'
    <2> SUFFICES ASSUME NEW q \in Procs, proc'[q].ret = "free_inode"
                 PROVE  /\ inode'[proc'[q].hold].num \notin names'
                        /\ \A u \in Procs \ {q} : proc'[u].want # inode'[proc'[q].hold].num
      BY DEF Freeing
    <2>1. q # p /\ proc[q].ret = "free_inode"
      BY <1>2, <1>12
    <2>2. proc[q].hold \in Slots /\ inode[proc[q].hold].num # 0
      BY <1>0, <2>1 DEF Staged, Stage, Using, Held
    <2> QED BY <1>0, <1>2, <1>3, <1>12, <2>1, <2>2 DEF Freeing
  <1>26. Entering'
    <2> SUFFICES ASSUME NEW q \in Procs, proc'[q].pc = "enter" PROVE FALSE
      BY DEF Entering
    <2>1. q # p /\ proc[q].pc = "enter"
      BY <1>2, <1>12
    <2>2. cpu = q
      BY <1>0, <2>1 DEF Entering
    <2> QED BY <2>1, <2>2, <1>9, Constants
  <1> QED BY <1>14, <1>15, <1>16, <1>17, <1>18, <1>19, <1>20, <1>21, <1>22, <1>23, <1>24, <1>25, <1>26 DEF Core

\* iget finds the inode, unlocked: one more reference, and the empty slot back.
LEMMA GotMoves ==
    ASSUME Core, NEW p \in Procs, NEW s \in Slots, At(p, "search") \/ At(p, "found"), Got(p, s),
           inode[s].num = proc[p].want, proc[p].want # 0, ~inode[s].lock,
           UNCHANGED <<disk, imap, zmap, entry, names, latest>>
    PROVE  Core'
  <1>1. /\ proc[p] \in Calls /\ proc[p].pc \in {"search", "found"} /\ Stage(proc[p])
        /\ cpu \in {NULL, p} /\ inode \in [Slots -> Entries]
    BY Here
  <1> DEFINE e == proc[p].empty
  <1>2. e \in Slots /\ proc[p].hold = NULL
    BY <1>1 DEF Stage, Looking
  <1>3. inode[e].num = 0
    BY <1>2 DEF Core, Emptied
  <1>4. /\ inode' = [inode EXCEPT ![s].count = @ + 1, ![e].count = @ - 1]
        /\ Returns(p, s)
    BY DEF Got
  <1>5. s # e
    BY <1>3
  <1>6. /\ \A t \in Slots : inode[t] \in Entries /\ inode[t].count \in Int
    BY <1>1, EntryFields
  <1>7. inode' = [inode EXCEPT ![s] = [inode[s] EXCEPT !.count = inode[s].count + 1],
                               ![e] = [inode[e] EXCEPT !.count = inode[e].count - 1]]
    BY <1>1, <1>2, <1>4, <1>5
  <1> DEFINE x == [inode[s] EXCEPT !.count = inode[s].count + 1]
             y == [inode[e] EXCEPT !.count = inode[e].count - 1]
  <1>8. /\ x \in Entries /\ x.num = inode[s].num /\ x.dirt = inode[s].dirt
        /\ x.lock = inode[s].lock /\ x.img = inode[s].img /\ x.count = inode[s].count + 1
    BY <1>6 DEF Entries
  <1>9. /\ y \in Entries /\ y.num = inode[e].num /\ y.dirt = inode[e].dirt
        /\ y.lock = inode[e].lock /\ y.img = inode[e].img /\ y.count = inode[e].count - 1
    BY <1>2, <1>6 DEF Entries
  <1>10. inode' = [inode EXCEPT ![s] = x, ![e] = y]
    BY <1>7
  <1> HIDE DEF x, y
  <1>11. /\ inode' \in [Slots -> Entries] /\ inode'[s] = x /\ inode'[e] = y
         /\ \A t \in Slots \ {s, e} : inode'[t] = inode[t]
    BY <1>1, <1>2, <1>5, <1>8, <1>9, <1>10
  <1>12. \A t \in Slots : Uses(proc[p], t) <=> t = e
    BY <1>2, Constants DEF Uses
  <1> HIDE DEF e
  <1>13. \A t \in Slots :
            /\ inode'[t].num = inode[t].num /\ inode'[t].dirt = inode[t].dirt
            /\ inode'[t].lock = inode[t].lock /\ inode'[t].img = inode[t].img
            /\ inode'[t].count = inode[t].count + (IF s = t THEN 1 ELSE 0)
                                    - (IF Uses(proc[p], t) THEN 1 ELSE 0)
    <2> SUFFICES ASSUME NEW t \in Slots
                 PROVE  /\ inode'[t].num = inode[t].num /\ inode'[t].dirt = inode[t].dirt
                        /\ inode'[t].lock = inode[t].lock /\ inode'[t].img = inode[t].img
                        /\ inode'[t].count = inode[t].count + (IF s = t THEN 1 ELSE 0)
                                                - (IF Uses(proc[p], t) THEN 1 ELSE 0)
      OBVIOUS
    <2>1. CASE t = s
      BY <1>5, <1>6, <1>8, <1>11, <1>12, <2>1
    <2>2. CASE t = e
      BY <1>2, <1>5, <1>6, <1>9, <1>11, <1>12, <2>2
    <2>3. CASE t # s /\ t # e
      BY <1>6, <1>11, <1>12, <2>3
    <2> QED BY <2>1, <2>2, <2>3
  <1> QED BY <1>1, <1>4, <1>11, <1>13, RecountMoves, SMTT(30)

\* Search and Found, with a hit.
LEMMA HitMoves ==
    ASSUME Core, NEW p \in Procs,
           \/ Found(p) /\ inode[proc[p].cur].num = proc[p].want
           \/ /\ Search(p) /\ Cached(proc[p].want) # {}
              /\ ~inode[Min(Cached(proc[p].want))].lock
    PROVE  Core'
  <1>1. CASE Found(p) /\ inode[proc[p].cur].num = proc[p].want
    <2>1. At(p, "found") /\ ~inode[proc[p].cur].lock /\ Got(p, proc[p].cur)
          /\ UNCHANGED <<disk, imap, zmap, entry, names, latest>>
      BY <1>1 DEF Found
    <2>2. proc[p].cur \in Slots /\ proc[p].want # 0
      BY <2>1, Here DEF Stage
    <2> QED BY <1>1, <2>1, <2>2, GotMoves
  <1>2. CASE Search(p) /\ Cached(proc[p].want) # {} /\ ~inode[Min(Cached(proc[p].want))].lock
    <2> DEFINE s == Min(Cached(proc[p].want))
    <2>1. At(p, "search") /\ ~inode[s].lock /\ Got(p, s) /\ proc[p].want # 0
          /\ UNCHANGED <<disk, imap, zmap, entry, names, latest>>
      BY <1>2 DEF Search
    <2>2. s \in Cached(proc[p].want)
      <3>1. Cached(proc[p].want) \in SUBSET Nat
        BY Constants DEF Cached, Slots
      <3> QED BY <1>2, <3>1, MinIn
    <2>3. s \in Slots /\ inode[s].num = proc[p].want
      BY <2>2 DEF Cached
    <2> HIDE DEF s
    <2> QED BY <2>1, <2>3, GotMoves
  <1> QED BY <1>1, <1>2

\* A reference is given back: iput, and new_inode without a free number.
LEMMA DropMoves ==
    ASSUME Core, NEW p \in Procs, NEW s \in Slots, cpu \in {NULL, p},
           proc[p].pc \notin {"reading", "writing", "trunc", "descend", "free"}, Returns(p, NULL),
           \A t \in Slots : Uses(proc[p], t) <=> t = s,
           inode' = [inode EXCEPT ![s].count = @ - 1],
           UNCHANGED <<disk, imap, zmap, entry, names, latest>>
    PROVE  Core'
  <1>1. inode \in [Slots -> Entries] /\ inode[s] \in Entries
    BY DEF Core, Typed
  <1>2. \A t \in Slots : inode[t].count \in Int
    BY <1>1, EntryFields
  <1> DEFINE y == [inode[s] EXCEPT !.count = inode[s].count - 1]
  <1>3. /\ y \in Entries /\ y.num = inode[s].num /\ y.dirt = inode[s].dirt
        /\ y.lock = inode[s].lock /\ y.img = inode[s].img /\ y.count = inode[s].count - 1
    BY <1>1, <1>2 DEF Entries
  <1>4. inode' = [inode EXCEPT ![s] = y]
    OBVIOUS
  <1> HIDE DEF y
  <1>5. inode' \in [Slots -> Entries] /\ inode'[s] = y /\ \A t \in Slots \ {s} : inode'[t] = inode[t]
    BY <1>1, <1>3, <1>4
  <1>6. \A t \in Slots :
            /\ inode'[t].num = inode[t].num /\ inode'[t].dirt = inode[t].dirt
            /\ inode'[t].lock = inode[t].lock /\ inode'[t].img = inode[t].img
            /\ inode'[t].count = inode[t].count + (IF NULL = t THEN 1 ELSE 0)
                                    - (IF Uses(proc[p], t) THEN 1 ELSE 0)
    BY <1>2, <1>3, <1>5, Constants
  <1> QED BY <1>5, <1>6, RecountMoves

\* iput, but for the file without names: panic, write_inode first, or a
\* reference less; and new_inode without a free number.
LEMMA PutMoves ==
    ASSUME Core, NEW p \in Procs,
           \/ iput(p) /\ inode[proc[p].hold].count = 0
           \/ /\ iput(p) /\ inode[proc[p].hold].count # 0
              /\ ~(inode[proc[p].hold].count = 1 /\ inode[proc[p].hold].img.nlinks = 0)
              /\ ~(inode[proc[p].hold].count = 1 /\ inode[proc[p].hold].dirt)
           \/ NewInode(p) /\ Nums \ imap = {}
    PROVE  Core'
  <1>1. CASE iput(p) /\ inode[proc[p].hold].count = 0
    BY <1>1, Stays DEF iput
  <1>2. CASE /\ iput(p) /\ inode[proc[p].hold].count # 0
             /\ ~(inode[proc[p].hold].count = 1 /\ inode[proc[p].hold].img.nlinks = 0)
             /\ ~(inode[proc[p].hold].count = 1 /\ inode[proc[p].hold].dirt)
    <2> DEFINE s == proc[p].hold
    <2>1. /\ At(p, "iput") /\ inode' = [inode EXCEPT ![s].count = @ - 1] /\ Returns(p, NULL)
          /\ UNCHANGED <<disk, imap, zmap, entry, names, latest>>
      BY <1>2 DEF iput
    <2>2. /\ proc[p].pc = "iput" /\ Stage(proc[p]) /\ cpu \in {NULL, p} /\ proc[p].empty = NULL
      BY <2>1, Here
    <2>3. s \in Slots
      BY <2>2 DEF Stage, Using
    <2>4. \A t \in Slots : Uses(proc[p], t) <=> t = s
      BY <2>2, Constants DEF Uses
    <2> HIDE DEF s
    <2> QED BY <2>1, <2>2, <2>3, <2>4, DropMoves
  <1>3. CASE NewInode(p) /\ Nums \ imap = {}
    <2> DEFINE s == proc[p].empty
    <2>1. /\ At(p, "search") /\ inode' = [inode EXCEPT ![s].count = @ - 1] /\ Returns(p, NULL)
          /\ UNCHANGED <<disk, imap, zmap, entry, names, latest>>
      BY <1>3 DEF NewInode
    <2>2. /\ proc[p].pc = "search" /\ Stage(proc[p]) /\ cpu \in {NULL, p}
      BY <2>1, Here
    <2>3. s \in Slots /\ proc[p].hold = NULL
      BY <2>2 DEF Stage, Looking
    <2>4. \A t \in Slots : Uses(proc[p], t) <=> t = s
      BY <2>3, Constants DEF Uses
    <2> HIDE DEF s
    <2> QED BY <2>1, <2>2, <2>3, <2>4, DropMoves
  <1> QED BY <1>1, <1>2, <1>3
-----------------------------------------------------------------------------
\* The entry that new_inode makes.
LEMMA FirstType ==
    ASSUME NEW n \in Nums
    PROVE  LET e == [Zero EXCEPT !.num = n, !.count = 1, !.dirt = TRUE, !.img.nlinks = 1] IN
           /\ e \in Entries /\ e.num = n /\ e.count = 1 /\ e.dirt /\ ~e.lock
           /\ e.img \in Images /\ e.img.nlinks = 1
  <1> DEFINE e == [Zero EXCEPT !.num = n, !.count = 1, !.dirt = TRUE, !.img.nlinks = 1]
             g == [Gone EXCEPT !.nlinks = 1]
  <1>1. g \in Images /\ g.nlinks = 1
    BY Constants DEF Gone, Images
  <1>2. Zero.img = Gone
    BY DEF Zero
  <1>3. e = [Zero EXCEPT !.num = n, !.count = 1, !.dirt = TRUE, !.img = g]
    BY <1>2
  <1> HIDE DEF e, g
  <1>4. e = [num |-> n, count |-> 1, dirt |-> TRUE, lock |-> FALSE, img |-> g]
    BY <1>3 DEF Zero
  <1>5. /\ e \in Entries /\ e.num = n /\ e.count = 1 /\ e.dirt = TRUE /\ e.lock = FALSE /\ e.img = g
    BY <1>1, <1>4 DEF Entries
  <1> QED BY <1>1, <1>5 DEF e

\* new_inode: the empty slot gets the first free number, and a first image.
LEMMA NewMoves ==
    ASSUME Core, NEW p \in Procs, NewInode(p), Nums \ imap # {}
    PROVE  Core'
  <1>0. Typed /\ Staged /\ Counted /\ Held /\ Emptied /\ Table /\ Locked /\ Alone /\ Fresh
        /\ Kept /\ Wanted /\ Freeing /\ Entering
    BY DEF Core
  <1>1. /\ proc \in [Procs -> Calls] /\ inode \in [Slots -> Entries] /\ latest \in [Nums -> Images]
        /\ disk \in [Nums -> Images] /\ imap \subseteq Nums
    BY <1>0 DEF Typed
  <1> DEFINE s == proc[p].empty  n == Min(Nums \ imap)
              e == [Zero EXCEPT !.num = n, !.count = 1, !.dirt = TRUE, !.img.nlinks = 1]
              r == [proc[p] EXCEPT !.pc = "enter", !.hold = s, !.empty = NULL]
  <1>9. /\ proc[p] \in Calls /\ proc[p].pc = "search" /\ Stage(proc[p]) /\ cpu \in {NULL, p}
        /\ proc[p].want = 0
    BY Here DEF NewInode
  <1>10. s \in Slots /\ proc[p].hold = NULL /\ proc[p].ret # "free_inode"
    BY <1>9 DEF Stage, Looking
  <1>14. n \in Nums /\ n \notin imap /\ n # 0
    <2>1. Nums \ imap \in SUBSET Nat
      BY Constants
    <2>2. n \in Nums \ imap
      BY <2>1, MinIn
    <2> HIDE DEF n
    <2> QED BY <2>2, Constants
  <1>11. /\ UNCHANGED <<disk, zmap, entry, names>> /\ imap' = imap \cup {n}
         /\ inode' = [inode EXCEPT ![s] = e] /\ latest' = [latest EXCEPT ![n] = inode'[s].img]
         /\ proc' = [proc EXCEPT ![p] = r] /\ cpu' = p
    BY DEF NewInode, Runs
  <1>12. /\ r \in Calls /\ r.pc = "enter" /\ r.ret = proc[p].ret /\ r.want = 0
         /\ r.hold = s /\ r.empty = NULL
    BY <1>9, <1>10, ZenonT(60) DEF Calls, Labels
  <1>13. /\ e \in Entries /\ e.num = n /\ e.count = 1 /\ e.dirt /\ ~e.lock
         /\ e.img \in Images /\ e.img.nlinks = 1
    BY <1>14, FirstType
  <1> HIDE DEF e, r, n
  <1>4. proc' = [proc EXCEPT ![p] = r] /\ r \in Calls
    BY <1>11, <1>12
  <1>2. proc'[p] = r /\ \A q \in Procs : q # p => proc'[q] = proc[q]
    BY <1>1, <1>11
  <1>3. inode'[s] = e /\ \A t \in Slots : t # s => inode'[t] = inode[t]
    BY <1>1, <1>10, <1>11
  <1>15. latest'[n] = e.img /\ (\A m \in Nums : m # n => latest'[m] = latest[m])
    BY <1>1, <1>3, <1>11, <1>14
  <1>5. Stage(r)
    BY <1>9, <1>10, <1>12, Constants DEF Stage, Looking, Using
  <1>6. /\ inode[s].num = 0 /\ ~inode[s].lock
        /\ \A q \in Procs : proc[q].hold # s /\ (q # p => proc[q].empty # s) /\ LockOf(proc[q]) # s
        /\ \A t \in Slots : inode[t].num # n
        /\ n \notin names /\ \A q \in Procs : proc[q].want # n
    BY <1>0, <1>10, <1>14, Constants DEF Emptied, Held, Locked, Table, Wanted
  <1>7. LockOf(r) = NULL
    BY <1>12 DEF LockOf
  <1>8. \A t \in Slots : inode[t].num # 0 => inode[t].num \in Nums /\ inode[t].num # n
    BY <1>0, <1>1, <1>6 DEF Table
  <1>16. \A t \in Slots : Uses(proc[p], t) <=> t = s
    BY <1>10, Constants DEF Uses
  <1>17. inode[s].count = 1
    <2>1. Users(s) = {p}
      BY <1>6, <1>10, Constants DEF Users
    <2> QED BY <1>0, <1>10, <2>1, FS_Singleton DEF Counted
  <1> HIDE DEF s
  <1>18. Typed'
    <2>1. latest' \in [Nums -> Images]
      BY <1>1, <1>3, <1>11, <1>13
    <2> QED BY <1>0, <1>1, <1>4, <1>10, <1>11, <1>13, <1>14, <2>1 DEF Typed
  <1>19. Staged'
    BY <1>0, <1>2, <1>5 DEF Staged
  <1>20. Counted'
    <2>1. \A t \in Slots : Users(t)' = Users(t)
      BY <1>2, <1>10, <1>12, Constants DEF Users, s
    <2> QED BY <1>0, <1>3, <1>13, <1>17, <2>1 DEF Counted
  <1>21. Held'
    BY <1>0, <1>2, <1>3, <1>6, <1>12, <1>13, <1>14 DEF Held
  <1>22. Emptied'
    BY <1>0, <1>2, <1>3, <1>6, <1>12, Constants DEF Emptied
  <1>23. Table'
    BY <1>0, <1>3, <1>6, <1>11, <1>13 DEF Table
  <1>24. Locked'
    BY <1>0, <1>2, <1>3, <1>6, <1>7, LockSlots DEF Locked
  <1>25. Alone'
    <2>1. \A q \in Procs : proc[q].pc = "reading" => proc[q].hold \in Slots
      BY LockSlots
    <2> QED BY <1>0, <1>2, <1>3, <1>6, <1>12, <2>1 DEF Alone
  <1>26. Fresh'
    <2> SUFFICES ASSUME NEW t \in Slots, inode'[t].num # 0,
                        \A q \in Procs : ~(proc'[q].pc = "reading" /\ proc'[q].hold = t)
                 PROVE  inode'[t].img = latest'[inode'[t].num]
      BY DEF Fresh
    <2>1. CASE t = s
      BY <1>3, <1>13, <1>15, <2>1
    <2>2. CASE t # s
      <3>1. \A q \in Procs : ~(proc[q].pc = "reading" /\ proc[q].hold = t)
        BY <1>2, <1>9
      <3> QED BY <1>0, <1>3, <1>8, <1>15, <2>2, <3>1 DEF Fresh
    <2> QED BY <2>1, <2>2
  <1>27. Kept'
    <2> SUFFICES ASSUME NEW m \in imap', \A t \in Slots : inode'[t].num = m => ~inode'[t].dirt
                 PROVE  disk'[m] = latest'[m] \/ Truncating(m)'
      BY DEF Kept
    <2>1. m # n
      BY <1>3, <1>10, <1>13
    <2>2. m \in imap /\ m \in Nums /\ m # 0
      BY <1>1, <1>11, <2>1, Constants
    <2>3. \A t \in Slots : inode[t].num = m => ~inode[t].dirt
      BY <1>3, <1>6, <2>2
    <2>4. Truncating(m) => Truncating(m)'
      BY <1>2, <1>3, <1>6, <1>9, StillCut DEF Cutting
    <2> QED BY <1>0, <1>11, <1>15, <2>1, <2>2, <2>3, <2>4 DEF Kept
  <1>28. Wanted'
    <2>1. \A m \in names : latest'[m] = latest[m]
      BY <1>0, <1>1, <1>6, <1>15 DEF Wanted
    <2> QED BY <1>0, <1>2, <1>11, <1>12, <2>1 DEF Wanted
  <1>29. Freeing'
    <2> SUFFICES ASSUME NEW q \in Procs, proc'[q].ret = "free_inode"
                 PROVE  /\ inode'[proc'[q].hold].num \notin names'
                        /\ \A u \in Procs \ {q} : proc'[u].want # inode'[proc'[q].hold].num
      BY DEF Freeing
    <2>1. q # p /\ proc[q].ret = "free_inode"
      BY <1>2, <1>10, <1>12
    <2>2. proc[q].hold \in Slots /\ inode[proc[q].hold].num # 0
      BY <1>0, <2>1 DEF Staged, Stage, Using, Held
    <2> QED BY <1>0, <1>2, <1>3, <1>6, <1>11, <1>12, <2>1, <2>2 DEF Freeing
  <1>30. Entering'
    <2> SUFFICES ASSUME NEW q \in Procs, proc'[q].pc = "enter"
                 PROVE  /\ cpu' = q
                        /\ inode'[proc'[q].hold].num \notin names'
                        /\ latest'[inode'[proc'[q].hold].num].nlinks # 0
                        /\ \A u \in Procs \ {q} : proc'[u].hold # proc'[q].hold
      BY DEF Entering
    <2>1. CASE q = p
      BY <1>2, <1>3, <1>6, <1>11, <1>12, <1>13, <1>15, <2>1
    <2>2. CASE q # p
      <3>1. proc[q].pc = "enter"
        BY <1>2, <2>2
      <3>2. cpu = q
        BY <1>0, <3>1 DEF Entering
      <3> QED BY <1>9, <2>2, <3>2, Constants
    <2> QED BY <2>1, <2>2
  <1> QED BY <1>18, <1>19, <1>20, <1>21, <1>22, <1>23, <1>24, <1>25, <1>26, <1>27, <1>28, <1>29, <1>30 DEF Core

\* The name is entered.
LEMMA EnterMoves ==
    ASSUME Core, NEW p \in Procs, At(p, "enter"), names' = names \cup {inode[proc[p].hold].num},
           Returns(p, proc[p].hold), UNCHANGED <<inode, disk, imap, zmap, entry, latest>>
    PROVE  Core'
  <1>0. Typed /\ Staged /\ Counted /\ Held /\ Emptied /\ Table /\ Locked /\ Alone /\ Fresh
        /\ Kept /\ Wanted /\ Freeing /\ Entering
    BY DEF Core
  <1>1. /\ proc \in [Procs -> Calls] /\ inode \in [Slots -> Entries] /\ latest \in [Nums -> Images]
        /\ disk \in [Nums -> Images] /\ imap \subseteq Nums
    BY <1>0 DEF Typed
  <1> DEFINE s == proc[p].hold  r == [Idle EXCEPT !.hold = s, !.ops = proc[p].ops]
  <1>9. /\ proc[p] \in Calls /\ proc[p].pc = "enter" /\ Stage(proc[p]) /\ cpu \in {NULL, p}
        /\ proc[p].empty = NULL
    BY Here
  <1>10. s \in Slots /\ proc[p].ops \in Int
    BY <1>9, CallFields DEF Stage, Using
  <1>11. proc' = [proc EXCEPT ![p] = r]
    BY DEF Returns, Sleeps
  <1>12. /\ r \in Calls /\ r.pc = "idle" /\ r.ret = "idle" /\ r.want = 0
         /\ r.hold = s /\ r.empty = NULL /\ Stage(r)
    BY <1>10, Back
  <1> HIDE DEF r
  <1>2. proc'[p] = r /\ \A q \in Procs : q # p => proc'[q] = proc[q]
    BY <1>1, <1>11
  <1>3. /\ \A q \in Procs : proc'[q].hold = proc[q].hold /\ proc'[q].empty = proc[q].empty
        /\ \A q \in Procs : proc'[q].pc = "reading" <=> proc[q].pc = "reading"
        /\ \A q \in Procs : LockOf(proc'[q]) = LockOf(proc[q])
    BY <1>2, <1>9, <1>12 DEF LockOf
  <1>4. /\ inode[s].num \in imap /\ latest[inode[s].num].nlinks # 0
        /\ \A q \in Procs : q # p => proc[q].hold # s
        /\ \A t \in Slots : inode[t].num = inode[s].num => t = s
    BY <1>0, <1>9, <1>10 DEF Entering, Held, Table
  <1>14. Typed'
    BY <1>0, <1>1, <1>11, <1>12 DEF Typed
  <1>15. Staged'
    BY <1>0, <1>2, <1>12 DEF Staged
  <1>16. Counted'
    <2>1. \A t \in Slots : Users(t)' = Users(t)
      BY <1>3 DEF Users
    <2> QED BY <1>0, <2>1 DEF Counted
  <1>17. Held'
    BY <1>0, <1>3 DEF Held
  <1>18. Emptied'
    BY <1>0, <1>3 DEF Emptied
  <1>19. Table'
    BY <1>0 DEF Table
  <1>20. Locked'
    BY <1>0, <1>3 DEF Locked
  <1>21. Alone'
    BY <1>0, <1>3 DEF Alone
  <1>22. Fresh'
    BY <1>0, <1>3 DEF Fresh
  <1>23. Kept'
    <2>1. \A m : Truncating(m) => Truncating(m)'
      BY <1>2, <1>9, StillCut DEF Cutting
    <2> QED BY <1>0, <2>1 DEF Kept
  <1>24. Wanted'
    BY <1>0, <1>2, <1>4, <1>12 DEF Wanted
  <1>25. Freeing'
    <2> SUFFICES ASSUME NEW q \in Procs, proc'[q].ret = "free_inode"
                 PROVE  /\ inode'[proc'[q].hold].num \notin names'
                        /\ \A u \in Procs \ {q} : proc'[u].want # inode'[proc'[q].hold].num
      BY DEF Freeing
    <2>1. q # p /\ proc[q].ret = "free_inode"
      BY <1>2, <1>12
    <2>2. proc[q].hold \in Slots /\ inode[proc[q].hold].num # 0
      BY <1>0, <2>1 DEF Staged, Stage, Using, Held
    <2> QED BY <1>0, <1>2, <1>3, <1>4, <1>12, <2>1, <2>2 DEF Freeing
  <1>26. Entering'
    <2> SUFFICES ASSUME NEW q \in Procs, proc'[q].pc = "enter" PROVE FALSE
      BY DEF Entering
    <2>1. q # p /\ proc[q].pc = "enter"
      BY <1>2, <1>12
    <2>2. cpu = q
      BY <1>0, <2>1 DEF Entering
    <2> QED BY <2>1, <2>2, <1>9, Constants
  <1> QED BY <1>14, <1>15, <1>16, <1>17, <1>18, <1>19, <1>20, <1>21, <1>22, <1>23, <1>24, <1>25, <1>26 DEF Core
-----------------------------------------------------------------------------
\* iput finds the last reference to a file without names: it is truncated, and
\* nobody is on the way to it.
LEMMA FreeBegins ==
    ASSUME Core, NEW p \in Procs, iput(p), ~raced', inode[proc[p].hold].count = 1,
           inode[proc[p].hold].img.nlinks = 0
    PROVE  Core'
  <1> DEFINE s == proc[p].hold  r == [proc[p] EXCEPT !.pc = "trunc", !.ret = "free_inode", !.way = 1]
  <1>1. /\ At(p, "iput") /\ raced' = (raced \/ Sought(p, inode[s].num))
        /\ proc' = [proc EXCEPT ![p] = r] /\ UNCHANGED inode
        /\ UNCHANGED <<disk, imap, zmap, entry, names, latest>>
    BY DEF iput, Runs
  <1>2. /\ proc[p] \in Calls /\ proc[p].pc = "iput" /\ Stage(proc[p]) /\ cpu \in {NULL, p}
        /\ proc[p].empty = NULL /\ zmap \subseteq Zones /\ entry \in [Zones -> Zones \cup {0}]
    BY <1>1, Here
  <1>3. s \in Slots /\ proc[p].want = 0
    BY <1>2, CallFields DEF Stage, Using, Looking
  <1>4. inode[s].num # 0 /\ inode[s].num \notin names
    BY <1>2, <1>3, LastImage
  <1>5. \A q \in Procs \ {p} : proc[q].want # inode[s].num
    BY <1>1, <1>4 DEF Sought
  <1>6. /\ r \in Calls /\ r.pc = "trunc" /\ r.ret = "free_inode" /\ r.way = 1 /\ r.hold = s
        /\ r.empty = proc[p].empty /\ r.want = proc[p].want
    BY <1>2, ZenonT(60) DEF Calls, Labels
  <1> HIDE DEF r
  <1>7. Stage(r)
    BY <1>2, <1>3, <1>6 DEF Stage, Looking, Using
  <1> QED BY <1>1, <1>2, <1>3, <1>4, <1>5, <1>6, <1>7, Moves, ZenonT(60)

\* free_inode clears an entry that nobody else refers to, has locked or wants.
LEMMA FreeEnds ==
    ASSUME Core, NEW p \in Procs, free_inode(p), ~raced'
    PROVE  Core'
  <1> DEFINE s == proc[p].hold  n == inode[s].num
              r == [Idle EXCEPT !.hold = NULL, !.ops = proc[p].ops]
  <1>20. CASE inode[s].count > 1 \/ inode[s].img.nlinks > 0
    BY <1>20, Stays DEF free_inode
  <1>21. CASE ~(inode[s].count > 1 \/ inode[s].img.nlinks > 0)
    <2>0. Typed /\ Staged /\ Counted /\ Held /\ Emptied /\ Table /\ Locked /\ Alone /\ Fresh
          /\ Kept /\ Wanted /\ Freeing /\ Entering
      BY DEF Core
    <2>1. /\ proc \in [Procs -> Calls] /\ inode \in [Slots -> Entries] /\ latest \in [Nums -> Images]
          /\ disk \in [Nums -> Images] /\ imap \subseteq Nums
      BY <2>0 DEF Typed
    <2>9. /\ proc[p] \in Calls /\ proc[p].pc = "free_inode" /\ Stage(proc[p]) /\ cpu \in {NULL, p}
          /\ proc[p].empty = NULL
      BY Here DEF free_inode
    <2>10. s \in Slots /\ proc[p].ret = "free_inode" /\ proc[p].ops \in Int /\ proc[p].want = 0
      BY <2>9, CallFields DEF Stage, Using, Looking
    <2>11. /\ UNCHANGED <<disk, zmap, entry, names, latest>> /\ imap' = imap \ {n}
           /\ inode' = [inode EXCEPT ![s] = Zero] /\ proc' = [proc EXCEPT ![p] = r]
           /\ ~inode[s].lock
      BY <1>21 DEF free_inode, Returns, Sleeps
    <2>12. /\ r \in Calls /\ r.pc = "idle" /\ r.ret = "idle" /\ r.want = 0
           /\ r.hold = NULL /\ r.empty = NULL /\ Stage(r)
      BY <2>10, Back
    <2>13. Zero \in Entries /\ Zero.num = 0 /\ Zero.count = 0 /\ ~Zero.dirt /\ ~Zero.lock
      BY ZeroType
    <2> HIDE DEF r
    <2>4. proc' = [proc EXCEPT ![p] = r] /\ r \in Calls
      BY <2>11, <2>12
    <2>2. proc'[p] = r /\ \A q \in Procs : q # p => proc'[q] = proc[q]
      BY <2>1, <2>11
    <2>3. inode'[s] = Zero /\ \A t \in Slots : t # s => inode'[t] = inode[t]
      BY <2>1, <2>10, <2>11
    <2>5. inode[s].count = 1 /\ \A q \in Procs : q # p => ~Uses(proc[q], s)
      <3>1. Uses(proc[p], s)
        BY DEF Uses
      <3>2. inode[s].count \in Nat /\ inode[s].count > 0 /\ inode[s].count <= 1
        BY <2>10, <1>21, <3>1, CountMeans
      <3> QED BY <2>10, <3>1, <3>2, CountMeans
    <2>6. /\ n # 0 /\ n \in imap /\ n \notin names
          /\ \A q \in Procs : proc[q].want # n
          /\ \A q \in Procs : LockOf(proc[q]) # s
          /\ \A q \in Procs : q # p => proc[q].hold # s /\ proc[q].empty # s
          /\ \A t \in Slots : inode[t].num = n => t = s
      BY <2>0, <2>5, <2>10, <2>11, Constants DEF Held, Table, Freeing, Locked, Uses
    <2>7. LockOf(r) = NULL
      BY <2>12 DEF LockOf
    <2>8. \A t \in Slots : Uses(proc[p], t) <=> t = s
      BY <2>9, Constants DEF Uses
    <2> HIDE DEF s, n
    <2>30. Typed'
      BY <2>0, <2>1, <2>4, <2>10, <2>11, <2>13 DEF Typed
    <2>31. Staged'
      BY <2>0, <2>2, <2>12 DEF Staged
    <2>32. Counted'
      <3> SUFFICES ASSUME NEW t \in Slots PROVE inode'[t].count = Cardinality(Users(t)')
        BY DEF Counted
      <3>1. inode[t].count = Cardinality(Users(t)) /\ Cardinality(Users(t)) \in Nat
        BY <2>0, UsersFinite DEF Counted
      <3>2. Cardinality(Users(t)') = Cardinality(Users(t)) + (IF Uses(r, t) THEN 1 ELSE 0)
                                          - (IF Uses(proc[p], t) THEN 1 ELSE 0)
        BY <2>4, Recount
      <3> QED BY <2>3, <2>5, <2>8, <2>12, <2>13, <3>1, <3>2, Constants DEF Uses
    <2>33. Held'
      BY <2>0, <2>2, <2>3, <2>6, <2>12, Constants DEF Held
    <2>34. Emptied'
      BY <2>0, <2>2, <2>3, <2>6, <2>12, Constants DEF Emptied
    <2>35. Table'
      BY <2>0, <2>3, <2>6, <2>11, <2>13 DEF Table
    <2>36. Locked'
      BY <2>0, <2>2, <2>3, <2>6, <2>7, LockSlots DEF Locked
    <2>37. Alone'
      <3>1. \A q \in Procs : proc[q].pc = "reading" => proc[q].hold \in Slots
        BY LockSlots
      <3> QED BY <2>0, <2>2, <2>3, <2>6, <2>12, <3>1, Constants DEF Alone
    <2>38. Fresh'
      <3>1. \A q \in Procs : proc'[q].pc = "reading" <=> proc[q].pc = "reading"
        BY <2>2, <2>9, <2>12
      <3> QED BY <2>0, <2>2, <2>3, <2>9, <2>11, <2>12, <2>13, <3>1 DEF Fresh
    <2>39. Kept'
      <3>1. \A m : Truncating(m) => Truncating(m)'
        BY <2>2, <2>3, <2>6, <2>9, StillCut DEF Cutting
      <3> QED BY <2>0, <2>3, <2>6, <2>11, <2>13, <3>1 DEF Kept, n
    <2>40. Wanted'
      BY <2>0, <2>2, <2>6, <2>11, <2>12 DEF Wanted
    <2>41. Freeing'
      <3> SUFFICES ASSUME NEW q \in Procs, proc'[q].ret = "free_inode"
                   PROVE  /\ inode'[proc'[q].hold].num \notin names'
                          /\ \A u \in Procs \ {q} : proc'[u].want # inode'[proc'[q].hold].num
        BY DEF Freeing
      <3>1. q # p /\ proc[q].ret = "free_inode"
        BY <2>2, <2>12
      <3>2. proc[q].hold \in Slots /\ inode[proc[q].hold].num # 0
        BY <2>0, <3>1 DEF Staged, Stage, Using, Held
      <3> QED BY <2>0, <2>2, <2>3, <2>6, <2>11, <2>12, <3>1, <3>2 DEF Freeing
    <2>42. Entering'
      <3> SUFFICES ASSUME NEW q \in Procs, proc'[q].pc = "enter" PROVE FALSE
        BY DEF Entering
      <3>1. q # p /\ proc[q].pc = "enter"
        BY <2>2, <2>12
      <3>2. cpu = q
        BY <2>0, <3>1 DEF Entering
      <3> QED BY <3>1, <3>2, <2>9, Constants
    <2> QED BY <2>30, <2>31, <2>32, <2>33, <2>34, <2>35, <2>36, <2>37, <2>38, <2>39, <2>40, <2>41, <2>42 DEF Core
  <1> QED BY <1>20, <1>21
-----------------------------------------------------------------------------
\* Initially nobody is in a call and the one file is on disk.
LEMMA InitInv ==
    ASSUME Init
    PROVE  Core
  <1>1. /\ inode = [s \in Slots |-> Zero] /\ proc = [p \in Procs |-> Idle] /\ latest = disk
        /\ disk = [n \in Nums |-> IF n = Min(Nums) THEN [Gone EXCEPT !.nlinks = 1] ELSE Gone]
        /\ imap = {Min(Nums)} /\ zmap = {} /\ names = {Min(Nums)} /\ entry = [z \in Zones |-> 0]
    BY DEF Init
  <1>2. Min(Nums) \in Nums
    <2>1. Nums \in SUBSET Nat /\ Nums # {}
      BY Constants
    <2> QED BY <2>1, MinIn
  <1>3. \A s \in Slots : inode[s] = Zero
    BY <1>1
  <1>4. Zero \in Entries /\ Zero.num = 0 /\ Zero.count = 0 /\ ~Zero.dirt /\ ~Zero.lock
    BY ZeroType
  <1>5. /\ Idle \in Calls /\ Idle.pc = "idle" /\ Idle.ret = "idle" /\ Idle.want = 0
        /\ Idle.hold = NULL /\ Idle.empty = NULL /\ Stage(Idle)
    <2>1. 0 \in Nat /\ <<>> \in Seq(Zones) /\ MaxOps \in Int
      BY Constants
    <2>2. /\ Idle \in Calls /\ Idle.pc = "idle" /\ Idle.ret = "idle" /\ Idle.want = 0
          /\ Idle.hold = NULL /\ Idle.empty = NULL
      BY <2>1 DEF Idle, Calls, Labels
    <2> QED BY <2>2, Constants DEF Stage, Looking, Using
  <1>6. \A p \in Procs : proc[p] = Idle
    BY <1>1
  <1>7. LockOf(Idle) = NULL
    BY <1>5 DEF LockOf
  <1>8. /\ Gone \in Images /\ [Gone EXCEPT !.nlinks = 1] \in Images
        /\ [Gone EXCEPT !.nlinks = 1].nlinks = 1
    <2>1. [k \in Ways |-> 0] \in [Ways -> Zones \cup {0}]
      OBVIOUS
    <2> QED BY <2>1 DEF Gone, Images
  <1>9. disk[Min(Nums)].nlinks = 1
    BY <1>1, <1>2, <1>8
  <1>10. disk \in [Nums -> Images]
    <2> DEFINE g == [Gone EXCEPT !.nlinks = 1]
    <2>1. g \in Images
      BY <1>8
    <2>2. disk = [n \in Nums |-> IF n = Min(Nums) THEN g ELSE Gone]
      BY <1>1
    <2> HIDE DEF g
    <2> QED BY <1>8, <2>1, <2>2
  <1>11. Typed
    <2>1. entry \in [Zones -> Zones \cup {0}]
      BY <1>1
    <2> QED BY <1>1, <1>2, <1>4, <1>5, <1>10, <2>1 DEF Typed
  <1>12. Staged
    BY <1>5, <1>6 DEF Staged
  <1>13. Counted
    <2> SUFFICES ASSUME NEW s \in Slots PROVE inode[s].count = Cardinality(Users(s))
      BY DEF Counted
    <2>1. Users(s) = {}
      BY <1>5, <1>6, Constants DEF Users
    <2> QED BY <1>3, <1>4, <2>1, FS_EmptySet
  <1>14. Held /\ Emptied
    BY <1>5, <1>6, Constants DEF Held, Emptied
  <1>15. Table
    BY <1>3, <1>4 DEF Table
  <1>16. Locked /\ Alone
    BY <1>5, <1>6, <1>7 DEF Locked, Alone
  <1>17. Fresh /\ Kept
    BY <1>1, <1>3, <1>4 DEF Fresh, Kept
  <1>18. Wanted
    BY <1>1, <1>5, <1>6, <1>9 DEF Wanted
  <1>19. Freeing /\ Entering
    BY <1>5, <1>6 DEF Freeing, Entering
  <1> QED BY <1>11, <1>12, <1>13, <1>14, <1>15, <1>16, <1>17, <1>18, <1>19 DEF Core

\* Two processes that have met have met.
LEMMA RacedStays ==
    ASSUME [Next]_vars, raced
    PROVE  raced'
  <1>1. CASE UNCHANGED vars
    BY <1>1 DEF vars
  <1>2. CASE \E p \in Procs : Steps(p)
    <2>1. PICK p \in Procs : Steps(p)
      BY <1>2
    <2>2. CASE GetEmptyInode(p) \/ Claim(p) \/ WriteInode(p) \/ WriteDone(p) \/ Search(p) \/ Found(p)
      BY <2>2 DEF GetEmptyInode, Claim, WriteInode, WriteDone, Search, Found
    <2>3. CASE ReadDone(p) \/ NewInode(p) \/ Enter(p) \/ iput(p) \/ free_inode(p) \/ SyncInodes(p)
      BY <2>3 DEF ReadDone, NewInode, Enter, iput, free_inode, SyncInodes
    <2>4. CASE Bmap(p) \/ NewBlock(p) \/ Truncate(p) \/ Descend(p) \/ FreeBlock(p)
      BY <2>4 DEF Bmap, NewBlock, Truncate, Descend, FreeBlock
    <2> QED BY <2>1, <2>2, <2>3, <2>4 DEF Steps
  <1>3. CASE \E p \in Procs : \/ Open(p) \/ Create(p) \/ Write(p) \/ OpenTrunc(p)
                             \/ Unlink(p) \/ Close(p) \/ Sync(p)
    BY <1>3 DEF Open, Create, Write, OpenTrunc, Unlink, Close, Sync
  <1> QED BY <1>1, <1>2, <1>3 DEF Next

\* Every step of a process keeps the table in order.
LEMMA StepInv ==
    ASSUME Core, ~raced', NEW p \in Procs,
           \/ Steps(p) \/ Open(p) \/ Create(p) \/ Write(p) \/ OpenTrunc(p)
           \/ Unlink(p) \/ Close(p) \/ Sync(p)
    PROVE  Core'
  <1>0. Core /\ ~raced' /\ p \in Procs
    OBVIOUS
  <1>1. CASE GetEmptyInode(p)
    BY <1>0, <1>1, LookMoves
  <1>2. CASE Claim(p)
    <2>1. CASE inode[proc[p].cur].dirt \/ inode[proc[p].cur].count > 0
      BY <1>0, <1>2, <2>1, LookMoves
    <2>2. CASE ~inode[proc[p].cur].dirt /\ ~(inode[proc[p].cur].count > 0)
      BY <1>0, <1>2, <2>2, TakeSlot
    <2> QED BY <2>1, <2>2
  <1>3. CASE WriteInode(p)
    <2>1. CASE ~(inode[proc[p].cur].dirt /\ inode[proc[p].cur].num # 0)
      BY <1>0, <1>3, <2>1, WriteMoves
    <2>2. CASE inode[proc[p].cur].dirt /\ inode[proc[p].cur].num # 0
      BY <1>0, <1>3, <2>2, WriteBegins
    <2> QED BY <2>1, <2>2
  <1>4. CASE WriteDone(p)
    BY <1>0, <1>4, WriteEnds
  <1>5. CASE Search(p)
    <2>1. CASE Cached(proc[p].want) = {}
      BY <1>0, <1>5, <2>1, ReadBegins
    <2>2. CASE Cached(proc[p].want) # {} /\ inode[Min(Cached(proc[p].want))].lock
      BY <1>0, <1>5, <2>2, LookMoves
    <2>3. CASE Cached(proc[p].want) # {} /\ ~inode[Min(Cached(proc[p].want))].lock
      BY <1>0, <1>5, <2>3, HitMoves
    <2> QED BY <2>1, <2>2, <2>3
  <1>6. CASE Found(p)
    <2>1. CASE inode[proc[p].cur].num # proc[p].want
      BY <1>0, <1>6, <2>1, LookMoves
    <2>2. CASE inode[proc[p].cur].num = proc[p].want
      BY <1>0, <1>6, <2>2, HitMoves
    <2> QED BY <2>1, <2>2
  <1>7. CASE ReadDone(p)
    BY <1>0, <1>7, ReadEnds
  <1>8. CASE NewInode(p)
    <2>1. CASE Nums \ imap = {}
      BY <1>0, <1>8, <2>1, PutMoves
    <2>2. CASE Nums \ imap # {}
      BY <1>0, <1>8, <2>2, NewMoves
    <2> QED BY <2>1, <2>2
  <1>9. CASE Enter(p)
    <2>1. CASE names' = names \cup {inode[proc[p].hold].num} /\ Returns(p, proc[p].hold) /\ UNCHANGED <<inode, latest>>
      BY <1>0, <1>9, <2>1, EnterMoves DEF Enter
    <2>2. CASE /\ Changed(proc[p].hold, [inode[proc[p].hold].img EXCEPT !.nlinks = @ - 1])
               /\ Runs(p, [proc[p] EXCEPT !.pc = "iput"]) /\ UNCHANGED names
      BY <1>0, <1>9, <2>2, UnlinkMoves
    <2> QED BY <1>9, <2>1, <2>2 DEF Enter
  <1>10. CASE iput(p)
    <2>1. CASE inode[proc[p].hold].count = 0
      BY <1>0, <1>10, <2>1, PutMoves
    <2>2. CASE inode[proc[p].hold].count = 1 /\ inode[proc[p].hold].img.nlinks = 0
      BY <1>0, <1>10, <2>2, FreeBegins
    <2>3. CASE inode[proc[p].hold].count = 1 /\ inode[proc[p].hold].img.nlinks # 0 /\ inode[proc[p].hold].dirt
      BY <1>0, <1>10, <2>3, WriteMoves
    <2>4. CASE /\ inode[proc[p].hold].count # 0
               /\ ~(inode[proc[p].hold].count = 1 /\ inode[proc[p].hold].img.nlinks = 0)
               /\ ~(inode[proc[p].hold].count = 1 /\ inode[proc[p].hold].dirt)
      BY <1>0, <1>10, <2>4, PutMoves
    <2> QED BY <2>1, <2>2, <2>3, <2>4
  <1>11. CASE free_inode(p)
    BY <1>0, <1>11, FreeEnds
  <1>12. CASE SyncInodes(p)
    BY <1>0, <1>12, WriteMoves
  <1>13. CASE Bmap(p)
    BY <1>0, <1>13, BmapMoves
  <1>14. CASE NewBlock(p)
    <2>1. CASE proc[p].chain # <<>>
      BY <1>0, <1>14, <2>1, BmapMoves
    <2>2. CASE proc[p].chain = <<>>
      BY <1>0, <1>14, <2>2, StoreMoves
    <2> QED BY <2>1, <2>2
  <1>15. CASE Truncate(p)
    <2>1. CASE proc[p].way <= Len(Depth)
      BY <1>0, <1>15, <2>1, TruncateMoves
    <2>2. CASE proc[p].way > Len(Depth)
      BY <1>0, <1>15, <2>2, StoreMoves
    <2>3. proc[p].way \in Nat /\ Len(Depth) \in Nat
      BY CallFields, Constants DEF Core, Typed
    <2> QED BY <2>1, <2>2, <2>3
  <1>16. CASE Descend(p)
    BY <1>0, <1>16, TruncateMoves
  <1>17. CASE FreeBlock(p)
    BY <1>0, <1>17, FreeMoves
  <1>18. CASE Open(p) \/ Create(p) \/ Write(p) \/ OpenTrunc(p) \/ Close(p) \/ Sync(p)
    BY <1>18, CallsMove
  <1>19. CASE Unlink(p)
    BY <1>19, UnlinkMoves
  <1> QED BY <1>1, <1>2, <1>3, <1>4, <1>5, <1>6, <1>7, <1>8, <1>9, <1>10, <1>11, <1>12, <1>13, <1>14, <1>15, <1>16, <1>17, <1>18, <1>19 DEF Steps

\* The invariant is inductive.
LEMMA NextInv ==
    ASSUME IInv, [Next]_vars
    PROVE  IInv'
  <1>1. CASE raced
    BY <1>1, RacedStays DEF IInv
  <1>2. CASE raced'
    BY <1>2 DEF IInv
  <1>3. CASE Core /\ ~raced' /\ UNCHANGED vars
    BY <1>3, Stays DEF vars, IInv
  <1>4. CASE Core /\ ~raced' /\ Next
    <2>1. PICK p \in Procs : \/ Steps(p) \/ Open(p) \/ Create(p) \/ Write(p) \/ OpenTrunc(p)
                             \/ Unlink(p) \/ Close(p) \/ Sync(p)
      BY <1>4 DEF Next
    <2> QED BY <1>4, <2>1, StepInv DEF IInv
  <1> QED BY <1>1, <1>2, <1>3, <1>4 DEF IInv

\* The invariant holds of every reachable state.
LEMMA Invariant == Spec => []IInv
  <1>1. Init => IInv
    BY InitInv DEF IInv
  <1>2. IInv /\ [Next]_vars => IInv'
    BY NextInv
  <1> QED BY <1>1, <1>2, PTL DEF Spec

\* iget and get_empty_inode sleep between looking for an inode and making its
\* entry; still an inode is in the table at most once, one in use is allocated,
\* and its last image is on disk, in a dirty entry or in one being truncated.
THEOREM InodesAreKept == Spec => []InodeKept
  <1>1. IInv => InodeKept
    <2> SUFFICES ASSUME Core PROVE InodeKept
      BY DEF IInv, InodeKept
    <2>0. Typed /\ Table /\ Alone /\ Fresh /\ Kept
      BY DEF Core
    <2>1. ASSUME NEW n \in imap, disk[n] # latest[n]
          PROVE  \E s \in Slots : /\ inode[s].num = n /\ inode[s].img = latest[n]
                                  /\ inode[s].dirt \/ Truncating(n)
      <3>0. \A p \in Procs : Cutting(proc[p]) => proc[p].hold \in Slots
        BY DEF Core, Staged, Stage, Using, Cutting
      <3>1. PICK s \in Slots : /\ inode[s].num = n
                               /\ \/ inode[s].dirt
                                  \/ /\ Truncating(n)
                                     /\ \E p \in Procs : proc[p].hold = s /\ Cutting(proc[p])
        BY <2>0, <2>1, <3>0 DEF Kept, Truncating, Cutting
      <3>2. n # 0
        BY <2>0, Constants DEF Typed
      <3>3. \A p \in Procs : ~(proc[p].pc = "reading" /\ proc[p].hold = s)
        BY <2>0, <3>1 DEF Alone, Cutting
      <3>4. inode[s].img = latest[n]
        BY <2>0, <3>1, <3>2, <3>3 DEF Fresh
      <3> QED BY <3>1, <3>4
    <2> QED BY <2>0, <2>1 DEF InodeKept, Table
  <1> QED BY <1>1, Invariant, PTL

\* Two processes have met in a window the code leaves, or i_count of every slot
\* is the number of references that iget and new_inode have returned, and of the
\* calls in progress that have taken it as their empty slot.
ReferencesExact ==
    raced \/ \A s \in Slots :
        inode[s].count = Cardinality({p \in Procs : proc[p].hold = s})
                         + Cardinality({p \in Procs : proc[p].empty = s})

\* iget, new_inode and iput keep i_count the number of references, the part of
\* CountExact that does not depend on the zones.
THEOREM ReferencesAreCounted == Spec => []ReferencesExact
  <1>1. IInv => ReferencesExact
    <2> SUFFICES ASSUME Core, NEW s \in Slots
                 PROVE  inode[s].count = Cardinality({p \in Procs : proc[p].hold = s})
                                         + Cardinality({p \in Procs : proc[p].empty = s})
      BY DEF IInv, ReferencesExact
    <2> DEFINE H == {p \in Procs : proc[p].hold = s}
               E == {p \in Procs : proc[p].empty = s}
    <2>1. Typed /\ Staged /\ Counted /\ Held /\ Emptied
      BY DEF Core
    <2>2. H \cap E = {} /\ Users(s) = H \cup E
      <3>1. \A p \in H : \A q \in E : FALSE
        BY <2>1 DEF Held, Emptied
      <3> QED BY <3>1 DEF Users
    <2>3. IsFiniteSet(H) /\ IsFiniteSet(E)
      BY FS_Subset, Constants
    <2>4. Cardinality(H) \in Nat /\ Cardinality(E) \in Nat
      BY <2>3, FS_CardinalityType
    <2>5. Cardinality(H \cap E) = 0
      BY <2>2, FS_EmptySet
    <2>6. Cardinality(H \cup E) = Cardinality(H) + Cardinality(E) - Cardinality(H \cap E)
      BY <2>3, FS_Union
    <2> HIDE DEF H, E
    <2>7. Cardinality(Users(s)) = Cardinality(H) + Cardinality(E)
      BY <2>2, <2>4, <2>5, <2>6
    <2> QED BY <2>1, <2>7 DEF Counted, H, E
  <1> QED BY <1>1, Invariant, PTL
-----------------------------------------------------------------------------
\* The inode that p works on, and what it does to its zones.
File(p) == inode[proc[p].hold].num
Mapping(r) == r.pc \in {"bmap", "new_block"}
Walking(r) == r.pc \in {"bmap", "new_block", "descend", "free"}

\* What each label relies on of the process's way to a zone.
Carry(r) ==
    /\ r.way \in 0 .. Len(Depth) + 1
    /\ ~Walking(r) => r.chain = <<>>
    /\ r.new # 0 <=> r.pc = "new_block"
    /\ Mapping(r) \/ r.pc = "descend" => Len(r.chain) < Depth[r.way]
    /\ r.pc = "free" => Len(r.chain) <= Depth[r.way]
Carried == \A p \in Procs : Carry(proc[p])

\* Who truncates a file is the only one at work on it; who maps a block of it is
\* the only one on that way.
Single ==
    \A p, q \in Procs : p # q /\ proc[p].hold = proc[q].hold /\ proc[p].hold \in Slots =>
        /\ Cutting(proc[p]) => ~Cutting(proc[q]) /\ ~Mapping(proc[q])
        /\ Mapping(proc[p]) /\ Mapping(proc[q]) => proc[p].way # proc[q].way

\* An inode that is freed has one reference and no name.
Sole ==
    \A p \in Procs : proc[p].ret = "free_inode" =>
        /\ latest[File(p)].nlinks = 0
        /\ \A q \in Procs \ {p} : proc[q].hold # proc[p].hold

\* The i-th zone on way k of inode n; as far as truncate has not freed it.
Spot(n, k, i) == Hop(entry, latest[n].zone[k], k, i)
Ahead(r, k, i) == k > r.way \/ (k = r.way /\ (r.pc = "free" => i <= Len(r.chain)))
Alive(n, k, i) == \A p \in Procs : Cutting(proc[p]) /\ File(p) = n => Ahead(proc[p], k, i)
Live(n, k, i) ==
    n \in imap /\ k \in Ways /\ i \in 1 .. 3 /\ Alive(n, k, i) /\ Spot(n, k, i) # 0

\* The chain of a process is the beginning of its way; new_block is for the
\* place after it.
Chained ==
    \A p \in Procs : Walking(proc[p]) =>
        /\ \A i \in 1 .. Len(proc[p].chain) : proc[p].chain[i] = Spot(File(p), proc[p].way, i)
        /\ proc[p].pc = "new_block" => Spot(File(p), proc[p].way, Len(proc[p].chain) + 1) = 0

\* The direct zones truncate is done with are cleared, and in the end all are.
Cleared ==
    \A p \in Procs : \A k \in Ways :
        \/ Cutting(proc[p]) /\ k < proc[p].way /\ Depth[k] = 1
        \/ proc[p].pc = "free_inode"
        => latest[File(p)].zone[k] = 0

\* No two places, and no two processes, have the same zone.
Apart ==
    \A n, m \in imap : \A k, l \in Ways : \A i, j \in 1 .. 3 :
        Live(n, k, i) /\ Live(m, l, j) /\ Spot(n, k, i) = Spot(m, l, j) => n = m /\ k = l /\ i = j
Given ==
    \A p, q \in Procs : proc[p].new = proc[q].new /\ proc[p].new # 0 => p = q

\* The set bits are those of the zones that a file or a process has.
Marked ==
    \A n \in imap : \A k \in Ways : \A i \in 1 .. 3 : Live(n, k, i) =>
        Spot(n, k, i) \in zmap /\ \A p \in Procs : proc[p].new # Spot(n, k, i)
Taken == \A p \in Procs : proc[p].new # 0 => proc[p].new \in zmap
Accounted ==
    \A z \in zmap : \/ \E p \in Procs : proc[p].new = z
                    \/ \E n \in imap, k \in Ways, i \in 1 .. 3 : Live(n, k, i) /\ Spot(n, k, i) = z

Owned == Apart /\ Given /\ Marked /\ Taken /\ Accounted
Zoned == Carried /\ Single /\ Sole /\ Chained /\ Cleared /\ Owned
ZInv == raced \/ (Core /\ Zoned)
-----------------------------------------------------------------------------
\* A way has one, two or three zones.
LEMMA DepthType ==
    ASSUME NEW k \in Ways
    PROVE  Depth[k] \in 1 .. 3 /\ k \in Nat /\ k >= 1 /\ k <= Len(Depth) /\ Len(Depth) \in Nat
  <1>1. Depth \in Seq(1 .. 3)
    BY Constants
  <1> QED BY <1>1 DEF Ways

\* Following a way, pointer after pointer.
LEMMA HopFacts ==
    ASSUME NEW f \in [Zones -> Zones \cup {0}], NEW a \in Zones \cup {0}, NEW k \in Ways
    PROVE  /\ Hop(f, a, k, 1) = a
           /\ \A i \in 1 .. 3 : Hop(f, a, k, i) \in Zones \cup {0}
           /\ \A i \in 1 .. 3 : a = 0 => Hop(f, a, k, i) = 0
           /\ \A i \in 1 .. 3 : i > Depth[k] => Hop(f, a, k, i) = 0
           /\ \A i \in 1 .. 2 :
                 Hop(f, a, k, i + 1) = IF Hop(f, a, k, i) = 0 \/ Depth[k] < i + 1
                                       THEN 0 ELSE f[Hop(f, a, k, i)]
  <1>1. Depth[k] \in 1 .. 3
    BY DepthType
  <1> DEFINE b == IF a = 0 \/ Depth[k] < 2 THEN 0 ELSE f[a]
             c == IF b = 0 \/ Depth[k] < 3 THEN 0 ELSE f[b]
  <1>2. b \in Zones \cup {0} /\ (a = 0 => b = 0) /\ (Depth[k] < 2 => b = 0)
    OBVIOUS
  <1>3. Hop(f, a, k, 1) = a /\ Hop(f, a, k, 2) = b /\ Hop(f, a, k, 3) = c
    BY DEF Hop
  <1>4. (b = 0 \/ Depth[k] < 3 => c = 0) /\ (~(b = 0 \/ Depth[k] < 3) => c = f[b])
    OBVIOUS
  <1>5. (a = 0 \/ Depth[k] < 2 => b = 0) /\ (~(a = 0 \/ Depth[k] < 2) => b = f[a])
    OBVIOUS
  <1> HIDE DEF b, c
  <1>6. c \in Zones \cup {0}
    BY <1>2, <1>4
  <1>7. \A i \in 1 .. 3 : i = 1 \/ i = 2 \/ i = 3
    OBVIOUS
  <1>8. \A i \in 1 .. 3 : Hop(f, a, k, i) \in Zones \cup {0}
    BY <1>2, <1>3, <1>6, <1>7
  <1>9. \A i \in 1 .. 3 : a = 0 => Hop(f, a, k, i) = 0
    BY <1>2, <1>3, <1>4, <1>7
  <1>10. \A i \in 1 .. 3 : i > Depth[k] => Hop(f, a, k, i) = 0
    <2> SUFFICES ASSUME NEW i \in 1 .. 3, i > Depth[k] PROVE Hop(f, a, k, i) = 0
      OBVIOUS
    <2>1. CASE i = 1
      BY <1>1, <2>1
    <2>2. CASE i = 2
      BY <1>1, <1>3, <1>5, <2>2
    <2>3. CASE i = 3
      BY <1>1, <1>3, <1>4, <2>3
    <2> QED BY <1>7, <2>1, <2>2, <2>3
  <1>11. \A i \in 1 .. 2 :
                 Hop(f, a, k, i + 1) = IF Hop(f, a, k, i) = 0 \/ Depth[k] < i + 1
                                       THEN 0 ELSE f[Hop(f, a, k, i)]
    <2> SUFFICES ASSUME NEW i \in 1 .. 2
                 PROVE  Hop(f, a, k, i + 1) = IF Hop(f, a, k, i) = 0 \/ Depth[k] < i + 1
                                              THEN 0 ELSE f[Hop(f, a, k, i)]
      OBVIOUS
    <2>1. CASE i = 1
      <3>1. i + 1 = 2
        BY <2>1
      <3> QED BY <1>3, <1>5, <2>1, <3>1
    <2>2. CASE i = 2
      <3>1. i + 1 = 3
        BY <2>2
      <3> QED BY <1>3, <1>4, <2>2, <3>1
    <2> QED BY <2>1, <2>2
  <1> QED BY <1>3, <1>8, <1>9, <1>10, <1>11

\* A way on which no pointer has changed.
LEMMA HopSame ==
    ASSUME NEW f \in [Zones -> Zones \cup {0}], NEW g \in [Zones -> Zones \cup {0}],
           NEW a \in Zones \cup {0}, NEW k \in Ways, NEW i \in 1 .. 3,
           \A j \in 1 .. 2 : j < i /\ Hop(f, a, k, j) # 0
                             => g[Hop(f, a, k, j)] = f[Hop(f, a, k, j)]
    PROVE  Hop(g, a, k, i) = Hop(f, a, k, i)
  <1>1. Hop(f, a, k, 1) = a /\ Hop(g, a, k, 1) = a
    BY HopFacts
  <1>2. ASSUME i >= 2 PROVE Hop(g, a, k, 2) = Hop(f, a, k, 2)
    <2>1. 1 \in 1 .. 2 /\ 1 + 1 = 2 /\ 1 < i
      BY <1>2
    <2>2. Hop(f, a, k, 2) = IF Hop(f, a, k, 1) = 0 \/ Depth[k] < 2 THEN 0 ELSE f[Hop(f, a, k, 1)]
      BY <2>1, HopFacts
    <2>3. Hop(g, a, k, 2) = IF Hop(g, a, k, 1) = 0 \/ Depth[k] < 2 THEN 0 ELSE g[Hop(g, a, k, 1)]
      BY <2>1, HopFacts
    <2> QED BY <1>1, <2>1, <2>2, <2>3
  <1>3. ASSUME i >= 3 PROVE Hop(g, a, k, 3) = Hop(f, a, k, 3)
    <2>1. 2 \in 1 .. 2 /\ 2 + 1 = 3 /\ 2 < i /\ i >= 2
      BY <1>3
    <2>2. Hop(f, a, k, 3) = IF Hop(f, a, k, 2) = 0 \/ Depth[k] < 3 THEN 0 ELSE f[Hop(f, a, k, 2)]
      BY <2>1, HopFacts
    <2>3. Hop(g, a, k, 3) = IF Hop(g, a, k, 2) = 0 \/ Depth[k] < 3 THEN 0 ELSE g[Hop(g, a, k, 2)]
      BY <2>1, HopFacts
    <2> QED BY <1>2, <2>1, <2>2, <2>3
  <1>4. i = 1 \/ i = 2 \/ i = 3
    OBVIOUS
  <1> QED BY <1>1, <1>2, <1>3, <1>4

\* The pointers in an image are zones or 0.
LEMMA ImageZones ==
    ASSUME NEW img \in Images, NEW k \in Ways
    PROVE  img.zone[k] \in Zones \cup {0}
  BY DEF Images

\* Nothing changes hands.
LEMMA SameOwned ==
    ASSUME Owned, zmap' = zmap, \A q \in Procs : proc'[q].new = proc[q].new,
           \A n, k, i : Live(n, k, i)' <=> Live(n, k, i),
           \A n, k, i : Live(n, k, i) => Spot(n, k, i)' = Spot(n, k, i)
    PROVE  Owned'
  <1>0. Apart /\ Given /\ Marked /\ Taken /\ Accounted
    BY DEF Owned
  <1>1. \A n, k, i : Live(n, k, i) => n \in imap /\ k \in Ways /\ i \in 1 .. 3
    BY DEF Live
  <1>2. Apart'
    BY <1>0, <1>1 DEF Apart
  <1>3. Given' /\ Taken'
    BY <1>0 DEF Given, Taken
  <1>4. Marked'
    BY <1>0, <1>1 DEF Marked
  <1>5. \A n, k, i : Live(n, k, i)' => n \in imap' /\ k \in Ways /\ i \in 1 .. 3
    BY DEF Live
  <1>6. Accounted'
    <2> SUFFICES ASSUME NEW z \in zmap', ~\E p \in Procs : proc'[p].new = z
                 PROVE  \E n \in imap', k \in Ways, i \in 1 .. 3 : Live(n, k, i)' /\ Spot(n, k, i)' = z
      BY DEF Accounted
    <2>1. PICK n \in imap, k \in Ways, i \in 1 .. 3 : Live(n, k, i) /\ Spot(n, k, i) = z
      BY <1>0 DEF Accounted
    <2> QED BY <1>5, <2>1
  <1> QED BY <1>2, <1>3, <1>4, <1>6 DEF Owned

\* Who works on a file, or will free its inode, has a reference to it.
LEMMA Working ==
    ASSUME Core, NEW p \in Procs,
           \/ Cutting(proc[p]) \/ Mapping(proc[p]) \/ Walking(proc[p]) \/ proc[p].pc = "free_inode"
           \/ proc[p].ret = "free_inode"
    PROVE  /\ proc[p].hold \in Slots /\ File(p) \in imap /\ File(p) \in Nums
           /\ Walking(proc[p]) => proc[p].way \in Ways
  <1>1. Stage(proc[p]) /\ Held /\ Table /\ imap \subseteq Nums
    BY DEF Core, Staged, Typed
  <1>2. proc[p].hold \in Slots
    BY <1>1 DEF Stage, Using, Cutting, Mapping, Walking
  <1>3. Walking(proc[p]) => proc[p].way \in Ways
    BY <1>1 DEF Stage, Walking
  <1> QED BY <1>1, <1>2, <1>3 DEF Held, Table, File

\* The chain of a process is no longer than its way.
LEMMA ChainLength ==
    ASSUME NEW c \in Calls, Carry(c), Walking(c), c.way \in Ways
    PROVE  /\ Len(c.chain) \in 0 .. 3 /\ Depth[c.way] \in 1 .. 3
           /\ c.pc = "new_block" => Len(c.chain) + 1 \in 1 .. 3
           /\ \A i \in 1 .. Len(c.chain) : i \in 1 .. 3 /\ i <= Len(c.chain) /\ i <= Len(c.chain) + 1
  <1>1. Len(c.chain) \in Nat
    BY CallFields
  <1>2. Depth[c.way] \in 1 .. 3
    BY DepthType
  <1>3. \/ Len(c.chain) < Depth[c.way]
        \/ c.pc = "free" /\ Len(c.chain) <= Depth[c.way]
    BY DEF Carry, Walking, Mapping
  <1> DEFINE l == Len(c.chain)  d == Depth[c.way]
  <1>6. c.pc = "new_block" => l < d
    BY DEF Carry, Mapping
  <1>7. l \in Nat /\ d \in 1 .. 3 /\ (l < d \/ l <= d)
    BY <1>1, <1>2, <1>3
  <1> HIDE DEF l, d
  <1>8. l \in 0 .. 3 /\ (l < d => l + 1 \in 1 .. 3)
    BY <1>7
  <1>4. l \in 0 .. 3 /\ (c.pc = "new_block" => l + 1 \in 1 .. 3)
    BY <1>6, <1>8
  <1>5. \A i \in 1 .. l : i \in 1 .. 3 /\ i <= l /\ i <= l + 1
    BY <1>4
  <1> QED BY <1>2, <1>4, <1>5 DEF l

\* A step of process p that leaves what the others work on as it is.
LEMMA Steady ==
    ASSUME Core, Zoned, NEW p \in Procs, NEW r, proc' = [proc EXCEPT ![p] = r], Carry(r),
           \A q \in Procs \ {p} : proc[q].hold \in Slots =>
               inode'[proc[q].hold].num = inode[proc[q].hold].num,
           \A q \in Procs \ {p} : proc[q].hold = r.hold /\ r.hold \in Slots =>
               /\ Cutting(r) => ~Cutting(proc[q]) /\ ~Mapping(proc[q])
               /\ Mapping(r) => ~Cutting(proc[q]) /\ (Mapping(proc[q]) => proc[q].way # r.way),
           \A q \in Procs \ {p} : proc[q].ret = "free_inode" =>
               latest'[File(q)].nlinks = 0 /\ r.hold # proc[q].hold,
           r.ret = "free_inode" => /\ latest'[inode'[r.hold].num].nlinks = 0
                                   /\ \A q \in Procs \ {p} : proc[q].hold # r.hold,
           \A q \in Procs \ {p} : \A n \in Nums, k \in Ways, i \in 1 .. 3 :
               Walking(proc[q]) /\ File(q) = n /\ proc[q].way = k /\ i <= Len(proc[q].chain) + 1
               => Spot(n, k, i)' = Spot(n, k, i),
           Walking(r) => /\ inode'[r.hold].num \in Nums /\ r.way \in Ways /\ r \in Calls
                         /\ \A n \in Nums, k \in Ways, i \in 1 .. 3 :
                               inode'[r.hold].num = n /\ r.way = k =>
                                   /\ i <= Len(r.chain) => r.chain[i] = Spot(n, k, i)'
                                   /\ r.pc = "new_block" /\ i = Len(r.chain) + 1 => Spot(n, k, i)' = 0,
           \A q \in Procs \ {p}, k \in Ways :
               Cutting(proc[q]) \/ proc[q].pc = "free_inode" =>
                   latest'[File(q)].zone[k] = latest[File(q)].zone[k],
           \A k \in Ways :
               (Cutting(r) /\ k < r.way /\ Depth[k] = 1) \/ r.pc = "free_inode" =>
                   latest'[inode'[r.hold].num].zone[k] = 0
    PROVE  Carried' /\ Single' /\ Sole' /\ Chained' /\ Cleared'
  <1>0. Carried /\ Single /\ Sole /\ Chained /\ Cleared
    BY DEF Zoned
  <1>1. proc \in [Procs -> Calls]
    BY DEF Core, Typed
  <1>2. proc'[p] = r /\ \A q \in Procs \ {p} : proc'[q] = proc[q]
    BY <1>1
  <1>3. \A q \in Procs \ {p} : proc[q].hold \in Slots => inode'[proc'[q].hold].num = File(q)
    BY <1>2 DEF File
  <1>4. Carried'
    BY <1>0, <1>2 DEF Carried
  <1>5. Single'
    <2> SUFFICES ASSUME NEW u \in Procs, NEW q \in Procs, u # q, proc'[u].hold = proc'[q].hold,
                        proc'[u].hold \in Slots
                 PROVE  /\ Cutting(proc'[u]) => ~Cutting(proc'[q]) /\ ~Mapping(proc'[q])
                        /\ Mapping(proc'[u]) /\ Mapping(proc'[q]) => proc'[u].way # proc'[q].way
      BY DEF Single, Cutting, Mapping
    <2>1. CASE u # p /\ q # p
      BY <1>0, <1>2, <2>1 DEF Single
    <2>2. CASE u = p
      BY <1>2, <2>2
    <2>3. CASE q = p
      BY <1>2, <2>3
    <2> QED BY <2>1, <2>2, <2>3
  <1>6. Sole'
    <2> SUFFICES ASSUME NEW u \in Procs, proc'[u].ret = "free_inode"
                 PROVE  /\ latest'[inode'[proc'[u].hold].num].nlinks = 0
                        /\ \A q \in Procs \ {u} : proc'[q].hold # proc'[u].hold
      BY DEF Sole, File
    <2>1. CASE u = p
      BY <1>2, <2>1
    <2>2. CASE u # p
      <3>1. proc[u].ret = "free_inode" /\ proc'[u] = proc[u]
        BY <1>2, <2>2
      <3>2. proc[u].hold \in Slots
        BY <3>1, Working
      <3> QED BY <1>0, <1>2, <1>3, <2>2, <3>1, <3>2 DEF Sole
    <2> QED BY <2>1, <2>2
  <1>7. Chained'
    <2> SUFFICES ASSUME NEW u \in Procs, Walking(proc'[u]), NEW n, NEW k,
                        n = inode'[proc'[u].hold].num, k = proc'[u].way
                 PROVE  /\ \A i \in 1 .. Len(proc'[u].chain) : proc'[u].chain[i] = Spot(n, k, i)'
                        /\ proc'[u].pc = "new_block" =>
                              \A i : i = Len(proc'[u].chain) + 1 => Spot(n, k, i)' = 0
      <3>1. ASSUME NEW u \in Procs, Walking(proc'[u])
            PROVE  /\ \A i \in 1 .. Len(proc'[u].chain) :
                          proc'[u].chain[i] = Hop(entry', latest'[inode'[proc'[u].hold].num].zone[proc'[u].way], proc'[u].way, i)
                   /\ proc'[u].pc = "new_block" =>
                          Hop(entry', latest'[inode'[proc'[u].hold].num].zone[proc'[u].way], proc'[u].way, Len(proc'[u].chain) + 1) = 0
        <4>1. PICK n, k : n = inode'[proc'[u].hold].num /\ k = proc'[u].way
          OBVIOUS
        <4>2. /\ \A i \in 1 .. Len(proc'[u].chain) : proc'[u].chain[i] = Spot(n, k, i)'
              /\ proc'[u].pc = "new_block" =>
                    \A i : i = Len(proc'[u].chain) + 1 => Spot(n, k, i)' = 0
          BY <3>1, <4>1
        <4>3. \A i : Spot(n, k, i)' = Hop(entry', latest'[n].zone[k], k, i)
          BY DEF Spot
        <4>4. /\ \A i \in 1 .. Len(proc'[u].chain) : proc'[u].chain[i] = Hop(entry', latest'[n].zone[k], k, i)
              /\ proc'[u].pc = "new_block" => Hop(entry', latest'[n].zone[k], k, Len(proc'[u].chain) + 1) = 0
          BY <4>2, <4>3, SMTT(30)
        <4> QED BY <4>1, <4>4, ZenonT(60)
      <3> QED BY <3>1 DEF Chained, Spot, File, Walking
    <2>1. CASE u = p
      <3>1. r \in Calls /\ r.way \in Ways /\ Walking(r) /\ n \in Nums /\ k \in Ways
        BY <1>2, <2>1
      <3>2. Len(r.chain) \in 0 .. 3 /\ (r.pc = "new_block" => Len(r.chain) + 1 \in 1 .. 3)
        BY <3>1, ChainLength
      <3>3. \A i \in 1 .. Len(r.chain) : i \in 1 .. 3 /\ i <= Len(r.chain)
        BY <3>1, ChainLength
      <3> QED BY <1>2, <2>1, <3>1, <3>2, <3>3
    <2>2. CASE u # p
      <3>1. Walking(proc[u]) /\ proc'[u] = proc[u] /\ proc[u] \in Calls /\ Carry(proc[u])
        BY <1>0, <1>1, <1>2, <2>2 DEF Carried
      <3>2. proc[u].hold \in Slots /\ File(u) \in Nums /\ proc[u].way \in Ways
        BY <3>1, Working
      <3>3. n = File(u) /\ k = proc[u].way /\ n \in Nums /\ k \in Ways
        BY <1>3, <2>2, <3>1, <3>2
      <3>4. Len(proc[u].chain) \in 0 .. 3 /\ (proc[u].pc = "new_block" => Len(proc[u].chain) + 1 \in 1 .. 3)
        BY <3>1, <3>2, ChainLength
      <3>5. /\ \A i \in 1 .. Len(proc[u].chain) : proc[u].chain[i] = Spot(n, k, i)
            /\ proc[u].pc = "new_block" => \A i : i = Len(proc[u].chain) + 1 => Spot(n, k, i) = 0
        BY <1>0, <3>1, <3>3 DEF Chained
      <3>6. \A i \in 1 .. 3 : i <= Len(proc[u].chain) + 1 => Spot(n, k, i)' = Spot(n, k, i)
        BY <2>2, <3>1, <3>3
      <3>7. \A i \in 1 .. Len(proc[u].chain) : i \in 1 .. 3 /\ i <= Len(proc[u].chain) + 1
        BY <3>1, <3>2, ChainLength
      <3>8. \A i : i = Len(proc[u].chain) + 1 => i <= Len(proc[u].chain) + 1
        BY <3>4
      <3> QED BY <3>1, <3>4, <3>5, <3>6, <3>7, <3>8
    <2> QED BY <2>1, <2>2
  <1>8. Cleared'
    <2> SUFFICES ASSUME NEW u \in Procs, NEW k \in Ways,
                        \/ Cutting(proc'[u]) /\ k < proc'[u].way /\ Depth[k] = 1
                        \/ proc'[u].pc = "free_inode"
                 PROVE  latest'[inode'[proc'[u].hold].num].zone[k] = 0
      BY DEF Cleared, File, Cutting
    <2>1. CASE u = p
      BY <1>2, <2>1
    <2>2. CASE u # p
      <3>1. proc'[u] = proc[u]
        BY <1>2, <2>2
      <3>2. proc[u].hold \in Slots
        BY <3>1, Working
      <3>3. latest[File(u)].zone[k] = 0
        BY <1>0, <3>1 DEF Cleared
      <3> QED BY <1>3, <2>2, <3>1, <3>2, <3>3
    <2> QED BY <2>1, <2>2
  <1> QED BY <1>4, <1>5, <1>6, <1>7, <1>8

\* A step that leaves the zones as they are, of a process that does not work on
\* them; a new inode has no zones, nor has one that goes.
LEMMA Aside ==
    ASSUME Core, Core', Zoned, NEW p \in Procs, NEW r, proc' = [proc EXCEPT ![p] = r], Carry(r),
           UNCHANGED <<zmap, entry>>, ~Cutting(proc[p]), ~Mapping(proc[p]),
           ~Cutting(r), ~Mapping(r), r.pc # "free_inode", r.ret # "free_inode",
           \A q \in Procs \ {p} : proc[q].hold \in Slots =>
               inode'[proc[q].hold].num = inode[proc[q].hold].num,
           \A q \in Procs \ {p} : proc[q].ret = "free_inode" =>
               latest'[File(q)].nlinks = 0 /\ r.hold # proc[q].hold,
           \A n \in imap', k \in Ways : n \in imap => latest'[n].zone[k] = latest[n].zone[k],
           \A n \in imap', k \in Ways : n \notin imap => latest'[n].zone[k] = 0,
           \A n \in imap, k \in Ways : n \notin imap' => latest[n].zone[k] = 0
    PROVE  Zoned'
  <1>0. Owned
    BY DEF Zoned
  <1>1. /\ proc \in [Procs -> Calls] /\ imap \subseteq Nums /\ imap' \subseteq Nums
        /\ latest \in [Nums -> Images] /\ latest' \in [Nums -> Images]
        /\ entry \in [Zones -> Zones \cup {0}]
    BY DEF Core, Typed
  <1>2. proc'[p] = r /\ \A q \in Procs \ {p} : proc'[q] = proc[q]
    BY <1>1
  <1>3. ~Walking(r) /\ ~Walking(proc[p])
    BY DEF Walking, Cutting, Mapping
  <1>4. \A q \in Procs \ {p} : proc[q].hold \in Slots => inode'[proc[q].hold].num = File(q)
    BY DEF File
  <1>5. \A q \in Procs \ {p} : proc[q].hold \in Slots => File(q) \in imap'
    <2>1. Held' /\ Table'
      BY DEF Core
    <2> QED BY <1>2, <1>4, <2>1 DEF Held, Table
  <1>6. \A n \in imap, k \in Ways, i \in 1 .. 3 : n \in imap' => Spot(n, k, i)' = Spot(n, k, i)
    BY DEF Spot
  <1>7. \A n \in imap', k \in Ways, i \in 1 .. 3 : n \notin imap => Spot(n, k, i)' = 0
    <2> SUFFICES ASSUME NEW n \in imap', NEW k \in Ways, NEW i \in 1 .. 3, n \notin imap
                 PROVE  Hop(entry', latest'[n].zone[k], k, i) = 0
      BY DEF Spot
    <2> QED BY <1>1, HopFacts
  <1>8. \A n \in imap, k \in Ways, i \in 1 .. 3 : n \notin imap' => Spot(n, k, i) = 0
    BY <1>1, HopFacts DEF Spot
  <1>9. \A n, k, i : Alive(n, k, i)' <=> Alive(n, k, i)
    <2> TAKE n, k, i
    <2>1. \A q \in Procs \ {p} : Cutting(proc[q]) => inode'[proc'[q].hold].num = File(q)
      BY <1>2, <1>4, Working
    <2>2. Alive(n, k, i)' <=> \A q \in Procs \ {p} :
                                 Cutting(proc[q]) /\ File(q) = n => Ahead(proc[q], k, i)
      BY <1>2, <2>1 DEF Alive, File, Cutting, Ahead
    <2>3. Alive(n, k, i) <=> \A q \in Procs \ {p} :
                                 Cutting(proc[q]) /\ File(q) = n => Ahead(proc[q], k, i)
      BY DEF Alive
    <2> QED BY <2>2, <2>3
  <1>10. \A n, k, i : Live(n, k, i)' <=> Live(n, k, i)
    BY <1>6, <1>7, <1>8, <1>9 DEF Live
  <1>11. \A n, k, i : Live(n, k, i) => Spot(n, k, i)' = Spot(n, k, i)
    BY <1>6, <1>7, <1>8, <1>10 DEF Live
  <1>12. \A q \in Procs : proc'[q].new = proc[q].new
    <2>1. Carry(proc[p])
      BY DEF Zoned, Carried
    <2> QED BY <1>2, <2>1 DEF Carry, Mapping
  <1>13. Owned'
    BY <1>0, <1>10, <1>11, <1>12, SameOwned
  <1>14. \A q \in Procs \ {p} : \A n \in Nums, k \in Ways, i \in 1 .. 3 :
               Walking(proc[q]) /\ File(q) = n /\ proc[q].way = k /\ i <= Len(proc[q].chain) + 1
               => Spot(n, k, i)' = Spot(n, k, i)
    BY <1>5, <1>6, Working
  <1>15. \A q \in Procs \ {p}, k \in Ways :
               Cutting(proc[q]) \/ proc[q].pc = "free_inode" =>
                   latest'[File(q)].zone[k] = latest[File(q)].zone[k]
    BY <1>5, Working
  <1>16. Carried' /\ Single' /\ Sole' /\ Chained' /\ Cleared'
    BY <1>3, <1>14, <1>15, Steady
  <1> QED BY <1>13, <1>16 DEF Zoned

\* The way of a process that does not work on zones.
LEMMA CarryAside ==
    ASSUME NEW c, NEW r, Carry(c), ~Walking(c), ~Walking(r),
           \/ r.way = c.way /\ r.chain = c.chain /\ r.new = c.new
           \/ r.way = 0 /\ r.chain = <<>> /\ r.new = 0
    PROVE  Carry(r)
  <1>1. c.chain = <<>> /\ ~(c.new # 0)
    BY DEF Carry, Walking
  <1>2. c.way \in 0 .. Len(Depth) + 1 /\ 0 \in 0 .. Len(Depth) + 1
    BY Constants DEF Carry
  <1>3. r.way \in 0 .. Len(Depth) + 1 /\ r.chain = <<>> /\ r.new = 0
    BY <1>1, <1>2
  <1> QED BY <1>3 DEF Carry, Walking, Mapping

\* A step of such a process that changes neither the bitmaps nor an inode.
LEMMA Away ==
    ASSUME Core, Core', Zoned, NEW p \in Procs, NEW r, proc' = [proc EXCEPT ![p] = r],
           proc[p].pc \notin {"bmap", "new_block", "trunc", "descend", "free"},
           r.pc \notin {"bmap", "new_block", "trunc", "descend", "free", "free_inode"},
           r.ret # "free_inode",
           \/ r.way = proc[p].way /\ r.chain = proc[p].chain /\ r.new = proc[p].new
           \/ r.way = 0 /\ r.chain = <<>> /\ r.new = 0,
           UNCHANGED <<zmap, entry, imap, latest>>,
           \A q \in Procs \ {p} : proc[q].hold \in Slots =>
               inode'[proc[q].hold].num = inode[proc[q].hold].num,
           \/ r.hold \in {proc[p].hold, NULL}
           \/ \A q \in Procs \ {p} : proc[q].ret = "free_inode" => r.hold # proc[q].hold
    PROVE  Zoned'
  <1>1. ~Cutting(proc[p]) /\ ~Mapping(proc[p]) /\ ~Walking(proc[p])
        /\ ~Cutting(r) /\ ~Mapping(r) /\ ~Walking(r)
    BY DEF Cutting, Mapping, Walking
  <1>2. Carry(proc[p]) /\ Sole
    BY DEF Zoned, Carried
  <1>3. Carry(r)
    BY <1>1, <1>2, CarryAside
  <1>4. \A q \in Procs \ {p} : proc[q].ret = "free_inode" =>
               latest'[File(q)].nlinks = 0 /\ r.hold # proc[q].hold
    <2> SUFFICES ASSUME NEW q \in Procs \ {p}, proc[q].ret = "free_inode"
                 PROVE  latest'[File(q)].nlinks = 0 /\ r.hold # proc[q].hold
      OBVIOUS
    <2>1. latest[File(q)].nlinks = 0 /\ proc[p].hold # proc[q].hold
      BY <1>2 DEF Sole
    <2>2. proc[q].hold # NULL
      BY Working, Constants
    <2> QED BY <2>1, <2>2
  <1> QED BY <1>1, <1>3, <1>4, Aside

\* A call is over.
LEMMA Ended ==
    ASSUME NEW s \in Slots \cup {NULL}, NEW n \in Int
    PROVE  LET r == [Idle EXCEPT !.hold = s, !.ops = n] IN
           /\ r.pc = "idle" /\ r.ret = "idle" /\ r.hold = s
           /\ r.way = 0 /\ r.chain = <<>> /\ r.new = 0
  <1> DEFINE r == [Idle EXCEPT !.hold = s, !.ops = n]
  <1>1. /\ r.pc = Idle.pc /\ r.ret = Idle.ret /\ r.hold = s
        /\ r.way = Idle.way /\ r.chain = Idle.chain /\ r.new = Idle.new
    BY DEF Idle
  <1>2. Idle.pc = "idle" /\ Idle.ret = "idle" /\ Idle.way = 0 /\ Idle.chain = <<>> /\ Idle.new = 0
    BY DEF Idle
  <1> HIDE DEF r
  <1>3. /\ r.pc = "idle" /\ r.ret = "idle" /\ r.hold = s /\ r.way = 0 /\ r.chain = <<>> /\ r.new = 0
    BY <1>1, <1>2
  <1> QED BY <1>3 DEF r

\* A call of such a process is over.
LEMMA ReturnAway ==
    ASSUME Core, Core', Zoned, NEW p \in Procs, NEW s \in Slots \cup {NULL}, Returns(p, s),
           proc[p].pc \notin {"bmap", "new_block", "trunc", "descend", "free"},
           UNCHANGED <<zmap, entry, imap, latest>>,
           \A q \in Procs \ {p} : proc[q].hold \in Slots =>
               inode'[proc[q].hold].num = inode[proc[q].hold].num,
           \/ s \in {proc[p].hold, NULL}
           \/ \A q \in Procs \ {p} : proc[q].ret = "free_inode" => s # proc[q].hold
    PROVE  Zoned'
  <1> DEFINE r == [Idle EXCEPT !.hold = s, !.ops = proc[p].ops]
  <1>1. proc[p].ops \in Int
    BY CallFields DEF Core, Typed
  <1>2. /\ r.pc = "idle" /\ r.ret = "idle" /\ r.hold = s
        /\ r.way = 0 /\ r.chain = <<>> /\ r.new = 0
    BY <1>1, Ended
  <1>3. proc' = [proc EXCEPT ![p] = r]
    BY DEF Returns, Sleeps
  <1> HIDE DEF r
  <1> QED BY <1>2, <1>3, Away

\* A step that changes nothing at all.
LEMMA ZonedStays ==
    ASSUME Zoned, UNCHANGED <<inode, imap, zmap, entry, proc, latest>>
    PROVE  Zoned'
  <1>1. /\ inode' = inode /\ imap' = imap /\ zmap' = zmap /\ entry' = entry /\ proc' = proc
        /\ latest' = latest
    OBVIOUS
  <1>2. \A n, k, i : /\ Spot(n, k, i)' = Spot(n, k, i)
                     /\ Live(n, k, i)' <=> Live(n, k, i)
    BY <1>1 DEF Live, Alive, Spot, File
  <1>3. Carried' /\ Single' /\ Sole'
    BY <1>1 DEF Zoned, Carried, Single, Sole, File
  <1>4. Chained'
    BY <1>1, ZenonT(60) DEF Zoned, Chained, File, Spot
  <1>5. Cleared'
    BY <1>1, SMTT(30) DEF Zoned, Cleared, File
  <1>6. Owned'
    BY <1>1, <1>2, SameOwned DEF Zoned
  <1> QED BY <1>3, <1>4, <1>5, <1>6 DEF Zoned

\* A process moves on, and its way is as it was.
LEMMA OnAway ==
    ASSUME Core, Core', Zoned, NEW p \in Procs, NEW r, proc' = [proc EXCEPT ![p] = r],
           proc[p].pc \notin {"bmap", "new_block", "trunc", "descend", "free", "free_inode"},
           r.pc \notin {"bmap", "new_block", "trunc", "descend", "free", "free_inode"},
           r.ret \in {proc[p].ret, "claim", "iput", "sync"},
           r.way = proc[p].way /\ r.chain = proc[p].chain /\ r.new = proc[p].new,
           r.hold = proc[p].hold, UNCHANGED <<zmap, entry, imap, latest>>,
           \A q \in Procs \ {p} : proc[q].hold \in Slots =>
               inode'[proc[q].hold].num = inode[proc[q].hold].num
    PROVE  Zoned'
  <1>1. proc[p].ret # "free_inode"
    BY DEF Core, Staged, Stage
  <1>2. r.ret # "free_inode"
    BY <1>1
  <1> QED BY <1>2, Away

\* get_empty_inode.
LEMMA EmptyAway ==
    ASSUME Core, Core', Zoned, NEW p \in Procs, GetEmptyInode(p) \/ Claim(p)
    PROVE  Zoned'
  <1>1. CASE GetEmptyInode(p)
    <2>0. proc[p] \in Calls /\ proc[p].pc = "empty"
      BY <1>1, Here DEF GetEmptyInode
    <2>1. UNCHANGED <<inode, imap, zmap, entry, latest>>
      BY <1>1 DEF GetEmptyInode
    <2>2. CASE UNCHANGED proc
      BY <2>1, <2>2, ZonedStays
    <2>3. CASE \E s \in Slots : proc' = [proc EXCEPT ![p] = [proc[p] EXCEPT !.pc = "claim", !.cur = s]]
      <3>1. PICK s \in Slots : proc' = [proc EXCEPT ![p] = [proc[p] EXCEPT !.pc = "claim", !.cur = s]]
        BY <2>3
      <3> DEFINE r == [proc[p] EXCEPT !.pc = "claim", !.cur = s]
      <3>2. /\ r.pc = "claim" /\ r.hold = proc[p].hold /\ r.ret = proc[p].ret
            /\ r.way = proc[p].way /\ r.chain = proc[p].chain /\ r.new = proc[p].new
        BY <2>0 DEF Calls
      <3>3. proc' = [proc EXCEPT ![p] = r]
        BY <3>1
      <3> HIDE DEF r
      <3> QED BY <2>0, <2>1, <3>2, <3>3, OnAway
    <2> QED BY <1>1, <2>2, <2>3 DEF GetEmptyInode, Waits
  <1>2. CASE Claim(p)
    <2> DEFINE s == proc[p].cur
    <2>0. proc[p] \in Calls /\ proc[p].pc = "claim" /\ inode \in [Slots -> Entries] /\ Stage(proc[p])
      BY <1>2, Here DEF Claim
    <2>1. UNCHANGED <<imap, zmap, entry, latest>>
      BY <1>2 DEF Claim
    <2>2. s \in Slots
      BY <2>0 DEF Stage
    <2>3. CASE UNCHANGED inode /\ proc' = [proc EXCEPT ![p] = [proc[p] EXCEPT !.pc = "write", !.ret = "claim"]]
      <3> DEFINE r == [proc[p] EXCEPT !.pc = "write", !.ret = "claim"]
      <3>2. /\ r.pc = "write" /\ r.hold = proc[p].hold /\ r.ret = "claim"
            /\ r.way = proc[p].way /\ r.chain = proc[p].chain /\ r.new = proc[p].new
        BY <2>0 DEF Calls
      <3>3. proc' = [proc EXCEPT ![p] = r]
        BY <2>3
      <3> HIDE DEF r
      <3> QED BY <2>0, <2>1, <2>3, <3>2, <3>3, OnAway
    <2>4. CASE UNCHANGED inode /\ proc' = [proc EXCEPT ![p] = [proc[p] EXCEPT !.pc = "empty"]]
      <3> DEFINE r == [proc[p] EXCEPT !.pc = "empty"]
      <3>2. /\ r.pc = "empty" /\ r.hold = proc[p].hold /\ r.ret = proc[p].ret
            /\ r.way = proc[p].way /\ r.chain = proc[p].chain /\ r.new = proc[p].new
        BY <2>0 DEF Calls
      <3>3. proc' = [proc EXCEPT ![p] = r]
        BY <2>4
      <3> HIDE DEF r
      <3> QED BY <2>0, <2>1, <2>4, <3>2, <3>3, OnAway
    <2>5. CASE /\ ~(inode[s].count > 0) /\ inode' = [inode EXCEPT ![s] = [Zero EXCEPT !.count = 1]]
               /\ proc' = [proc EXCEPT ![p] = [proc[p] EXCEPT !.pc = "search", !.empty = s]]
      <3> DEFINE r == [proc[p] EXCEPT !.pc = "search", !.empty = s]
      <3>2. /\ r.pc = "search" /\ r.hold = proc[p].hold /\ r.ret = proc[p].ret
            /\ r.way = proc[p].way /\ r.chain = proc[p].chain /\ r.new = proc[p].new
        BY <2>0 DEF Calls
      <3>3. proc' = [proc EXCEPT ![p] = r]
        BY <2>5
      <3> HIDE DEF r
      <3>4. \A q \in Procs : proc[q].hold # s
        <4> SUFFICES ASSUME NEW q \in Procs, proc[q].hold = s PROVE FALSE
          OBVIOUS
        <4>1. inode[s].count = Cardinality(Users(s)) /\ q \in Users(s)
          BY <2>2 DEF Core, Counted, Users
        <4>2. IsFiniteSet(Users(s)) /\ Users(s) # {}
          BY <4>1, UsersFinite
        <4>3. Cardinality(Users(s)) > 0
          BY <4>2, FS_EmptySet, FS_CardinalityType
        <4> QED BY <2>5, <4>1, <4>3
      <3>5. \A t \in Slots : t # s => inode'[t].num = inode[t].num
        BY <2>0, <2>5
      <3> QED BY <2>0, <2>1, <3>2, <3>3, <3>4, <3>5, OnAway
    <2> QED BY <1>2, <2>3, <2>4, <2>5 DEF Claim, Runs
  <1> QED BY <1>1, <1>2

\* write_inode and sync_inodes.
LEMMA WriteAway ==
    ASSUME Core, Core', Zoned, NEW p \in Procs, WriteInode(p) \/ WriteDone(p) \/ SyncInodes(p)
    PROVE  Zoned'
  <1> DEFINE s == proc[p].cur
  <1>0. /\ proc[p] \in Calls /\ proc[p].pc \in {"write", "writing", "sync"}
        /\ inode \in [Slots -> Entries] /\ Stage(proc[p])
    <2>1. At(p, "write") \/ At(p, "writing") \/ At(p, "sync")
      BY DEF WriteInode, WriteDone, SyncInodes
    <2> QED BY <2>1, Here
  <1>1. UNCHANGED <<imap, zmap, entry, latest>>
    BY DEF WriteInode, WriteDone, SyncInodes
  <1>2. proc[p].pc \in {"write", "writing"} => s \in Slots /\ proc[p].ret \in {"claim", "iput", "sync"}
    BY <1>0 DEF Stage
  <1>3. \A t \in Slots : inode'[t].num = inode[t].num
    <2>1. CASE UNCHANGED inode
      BY <2>1
    <2>2. CASE WriteInode(p) /\ inode' = [inode EXCEPT ![s].lock = TRUE]
      <3>1. s \in Slots
        BY <1>2, <2>2 DEF WriteInode, At
      <3> QED BY <1>0, <2>2, <3>1 DEF Entries
    <2>3. CASE WriteDone(p)
      <3>1. s \in Slots /\ inode' = [inode EXCEPT ![s].dirt = FALSE, ![s].lock = FALSE]
        BY <1>2, <2>3 DEF WriteDone, At
      <3> QED BY <1>0, <3>1 DEF Entries
    <2> QED BY <2>1, <2>2, <2>3 DEF WriteInode, SyncInodes
  <1>4. CASE \E l \in {"claim", "iput", "sync", "writing"} : proc' = [proc EXCEPT ![p] = [proc[p] EXCEPT !.pc = l]]
    <2>1. PICK l \in {"claim", "iput", "sync", "writing"} : proc' = [proc EXCEPT ![p] = [proc[p] EXCEPT !.pc = l]]
      BY <1>4
    <2> DEFINE r == [proc[p] EXCEPT !.pc = l]
    <2>2. /\ r.pc = l /\ r.hold = proc[p].hold /\ r.ret = proc[p].ret
          /\ r.way = proc[p].way /\ r.chain = proc[p].chain /\ r.new = proc[p].new
      BY <1>0 DEF Calls
    <2>3. proc' = [proc EXCEPT ![p] = r]
      BY <2>1
    <2> HIDE DEF r
    <2> QED BY <1>0, <1>1, <1>3, <2>2, <2>3, OnAway
  <1>5. CASE WriteInode(p) \/ WriteDone(p)
    <2>1. proc[p].ret \in {"claim", "iput", "sync"}
      BY <1>2, <1>5 DEF WriteInode, WriteDone, At
    <2> QED BY <1>4, <1>5, <2>1 DEF WriteInode, WriteDone, Runs, Sleeps
  <1>6. CASE SyncInodes(p)
    <2>1. CASE Returns(p, proc[p].hold)
      <3>1. proc[p].hold \in Slots \cup {NULL}
        BY <1>0, CallFields
      <3> QED BY <1>0, <1>1, <1>3, <2>1, <3>1, ReturnAway
    <2>2. CASE proc' = [proc EXCEPT ![p] = [proc[p] EXCEPT !.pc = "write", !.ret = "sync"]]
      <3> DEFINE r == [proc[p] EXCEPT !.pc = "write", !.ret = "sync"]
      <3>2. /\ r.pc = "write" /\ r.hold = proc[p].hold /\ r.ret = "sync"
            /\ r.way = proc[p].way /\ r.chain = proc[p].chain /\ r.new = proc[p].new
        BY <1>0 DEF Calls
      <3>3. proc' = [proc EXCEPT ![p] = r]
        BY <2>2
      <3> HIDE DEF r
      <3> QED BY <1>0, <1>1, <1>3, <3>2, <3>3, OnAway
    <2>3. CASE proc' = [proc EXCEPT ![p] = [proc[p] EXCEPT !.cur = s + 1]]
      <3> DEFINE r == [proc[p] EXCEPT !.cur = s + 1]
      <3>2. /\ r.pc = proc[p].pc /\ r.hold = proc[p].hold /\ r.ret = proc[p].ret
            /\ r.way = proc[p].way /\ r.chain = proc[p].chain /\ r.new = proc[p].new
        BY <1>0 DEF Calls
      <3>3. proc' = [proc EXCEPT ![p] = r]
        BY <2>3
      <3> HIDE DEF r
      <3> QED BY <1>0, <1>1, <1>3, <3>2, <3>3, OnAway
    <2> QED BY <1>6, <2>1, <2>2, <2>3 DEF SyncInodes, Runs, Waits
  <1> QED BY <1>5, <1>6

\* iget gets its reference: not to an inode that is being freed.
LEMMA GotAway ==
    ASSUME Core, Core', Zoned, NEW p \in Procs, NEW s \in Slots, At(p, "search") \/ At(p, "found"),
           Got(p, s), inode[s].num = proc[p].want, proc[p].want # 0,
           UNCHANGED <<zmap, entry, imap, latest>>
    PROVE  Zoned'
  <1>1. proc[p].pc \in {"search", "found"} /\ Stage(proc[p])
    BY Here
  <1> DEFINE e == proc[p].empty
  <1>2. e \in Slots
    BY <1>1 DEF Stage
  <1>3. inode[e].num = 0
    BY <1>2 DEF Core, Emptied
  <1>4. s # e
    BY <1>3
  <1>5. inode \in [Slots -> Entries]
    BY DEF Core, Typed
  <1>6. \A t \in Slots : inode'[t].num = inode[t].num
    <2>1. inode' = [inode EXCEPT ![s].count = @ + 1, ![e].count = @ - 1]
      BY DEF Got
    <2> DEFINE x == [inode[s] EXCEPT !.count = inode[s].count + 1]
               y == [inode[e] EXCEPT !.count = inode[e].count - 1]
    <2>2. inode' = [inode EXCEPT ![s] = x, ![e] = y]
      BY <1>2, <1>4, <1>5, <2>1
    <2>3. x.num = inode[s].num /\ y.num = inode[e].num
      BY <1>2, <1>5 DEF Entries
    <2> HIDE DEF x, y
    <2> QED BY <1>2, <1>5, <2>2, <2>3
  <1>7. \A q \in Procs \ {p} : proc[q].ret = "free_inode" => s # proc[q].hold
    BY DEF Core, Freeing
  <1>8. Returns(p, s)
    BY DEF Got
  <1> QED BY <1>1, <1>6, <1>7, <1>8, ReturnAway

\* iget.
LEMMA SearchAway ==
    ASSUME Core, Core', Zoned, NEW p \in Procs, Search(p) \/ Found(p) \/ ReadDone(p)
    PROVE  Zoned'
  <1>1. CASE Search(p)
    <2> DEFINE n == proc[p].want  s == Min(Cached(n))  e == proc[p].empty
    <2>1. At(p, "search") /\ n # 0 /\ UNCHANGED <<imap, zmap, entry, latest>>
      BY <1>1 DEF Search
    <2>2. proc[p] \in Calls /\ proc[p].pc = "search" /\ Stage(proc[p]) /\ inode \in [Slots -> Entries]
      BY <2>1, Here
    <2>3. e \in Slots
      BY <2>2 DEF Stage
    <2>4. inode[e].num = 0
      BY <2>3 DEF Core, Emptied
    <2>5. CASE Cached(n) = {}
      <3>1. /\ inode' = [inode EXCEPT ![e].num = n, ![e].lock = TRUE]
            /\ proc' = [proc EXCEPT ![p] = [proc[p] EXCEPT !.pc = "reading", !.hold = e, !.empty = NULL]]
        BY <1>1, <2>5 DEF Search, Sleeps
      <3> DEFINE r == [proc[p] EXCEPT !.pc = "reading", !.hold = e, !.empty = NULL]
      <3>2. /\ r.pc = "reading" /\ r.hold = e /\ r.ret = proc[p].ret
            /\ r.way = proc[p].way /\ r.chain = proc[p].chain /\ r.new = proc[p].new
        BY <2>2 DEF Calls
      <3>3. \A q \in Procs : proc[q].hold # e
        BY <2>3, <2>4 DEF Core, Held
      <3>4. \A t \in Slots : t # e => inode'[t].num = inode[t].num
        BY <2>2, <3>1
      <3>5. proc[p].ret # "free_inode"
        BY <2>2 DEF Stage
      <3>6. proc' = [proc EXCEPT ![p] = r]
        BY <3>1
      <3> HIDE DEF r
      <3>7. \A q \in Procs \ {p} : proc[q].hold \in Slots =>
               inode'[proc[q].hold].num = inode[proc[q].hold].num
        BY <3>3, <3>4
      <3>8. \A q \in Procs \ {p} : proc[q].ret = "free_inode" => r.hold # proc[q].hold
        BY <3>2, <3>3
      <3>9. r.ret # "free_inode" /\ r.pc \notin {"bmap", "new_block", "trunc", "descend", "free", "free_inode"}
        BY <3>2, <3>5
      <3> HIDE DEF e, n
      <3> QED BY <2>1, <2>2, <3>2, <3>6, <3>7, <3>8, <3>9, Away
    <2>6. CASE Cached(n) # {} /\ inode[s].lock
      <3>1. /\ UNCHANGED inode
            /\ proc' = [proc EXCEPT ![p] = [proc[p] EXCEPT !.pc = "found", !.cur = s]]
        BY <1>1, <2>6 DEF Search, Sleeps
      <3> DEFINE r == [proc[p] EXCEPT !.pc = "found", !.cur = s]
      <3>2. /\ r.pc = "found" /\ r.hold = proc[p].hold /\ r.ret = proc[p].ret
            /\ r.way = proc[p].way /\ r.chain = proc[p].chain /\ r.new = proc[p].new
        BY <2>2 DEF Calls
      <3>3. proc' = [proc EXCEPT ![p] = r]
        BY <3>1
      <3> HIDE DEF r
      <3> QED BY <2>1, <2>2, <3>1, <3>2, <3>3, OnAway
    <2>7. CASE Cached(n) # {} /\ ~inode[s].lock
      <3>1. Got(p, s)
        BY <1>1, <2>7 DEF Search
      <3>2. s \in Cached(n)
        <4>1. Cached(n) \in SUBSET Nat
          BY Constants DEF Cached, Slots
        <4> QED BY <2>7, <4>1, MinIn
      <3>3. s \in Slots /\ inode[s].num = proc[p].want
        BY <3>2 DEF Cached
      <3> HIDE DEF s
      <3> QED BY <2>1, <3>1, <3>3, GotAway
    <2> QED BY <2>5, <2>6, <2>7
  <1>2. CASE Found(p)
    <2> DEFINE s == proc[p].cur
    <2>1. At(p, "found") /\ UNCHANGED <<imap, zmap, entry, latest>>
      BY <1>2 DEF Found
    <2>2. proc[p] \in Calls /\ proc[p].pc = "found" /\ Stage(proc[p])
      BY <2>1, Here
    <2>3. CASE inode[s].num = proc[p].want
      <3>1. Got(p, s) /\ s \in Slots /\ proc[p].want # 0
        BY <1>2, <2>2, <2>3 DEF Found, Stage
      <3> QED BY <2>1, <2>3, <3>1, GotAway
    <2>4. CASE inode[s].num # proc[p].want
      <3>1. /\ UNCHANGED inode
            /\ proc' = [proc EXCEPT ![p] = [proc[p] EXCEPT !.pc = "search"]]
        BY <1>2, <2>4 DEF Found, Runs
      <3> DEFINE r == [proc[p] EXCEPT !.pc = "search"]
      <3>2. /\ r.pc = "search" /\ r.hold = proc[p].hold /\ r.ret = proc[p].ret
            /\ r.way = proc[p].way /\ r.chain = proc[p].chain /\ r.new = proc[p].new
        BY <2>2 DEF Calls
      <3>3. proc' = [proc EXCEPT ![p] = r]
        BY <3>1
      <3> HIDE DEF r
      <3> QED BY <2>1, <2>2, <3>1, <3>2, <3>3, OnAway
    <2> QED BY <2>3, <2>4
  <1>3. CASE ReadDone(p)
    <2> DEFINE s == proc[p].hold
    <2>1. /\ At(p, "reading") /\ UNCHANGED <<imap, zmap, entry, latest>> /\ Returns(p, s)
          /\ inode' = [inode EXCEPT ![s].img = disk[inode[s].num], ![s].lock = FALSE]
      BY <1>3 DEF ReadDone
    <2>2. proc[p].pc = "reading" /\ Stage(proc[p]) /\ inode \in [Slots -> Entries]
      BY <2>1, Here
    <2>3. s \in Slots
      BY <2>2 DEF Stage, Using
    <2>4. \A t \in Slots : inode'[t].num = inode[t].num
      BY <2>1, <2>2, <2>3 DEF Entries
    <2> QED BY <2>1, <2>2, <2>3, <2>4, ReturnAway
  <1> QED BY <1>1, <1>2, <1>3

\* The calls that do not go to the zones at once.
LEMMA CallsAway ==
    ASSUME Core, Core', Zoned, NEW p \in Procs, Open(p) \/ Create(p) \/ Close(p) \/ Sync(p)
    PROVE  Zoned'
  <1>1. At(p, "idle") /\ UNCHANGED <<inode, imap, zmap, entry, latest>>
    BY DEF Open, Create, Close, Sync, Call
  <1>2. proc[p] \in Calls /\ proc[p].pc = "idle"
    BY <1>1, Here
  <1>3. ASSUME NEW r, proc' = [proc EXCEPT ![p] = r], r.pc \in {"empty", "iput", "sync"},
               r.hold = proc[p].hold, r.ret = proc[p].ret, r.way = proc[p].way,
               r.chain = proc[p].chain, r.new = proc[p].new
        PROVE  Zoned'
    BY <1>1, <1>2, <1>3, OnAway
  <1>4. CASE Open(p)
    <2>1. PICK n \in names : Call(p, [proc[p] EXCEPT !.pc = "empty", !.want = n])
      BY <1>4 DEF Open
    <2> DEFINE t == [proc[p] EXCEPT !.pc = "empty", !.want = n]
               r == [t EXCEPT !.ops = t.ops - 1]
    <2>2. /\ r.pc = "empty" /\ r.hold = proc[p].hold /\ r.ret = proc[p].ret
          /\ r.way = proc[p].way /\ r.chain = proc[p].chain /\ r.new = proc[p].new
      BY <1>2 DEF Calls
    <2>3. proc' = [proc EXCEPT ![p] = r]
      BY <2>1 DEF Call, Runs
    <2> HIDE DEF r
    <2> QED BY <1>3, <2>2, <2>3
  <1>5. CASE Create(p)
    <2> DEFINE t == [proc[p] EXCEPT !.pc = "empty"]
               r == [t EXCEPT !.ops = t.ops - 1]
    <2>2. /\ r.pc = "empty" /\ r.hold = proc[p].hold /\ r.ret = proc[p].ret
          /\ r.way = proc[p].way /\ r.chain = proc[p].chain /\ r.new = proc[p].new
      BY <1>2 DEF Calls
    <2>3. proc' = [proc EXCEPT ![p] = r]
      BY <1>5 DEF Create, Call, Runs
    <2> HIDE DEF r
    <2> QED BY <1>3, <2>2, <2>3
  <1>6. CASE Close(p)
    <2> DEFINE t == [proc[p] EXCEPT !.pc = "iput", !.ops = proc[p].ops + 1]
               r == [t EXCEPT !.ops = t.ops - 1]
    <2>2. /\ r.pc = "iput" /\ r.hold = proc[p].hold /\ r.ret = proc[p].ret
          /\ r.way = proc[p].way /\ r.chain = proc[p].chain /\ r.new = proc[p].new
      BY <1>2 DEF Calls
    <2>3. proc' = [proc EXCEPT ![p] = r]
      BY <1>6 DEF Close, Call, Runs
    <2> HIDE DEF r
    <2> QED BY <1>3, <2>2, <2>3
  <1>7. CASE Sync(p)
    <2> DEFINE t == [proc[p] EXCEPT !.pc = "sync", !.cur = 1]
               r == [t EXCEPT !.ops = t.ops - 1]
    <2>2. /\ r.pc = "sync" /\ r.hold = proc[p].hold /\ r.ret = proc[p].ret
          /\ r.way = proc[p].way /\ r.chain = proc[p].chain /\ r.new = proc[p].new
      BY <1>2 DEF Calls
    <2>3. proc' = [proc EXCEPT ![p] = r]
      BY <1>7 DEF Sync, Call, Runs
    <2> HIDE DEF r
    <2> QED BY <1>3, <2>2, <2>3
  <1> QED BY <1>4, <1>5, <1>6, <1>7

\* A new inode has no zones.
LEMMA FirstZones ==
    ASSUME NEW n
    PROVE  LET e == [Zero EXCEPT !.num = n, !.count = 1, !.dirt = TRUE, !.img.nlinks = 1] IN
           \A k \in Ways : e.img.zone[k] = 0
  <1> DEFINE e == [Zero EXCEPT !.num = n, !.count = 1, !.dirt = TRUE, !.img.nlinks = 1]
             g == [Gone EXCEPT !.nlinks = 1]
  <1>1. \A k \in Ways : g.zone[k] = 0
    BY DEF Gone
  <1>2. Zero.img = Gone
    BY DEF Zero
  <1>3. e.img = g
    BY <1>2 DEF Zero
  <1> HIDE DEF e, g
  <1>4. \A k \in Ways : e.img.zone[k] = 0
    BY <1>1, <1>3
  <1> QED BY <1>4 DEF e

\* new_inode.
LEMMA NewAside ==
    ASSUME Core, Core', Zoned, NEW p \in Procs, NewInode(p)
    PROVE  Zoned'
  <1> DEFINE s == proc[p].empty  n == Min(Nums \ imap)
  <1>1. At(p, "search") /\ UNCHANGED <<zmap, entry>>
    BY DEF NewInode
  <1>2. /\ proc[p] \in Calls /\ proc[p].pc = "search" /\ Stage(proc[p]) /\ inode \in [Slots -> Entries]
        /\ latest \in [Nums -> Images] /\ imap \subseteq Nums
    BY <1>1, Here DEF Core, Typed
  <1>3. s \in Slots /\ proc[p].hold = NULL /\ proc[p].ret # "free_inode"
    BY <1>2 DEF Stage, Looking
  <1>4. \A q \in Procs : proc[q].hold # s
    BY <1>3 DEF Core, Emptied, Held
  <1>5. CASE Nums \ imap = {}
    <2>1. inode' = [inode EXCEPT ![s].count = @ - 1] /\ Returns(p, NULL) /\ UNCHANGED <<imap, latest>>
      BY <1>5 DEF NewInode
    <2>2. \A t \in Slots : t # s => inode'[t].num = inode[t].num
      BY <1>2, <2>1
    <2>3. \A q \in Procs \ {p} : proc[q].hold \in Slots =>
               inode'[proc[q].hold].num = inode[proc[q].hold].num
      BY <1>4, <2>2
    <2> HIDE DEF s
    <2> QED BY <1>1, <1>2, <2>1, <2>3, ReturnAway
  <1>6. CASE Nums \ imap # {}
    <2> DEFINE e == [Zero EXCEPT !.num = n, !.count = 1, !.dirt = TRUE, !.img.nlinks = 1]
               r == [proc[p] EXCEPT !.pc = "enter", !.hold = s, !.empty = NULL]
    <2>1. n \in Nums /\ n \notin imap
      <3>1. Nums \ imap \in SUBSET Nat
        BY Constants
      <3> QED BY <1>6, <3>1, MinIn
    <2>2. /\ imap' = imap \cup {n} /\ inode' = [inode EXCEPT ![s] = e]
          /\ latest' = [latest EXCEPT ![n] = inode'[s].img]
          /\ proc' = [proc EXCEPT ![p] = r]
      BY <1>6 DEF NewInode, Runs
    <2>3. \A k \in Ways : e.img.zone[k] = 0
      BY FirstZones
    <2>4. /\ r.pc = "enter" /\ r.hold = s /\ r.ret = proc[p].ret
          /\ r.way = proc[p].way /\ r.chain = proc[p].chain /\ r.new = proc[p].new
      BY <1>2 DEF Calls
    <2> HIDE DEF e, r, n
    <2>5. /\ \A m \in Nums : m # n => latest'[m] = latest[m]
          /\ latest'[n] = e.img
      BY <1>2, <1>3, <2>1, <2>2
    <2>6. \A t \in Slots : t # s => inode'[t].num = inode[t].num
      BY <1>2, <2>2
    <2>7. \A q \in Procs \ {p} : proc[q].ret = "free_inode" =>
               latest'[File(q)].nlinks = 0 /\ r.hold # proc[q].hold
      <3> SUFFICES ASSUME NEW q \in Procs \ {p}, proc[q].ret = "free_inode"
                   PROVE  latest'[File(q)].nlinks = 0 /\ r.hold # proc[q].hold
        OBVIOUS
      <3>1. File(q) \in imap /\ File(q) \in Nums
        BY Working
      <3>2. latest[File(q)].nlinks = 0
        BY DEF Zoned, Sole
      <3> QED BY <1>4, <2>1, <2>4, <2>5, <3>1, <3>2
    <2>8. \A m \in imap', k \in Ways : m \in imap => latest'[m].zone[k] = latest[m].zone[k]
      BY <1>2, <2>1, <2>5
    <2>9. \A m \in imap', k \in Ways : m \notin imap => latest'[m].zone[k] = 0
      BY <2>2, <2>3, <2>5
    <2>10. \A m \in imap, k \in Ways : m \notin imap' => latest[m].zone[k] = 0
      BY <2>2
    <2>11. /\ ~Cutting(proc[p]) /\ ~Mapping(proc[p]) /\ ~Walking(proc[p])
           /\ ~Cutting(r) /\ ~Mapping(r) /\ ~Walking(r) /\ r.pc # "free_inode" /\ r.ret # "free_inode"
      BY <1>2, <1>3, <2>4 DEF Cutting, Mapping, Walking
    <2>12. Carry(r)
      <3>1. Carry(proc[p])
        BY DEF Zoned, Carried
      <3> QED BY <2>4, <2>11, <3>1, CarryAside
    <2>13. \A q \in Procs \ {p} : proc[q].hold \in Slots =>
               inode'[proc[q].hold].num = inode[proc[q].hold].num
      BY <1>4, <2>6
    <2> HIDE DEF s
    <2> QED BY <1>1, <2>2, <2>7, <2>8, <2>9, <2>10, <2>11, <2>12, <2>13, Aside
  <1> QED BY <1>5, <1>6

\* What a change of an inode is, and is not.
LEMMA ChangedParts ==
    ASSUME Core, NEW p \in Procs, proc[p].hold \in Slots, proc[p].pc # "reading",
           NEW img \in Images,
           Changed(proc[p].hold, img) \/ ChangedUnmarked(proc[p].hold, img)
    PROVE  /\ \A t \in Slots : inode'[t].num = inode[t].num
           /\ \A x \in Nums : x # File(p) => latest'[x] = latest[x]
           /\ latest'[File(p)] = img /\ File(p) \in Nums /\ File(p) \in imap
           /\ inode[proc[p].hold].img = latest[File(p)]
  <1>1. inode \in [Slots -> Entries] /\ latest \in [Nums -> Images] /\ imap \subseteq Nums
    BY DEF Core, Typed
  <1>2. File(p) \in imap /\ inode[proc[p].hold].img = latest[File(p)]
    BY LastImage DEF File
  <1>3. /\ \/ inode' = [inode EXCEPT ![proc[p].hold].img = img, ![proc[p].hold].dirt = TRUE]
           \/ inode' = [inode EXCEPT ![proc[p].hold].img = img]
        /\ latest' = [latest EXCEPT ![File(p)] = img]
    BY DEF Changed, ChangedUnmarked, File
  <1>4. \A t \in Slots : inode'[t].num = inode[t].num
    BY <1>1, <1>3 DEF Entries
  <1> QED BY <1>1, <1>2, <1>3, <1>4

\* i_nlinks changes, and nothing else of the inode.
LEMMA LinkAside ==
    ASSUME Core, Core', Zoned, NEW p \in Procs, NEW r, proc' = [proc EXCEPT ![p] = r],
           proc[p].pc \in {"idle", "enter"}, proc[p].hold \in Slots,
           \A t \in Slots : inode'[t].num = inode[t].num,
           \A x \in Nums : x # File(p) => latest'[x] = latest[x],
           latest'[File(p)].zone = latest[File(p)].zone,
           r.pc = "iput", r.ret = proc[p].ret, r.hold = proc[p].hold,
           r.way = proc[p].way, r.chain = proc[p].chain, r.new = proc[p].new,
           UNCHANGED <<imap, zmap, entry>>
    PROVE  Zoned'
  <1>1. imap \subseteq Nums /\ Stage(proc[p]) /\ Table
    BY DEF Core, Typed, Staged
  <1>2. File(p) # 0
    BY DEF Core, Held, File
  <1>7. \A q \in Procs \ {p} : proc[q].ret = "free_inode" =>
               latest'[File(q)].nlinks = 0 /\ r.hold # proc[q].hold
    <2> SUFFICES ASSUME NEW q \in Procs \ {p}, proc[q].ret = "free_inode"
                 PROVE  latest'[File(q)].nlinks = 0 /\ r.hold # proc[q].hold
      OBVIOUS
    <2>1. latest[File(q)].nlinks = 0 /\ proc[p].hold # proc[q].hold
      BY DEF Zoned, Sole
    <2>2. File(q) \in Nums /\ proc[q].hold \in Slots
      BY Working
    <2>3. File(q) # File(p)
      BY <1>1, <1>2, <2>1, <2>2 DEF Table, File
    <2> QED BY <2>1, <2>2, <2>3
  <1>8. \A x \in imap', k \in Ways : x \in imap => latest'[x].zone[k] = latest[x].zone[k]
    BY <1>1
  <1>9. /\ ~Cutting(proc[p]) /\ ~Mapping(proc[p]) /\ ~Walking(proc[p])
        /\ ~Cutting(r) /\ ~Mapping(r) /\ ~Walking(r) /\ r.pc # "free_inode" /\ r.ret # "free_inode"
    BY <1>1 DEF Cutting, Mapping, Walking, Stage
  <1>10. Carry(r)
    <2>1. Carry(proc[p])
      BY DEF Zoned, Carried
    <2> QED BY <1>9, <2>1, CarryAside
  <1> QED BY <1>7, <1>8, <1>9, <1>10, Aside

\* The name of a new inode, and unlink.
LEMMA NameAside ==
    ASSUME Core, Core', Zoned, NEW p \in Procs, Enter(p) \/ Unlink(p)
    PROVE  Zoned'
  <1> DEFINE s == proc[p].hold
  <1>1. CASE Enter(p)
    <2>1. At(p, "enter") /\ UNCHANGED <<imap, zmap, entry>>
      BY <1>1 DEF Enter
    <2>2. proc[p] \in Calls /\ proc[p].pc = "enter" /\ Stage(proc[p])
      BY <2>1, Here
    <2>3. s \in Slots
      BY <2>2 DEF Stage, Using
    <2>4. CASE Returns(p, s) /\ UNCHANGED <<inode, latest>>
      BY <2>1, <2>2, <2>3, <2>4, ReturnAway
    <2>5. CASE /\ Changed(s, [inode[s].img EXCEPT !.nlinks = @ - 1])
               /\ proc' = [proc EXCEPT ![p] = [proc[p] EXCEPT !.pc = "iput"]]
      <3> DEFINE r == [proc[p] EXCEPT !.pc = "iput"]
      <3>1. /\ r.pc = "iput" /\ r.hold = proc[p].hold /\ r.ret = proc[p].ret
            /\ r.way = proc[p].way /\ r.chain = proc[p].chain /\ r.new = proc[p].new
        BY <2>2 DEF Calls
      <3>2. proc' = [proc EXCEPT ![p] = r]
        BY <2>5
      <3> HIDE DEF r
      <3> DEFINE img == [inode[s].img EXCEPT !.nlinks = inode[s].img.nlinks - 1]
      <3>3. Changed(s, img)
        BY <2>5
      <3>6. inode[s].img.nlinks # 0
        BY <2>2, <2>3, LastImage DEF Core, Entering
      <3>4. img.zone = inode[s].img.zone /\ img \in Images
        BY <2>2, <2>3, <3>6, LastImage, DropLink DEF Images
      <3> HIDE DEF img
      <3>5. /\ \A t \in Slots : inode'[t].num = inode[t].num
            /\ \A x \in Nums : x # File(p) => latest'[x] = latest[x]
            /\ latest'[File(p)].zone = latest[File(p)].zone
        BY <2>2, <2>3, <3>3, <3>4, ChangedParts
      <3> QED BY <2>1, <2>2, <2>3, <3>1, <3>2, <3>5, LinkAside
    <2> QED BY <1>1, <2>4, <2>5 DEF Enter, Runs
  <1>2. CASE Unlink(p)
    <2>1. At(p, "idle") /\ UNCHANGED <<imap, zmap, entry>> /\ s # NULL
      BY <1>2 DEF Unlink, Call
    <2>2. proc[p] \in Calls /\ proc[p].pc = "idle"
      BY <2>1, Here
    <2>3. s \in Slots
      BY <2>1, <2>2, CallFields
    <2> DEFINE t == [proc[p] EXCEPT !.pc = "iput"]
               r == [t EXCEPT !.ops = t.ops - 1]
               img == [inode[s].img EXCEPT !.nlinks = inode[s].img.nlinks - 1]
    <2>4. /\ r.pc = "iput" /\ r.hold = proc[p].hold /\ r.ret = proc[p].ret
          /\ r.way = proc[p].way /\ r.chain = proc[p].chain /\ r.new = proc[p].new
      BY <2>2 DEF Calls
    <2>5. proc' = [proc EXCEPT ![p] = r]
      BY <1>2 DEF Unlink, Call, Runs
    <2>6. Changed(s, img)
      BY <1>2 DEF Unlink
    <2>9. inode[s].num \in names
      BY <1>2 DEF Unlink
    <2>7. img.zone = inode[s].img.zone /\ img \in Images
      BY <2>2, <2>3, <2>9, LastImage, DropLink DEF Images
    <2> HIDE DEF r, img
    <2>8. /\ \A u \in Slots : inode'[u].num = inode[u].num
          /\ \A x \in Nums : x # File(p) => latest'[x] = latest[x]
          /\ latest'[File(p)].zone = latest[File(p)].zone
      BY <2>2, <2>3, <2>6, <2>7, ChangedParts
    <2> QED BY <2>1, <2>2, <2>3, <2>4, <2>5, <2>8, LinkAside
  <1> QED BY <1>1, <1>2

\* iput, but for the file without names.
LEMMA PutAway ==
    ASSUME Core, Core', Zoned, NEW p \in Procs, iput(p),
           ~(inode[proc[p].hold].count = 1 /\ inode[proc[p].hold].img.nlinks = 0)
    PROVE  Zoned'
  <1> DEFINE s == proc[p].hold
  <1>1. At(p, "iput") /\ UNCHANGED <<imap, zmap, entry, latest>>
    BY DEF iput
  <1>2. proc[p] \in Calls /\ proc[p].pc = "iput" /\ Stage(proc[p]) /\ inode \in [Slots -> Entries]
    BY <1>1, Here
  <1>3. s \in Slots
    BY <1>2 DEF Stage, Using
  <1>4. CASE UNCHANGED <<inode, proc>>
    BY <1>1, <1>4, ZonedStays
  <1>5. CASE UNCHANGED inode /\ proc' = [proc EXCEPT ![p] = [proc[p] EXCEPT !.pc = "write", !.ret = "iput", !.cur = s]]
    <2> DEFINE r == [proc[p] EXCEPT !.pc = "write", !.ret = "iput", !.cur = s]
    <2>1. /\ r.pc = "write" /\ r.hold = proc[p].hold /\ r.ret = "iput"
          /\ r.way = proc[p].way /\ r.chain = proc[p].chain /\ r.new = proc[p].new
      BY <1>2 DEF Calls
    <2>2. proc' = [proc EXCEPT ![p] = r]
      BY <1>5
    <2> HIDE DEF r
    <2> QED BY <1>1, <1>2, <1>5, <2>1, <2>2, OnAway
  <1>6. CASE inode' = [inode EXCEPT ![s].count = @ - 1] /\ Returns(p, NULL)
    <2>1. \A t \in Slots : inode'[t].num = inode[t].num
      BY <1>2, <1>3, <1>6 DEF Entries
    <2> QED BY <1>1, <1>2, <1>6, <2>1, ReturnAway
  <1> QED BY <1>4, <1>5, <1>6 DEF iput, Runs

\* free_inode: the zones have gone before.
LEMMA FreeAside ==
    ASSUME Core, Core', Zoned, NEW p \in Procs, free_inode(p)
    PROVE  Zoned'
  <1> DEFINE s == proc[p].hold  n == inode[s].num
  <1>1. At(p, "free_inode") /\ UNCHANGED <<zmap, entry, latest>>
    BY DEF free_inode
  <1>2. proc[p] \in Calls /\ proc[p].pc = "free_inode" /\ Stage(proc[p]) /\ inode \in [Slots -> Entries]
    BY <1>1, Here
  <1>3. proc[p].ret = "free_inode" /\ proc[p].ops \in Int
    BY <1>2, CallFields DEF Stage
  <1>4. CASE UNCHANGED <<inode, imap, proc>>
    BY <1>1, <1>4, ZonedStays
  <1>5. CASE imap' = imap \ {n} /\ inode' = [inode EXCEPT ![s] = Zero] /\ Returns(p, NULL)
    <2> DEFINE r == [Idle EXCEPT !.hold = NULL, !.ops = proc[p].ops]
    <2>1. /\ r.pc = "idle" /\ r.ret = "idle" /\ r.hold = NULL
          /\ r.way = 0 /\ r.chain = <<>> /\ r.new = 0
      <3>1. NULL \in Slots \cup {NULL}
        OBVIOUS
      <3> QED BY <1>3, <3>1, Ended
    <2>2. proc' = [proc EXCEPT ![p] = r]
      BY <1>5 DEF Returns, Sleeps
    <2> HIDE DEF r
    <2>3. \A q \in Procs \ {p} : proc[q].hold # s
      BY <1>3 DEF Zoned, Sole
    <2>4. \A t \in Slots : t # s => inode'[t].num = inode[t].num
      BY <1>2, <1>5
    <2>5. \A q \in Procs \ {p} : proc[q].ret = "free_inode" =>
               latest'[File(q)].nlinks = 0 /\ r.hold # proc[q].hold
      <3> SUFFICES ASSUME NEW q \in Procs \ {p}, proc[q].ret = "free_inode"
                   PROVE  latest'[File(q)].nlinks = 0 /\ r.hold # proc[q].hold
        OBVIOUS
      <3>1. latest[File(q)].nlinks = 0
        BY DEF Zoned, Sole
      <3>2. proc[q].hold \in Slots
        BY Working
      <3> QED BY <1>1, <2>1, <3>1, <3>2, Constants
    <2>6. \A m \in imap, k \in Ways : m \notin imap' => latest[m].zone[k] = 0
      <3>1. \A k \in Ways : latest[n].zone[k] = 0
        BY <1>2 DEF Zoned, Cleared, File
      <3> QED BY <1>5, <3>1
    <2>7. /\ ~Cutting(proc[p]) /\ ~Mapping(proc[p]) /\ ~Walking(proc[p])
          /\ ~Cutting(r) /\ ~Mapping(r) /\ ~Walking(r) /\ r.pc # "free_inode" /\ r.ret # "free_inode"
      BY <1>2, <2>1 DEF Cutting, Mapping, Walking
    <2>8. Carry(r)
      <3>1. Carry(proc[p])
        BY DEF Zoned, Carried
      <3> QED BY <2>1, <2>7, <3>1, CarryAside
    <2>9. \A m \in imap', k \in Ways : m \in imap /\ latest'[m].zone[k] = latest[m].zone[k]
      BY <1>1, <1>5
    <2>10. \A q \in Procs \ {p} : proc[q].hold \in Slots =>
               inode'[proc[q].hold].num = inode[proc[q].hold].num
      BY <2>3, <2>4
    <2> HIDE DEF s, n
    <2> QED BY <1>1, <2>2, <2>5, <2>6, <2>7, <2>8, <2>9, <2>10, Aside
  <1> QED BY <1>4, <1>5 DEF free_inode
-----------------------------------------------------------------------------
\* A place of a file that the process c, at work on it, has not freed.
Spared(c, k, i) == Cutting(c) => Ahead(c, k, i)

\* A process goes its way: no pointer and no bit changes, and what it has not
\* freed is what it had not freed.
LEMMA Walks ==
    ASSUME Core, Zoned, NEW p \in Procs, NEW r, proc' = [proc EXCEPT ![p] = r],
           UNCHANGED <<inode, imap, zmap, entry, latest>>,
           proc[p].hold \in Slots, r.hold = proc[p].hold, r.new = proc[p].new, Carry(r),
           r.pc \notin {"new_block", "free_inode"},
           \A q \in Procs \ {p} : proc[q].hold = proc[p].hold =>
               /\ Cutting(r) => ~Cutting(proc[q]) /\ ~Mapping(proc[q])
               /\ Mapping(r) => ~Cutting(proc[q]) /\ (Mapping(proc[q]) => proc[q].way # r.way),
           r.ret = "free_inode" => /\ latest[File(p)].nlinks = 0
                                   /\ \A q \in Procs \ {p} : proc[q].hold # proc[p].hold,
           Walking(r) => /\ r.way \in Ways /\ r \in Calls
                         /\ \A k \in Ways, i \in 1 .. 3 : r.way = k /\ i <= Len(r.chain) =>
                                                    r.chain[i] = Spot(File(p), k, i),
           \A k \in Ways : Cutting(r) /\ k < r.way /\ Depth[k] = 1 => latest[File(p)].zone[k] = 0,
           \A k \in Ways, i \in 1 .. 3 : Spot(File(p), k, i) # 0 =>
               (Spared(proc[p], k, i) <=> Spared(r, k, i))
    PROVE  Zoned'
  <1>0. Owned /\ Sole
    BY DEF Zoned
  <1>1. proc \in [Procs -> Calls] /\ imap \subseteq Nums /\ Held /\ Table
    BY DEF Core, Typed
  <1>2. proc'[p] = r /\ \A q \in Procs \ {p} : proc'[q] = proc[q]
    BY <1>1
  <1>3. File(p) \in Nums
    BY <1>1 DEF Held, Table, File
  <1>4. \A n, k, i : Spot(n, k, i)' = Spot(n, k, i)
    BY DEF Spot
  <1>5. \A n : (\A q \in Procs : inode'[proc'[q].hold].num = n <=> File(q) = n)
    BY <1>2 DEF File
  <1>6. \A n, k, i : Live(n, k, i)' <=> Live(n, k, i)
    <2> SUFFICES ASSUME NEW n \in imap, NEW k \in Ways, NEW i \in 1 .. 3, Spot(n, k, i) # 0
                 PROVE  Alive(n, k, i)' <=> Alive(n, k, i)
      BY <1>4 DEF Live
    <2>1. Alive(n, k, i)' <=> \A q \in Procs : Cutting(proc'[q]) /\ File(q) = n => Ahead(proc'[q], k, i)
      BY <1>5 DEF Alive, File, Cutting, Ahead
    <2>2. Alive(n, k, i)' <=>
              /\ \A q \in Procs \ {p} : Cutting(proc[q]) /\ File(q) = n => Ahead(proc[q], k, i)
              /\ File(p) = n => Spared(r, k, i)
      BY <1>2, <2>1 DEF Spared
    <2>3. Alive(n, k, i) <=>
              /\ \A q \in Procs \ {p} : Cutting(proc[q]) /\ File(q) = n => Ahead(proc[q], k, i)
              /\ File(p) = n => Spared(proc[p], k, i)
      BY DEF Alive, Spared
    <2>4. File(p) = n => (Spared(proc[p], k, i) <=> Spared(r, k, i))
      OBVIOUS
    <2> QED BY <2>2, <2>3, <2>4
  <1>7. Owned'
    BY <1>0, <1>2, <1>4, <1>6, SameOwned
  <1>8. \A q \in Procs \ {p} : proc[q].ret = "free_inode" =>
               latest'[File(q)].nlinks = 0 /\ r.hold # proc[q].hold
    BY <1>0 DEF Sole
  <1>9. inode'[r.hold].num = File(p)
    BY DEF File
  <1>10. Walking(r) => /\ inode'[r.hold].num \in Nums /\ r.way \in Ways /\ r \in Calls
                       /\ \A n \in Nums, k \in Ways, i \in 1 .. 3 :
                               inode'[r.hold].num = n /\ r.way = k =>
                                   /\ i <= Len(r.chain) => r.chain[i] = Spot(n, k, i)'
                                   /\ r.pc = "new_block" /\ i = Len(r.chain) + 1 => Spot(n, k, i)' = 0
    BY <1>3, <1>4, <1>9
  <1>11. \A q \in Procs \ {p} : proc[q].hold \in Slots =>
               inode'[proc[q].hold].num = inode[proc[q].hold].num
    OBVIOUS
  <1>12. \A q \in Procs \ {p} : proc[q].hold = r.hold /\ r.hold \in Slots =>
               /\ Cutting(r) => ~Cutting(proc[q]) /\ ~Mapping(proc[q])
               /\ Mapping(r) => ~Cutting(proc[q]) /\ (Mapping(proc[q]) => proc[q].way # r.way)
    OBVIOUS
  <1>13. r.ret = "free_inode" => /\ latest'[inode'[r.hold].num].nlinks = 0
                                 /\ \A q \in Procs \ {p} : proc[q].hold # r.hold
    BY <1>9
  <1>14. \A q \in Procs \ {p} : \A n \in Nums, k \in Ways, i \in 1 .. 3 :
               Walking(proc[q]) /\ File(q) = n /\ proc[q].way = k /\ i <= Len(proc[q].chain) + 1
               => Spot(n, k, i)' = Spot(n, k, i)
    BY <1>4
  <1>15. \A q \in Procs \ {p}, k \in Ways :
               Cutting(proc[q]) \/ proc[q].pc = "free_inode" =>
                   latest'[File(q)].zone[k] = latest[File(q)].zone[k]
    OBVIOUS
  <1>16. \A k \in Ways :
               (Cutting(r) /\ k < r.way /\ Depth[k] = 1) \/ r.pc = "free_inode" =>
                   latest'[inode'[r.hold].num].zone[k] = 0
    BY <1>9
  <1>17. Carried' /\ Single' /\ Sole' /\ Chained' /\ Cleared'
    BY <1>8, <1>10, <1>11, <1>12, <1>13, <1>14, <1>15, <1>16, Steady
  <1> QED BY <1>7, <1>17 DEF Zoned

\* A process comes to work on the zones of the inode it holds.
LEMMA Starts ==
    ASSUME Core, Zoned, NEW p \in Procs, NEW r \in Calls, proc' = [proc EXCEPT ![p] = r],
           UNCHANGED <<inode, imap, zmap, entry, latest>>, proc[p].pc \in {"idle", "iput"},
           proc[p].hold \in Slots, r.hold = proc[p].hold, r.new = proc[p].new, r.chain = proc[p].chain,
           \/ r.pc = "bmap" /\ r.way \in Ways
           \/ r.pc = "trunc" /\ r.way = 1,
           \A q \in Procs \ {p} : proc[q].hold = proc[p].hold =>
               /\ ~Cutting(proc[q])
               /\ Mapping(proc[q]) => r.pc = "bmap" /\ proc[q].way # r.way,
           r.ret = "free_inode" => /\ latest[File(p)].nlinks = 0
                                   /\ \A q \in Procs \ {p} : proc[q].hold # proc[p].hold
    PROVE  Zoned'
  <1>1. Carry(proc[p])
    BY DEF Zoned, Carried
  <1>2. ~Walking(proc[p]) /\ ~Cutting(proc[p]) /\ ~Mapping(proc[p])
    BY DEF Walking, Cutting, Mapping
  <1>3. r.chain = <<>> /\ r.new = 0
    BY <1>1, <1>2 DEF Carry, Mapping
  <1>4. Len(r.chain) = 0
    BY <1>3
  <1>5. r.way \in 0 .. Len(Depth) + 1
    BY DepthType, Constants
  <1>6. Carry(r)
    <2>1. CASE r.pc = "bmap"
      <3>1. 0 < Depth[r.way]
        BY <2>1, DepthType
      <3> QED BY <1>3, <1>4, <1>5, <2>1, <3>1 DEF Carry, Walking, Mapping
    <2>2. CASE r.pc = "trunc"
      BY <1>3, <1>5, <2>2 DEF Carry, Walking, Mapping
    <2> QED BY <2>1, <2>2
  <1>7. \A k \in Ways, i \in 1 .. 3 : Spared(proc[p], k, i) /\ Spared(r, k, i)
    <2> SUFFICES ASSUME NEW k \in Ways, NEW i \in 1 .. 3, r.pc = "trunc" PROVE Ahead(r, k, i)
      BY <1>2 DEF Spared, Cutting
    <2>1. k >= 1 /\ k \in Nat
      BY DepthType
    <2> QED BY <2>1 DEF Ahead
  <1>8. \A k \in Ways : ~(Cutting(r) /\ k < r.way)
    BY DepthType DEF Cutting
  <1>9. Walking(r) => /\ r.way \in Ways /\ r \in Calls
                      /\ \A k \in Ways, i \in 1 .. 3 : r.way = k /\ i <= Len(r.chain) =>
                                                    r.chain[i] = Spot(File(p), k, i)
    BY <1>4 DEF Walking
  <1>10. \A q \in Procs \ {p} : proc[q].hold = proc[p].hold =>
               /\ Cutting(r) => ~Cutting(proc[q]) /\ ~Mapping(proc[q])
               /\ Mapping(r) => ~Cutting(proc[q]) /\ (Mapping(proc[q]) => proc[q].way # r.way)
    BY DEF Cutting, Mapping
  <1>11. r.pc \notin {"new_block", "free_inode"}
    OBVIOUS
  <1> QED BY <1>6, <1>7, <1>8, <1>9, <1>10, <1>11, Walks

\* write, open with O_TRUNC, and iput of a file without names.
LEMMA ZonesStart ==
    ASSUME Core, Zoned, NEW p \in Procs, ~raced',
           \/ Write(p) \/ OpenTrunc(p)
           \/ /\ iput(p) /\ inode[proc[p].hold].count = 1 /\ inode[proc[p].hold].img.nlinks = 0
    PROVE  Zoned'
  <1> DEFINE s == proc[p].hold
  <1>1. CASE Write(p)
    <2>1. PICK k \in Ways : /\ Call(p, [proc[p] EXCEPT !.pc = "bmap", !.way = k])
                            /\ raced' = (raced \/ Busy(p, s, k))
      BY <1>1 DEF Write
    <2>2. At(p, "idle") /\ s # NULL /\ UNCHANGED <<inode, imap, zmap, entry, latest>>
      BY <1>1, <2>1 DEF Write, Call
    <2>3. proc[p] \in Calls /\ proc[p].pc = "idle" /\ Stage(proc[p])
      BY <2>2, Here
    <2>4. s \in Slots /\ proc[p].ret # "free_inode" /\ k \in Nat /\ proc[p].ops \in Int
      BY <2>2, <2>3, CallFields, DepthType DEF Stage
    <2> DEFINE t == [proc[p] EXCEPT !.pc = "bmap", !.way = k]
               r == [t EXCEPT !.ops = t.ops - 1]
    <2>5. t \in Calls /\ t.ops = proc[p].ops
      BY <2>3, <2>4, ZenonT(60) DEF Calls, Labels
    <2>6. /\ r.pc = "bmap" /\ r.way = k /\ r.hold = s /\ r.new = proc[p].new /\ r.chain = proc[p].chain
          /\ r.ret = proc[p].ret
      BY <2>3 DEF Calls
    <2>7. proc' = [proc EXCEPT ![p] = r]
      BY <2>1 DEF Call, Runs
    <2>8. r \in Calls
      <3> HIDE DEF t
      <3> QED BY <2>4, <2>5 DEF Calls
    <2> HIDE DEF r
    <2>9. \A q \in Procs \ {p} : proc[q].hold = s =>
               /\ ~Cutting(proc[q])
               /\ Mapping(proc[q]) => r.pc = "bmap" /\ proc[q].way # r.way
      BY <2>1, <2>6 DEF Busy, Cutting, Mapping
    <2> QED BY <2>2, <2>3, <2>4, <2>6, <2>7, <2>8, <2>9, Starts
  <1>2. CASE OpenTrunc(p)
    <2>1. /\ Call(p, [proc[p] EXCEPT !.pc = "trunc", !.way = 1])
          /\ raced' = (raced \/ Busy(p, s, 0))
      BY <1>2 DEF OpenTrunc
    <2>2. At(p, "idle") /\ s # NULL /\ UNCHANGED <<inode, imap, zmap, entry, latest>>
      BY <1>2, <2>1 DEF OpenTrunc, Call
    <2>3. proc[p] \in Calls /\ proc[p].pc = "idle" /\ Stage(proc[p])
      BY <2>2, Here
    <2>4. s \in Slots /\ proc[p].ret # "free_inode" /\ proc[p].ops \in Int
      BY <2>2, <2>3, CallFields DEF Stage
    <2> DEFINE t == [proc[p] EXCEPT !.pc = "trunc", !.way = 1]
               r == [t EXCEPT !.ops = t.ops - 1]
    <2>5. t \in Calls /\ t.ops = proc[p].ops
      BY <2>3, <2>4, ZenonT(60) DEF Calls, Labels
    <2>6. /\ r.pc = "trunc" /\ r.way = 1 /\ r.hold = s /\ r.new = proc[p].new /\ r.chain = proc[p].chain
          /\ r.ret = proc[p].ret
      BY <2>3 DEF Calls
    <2>7. proc' = [proc EXCEPT ![p] = r]
      BY <2>1 DEF Call, Runs
    <2>8. r \in Calls
      <3> HIDE DEF t
      <3> QED BY <2>4, <2>5 DEF Calls
    <2> HIDE DEF r
    <2>9. \A q \in Procs \ {p} : proc[q].hold = s => ~Cutting(proc[q]) /\ ~Mapping(proc[q])
      BY <2>1 DEF Busy, Cutting, Mapping
    <2> QED BY <2>2, <2>3, <2>4, <2>6, <2>7, <2>8, <2>9, Starts
  <1>3. CASE iput(p) /\ inode[s].count = 1 /\ inode[s].img.nlinks = 0
    <2> DEFINE r == [proc[p] EXCEPT !.pc = "trunc", !.ret = "free_inode", !.way = 1]
    <2>1. At(p, "iput") /\ proc' = [proc EXCEPT ![p] = r] /\ UNCHANGED <<inode, imap, zmap, entry, latest>>
      BY <1>3 DEF iput, Runs
    <2>2. proc[p] \in Calls /\ proc[p].pc = "iput" /\ Stage(proc[p])
      BY <2>1, Here
    <2>3. s \in Slots
      BY <2>2 DEF Stage, Using
    <2>4. /\ r \in Calls /\ r.pc = "trunc" /\ r.way = 1 /\ r.hold = s /\ r.new = proc[p].new
          /\ r.chain = proc[p].chain /\ r.ret = "free_inode"
      BY <2>2, ZenonT(60) DEF Calls, Labels
    <2> HIDE DEF r
    <2>5. \A q \in Procs \ {p} : proc[q].hold # s
      <3>1. Uses(proc[p], s)
        BY DEF Uses
      <3>2. \A q \in Procs : q # p => ~Uses(proc[q], s)
        BY <1>3, <2>3, <3>1, CountMeans
      <3> QED BY <3>2 DEF Uses
    <2>6. latest[File(p)].nlinks = 0
      BY <1>3, <2>2, <2>3, LastImage DEF File
    <2> QED BY <2>1, <2>2, <2>3, <2>4, <2>5, <2>6, Starts
  <1> QED BY <1>1, <1>2, <1>3

\* Where a way ends it has ended.
LEMMA HopEnds ==
    ASSUME NEW f \in [Zones -> Zones \cup {0}], NEW a \in Zones \cup {0}, NEW k \in Ways,
           NEW i \in 1 .. 3, NEW j \in 1 .. 3, i <= j, Hop(f, a, k, i) = 0
    PROVE  Hop(f, a, k, j) = 0
  <1>1. \A m \in 1 .. 2 : Hop(f, a, k, m) = 0 => Hop(f, a, k, m + 1) = 0
    BY HopFacts
  <1>2. 1 \in 1 .. 2 /\ 2 \in 1 .. 2 /\ 1 + 1 = 2 /\ 2 + 1 = 3
    OBVIOUS
  <1>3. (Hop(f, a, k, 1) = 0 => Hop(f, a, k, 2) = 0) /\ (Hop(f, a, k, 2) = 0 => Hop(f, a, k, 3) = 0)
    BY <1>1, <1>2
  <1>4. i = 1 \/ i = 2 \/ i = 3
    OBVIOUS
  <1>5. j = 1 \/ j = 2 \/ j = 3
    OBVIOUS
  <1> QED BY <1>3, <1>4, <1>5

\* The types of what is on a way.
LEMMA SpotFacts ==
    ASSUME Core, NEW n \in Nums, NEW k \in Ways
    PROVE  /\ latest[n].zone[k] \in Zones \cup {0} /\ Spot(n, k, 1) = latest[n].zone[k]
           /\ \A i \in 1 .. 3 : Spot(n, k, i) \in Zones \cup {0}
           /\ \A i \in 1 .. 3 : i > Depth[k] => Spot(n, k, i) = 0
           /\ \A i \in 1 .. 3 : \A j \in 1 .. 3 : i <= j /\ Spot(n, k, i) = 0 => Spot(n, k, j) = 0
           /\ \A i \in 1 .. 2 : Spot(n, k, i) # 0 /\ i + 1 <= Depth[k] =>
                 Spot(n, k, i + 1) = entry[Spot(n, k, i)]
  <1>1. latest \in [Nums -> Images] /\ entry \in [Zones -> Zones \cup {0}]
    BY DEF Core, Typed
  <1> DEFINE a == latest[n].zone[k]
  <1>2. a \in Zones \cup {0}
    BY <1>1, ImageZones
  <1>3. \A i : Spot(n, k, i) = Hop(entry, a, k, i)
    BY DEF Spot
  <1> HIDE DEF a
  <1>4. \A i \in 1 .. 3 : \A j \in 1 .. 3 : i <= j /\ Hop(entry, a, k, i) = 0 => Hop(entry, a, k, j) = 0
    BY <1>1, <1>2, HopEnds
  <1>5. Depth[k] \in 1 .. 3
    BY DepthType
  <1>6. \A i \in 1 .. 2 : Hop(entry, a, k, i) # 0 /\ i + 1 <= Depth[k] =>
                 Hop(entry, a, k, i + 1) = entry[Hop(entry, a, k, i)]
    BY <1>1, <1>2, <1>5, HopFacts
  <1>7. /\ Hop(entry, a, k, 1) = a
        /\ \A i \in 1 .. 3 : Hop(entry, a, k, i) \in Zones \cup {0}
        /\ \A i \in 1 .. 3 : i > Depth[k] => Hop(entry, a, k, i) = 0
    BY <1>1, <1>2, HopFacts
  <1> QED BY <1>2, <1>3, <1>4, <1>6, <1>7 DEF a

\* A process on its way: where it is, and what comes next.
LEMMA OnWay ==
    ASSUME Core, Zoned, NEW p \in Procs, Walking(proc[p])
    PROVE  LET n == File(p)  k == proc[p].way  c == proc[p].chain IN
           /\ n \in imap /\ n \in Nums /\ k \in Ways /\ proc[p].hold \in Slots /\ c \in Seq(Zones)
           /\ Len(c) \in 0 .. 3 /\ Len(c) <= Depth[k] /\ Depth[k] \in 1 .. 3
           /\ \A i \in 1 .. Len(c) : i \in 1 .. 3 /\ c[i] = Spot(n, k, i) /\ c[i] \in Zones
           /\ inode[proc[p].hold].img.zone[k] = Spot(n, k, 1)
           /\ c # <<>> => Len(c) \in 1 .. 3 /\ c[Len(c)] = Spot(n, k, Len(c)) /\ c[Len(c)] \in Zones
           /\ c # <<>> /\ Len(c) < Depth[k] => entry[c[Len(c)]] = Spot(n, k, Len(c) + 1)
  <1> DEFINE n == File(p)  k == proc[p].way  c == proc[p].chain  l == Len(c)  d == Depth[k]
  <1>1. n \in imap /\ n \in Nums /\ k \in Ways /\ proc[p].hold \in Slots
    BY Working
  <1>2. proc[p] \in Calls /\ Carry(proc[p])
    BY DEF Core, Typed, Zoned, Carried
  <1>3. c \in Seq(Zones)
    BY <1>2, CallFields
  <1>4. l \in 0 .. 3 /\ d \in 1 .. 3 /\ (l < d \/ l <= d) /\ \A i \in 1 .. l : i \in 1 .. 3
    <2>1. l < d \/ l <= d
      BY <1>2 DEF Carry, Walking, Mapping
    <2> QED BY <1>1, <1>2, <2>1, ChainLength
  <1>5. \A i \in 1 .. l : c[i] = Spot(n, k, i) /\ c[i] \in Zones
    <2>1. \A i \in 1 .. l : c[i] = Spot(n, k, i)
      BY DEF Zoned, Chained
    <2>2. \A i \in 1 .. l : c[i] \in Zones
      BY <1>3
    <2> QED BY <2>1, <2>2
  <1>6. inode[proc[p].hold].img.zone[k] = Spot(n, k, 1)
    <2>1. proc[p].pc # "reading"
      BY DEF Walking
    <2>2. inode[proc[p].hold].img = latest[n]
      BY <1>1, <2>1, LastImage DEF File
    <2> QED BY <1>1, <2>2, SpotFacts
  <1>7. c # <<>> => l \in 1 .. l /\ l \in 1 .. 3
    <2>1. c # <<>> => l # 0
      BY <1>3
    <2> QED BY <1>4, <2>1
  <1> HIDE DEF n, k, c
  <1>8. ASSUME c # <<>>, l < d PROVE entry[c[l]] = Spot(n, k, l + 1)
    <2>1. c[l] = Spot(n, k, l) /\ c[l] \in Zones /\ l \in 1 .. 3
      BY <1>5, <1>7, <1>8
    <2>2. l \in 1 .. 2 /\ l + 1 <= d
      BY <1>4, <1>8, <2>1
    <2>3. Spot(n, k, l) # 0
      BY <2>1, Constants
    <2> HIDE DEF l, d
    <2> QED BY <1>1, <2>1, <2>2, <2>3, SpotFacts DEF d
  <1>9. l <= d
    BY <1>4
  <1> QED BY <1>1, <1>3, <1>4, <1>5, <1>6, <1>7, <1>8, <1>9 DEF n, k, c

\* The pointer _bmap looks at is the next one on its way.
LEMMA CellSpot ==
    ASSUME Core, Zoned, NEW p \in Procs, Mapping(proc[p])
    PROVE  /\ Cell(p) = Spot(File(p), proc[p].way, Len(proc[p].chain) + 1)
           /\ Len(proc[p].chain) + 1 \in 1 .. 3 /\ Len(proc[p].chain) < Depth[proc[p].way]
  <1> DEFINE n == File(p)  k == proc[p].way  c == proc[p].chain
  <1>1. Walking(proc[p])
    BY DEF Walking, Mapping
  <1>2. /\ Len(c) \in 0 .. 3 /\ Depth[k] \in 1 .. 3
        /\ inode[proc[p].hold].img.zone[k] = Spot(n, k, 1)
        /\ c # <<>> /\ Len(c) < Depth[k] => entry[c[Len(c)]] = Spot(n, k, Len(c) + 1)
    BY <1>1, OnWay
  <1>3. Len(c) < Depth[k]
    BY DEF Zoned, Carried, Carry
  <1>4. Len(c) + 1 \in 1 .. 3
    BY <1>2, <1>3
  <1>5. CASE c = <<>>
    <2>1. Len(c) + 1 = 1
      BY <1>5
    <2> QED BY <1>2, <1>3, <1>4, <1>5, <2>1 DEF Cell
  <1>6. CASE c # <<>>
    BY <1>2, <1>3, <1>4, <1>6 DEF Cell
  <1> QED BY <1>5, <1>6

\* A process that maps a block and then does not.
LEMMA MapReturns ==
    ASSUME Core, Zoned, NEW p \in Procs, proc[p].pc = "bmap", Returns(p, proc[p].hold),
           UNCHANGED <<inode, imap, zmap, entry, latest>>
    PROVE  Zoned'
  <1> DEFINE r == [Idle EXCEPT !.hold = proc[p].hold, !.ops = proc[p].ops]
  <1>1. proc[p] \in Calls /\ Stage(proc[p]) /\ Carry(proc[p])
    BY DEF Core, Typed, Staged, Zoned, Carried
  <1>2. proc[p].ops \in Int /\ proc[p].hold \in Slots
    BY <1>1, CallFields DEF Stage, Using
  <1>3. /\ r.pc = "idle" /\ r.ret = "idle" /\ r.hold = proc[p].hold
        /\ r.way = 0 /\ r.chain = <<>> /\ r.new = 0
    BY <1>2, Ended
  <1>4. proc' = [proc EXCEPT ![p] = r]
    BY DEF Returns, Sleeps
  <1> HIDE DEF r
  <1>5. ~Walking(r) /\ ~Mapping(r) /\ ~Cutting(r) /\ ~Cutting(proc[p])
    BY <1>3 DEF Walking, Mapping, Cutting
  <1>6. 0 \in 0 .. Len(Depth) + 1
    BY Constants
  <1>7. Carry(r)
    BY <1>3, <1>5, <1>6 DEF Carry
  <1>8. r.new = proc[p].new
    BY <1>1, <1>3 DEF Carry
  <1>9. \A k, i : Spared(proc[p], k, i) /\ Spared(r, k, i)
    BY <1>5 DEF Spared
  <1>10. r.pc \notin {"new_block", "free_inode"} /\ r.ret # "free_inode"
    BY <1>3
  <1> QED BY <1>2, <1>3, <1>4, <1>5, <1>7, <1>8, <1>9, <1>10, Walks

\* One zone further on the way.
LEMMA Further ==
    ASSUME Core, Zoned, NEW p \in Procs, Walking(proc[p]), NEW z \in Zones,
           Len(proc[p].chain) < Depth[proc[p].way],
           z = Spot(File(p), proc[p].way, Len(proc[p].chain) + 1)
    PROVE  LET c == proc[p].chain  d == Append(c, z) IN
           /\ d \in Seq(Zones) /\ Len(d) = Len(c) + 1 /\ d # <<>>
           /\ \A i \in 1 .. 3 : i <= Len(d) => d[i] = Spot(File(p), proc[p].way, i)
  <1> DEFINE n == File(p)  k == proc[p].way  c == proc[p].chain  d == Append(c, z)
  <1>1. /\ c \in Seq(Zones) /\ Len(c) \in 0 .. 3
        /\ \A i \in 1 .. Len(c) : c[i] = Spot(n, k, i)
    BY OnWay
  <1> HIDE DEF n, k, c
  <1>2. d \in Seq(Zones) /\ Len(d) = Len(c) + 1 /\ d # <<>>
    <2>1. d \in Seq(Zones) /\ Len(d) = Len(c) + 1
      BY <1>1
    <2>2. Len(d) # 0
      BY <1>1, <2>1
    <2>3. Len(<<>>) = 0
      OBVIOUS
    <2> QED BY <2>1, <2>2, <2>3
  <1>3. \A i \in 1 .. 3 : i <= Len(d) => d[i] = Spot(n, k, i)
    <2> SUFFICES ASSUME NEW i \in 1 .. 3, i <= Len(d) PROVE d[i] = Spot(n, k, i)
      OBVIOUS
    <2>1. CASE i = Len(c) + 1
      <3>1. d[i] = z
        BY <1>1, <2>1
      <3> QED BY <2>1, <3>1 DEF n, k, c
    <2>2. CASE i # Len(c) + 1
      <3>1. i \in 1 .. Len(c)
        BY <1>1, <1>2, <2>2
      <3>2. d[i] = c[i]
        BY <1>1, <3>1
      <3> QED BY <1>1, <3>1, <3>2
    <2> QED BY <2>1, <2>2
  <1> QED BY <1>2, <1>3 DEF n, k, c

\* _bmap, as long as it finds what it looks for, or there is no free zone.
LEMMA BmapWalks ==
    ASSUME Core, Zoned, NEW p \in Procs, Bmap(p), Cell(p) # 0 \/ Zones \ zmap = {}
    PROVE  Zoned'
  <1>1. At(p, "bmap") /\ UNCHANGED <<inode, imap, entry, latest>>
    BY DEF Bmap
  <1>2. proc[p] \in Calls /\ proc[p].pc = "bmap" /\ Stage(proc[p]) /\ Carry(proc[p])
    BY <1>1, Here DEF Zoned, Carried
  <1>3. Walking(proc[p]) /\ Mapping(proc[p]) /\ ~Cutting(proc[p])
    BY <1>2 DEF Walking, Mapping, Cutting
  <1>4. CASE Returns(p, proc[p].hold) /\ UNCHANGED zmap
    BY <1>1, <1>2, <1>4, MapReturns
  <1>5. CASE /\ Cell(p) # 0 /\ UNCHANGED zmap /\ Len(proc[p].chain) + 1 # Depth[proc[p].way]
             /\ proc' = [proc EXCEPT ![p] = [proc[p] EXCEPT !.pc = "bmap", !.chain = Append(@, Cell(p)), !.new = 0]]
    <2> DEFINE z == Cell(p)  c == proc[p].chain  d == Append(c, z)  k == proc[p].way
               r == [proc[p] EXCEPT !.pc = "bmap", !.chain = d, !.new = 0]
    <2>1. z \in Zones
      BY <1>2, <1>5, CellType
    <2>2. z = Spot(File(p), k, Len(c) + 1) /\ Len(c) < Depth[k]
      BY <1>3, CellSpot
    <2>3. /\ proc[p].hold \in Slots /\ k \in Ways /\ Len(c) \in 0 .. 3 /\ Depth[k] \in 1 .. 3
      BY <1>3, OnWay
    <2>4. /\ d \in Seq(Zones) /\ Len(d) = Len(c) + 1
          /\ \A i \in 1 .. 3 : i <= Len(d) => d[i] = Spot(File(p), k, i)
      BY <1>3, <2>1, <2>2, Further
    <2>5. proc' = [proc EXCEPT ![p] = r]
      BY <1>5
    <2> HIDE DEF d
    <2>6. /\ r \in Calls /\ r.pc = "bmap" /\ r.chain = d /\ r.new = 0 /\ r.way = k
          /\ r.hold = proc[p].hold /\ r.ret = proc[p].ret
      BY <1>2, <2>4, ZenonT(60) DEF Calls, Labels
    <2> HIDE DEF r
    <2>7. Walking(r) /\ Mapping(r) /\ ~Cutting(r)
      BY <2>6 DEF Walking, Mapping, Cutting
    <2>8. Len(d) < Depth[k]
      BY <1>5, <2>2, <2>3, <2>4
    <2>9. Carry(r)
      BY <1>2, <2>6, <2>7, <2>8 DEF Carry
    <2>10. r.new = proc[p].new
      BY <1>2, <2>6 DEF Carry
    <2>11. \A j, i : Spared(proc[p], j, i) /\ Spared(r, j, i)
      BY <1>3, <2>7 DEF Spared
    <2>12. r.pc \notin {"new_block", "free_inode"} /\ r.ret # "free_inode"
      BY <1>2, <2>6 DEF Stage
    <2>13. \A q \in Procs \ {p} : proc[q].hold = proc[p].hold =>
               /\ Cutting(r) => ~Cutting(proc[q]) /\ ~Mapping(proc[q])
               /\ Mapping(r) => ~Cutting(proc[q]) /\ (Mapping(proc[q]) => proc[q].way # r.way)
      BY <1>3, <2>3, <2>6, <2>7 DEF Zoned, Single
    <2>14. Walking(r) => /\ r.way \in Ways /\ r \in Calls
                         /\ \A j \in Ways, i \in 1 .. 3 : r.way = j /\ i <= Len(r.chain) =>
                                                    r.chain[i] = Spot(File(p), j, i)
      BY <2>3, <2>4, <2>6
    <2>15. UNCHANGED zmap
      BY <1>5
    <2> HIDE DEF k, c, z
    <2> QED BY <1>1, <2>3, <2>5, <2>6, <2>7, <2>9, <2>10, <2>11, <2>12, <2>13, <2>14, <2>15, Walks
  <1> QED BY <1>4, <1>5 DEF Bmap, Onward, Sleeps

\* truncate goes its way.
LEMMA CutWalks ==
    ASSUME Core, Zoned, NEW p \in Procs, NEW r \in Calls, proc' = [proc EXCEPT ![p] = r],
           UNCHANGED <<inode, imap, zmap, entry, latest>>,
           proc[p].pc \in {"trunc", "descend"}, Cutting(r),
           r.hold = proc[p].hold, r.ret = proc[p].ret, r.new = proc[p].new,
           \/ r.way = proc[p].way
           \/ r.pc = "trunc" /\ r.way = proc[p].way + 1 /\ proc[p].way \in Ways
              /\ latest[File(p)].zone[proc[p].way] = 0,
           r.pc = "trunc" => r.chain = <<>>,
           Walking(r) => /\ r.way \in Ways
                         /\ \A i \in 1 .. 3 : i <= Len(r.chain) => r.chain[i] = Spot(File(p), r.way, i),
           r.pc = "descend" => Len(r.chain) < Depth[r.way],
           r.pc = "free" => /\ Len(r.chain) <= Depth[r.way]
                            /\ \A i \in 1 .. 3 : Spot(File(p), r.way, i) # 0 => i <= Len(r.chain)
    PROVE  Zoned'
  <1> DEFINE c == proc[p]  n == File(p)
  <1>0. c \in Calls /\ Carry(c) /\ Cutting(c) /\ Single /\ Sole /\ Cleared
    BY DEF Core, Typed, Zoned, Carried, Cutting
  <1>1. c.hold \in Slots /\ n \in Nums
    BY <1>0, Working
  <1>2. c.way \in 0 .. Len(Depth) + 1 /\ c.new = 0
    BY <1>0 DEF Carry, Mapping
  <1>3. r.pc \in {"trunc", "descend", "free"} /\ ~Mapping(r)
    BY DEF Cutting, Mapping
  <1>4. r.way \in 0 .. Len(Depth) + 1
    <2>1. CASE r.way = c.way
      BY <1>2, <2>1
    <2>2. CASE r.way = c.way + 1 /\ c.way \in Ways
      BY <2>2, DepthType
    <2> QED BY <2>1, <2>2
  <1>5. Carry(r)
    <2>1. r.new = 0
      BY <1>2
    <2>2. CASE r.pc = "trunc"
      BY <1>3, <1>4, <2>1, <2>2 DEF Carry, Walking
    <2>3. CASE r.pc = "descend"
      BY <1>3, <1>4, <2>1, <2>3 DEF Carry, Walking
    <2>4. CASE r.pc = "free"
      BY <1>3, <1>4, <2>1, <2>4 DEF Carry, Walking
    <2> QED BY <1>3, <2>2, <2>3, <2>4
  <1>6. \A q \in Procs \ {p} : proc[q].hold = c.hold =>
               /\ Cutting(r) => ~Cutting(proc[q]) /\ ~Mapping(proc[q])
               /\ Mapping(r) => ~Cutting(proc[q]) /\ (Mapping(proc[q]) => proc[q].way # r.way)
    BY <1>0, <1>1, <1>3 DEF Single
  <1>7. r.ret = "free_inode" => /\ latest[n].nlinks = 0
                                /\ \A q \in Procs \ {p} : proc[q].hold # c.hold
    BY <1>0 DEF Sole
  <1>8. Walking(r) => /\ r.way \in Ways /\ r \in Calls
                      /\ \A k \in Ways, i \in 1 .. 3 : r.way = k /\ i <= Len(r.chain) =>
                                                    r.chain[i] = Spot(n, k, i)
    OBVIOUS
  <1>9. \A k \in Ways : Cutting(r) /\ k < r.way /\ Depth[k] = 1 => latest[n].zone[k] = 0
    <2> SUFFICES ASSUME NEW k \in Ways, k < r.way, Depth[k] = 1 PROVE latest[n].zone[k] = 0
      OBVIOUS
    <2>1. k < c.way \/ (k = c.way /\ latest[n].zone[k] = 0)
      <3>1. k \in Nat
        BY DepthType
      <3>2. c.way \in Int
        BY <1>2, Constants
      <3> QED BY <3>1, <3>2
    <2> QED BY <1>0, <2>1 DEF Cleared
  <1>10. \A k \in Ways, i \in 1 .. 3 : Spot(n, k, i) # 0 => (Spared(c, k, i) <=> Spared(r, k, i))
    <2> SUFFICES ASSUME NEW k \in Ways, NEW i \in 1 .. 3, Spot(n, k, i) # 0
                 PROVE  Ahead(c, k, i) <=> Ahead(r, k, i)
      BY <1>0 DEF Spared
    <2>1. Ahead(c, k, i) <=> k > c.way \/ k = c.way
      BY DEF Ahead
    <2>2. CASE r.way = c.way
      BY <2>1, <2>2 DEF Ahead
    <2>3. CASE /\ r.pc = "trunc" /\ r.way = c.way + 1 /\ c.way \in Ways
               /\ latest[n].zone[c.way] = 0
      <3>1. k # c.way
        <4> SUFFICES ASSUME k = c.way PROVE FALSE
          OBVIOUS
        <4>1. Spot(n, k, 1) = 0 /\ 1 \in 1 .. 3 /\ 1 <= i
          BY <1>1, <2>3, SpotFacts
        <4> QED BY <1>1, <4>1, SpotFacts
      <3>2. k \in Nat /\ c.way \in Nat
        BY <2>3, DepthType
      <3>3. Ahead(r, k, i) <=> k > c.way + 1 \/ k = c.way + 1
        BY <2>3 DEF Ahead
      <3> QED BY <2>1, <3>1, <3>2, <3>3
    <2> QED BY <2>2, <2>3
  <1>11. r.pc \notin {"new_block", "free_inode"}
    BY <1>3
  <1> HIDE DEF n
  <1> QED BY <1>1, <1>5, <1>6, <1>7, <1>8, <1>9, <1>10, <1>11, Walks DEF n

\* truncate, as far as it finds the zones there are.
LEMMA TruncateWalks ==
    ASSUME Core, Zoned, NEW p \in Procs, Truncate(p), proc[p].way <= Len(Depth)
    PROVE  Zoned'
  <1> DEFINE c == proc[p]  k == c.way  n == File(p)  z == inode[c.hold].img.zone[k]
  <1>1. At(p, "trunc")
    BY TruncateStep
  <1>2. c \in Calls /\ c.pc = "trunc" /\ Stage(c) /\ Carry(c)
    BY <1>1, Here DEF Zoned, Carried
  <1>3. k \in Nat /\ k # 0 /\ k \in Ways /\ ~(k > Len(Depth))
    BY <1>2, CallFields, Constants DEF Stage, Ways
  <1>4. c.hold \in Slots /\ n \in Nums
    BY <1>2, Working DEF Cutting
  <1>5. z = Spot(n, k, 1) /\ z = latest[n].zone[k] /\ z \in Zones \cup {0}
    <2>1. inode[c.hold].img = latest[n]
      BY <1>2, <1>4, LastImage DEF File
    <2> QED BY <1>3, <1>4, <2>1, SpotFacts
  <1>6. UNCHANGED <<inode, imap, zmap, entry, latest>>
    BY <1>3, TruncateStep
  <1>7. \/ z = 0 /\ proc' = [proc EXCEPT ![p] = [c EXCEPT !.way = k + 1]]
        \/ /\ z # 0
           /\ proc' = [proc EXCEPT ![p] = [c EXCEPT !.chain = <<z>>,
                                            !.pc = IF Depth[k] = 1 THEN "free" ELSE "descend"]]
    BY <1>3, Zenon DEF Truncate, Runs, Sleeps
  <1>8. c.chain = <<>>
    BY <1>2 DEF Carry, Walking
  <1>9. CASE z = 0 /\ proc' = [proc EXCEPT ![p] = [c EXCEPT !.way = k + 1]]
    <2> DEFINE r == [c EXCEPT !.way = k + 1]
    <2>1. k + 1 \in Nat
      BY <1>3
    <2>2. /\ r \in Calls /\ r.pc = "trunc" /\ r.way = k + 1 /\ r.hold = c.hold /\ r.ret = c.ret
          /\ r.new = c.new /\ r.chain = c.chain
      BY <1>2, <2>1 DEF Calls
    <2>3. proc' = [proc EXCEPT ![p] = r]
      BY <1>9
    <2> HIDE DEF r
    <2>4. Cutting(r) /\ ~Walking(r)
      BY <2>2 DEF Cutting, Walking
    <2> QED BY <1>2, <1>3, <1>5, <1>6, <1>8, <1>9, <2>2, <2>3, <2>4, CutWalks
  <1>10. CASE /\ z # 0
              /\ proc' = [proc EXCEPT ![p] = [c EXCEPT !.chain = <<z>>,
                                               !.pc = IF Depth[k] = 1 THEN "free" ELSE "descend"]]
    <2> DEFINE l == IF Depth[k] = 1 THEN "free" ELSE "descend"
    <2>1. z \in Zones /\ <<z>> \in Seq(Zones) /\ l \in {"free", "descend"} /\ Len(<<z>>) = 1 /\ <<z>>[1] = z
      BY <1>5, <1>10
    <2>2. Depth[k] \in 1 .. 3 /\ (l = "free" <=> Depth[k] = 1)
      BY <1>3, DepthType
    <2> HIDE DEF l
    <2> DEFINE d == <<z>>
    <2> HIDE DEF d
    <2> DEFINE r == [c EXCEPT !.chain = d, !.pc = l]
    <2>3. /\ r \in Calls /\ r.pc = l /\ r.way = k /\ r.hold = c.hold /\ r.ret = c.ret
          /\ r.new = c.new /\ r.chain = d
      BY <1>2, <2>1, ZenonT(60) DEF Calls, Labels, d
    <2>4. proc' = [proc EXCEPT ![p] = r]
      BY <1>10 DEF l, d
    <2> HIDE DEF r
    <2>5. Cutting(r)
      BY <2>1, <2>3 DEF Cutting
    <2>6. Len(d) = 1 /\ d[1] = Spot(n, k, 1)
      BY <1>5, <2>1 DEF d
    <2>7. \A i \in 1 .. 3 : i <= Len(d) => d[i] = Spot(n, k, i)
      <3>1. \A i \in 1 .. 3 : i <= Len(d) => i = 1
        BY <2>6
      <3> QED BY <2>6, <3>1
    <2>8. r.pc = "descend" => Len(d) < Depth[k]
      BY <2>2, <2>3, <2>6
    <2>9. r.pc = "free" => /\ Len(d) <= Depth[k]
                           /\ \A i \in 1 .. 3 : Spot(n, k, i) # 0 => i <= Len(d)
      <3> SUFFICES ASSUME r.pc = "free" PROVE /\ Len(d) <= Depth[k]
                                              /\ \A i \in 1 .. 3 : Spot(n, k, i) # 0 => i <= Len(d)
        OBVIOUS
      <3>1. Depth[k] = 1
        BY <2>2, <2>3
      <3>2. \A i \in 1 .. 3 : i > 1 => Spot(n, k, i) = 0
        BY <1>3, <1>4, <3>1, SpotFacts
      <3> QED BY <2>6, <3>1, <3>2
    <2>10. r.pc # "trunc"
      BY <2>1, <2>3
    <2> HIDE DEF k, n, z
    <2> QED BY <1>2, <1>3, <1>6, <2>3, <2>4, <2>5, <2>7, <2>8, <2>9, <2>10, CutWalks DEF k, n
  <1> QED BY <1>7, <1>9, <1>10

\* free_ind and free_dind, on the way down.
LEMMA DescendWalks ==
    ASSUME Core, Zoned, NEW p \in Procs, Descend(p)
    PROVE  Zoned'
  <1> DEFINE c == proc[p]  k == c.way  n == File(p)  b == c.chain  e == entry[b[Len(b)]]
  <1>1. At(p, "descend") /\ UNCHANGED <<inode, imap, zmap, entry, latest>>
    BY DEF Descend
  <1>2. c \in Calls /\ c.pc = "descend" /\ Stage(c) /\ Carry(c) /\ Walking(c)
    BY <1>1, Here DEF Zoned, Carried, Walking
  <1>3. Len(b) < Depth[k] /\ b # <<>>
    BY <1>2 DEF Carry, Stage
  <1>4. /\ n \in Nums /\ k \in Ways /\ b \in Seq(Zones) /\ Len(b) \in 0 .. 3 /\ Depth[k] \in 1 .. 3
        /\ \A i \in 1 .. Len(b) : b[i] = Spot(n, k, i)
        /\ e = Spot(n, k, Len(b) + 1)
    BY <1>2, <1>3, OnWay
  <1>5. Len(b) + 1 \in 1 .. 3
    BY <1>3, <1>4
  <1>6. e \in Zones \cup {0}
    BY <1>4, <1>5, SpotFacts
  <1>7. \/ e = 0 /\ proc' = [proc EXCEPT ![p] = [c EXCEPT !.pc = "free"]]
        \/ e # 0 /\ proc' = [proc EXCEPT ![p] = [c EXCEPT !.chain = Append(b, e),
                                 !.pc = IF Len(b) + 1 < Depth[k] THEN "descend" ELSE "free"]]
    BY DEF Descend, Sleeps
  <1>8. CASE e = 0 /\ proc' = [proc EXCEPT ![p] = [c EXCEPT !.pc = "free"]]
    <2> DEFINE r == [c EXCEPT !.pc = "free"]
    <2>1. /\ r \in Calls /\ r.pc = "free" /\ r.way = k /\ r.hold = c.hold /\ r.ret = c.ret
          /\ r.new = c.new /\ r.chain = b
      BY <1>2, ZenonT(60) DEF Calls, Labels
    <2>2. proc' = [proc EXCEPT ![p] = r]
      BY <1>8
    <2> HIDE DEF r
    <2>3. Cutting(r)
      BY <2>1 DEF Cutting
    <2>4. \A i \in 1 .. 3 : i <= Len(b) => b[i] = Spot(n, k, i)
      BY <1>4
    <2>5. \A i \in 1 .. 3 : Spot(n, k, i) # 0 => i <= Len(b)
      <3> SUFFICES ASSUME NEW i \in 1 .. 3, ~(i <= Len(b)) PROVE Spot(n, k, i) = 0
        OBVIOUS
      <3>1. Len(b) + 1 <= i
        BY <1>4
      <3> QED BY <1>4, <1>5, <1>8, <3>1, SpotFacts
    <2>6. Len(b) <= Depth[k]
      BY <1>3, <1>4
    <2>7. r.pc \notin {"trunc", "descend"}
      BY <2>1
    <2> HIDE DEF k, n, b, e
    <2> QED BY <1>1, <1>2, <1>4, <2>1, <2>2, <2>3, <2>4, <2>5, <2>6, <2>7, CutWalks DEF k, n
  <1>9. CASE e # 0 /\ proc' = [proc EXCEPT ![p] = [c EXCEPT !.chain = Append(b, e),
                                   !.pc = IF Len(b) + 1 < Depth[k] THEN "descend" ELSE "free"]]
    <2> DEFINE d == Append(b, e)  l == IF Len(b) + 1 < Depth[k] THEN "descend" ELSE "free"
    <2>1. l \in {"descend", "free"} /\ (l = "descend" <=> Len(b) + 1 < Depth[k])
      OBVIOUS
    <2>2. e \in Zones
      BY <1>6, <1>9
    <2>3. /\ d \in Seq(Zones) /\ Len(d) = Len(b) + 1 /\ d # <<>>
          /\ \A i \in 1 .. 3 : i <= Len(d) => d[i] = Spot(n, k, i)
      BY <1>2, <1>3, <1>4, <2>2, Further
    <2> HIDE DEF d, l
    <2> DEFINE r == [c EXCEPT !.chain = d, !.pc = l]
    <2>4. /\ r \in Calls /\ r.pc = l /\ r.way = k /\ r.hold = c.hold /\ r.ret = c.ret
          /\ r.new = c.new /\ r.chain = d
      BY <1>2, <2>1, <2>3, ZenonT(60) DEF Calls, Labels
    <2>5. proc' = [proc EXCEPT ![p] = r]
      BY <1>9 DEF d, l
    <2> HIDE DEF r
    <2>6. Cutting(r)
      BY <2>1, <2>4 DEF Cutting
    <2>7. r.pc = "descend" => Len(d) < Depth[k]
      BY <2>1, <2>3, <2>4
    <2>8. r.pc = "free" => /\ Len(d) <= Depth[k]
                           /\ \A i \in 1 .. 3 : Spot(n, k, i) # 0 => i <= Len(d)
      <3> SUFFICES ASSUME r.pc = "free" PROVE /\ Len(d) <= Depth[k]
                                              /\ \A i \in 1 .. 3 : Spot(n, k, i) # 0 => i <= Len(d)
        OBVIOUS
      <3>1. Len(d) = Depth[k]
        BY <1>3, <1>4, <2>1, <2>3, <2>4, SMTT(30)
      <3>2. \A i \in 1 .. 3 : i > Depth[k] => Spot(n, k, i) = 0
        BY <1>4, SpotFacts
      <3> QED BY <1>4, <3>1, <3>2
    <2>9. r.pc # "trunc"
      BY <2>1, <2>4
    <2> HIDE DEF k, n, b, e
    <2> QED BY <1>1, <1>2, <1>4, <2>3, <2>4, <2>5, <2>6, <2>7, <2>8, <2>9, CutWalks DEF k, n
  <1> QED BY <1>7, <1>8, <1>9

\* truncate has a file to itself: what a step of it changes.
LEMMA CutSteady ==
    ASSUME Core, Core', Zoned, NEW p \in Procs, NEW r \in Calls, proc' = [proc EXCEPT ![p] = r],
           Cutting(proc[p]), UNCHANGED <<imap, entry>>,
           Carry(r), r.hold = proc[p].hold, r.ret \in {proc[p].ret, "idle"}, ~Mapping(r),
           \A t \in Slots : inode'[t].num = inode[t].num,
           \A m \in Nums : m # File(p) => latest'[m] = latest[m],
           latest'[File(p)].nlinks = latest[File(p)].nlinks,
           Walking(r) => /\ r.way \in Ways
                         /\ \A m \in Nums, k \in Ways, i \in 1 .. 3 :
                               m = File(p) /\ r.way = k /\ i <= Len(r.chain) =>
                                   r.chain[i] = Spot(m, k, i)',
           \A k \in Ways : (Cutting(r) /\ k < r.way /\ Depth[k] = 1) \/ r.pc = "free_inode" =>
                               latest'[File(p)].zone[k] = 0
    PROVE  /\ Carried' /\ Single' /\ Sole' /\ Chained' /\ Cleared'
           /\ \A m, k, i : m # File(p) => (Live(m, k, i)' <=> Live(m, k, i))
           /\ \A m, k, i : m # File(p) /\ Live(m, k, i) => Spot(m, k, i)' = Spot(m, k, i)
           /\ \A m, k, i : m = File(p) => (Live(m, k, i) <=>
                  k \in Ways /\ i \in 1 .. 3 /\ Spared(proc[p], k, i) /\ Spot(m, k, i) # 0)
           /\ \A m, k, i : m = File(p) => (Live(m, k, i)' <=>
                  k \in Ways /\ i \in 1 .. 3 /\ Spared(r, k, i) /\ Spot(m, k, i)' # 0)
  <1>n. PICK n : n = File(p)
    OBVIOUS
  <1>0. Single /\ Sole
    BY DEF Zoned
  <1>1. proc \in [Procs -> Calls] /\ imap \subseteq Nums /\ Held /\ Table
    BY DEF Core, Typed
  <1>2. proc'[p] = r /\ \A q \in Procs \ {p} : proc'[q] = proc[q]
    BY <1>1
  <1>3. proc[p].hold \in Slots /\ n \in Nums /\ n \in imap
    BY <1>n, Working
  <1>4. \A q \in Procs : proc[q].hold \in Slots => inode'[proc'[q].hold].num = File(q)
    BY <1>2, ZenonT(60) DEF File
  <1>5. \A q \in Procs \ {p} : proc[q].hold \in Slots /\ File(q) = n => proc[q].hold = proc[p].hold
    BY <1>1, <1>3, <1>n DEF Held, Table, File
  <1>6. \A q \in Procs \ {p} : proc[q].hold \in Slots /\ File(q) = n =>
            ~Cutting(proc[q]) /\ ~Mapping(proc[q]) /\ proc[q].ret # "free_inode"
    BY <1>0, <1>3, <1>5 DEF Single, Sole
  <1>7. \A q \in Procs \ {p} : Walking(proc[q]) => File(q) # n /\ File(q) \in Nums
    BY <1>6, Working DEF Walking, Cutting, Mapping
  <1>8. \A q \in Procs \ {p} : Cutting(proc[q]) \/ proc[q].ret = "free_inode" =>
            File(q) # n /\ File(q) \in Nums /\ proc[q].hold \in Slots
    BY <1>6, Working
  <1>9. \A m \in Nums : m # n => \A k, i : Spot(m, k, i)' = Spot(m, k, i)
    BY <1>n DEF Spot
  <1>10. \A m \in imap : m # n => \A k, i : Alive(m, k, i)' <=> Alive(m, k, i)
    <2> SUFFICES ASSUME NEW m \in imap, m # n, NEW k, NEW i
                 PROVE  Alive(m, k, i)' <=> Alive(m, k, i)
      OBVIOUS
    <2>1. Alive(m, k, i)' <=> \A q \in Procs : Cutting(proc'[q]) /\ inode'[proc'[q].hold].num = m
                                                  => Ahead(proc'[q], k, i)
      BY DEF Alive, File, Cutting, Ahead
    <2>2. inode'[proc'[p].hold].num = n
      BY <1>3, <1>4, <1>n
    <2>3. Alive(m, k, i)' <=> \A q \in Procs \ {p} :
                                 Cutting(proc[q]) /\ File(q) = m => Ahead(proc[q], k, i)
      BY <1>2, <1>4, <1>8, <2>1, <2>2
    <2>4. Alive(m, k, i) <=> \A q \in Procs \ {p} :
                                 Cutting(proc[q]) /\ File(q) = m => Ahead(proc[q], k, i)
      BY <1>n DEF Alive
    <2> QED BY <2>3, <2>4
  <1>11. \A m, k, i : m # n => (Live(m, k, i)' <=> Live(m, k, i))
    BY <1>1, <1>9, <1>10 DEF Live
  <1>12. \A m, k, i : m # n /\ Live(m, k, i) => Spot(m, k, i)' = Spot(m, k, i)
    BY <1>1, <1>9 DEF Live
  <1>13. \A k, i : Alive(n, k, i) <=> Spared(proc[p], k, i)
    BY <1>8, <1>n DEF Alive, Spared
  <1>14. \A k, i : Alive(n, k, i)' <=> Spared(r, k, i)
    <2> TAKE k, i
    <2>1. Alive(n, k, i)' <=> \A q \in Procs : Cutting(proc'[q]) /\ inode'[proc'[q].hold].num = n
                                                  => Ahead(proc'[q], k, i)
      BY DEF Alive, File, Cutting, Ahead
    <2>2. inode'[proc'[p].hold].num = n
      BY <1>3, <1>4, <1>n
    <2> QED BY <1>2, <1>4, <1>8, <2>1, <2>2 DEF Spared
  <1>15. \A k, i : Live(n, k, i) <=>
                  k \in Ways /\ i \in 1 .. 3 /\ Spared(proc[p], k, i) /\ Spot(n, k, i) # 0
    BY <1>3, <1>13 DEF Live
  <1>16. \A k, i : Live(n, k, i)' <=>
                  k \in Ways /\ i \in 1 .. 3 /\ Spared(r, k, i) /\ Spot(n, k, i)' # 0
    BY <1>3, <1>14 DEF Live
  <1>17. inode'[r.hold].num = n
    BY <1>2, <1>3, <1>4, <1>n
  <1>18. \A q \in Procs \ {p} : proc[q].hold \in Slots =>
               inode'[proc[q].hold].num = inode[proc[q].hold].num
    OBVIOUS
  <1>19. \A q \in Procs \ {p} : proc[q].hold = r.hold /\ r.hold \in Slots =>
               /\ Cutting(r) => ~Cutting(proc[q]) /\ ~Mapping(proc[q])
               /\ Mapping(r) => ~Cutting(proc[q]) /\ (Mapping(proc[q]) => proc[q].way # r.way)
    BY <1>0, <1>3 DEF Single
  <1>20. \A q \in Procs \ {p} : proc[q].ret = "free_inode" =>
               latest'[File(q)].nlinks = 0 /\ r.hold # proc[q].hold
    BY <1>0, <1>8, <1>n DEF Sole
  <1>21. r.ret = "free_inode" => /\ latest'[inode'[r.hold].num].nlinks = 0
                                 /\ \A q \in Procs \ {p} : proc[q].hold # r.hold
    BY <1>0, <1>17, <1>n DEF Sole
  <1>22. \A q \in Procs \ {p} : \A m \in Nums, k \in Ways, i \in 1 .. 3 :
               Walking(proc[q]) /\ File(q) = m /\ proc[q].way = k /\ i <= Len(proc[q].chain) + 1
               => Spot(m, k, i)' = Spot(m, k, i)
    BY <1>7, <1>9
  <1>23. r.pc # "new_block"
    BY DEF Mapping
  <1>24. Walking(r) => /\ inode'[r.hold].num \in Nums /\ r.way \in Ways /\ r \in Calls
                       /\ \A m \in Nums, k \in Ways, i \in 1 .. 3 :
                               inode'[r.hold].num = m /\ r.way = k =>
                                   /\ i <= Len(r.chain) => r.chain[i] = Spot(m, k, i)'
                                   /\ r.pc = "new_block" /\ i = Len(r.chain) + 1 => Spot(m, k, i)' = 0
    BY <1>3, <1>17, <1>23, <1>n
  <1>25. \A q \in Procs \ {p}, k \in Ways :
               Cutting(proc[q]) \/ proc[q].pc = "free_inode" =>
                   latest'[File(q)].zone[k] = latest[File(q)].zone[k]
    <2>1. \A q \in Procs : proc[q].pc = "free_inode" => proc[q].ret = "free_inode"
      BY DEF Core, Staged, Stage
    <2> QED BY <1>8, <1>n, <2>1
  <1>26. \A k \in Ways :
               (Cutting(r) /\ k < r.way /\ Depth[k] = 1) \/ r.pc = "free_inode" =>
                   latest'[inode'[r.hold].num].zone[k] = 0
    BY <1>17, <1>n
  <1>27. Carried' /\ Single' /\ Sole' /\ Chained' /\ Cleared'
    BY <1>18, <1>19, <1>20, <1>21, <1>22, <1>24, <1>25, <1>26, Steady
  <1> QED BY <1>11, <1>12, <1>15, <1>16, <1>27, <1>n

\* One zone is given up, and its bit is cleared.
LEMMA GivesUp ==
    ASSUME Owned, NEW n, NEW k, NEW l, Live(n, k, l),
           zmap' = zmap \ {Spot(n, k, l)}, \A q \in Procs : proc'[q].new = proc[q].new,
           \A m, j, i : Live(m, j, i)' <=> Live(m, j, i) /\ ~(m = n /\ j = k /\ i = l),
           \A m, j, i : Live(m, j, i)' => Spot(m, j, i)' = Spot(m, j, i)
    PROVE  Owned'
  <1> DEFINE z == Spot(n, k, l)
  <1>0. Apart /\ Given /\ Marked /\ Taken /\ Accounted
    BY DEF Owned
  <1>1. \A m, j, i : Live(m, j, i) => m \in imap /\ j \in Ways /\ i \in 1 .. 3
    BY DEF Live
  <1>2. \A m, j, i : Live(m, j, i)' => /\ Live(m, j, i) /\ Spot(m, j, i)' = Spot(m, j, i)
                                       /\ Spot(m, j, i) # z
    BY <1>0, <1>1 DEF Apart
  <1>3. Apart'
    BY <1>0, <1>1, <1>2 DEF Apart
  <1>4. \A q \in Procs : proc[q].new # z
    BY <1>0, <1>1 DEF Marked
  <1>5. Given' /\ Taken'
    BY <1>0, <1>4 DEF Given, Taken
  <1>6. Marked'
    BY <1>0, <1>1, <1>2 DEF Marked
  <1>7. \A m, j, i : Live(m, j, i)' => m \in imap' /\ j \in Ways /\ i \in 1 .. 3
    BY DEF Live
  <1>8. Accounted'
    <2> SUFFICES ASSUME NEW x \in zmap', ~\E q \in Procs : proc'[q].new = x
                 PROVE  \E m \in imap', j \in Ways, i \in 1 .. 3 : Live(m, j, i)' /\ Spot(m, j, i)' = x
      BY DEF Accounted
    <2>1. PICK m \in imap, j \in Ways, i \in 1 .. 3 : Live(m, j, i) /\ Spot(m, j, i) = x
      BY <1>0 DEF Accounted
    <2>2. ~(m = n /\ j = k /\ i = l)
      BY <2>1
    <2>3. Live(m, j, i)'
      BY <2>1, <2>2
    <2> QED BY <1>2, <1>7, <2>1, <2>3
  <1> QED BY <1>3, <1>5, <1>6, <1>8 DEF Owned

\* truncate, when the last way is done.
LEMMA TruncateEnds ==
    ASSUME Core, Core', Zoned, NEW p \in Procs, Truncate(p), proc[p].way > Len(Depth)
    PROVE  Zoned'
  <1> DEFINE c == proc[p]  s == c.hold  old == inode[s].img
             f == [j \in Ways |-> IF Depth[j] > 1 THEN 0 ELSE old.zone[j]]
             img == [old EXCEPT !.zone = f]
  <1>1. At(p, "trunc")
    BY TruncateStep
  <1>2. c \in Calls /\ c.pc = "trunc" /\ Stage(c) /\ Carry(c) /\ Cutting(c)
    BY <1>1, Here DEF Zoned, Carried, Cutting
  <1>3. UNCHANGED <<imap, zmap, entry>> /\ Changed(s, img)
    BY DEF Truncate
  <1>4. s \in Slots /\ c.chain = <<>> /\ c.new = 0 /\ c.ops \in Int
    BY <1>2, Working, CallFields DEF Carry, Walking
  <1>5. old \in Images
    BY <1>2, <1>4, LastImage
  <1>6. \A j \in Ways : old.zone[j] \in Zones \cup {0}
    BY <1>5, ImageZones
  <1>7. img \in Images /\ img.nlinks = old.nlinks /\ img.zone = f
    <2>1. f \in [Ways -> Zones \cup {0}]
      BY <1>6
    <2> HIDE DEF f
    <2>2. img \in Images /\ img.nlinks = old.nlinks
      BY <1>5, <2>1, StoreZones
    <2>3. img.zone = f
      BY <1>5 DEF Images
    <2> QED BY <2>2, <2>3
  <1>8. PICK n : n = File(p)
    OBVIOUS
  <1>9. /\ \A t \in Slots : inode'[t].num = inode[t].num
        /\ \A x \in Nums : x # n => latest'[x] = latest[x]
        /\ latest'[n] = img /\ n \in Nums /\ old = latest[n]
    <2> HIDE DEF img, old
    <2> QED BY <1>2, <1>3, <1>4, <1>7, <1>8, ChangedParts DEF old
  <1>10. \A k \in Ways : latest'[n].zone[k] = 0
    <2> SUFFICES ASSUME NEW k \in Ways PROVE f[k] = 0
      BY <1>7, <1>9
    <2>1. k < c.way /\ Depth[k] \in 1 .. 3
      <3>1. c.way \in Nat
        BY <1>2, CallFields
      <3> QED BY <3>1, DepthType
    <2>2. Depth[k] = 1 => latest[n].zone[k] = 0
      BY <1>2, <1>8, <2>1 DEF Zoned, Cleared
    <2> QED BY <1>9, <2>1, <2>2
  <1>11. \A k \in Ways, i \in 1 .. 3 : Spot(n, k, i)' = 0
    <2> SUFFICES ASSUME NEW k \in Ways, NEW i \in 1 .. 3
                 PROVE  Hop(entry', latest'[n].zone[k], k, i) = 0
      BY DEF Spot
    <2>1. entry' \in [Zones -> Zones \cup {0}]
      BY DEF Core, Typed
    <2>2. \A a : a = 0 => Hop(entry', a, k, i) = 0
      BY <2>1, HopFacts
    <2> QED BY <1>10, <2>2
  <1>12. \A k \in Ways, i \in 1 .. 3 : ~Spared(c, k, i)
    <2> SUFFICES ASSUME NEW k \in Ways, NEW i \in 1 .. 3 PROVE ~Ahead(c, k, i)
      BY <1>2 DEF Spared
    <2>1. c.way \in Nat /\ k \in Nat /\ k < c.way
      <3>1. c.way \in Nat
        BY <1>2, CallFields
      <3> QED BY <3>1, DepthType
    <2> QED BY <2>1 DEF Ahead
  <1>13. latest'[n].nlinks = latest[n].nlinks
    BY <1>7, <1>9
  <1> HIDE DEF img, f, old
  <1>14. ASSUME NEW r \in Calls, proc' = [proc EXCEPT ![p] = r], Carry(r), r.hold = s,
                r.ret \in {c.ret, "idle"}, ~Mapping(r), ~Walking(r), ~Cutting(r), r.new = 0
         PROVE  Zoned'
    <2>h. /\ \A m \in Nums : m # File(p) => latest'[m] = latest[m]
          /\ latest'[File(p)].nlinks = latest[File(p)].nlinks
          /\ Walking(r) => /\ r.way \in Ways
                           /\ \A m \in Nums, j \in Ways, i \in 1 .. 3 :
                                 m = File(p) /\ r.way = j /\ i <= Len(r.chain) =>
                                     r.chain[i] = Spot(m, j, i)'
          /\ \A j \in Ways : (Cutting(r) /\ j < r.way /\ Depth[j] = 1) \/ r.pc = "free_inode" =>
                                 latest'[File(p)].zone[j] = 0
      BY <1>8, <1>9, <1>10, <1>13, <1>14
    <2>g. r.hold = proc[p].hold /\ r.ret \in {proc[p].ret, "idle"} /\ Cutting(proc[p])
      BY <1>2, <1>14
    <2>f. /\ Carried' /\ Single' /\ Sole' /\ Chained' /\ Cleared'
          /\ \A m, k, i : m # File(p) => (Live(m, k, i)' <=> Live(m, k, i))
          /\ \A m, k, i : m # File(p) /\ Live(m, k, i) => Spot(m, k, i)' = Spot(m, k, i)
          /\ \A m, k, i : m = File(p) => (Live(m, k, i) <=>
                 k \in Ways /\ i \in 1 .. 3 /\ Spared(proc[p], k, i) /\ Spot(m, k, i) # 0)
          /\ \A m, k, i : m = File(p) => (Live(m, k, i)' <=>
                 k \in Ways /\ i \in 1 .. 3 /\ Spared(r, k, i) /\ Spot(m, k, i)' # 0)
      BY <1>3, <1>9, <1>14, <2>g, <2>h, CutSteady
    <2>1. /\ Carried' /\ Single' /\ Sole' /\ Chained' /\ Cleared'
          /\ \A m, k, i : m # n => (Live(m, k, i)' <=> Live(m, k, i))
          /\ \A m, k, i : m # n /\ Live(m, k, i) => Spot(m, k, i)' = Spot(m, k, i)
          /\ \A k, i : Live(n, k, i) <=>
                 k \in Ways /\ i \in 1 .. 3 /\ Spared(proc[p], k, i) /\ Spot(n, k, i) # 0
          /\ \A k, i : Live(n, k, i)' <=>
                 k \in Ways /\ i \in 1 .. 3 /\ Spared(r, k, i) /\ Spot(n, k, i)' # 0
      BY <1>8, <2>f
    <2>2. \A k, i : ~Live(n, k, i) /\ ~Live(n, k, i)'
      BY <1>11, <1>12, <2>1
    <2>3. \A m, k, i : Live(m, k, i)' <=> Live(m, k, i)
      BY <2>1, <2>2
    <2>4. \A m, k, i : Live(m, k, i) => Spot(m, k, i)' = Spot(m, k, i)
      BY <2>1, <2>2
    <2>5. \A q \in Procs : proc'[q].new = proc[q].new
      BY <1>4, <1>14 DEF Core, Typed
    <2>6. Owned /\ UNCHANGED zmap
      BY <1>3 DEF Zoned
    <2>7. Owned'
      BY <2>3, <2>4, <2>5, <2>6, SameOwned
    <2> QED BY <2>1, <2>7 DEF Zoned
  <1>15. CASE Returns(p, s)
    <2> DEFINE r == [Idle EXCEPT !.hold = s, !.ops = c.ops]
    <2>1. /\ r \in Calls /\ r.hold = s
      BY <1>2, <1>4, CallFields, Back
    <2>2. r.pc = "idle" /\ r.ret = "idle" /\ r.way = 0 /\ r.chain = <<>> /\ r.new = 0
      BY <1>4, Ended
    <2>3. proc' = [proc EXCEPT ![p] = r]
      BY <1>15 DEF Returns, Sleeps
    <2> HIDE DEF r
    <2>4. ~Walking(r) /\ ~Mapping(r) /\ ~Cutting(r)
      BY <2>2 DEF Walking, Mapping, Cutting
    <2>5. 0 \in 0 .. Len(Depth) + 1
      BY Constants
    <2>6. Carry(r)
      BY <2>2, <2>4, <2>5 DEF Carry
    <2> QED BY <1>14, <2>1, <2>2, <2>3, <2>4, <2>6
  <1>16. CASE proc' = [proc EXCEPT ![p] = [c EXCEPT !.pc = "free_inode"]]
    <2> DEFINE r == [c EXCEPT !.pc = "free_inode"]
    <2>1. /\ r \in Calls /\ r.pc = "free_inode" /\ r.ret = c.ret /\ r.hold = s /\ r.way = c.way
          /\ r.chain = c.chain /\ r.new = c.new
      BY <1>2, ZenonT(60) DEF Calls, Labels
    <2>2. proc' = [proc EXCEPT ![p] = r]
      BY <1>16
    <2> HIDE DEF r
    <2>3. ~Walking(r) /\ ~Mapping(r) /\ ~Cutting(r)
      BY <2>1 DEF Walking, Mapping, Cutting
    <2>4. Carry(r)
      BY <1>2, <1>4, <2>1, <2>3 DEF Carry
    <2> QED BY <1>4, <1>14, <2>1, <2>2, <2>3, <2>4
  <1> QED BY <1>2, <1>15, <1>16 DEF Truncate, Runs

\* free_block: the zone it frees has its bit set.
LEMMA FreeCuts ==
    ASSUME Core, Core', Zoned, NEW p \in Procs, FreeBlock(p), ~raced'
    PROVE  Zoned' /\ UNCHANGED panicked
  <1> DEFINE c == proc[p]  s == c.hold  k == c.way  b == c.chain  l == Len(b)  z == b[l]
  <1>1. At(p, "free") /\ UNCHANGED <<imap, entry>>
    BY DEF FreeBlock
  <1>2. c \in Calls /\ c.pc = "free" /\ Stage(c) /\ Carry(c) /\ Cutting(c) /\ Walking(c) /\ ~Mapping(c)
    BY <1>1, Here DEF Zoned, Carried, Cutting, Walking, Mapping
  <1>3. PICK n : n = File(p)
    OBVIOUS
  <1>4. /\ n \in imap /\ n \in Nums /\ k \in Ways /\ s \in Slots /\ b \in Seq(Zones)
        /\ l \in 1 .. 3 /\ l <= Depth[k] /\ Depth[k] \in 1 .. 3
        /\ \A i \in 1 .. l : b[i] = Spot(n, k, i)
        /\ z = Spot(n, k, l) /\ z \in Zones
    <2>1. b # <<>>
      BY <1>2 DEF Stage
    <2> QED BY <1>2, <1>3, <2>1, OnWay
  <1>5. k \in Nat /\ k >= 1 /\ k <= Len(Depth) /\ Len(Depth) \in Nat /\ k + 1 \in 0 .. Len(Depth) + 1
    BY <1>4, DepthType
  <1>6. c.new = 0 /\ Owned
    BY <1>2 DEF Carry, Zoned
  <1>7. \A j \in Ways, i \in 1 .. 3 : Spared(c, j, i) <=> j > k \/ (j = k /\ i <= l)
    BY <1>2 DEF Spared, Ahead
  <1>8. z \in zmap
    <2>1. Alive(n, k, l)
      <3> SUFFICES ASSUME NEW q \in Procs, Cutting(proc[q]), File(q) = n PROVE Ahead(proc[q], k, l)
        BY DEF Alive
      <3>1. proc[q].hold \in Slots
        BY Working
      <3>2. proc[q].hold = s
        BY <1>3, <1>4, <3>1 DEF Core, Held, Table, File
      <3>3. q = p
        BY <1>2, <1>4, <3>2 DEF Zoned, Single
      <3> QED BY <1>2, <1>4, <3>3 DEF Ahead
    <2>2. Live(n, k, l)
      BY <1>4, <2>1, Constants DEF Live
    <2> QED BY <1>4, <1>6, <2>2 DEF Owned, Marked
  <1>9. zmap' = zmap \ {z} /\ Freed(p) /\ UNCHANGED panicked
    BY <1>8 DEF FreeBlock
  <1> HIDE DEF z, l, k, b, s
  <1>l. l \in 1 .. 3 /\ l <= l
    BY <1>4
  <1>10. ASSUME NEW r \in Calls, proc' = [proc EXCEPT ![p] = r], Carry(r), r.hold = s, r.ret = c.ret,
                ~Mapping(r), Cutting(r), r.new = 0,
                \A t \in Slots : inode'[t].num = inode[t].num,
                \A m \in Nums : m # n => latest'[m] = latest[m],
                latest'[n].nlinks = latest[n].nlinks,
                Walking(r) => /\ r.way \in Ways
                              /\ \A j \in Ways, i \in 1 .. 3 :
                                    r.way = j /\ i <= Len(r.chain) => r.chain[i] = Spot(n, j, i)',
                \A j \in Ways : j < r.way /\ Depth[j] = 1 => latest'[n].zone[j] = 0,
                \A j \in Ways, i \in 1 .. 3 : Spared(r, j, i) /\ Spot(n, j, i)' # 0 =>
                    Spared(c, j, i) /\ ~(j = k /\ i = l) /\ Spot(n, j, i)' = Spot(n, j, i),
                \A j \in Ways, i \in 1 .. 3 : Spared(c, j, i) /\ ~(j = k /\ i = l) /\ Spot(n, j, i) # 0 =>
                    Spared(r, j, i) /\ Spot(n, j, i)' = Spot(n, j, i)
         PROVE  Zoned'
    <2>0. \A j \in Ways : (Cutting(r) /\ j < r.way /\ Depth[j] = 1) \/ r.pc = "free_inode" =>
                               latest'[n].zone[j] = 0
      BY <1>10 DEF Cutting
    <2>h. /\ \A m \in Nums : m # File(p) => latest'[m] = latest[m]
          /\ latest'[File(p)].nlinks = latest[File(p)].nlinks
          /\ Walking(r) => /\ r.way \in Ways
                           /\ \A m \in Nums, j \in Ways, i \in 1 .. 3 :
                                 m = File(p) /\ r.way = j /\ i <= Len(r.chain) =>
                                     r.chain[i] = Spot(m, j, i)'
          /\ \A j \in Ways : (Cutting(r) /\ j < r.way /\ Depth[j] = 1) \/ r.pc = "free_inode" =>
                                 latest'[File(p)].zone[j] = 0
      BY <1>3, <1>10, <2>0
    <2>g. r.hold = proc[p].hold /\ r.ret \in {proc[p].ret, "idle"} /\ Cutting(proc[p])
      BY <1>2, <1>10 DEF s
    <2>f. /\ Carried' /\ Single' /\ Sole' /\ Chained' /\ Cleared'
          /\ \A m, j, i : m # File(p) => (Live(m, j, i)' <=> Live(m, j, i))
          /\ \A m, j, i : m # File(p) /\ Live(m, j, i) => Spot(m, j, i)' = Spot(m, j, i)
          /\ \A m, j, i : m = File(p) => (Live(m, j, i) <=>
                 j \in Ways /\ i \in 1 .. 3 /\ Spared(proc[p], j, i) /\ Spot(m, j, i) # 0)
          /\ \A m, j, i : m = File(p) => (Live(m, j, i)' <=>
                 j \in Ways /\ i \in 1 .. 3 /\ Spared(r, j, i) /\ Spot(m, j, i)' # 0)
      BY <1>1, <1>10, <2>g, <2>h, CutSteady
    <2>1. /\ Carried' /\ Single' /\ Sole' /\ Chained' /\ Cleared'
          /\ \A m, j, i : m # n => (Live(m, j, i)' <=> Live(m, j, i))
          /\ \A m, j, i : m # n /\ Live(m, j, i) => Spot(m, j, i)' = Spot(m, j, i)
          /\ \A j, i : Live(n, j, i) <=>
                 j \in Ways /\ i \in 1 .. 3 /\ Spared(proc[p], j, i) /\ Spot(n, j, i) # 0
          /\ \A j, i : Live(n, j, i)' <=>
                 j \in Ways /\ i \in 1 .. 3 /\ Spared(r, j, i) /\ Spot(n, j, i)' # 0
      BY <1>3, <2>f
    <2>2. \A m, j, i : Live(m, j, i)' <=> Live(m, j, i) /\ ~(m = n /\ j = k /\ i = l)
      <3> TAKE m, j, i
      <3>1. CASE m # n
        BY <2>1, <3>1
      <3>2. CASE m = n
        BY <1>10, <2>1, <3>2
      <3> QED BY <3>1, <3>2
    <2>3. \A m, j, i : Live(m, j, i)' => Spot(m, j, i)' = Spot(m, j, i)
      <3> TAKE m, j, i
      <3>1. CASE m # n
        BY <2>1, <3>1
      <3>2. CASE m = n
        BY <1>10, <2>1, <3>2
      <3> QED BY <3>1, <3>2
    <2>4. Live(n, k, l)
      <3>1. Spared(proc[p], k, l)
        BY <1>4, <1>7, <1>l
      <3> QED BY <1>4, <2>1, <3>1, Constants
    <2>5. \A q \in Procs : proc'[q].new = proc[q].new
      BY <1>6, <1>10 DEF Core, Typed
    <2>6. zmap' = zmap \ {Spot(n, k, l)}
      BY <1>4, <1>9
    <2>7. Owned'
      BY <1>6, <2>2, <2>3, <2>4, <2>5, <2>6, GivesUp
    <2> QED BY <2>1, <2>7 DEF Zoned
  <1>11. CASE l > 1
    <2>1. UNCHANGED <<inode, latest>> /\ proc' = [proc EXCEPT ![p] = [c EXCEPT !.chain = SubSeq(b, 1, l - 1)]]
      <3>1. ~(l = 1)
        BY <1>11, <1>l
      <3> QED BY <1>9, <1>11, <3>1, Zenon DEF Freed, Sleeps, l, b
    <2> DEFINE d == SubSeq(b, 1, l - 1)
    <2>2. d \in Seq(Zones) /\ Len(d) = l - 1 /\ \A i \in 1 .. l - 1 : d[i] = b[i]
      BY <1>4, <1>11, <1>l DEF l
    <2> HIDE DEF d
    <2> DEFINE r == [c EXCEPT !.chain = d]
    <2>3. /\ r \in Calls /\ r.pc = "free" /\ r.ret = c.ret /\ r.way = k /\ r.chain = d /\ r.hold = s
          /\ r.new = c.new
      BY <1>2, <2>2 DEF Calls, k, s
    <2>4. proc' = [proc EXCEPT ![p] = r]
      BY <2>1 DEF d
    <2> HIDE DEF r
    <2>5. ~Mapping(r) /\ Cutting(r) /\ Walking(r)
      BY <2>3 DEF Mapping, Cutting, Walking
    <2>6. Len(d) <= Depth[k]
      BY <1>4, <2>2
    <2>7. Carry(r)
      BY <1>2, <1>6, <2>3, <2>5, <2>6 DEF Carry, k
    <2>8. \A j, i : Spot(n, j, i)' = Spot(n, j, i)
      BY <1>1, <2>1 DEF Spot
    <2>9. \A i \in 1 .. 3 : i <= Len(d) => d[i] = Spot(n, k, i)
      <3> SUFFICES ASSUME NEW i \in 1 .. 3, i <= Len(d) PROVE d[i] = Spot(n, k, i)
        OBVIOUS
      <3>1. i \in 1 .. l - 1 /\ i \in 1 .. l
        BY <1>4, <2>2
      <3> QED BY <1>4, <2>2, <3>1
    <2>10. \A j \in Ways, i \in 1 .. 3 : Spared(r, j, i) <=> j > k \/ (j = k /\ i <= l - 1)
      BY <2>2, <2>3, <2>5 DEF Spared, Ahead
    <2>11. \A j \in Ways, i \in 1 .. 3 : Spared(r, j, i) <=> Spared(c, j, i) /\ ~(j = k /\ i = l)
      <3> SUFFICES ASSUME NEW j \in Ways, NEW i \in 1 .. 3
                   PROVE  (j > k \/ (j = k /\ i <= l - 1)) <=>
                          (j > k \/ (j = k /\ i <= l)) /\ ~(j = k /\ i = l)
        BY <1>7, <2>10
      <3>1. j \in Nat
        BY DepthType
      <3> QED BY <1>4, <1>5, <3>1
    <2>12. \A j \in Ways : j < r.way /\ Depth[j] = 1 => latest'[n].zone[j] = 0
      BY <1>2, <1>3, <2>1, <2>3 DEF Zoned, Cleared, k
    <2>13. Walking(r) => /\ r.way \in Ways
                         /\ \A j \in Ways, i \in 1 .. 3 :
                               r.way = j /\ i <= Len(r.chain) => r.chain[i] = Spot(n, j, i)'
      BY <1>4, <2>3, <2>8, <2>9
    <2>14. latest'[n].nlinks = latest[n].nlinks /\ r.new = 0
      BY <1>6, <2>1, <2>3
    <2>15. \A j \in Ways, i \in 1 .. 3 : Spared(r, j, i) /\ Spot(n, j, i)' # 0 =>
               Spared(c, j, i) /\ ~(j = k /\ i = l) /\ Spot(n, j, i)' = Spot(n, j, i)
      BY <2>8, <2>11
    <2>16. \A j \in Ways, i \in 1 .. 3 : Spared(c, j, i) /\ ~(j = k /\ i = l) /\ Spot(n, j, i) # 0 =>
               Spared(r, j, i) /\ Spot(n, j, i)' = Spot(n, j, i)
      BY <2>8, <2>11
    <2> QED BY <1>9, <1>10, <2>1, <2>3, <2>4, <2>5, <2>7, <2>12, <2>13, <2>14, <2>15, <2>16
  <1>12. CASE ~(l > 1)
    <2>1. l = 1
      BY <1>12, <1>l
    <2>2. proc' = [proc EXCEPT ![p] = [c EXCEPT !.pc = "trunc", !.chain = <<>>, !.way = k + 1]]
      BY <1>9, <1>12 DEF Freed, Runs, l, b, k
    <2> DEFINE r == [c EXCEPT !.pc = "trunc", !.chain = <<>>, !.way = k + 1]
    <2>3. <<>> \in Seq(Zones) /\ k + 1 \in Nat
      BY <1>5
    <2>4. /\ r \in Calls /\ r.pc = "trunc" /\ r.ret = c.ret /\ r.way = k + 1 /\ r.chain = <<>>
          /\ r.hold = s /\ r.new = c.new
      BY <1>2, <2>3, ZenonT(60) DEF Calls, Labels, s
    <2>5. proc' = [proc EXCEPT ![p] = r]
      BY <2>2
    <2> HIDE DEF r
    <2>6. ~Mapping(r) /\ Cutting(r) /\ ~Walking(r)
      BY <2>4 DEF Mapping, Cutting, Walking
    <2>7. Carry(r)
      BY <1>5, <1>6, <2>4, <2>6 DEF Carry
    <2>8. /\ \A t \in Slots : inode'[t].num = inode[t].num
          /\ \A m \in Nums : m # n => latest'[m] = latest[m]
          /\ latest'[n].nlinks = latest[n].nlinks
          /\ \A j \in Ways : j # k => latest'[n].zone[j] = latest[n].zone[j]
          /\ IF Depth[k] = 1 THEN latest'[n].zone[k] = 0 ELSE latest'[n].zone[k] = latest[n].zone[k]
      <3>1. CASE Depth[k] # 1
        <4>1. UNCHANGED <<inode, latest>>
          BY <1>9, <3>1 DEF Freed, k
        <4> QED BY <3>1, <4>1
      <3>2. CASE Depth[k] = 1
        <4> DEFINE old == inode[s].img  o == 0  img == [old EXCEPT !.zone[k] = o]
        <4>1. ChangedUnmarked(s, img)
          BY <1>9, <2>1, <3>2, Zenon DEF Freed, s, k, l, b
        <4>2. old \in Images
          BY <1>2, <1>4, LastImage DEF s
        <4>3. o \in Zones \cup {0} /\ o = 0
          OBVIOUS
        <4> HIDE DEF o, old
        <4>4. img \in Images /\ img.nlinks = old.nlinks
          BY <1>4, <4>2, <4>3, StoreZone
        <4>5. img.zone = [old.zone EXCEPT ![k] = o] /\ old.zone \in [Ways -> Zones \cup {0}]
          BY <4>2 DEF Images
        <4>6. img.zone[k] = 0 /\ \A j \in Ways : j # k => img.zone[j] = old.zone[j]
          BY <1>4, <4>3, <4>5
        <4> HIDE DEF img
        <4>7. /\ \A t \in Slots : inode'[t].num = inode[t].num
              /\ \A x \in Nums : x # n => latest'[x] = latest[x]
              /\ latest'[n] = img /\ old = latest[n]
          BY <1>2, <1>3, <1>4, <4>1, <4>4, ChangedParts DEF old, s
        <4> QED BY <3>2, <4>4, <4>6, <4>7
      <3> QED BY <3>1, <3>2
    <2>9. \A j \in Ways, i \in 1 .. 3 : Spared(r, j, i) <=> j > k
      <3> SUFFICES ASSUME NEW j \in Ways, NEW i \in 1 .. 3 PROVE Ahead(r, j, i) <=> j > k
        BY <2>6 DEF Spared
      <3>1. j \in Nat
        BY DepthType
      <3> QED BY <1>5, <2>4, <3>1 DEF Ahead
    <2>10. \A j \in Ways, i \in 1 .. 3 : j # k => Spot(n, j, i)' = Spot(n, j, i)
      BY <1>1, <2>8 DEF Spot
    <2>11. \A j \in Ways, i \in 1 .. 3 : Spared(r, j, i) <=> Spared(c, j, i) /\ ~(j = k /\ i = l)
      <3> SUFFICES ASSUME NEW j \in Ways, NEW i \in 1 .. 3
                   PROVE  j > k <=> (j > k \/ (j = k /\ i <= 1)) /\ ~(j = k /\ i = 1)
        BY <1>7, <2>1, <2>9
      <3>1. j \in Nat
        BY DepthType
      <3> QED BY <1>5, <3>1
    <2>12. \A j \in Ways, i \in 1 .. 3 : Spared(r, j, i) => j # k
      BY <1>5, <2>9
    <2>13. \A j \in Ways : j < r.way /\ Depth[j] = 1 => latest'[n].zone[j] = 0
      <3> SUFFICES ASSUME NEW j \in Ways, j < r.way, Depth[j] = 1 PROVE latest'[n].zone[j] = 0
        OBVIOUS
      <3>1. CASE j = k
        BY <2>8, <3>1
      <3>2. CASE j # k
        <4>1. j < k
          <5>1. j \in Nat
            BY DepthType
          <5> QED BY <1>5, <2>4, <3>2, <5>1
        <4>2. latest[n].zone[j] = 0
          BY <1>2, <1>3, <4>1 DEF Zoned, Cleared, k
        <4> QED BY <2>8, <3>2, <4>2
      <3> QED BY <3>1, <3>2
    <2>14. \A j \in Ways, i \in 1 .. 3 : Spared(r, j, i) /\ Spot(n, j, i)' # 0 =>
               Spared(c, j, i) /\ ~(j = k /\ i = l) /\ Spot(n, j, i)' = Spot(n, j, i)
      BY <2>10, <2>11, <2>12
    <2>15. \A j \in Ways, i \in 1 .. 3 : Spared(c, j, i) /\ ~(j = k /\ i = l) /\ Spot(n, j, i) # 0 =>
               Spared(r, j, i) /\ Spot(n, j, i)' = Spot(n, j, i)
      BY <2>10, <2>11, <2>12
    <2>16. r.new = 0
      BY <1>6, <2>4
    <2> QED BY <1>9, <1>10, <2>4, <2>5, <2>6, <2>7, <2>8, <2>13, <2>14, <2>15, <2>16
  <1> QED BY <1>9, <1>11, <1>12

\* A zone is taken, and its bit is set.
LEMMA Takes ==
    ASSUME Owned, NEW p \in Procs, NEW z, z \notin zmap, z # 0, 0 \notin zmap, zmap' = zmap \cup {z},
           proc'[p].new = z, \A q \in Procs \ {p} : proc'[q].new = proc[q].new, proc[p].new = 0,
           \A m, j, i : Live(m, j, i)' <=> Live(m, j, i),
           \A m, j, i : Live(m, j, i) => Spot(m, j, i)' = Spot(m, j, i)
    PROVE  Owned'
  <1>0. Apart /\ Given /\ Marked /\ Taken /\ Accounted
    BY DEF Owned
  <1>1. \A m, j, i : Live(m, j, i) => m \in imap /\ j \in Ways /\ i \in 1 .. 3 /\ Spot(m, j, i) # 0
    BY DEF Live
  <1>2. Apart'
    BY <1>0, <1>1 DEF Apart
  <1>3. \A q \in Procs \ {p} : proc[q].new # z
    BY <1>0 DEF Taken
  <1>4. Given' /\ Taken'
    BY <1>0, <1>3 DEF Given, Taken
  <1>5. \A m, j, i : Live(m, j, i) => Spot(m, j, i) \in zmap /\ \A q \in Procs : proc'[q].new # Spot(m, j, i)
    BY <1>0, <1>1 DEF Marked
  <1>6. Marked'
    BY <1>1, <1>5 DEF Marked
  <1>7. \A m, j, i : Live(m, j, i)' => m \in imap' /\ j \in Ways /\ i \in 1 .. 3
    BY DEF Live
  <1>8. Accounted'
    <2> SUFFICES ASSUME NEW x \in zmap', ~\E q \in Procs : proc'[q].new = x
                 PROVE  \E m \in imap', j \in Ways, i \in 1 .. 3 : Live(m, j, i)' /\ Spot(m, j, i)' = x
      BY DEF Accounted
    <2>1. x \in zmap /\ ~\E q \in Procs : proc[q].new = x
      <3>1. x # z
        OBVIOUS
      <3>2. x # 0
        BY <3>1
      <3> QED BY <3>1, <3>2
    <2>2. PICK m \in imap, j \in Ways, i \in 1 .. 3 : Live(m, j, i) /\ Spot(m, j, i) = x
      BY <1>0, <2>1 DEF Accounted
    <2> QED BY <1>7, <2>2
  <1> QED BY <1>2, <1>4, <1>6, <1>8 DEF Owned

\* A zone that a process has becomes a place of a file.
LEMMA Places ==
    ASSUME Owned, NEW p \in Procs, NEW n, NEW k, NEW l, Live(n, k, l)', ~Live(n, k, l),
           proc[p].new # 0, Spot(n, k, l)' = proc[p].new, zmap' = zmap,
           proc'[p].new = 0, \A q \in Procs \ {p} : proc'[q].new = proc[q].new,
           \A m, j, i : Live(m, j, i)' <=> Live(m, j, i) \/ (m = n /\ j = k /\ i = l),
           \A m, j, i : Live(m, j, i) => Spot(m, j, i)' = Spot(m, j, i)
    PROVE  Owned'
  <1> DEFINE z == proc[p].new
  <1>0. Apart /\ Given /\ Marked /\ Taken /\ Accounted
    BY DEF Owned
  <1>1. \A m, j, i : Live(m, j, i) => m \in imap /\ j \in Ways /\ i \in 1 .. 3
    BY DEF Live
  <1>2. \A m, j, i : Live(m, j, i) => /\ Spot(m, j, i) \in zmap
                                      /\ \A q \in Procs : proc[q].new # Spot(m, j, i)
    BY <1>0, <1>1 DEF Marked
  <1>3. \A m, j, i : Live(m, j, i)' => m \in imap' /\ j \in Ways /\ i \in 1 .. 3 /\ Spot(m, j, i)' # 0
    BY DEF Live
  <1>4. Apart'
    <2> SUFFICES ASSUME NEW a, NEW b, NEW j, NEW h, NEW i, NEW g, Live(a, j, i)', Live(b, h, g)',
                        Spot(a, j, i)' = Spot(b, h, g)'
                 PROVE  a = b /\ j = h /\ i = g
      BY DEF Apart
    <2>1. CASE Live(a, j, i) /\ Live(b, h, g)
      BY <1>0, <1>1, <2>1 DEF Apart
    <2>2. CASE Live(a, j, i) /\ b = n /\ h = k /\ g = l
      <3>1. Spot(b, h, g)' = z
        BY <2>2
      <3> QED BY <1>2, <2>2, <3>1
    <2>3. CASE Live(b, h, g) /\ a = n /\ j = k /\ i = l
      <3>1. Spot(a, j, i)' = z
        BY <2>3
      <3> QED BY <1>2, <2>3, <3>1
    <2>4. CASE a = n /\ j = k /\ i = l /\ b = n /\ h = k /\ g = l
      BY <2>4
    <2> QED BY <2>1, <2>2, <2>3, <2>4
  <1>5. Given' /\ Taken'
    BY <1>0 DEF Given, Taken
  <1>6. \A q \in Procs : proc'[q].new # z
    BY <1>0 DEF Given
  <1>7. z \in zmap
    BY <1>0 DEF Taken
  <1>8. Marked'
    <2> SUFFICES ASSUME NEW m, NEW j, NEW i, Live(m, j, i)'
                 PROVE  Spot(m, j, i)' \in zmap' /\ \A q \in Procs : proc'[q].new # Spot(m, j, i)'
      BY DEF Marked
    <2>1. CASE Live(m, j, i)
      <3>1. Spot(m, j, i)' = Spot(m, j, i) /\ Spot(m, j, i)' # 0
        BY <1>3, <2>1
      <3> QED BY <1>2, <2>1, <3>1
    <2>2. CASE m = n /\ j = k /\ i = l
      <3>1. Spot(m, j, i)' = z
        BY <2>2
      <3> QED BY <1>6, <1>7, <3>1
    <2> QED BY <2>1, <2>2
  <1>9. Accounted'
    <2> SUFFICES ASSUME NEW x \in zmap', ~\E q \in Procs : proc'[q].new = x
                 PROVE  \E m \in imap', j \in Ways, i \in 1 .. 3 : Live(m, j, i)' /\ Spot(m, j, i)' = x
      BY DEF Accounted
    <2>1. CASE x = z
      BY <1>3, <2>1
    <2>2. CASE x # z
      <3>1. ~\E q \in Procs : proc[q].new = x
        BY <2>2
      <3>2. PICK m \in imap, j \in Ways, i \in 1 .. 3 : Live(m, j, i) /\ Spot(m, j, i) = x
        BY <1>0, <3>1 DEF Accounted
      <3> QED BY <1>3, <3>2
    <2> QED BY <2>1, <2>2
  <1> QED BY <1>4, <1>5, <1>8, <1>9 DEF Owned

\* _bmap, when new_block finds a free zone.
LEMMA BmapTakes ==
    ASSUME Core, Zoned, NEW p \in Procs, Bmap(p), Cell(p) = 0, Zones \ zmap # {}
    PROVE  Zoned'
  <1> DEFINE c == proc[p]  z == Min(Zones \ zmap)  r == [c EXCEPT !.pc = "new_block", !.new = z]
  <1>1. /\ At(p, "bmap") /\ UNCHANGED <<inode, imap, entry, latest>>
        /\ zmap' = zmap \cup {z} /\ proc' = [proc EXCEPT ![p] = r]
    BY DEF Bmap, Sleeps
  <1>2. c \in Calls /\ c.pc = "bmap" /\ Stage(c) /\ Carry(c)
    BY <1>1, Here DEF Zoned, Carried
  <1>3. Walking(c) /\ Mapping(c) /\ ~Cutting(c)
    BY <1>2 DEF Walking, Mapping, Cutting
  <1>4. z \in Zones \ zmap
    BY Constants, MinIn
  <1>5. z \in Zones /\ z \notin zmap /\ z # 0
    BY <1>4, Constants
  <1> HIDE DEF z
  <1>6. /\ r \in Calls /\ r.pc = "new_block" /\ r.new = z /\ r.way = c.way /\ r.chain = c.chain
        /\ r.hold = c.hold /\ r.ret = c.ret
    BY <1>2, <1>5, ZenonT(60) DEF Calls, Labels
  <1> HIDE DEF r
  <1>7. Walking(r) /\ Mapping(r) /\ ~Cutting(r)
    BY <1>6 DEF Walking, Mapping, Cutting
  <1>8. Carry(r)
    BY <1>2, <1>3, <1>5, <1>6, <1>7 DEF Carry
  <1>9. c.new = 0 /\ Owned /\ Single /\ Sole /\ Chained
    BY <1>2 DEF Carry, Zoned
  <1>10. File(p) \in Nums /\ c.way \in Ways /\ c.hold \in Slots
    BY <1>3, OnWay
  <1>11. Spot(File(p), c.way, Len(c.chain) + 1) = 0
    BY <1>3, CellSpot
  <1>12. \A m, k, i : Spot(m, k, i)' = Spot(m, k, i)
    BY <1>1 DEF Spot
  <1>13. proc'[p] = r /\ \A q \in Procs \ {p} : proc'[q] = proc[q]
    BY <1>1 DEF Core, Typed
  <1>14. \A m, k, i : Alive(m, k, i)' <=> Alive(m, k, i)
    <2> TAKE m, k, i
    <2>1. Alive(m, k, i)' <=> \A q \in Procs : Cutting(proc'[q]) /\ inode'[proc'[q].hold].num = m
                                                  => Ahead(proc'[q], k, i)
      BY DEF Alive, File, Cutting, Ahead
    <2>2. Alive(m, k, i)' <=> \A q \in Procs \ {p} :
                                 Cutting(proc[q]) /\ File(q) = m => Ahead(proc[q], k, i)
      BY <1>1, <1>7, <1>13, <2>1 DEF File
    <2>3. Alive(m, k, i) <=> \A q \in Procs \ {p} :
                                 Cutting(proc[q]) /\ File(q) = m => Ahead(proc[q], k, i)
      BY <1>3 DEF Alive
    <2> QED BY <2>2, <2>3
  <1>15. \A m, k, i : Live(m, k, i)' <=> Live(m, k, i)
    BY <1>1, <1>12, <1>14 DEF Live
  <1>x. 0 \notin zmap
    BY Constants DEF Core, Typed
  <1>16. Owned'
    BY <1>x, <1>1, <1>5, <1>6, <1>9, <1>12, <1>13, <1>15, Takes
  <1>17. \A q \in Procs \ {p} : proc[q].hold \in Slots =>
               inode'[proc[q].hold].num = inode[proc[q].hold].num
    BY <1>1
  <1>18. \A q \in Procs \ {p} : proc[q].hold = r.hold /\ r.hold \in Slots =>
               /\ Cutting(r) => ~Cutting(proc[q]) /\ ~Mapping(proc[q])
               /\ Mapping(r) => ~Cutting(proc[q]) /\ (Mapping(proc[q]) => proc[q].way # r.way)
    BY <1>3, <1>6, <1>7, <1>9 DEF Single
  <1>19. \A q \in Procs \ {p} : proc[q].ret = "free_inode" =>
               latest'[File(q)].nlinks = 0 /\ r.hold # proc[q].hold
    BY <1>1, <1>6, <1>9 DEF Sole
  <1>20. r.ret # "free_inode"
    BY <1>2, <1>6 DEF Stage
  <1>21. \A q \in Procs \ {p} : \A m \in Nums, k \in Ways, i \in 1 .. 3 :
               Walking(proc[q]) /\ File(q) = m /\ proc[q].way = k /\ i <= Len(proc[q].chain) + 1
               => Spot(m, k, i)' = Spot(m, k, i)
    BY <1>12
  <1>22. inode'[r.hold].num = File(p)
    BY <1>1, <1>6 DEF File
  <1>23. Walking(r) => /\ inode'[r.hold].num \in Nums /\ r.way \in Ways /\ r \in Calls
                       /\ \A m \in Nums, k \in Ways, i \in 1 .. 3 :
                               inode'[r.hold].num = m /\ r.way = k =>
                                   /\ i <= Len(r.chain) => r.chain[i] = Spot(m, k, i)'
                                   /\ r.pc = "new_block" /\ i = Len(r.chain) + 1 => Spot(m, k, i)' = 0
    <2> SUFFICES ASSUME NEW m \in Nums, NEW k \in Ways, NEW i \in 1 .. 3, m = File(p), k = c.way
                 PROVE  /\ i <= Len(c.chain) => c.chain[i] = Spot(m, k, i)'
                        /\ i = Len(c.chain) + 1 => Spot(m, k, i)' = 0
      BY <1>6, <1>10, <1>22
    <2>1. i <= Len(c.chain) => i \in 1 .. Len(c.chain)
      <3>1. Len(c.chain) \in 0 .. 3
        BY <1>3, OnWay
      <3> QED BY <3>1
    <2>2. i <= Len(c.chain) => c.chain[i] = Spot(m, k, i)
      BY <1>3, <1>9, <2>1 DEF Chained
    <2> QED BY <1>11, <1>12, <2>2
  <1>24. \A q \in Procs \ {p}, k \in Ways :
               Cutting(proc[q]) \/ proc[q].pc = "free_inode" =>
                   latest'[File(q)].zone[k] = latest[File(q)].zone[k]
    BY <1>1
  <1>25. r.pc # "free_inode"
    BY <1>6
  <1>26. Carried' /\ Single' /\ Sole' /\ Chained' /\ Cleared'
    <2>1. proc' = [proc EXCEPT ![p] = r]
      BY <1>1
    <2> QED BY <1>7, <1>8, <1>17, <1>18, <1>19, <1>20, <1>21, <1>23, <1>24, <1>25, <2>1, Steady
  <1> QED BY <1>16, <1>26 DEF Zoned

\* What truncate has not freed begins at the inode.
LEMMA AliveBelow ==
    ASSUME NEW m, NEW j, NEW i \in 1 .. 3, Alive(m, j, i)
    PROVE  \A h \in 1 .. 3 : h <= i => Alive(m, j, h)
  <1> SUFFICES ASSUME NEW h \in 1 .. 3, h <= i, NEW q \in Procs, Cutting(proc[q]), File(q) = m
               PROVE  Ahead(proc[q], j, h)
    BY DEF Alive
  <1>1. Ahead(proc[q], j, i)
    BY DEF Alive
  <1>2. \A l : i <= Len(l) => (h <= Len(l) \/ Len(l) \notin Int)
    OBVIOUS
  <1> QED BY <1>1, <1>2 DEF Ahead

\* Where no pointer before a place changes, the place stays the same.
LEMMA PlaceStays ==
    ASSUME Core, NEW g \in [Zones -> Zones \cup {0}],
           NEW m \in imap, NEW j \in Ways, NEW i \in 1 .. 3,
           \A h \in 1 .. 2 : h < i => Alive(m, j, h),
           \A h \in 1 .. 2 : h < i /\ Live(m, j, h) => g[Spot(m, j, h)] = entry[Spot(m, j, h)]
    PROVE  Hop(g, latest[m].zone[j], j, i) = Spot(m, j, i)
  <1>1. m \in Nums /\ entry \in [Zones -> Zones \cup {0}]
    BY DEF Core, Typed
  <1>2. latest[m].zone[j] \in Zones \cup {0}
    BY <1>1, SpotFacts
  <1>3. \A h \in 1 .. 2 : h < i /\ Spot(m, j, h) # 0 => g[Spot(m, j, h)] = entry[Spot(m, j, h)]
    <2> SUFFICES ASSUME NEW h \in 1 .. 2, h < i, Spot(m, j, h) # 0
                 PROVE  g[Spot(m, j, h)] = entry[Spot(m, j, h)]
      OBVIOUS
    <2>1. h \in 1 .. 3
      OBVIOUS
    <2>2. Live(m, j, h)
      BY <2>1 DEF Live
    <2> QED BY <2>2, Zenon
  <1> DEFINE a == latest[m].zone[j]
  <1>4. \A h : Spot(m, j, h) = Hop(entry, a, j, h)
    BY DEF Spot
  <1>5. a \in Zones \cup {0}
    BY <1>2
  <1> HIDE DEF a
  <1>6. \A h \in 1 .. 2 : h < i /\ Hop(entry, a, j, h) # 0
                           => g[Hop(entry, a, j, h)] = entry[Hop(entry, a, j, h)]
    BY <1>3, <1>4
  <1>7. Hop(g, a, j, i) = Hop(entry, a, j, i)
    BY <1>1, <1>5, <1>6, HopSame
  <1> QED BY <1>4, <1>7 DEF a

\* new_block stores its zone: what changes on the ways of the files.
LEMMA NewPlace ==
    ASSUME Core, Core', Zoned, NEW p \in Procs, NewBlock(p), NEW n, NEW k, NEW l, NEW z,
           n = File(p), k = proc[p].way, l = Len(proc[p].chain), z = proc[p].new
    PROVE  /\ n \in imap /\ k \in Ways /\ l \in 0 .. 2 /\ l + 1 \in 1 .. 3 /\ z \in Zones
           /\ \A q \in Procs : Cutting(proc[q]) => File(q) # n
           /\ \A t \in Slots : inode'[t].num = inode[t].num
           /\ \A m \in Nums : m # n => latest'[m] = latest[m]
           /\ latest'[n].nlinks = latest[n].nlinks
           /\ \A m \in imap, j \in Ways, i \in 1 .. 3 :
                 ~(m = n /\ j = k) /\ (\A h \in 1 .. 2 : h < i => Alive(m, j, h)) =>
                     Spot(m, j, i)' = Spot(m, j, i)
           /\ \A i \in 1 .. 3 : i <= l => Spot(n, k, i)' = Spot(n, k, i)
           /\ \A i \in 1 .. 3 : i = l + 1 => Spot(n, k, i)' = z
           /\ \A i \in 1 .. 3 : i > l + 1 => Spot(n, k, i)' = 0
           /\ \A i \in 1 .. 3 : i > l => Spot(n, k, i) = 0
  <1> DEFINE c == proc[p]  s == c.hold  b == c.chain
  <1>1. At(p, "new_block") /\ UNCHANGED <<imap>>
    BY DEF NewBlock
  <1>2. c \in Calls /\ c.pc = "new_block" /\ Stage(c) /\ Carry(c) /\ Walking(c) /\ Mapping(c)
    BY <1>1, Here DEF Zoned, Carried, Walking, Mapping
  <1>3. /\ n \in imap /\ n \in Nums /\ k \in Ways /\ s \in Slots /\ b \in Seq(Zones)
        /\ l \in 0 .. 3 /\ Depth[k] \in 1 .. 3
        /\ \A i \in 1 .. l : i \in 1 .. 3 /\ b[i] = Spot(n, k, i) /\ b[i] \in Zones
    BY <1>2, OnWay
  <1>4. l < Depth[k] /\ z \in Zones /\ z # 0
    BY <1>2, Constants DEF Carry, Stage
  <1>5. l \in 0 .. 2 /\ l + 1 \in 1 .. 3 /\ l + 1 <= Depth[k]
    <2>1. PICK d \in 1 .. 3 : d = Depth[k]
      BY <1>3
    <2>2. l \in 0 .. 3 /\ l < d
      BY <1>3, <1>4, <2>1
    <2>3. l \in 0 .. 2 /\ l + 1 \in 1 .. 3 /\ l + 1 <= d
      BY <2>2
    <2> QED BY <2>1, <2>3
  <1>6. Spot(n, k, l + 1) = 0
    BY <1>2 DEF Zoned, Chained
  <1>7. \A i \in 1 .. 3 : i > l => Spot(n, k, i) = 0
    <2> SUFFICES ASSUME NEW i \in 1 .. 3, i > l PROVE Spot(n, k, i) = 0
      OBVIOUS
    <2>1. l + 1 <= i
      BY <1>5
    <2> QED BY <1>3, <1>5, <1>6, <2>1, SpotFacts
  <1>8. \A q \in Procs : Cutting(proc[q]) => File(q) # n
    <2> SUFFICES ASSUME NEW q \in Procs, Cutting(proc[q]), File(q) = n PROVE FALSE
      OBVIOUS
    <2>1. proc[q].hold \in Slots
      BY Working
    <2>2. proc[q].hold = s
      BY <1>3, <2>1 DEF Core, Held, Table, File
    <2>3. q # p
      BY <1>2 DEF Mapping, Cutting
    <2> QED BY <1>2, <1>3, <2>2, <2>3 DEF Zoned, Single
  <1>9. \A j, i : Alive(n, j, i)
    BY <1>8 DEF Alive
  <1>10. \A m \in imap, j \in Ways, i \in 1 .. 3 :
             Live(m, j, i) => Spot(m, j, i) # z /\ Spot(m, j, i) \in Zones
    <2>1. Marked /\ zmap \subseteq Zones
      BY DEF Zoned, Owned, Core, Typed
    <2> QED BY <2>1 DEF Marked
  <1>h. \A h \in 1 .. 2 : h \in 1 .. 3
    OBVIOUS
  <1>11. b = <<>> <=> l = 0
    BY <1>3
  <1>12. entry \in [Zones -> Zones \cup {0}] /\ entry' \in [Zones -> Zones \cup {0}]
         /\ imap \subseteq Nums
    BY DEF Core, Typed
  <1>13. CASE l = 0
    <2> DEFINE old == inode[s].img  img == [old EXCEPT !.zone[k] = z]
    <2>1. entry' = [entry EXCEPT ![z] = 0] /\ Changed(s, img)
      BY <1>11, <1>13 DEF NewBlock
    <2>2. old \in Images
      BY <1>2, <1>3, LastImage
    <2> HIDE DEF old
    <2>3. img \in Images /\ img.nlinks = old.nlinks
      BY <1>3, <1>4, <2>2, StoreZone
    <2>4. img.zone = [old.zone EXCEPT ![k] = z] /\ old.zone \in [Ways -> Zones \cup {0}]
      BY <2>2 DEF Images
    <2>5. img.zone[k] = z /\ \A j \in Ways : j # k => img.zone[j] = old.zone[j]
      BY <1>3, <2>4
    <2> HIDE DEF img
    <2>6. /\ \A t \in Slots : inode'[t].num = inode[t].num
          /\ \A x \in Nums : x # n => latest'[x] = latest[x]
          /\ latest'[n] = img /\ old = latest[n]
      BY <1>2, <1>3, <2>1, <2>3, ChangedParts DEF old
    <2>7. \A x \in Zones : x # z => entry'[x] = entry[x]
      BY <1>12, <2>1
    <2>8. entry'[z] = 0
      BY <1>4, <1>12, <2>1
    <2>9. \A m \in imap, j \in Ways, i \in 1 .. 3 :
              ~(m = n /\ j = k) /\ (\A h \in 1 .. 2 : h < i => Alive(m, j, h)) =>
                  Spot(m, j, i)' = Spot(m, j, i)
      <3> SUFFICES ASSUME NEW m \in imap, NEW j \in Ways, NEW i \in 1 .. 3, ~(m = n /\ j = k),
                          \A h \in 1 .. 2 : h < i => Alive(m, j, h)
                   PROVE  Hop(entry', latest'[m].zone[j], j, i) = Spot(m, j, i)
        BY DEF Spot
      <3>1. latest'[m].zone[j] = latest[m].zone[j]
        BY <1>12, <2>5, <2>6
      <3>2. \A h \in 1 .. 2 : h < i /\ Live(m, j, h) => entry'[Spot(m, j, h)] = entry[Spot(m, j, h)]
        BY <1>10, <1>h, <2>7
      <3>3. Hop(entry', latest[m].zone[j], j, i) = Spot(m, j, i)
        BY <1>12, <3>2, PlaceStays
      <3> QED BY <3>1, <3>3
    <2>10. Spot(n, k, 1)' = z /\ \A i \in 1 .. 3 : i > 1 => Spot(n, k, i)' = 0
      <3>1. latest'[n].zone[k] = z
        BY <2>5, <2>6
      <3>2. Hop(entry', z, k, 1) = z /\ \A i \in 1 .. 3 : i > 1 => Hop(entry', z, k, i) = 0
        <4>1. z \in Zones \cup {0}
          BY <1>4
        <4>2. Hop(entry', z, k, 1) = z
          BY <1>3, <1>12, <4>1, HopFacts, SMTT(30)
        <4>3. 1 \in 1 .. 2 /\ 1 + 1 = 2 /\ 2 \in 1 .. 3
          OBVIOUS
        <4>4. Hop(entry', z, k, 2) = IF Hop(entry', z, k, 1) = 0 \/ Depth[k] < 2
                                     THEN 0 ELSE entry'[Hop(entry', z, k, 1)]
          BY <1>3, <1>12, <4>1, <4>3, HopFacts
        <4>5. Hop(entry', z, k, 2) = 0
          BY <2>8, <4>2, <4>4
        <4>6. \A i \in 1 .. 3 : 2 <= i => Hop(entry', z, k, i) = 0
          BY <1>3, <1>12, <4>1, <4>3, <4>5, HopEnds
        <4>7. \A i \in 1 .. 3 : i > 1 => 2 <= i
          OBVIOUS
        <4> QED BY <4>2, <4>6, <4>7
      <3>3. \A i : Spot(n, k, i)' = Hop(entry', latest'[n].zone[k], k, i)
        BY DEF Spot
      <3> QED BY <3>1, <3>2, <3>3
    <2>11. l + 1 = 1 /\ \A i \in 1 .. 3 : ~(i <= l)
      BY <1>13
    <2>12. latest'[n].nlinks = latest[n].nlinks
      BY <2>3, <2>6
    <2> QED BY <1>3, <1>4, <1>5, <1>7, <1>8, <2>6, <2>9, <2>10, <2>11, <2>12
  <1>14. CASE l # 0
    <2> DEFINE y == b[Len(b)]
    <2>0. l \in 1 .. 2 /\ l \in 1 .. l /\ l \in 1 .. 3
      BY <1>5, <1>14
    <2>1. y = Spot(n, k, l) /\ y \in Zones /\ y # 0
      BY <1>3, <2>0, Constants
    <2>2. Live(n, k, l)
      BY <1>3, <1>9, <2>0, <2>1 DEF Live
    <2>3. y # z
      BY <1>3, <1>10, <2>0, <2>1, <2>2
    <2>4. UNCHANGED <<inode, latest>> /\ entry' = [entry EXCEPT ![z] = 0, ![y] = z]
      BY <1>11, <1>14 DEF NewBlock
    <2> HIDE DEF y
    <2>5. /\ \A x \in Zones : x # z /\ x # y => entry'[x] = entry[x]
          /\ entry'[z] = 0 /\ entry'[y] = z
      BY <1>4, <1>12, <2>1, <2>3, <2>4
    <2>6. \A m \in imap, j \in Ways, i \in 1 .. 3 :
              Live(m, j, i) /\ ~(m = n /\ j = k /\ i = l) => Spot(m, j, i) # y
      <3>1. Apart
        BY DEF Zoned, Owned
      <3> QED BY <1>3, <2>0, <2>1, <2>2, <3>1 DEF Apart
    <2>7. \A m, j, i : Spot(m, j, i)' = Hop(entry', latest[m].zone[j], j, i)
      BY <2>4 DEF Spot
    <2>8. \A m \in imap, j \in Ways, i \in 1 .. 3 :
              ~(m = n /\ j = k) /\ (\A h \in 1 .. 2 : h < i => Alive(m, j, h)) =>
                  Spot(m, j, i)' = Spot(m, j, i)
      <3> SUFFICES ASSUME NEW m \in imap, NEW j \in Ways, NEW i \in 1 .. 3, ~(m = n /\ j = k),
                          \A h \in 1 .. 2 : h < i => Alive(m, j, h)
                   PROVE  Hop(entry', latest[m].zone[j], j, i) = Spot(m, j, i)
        BY <2>7
      <3>1. \A h \in 1 .. 2 : h < i /\ Live(m, j, h) => entry'[Spot(m, j, h)] = entry[Spot(m, j, h)]
        BY <1>10, <1>h, <2>5, <2>6
      <3> QED BY <1>12, <3>1, PlaceStays
    <2>9. \A i \in 1 .. 3 : i <= l => Spot(n, k, i)' = Spot(n, k, i)
      <3> SUFFICES ASSUME NEW i \in 1 .. 3, i <= l
                   PROVE  Hop(entry', latest[n].zone[k], k, i) = Spot(n, k, i)
        BY <2>7
      <3>1. \A h \in 1 .. 2 : h < i => h # l /\ h \in 1 .. 3
        BY <2>0
      <3>2. \A h \in 1 .. 2 : h < i /\ Live(n, k, h) => entry'[Spot(n, k, h)] = entry[Spot(n, k, h)]
        BY <1>3, <1>10, <2>5, <2>6, <3>1
      <3> QED BY <1>3, <1>9, <1>12, <3>2, PlaceStays
    <2> DEFINE a == latest[n].zone[k]
    <2>a. a \in Zones \cup {0}
      BY <1>3, SpotFacts
    <2> HIDE DEF a
    <2>10. Hop(entry', a, k, l) = y
      <3>1. l <= l /\ l \in 1 .. 3
        BY <2>0
      <3>2. Spot(n, k, l) = y /\ \A i \in 1 .. 3 : i <= l => Hop(entry', a, k, i) = Spot(n, k, i)
        BY <2>1, <2>7, <2>9 DEF a
      <3> QED BY <3>1, <3>2
    <2>11. Hop(entry', a, k, l + 1) = z
      <3>1. Hop(entry', a, k, l + 1) = IF Hop(entry', a, k, l) = 0 \/ Depth[k] < l + 1
                                       THEN 0 ELSE entry'[Hop(entry', a, k, l)]
        BY <1>3, <1>12, <2>0, <2>a, HopFacts
      <3>2. ~(Depth[k] < l + 1)
        BY <1>3, <1>5
      <3> QED BY <2>1, <2>5, <2>10, <3>1, <3>2
    <2>12. \A i \in 1 .. 3 : i > l + 1 => Hop(entry', a, k, i) = 0
      <3> SUFFICES ASSUME NEW i \in 1 .. 3, i > l + 1 PROVE Hop(entry', a, k, i) = 0
        OBVIOUS
      <3>0. l = 1 \/ l = 2
        BY <2>0
      <3>1. l = 1 /\ i = 3 /\ l + 1 = 2
        <4>1. CASE l = 1
          BY <4>1
        <4>2. CASE l = 2
          <5>1. i > 3
            BY <4>2
          <5> QED BY <5>1
        <4> QED BY <3>0, <4>1, <4>2
      <3>2. 2 \in 1 .. 2 /\ 2 + 1 = 3
        OBVIOUS
      <3>3. Hop(entry', a, k, 3) = IF Hop(entry', a, k, 2) = 0 \/ Depth[k] < 3
                                   THEN 0 ELSE entry'[Hop(entry', a, k, 2)]
        BY <1>3, <1>12, <2>a, <3>2, HopFacts
      <3> QED BY <2>5, <2>11, <3>1, <3>3
    <2>13. /\ \A i \in 1 .. 3 : i = l + 1 => Spot(n, k, i)' = z
           /\ \A i \in 1 .. 3 : i > l + 1 => Spot(n, k, i)' = 0
      BY <2>7, <2>11, <2>12 DEF a
    <2> QED BY <1>3, <1>4, <1>5, <1>7, <1>8, <2>4, <2>8, <2>9, <2>13
  <1> QED BY <1>13, <1>14

\* What a process has on its way has not been freed.
LEMMA WalkAlive ==
    ASSUME Core, Zoned, NEW q \in Procs, Walking(proc[q]), NEW h \in 1 .. 3, h <= Len(proc[q].chain)
    PROVE  Alive(File(q), proc[q].way, h)
  <1> SUFFICES ASSUME NEW u \in Procs, Cutting(proc[u]), File(u) = File(q)
               PROVE  Ahead(proc[u], proc[q].way, h)
    BY DEF Alive
  <1>1. proc[u].hold \in Slots /\ proc[q].hold \in Slots
    BY Working
  <1>2. proc[u].hold = proc[q].hold
    BY <1>1 DEF Core, Held, Table, File
  <1>3. CASE u = q
    BY <1>3 DEF Ahead
  <1>4. CASE u # q
    <2>1. ~Cutting(proc[q]) /\ ~Mapping(proc[q])
      BY <1>1, <1>2, <1>4 DEF Zoned, Single
    <2> QED BY <2>1 DEF Walking, Cutting, Mapping
  <1> QED BY <1>3, <1>4

\* Two processes that hold the same file hold the same entry.
LEMMA SameEntry ==
    ASSUME Core, NEW p \in Procs, NEW q \in Procs, proc[p].hold \in Slots, proc[q].hold \in Slots,
           File(p) = File(q)
    PROVE  proc[p].hold = proc[q].hold
  BY DEF Core, Held, Table, File

\* new_block stores its zone.
LEMMA NewBlockPlaces ==
    ASSUME Core, Core', Zoned, NEW p \in Procs, NewBlock(p)
    PROVE  Zoned'
  <1> DEFINE c == proc[p]  s == c.hold  b == c.chain
  <1>0. PICK n, k, l, z : n = File(p) /\ k = c.way /\ l = Len(b) /\ z = c.new
    OBVIOUS
  <1>1. At(p, "new_block") /\ UNCHANGED <<imap, zmap>> /\ Onward(p, z)
    BY <1>0 DEF NewBlock
  <1>2. c \in Calls /\ c.pc = "new_block" /\ Stage(c) /\ Carry(c) /\ Walking(c) /\ Mapping(c) /\ ~Cutting(c)
    BY <1>1, Here DEF Zoned, Carried, Walking, Mapping, Cutting
  <1>3. /\ n \in imap /\ k \in Ways /\ l \in 0 .. 2 /\ l + 1 \in 1 .. 3 /\ z \in Zones
        /\ \A q \in Procs : Cutting(proc[q]) => File(q) # n
        /\ \A t \in Slots : inode'[t].num = inode[t].num
        /\ \A m \in Nums : m # n => latest'[m] = latest[m]
        /\ latest'[n].nlinks = latest[n].nlinks
    BY <1>0, NewPlace
  <1>4. \A m \in imap, j \in Ways, i \in 1 .. 3 :
            ~(m = n /\ j = k) /\ (\A h \in 1 .. 2 : h < i => Alive(m, j, h)) =>
                Spot(m, j, i)' = Spot(m, j, i)
    BY <1>0, NewPlace
  <1>5. /\ \A i \in 1 .. 3 : i <= l => Spot(n, k, i)' = Spot(n, k, i)
        /\ \A i \in 1 .. 3 : i = l + 1 => Spot(n, k, i)' = z
        /\ \A i \in 1 .. 3 : i > l + 1 => Spot(n, k, i)' = 0
        /\ \A i \in 1 .. 3 : i > l => Spot(n, k, i) = 0
    BY <1>0, NewPlace
  <1>6. s \in Slots /\ n \in Nums /\ z # 0 /\ c.ret # "free_inode" /\ imap \subseteq Nums
    <2>1. s \in Slots /\ imap \subseteq Nums
      BY <1>2, Working DEF Core, Typed
    <2> QED BY <1>2, <1>3, <2>1, Constants DEF Stage
  <1>7. \A i \in 1 .. 3 : i <= l \/ i = l + 1 \/ i > l + 1
    BY <1>3
  <1>8. \A j, i : Alive(n, j, i)
    BY <1>3 DEF Alive
  <1>9. \A m \in imap, j \in Ways, i \in 1 .. 3 :
            ~(m = n /\ j = k) /\ Alive(m, j, i) => Spot(m, j, i)' = Spot(m, j, i)
    <2> SUFFICES ASSUME NEW m \in imap, NEW j \in Ways, NEW i \in 1 .. 3, ~(m = n /\ j = k), Alive(m, j, i)
                 PROVE  Spot(m, j, i)' = Spot(m, j, i)
      OBVIOUS
    <2>1. \A h \in 1 .. 3 : h <= i => Alive(m, j, h)
      BY AliveBelow
    <2>2. \A h \in 1 .. 2 : h < i => h \in 1 .. 3 /\ h <= i
      OBVIOUS
    <2>3. \A h \in 1 .. 2 : h < i => Alive(m, j, h)
      BY <2>1, <2>2
    <2> QED BY <1>4, <2>3
  <1>10. ASSUME NEW r \in Calls, proc' = [proc EXCEPT ![p] = r], Carry(r), r.hold = s, r.new = 0,
                r.ret # "free_inode", ~Cutting(r), r.pc \notin {"new_block", "free_inode"},
                Mapping(r) => r.way = k, Walking(r) => r.way = k,
                Walking(r) => \A i \in 1 .. 3 : i <= Len(r.chain) => r.chain[i] = Spot(n, k, i)'
         PROVE  Zoned'
    <2>0. Owned /\ Single /\ Sole
      BY DEF Zoned
    <2>1. proc'[p] = r /\ \A q \in Procs \ {p} : proc'[q] = proc[q]
      BY <1>10 DEF Core, Typed
    <2>2. \A m, j, i : Alive(m, j, i)' <=> Alive(m, j, i)
      <3> TAKE m, j, i
      <3>1. Alive(m, j, i)' <=> \A q \in Procs : Cutting(proc'[q]) /\ inode'[proc'[q].hold].num = m
                                                    => Ahead(proc'[q], j, i)
        BY DEF Alive, File, Cutting, Ahead
      <3>2. \A q \in Procs \ {p} : Cutting(proc[q]) => inode'[proc[q].hold].num = File(q)
        BY <1>3, Working DEF File
      <3>3. Alive(m, j, i)' <=> \A q \in Procs \ {p} :
                                   Cutting(proc[q]) /\ File(q) = m => Ahead(proc[q], j, i)
        BY <1>10, <2>1, <3>1, <3>2
      <3>4. Alive(m, j, i) <=> \A q \in Procs \ {p} :
                                   Cutting(proc[q]) /\ File(q) = m => Ahead(proc[q], j, i)
        BY <1>2 DEF Alive
      <3> QED BY <3>3, <3>4
    <2>3. \A m, j, i : Live(m, j, i) => Spot(m, j, i)' = Spot(m, j, i)
      <3> SUFFICES ASSUME NEW m \in imap, NEW j \in Ways, NEW i \in 1 .. 3, Alive(m, j, i),
                          Spot(m, j, i) # 0
                   PROVE  Spot(m, j, i)' = Spot(m, j, i)
        BY DEF Live
      <3>1. CASE ~(m = n /\ j = k)
        BY <1>9, <3>1
      <3>2. CASE m = n /\ j = k
        <4>1. i <= l \/ i > l
          BY <1>3
        <4> QED BY <1>5, <3>2, <4>1
      <3> QED BY <3>1, <3>2
    <2>4. \A m, j, i : Live(m, j, i)' <=> Live(m, j, i) \/ (m = n /\ j = k /\ i = l + 1)
      <3>1. Live(n, k, l + 1)'
        <4>1. Alive(n, k, l + 1)' /\ \A i : i = l + 1 => Spot(n, k, i)' # 0
          BY <1>3, <1>5, <1>6, <1>8, <2>2
        <4> QED BY <1>1, <1>3, <4>1 DEF Live
      <3>2. ASSUME NEW m \in imap, NEW j \in Ways, NEW i \in 1 .. 3, Alive(m, j, i),
                   ~(m = n /\ j = k /\ i = l + 1)
            PROVE  Spot(m, j, i)' # 0 <=> Spot(m, j, i) # 0
        <4>1. CASE ~(m = n /\ j = k)
          BY <1>9, <3>2, <4>1
        <4>2. CASE m = n /\ j = k /\ i <= l
          BY <1>5, <4>2
        <4>3. CASE m = n /\ j = k /\ i > l + 1
          <5>1. i > l
            BY <1>3, <4>3
          <5> QED BY <1>5, <4>3, <5>1
        <4> QED BY <1>7, <3>2, <4>1, <4>2, <4>3
      <3>3. \A m, j, i : Live(m, j, i)' <=>
                m \in imap /\ j \in Ways /\ i \in 1 .. 3 /\ Alive(m, j, i) /\ Spot(m, j, i)' # 0
        BY <1>1, <2>2 DEF Live
      <3> QED BY <3>1, <3>2, <3>3 DEF Live
    <2>5. ~Live(n, k, l + 1) /\ Live(n, k, l + 1)' /\ Spot(n, k, l + 1)' = z
      <3>1. \A i \in 1 .. 3 : i = l + 1 => i > l
        BY <1>3
      <3>2. \A i : i = l + 1 => Spot(n, k, i)' = z /\ Spot(n, k, i) = 0
        BY <1>3, <1>5, <3>1
      <3> QED BY <2>4, <3>2 DEF Live
    <2>6. Owned'
      <3>1. PICK g : g = l + 1
        OBVIOUS
      <3>2. ~Live(n, k, g) /\ Live(n, k, g)' /\ Spot(n, k, g)' = proc[p].new /\ proc[p].new # 0
        BY <1>0, <1>6, <2>5, <3>1
      <3>3. \A m, j, i : Live(m, j, i)' <=> Live(m, j, i) \/ (m = n /\ j = k /\ i = g)
        BY <2>4, <3>1
      <3>4. zmap' = zmap /\ proc'[p].new = 0 /\ \A q \in Procs \ {p} : proc'[q].new = proc[q].new
        BY <1>1, <1>10, <2>1
      <3> QED BY <2>0, <2>3, <3>2, <3>3, <3>4, Places
    <2>7. \A q \in Procs \ {p} : proc[q].hold \in Slots /\ File(q) = n => proc[q].hold = s
      BY <1>0, <1>6, SameEntry
    <2>8. \A q \in Procs \ {p} : proc[q].ret = "free_inode" => File(q) # n /\ File(q) \in Nums
      <3> SUFFICES ASSUME NEW q \in Procs \ {p}, proc[q].ret = "free_inode"
                   PROVE  File(q) # n /\ File(q) \in Nums
        OBVIOUS
      <3>1. proc[q].hold \in Slots /\ File(q) \in Nums
        BY Working
      <3>2. proc[q].hold # s
        BY <2>0 DEF Sole
      <3> QED BY <2>7, <3>1, <3>2
    <2>9. \A q \in Procs \ {p} : proc[q].hold \in Slots =>
               inode'[proc[q].hold].num = inode[proc[q].hold].num
      BY <1>3
    <2>10. \A q \in Procs \ {p} : proc[q].hold = r.hold /\ r.hold \in Slots =>
               /\ Cutting(r) => ~Cutting(proc[q]) /\ ~Mapping(proc[q])
               /\ Mapping(r) => ~Cutting(proc[q]) /\ (Mapping(proc[q]) => proc[q].way # r.way)
      BY <1>0, <1>2, <1>6, <1>10, <2>0 DEF Single
    <2>11. \A q \in Procs \ {p} : proc[q].ret = "free_inode" =>
               latest'[File(q)].nlinks = 0 /\ r.hold # proc[q].hold
      BY <1>3, <1>10, <2>0, <2>8 DEF Sole
    <2>12. \A q \in Procs \ {p} : \A m \in Nums, j \in Ways, i \in 1 .. 3 :
               Walking(proc[q]) /\ File(q) = m /\ proc[q].way = j /\ i <= Len(proc[q].chain) + 1
               => Spot(m, j, i)' = Spot(m, j, i)
      <3> SUFFICES ASSUME NEW q \in Procs \ {p}, NEW m \in Nums, NEW j \in Ways, NEW i \in 1 .. 3,
                          Walking(proc[q]), File(q) = m, proc[q].way = j,
                          i <= Len(proc[q].chain) + 1
                   PROVE  Spot(m, j, i)' = Spot(m, j, i)
        OBVIOUS
      <3>1. m \in imap /\ proc[q].hold \in Slots /\ Len(proc[q].chain) \in 0 .. 3
        BY OnWay
      <3>2. ~(m = n /\ j = k)
        <4> SUFFICES ASSUME m = n, j = k PROVE FALSE
          OBVIOUS
        <4>1. ~Cutting(proc[q]) /\ proc[q].hold = s
          BY <1>3, <2>7, <3>1
        <4>2. Mapping(proc[q])
          BY <4>1 DEF Walking, Cutting, Mapping
        <4> QED BY <1>0, <1>2, <1>6, <2>0, <4>1, <4>2 DEF Single
      <3>3. \A h \in 1 .. 2 : h < i => h \in 1 .. 3 /\ h <= Len(proc[q].chain)
        BY <3>1
      <3>4. \A h \in 1 .. 2 : h < i => Alive(m, j, h)
        BY <3>3, WalkAlive
      <3> QED BY <1>4, <3>1, <3>2, <3>4
    <2>13. inode'[r.hold].num = n
      BY <1>0, <1>3, <1>6, <1>10 DEF File
    <2>14. Walking(r) => /\ inode'[r.hold].num \in Nums /\ r.way \in Ways /\ r \in Calls
                         /\ \A m \in Nums, j \in Ways, i \in 1 .. 3 :
                               inode'[r.hold].num = m /\ r.way = j =>
                                   /\ i <= Len(r.chain) => r.chain[i] = Spot(m, j, i)'
                                   /\ r.pc = "new_block" /\ i = Len(r.chain) + 1 => Spot(m, j, i)' = 0
      BY <1>3, <1>6, <1>10, <2>13
    <2>15. \A q \in Procs \ {p}, j \in Ways :
               Cutting(proc[q]) \/ proc[q].pc = "free_inode" =>
                   latest'[File(q)].zone[j] = latest[File(q)].zone[j]
      <3>1. \A q \in Procs : proc[q].pc = "free_inode" => proc[q].ret = "free_inode"
        BY DEF Core, Staged, Stage
      <3>2. \A q \in Procs : Cutting(proc[q]) => File(q) \in Nums
        BY Working
      <3> QED BY <1>3, <2>8, <3>1, <3>2
    <2>16. \A j \in Ways :
               (Cutting(r) /\ j < r.way /\ Depth[j] = 1) \/ r.pc = "free_inode" =>
                   latest'[inode'[r.hold].num].zone[j] = 0
      BY <1>10
    <2>17. Carried' /\ Single' /\ Sole' /\ Chained' /\ Cleared'
      <3>1. proc' = [proc EXCEPT ![p] = r] /\ Carry(r) /\ r.ret # "free_inode"
        BY <1>10
      <3> QED BY <2>9, <2>10, <2>11, <2>12, <2>14, <2>15, <2>16, <3>1, Steady
    <2> QED BY <2>6, <2>17 DEF Zoned
  <1>11. CASE Returns(p, s)
    <2> DEFINE r == [Idle EXCEPT !.hold = s, !.ops = c.ops]
    <2>0. c.ops \in Int
      BY <1>2, CallFields
    <2>1. r \in Calls /\ r.hold = s
      BY <1>6, <2>0, Back
    <2>2. r.pc = "idle" /\ r.ret = "idle" /\ r.way = 0 /\ r.chain = <<>> /\ r.new = 0
      BY <1>6, <2>0, Ended
    <2>3. proc' = [proc EXCEPT ![p] = r]
      BY <1>11 DEF Returns, Sleeps
    <2> HIDE DEF r
    <2>4. ~Walking(r) /\ ~Mapping(r) /\ ~Cutting(r)
      BY <2>2 DEF Walking, Mapping, Cutting
    <2>5. 0 \in 0 .. Len(Depth) + 1
      BY Constants
    <2>6. Carry(r)
      BY <2>2, <2>4, <2>5 DEF Carry
    <2> QED BY <1>10, <2>1, <2>2, <2>3, <2>4, <2>6
  <1>12. CASE /\ l + 1 # Depth[k]
              /\ proc' = [proc EXCEPT ![p] = [c EXCEPT !.pc = "bmap", !.chain = Append(b, z), !.new = 0]]
    <2> DEFINE d == Append(b, z)
    <2>1. b \in Seq(Zones) /\ Len(b) = l /\ \A i \in 1 .. l : b[i] = Spot(n, k, i)
      BY <1>0, <1>2, OnWay
    <2>2. d \in Seq(Zones) /\ Len(d) = l + 1 /\ d[l + 1] = z /\ \A i \in 1 .. l : d[i] = b[i]
      BY <1>3, <2>1
    <2> HIDE DEF d
    <2> DEFINE r == [c EXCEPT !.pc = "bmap", !.chain = d, !.new = 0]
    <2>3. /\ r \in Calls /\ r.pc = "bmap" /\ r.chain = d /\ r.new = 0 /\ r.way = c.way
          /\ r.hold = s /\ r.ret = c.ret
      BY <1>2, <2>2, ZenonT(60) DEF Calls, Labels
    <2>4. proc' = [proc EXCEPT ![p] = r]
      BY <1>12 DEF d
    <2> HIDE DEF r
    <2>5. Walking(r) /\ Mapping(r) /\ ~Cutting(r)
      BY <2>3 DEF Walking, Mapping, Cutting
    <2>6. Len(d) < Depth[c.way]
      <3>1. l < Depth[k] /\ Depth[k] \in 1 .. 3
        BY <1>0, <1>2, CellSpot, OnWay
      <3>2. l + 1 < Depth[k]
        BY <1>3, <1>12, <3>1
      <3> QED BY <1>0, <2>2, <3>2
    <2>7. Carry(r)
      BY <1>2, <2>3, <2>5, <2>6 DEF Carry
    <2>8. \A i \in 1 .. 3 : i <= Len(d) => d[i] = Spot(n, k, i)'
      <3> SUFFICES ASSUME NEW i \in 1 .. 3, i <= l + 1 PROVE d[i] = Spot(n, k, i)'
        BY <2>2
      <3>1. CASE i = l + 1
        BY <1>5, <2>2, <3>1
      <3>2. CASE i # l + 1
        <4>1. i <= l /\ i \in 1 .. l
          BY <1>3, <3>2
        <4> QED BY <1>5, <2>1, <2>2, <4>1
      <3> QED BY <3>1, <3>2
    <2> QED BY <1>0, <1>6, <1>10, <2>3, <2>4, <2>5, <2>7, <2>8
  <1> QED BY <1>0, <1>1, <1>11, <1>12 DEF Onward, Sleeps
-----------------------------------------------------------------------------
\* In the beginning no file has a zone.
LEMMA ZonesEmpty ==
    ASSUME Init
    PROVE  Zoned
  <1>1. proc = [p \in Procs |-> Idle] /\ latest = disk /\ zmap = {} /\ entry = [z \in Zones |-> 0]
        /\ disk = [n \in Nums |-> IF n = Min(Nums) THEN [Gone EXCEPT !.nlinks = 1] ELSE Gone]
    BY DEF Init
  <1>2. \A p \in Procs : proc[p] = Idle
    BY <1>1
  <1>3. /\ Idle.pc = "idle" /\ Idle.ret = "idle" /\ Idle.way = 0 /\ Idle.chain = <<>> /\ Idle.new = 0
        /\ Idle.hold = NULL
    BY DEF Idle
  <1>4. ~Cutting(Idle) /\ ~Mapping(Idle) /\ ~Walking(Idle)
    BY <1>3 DEF Cutting, Mapping, Walking
  <1>5. Len(Depth) \in Nat
    BY Constants
  <1>6. Carried
    BY <1>2, <1>3, <1>4, <1>5 DEF Carried, Carry
  <1>7. Single /\ Sole /\ Chained /\ Cleared
    BY <1>2, <1>3, <1>4 DEF Single, Sole, Chained, Cleared
  <1>8. Core /\ imap \subseteq Nums /\ entry \in [Zones -> Zones \cup {0}]
    BY InitInv DEF Core, Typed
  <1>9. \A n \in Nums : \A k \in Ways : latest[n].zone[k] = 0
    <2> DEFINE g == [Gone EXCEPT !.nlinks = 1]
    <2>1. g.zone = [k \in Ways |-> 0] /\ Gone.zone = [k \in Ways |-> 0]
      BY DEF Gone
    <2>2. \A n \in Nums : latest[n] = g \/ latest[n] = Gone
      BY <1>1
    <2> HIDE DEF g
    <2> QED BY <2>1, <2>2
  <1>10. \A n \in imap : \A k \in Ways : \A i \in 1 .. 3 : Spot(n, k, i) = 0
    BY <1>8, <1>9, HopFacts DEF Spot
  <1>11. Apart /\ Marked
    BY <1>10 DEF Apart, Marked, Live
  <1>12. Given /\ Taken /\ Accounted
    BY <1>1, <1>2, <1>3 DEF Given, Taken, Accounted
  <1> QED BY <1>6, <1>7, <1>11, <1>12 DEF Zoned, Owned

\* Every step of a process keeps the zones in order.
LEMMA ZonesStep ==
    ASSUME Core, Zoned, ~raced', NEW p \in Procs,
           \/ Steps(p) \/ Open(p) \/ Create(p) \/ Write(p) \/ OpenTrunc(p)
           \/ Unlink(p) \/ Close(p) \/ Sync(p)
    PROVE  Core' /\ Zoned'
  <1>0. Core /\ Zoned /\ ~raced' /\ p \in Procs /\ Core'
    BY StepInv
  <1>1. CASE GetEmptyInode(p) \/ Claim(p)
    BY <1>0, <1>1, EmptyAway
  <1>2. CASE WriteInode(p) \/ WriteDone(p) \/ SyncInodes(p)
    BY <1>0, <1>2, WriteAway
  <1>3. CASE Search(p) \/ Found(p) \/ ReadDone(p)
    BY <1>0, <1>3, SearchAway
  <1>4. CASE NewInode(p)
    BY <1>0, <1>4, NewAside
  <1>5. CASE Enter(p) \/ Unlink(p)
    BY <1>0, <1>5, NameAside
  <1>6. CASE iput(p)
    <2>1. CASE inode[proc[p].hold].count = 1 /\ inode[proc[p].hold].img.nlinks = 0
      BY <1>0, <1>6, <2>1, ZonesStart
    <2>2. CASE ~(inode[proc[p].hold].count = 1 /\ inode[proc[p].hold].img.nlinks = 0)
      BY <1>0, <1>6, <2>2, PutAway
    <2> QED BY <2>1, <2>2
  <1>7. CASE free_inode(p)
    BY <1>0, <1>7, FreeAside
  <1>8. CASE Bmap(p)
    <2>1. CASE Cell(p) # 0 \/ Zones \ zmap = {}
      BY <1>0, <1>8, <2>1, BmapWalks
    <2>2. CASE Cell(p) = 0 /\ Zones \ zmap # {}
      BY <1>0, <1>8, <2>2, BmapTakes
    <2> QED BY <2>1, <2>2
  <1>9. CASE NewBlock(p)
    BY <1>0, <1>9, NewBlockPlaces
  <1>10. CASE Truncate(p)
    <2>1. CASE proc[p].way <= Len(Depth)
      BY <1>0, <1>10, <2>1, TruncateWalks
    <2>2. CASE proc[p].way > Len(Depth)
      BY <1>0, <1>10, <2>2, TruncateEnds
    <2>3. proc[p].way \in Nat /\ Len(Depth) \in Nat
      BY CallFields, Constants DEF Core, Typed
    <2> QED BY <2>1, <2>2, <2>3
  <1>11. CASE Descend(p)
    BY <1>0, <1>11, DescendWalks
  <1>12. CASE FreeBlock(p)
    BY <1>0, <1>12, FreeCuts
  <1>13. CASE Open(p) \/ Create(p) \/ Close(p) \/ Sync(p)
    BY <1>0, <1>13, CallsAway
  <1>14. CASE Write(p) \/ OpenTrunc(p)
    BY <1>0, <1>14, ZonesStart
  <1> QED BY <1>0, <1>1, <1>2, <1>3, <1>4, <1>5, <1>6, <1>7, <1>8, <1>9, <1>10, <1>11, <1>12, <1>13, <1>14 DEF Steps

\* The zones are in order until two processes meet.
LEMMA ZonesInvariant == Spec => []ZInv
  <1>1. Init => ZInv
    BY InitInv, ZonesEmpty DEF ZInv
  <1>2. ASSUME ZInv, [Next]_vars PROVE ZInv'
    <2>1. CASE raced
      BY <1>2, <2>1, RacedStays DEF ZInv
    <2>2. CASE raced'
      BY <2>2 DEF ZInv
    <2>3. CASE Core /\ Zoned /\ ~raced' /\ UNCHANGED vars
      BY <2>3, Stays, ZonedStays DEF vars, ZInv
    <2>4. CASE Core /\ Zoned /\ ~raced' /\ Next
      <3>1. PICK p \in Procs : \/ Steps(p) \/ Open(p) \/ Create(p) \/ Write(p) \/ OpenTrunc(p)
                               \/ Unlink(p) \/ Close(p) \/ Sync(p)
        BY <2>4 DEF Next
      <3> QED BY <2>4, <3>1, ZonesStep DEF ZInv
    <2> QED BY <1>2, <2>1, <2>2, <2>3, <2>4 DEF ZInv
  <1> QED BY <1>1, <1>2, PTL DEF Spec

\* The image of an allocated inode in the table, or on disk, is its last one.
LEMMA PresentLatest ==
    ASSUME Core, NEW n \in imap, ~Truncating(n)
    PROVE  Present(n) = latest[n]
  <1> DEFINE S == {t \in Cached(n) : ~(inode[t].lock /\ ~inode[t].dirt)}
  <1>0. Typed /\ Table /\ Alone /\ Fresh /\ Kept /\ Locked
    BY DEF Core
  <1>1. n # 0
    BY <1>0, Constants DEF Typed
  <1>2. S \subseteq Slots /\ \A t \in S : inode[t].num = n
    BY DEF Cached
  <1>3. Present(n) = IF S = {} THEN disk[n] ELSE inode[Min(S)].img
    BY DEF Present
  <1>4. CASE S = {}
    <2>1. \A s \in Slots : inode[s].num = n => ~inode[s].dirt
      BY <1>4 DEF Cached
    <2> QED BY <1>0, <1>3, <1>4, <2>1 DEF Kept
  <1>5. CASE S # {}
    <2>1. S \in SUBSET Nat
      BY <1>2 DEF Slots
    <2> HIDE DEF S
    <2>2. Min(S) \in S
      BY <1>5, <2>1, MinIn
    <2>3. PICK t : t = Min(S)
      OBVIOUS
    <2>4. t \in Slots /\ inode[t].num = n /\ ~(inode[t].lock /\ ~inode[t].dirt)
      BY <1>2, <2>2, <2>3 DEF S
    <2>5. \A p \in Procs : ~(proc[p].pc = "reading" /\ proc[p].hold = t)
      <3> SUFFICES ASSUME NEW p \in Procs, proc[p].pc = "reading", proc[p].hold = t PROVE FALSE
        OBVIOUS
      <3>1. LockOf(proc[p]) = t
        BY LockSlots
      <3>2. inode[t].lock /\ ~inode[t].dirt
        BY <1>0, <2>4, <3>1, Constants DEF Locked, Alone
      <3> QED BY <2>4, <3>2
    <2>6. inode[t].img = latest[n]
      BY <1>0, <1>1, <2>4, <2>5 DEF Fresh
    <2> QED BY <1>3, <1>5, <2>3, <2>6
  <1> QED BY <1>4, <1>5

\* The places that ZonesExact speaks of are those no truncate has come to.
LEMMA PlaceLive ==
    ASSUME Core, NEW n \in imap, NEW k \in Ways, NEW i \in 1 .. 3, ~Truncating(n)
    PROVE  ZoneAt(n, k, i) = Spot(n, k, i) /\ (ZoneAt(n, k, i) # 0 => Live(n, k, i))
  <1>1. ZoneAt(n, k, i) = Spot(n, k, i)
    BY PresentLatest DEF ZoneAt, Spot
  <1>2. Alive(n, k, i)
    <2> SUFFICES ASSUME NEW p \in Procs, Cutting(proc[p]), File(p) = n PROVE FALSE
      BY DEF Alive
    <2>1. proc[p].hold \in Slots
      BY Working
    <2> QED BY <2>1, Constants DEF Truncating, File, Cutting
  <1> QED BY <1>1, <1>2 DEF Live

\* _bmap, new_block, free_block and truncate keep the zone bitmap exact: the bit
\* of every zone of a file is set, each is in one place of one file, and a set
\* bit is that of a zone a file or a process has.
THEOREM ZonesAreExact == Spec => []ZonesExact
  <1>1. ZInv => ZonesExact
    <2> SUFFICES ASSUME Core, Zoned PROVE ZonesExact
      BY DEF ZInv, ZonesExact
    <2> DEFINE places == {x \in imap \X Ways \X (1 .. 3) :
                             ~Truncating(x[1]) /\ ZoneAt(x[1], x[2], x[3]) # 0}
               used == {ZoneAt(x[1], x[2], x[3]) : x \in places}
               given == {proc[p].new : p \in Procs} \ {0}
    <2>0. Apart /\ Given /\ Marked /\ Taken /\ Accounted /\ imap \subseteq Nums
      BY DEF Zoned, Owned, Core, Typed
    <2>1. \A x \in places : /\ x = <<x[1], x[2], x[3]>>
                            /\ x[1] \in imap /\ x[2] \in Ways /\ x[3] \in 1 .. 3
                            /\ Live(x[1], x[2], x[3])
                            /\ ZoneAt(x[1], x[2], x[3]) = Spot(x[1], x[2], x[3])
      <3> SUFFICES ASSUME NEW x \in places
                   PROVE  /\ x = <<x[1], x[2], x[3]>>
                          /\ x[1] \in imap /\ x[2] \in Ways /\ x[3] \in 1 .. 3
                          /\ Live(x[1], x[2], x[3])
                          /\ ZoneAt(x[1], x[2], x[3]) = Spot(x[1], x[2], x[3])
        OBVIOUS
      <3>1. x \in imap \X Ways \X (1 .. 3) /\ ~Truncating(x[1]) /\ ZoneAt(x[1], x[2], x[3]) # 0
        OBVIOUS
      <3> HIDE DEF places
      <3>2. x = <<x[1], x[2], x[3]>> /\ x[1] \in imap /\ x[2] \in Ways /\ x[3] \in 1 .. 3
        BY <3>1
      <3>3. ASSUME NEW n \in imap, NEW k \in Ways, NEW i \in 1 .. 3, ~Truncating(n)
            PROVE  ZoneAt(n, k, i) = Spot(n, k, i) /\ (ZoneAt(n, k, i) # 0 => Live(n, k, i))
        BY <3>3, PlaceLive
      <3>4. ZoneAt(x[1], x[2], x[3]) = Spot(x[1], x[2], x[3]) /\ Live(x[1], x[2], x[3])
        BY <3>1, <3>2, <3>3
      <3> QED BY <3>2, <3>4
    <2>2. \A n \in imap, k \in Ways, i \in 1 .. 3 :
             Live(n, k, i) /\ ~Truncating(n) => Spot(n, k, i) \in used
      <3> SUFFICES ASSUME NEW n \in imap, NEW k \in Ways, NEW i \in 1 .. 3, Live(n, k, i), ~Truncating(n)
                   PROVE  Spot(n, k, i) \in used
        OBVIOUS
      <3>0. ZoneAt(n, k, i) = Spot(n, k, i)
        BY PlaceLive
      <3>1. ZoneAt(n, k, i) = Spot(n, k, i) /\ Spot(n, k, i) # 0
        BY <3>0 DEF Live
      <3>2. <<n, k, i>> \in places
        BY <3>1
      <3> QED BY <3>1, <3>2
    <2>3. \A z \in used : \E x \in places : z = ZoneAt(x[1], x[2], x[3])
      OBVIOUS
    <2>4. \A z \in given : z # 0 /\ \E p \in Procs : z = proc[p].new
      OBVIOUS
    <2>5. \A p \in Procs : proc[p].new # 0 => proc[p].new \in given
      OBVIOUS
    <2>6. ZonesExact <=>
            (~raced =>
              /\ used \cup given \subseteq zmap /\ used \cap given = {}
              /\ \A x, y \in places : ZoneAt(x[1], x[2], x[3]) = ZoneAt(y[1], y[2], y[3]) => x = y
              /\ \A p, q \in Procs : proc[p].new = proc[q].new /\ proc[p].new # 0 => p = q
              /\ (\A n \in Nums : ~Truncating(n)) => zmap = used \cup given)
      BY DEF ZonesExact
    <2> HIDE DEF places, used, given
    <2>7. used \subseteq zmap /\ used \cap given = {}
      BY <2>0, <2>1, <2>3, <2>4 DEF Marked
    <2>8. given \subseteq zmap
      BY <2>0, <2>4 DEF Taken
    <2>9. \A x, y \in places : ZoneAt(x[1], x[2], x[3]) = ZoneAt(y[1], y[2], y[3]) => x = y
      <3> SUFFICES ASSUME NEW x \in places, NEW y \in places,
                          ZoneAt(x[1], x[2], x[3]) = ZoneAt(y[1], y[2], y[3])
                   PROVE  x = y
        OBVIOUS
      <3>1. x[1] = y[1] /\ x[2] = y[2] /\ x[3] = y[3]
        BY <2>0, <2>1 DEF Apart
      <3>2. x = <<x[1], x[2], x[3]>> /\ y = <<y[1], y[2], y[3]>>
        BY <2>1
      <3>3. <<x[1], x[2], x[3]>> = <<y[1], y[2], y[3]>>
        BY <3>1
      <3> QED BY <3>2, <3>3, Zenon
    <2>10. (\A n \in Nums : ~Truncating(n)) => zmap \subseteq used \cup given
      <3> SUFFICES ASSUME \A n \in Nums : ~Truncating(n), NEW z \in zmap, z \notin used
                   PROVE  z \in given
        OBVIOUS
      <3>1. \E p \in Procs : proc[p].new = z
        BY <2>0, <2>2 DEF Accounted
      <3>2. z # 0
        BY Constants DEF Core, Typed
      <3> QED BY <2>5, <3>1, <3>2
    <2>11. \A p, q \in Procs : proc[p].new = proc[q].new /\ proc[p].new # 0 => p = q
      BY <2>0 DEF Given
    <2> QED BY <2>6, <2>7, <2>8, <2>9, <2>10, <2>11
  <1> QED BY <1>1, ZonesInvariant, PTL
-----------------------------------------------------------------------------
\* iput and free_inode find the references and links they rely on.
LEMMA PutsNeverPanic ==
    ASSUME Core, Zoned, NEW p \in Procs, iput(p) \/ free_inode(p)
    PROVE  UNCHANGED panicked
  <1> DEFINE s == proc[p].hold
  <1>1. CASE iput(p)
    <2>1. proc[p].pc = "iput" /\ Stage(proc[p])
      BY <1>1, Here DEF iput
    <2>2. s \in Slots
      BY <2>1 DEF Stage, Using
    <2>3. inode[s].count # 0
      BY <2>2, CountMeans DEF Uses
    <2> QED BY <1>1, <2>3 DEF iput
  <1>2. CASE free_inode(p)
    <2>1. proc[p].pc = "free_inode" /\ Stage(proc[p])
      BY <1>2, Here DEF free_inode
    <2>2. s \in Slots /\ proc[p].ret = "free_inode"
      BY <2>1 DEF Stage, Using
    <2>3. latest[File(p)].nlinks = 0 /\ \A q \in Procs \ {p} : proc[q].hold # s
      BY <2>2 DEF Zoned, Sole
    <2>4. inode[s].img.nlinks = 0
      BY <2>1, <2>2, <2>3, LastImage DEF File
    <2>5. inode[s].num # 0
      BY <2>2 DEF Core, Held
    <2>6. \A q \in Procs : proc[q].empty # s
      BY <2>2, <2>5 DEF Core, Emptied
    <2>7. Users(s) = {p}
      BY <2>3, <2>6 DEF Users
    <2>8. inode[s].count = 1
      BY <2>2, <2>7, FS_Singleton DEF Core, Counted
    <2> QED BY <1>2, <2>4, <2>8 DEF free_inode
  <1> QED BY <1>1, <1>2

\* get_empty_inode has called panic() with a reference to every slot, or nobody
\* has.
Full == panicked = "get_empty_inode" /\ \A s \in Slots : inode[s].count > 0
Calm == panicked = "no" \/ Full

\* No step is a panic but get_empty_inode of a full table.
LEMMA NeverPanics ==
    ASSUME Core, Core', Zoned, ~raced', NEW p \in Procs,
           \/ Steps(p) \/ Open(p) \/ Create(p) \/ Write(p) \/ OpenTrunc(p)
           \/ Unlink(p) \/ Close(p) \/ Sync(p)
    PROVE  UNCHANGED panicked \/ Full'
  <1>0. Core /\ Core' /\ Zoned /\ ~raced' /\ p \in Procs
    OBVIOUS
  <1>1. CASE GetEmptyInode(p)
    <2>1. CASE \E s \in Slots : inode[s].count = 0
      BY <1>1, <2>1 DEF GetEmptyInode
    <2>2. CASE \A s \in Slots : inode[s].count # 0
      <3>1. panicked' = "get_empty_inode" /\ inode' = inode
        BY <1>1, <2>2 DEF GetEmptyInode, panic
      <3>2. \A s \in Slots : inode[s].count > 0
        BY <2>2, CountMeans
      <3> QED BY <3>1, <3>2 DEF Full
    <2> QED BY <2>1, <2>2
  <1>2. CASE iput(p) \/ free_inode(p)
    BY <1>0, <1>2, PutsNeverPanic
  <1>3. CASE FreeBlock(p)
    BY <1>0, <1>3, FreeCuts
  <1>4. CASE Claim(p) \/ WriteInode(p) \/ WriteDone(p) \/ Search(p) \/ Found(p) \/ ReadDone(p)
    BY <1>4 DEF Claim, WriteInode, WriteDone, Search, Found, ReadDone
  <1>5. CASE NewInode(p) \/ Enter(p) \/ SyncInodes(p)
    BY <1>5 DEF NewInode, Enter, SyncInodes
  <1>6. CASE Bmap(p) \/ NewBlock(p) \/ Truncate(p) \/ Descend(p)
    BY <1>6 DEF Bmap, NewBlock, Truncate, Descend
  <1>7. CASE Open(p) \/ Create(p) \/ Write(p) \/ OpenTrunc(p) \/ Unlink(p) \/ Close(p) \/ Sync(p)
    BY <1>7 DEF Open, Create, Write, OpenTrunc, Unlink, Close, Sync
  <1> QED BY <1>1, <1>2, <1>3, <1>4, <1>5, <1>6, <1>7 DEF Steps

\* The processor is with a process or with nobody.
Running == cpu \in Procs \cup {NULL}

\* A step leaves the processor with its process, or with nobody.
LEMMA StepsRun ==
    ASSUME Running, NEW p \in Procs,
           \/ Steps(p) \/ Open(p) \/ Create(p) \/ Write(p) \/ OpenTrunc(p)
           \/ Unlink(p) \/ Close(p) \/ Sync(p)
    PROVE  Running'
  <1>1. CASE GetEmptyInode(p) \/ Claim(p) \/ WriteInode(p) \/ WriteDone(p)
    BY <1>1 DEF GetEmptyInode, Claim, WriteInode, WriteDone, Runs, Sleeps, Waits, Running
  <1>2. CASE Search(p) \/ Found(p) \/ ReadDone(p)
    BY <1>2 DEF Search, Found, ReadDone, Got, Returns, Runs, Sleeps, Running
  <1>3. CASE NewInode(p) \/ Enter(p)
    BY <1>3 DEF NewInode, Enter, Returns, Runs, Sleeps, Running
  <1>4. CASE iput(p) \/ free_inode(p)
    BY <1>4 DEF iput, free_inode, Returns, Runs, Sleeps, Running
  <1>5. CASE SyncInodes(p)
    BY <1>5 DEF SyncInodes, Returns, Runs, Waits, Sleeps, Running
  <1>6. CASE Bmap(p) \/ NewBlock(p)
    BY <1>6 DEF Bmap, NewBlock, Onward, Returns, Sleeps, Running
  <1>7. CASE Truncate(p) \/ Descend(p)
    BY <1>7 DEF Truncate, Descend, Returns, Runs, Sleeps, Running
  <1>8. CASE FreeBlock(p)
    BY <1>8 DEF FreeBlock, Freed, Runs, Sleeps, Running
  <1>9. CASE Open(p) \/ Create(p) \/ Write(p) \/ OpenTrunc(p) \/ Unlink(p) \/ Close(p) \/ Sync(p)
    BY <1>9 DEF Open, Create, Write, OpenTrunc, Unlink, Close, Sync, Call, Runs, Running
  <1> QED BY <1>1, <1>2, <1>3, <1>4, <1>5, <1>6, <1>7, <1>8, <1>9 DEF Steps

\* What the invariants say of types.
LEMMA TypesHold ==
    ASSUME Core, Zoned, Running
    PROVE  TypeOK
  <1>0. Typed /\ Wanted
    BY DEF Core
  <1>1. ASSUME NEW s \in Slots
        PROVE  /\ inode[s].num \in Nums \cup {0} /\ inode[s].count \in Nat
               /\ inode[s].dirt \in BOOLEAN /\ inode[s].lock \in BOOLEAN
               /\ inode[s].img.nlinks \in Nat
               /\ inode[s].img.zone \in [Ways -> Zones \cup {0}]
    <2>1. inode[s] \in Entries
      BY <1>0 DEF Typed
    <2>2. inode[s].img \in Images
      BY <2>1, EntryFields
    <2>3. inode[s].img.nlinks \in Nat /\ inode[s].img.zone \in [Ways -> Zones \cup {0}]
      BY <2>2 DEF Images
    <2>4. inode[s].count \in Nat
      BY CountMeans
    <2> QED BY <2>1, <2>3, <2>4, EntryFields
  <1>2. ASSUME NEW p \in Procs
        PROVE  /\ proc[p].pc \in Labels /\ proc[p].ret \in Labels
               /\ {proc[p].hold, proc[p].empty} \subseteq Slots \cup {NULL}
               /\ proc[p].cur \in Slots \cup {NULL, NR_INODE + 1}
               /\ proc[p].chain \in Seq(Zones)
               /\ proc[p].way \in 0 .. Len(Depth) + 1
    <2>1. proc[p] \in Calls
      BY <1>0 DEF Typed
    <2>2. proc[p].way \in 0 .. Len(Depth) + 1
      BY DEF Zoned, Carried, Carry
    <2> QED BY <2>1, <2>2, CallFields
  <1>3. imap \subseteq Nums /\ zmap \subseteq Zones /\ names \subseteq Nums
        /\ entry \in [Zones -> Zones \cup {0}]
    BY <1>0 DEF Typed, Wanted
  <1> QED BY <1>1, <1>2, <1>3 DEF TypeOK, Running

\* Nothing happens after a panic.
LEMMA PanicStops ==
    ASSUME NEW p \in Procs,
           \/ Steps(p) \/ Open(p) \/ Create(p) \/ Write(p) \/ OpenTrunc(p)
           \/ Unlink(p) \/ Close(p) \/ Sync(p)
    PROVE  panicked = "no"
  <1>1. CASE Steps(p)
    BY <1>1 DEF Steps, GetEmptyInode, Claim, WriteInode, WriteDone, Search, Found, ReadDone, NewInode,
       Enter, iput, free_inode, SyncInodes, Bmap, NewBlock, Truncate, Descend, FreeBlock, At
  <1>2. CASE Open(p) \/ Create(p) \/ Write(p) \/ OpenTrunc(p) \/ Unlink(p) \/ Close(p) \/ Sync(p)
    BY <1>2 DEF Open, Create, Write, OpenTrunc, Unlink, Close, Sync, Call, At
  <1> QED BY <1>1, <1>2

\* iget, new_inode and iput keep i_count the number of references; the panics of
\* iput, free_inode and free_block are not reached, and that of get_empty_inode
\* only with a reference to every entry of the table, until two processes meet
\* in a window the code leaves.  This holds for a table of any size, also for
\* one with fewer entries than there are processes.
THEOREM CountsAreExact == Spec => []CountExact
  <1> DEFINE Inv == raced \/ (Core /\ Zoned /\ Running /\ Calm)
  <1>1. Init => Inv
    BY InitInv, ZonesEmpty DEF Init, Running, Calm
  <1>2. ASSUME Inv, [Next]_vars PROVE Inv'
    <2>1. CASE raced
      BY <1>2, <2>1, RacedStays
    <2>2. CASE raced'
      BY <2>2
    <2>3. CASE Core /\ Zoned /\ Running /\ Calm /\ ~raced' /\ UNCHANGED vars
      BY <2>3, Stays, ZonedStays DEF vars, Running, Calm, Full
    <2>4. CASE Core /\ Zoned /\ Running /\ Calm /\ ~raced' /\ Next
      <3>1. PICK p \in Procs : \/ Steps(p) \/ Open(p) \/ Create(p) \/ Write(p) \/ OpenTrunc(p)
                               \/ Unlink(p) \/ Close(p) \/ Sync(p)
        BY <2>4 DEF Next
      <3>2. Core' /\ Zoned'
        BY <2>4, <3>1, ZonesStep
      <3>3. Running'
        BY <2>4, <3>1, StepsRun
      <3>4. panicked = "no"
        BY <3>1, PanicStops
      <3>5. Calm'
        BY <2>4, <3>1, <3>2, <3>4, NeverPanics DEF Calm
      <3> QED BY <3>2, <3>3, <3>5
    <2> QED BY <1>2, <2>1, <2>2, <2>3, <2>4
  <1>3. Inv => (ReferencesExact => CountExact)
    BY TypesHold DEF ReferencesExact, CountExact, Calm, Full
  <1> QED BY <1>1, <1>2, <1>3, ReferencesAreCounted, PTL DEF Spec
=============================================================================

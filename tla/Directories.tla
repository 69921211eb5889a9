---------------------------- MODULE Directories ----------------------------
(***************************************************************************)
(* Names, fs/namei.c, and open files, fs/open.c and fs/fcntl.c.  Calls     *)
(* walk a path, look a name up and enter or remove it; every bread, iget,  *)
(* new_inode, new_block and iput on the way may sleep, so each action      *)
(* below is the code between two such calls and processes interleave       *)
(* between actions.                                                        *)
(*                                                                         *)
(* The inode table is taken from Inodes in the abstract: one inode per     *)
(* number with its i_count; iput frees an inode without links when the     *)
(* last reference goes.  Directories keep their entries in order, so that  *)
(* the pointer `de` into a block is an index; every block can be read.     *)
(* All callers are the super-user and every device is mounted on its own,  *)
(* so permission() comes down to its test of i_nlinks and find_entry's     *)
(* mount-point case does not arise.                                        *)
(***************************************************************************)
EXTENDS Integers, Sequences, FiniteSets, FiniteSetsExt

CONSTANTS
    Procs,
    Nums,       \* inode numbers; 1 is the root, 2 a directory in it, 3 a file
    Zones,      \* zones for directory blocks
    PerBlock,   \* DIR_ENTRIES_PER_BLOCK
    Calls,      \* the calls made: [op, path, new]; "open" is open for writing
                \* with O_CREAT, "excl" with O_EXCL too, "read" open for reading.
                \* A path is the names between its slashes, the last one "" when
                \* it ends in a slash, and <<>> the empty path
    NR_OPEN,    \* descriptors of a process
    NR_FILE,    \* entries of file_table
    MaxOps      \* how many calls each process makes, closes not counted

Ops == {"open", "excl", "read", "namei", "mknod", "mkdir", "unlink", "rmdir", "link"}

ASSUME DirectoryConstants ==
    /\ {1, 2, 3} \subseteq Nums /\ Nums \subseteq Nat \ {0}
    /\ {1, 2, 3} \subseteq Zones /\ Zones \subseteq Nat \ {0} /\ PerBlock \in Nat \ {0, 1}
    /\ {NR_OPEN, NR_FILE} \subseteq Nat \ {0} /\ MaxOps \in Nat /\ IsFiniteSet(Procs)
    /\ \A c \in Calls : c.op \in Ops /\ {c.path, c.new} \subseteq Seq(STRING)

VARIABLES
    inode,      \* inode[n]: i_count, i_nlinks, S_ISDIR, i_zone[] and entries;
                \* dev: "block" for S_ISBLK, "tty" for /dev/tty, "none" otherwise
    imap, zmap, \* the set bits of the bitmaps
    proc,       \* proc[p]: the call process p is in
    filp,       \* filp[p][fd]: index in file_table, 0 for none
    file,       \* file[f]: f_count and f_inode (0 while the file is not open)
    held,       \* held[p]: buffers p has from bread and has not released
    leaked,     \* buffers nobody will ever release
    panicked,   \* panic() has been called
    raced       \* history: two calls have met in a window the code leaves

fvars == <<filp, file>>
namesVars == <<inode, imap, zmap, proc, fvars, held, leaked, panicked, raced>>

Blank == [count |-> 0, nlinks |-> 0, isdir |-> FALSE, dev |-> "none", zones |-> <<>>, ents |-> <<>>]
Ent(x, n) == [name |-> x, ino |-> n]
ZonesOf(n) == {inode[n].zones[k] : k \in DOMAIN inode[n].zones}

\* How far a search of a directory is: in its block blk, with lim the number
\* of entries there were when it began; zone is the zone being read, where a
\* directory may get another one, and the zone new_block has taken.
SearchAt(b, k, z) == [blk |-> b, lim |-> k, zone |-> z]
NoScan == SearchAt(0, 0, 0)
InBlock(b) == b * PerBlock + 1 .. (b + 1) * PerBlock

NoCall(k) == [pc |-> "idle", op |-> "none", rest |-> <<>>, new |-> <<>>, dir |-> 0, inr |-> 0,
               ino |-> 0, old |-> 0, de |-> 0, scan |-> NoScan, puts |-> <<>>, next |-> "idle",
               fd |-> 0, res |-> 0, ops |-> k]

NamesTypeOK ==
    /\ \A n \in Nums : /\ inode[n].count \in Nat /\ inode[n].nlinks \in Nat
                       /\ inode[n].isdir \in BOOLEAN /\ inode[n].zones \in Seq(Zones)
    /\ imap \subseteq Nums /\ zmap \subseteq Zones
    /\ \A p \in Procs : /\ {proc[p].dir, proc[p].ino, proc[p].old, proc[p].inr, proc[p].res}
                              \subseteq Nums \cup {0}
                        /\ held[p] \in 0 .. 1 /\ proc[p].fd \in 0 .. NR_OPEN
                        /\ Len(proc[p].puts) <= 2
    /\ filp \in [Procs -> [1 .. NR_OPEN -> 0 .. NR_FILE]]
    /\ file \in [1 .. NR_FILE -> [count : Nat, ino : Nums \cup {0}]]
    /\ panicked \in BOOLEAN /\ raced \in BOOLEAN

\* The root with a directory "d" and a file "a"; current->root holds it.
RootZones == IF PerBlock < 4 THEN <<1, 3>> ELSE <<1>>
NamesInit ==
    /\ inode = [n \in Nums |->
         CASE n = 1 -> [count |-> 1, nlinks |-> 3, isdir |-> TRUE, dev |-> "none",
                        zones |-> RootZones,
                        ents |-> <<Ent(".", 1), Ent("..", 1), Ent("d", 2), Ent("a", 3)>>]
           [] n = 2 -> [count |-> 0, nlinks |-> 2, isdir |-> TRUE, dev |-> "none", zones |-> <<2>>,
                        ents |-> <<Ent(".", 2), Ent("..", 1)>>]
           [] n = 3 -> [Blank EXCEPT !.nlinks = 1]
           [] OTHER -> Blank]
    /\ imap = {1, 2, 3} /\ zmap = IF PerBlock < 4 THEN {1, 2, 3} ELSE {1, 2}
    /\ proc = [p \in Procs |-> NoCall(MaxOps)]
    /\ filp = [p \in Procs |-> [d \in 1 .. NR_OPEN |-> 0]]
    /\ file = [f \in 1 .. NR_FILE |-> [count |-> 0, ino |-> 0]]
    /\ held = [p \in Procs |-> 0]
    /\ leaked = 0 /\ panicked = FALSE /\ raced = FALSE

-----------------------------------------------------------------------------
At(p, l) == ~panicked /\ proc[p].pc = l
Become(p, r) == proc' = [proc EXCEPT ![p] = r]
Goto(p, l, s) == Become(p, [proc[p] EXCEPT !.pc = l, !.scan = s])

\* The call ends here, or goes on at label l, once the references in q (in
\* this order) are given back with iput.
PutThen(p, q, r, l) == Become(p, [r EXCEPT !.pc = "puts", !.puts = q, !.next = l])
Drop(p) == [proc[p] EXCEPT !.dir = 0, !.ino = 0, !.old = 0, !.scan = NoScan]
Fail(p, q) == PutThen(p, q, Drop(p), "idle")

\* i_nlinks-- of an unsigned char.
Less(n) == (n - 1) % 256

\* permission(dir,MAY_WRITE) for the super-user.
permission(n) == inode[n].nlinks > 0

\* find_entry, in one block: the index of the first entry with the name, or 0;
\* and whether it has another block to read.
find_entry(p) ==
    LET e == inode[proc[p].dir].ents  k == proc[p].scan
        hits == {i \in DOMAIN e : /\ i \in InBlock(k.blk) /\ i <= k.lim
                                  /\ e[i].ino # 0 /\ e[i].name = Head(proc[p].rest)}
    IN  IF hits = {} THEN 0 ELSE Min(hits)
MoreBlocks(p) == (proc[p].scan.blk + 1) * PerBlock < proc[p].scan.lim

\* add_entry, in one block: the entries that are free or beyond the last.
Spare(p) ==
    LET e == inode[proc[p].dir].ents IN
    {i \in InBlock(proc[p].scan.blk) : i > Len(e) \/ e[i].ino = 0}
NextZone(p) == proc[p].scan.blk + 2 \in DOMAIN inode[proc[p].dir].zones

\* The directory record dd with name x for inode n at index i, and without.
WithEntry(dd, i, x, n) ==
    [dd EXCEPT !.ents = IF i > Len(@) THEN Append(@, Ent(x, n)) ELSE [@ EXCEPT ![i] = Ent(x, n)]]
WithoutEntry(dd, i) == [dd EXCEPT !.ents[i].ino = 0]

\* i_zone[b] = z, z a cleared block: if there was a block, its entries are gone.
WithBlock(dd, b, z) ==
    IF b + 1 \in DOMAIN dd.zones
    THEN [dd EXCEPT !.zones = [@ EXCEPT ![b + 1] = z],
                    !.ents = [i \in DOMAIN @ |-> IF i \in InBlock(b) THEN Ent("", 0) ELSE @[i]]]
    ELSE [dd EXCEPT !.zones = Append(@, z)]

\* The windows: q has looked name x up in d and acts on what it saw; q is about
\* to enter x in d and will not find it at i any more; q is on its way to iget
\* inode n; q is in directory n.
Relies(p, d, x) == \E q \in Procs \ {p} :
    /\ proc[q].dir = d /\ proc[q].rest = <<x>>
    /\ proc[q].pc \in {"new", "block", "init", "add", "extend", "iget", "got", "empty"}
Misses(p, d, x, i) == \E q \in Procs \ {p} :
    /\ proc[q].dir = d /\ proc[q].rest = <<x>> /\ proc[q].pc = "find"
    /\ proc[q].op \notin {"read", "namei", "unlink", "rmdir"}
    /\ i > proc[q].scan.lim \/ i <= proc[q].scan.blk * PerBlock
Seeks(p, n) == \E q \in Procs \ {p} : proc[q].inr = n
Inside(p, n) == \E q \in Procs \ {p} : proc[q].dir = n

-----------------------------------------------------------------------------
\* A call ends; sys_open enters the inode n in the file it reserved, or, with
\* an error (n = 0), gives file and descriptor back.
Ends(p, n) ==
    LET d == proc[p].fd  f == filp[p][d] IN
    /\ Become(p, NoCall(proc[p].ops))
    /\ IF d = 0 THEN UNCHANGED fvars
       ELSE IF n # 0
       THEN file' = [file EXCEPT ![f] = [count |-> 1, ino |-> n]] /\ UNCHANGED filp
       ELSE file' = [file EXCEPT ![f].count = 0] /\ filp' = [filp EXCEPT ![p][d] = 0]

\* A call: get_dir starts at the root with a reference to it, or finds the path
\* empty.  sys_open before that reserves the first free descriptor and the first
\* free file, or fails.
FreeFds(p) == {d \in 1 .. NR_OPEN : filp[p][d] = 0}
FreeFiles == {f \in 1 .. NR_FILE : file[f].count = 0}

Start(p) ==
    /\ At(p, "idle") /\ proc[p].ops > 0
    /\ \E c \in Calls :
         LET opens == c.op \in {"open", "excl", "read"}
             r == [NoCall(proc[p].ops - 1) EXCEPT !.pc = "walk", !.op = c.op, !.rest = c.path,
                                                !.new = c.new, !.dir = 1]
         IN  IF c.path = <<>>
             THEN Become(p, NoCall(proc[p].ops - 1)) /\ UNCHANGED <<inode, fvars>>
             ELSE IF ~opens
             THEN /\ Become(p, r)
                  /\ inode' = [inode EXCEPT ![1].count = @ + 1]
                  /\ UNCHANGED fvars
             ELSE IF FreeFds(p) = {} \/ FreeFiles = {}
             THEN Become(p, NoCall(proc[p].ops - 1)) /\ UNCHANGED <<inode, fvars>>
             ELSE LET d == Min(FreeFds(p))  f == Min(FreeFiles) IN
                  /\ Become(p, [r EXCEPT !.fd = d])
                  /\ inode' = [inode EXCEPT ![1].count = @ + 1]
                  /\ filp' = [filp EXCEPT ![p][d] = f]
                  /\ file' = [file EXCEPT ![f] = [count |-> @.count + 1, ino |-> 0]]
    /\ UNCHANGED <<imap, zmap, held, leaked, panicked, raced>>

\* get_dir and the tests its caller makes before find_entry: in a directory,
\* with leave to search it and, if a name is to be changed, to write it.  A path
\* that ends in a slash names the directory itself: namei and an open for reading
\* return it (sys_link then refuses it), the other calls fail.
Walk(p) ==
    LET d == proc[p].dir  o == proc[p].old  bare == proc[p].rest = <<"">> IN
    /\ At(p, "walk")
    /\ CASE ~inode[d].isdir \/ ~permission(d) ->
              Fail(p, IF o = 0 THEN <<d>> ELSE <<d, o>>) /\ UNCHANGED fvars
         [] inode[d].isdir /\ permission(d) /\ bare ->
              IF proc[p].op = "read" THEN Ends(p, d)
              ELSE Fail(p, IF o = 0 THEN <<d>> ELSE <<o, d>>) /\ UNCHANGED fvars
         [] inode[d].isdir /\ permission(d) /\ ~bare ->
              /\ Goto(p, IF Len(proc[p].rest) = 1 THEN "find" ELSE "step",
                      SearchAt(0, Len(inode[d].ents), 0))
              /\ UNCHANGED fvars
    /\ UNCHANGED <<inode, imap, zmap, held, leaked, panicked, raced>>

\* find_entry goes on to the next block.
Look(p) ==
    /\ At(p, "step") \/ At(p, "find")
    /\ find_entry(p) = 0 /\ MoreBlocks(p)
    /\ Goto(p, proc[p].pc, [proc[p].scan EXCEPT !.blk = @ + 1])
    /\ UNCHANGED <<inode, imap, zmap, held, leaked, panicked, raced, fvars>>

\* get_dir, find_entry for a part of the path: on to that inode.
Step(p) ==
    LET d == proc[p].dir  i == find_entry(p) IN
    /\ At(p, "step") /\ (i # 0 \/ ~MoreBlocks(p))
    /\ IF i = 0
       THEN Fail(p, IF proc[p].old = 0 THEN <<d>> ELSE <<d, proc[p].old>>)
       ELSE PutThen(p, <<d>>, [proc[p] EXCEPT !.inr = inode[d].ents[i].ino, !.dir = 0], "iget")
    /\ UNCHANGED <<inode, imap, zmap, held, leaked, panicked, raced, fvars>>

\* find_entry for the last name, and what the calls make of its answer.
Find(p) ==
    LET d == proc[p].dir  i == find_entry(p)  op == proc[p].op
        n == inode[d].ents[i].ino
    IN
    /\ At(p, "find") /\ (i # 0 \/ ~MoreBlocks(p))
    /\ CASE op \in {"open", "excl", "read", "namei"} /\ i # 0 ->
              /\ PutThen(p, <<d>>, [proc[p] EXCEPT !.inr = IF op = "excl" THEN 0 ELSE n, !.dir = 0],
                         IF op = "excl" THEN "idle" ELSE "iget")
              /\ UNCHANGED held
         [] op \in {"unlink", "rmdir"} /\ i # 0 ->
              /\ Become(p, [proc[p] EXCEPT !.pc = "iget", !.inr = n, !.de = i])
              /\ held' = [held EXCEPT ![p] = @ + 1]
         [] op = "link" /\ proc[p].old = 0 /\ i # 0 ->
              /\ PutThen(p, <<d>>, [proc[p] EXCEPT !.inr = n, !.dir = 0], "iget")
              /\ UNCHANGED held
         [] \/ op \in {"mknod", "mkdir"} /\ i # 0
            \/ op \in {"unlink", "rmdir", "read", "namei"} /\ i = 0
            \/ op = "link" /\ proc[p].old = 0 /\ i = 0 ->
              Fail(p, <<d>>) /\ UNCHANGED held
         [] op = "link" /\ proc[p].old # 0 /\ i # 0 ->
              Fail(p, <<d, proc[p].old>>) /\ UNCHANGED held
         [] op = "link" /\ proc[p].old # 0 /\ i = 0 ->
              Goto(p, "add", NoScan) /\ UNCHANGED held
         [] op \in {"open", "excl", "mknod", "mkdir"} /\ i = 0 ->
              /\ IF op \in {"mknod", "mkdir"} \/ permission(d) THEN Goto(p, "new", NoScan)
                 ELSE Fail(p, <<d>>)
              /\ UNCHANGED held
    /\ UNCHANGED <<inode, imap, zmap, leaked, panicked, raced, fvars>>

\* iget, and what the caller does with the inode.  sys_open turns /dev/tty down
\* when the process has no terminal, which may or may not be so, and asks for a
\* block device whether the disk was changed.
Iget(p) ==
    LET n == proc[p].inr  r == [proc[p] EXCEPT !.inr = 0]  op == proc[p].op IN
    /\ At(p, "iget")
    /\ inode' = [inode EXCEPT ![n].count = @ + 1]
    /\ raced' = (raced \/ n \notin imap)
    /\ CASE op \in {"unlink", "rmdir"} /\ Len(r.rest) = 1 -> 
              Become(p, [r EXCEPT !.pc = "got", !.ino = n]) /\ UNCHANGED fvars
         [] Len(r.rest) > 1 ->
              Become(p, [r EXCEPT !.pc = "walk", !.dir = n, !.rest = Tail(r.rest)]) /\ UNCHANGED fvars
         [] op \in {"open", "read"} /\ Len(r.rest) = 1 ->
              \/ /\ (inode[n].isdir /\ op = "open") \/ ~permission(n) \/ inode[n].dev = "tty"
                 /\ PutThen(p, <<n>>, r, "idle") /\ UNCHANGED fvars
              \/ /\ ~(inode[n].isdir /\ op = "open") /\ permission(n)
                 /\ IF inode[n].dev = "block"
                    THEN Become(p, [r EXCEPT !.pc = "change", !.ino = n]) /\ UNCHANGED fvars
                    ELSE Ends(p, n)
         [] op = "namei" /\ Len(r.rest) = 1 -> PutThen(p, <<n>>, r, "idle") /\ UNCHANGED fvars
         [] op = "link" /\ Len(r.rest) = 1 ->
              /\ IF inode[n].isdir
                 THEN PutThen(p, <<n>>, r, "idle")
                 ELSE Become(p, [r EXCEPT !.pc = "again", !.old = n])
              /\ UNCHANGED fvars
    /\ UNCHANGED <<imap, zmap, held, leaked, panicked>>

\* sys_open, after check_disk_change, which sleeps and throws away what there is
\* in memory of that device, not of this one.
DiskChange(p) ==
    /\ At(p, "change")
    /\ Ends(p, proc[p].ino)
    /\ UNCHANGED <<inode, imap, zmap, held, leaked, panicked, raced>>

\* sys_link: dir_namei for the new name.
Again(p) ==
    /\ At(p, "again")
    /\ IF proc[p].new = <<>>
       THEN Fail(p, <<proc[p].old>>) /\ UNCHANGED inode
       ELSE /\ inode' = [inode EXCEPT ![1].count = @ + 1]
            /\ Become(p, [proc[p] EXCEPT !.pc = "walk", !.dir = 1, !.rest = proc[p].new])
    /\ UNCHANGED <<imap, zmap, held, leaked, panicked, raced, fvars>>

\* new_inode; sys_mknod makes a special file.
New(p) ==
    LET n == Min(Nums \ imap)  op == proc[p].op IN
    /\ At(p, "new")
    /\ IF Nums \ imap = {}
       THEN Fail(p, <<proc[p].dir>>) /\ UNCHANGED <<inode, imap>>
       ELSE /\ imap' = imap \cup {n}
            /\ \E k \in IF op = "mknod" THEN {"tty", "block"} ELSE {"none"} :
                 inode' = [inode EXCEPT ![n] = [Blank EXCEPT !.count = 1, !.nlinks = 1, !.dev = k]]
            /\ Become(p, [proc[p] EXCEPT !.ino = n, !.pc = IF op = "mkdir" THEN "block" ELSE "add"])
    /\ UNCHANGED <<zmap, held, leaked, panicked, raced, fvars>>

\* sys_mkdir: new_block marks a zone for the directory and sleeps in getblk, or
\* there is none left.
Block(p) ==
    LET n == proc[p].ino  z == Min(Zones \ zmap) IN
    /\ At(p, "block")
    /\ IF Zones \ zmap = {}
       THEN /\ inode' = [inode EXCEPT ![n].nlinks = Less(@)]
            /\ Fail(p, <<proc[p].dir, n>>)
            /\ UNCHANGED zmap
       ELSE /\ zmap' = zmap \cup {z}
            /\ Goto(p, "init", SearchAt(0, 0, z))
            /\ UNCHANGED inode
    /\ UNCHANGED <<imap, held, leaked, panicked, raced, fvars>>

\* sys_mkdir: the zone is the new inode's, which nobody else can reach yet; "."
\* and ".." go in, and it is a directory.
InitDir(p) ==
    LET n == proc[p].ino IN
    /\ At(p, "init")
    /\ inode' = [inode EXCEPT ![n].ents = <<Ent(".", n), Ent("..", proc[p].dir)>>,
                              ![n].zones = <<proc[p].scan.zone>>,
                              ![n].nlinks = 2, ![n].isdir = TRUE]
    /\ Goto(p, "add", NoScan)
    /\ UNCHANGED <<imap, zmap, held, leaked, panicked, raced, fvars>>

\* add_entry goes on to the next block of the directory.
NextBlock(p) ==
    LET k == proc[p].scan.blk IN
    /\ At(p, "add") /\ Spare(p) = {} /\ NextZone(p)
    /\ Goto(p, "add", SearchAt(k + 1, 0, inode[proc[p].dir].zones[k + 2]))
    /\ UNCHANGED <<inode, imap, zmap, held, leaked, panicked, raced, fvars>>

\* add_entry has come to the end: create_block calls new_block, which marks a
\* zone and sleeps in getblk, or there is none left and the caller gives up.
Extend(p) ==
    LET d == proc[p].dir  n == proc[p].ino  z == Min(Zones \ zmap) IN
    /\ At(p, "add") /\ Spare(p) = {} /\ ~NextZone(p)
    /\ IF Zones \ zmap # {}
       THEN /\ zmap' = zmap \cup {z}
            /\ Goto(p, "extend", SearchAt(proc[p].scan.blk, 0, z))
            /\ UNCHANGED inode
       ELSE CASE proc[p].op = "link" ->
                   Fail(p, <<d, proc[p].old>>) /\ UNCHANGED <<inode, zmap>>
              [] proc[p].op \in {"open", "excl"} ->
                   /\ inode' = [inode EXCEPT ![n].nlinks = Less(@)]
                   /\ Fail(p, <<n, d>>) /\ UNCHANGED zmap
              [] proc[p].op \in {"mknod", "mkdir"} ->
                   /\ PutThen(p, <<d>>, [proc[p] EXCEPT !.dir = 0], "unmake")
                   /\ UNCHANGED <<inode, zmap>>
    /\ UNCHANGED <<imap, held, leaked, panicked, raced, fvars>>

\* create_block stores the zone, also when another add_entry has given the
\* directory this block in the meantime.
Extended(p) ==
    LET d == proc[p].dir  b == proc[p].scan.blk + 1 IN
    /\ At(p, "extend")
    /\ inode' = [inode EXCEPT ![d] = WithBlock(inode[d], b, proc[p].scan.zone)]
    /\ Goto(p, "add", SearchAt(b, 0, proc[p].scan.zone))
    /\ raced' = (raced \/ b + 1 \in DOMAIN inode[d].zones)
    /\ UNCHANGED <<imap, zmap, held, leaked, panicked, fvars>>

\* sys_mknod and sys_mkdir give the new inode up.  sys_mkdir frees the new
\* directory's block here, before iput finds it in i_zone[0] once more.
Unmake(p) ==
    LET n == proc[p].ino  z == ZonesOf(n) IN
    /\ At(p, "unmake")
    /\ zmap' = zmap \ z
    /\ panicked' = ~(z \subseteq zmap)
    /\ raced' = (raced \/ z # {})
    /\ inode' = [inode EXCEPT ![n].nlinks = 0]
    /\ Fail(p, <<n>>)
    /\ UNCHANGED <<imap, held, leaked, fvars>>

\* Mutant: sys_mkdir does not count the ".." of the new directory.
Add_NoLink(p) ==
    LET d == proc[p].dir  n == proc[p].ino  i == Min(Spare(p))  x == Head(proc[p].rest)
        lost == proc[p].scan.zone # 0 /\ proc[p].scan.zone # inode[d].zones[proc[p].scan.blk + 1]
        dd == WithEntry(inode[d], i, x, CASE lost -> 0
                                          [] ~lost /\ proc[p].op = "link" -> proc[p].old
                                          [] ~lost /\ proc[p].op # "link" -> n)
    IN  /\ At(p, "add") /\ Spare(p) # {}
        /\ raced' = (raced \/ Relies(p, d, x) \/ Misses(p, d, x, i))
        /\ inode' = [inode EXCEPT ![d] = dd]
        /\ CASE proc[p].op \in {"open", "excl"} -> PutThen(p, <<d>>, [Drop(p) EXCEPT !.res = n], "idle")
             [] proc[p].op \in {"mknod", "mkdir"} -> Fail(p, <<d, n>>)
             [] proc[p].op = "link" -> PutThen(p, <<d>>, [proc[p] EXCEPT !.dir = 0], "linked")
        /\ UNCHANGED <<imap, zmap, held, leaked, panicked, fvars>>

\* add_entry finds room; the caller stores the inode number without a sleep, in
\* a block that may no longer be the directory's.
Add(p) ==
    LET d == proc[p].dir  n == proc[p].ino  i == Min(Spare(p))  x == Head(proc[p].rest)
        lost == proc[p].scan.zone # 0 /\ proc[p].scan.zone # inode[d].zones[proc[p].scan.blk + 1]
        dd == WithEntry(inode[d], i, x, CASE lost -> 0
                                          [] ~lost /\ proc[p].op = "link" -> proc[p].old
                                          [] ~lost /\ proc[p].op # "link" -> n)
    IN  /\ At(p, "add") /\ Spare(p) # {}
        /\ raced' = (raced \/ Relies(p, d, x) \/ Misses(p, d, x, i))
        /\ inode' = [inode EXCEPT ![d] = IF proc[p].op = "mkdir" THEN [dd EXCEPT !.nlinks = @ + 1]
                                         ELSE dd]
        /\ CASE proc[p].op \in {"open", "excl"} -> PutThen(p, <<d>>, [Drop(p) EXCEPT !.res = n], "idle")
             [] proc[p].op \in {"mknod", "mkdir"} -> Fail(p, <<d, n>>)
             [] proc[p].op = "link" -> PutThen(p, <<d>>, [proc[p] EXCEPT !.dir = 0], "linked")
        /\ UNCHANGED <<imap, zmap, held, leaked, panicked, fvars>>

\* sys_link counts the new name after iput(dir).
Linked(p) ==
    LET n == proc[p].old IN
    /\ At(p, "linked")
    /\ inode' = [inode EXCEPT ![n].nlinks = @ + 1]
    /\ Fail(p, <<n>>)
    /\ UNCHANGED <<imap, zmap, held, leaked, panicked, raced, fvars>>

\* sys_unlink: not a directory; the entry found before iget is cleared.
Unlink(p) ==
    LET d == proc[p].dir  n == proc[p].ino  i == proc[p].de IN
    /\ At(p, "got") /\ proc[p].op = "unlink"
    /\ held' = [held EXCEPT ![p] = @ - 1]
    /\ IF inode[n].isdir
       THEN Fail(p, <<n, d>>) /\ UNCHANGED <<inode, raced>>
       ELSE /\ inode' = [inode EXCEPT ![d] = WithoutEntry(inode[d], i),
                 ![n].nlinks = IF inode[n].nlinks = 0 THEN 0 ELSE Less(inode[n].nlinks)]
            /\ raced' = (raced \/ Relies(p, d, Head(proc[p].rest)) \/ inode[n].nlinks = 0
                               \/ (inode[n].nlinks = 1 /\ Seeks(p, n))
                               \/ inode[d].ents[i] # Ent(Head(proc[p].rest), n))
            /\ Fail(p, <<n, d>>)
    /\ UNCHANGED <<imap, zmap, leaked, panicked, fvars>>

\* Mutant: a refused rmdir gives back the directory only.
Rmdir_NoPut(p) ==
    LET d == proc[p].dir  n == proc[p].ino IN
    /\ At(p, "got") /\ proc[p].op = "rmdir"
    /\ IF inode[n].count > 1 \/ n = d \/ ~inode[n].isdir
       THEN /\ Fail(p, <<d>>)
            /\ held' = [held EXCEPT ![p] = @ - 1]
       ELSE Goto(p, "empty", SearchAt(0, Len(inode[n].ents), 0)) /\ UNCHANGED held
    /\ UNCHANGED <<inode, imap, zmap, leaked, panicked, raced, fvars>>

\* sys_rmdir: nobody else has it, it is not the directory itself, and it is
\* one; then empty_dir reads it.
Rmdir(p) ==
    LET d == proc[p].dir  n == proc[p].ino IN
    /\ At(p, "got") /\ proc[p].op = "rmdir"
    /\ IF inode[n].count > 1 \/ n = d \/ ~inode[n].isdir
       THEN /\ Fail(p, IF inode[n].count > 1 THEN <<d, n>> ELSE <<n, d>>)
            /\ held' = [held EXCEPT ![p] = @ - 1]
       ELSE Goto(p, "empty", SearchAt(0, Len(inode[n].ents), 0)) /\ UNCHANGED held
    /\ UNCHANGED <<inode, imap, zmap, leaked, panicked, raced, fvars>>

\* empty_dir, in one block: the first two entries are "." and ".."; no other is
\* in use.
BadDirectory(n) ==
    LET e == inode[n].ents IN
    e[1].ino # n \/ e[2].ino = 0 \/ e[1].name # "." \/ e[2].name # ".."
EntryInUse(p) ==
    LET e == inode[proc[p].ino].ents  k == proc[p].scan IN
    \E i \in InBlock(k.blk) \cap DOMAIN e : i > 2 /\ i <= k.lim /\ e[i].ino # 0

\* empty_dir goes on to the next block.
LookEmpty(p) ==
    /\ At(p, "empty") /\ ~EntryInUse(p) /\ MoreBlocks(p)
    /\ proc[p].scan.blk = 0 => ~BadDirectory(proc[p].ino)
    /\ Goto(p, "empty", [proc[p].scan EXCEPT !.blk = @ + 1])
    /\ UNCHANGED <<inode, imap, zmap, held, leaked, panicked, raced, fvars>>

\* sys_rmdir, after empty_dir has found the directory not empty, or bad (and,
\* unless it is too short to be read at all, has kept the buffer).
NotEmpty(p) ==
    LET n == proc[p].ino  k == proc[p].scan
        bad == k.blk = 0 /\ (k.lim < 2 \/ BadDirectory(n))
    IN
    /\ At(p, "empty") /\ (bad \/ EntryInUse(p))
    /\ held' = [held EXCEPT ![p] = @ - 1]
    /\ leaked' = IF bad /\ k.lim >= 2 THEN leaked + 1 ELSE leaked
    /\ Fail(p, <<n, proc[p].dir>>)
    /\ UNCHANGED <<inode, imap, zmap, panicked, raced, fvars>>

\* sys_rmdir, after empty_dir has found nothing in the last block.
Remove(p) ==
    LET d == proc[p].dir  n == proc[p].ino  i == proc[p].de  k == proc[p].scan IN
    /\ At(p, "empty") /\ ~EntryInUse(p) /\ ~MoreBlocks(p)
    /\ k.blk = 0 => k.lim >= 2 /\ ~BadDirectory(n)
    /\ held' = [held EXCEPT ![p] = @ - 1]
    /\ inode' = [inode EXCEPT
         ![d] = [WithoutEntry(inode[d], i) EXCEPT !.nlinks = Less(inode[d].nlinks)],
         ![n].nlinks = 0]
    /\ raced' = (raced \/ Relies(p, d, Head(proc[p].rest)) \/ Seeks(p, n) \/ Inside(p, n)
                       \/ inode[d].ents[i] # Ent(Head(proc[p].rest), n)
                       \/ \E m \in DOMAIN inode[n].ents : m > 2 /\ inode[n].ents[m].ino # 0)
    /\ Fail(p, <<d, n>>)
    /\ UNCHANGED <<imap, zmap, leaked, panicked, fvars>>

\* sys_close: iput when the last descriptor of the file is closed.
Close(p) ==
    /\ At(p, "idle")
    /\ \E d \in 1 .. NR_OPEN \ FreeFds(p) :
         LET f == filp[p][d] IN
         /\ filp' = [filp EXCEPT ![p][d] = 0]
         /\ IF file[f].count = 0
            THEN panicked' = TRUE /\ UNCHANGED <<proc, file>>
            ELSE /\ UNCHANGED panicked
                 /\ IF file[f].count > 1
                    THEN file' = [file EXCEPT ![f].count = @ - 1] /\ UNCHANGED proc
                    ELSE /\ file' = [file EXCEPT ![f] = [count |-> 0, ino |-> 0]]
                         /\ PutThen(p, <<file[f].ino>>, proc[p], "idle")
    /\ UNCHANGED <<inode, imap, zmap, held, leaked, raced>>

\* dupfd.
Dup(p) ==
    /\ At(p, "idle") /\ proc[p].ops > 0
    /\ \E d \in 1 .. NR_OPEN \ FreeFds(p) :
         IF FreeFds(p) = {}
         THEN UNCHANGED fvars
         ELSE /\ filp' = [filp EXCEPT ![p][Min(FreeFds(p))] = filp[p][d]]
              /\ file' = [file EXCEPT ![filp[p][d]].count = @ + 1]
    /\ Become(p, NoCall(proc[p].ops - 1))
    /\ UNCHANGED <<inode, imap, zmap, held, leaked, panicked, raced>>

\* copy_process: the child q (a process without open files stands for one that
\* is not there yet) gets all descriptors of its father.
ForkFiles(p, q) ==
    /\ p # q /\ At(p, "idle") /\ At(q, "idle") /\ FreeFds(q) = 1 .. NR_OPEN /\ proc[p].ops > 0
    /\ filp' = [filp EXCEPT ![q] = filp[p]]
    /\ file' = [f \in 1 .. NR_FILE |->
                  [file[f] EXCEPT !.count = @ + Cardinality({d \in 1 .. NR_OPEN : filp[p][d] = f})]]
    /\ Become(p, NoCall(proc[p].ops - 1))
    /\ UNCHANGED <<inode, imap, zmap, held, leaked, panicked, raced>>

\* iput of the next reference, if it is one: the last one to an inode without links frees
\* its zones (truncate, free_block) and the inode.
Put(p) ==
    LET n == Head(proc[p].puts)  z == IF inode[n].isdir THEN ZonesOf(n) ELSE {}
        q == Tail(proc[p].puts)
    IN  /\ At(p, "puts") /\ proc[p].puts # <<>>
        /\ CASE inode[n].count = 0 -> panicked' = TRUE /\ UNCHANGED <<inode, imap, zmap>>
             [] inode[n].count = 1 /\ inode[n].nlinks = 0 ->
                  /\ panicked' = ~(z \subseteq zmap)
                  /\ zmap' = zmap \ z
                  /\ imap' = imap \ {n}
                  /\ inode' = [inode EXCEPT ![n] = Blank]
             [] OTHER ->
                  /\ inode' = [inode EXCEPT ![n].count = @ - 1]
                  /\ UNCHANGED <<imap, zmap, panicked>>
        /\ IF q = <<>> /\ proc[p].next = "idle"
           THEN Ends(p, proc[p].res)
           ELSE /\ Become(p, [proc[p] EXCEPT !.puts = q,
                                             !.pc = IF q = <<>> THEN proc[p].next ELSE "puts"])
                /\ UNCHANGED fvars
        /\ UNCHANGED <<held, leaked, raced>>

NamesNext == \E p \in Procs :
    \/ Start(p) \/ Walk(p) \/ Look(p) \/ Step(p) \/ Find(p) \/ Iget(p) \/ DiskChange(p)
    \/ Again(p) \/ New(p) \/ Block(p) \/ InitDir(p) \/ NextBlock(p) \/ Extend(p) \/ Extended(p)
    \/ Unmake(p) \/ Add(p) \/ Linked(p) \/ Unlink(p) \/ Rmdir(p) \/ LookEmpty(p) \/ NotEmpty(p)
    \/ Remove(p) \/ Close(p) \/ Dup(p) \/ Put(p)
    \/ \E q \in Procs : ForkFiles(p, q)

NamesSpec == NamesInit /\ [][NamesNext]_namesVars

-----------------------------------------------------------------------------
\* The references processes have in hand: the directory, the inode and the old
\* one of sys_link, what open_namei returns, and those on the way to iput.
HandRefs(n) ==
    LET Due(k) == {p \in Procs : Len(proc[p].puts) >= k /\ proc[p].puts[k] = n} IN
    Cardinality({p \in Procs : proc[p].dir = n}) + Cardinality({p \in Procs : proc[p].ino = n})
    + Cardinality({p \in Procs : proc[p].old = n}) + Cardinality({p \in Procs : proc[p].res = n})
    + Cardinality(Due(1)) + Cardinality(Due(2))

\* Every way through every call, the error returns and paths that end in a slash
\* included, gives back exactly the references it took and the file and descriptor
\* it reserved, and the buffers it read but for the one empty_dir keeps, which
\* leaked counts: i_count is the number of references in the hands of processes
\* and of open files, f_count the number of descriptors, and only a sys_open
\* under way has a file without an inode (and everything is of its type).
Balanced ==
    /\ NamesTypeOK
    /\ ~raced => \A n \in Nums : inode[n].count = (IF n = 1 THEN 1 ELSE 0) + HandRefs(n)
                                       + Cardinality({f \in 1 .. NR_FILE : file[f].ino = n})
    /\ \A f \in 1 .. NR_FILE :
          /\ file[f].count = Cardinality({x \in Procs \X (1 .. NR_OPEN) : filp[x[1]][x[2]] = f})
          /\ file[f].count = 0 => file[f].ino = 0
          /\ file[f].count > 0 /\ file[f].ino = 0 =>
                \E p \in Procs : proc[p].fd # 0 /\ filp[p][proc[p].fd] = f
    /\ \A p \in Procs : proc[p].pc \in {"idle", "puts"} => held[p] = 0

\* The entries that refer to inode n, "." and ".." included.
Entries(n) ==
    MapThenSumSet(LAMBDA d : Len(SelectSeq(inode[d].ents, LAMBDA e : e.ino = n)),
                  {d \in imap : inode[d].isdir /\ inode[d].nlinks > 0})

\* As long as no two calls have met in a window, the tree is sound whenever no
\* call is under way: i_nlinks is the number of entries that refer to the
\* inode, each name stands once in a directory, no inode or zone is in use that
\* no directory leads to, and sys_rmdir has never come upon a bad directory.
TreeExact ==
    (~raced /\ \A p \in Procs : proc[p].pc = "idle") =>
        /\ \A n \in imap : /\ inode[n].nlinks = Entries(n)
                           /\ inode[n].nlinks > 0 \/ \E f \in 1 .. NR_FILE : file[f].ino = n
        /\ \A d \in imap : inode[d].isdir /\ inode[d].nlinks > 0 =>
              \A i, j \in DOMAIN inode[d].ents :
                 /\ inode[d].ents[i].ino \in imap \cup {0}
                 /\ inode[d].ents[i].ino # 0 /\ inode[d].ents[j].ino # 0
                    /\ inode[d].ents[i].name = inode[d].ents[j].name => i = j
        /\ zmap = UNION {ZonesOf(n) : n \in imap}
        /\ \A m, n \in imap : m # n => ZonesOf(m) \cap ZonesOf(n) = {}
        /\ leaked = 0
=============================================================================

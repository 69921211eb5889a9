------------------------------- MODULE Memory -------------------------------
(***************************************************************************)
(* Physical pages and address spaces: mm/memory.c, with the callers that   *)
(* change them, copy_process (kernel/fork.c), do_execve (fs/exec.c),       *)
(* do_exit and release (kernel/exit.c) and the writes of the kernel to     *)
(* user memory after verify_area.                                          *)
(*                                                                         *)
(* A task's linear space is a set of page addresses, grouped into page     *)
(* tables by DirOf.  Addresses in Loaded lie below end_data and are filled *)
(* from the executable, the others are filled with zeroes; Stack is the    *)
(* page the arguments of exec are put in.  The kernel is not preemptive, so*)
(* an action is the code between two points where the task may sleep.  A   *)
(* page's contents is named after who made it: "zero", an executable, or   *)
(* the task that wrote to it.                                              *)
(***************************************************************************)
EXTENDS Integers, FiniteSets

CONSTANTS
    Tasks,       \* slots of the task table, NR_TASKS of them
    InitTask,    \* the first task
    Pages,       \* the physical pages mem_map manages
    Addrs, Loaded, Stack, Dirs, DirOf,
    SysAddrs,    \* the addresses system calls write to
    Execs,       \* executables
    NULL

ASSUME MemoryConstants ==
    /\ InitTask \in Tasks /\ IsFiniteSet(Tasks) /\ IsFiniteSet(Addrs)
    /\ Loaded \subseteq Addrs /\ SysAddrs \subseteq Addrs /\ Stack \in Addrs \ Loaded
    /\ Dirs \subseteq Nat /\ IsFiniteSet(Dirs) /\ DirOf \in [Addrs -> Dirs]
    /\ Pages \subseteq Nat /\ IsFiniteSet(Pages) /\ Pages # {}
    /\ NULL \notin Pages /\ NULL \notin Tasks /\ NULL \notin Execs

VARIABLES
    mem_map,    \* mem_map[g]: how often page g is used
    contents,   \* contents[g]: what page g holds
    dir,        \* dir[t][d]: the page of the page table, or NULL
    pte,        \* pte[t][a]: [page, rw, dirty], or NULL if not present
    struct,     \* struct[t]: the page of the task structure, NULL for no task
    executable, \* executable[t]
    held,       \* held[t]: a page the task has got and not yet mapped
    pc,         \* pc[t]: <<label, address>>
    mem,        \* mem[t][a]: what the task's program must find at a
    execed      \* whether any task has called exec yet

spacevars == <<dir, pte>>
vars == <<mem_map, contents, dir, pte, struct, executable, held, pc, mem, execed>>

Values == {"zero"} \cup Execs \cup Tasks
Entries == [page : Pages, rw : BOOLEAN, dirty : BOOLEAN]

ASSUME NullIsNoEntry == NULL \notin Entries

User == <<"user", NULL>>
Labels == {User, <<"exec", NULL>>, <<"zombie", NULL>>} \cup
          {<<l, a>> : l \in {"load", "kernel_load", "verified", "retry"}, a \in Addrs}

TypeOK ==
    /\ mem_map \in [Pages -> Nat]
    /\ contents \in [Pages -> Values]
    /\ dir \in [Tasks -> [Dirs -> Pages \cup {NULL}]]
    /\ pte \in [Tasks -> [Addrs -> Entries \cup {NULL}]]
    /\ struct \in [Tasks -> Pages \cup {NULL}]
    /\ executable \in [Tasks -> Execs \cup {NULL}]
    /\ held \in [Tasks -> Pages \cup {NULL}]
    /\ pc \in [Tasks -> Labels]
    /\ mem \in [Tasks -> [Addrs -> Values]]
    /\ execed \in BOOLEAN

Zeroes == [a \in Addrs |-> "zero"]

\* The first task is init, task 1: its structure is in a page of its own.  The
\* kernel's own pages below LOW_MEM that it maps at first are not counted in
\* mem_map and are taken to be absent here.
Init ==
    LET g == CHOOSE x \in Pages : \A y \in Pages : y <= x IN
        /\ mem_map = [h \in Pages |-> IF h = g THEN 1 ELSE 0]
        /\ contents = [h \in Pages |-> "zero"]
        /\ dir = [t \in Tasks |-> [d \in Dirs |-> NULL]]
        /\ pte = [t \in Tasks |-> [a \in Addrs |-> NULL]]
        /\ struct = [t \in Tasks |-> IF t = InitTask THEN g ELSE NULL]
        /\ executable = [t \in Tasks |-> NULL]
        /\ held = [t \in Tasks |-> NULL]
        /\ pc = [t \in Tasks |-> User]
        /\ mem = [t \in Tasks |-> Zeroes]
        /\ execed = FALSE

-----------------------------------------------------------------------------
FreePages == {g \in Pages : mem_map[g] = 0}

\* The page the n-th of several calls of get_free_page returns: the search
\* goes down from the last page.
FreePage(n) == CHOOSE g \in FreePages : Cardinality({h \in FreePages : h > g}) = n - 1

Available(n) == Cardinality(FreePages) >= n

\* Task t may run: no other is about to repeat, in the kernel, the instruction
\* that faulted (the fault handler returns to it without a schedule()).
MayRun(t) == struct[t] # NULL /\ \A u \in Tasks \ {t} : pc[u][1] # "retry"

\* Task t runs, at label l.
At(t, l) == MayRun(t) /\ pc[t] = l

Present(t, a) == pte[t][a] # NULL

\* How many entries of t refer to page g.
Refs(t, g) ==
    Cardinality({a \in Addrs : Present(t, a) /\ pte[t][a].page = g}) +
    Cardinality({d \in Dirs : dir[t][d] = g})

\* Mutant: the pages in `also' are forgotten.
MapWithout_Leak(t, also) == [g \in Pages |-> mem_map[g] - Refs(t, g)]

\* free_page_tables on all of t's space, and free_page on the pages in `also'.
MapWithout(t, also) ==
    [g \in Pages |-> mem_map[g] - Refs(t, g) - (IF g \in also THEN 1 ELSE 0)]

\* do_exit, called by the task itself or by oom() in a fault of the task: the
\* space goes, the task structure stays until release.
DoExit(t, also) ==
    /\ mem_map' = MapWithout(t, also)
    /\ dir' = [dir EXCEPT ![t] = [d \in Dirs |-> NULL]]
    /\ pte' = [pte EXCEPT ![t] = [a \in Addrs |-> NULL]]
    /\ executable' = [executable EXCEPT ![t] = NULL]
    /\ pc' = [pc EXCEPT ![t] = <<"zombie", NULL>>]
    /\ held' = [held EXCEPT ![t] = NULL]
    /\ mem' = [mem EXCEPT ![t] = Zeroes]
    /\ UNCHANGED <<contents, struct, execed>>

Exit(t) == At(t, User) /\ DoExit(t, {})

\* release(), by the waiting parent; init's, task 0, never waits.
Release(t) ==
    /\ t # InitTask
    /\ At(t, <<"zombie", NULL>>)
    /\ mem_map' = [mem_map EXCEPT ![struct[t]] = @ - 1]
    /\ struct' = [struct EXCEPT ![t] = NULL]
    /\ pc' = [pc EXCEPT ![t] = User]
    /\ UNCHANGED <<contents, dir, pte, executable, held, mem, execed>>

-----------------------------------------------------------------------------
\* Mutant: nothing is write-protected.
Protected_Not(t, ds) == pte[t]

\* The entries of a task after copy_page_tables has write-protected those of
\* the page tables in ds.
Protected(t, ds) ==
    [a \in Addrs |-> IF Present(t, a) /\ DirOf[a] \in ds
                     THEN [pte[t][a] EXCEPT !.rw = FALSE] ELSE pte[t][a]]

\* The page tables of t that copy_page_tables has to copy.
Tables(t) == {d \in Dirs : dir[t][d] # NULL}

\* fork: the child u shares every page of t, write-protected on both sides.
Fork(t, u) ==
    /\ At(t, User)
    /\ struct[u] = NULL
    /\ Available(1 + Cardinality(Tables(t)))
    /\ LET new == [d \in Tables(t) |-> FreePage(2 + Cardinality({e \in Tables(t) : e < d}))]
           got == {FreePage(1)} \cup {new[d] : d \in Tables(t)}
       IN  /\ mem_map' = [g \in Pages |->
                  IF g \in got THEN 1
                  ELSE mem_map[g] + Cardinality({a \in Addrs : Present(t, a) /\ pte[t][a].page = g})]
           /\ contents' = [g \in Pages |-> IF g \in got THEN "zero" ELSE contents[g]]
           /\ struct' = [struct EXCEPT ![u] = FreePage(1)]
           /\ dir' = [dir EXCEPT ![u] = [d \in Dirs |-> IF d \in Tables(t) THEN new[d] ELSE NULL]]
    /\ pte' = [pte EXCEPT ![t] = Protected(t, Dirs), ![u] = Protected(t, Dirs)]
    /\ executable' = [executable EXCEPT ![u] = executable[t]]
    /\ mem' = [mem EXCEPT ![u] = mem[t]]
    /\ UNCHANGED <<held, pc, execed>>

\* fork without enough pages: the tables copied so far are freed again, but
\* the parent's entries in them stay write-protected.
ForkFails(t, u) ==
    LET n == Cardinality(FreePages) - 1    \* pages left after the task structure
        copied == {d \in Tables(t) : Cardinality({e \in Tables(t) : e < d}) < n}
    IN  /\ At(t, User)
        /\ struct[u] = NULL
        /\ Available(1) /\ ~Available(1 + Cardinality(Tables(t)))
        /\ pte' = [pte EXCEPT ![t] = Protected(t, copied)]
        /\ UNCHANGED <<mem_map, contents, dir, struct, executable, held, pc, mem, execed>>

-----------------------------------------------------------------------------
\* The copy un_wp_page makes of a shared page, whose dirty bit is clear.
CopyOnWrite(t, a, old) ==
    /\ mem_map' = [mem_map EXCEPT ![old] = @ - 1, ![FreePage(1)] = 1]
    /\ contents' = [contents EXCEPT ![FreePage(1)] = contents[old]]
    /\ pte' = [pte EXCEPT ![t][a] = [page |-> FreePage(1), rw |-> TRUE, dirty |-> FALSE]]

\* un_wp_page on the present entry of t at a: the only user of the page just
\* gets to write it, another gets a copy.  The task goes on at label l;
\* without a free page it is killed.
UnWp(t, a, l) ==
    LET old == pte[t][a].page IN
    \/ /\ mem_map[old] = 1
       /\ pte' = [pte EXCEPT ![t][a].rw = TRUE]
       /\ pc' = [pc EXCEPT ![t] = l]
       /\ UNCHANGED <<mem_map, contents, dir, struct, executable, held, mem, execed>>
    \/ /\ mem_map[old] # 1
       /\ Available(1)
       /\ CopyOnWrite(t, a, old)
       /\ pc' = [pc EXCEPT ![t] = l]
       /\ UNCHANGED <<dir, struct, executable, held, mem, execed>>
    \/ /\ mem_map[old] # 1
       /\ ~Available(1)
       /\ DoExit(t, {})

\* The page fault of a write to a write-protected page: do_wp_page.
DoWpPage(t, a) ==
    /\ At(t, User)
    /\ Present(t, a) /\ ~pte[t][a].rw
    /\ UnWp(t, a, User)

\* The store itself, by the program or (rw or not: the processor ignores the
\* bit in supervisor mode) by the kernel.
Store(t, a) ==
    /\ contents' = [contents EXCEPT ![pte[t][a].page] = t]
    /\ pte' = [pte EXCEPT ![t][a].dirty = TRUE]
    /\ mem' = [mem EXCEPT ![t][a] = t]
    /\ UNCHANGED <<mem_map, dir, struct, executable, held, execed>>

UserWrite(t, a) ==
    /\ At(t, User)
    /\ Present(t, a) /\ pte[t][a].rw
    /\ Store(t, a)
    /\ UNCHANGED pc

\* A system call that will write to the page at a: verify_area, then whatever
\* the call does, perhaps asleep.
VerifyArea(t, a) ==
    /\ At(t, User)
    /\ a \in SysAddrs
    /\ IF Present(t, a) /\ ~pte[t][a].rw THEN UnWp(t, a, <<"verified", a>>)
       ELSE /\ pc' = [pc EXCEPT ![t] = <<"verified", a>>]
            /\ UNCHANGED <<mem_map, contents, dir, pte, struct, executable, held, mem, execed>>

\* put_fs_byte at the end of that call.
KernelWrite(t, a) ==
    /\ At(t, <<"verified", a>>) \/ At(t, <<"retry", a>>)
    /\ Present(t, a)
    /\ Store(t, a)
    /\ pc' = [pc EXCEPT ![t] = User]

-----------------------------------------------------------------------------
HasTable(t, a) == dir[t][DirOf[a]] # NULL

\* The faults of absent pages come from the program or from KernelWrite.
Faulting(t, a) ==
    MayRun(t) /\ pc[t] \in {User, <<"verified", a>>} /\ ~Present(t, a)

\* Where t goes on after the fault: in the program, or with the kernel's store.
Resume(t, a) == [pc EXCEPT ![t] = IF @[1] \in {"user", "load"} THEN User ELSE <<"retry", a>>]

FromFile(t, a) == executable[t] # NULL /\ a \in Loaded

\* How many pages mapping address a takes besides the page itself.
TableNeeded(t, a) == IF HasTable(t, a) THEN 0 ELSE 1

\* Give t a page table for address a if it has none, with mem_map otherwise m.
MapTable(t, a, m) ==
    IF HasTable(t, a) THEN mem_map' = m /\ UNCHANGED dir
    ELSE /\ mem_map' = [m EXCEPT ![FreePage(1)] = 1]
         /\ dir' = [dir EXCEPT ![t][DirOf[a]] = FreePage(1)]

\* do_no_page, get_empty_page: a zeroed page, and a page table if needed.
EmptyPage(t, a) ==
    /\ Faulting(t, a)
    /\ ~FromFile(t, a)
    /\ \/ /\ Available(1 + TableNeeded(t, a))
          /\ mem_map' = [g \in Pages |-> IF \E n \in 1 .. 1 + TableNeeded(t, a) : g = FreePage(n)
                                         THEN 1 ELSE mem_map[g]]
          /\ contents' = [contents EXCEPT ![FreePage(1)] = "zero"]
          /\ dir' = IF HasTable(t, a) THEN dir ELSE [dir EXCEPT ![t][DirOf[a]] = FreePage(2)]
          /\ pte' = [pte EXCEPT ![t][a] = [page |-> FreePage(1), rw |-> TRUE, dirty |-> FALSE]]
          /\ pc' = Resume(t, a)
          /\ UNCHANGED <<struct, executable, held, mem, execed>>
       \/ /\ ~Available(1 + TableNeeded(t, a))
          /\ DoExit(t, {})

\* The tasks share_page finds a clean page at a in.
Sharers(t, a) ==
    {u \in Tasks \ {t} : /\ struct[u] # NULL
                         /\ executable[u] = executable[t]
                         /\ Present(u, a) /\ ~pte[u][a].dirty}

\* Mutant: the other task's entry stays writable.
Share_Writable(t, u, a) ==
    /\ MapTable(t, a, [mem_map EXCEPT ![pte[u][a].page] = @ + 1])
    /\ pte' = [pte EXCEPT ![t][a] = [pte[u][a] EXCEPT !.rw = FALSE]]

\* try_to_share: map u's page in t, write-protected in both.
Share(t, u, a) ==
    /\ MapTable(t, a, [mem_map EXCEPT ![pte[u][a].page] = @ + 1])
    /\ pte' = [pte EXCEPT ![u][a].rw = FALSE, ![t][a] = [pte[u][a] EXCEPT !.rw = FALSE]]

\* do_no_page, share_page: map the other task's page, or die for want of a table.
SharePage(t, a) ==
    /\ Faulting(t, a)
    /\ FromFile(t, a)
    /\ \E u \in Sharers(t, a) :
          \/ /\ Available(TableNeeded(t, a))
             /\ Share(t, u, a)
             /\ pc' = Resume(t, a)
             /\ UNCHANGED <<contents, struct, executable, held, mem, execed>>
          \/ /\ ~Available(TableNeeded(t, a))
             /\ DoExit(t, {})

\* do_no_page from the executable: get a page and sleep in bread_page.
LoadPage(t, a) ==
    /\ Faulting(t, a)
    /\ FromFile(t, a)
    /\ Sharers(t, a) = {}
    /\ \/ /\ Available(1)
          /\ mem_map' = [mem_map EXCEPT ![FreePage(1)] = 1]
          /\ contents' = [contents EXCEPT ![FreePage(1)] = "zero"]
          /\ held' = [held EXCEPT ![t] = FreePage(1)]
          /\ pc' = [pc EXCEPT ![t] = <<IF @ = User THEN "load" ELSE "kernel_load", a>>]
          /\ UNCHANGED <<dir, pte, struct, executable, mem, execed>>
       \/ ~Available(1) /\ DoExit(t, {})

\* The blocks are read: put_page, or free the page and die.
LoadDone(t, a) ==
    /\ At(t, <<"load", a>>) \/ At(t, <<"kernel_load", a>>)
    /\ \/ /\ Available(TableNeeded(t, a))
          /\ MapTable(t, a, mem_map)
          /\ contents' = [contents EXCEPT ![held[t]] = executable[t]]
          /\ pte' = [pte EXCEPT ![t][a] = [page |-> held[t], rw |-> TRUE, dirty |-> FALSE]]
          /\ held' = [held EXCEPT ![t] = NULL]
          /\ pc' = Resume(t, a)
          /\ UNCHANGED <<struct, executable, mem, execed>>
       \/ /\ ~Available(TableNeeded(t, a))
          /\ DoExit(t, {held[t]})

-----------------------------------------------------------------------------
\* do_execve up to the point of no return: the arguments are copied to a page
\* of their own and the executable is replaced; closing files may sleep.
ExecBegin(t, e) ==
    /\ At(t, User)
    /\ Present(t, Stack)
    /\ Available(1)
    /\ mem_map' = [mem_map EXCEPT ![FreePage(1)] = 1]
    /\ contents' = [contents EXCEPT ![FreePage(1)] = t]
    /\ held' = [held EXCEPT ![t] = FreePage(1)]
    /\ executable' = [executable EXCEPT ![t] = e]
    /\ execed' = TRUE
    /\ pc' = [pc EXCEPT ![t] = <<"exec", NULL>>]
    /\ UNCHANGED <<dir, pte, struct, mem>>

\* free_page_tables, then change_ldt puts the arguments into the new space;
\* the page table it needs comes from the pages just freed.
ExecEnd(t) ==
    LET freed == MapWithout(t, {})
        h == CHOOSE g \in Pages : freed[g] = 0 /\ \A i \in Pages : freed[i] = 0 => i <= g
    IN
    /\ At(t, <<"exec", NULL>>)
    /\ mem_map' = [freed EXCEPT ![h] = 1]
    /\ dir' = [dir EXCEPT ![t] = [d \in Dirs |-> IF d = DirOf[Stack] THEN h ELSE NULL]]
    /\ pte' = [pte EXCEPT ![t] = [a \in Addrs |->
                  IF a = Stack THEN [page |-> held[t], rw |-> TRUE, dirty |-> FALSE] ELSE NULL]]
    /\ held' = [held EXCEPT ![t] = NULL]
    /\ mem' = [mem EXCEPT ![t] = [a \in Addrs |-> IF a = Stack THEN t
                                     ELSE IF a \in Loaded THEN executable[t] ELSE "zero"]]
    /\ pc' = [pc EXCEPT ![t] = User]
    /\ UNCHANGED <<contents, struct, executable, execed>>

Next ==
    \E t \in Tasks :
        \/ \E u \in Tasks \ {t} : Fork(t, u) \/ ForkFails(t, u)
        \/ Exit(t) \/ Release(t) \/ ExecEnd(t)
        \/ \E e \in Execs : ExecBegin(t, e)
        \/ \E a \in Addrs :
              \/ UserWrite(t, a) \/ DoWpPage(t, a)
              \/ VerifyArea(t, a) \/ KernelWrite(t, a)
              \/ EmptyPage(t, a) \/ SharePage(t, a)
              \/ LoadPage(t, a) \/ LoadDone(t, a)

Spec == Init /\ [][Next]_vars

-----------------------------------------------------------------------------
\* Everything that may refer to a page: the entries of the page tables, those of
\* the page directories, the task structures, and what tasks have got and not
\* yet mapped.
Places == ({"pte"} \X Tasks \X Addrs) \cup ({"dir"} \X Tasks \X Dirs)
            \cup ({"struct", "held"} \X Tasks \X {NULL})

\* The page that place x refers to, NULL for none.
PageAt(x) ==
    CASE x[1] = "pte"    -> IF Present(x[2], x[3]) THEN pte[x[2]][x[3]].page ELSE NULL
      [] x[1] = "dir"    -> dir[x[2]][x[3]]
      [] x[1] = "struct" -> struct[x[2]]
      [] x[1] = "held"   -> held[x[2]]

Users(g) == {x \in Places : PageAt(x) = g}

\* mem_map is exact after every combination of fork, exec, faults, sharing,
\* exit and running out of memory: no page leaks, none is freed twice
\* ("trying to free free page") or while in use (and everything is of its type).
MapExact == TypeOK /\ \A g \in Pages : mem_map[g] = Cardinality(Users(g))

\* Only a page with one user is writable, so copy-on-write cannot be
\* bypassed by a stale writable entry.
WritableUnshared ==
    \A t \in Tasks, a \in Addrs : Present(t, a) /\ pte[t][a].rw => mem_map[pte[t][a].page] = 1

\* Every task finds in its memory what it wrote, what it inherited at fork,
\* what its executable holds, or zeroes, and nothing of any other task.
Isolation ==
    \A t \in Tasks, a \in Addrs : Present(t, a) => contents[pte[t][a].page] = mem[t][a]

\* As long as nobody has called exec, so that share_page never applies, fork,
\* copy-on-write, exit and the kernel's stores keep the tasks apart, also when
\* memory runs out in the middle.
ForkIsolation == ~execed => Isolation
=============================================================================

----------------------------- MODULE Processes -----------------------------
(***************************************************************************)
(* The life of processes: fork, exit, waitpid, kill, pause, the delivery   *)
(* of signals and the scheduler (kernel/fork.c, exit.c, signal.c, sched.c, *)
(* system_call.s), with the first process as init/main.c programs it.      *)
(*                                                                         *)
(* The kernel is not preemptive: a process runs until it calls schedule(). *)
(* The clock ticks in user mode only, that is, the time spent in system    *)
(* calls is not charged.  Of the signals there are SIGCHLD and SIGTERM,    *)
(* for all those whose default is to end the process; memory for a new     *)
(* task may run out.  Init handles no signal, so that it can be killed:    *)
(* slot 1 and pid 1 are then free for others.                              *)
(***************************************************************************)
EXTENDS Integers, FiniteSets

CONSTANTS
    NR_TASKS,   \* slots of task[]; slot 0 is the idle task
    PID_MAX,    \* the largest long: the pid after it is 1
    FirstPid,   \* last_pid when init runs alone
    PRIORITY,   \* of every process
    MaxForks,   \* forks of processes other than init
    Named,      \* the pids that waitpid and kill are called with
    Masks,      \* values of `blocked'
    NULL

ASSUME ProcessConstants ==
    /\ NR_TASKS \in Nat /\ NR_TASKS > 2 /\ PID_MAX \in Nat /\ PID_MAX >= NR_TASKS
    /\ FirstPid \in 1 .. PID_MAX /\ PRIORITY \in Nat \ {0} /\ MaxForks \in Nat
    /\ Named \subseteq 1 .. PID_MAX /\ {} \in Masks /\ \A m \in Masks : m \subseteq {"CHLD", "TERM"}

VARIABLES
    task,       \* task[i], i > 0: NULL or the task_struct
    current,    \* the slot that runs
    last_pid,
    shell,      \* init's variable pid: the child it waits for, 0 when none
    forks       \* history: number of forks of others than init

vars == <<task, current, last_pid, shell, forks>>

Slots == 1 .. NR_TASKS - 1
Used == {i \in Slots : task[i] # NULL}
Signals == {"CHLD", "TERM"}
ANY == -1

TaskStructs == [pid : 1 .. PID_MAX, father : 0 .. PID_MAX, state : {"run", "int", "unint", "zombie"},
          counter : 0 .. 2 * PRIORITY, signal : SUBSET Signals, blocked : Masks,
          pc : {"user", "ret", "wait", "pause", "close", "closed"}, arg : {ANY} \cup 0 .. PID_MAX,
          session : 0 .. PID_MAX, leader : BOOLEAN]

ASSUME NullIsNoStruct == NULL \notin TaskStructs

TypeOK ==
    /\ task \in [Slots -> TaskStructs \cup {NULL}]
    /\ current = 0 \/ current \in Used
    /\ last_pid \in 1 .. PID_MAX /\ shell \in 0 .. PID_MAX /\ forks \in 0 .. MaxForks

\* The idle task has forked init; other processes may have come and gone.
Init ==
    /\ task = [i \in Slots |->
                 IF i = 1 THEN [pid |-> 1, father |-> 0, state |-> "run", counter |-> PRIORITY,
                                signal |-> {}, blocked |-> {}, pc |-> "user", arg |-> 0,
                                session |-> 0, leader |-> FALSE]
                 ELSE NULL]
    /\ current = 1 /\ last_pid = FirstPid /\ shell = 0 /\ forks = 0

-----------------------------------------------------------------------------
\* schedule(), with t the tasks as they are when it is called: an interruptible
\* task with a signal it does not block is made runnable, ...
Woken(t) ==
    [i \in Slots |-> IF t[i] # NULL /\ t[i].state = "int" /\ t[i].signal \ t[i].blocked # {}
                     THEN [t[i] EXCEPT !.state = "run"] ELSE t[i]]

\* ... all counters are set anew when no runnable task has any left, ...
Runnable(t) == {i \in Slots : t[i] # NULL /\ t[i].state = "run"}
Recharged(t) ==
    [i \in Slots |-> IF t[i] # NULL /\ t[i].state # "zombie"
                     THEN [t[i] EXCEPT !.counter = @ \div 2 + PRIORITY] ELSE t[i]]

\* Mutant: only the runnable task with the lowest slot is given a new counter.
Charged_One(t) ==
    IF Runnable(t) # {} /\ \A i \in Runnable(t) : t[i].counter = 0
    THEN [t EXCEPT ![CHOOSE i \in Runnable(t) : \A j \in Runnable(t) : i <= j].counter = PRIORITY]
    ELSE t
Charged(t) ==
    IF Runnable(t) # {} /\ \A i \in Runnable(t) : t[i].counter = 0 THEN Recharged(t) ELSE t

\* ... and the runnable task with the largest counter runs, of several the last.
Best(t) ==
    IF Runnable(t) = {} THEN 0
    ELSE CHOOSE i \in Runnable(t) : \A j \in Runnable(t) :
            t[i].counter > t[j].counter \/ (t[i].counter = t[j].counter /\ i >= j)

schedule(t) == \E w \in {Woken(t)} : \E c \in {Charged(w)} : task' = c /\ current' = Best(c)

\* The idle task calls pause() for ever.
Idle ==
    /\ current = 0
    /\ schedule(task)
    /\ UNCHANGED <<last_pid, shell, forks>>

\* do_timer in user mode; then ret_from_sys_call.
Tick ==
    /\ current # 0 /\ task[current].pc = "user"
    /\ LET t == [task EXCEPT ![current].counter = IF @ > 0 THEN @ - 1 ELSE 0, ![current].pc = "ret"]
       IN  IF t[current].counter = 0 THEN schedule(t) ELSE task' = t /\ UNCHANGED current
    /\ UNCHANGED <<last_pid, shell, forks>>

-----------------------------------------------------------------------------
InUser == current # 0 /\ task[current].pc = "user"
Me == task[current]
\* Init is the process whose father is the idle task.
IsInit == Me.father = 0

\* A system call without sleep ends; the tasks are then t.
Return(t) == task' = [t EXCEPT ![current].pc = "ret", ![current].arg = 0] /\ UNCHANGED current

\* find_empty_process: the pids in use are passed over, ...
InUse == {task[i].pid : i \in Used}
\* Mutant: the next pid is taken as it is.
NextPid_Blind == IF last_pid < PID_MAX THEN last_pid + 1 ELSE 1
NextPid ==
    LET after(n) == ((last_pid + n - 1) % PID_MAX) + 1
        d == CHOOSE n \in 1 .. PID_MAX : /\ after(n) \notin InUse
                                         /\ \A k \in 1 .. n - 1 : after(k) \in InUse
    IN  after(d)

\* ... and copy_process, when there is a slot and memory: the child begins
\* where the father's system call returns.  Init forks a shell when it has none,
\* again and again if that fails; the shell first of all calls setsid.
Fork ==
    /\ InUser /\ IF IsInit THEN shell = 0 ELSE forks < MaxForks
    /\ last_pid' = NextPid
    /\ LET free == Slots \ Used  nr == CHOOSE i \in free : \A j \in free : i <= j IN
       \/ /\ free # {}
          /\ Return([task EXCEPT ![nr] = [Me EXCEPT !.pid = NextPid, !.father = Me.pid,
                                            !.counter = PRIORITY, !.signal = {}, !.pc = "ret",
                                            !.leader = IsInit,
                                            !.session = IF IsInit THEN NextPid ELSE @]])
          /\ shell' = IF IsInit THEN NextPid ELSE shell
          /\ forks' = IF IsInit THEN forks ELSE forks + 1
       \/ Return(task) /\ UNCHANGED <<shell, forks>>

\* do_exit first gives the children to process 1; whatever is in slot 1 gets a
\* signal for those that are zombies.
ExitStart(t) ==
    LET dead == \E i \in Slots : t[i] # NULL /\ t[i].father = Me.pid /\ t[i].state = "zombie" IN
    [i \in Slots |->
        IF t[i] = NULL THEN NULL
        ELSE [t[i] EXCEPT !.father = IF @ = Me.pid THEN 1 ELSE @,
                          !.pc = IF i = current THEN "close" ELSE @,
                          !.signal = IF i = 1 /\ dead THEN @ \cup {"CHLD"} ELSE @]]

Exit ==
    /\ InUser /\ ~IsInit
    /\ task' = ExitStart(task)
    /\ UNCHANGED <<current, last_pid, shell, forks>>

\* Closing files and the iputs may sleep (once, here); an interrupt ends the
\* sleep.
ExitSleep ==
    /\ current # 0 /\ Me.pc = "close"
    /\ schedule([task EXCEPT ![current].state = "unint", ![current].pc = "closed"])
    /\ UNCHANGED <<last_pid, shell, forks>>

Wake(i) ==
    /\ task[i] # NULL /\ task[i].state = "unint"
    /\ task' = [task EXCEPT ![i].state = "run"]
    /\ UNCHANGED <<current, last_pid, shell, forks>>

\* tell_father: a signal for the first task with that pid; without one, and
\* that is init's case, the task releases itself.  Mutant: the father is not told.
tell_father_Silent(t) ==
    IF \E i \in Used : task[i].pid = Me.father THEN t ELSE [t EXCEPT ![current] = NULL]
tell_father(t) ==
    IF \E i \in Used : task[i].pid = Me.father
    THEN [t EXCEPT ![CHOOSE i \in Used : /\ task[i].pid = Me.father
                                         /\ \A j \in Used : task[j].pid = Me.father => i <= j].signal
                     = @ \cup {"CHLD"}]
    ELSE [t EXCEPT ![current] = NULL]

\* kill_session, if the process leads its session: SIGHUP, which ends a process
\* as SIGTERM does.
kill_session ==
    [i \in Slots |-> IF i \in Used /\ Me.leader /\ task[i].session = Me.session
                        /\ task[i].state # "zombie"
                     THEN [task[i] EXCEPT !.signal = @ \cup {"TERM"}] ELSE task[i]]

\* The end of do_exit.  Signals, mask, counter and session of a zombie are not
\* looked at again.
ExitEnd ==
    /\ current # 0 /\ Me.pc \in {"close", "closed"}
    /\ schedule(tell_father([kill_session EXCEPT ![current] =
                    [@ EXCEPT !.state = "zombie", !.signal = {}, !.blocked = {}, !.counter = 0,
                              !.session = 0, !.leader = FALSE]]))
    /\ UNCHANGED <<last_pid, shell, forks>>

\* sys_waitpid for one child or (ANY) all: the zombie in the last slot is
\* released, which calls schedule(); without one the process sleeps as long as
\* it has a child.
Matches(i, pid) == i # current /\ task[i].father = Me.pid /\ (pid = ANY \/ task[i].pid = pid)
Scan(pid, hang) ==
    LET kids == {i \in Used : Matches(i, pid)}
        dead == {i \in kids : task[i].state = "zombie"}
        z == CHOOSE i \in dead : \A j \in dead : i >= j
    IN  IF dead # {}
        THEN /\ schedule([task EXCEPT ![z] = NULL, ![current].pc = "ret", ![current].arg = 0])
             /\ shell' = IF IsInit /\ task[z].pid = shell THEN 0 ELSE shell
        ELSE /\ IF kids # {} /\ hang
                THEN schedule([task EXCEPT ![current].pc = "wait", ![current].arg = pid,
                                           ![current].state = "int"])
                ELSE Return(task)
             /\ UNCHANGED shell

\* Init calls wait() as long as its shell lives.
Waitpid(pid, hang) ==
    /\ InUser /\ (IsInit => shell # 0 /\ pid = ANY /\ hang)
    /\ Scan(pid, hang)
    /\ UNCHANGED <<last_pid, forks>>

\* waitpid goes on after schedule(): SIGCHLD is forgotten, any other signal
\* ends the call.
WaitAgain ==
    /\ current # 0 /\ Me.pc = "wait"
    /\ IF Me.signal \subseteq {"CHLD"}
       THEN /\ Me.signal # {}
            /\ task' = [task EXCEPT ![current].signal = {}]
            /\ UNCHANGED <<current, shell>>
       ELSE Return([task EXCEPT ![current].signal = @ \ {"CHLD"}]) /\ UNCHANGED shell
    /\ UNCHANGED <<last_pid, forks>>

WaitScan ==
    /\ current # 0 /\ Me.pc = "wait" /\ Me.signal = {}
    /\ Scan(Me.arg, TRUE)
    /\ UNCHANGED <<last_pid, forks>>

\* sys_pause; sys_kill; sys_ssetmask.
Pause ==
    /\ InUser /\ ~IsInit
    /\ schedule([task EXCEPT ![current].pc = "pause", ![current].state = "int"])
    /\ UNCHANGED <<last_pid, shell, forks>>

Paused ==
    /\ current # 0 /\ Me.pc = "pause"
    /\ Return(task)
    /\ UNCHANGED <<last_pid, shell, forks>>

Kill(pid) ==
    /\ InUser /\ ~IsInit /\ pid \in InUse
    /\ Return([i \in Slots |-> IF i \in Used /\ task[i].pid = pid /\ task[i].state # "zombie"
                               THEN [task[i] EXCEPT !.signal = @ \cup {"TERM"}] ELSE task[i]])
    /\ UNCHANGED <<last_pid, shell, forks>>

SetMask(m) ==
    /\ InUser /\ ~IsInit /\ m # Me.blocked
    /\ Return([task EXCEPT ![current].blocked = m])
    /\ UNCHANGED <<last_pid, shell, forks>>

\* ret_from_sys_call: one signal is taken, SIGTERM (15) before SIGCHLD (17);
\* the default of SIGCHLD is nothing, that of SIGTERM do_exit.  A process may
\* ignore or handle SIGTERM; init does not.
Deliver ==
    LET open == Me.signal \ Me.blocked
        s == IF "TERM" \in open THEN "TERM" ELSE "CHLD"
        t == [task EXCEPT ![current].signal = @ \ {s}, ![current].pc = "user"]
    IN  /\ current # 0 /\ Me.pc = "ret"
        /\ \/ open = {} /\ task' = [task EXCEPT ![current].pc = "user"]
           \/ open # {} /\ ~(IsInit /\ s = "TERM") /\ task' = t
           \/ s \in open /\ s = "TERM" /\ task' = ExitStart(t)
        /\ UNCHANGED <<current, last_pid, shell, forks>>

-----------------------------------------------------------------------------
Kernel == Idle \/ Deliver \/ ExitEnd \/ WaitAgain \/ WaitScan \/ Paused
InitRuns == InUser /\ IsInit /\ (Fork \/ Waitpid(ANY, TRUE))

Next ==
    \/ Tick \/ Kernel \/ ExitSleep
    \/ Fork \/ Exit \/ Pause
    \/ \E pid \in {ANY} \cup Named, hang \in BOOLEAN : Waitpid(pid, hang)
    \/ \E pid \in Named : Kill(pid)
    \/ \E m \in Masks : SetMask(m)
    \/ \E i \in Slots : Wake(i)

\* The clock ticks; what runs in the kernel goes on, and the idle task loops;
\* those that wait for a disk are woken; and init forks and waits.  Nothing is
\* assumed of the other programs.
Spec == /\ Init /\ [][Next]_vars
        /\ SF_vars(Tick) /\ WF_vars(Kernel)
        /\ \A i \in Slots : WF_vars(Wake(i))
        /\ SF_vars(InitRuns)

-----------------------------------------------------------------------------
Lives(r) == r.state # "zombie" /\ r.pc \notin {"close", "closed"}
InitLives == \E i \in Used : task[i].father = 0 /\ Lives(task[i])

\* Every process has a father that lives and has not begun to exit, so that
\* somebody can be told of its end and wait for it, but for two: init itself,
\* and those that are left to process 1 after init has been killed.  Of these
\* alone does tell_father print "BAD BAD - no father found".  The pids that
\* say who is whose father are unique, also when those of the dead are used
\* again (and everything is of its type).
FatherLives ==
    /\ TypeOK
    /\ \A i \in Used :
        /\ \A j \in Used : i # j => task[i].pid # task[j].pid
        /\ \/ task[i].father = 0 /\ task[i].pid = 1
           \/ task[i].father = 1 /\ ~InitLives
           \/ \E j \in Used : task[j].pid = task[i].father /\ Lives(task[j])

\* What has become an orphan does not stay a zombie: init reaps it, unless it
\* is killed, or every fork of the shell it has to start fails, for want of
\* slots or memory: it then tries for ever and does not wait.
OrphansReaped ==
    \A i \in Slots \ {1} : (task[i] # NULL /\ task[i].state = "zombie" /\ task[i].father = 1)
                     ~> \/ task[i] = NULL \/ task[i].state # "zombie"
                        \/ ~InitLives \/ [](shell = 0)

\* A process that waits, with SIGCHLD not blocked, learns of the end of the
\* child it waits for, unless it has got the pid of the killed init, and with
\* it the orphans, of which the task in slot 1 is told.
WaitReturns ==
    \A i \in Slots :
        (/\ i \in Used /\ task[i].pc = "wait" /\ "CHLD" \notin task[i].blocked
         /\ task[i].pid = 1 => task[i].father = 0
         /\ \E c \in Used : /\ task[c].state = "zombie" /\ task[c].father = task[i].pid
                           /\ task[i].arg \in {ANY, task[c].pid})
        ~> (i \notin Used \/ task[i].pc # "wait")

\* No zombie stays for which somebody waits.
Reaped == OrphansReaped /\ WaitReturns

\* A runnable process runs in the end, whatever the others do, as long as they
\* do not fork for ever (every child starts with a full counter).
NoStarvation == \A i \in Slots : (i \in Runnable(task)) ~> (current = i \/ i \notin Runnable(task))
=============================================================================
